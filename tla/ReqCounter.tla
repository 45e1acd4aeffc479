------------------------------ MODULE ReqCounter ------------------------------
(***************************************************************************)
(* The request counter across worker threads.  The threads share the      *)
(* total_req_left and total_req_send (size_t, modelled modulo 2^Width).    *)
(* submit_request loads total_req_left, returns if it is 0, and only then  *)
(* post-decrements it: the load and the decrement are two separate atomic  *)
(* operations, so they are two steps here (Check, Dec) and other threads   *)
(* run in between.  Each thread's streams complete as a success or a       *)
(* failure; a thread may also stop issuing because its clients failed.     *)
(* When every thread has been joined, main sums the worker stats and       *)
(* computes the requests "not issued" in size_t.                           *)
(*                                                                         *)
(* In count mode (-n) the counter starts at nreqs; in timing mode (-D      *)
(* without --qps) it starts at SIZE_MAX and each worker's duration_timeout_cb *)
(* stores 0 into it when that worker's duration is over.                   *)
(*                                                                         *)
(* The per-worker client machinery is H2LoadWorker; here a thread is       *)
(* abstracted to its submits and completions, with at most MaxStreams      *)
(* requests of its own in flight.                                          *)
(***************************************************************************)
EXTENDS Naturals, FiniteSets, FiniteSetsExt

CONSTANTS Modes,       \* the modes a run may be in: "count", "timing"
          Threads,     \* the worker threads (-t)
          NReqs,       \* config.nreqs (-n)
          Width,       \* the width of size_t, scaled down
          MaxStreams   \* the requests a thread can have in flight at once

ASSUME NReqs \in Nat /\ Width \in Nat \ {0} /\ NReqs < 2^Width
ASSUME MaxStreams \in Nat \ {0} /\ Modes \subseteq {"count", "timing"}

\* Unsigned arithmetic of size_t.
Word == 2^Width
SizeT(n) == n % Word

VARIABLES mode,          \* the run's mode
          totalReqLeft,  \* the atomic total_req_left
          totalReqSend,  \* the atomic total_req_send
          pc,            \* where each thread is in its submit loop
          armed,         \* the thread's duration_watcher is pending
          inflight,      \* requests a thread sent that have not completed
          success,       \* worker stats.req_status_success
          failed,        \* worker stats.req_failed
          joined,        \* main has joined every thread
          report         \* the joined stats computed by main

vars == <<mode, totalReqLeft, totalReqSend, pc, armed, inflight, success, failed, joined,
          report>>

Report == [success : 0..Word - 1, failed : 0..Word - 1, notIssued : 0..Word - 1]

(* config.nreqs after validation: -n in count mode, SIZE_MAX in timing    *)
(* mode.                                                                   *)
NReqsOf(m) == IF m = "timing" THEN Word - 1 ELSE NReqs

(* total_req_left.store(config.nreqs) in main, before the threads start;   *)
(* the worker stats start at zero.                                         *)
Init ==
    /\ mode \in Modes
    /\ totalReqLeft = NReqsOf(mode)
    /\ totalReqSend = 0
    /\ pc = [t \in Threads |-> "idle"]
    /\ armed = [t \in Threads |-> mode = "timing"]
    /\ inflight = [t \in Threads |-> 0]
    /\ success = [t \in Threads |-> 0]
    /\ failed = [t \in Threads |-> 0]
    /\ joined = FALSE
    /\ report = [success |-> 0, failed |-> 0, notIssued |-> 0]

\* A mutant of Check: the stream cap of the session is not respected.
CheckNoBound(t) ==
    /\ pc[t] = "idle"
    /\ pc' = [pc EXCEPT ![t] = IF totalReqLeft = 0 THEN "done" ELSE "dec"]
    /\ UNCHANGED <<mode, totalReqLeft, totalReqSend, armed, inflight, success, failed, joined, report>>

(* submit_request, not QPS: `if (total_req_left.load() <= 0) return -1`.   *)
(* What a -1 does depends on the caller: on_stream_close has already      *)
(* terminated the session, so the thread's submitting ends; but           *)
(* connection_made breaks its submit loop without terminate_session      *)
(* (lines 853-861) and leaves the client connected and idle.              *)
Check(t) ==
    /\ pc[t] = "idle"
    /\ inflight[t] < MaxStreams
    /\ pc' \in IF totalReqLeft = 0 THEN {[pc EXCEPT ![t] = "done"], pc}
                                    ELSE {[pc EXCEPT ![t] = "dec"]}
    /\ UNCHANGED <<mode, totalReqLeft, totalReqSend, armed, inflight, success, failed, joined, report>>

(* `size_t req_left = total_req_left--; if (req_left <= 0) return -1;`     *)
(* then `total_req_send++` and the stream is submitted.  The decrement     *)
(* happens whatever the old value was, so 0 wraps to SIZE_MAX.             *)
Dec(t) ==
    LET old == totalReqLeft IN
    /\ pc[t] = "dec"
    /\ totalReqLeft' = SizeT(old - 1)
    /\ IF old = 0
         THEN /\ pc' = [pc EXCEPT ![t] = "done"]
              /\ UNCHANGED <<totalReqSend, inflight>>
         ELSE /\ pc' = [pc EXCEPT ![t] = "idle"]
              /\ totalReqSend' = SizeT(totalReqSend + 1)
              /\ inflight' = [inflight EXCEPT ![t] = @ + 1]
    /\ UNCHANGED <<mode, armed, success, failed, joined, report>>

(* The thread's clients all failed: in count mode no watcher is left and   *)
(* the worker's loop returns without taking the rest of the budget; in     *)
(* timing mode the loop still waits for its duration timer.                *)
GiveUp(t) ==
    /\ pc[t] = "idle"
    /\ pc' = [pc EXCEPT ![t] = "done"]
    /\ UNCHANGED <<mode, totalReqLeft, totalReqSend, armed, inflight, success, failed, joined, report>>

(* A request completes: on_stream_close counts req_status_success for a    *)
(* successful status, and process_abandoned_streams counts req_failed.     *)
Complete(t) ==
    /\ inflight[t] > 0
    /\ inflight' = [inflight EXCEPT ![t] = @ - 1]
    /\ \E ok \in BOOLEAN :
         IF ok THEN /\ success' = [success EXCEPT ![t] = SizeT(@ + 1)]
                    /\ UNCHANGED failed
               ELSE /\ failed' = [failed EXCEPT ![t] = SizeT(@ + 1)]
                    /\ UNCHANGED success
    /\ UNCHANGED <<mode, totalReqLeft, totalReqSend, pc, armed, joined, report>>

(* duration_timeout_cb, between two callbacks of its own thread:          *)
(* total_req_left.store(0), then stop_all_clients drops the requests in    *)
(* flight without counting them, and ev_break ends the loop.  Other        *)
(* threads may be anywhere, between their load and decrement included.     *)
DurationEnd(t) ==
    /\ armed[t]
    /\ pc[t] # "dec"
    /\ totalReqLeft' = 0
    /\ armed' = [armed EXCEPT ![t] = FALSE]
    /\ pc' = [pc EXCEPT ![t] = "done"]
    /\ inflight' = [inflight EXCEPT ![t] = 0]
    /\ UNCHANGED <<mode, totalReqSend, success, failed, joined, report>>

(* The thread has returned from Worker::run and its future is ready.       *)
Returned(t) == pc[t] = "done" /\ ~armed[t] /\ inflight[t] = 0
(* main after joining the futures: the per-worker stats are summed, then   *)
(* `req_not_issued = nreqs - req_status_success - req_failed` in size_t,   *)
(* set to 0 in timing mode, and req_failed += req_not_issued.              *)
Join ==
    LET s == SizeT(MapThenSumSet(LAMBDA t : success[t], Threads))
        f == SizeT(MapThenSumSet(LAMBDA t : failed[t], Threads))
        notIssued == IF mode = "timing" THEN 0 ELSE SizeT(NReqsOf(mode) - s - f)
    IN  /\ ~joined
        /\ joined' = TRUE
        /\ \A t \in Threads : Returned(t)
        /\ report' = [success |-> s, failed |-> SizeT(f + notIssued),
                      notIssued |-> notIssued]
        /\ UNCHANGED <<mode, totalReqLeft, totalReqSend, pc, armed, inflight, success, failed>>

Next ==
    \/ \E t \in Threads :
         Check(t) \/ Dec(t) \/ GiveUp(t) \/ Complete(t) \/ DurationEnd(t)
    \/ Join
    \/ (joined /\ UNCHANGED vars)

(* A thread's loop keeps running its callbacks, the server answers the     *)
(* requests in flight, the duration timer fires, and main joins once every *)
(* future is ready.  Giving up is a failure of the server and not assumed. *)
Fairness ==
    /\ \A t \in Threads : WF_vars(Check(t)) /\ WF_vars(Dec(t))
    /\ \A t \in Threads : WF_vars(Complete(t)) /\ WF_vars(DurationEnd(t))
    /\ WF_vars(Join)

Spec == Init /\ [][Next]_vars /\ Fairness

-----------------------------------------------------------------------------

TypeOK ==
    /\ mode \in Modes
    /\ armed \in [Threads -> BOOLEAN]
    /\ totalReqLeft \in 0..Word - 1
    /\ totalReqSend \in 0..Word - 1
    /\ pc \in [Threads -> {"idle", "dec", "done"}]
    /\ inflight \in [Threads -> 0..MaxStreams]
    /\ success \in [Threads -> 0..Word - 1]
    /\ failed \in [Threads -> 0..Word - 1]
    /\ joined \in BOOLEAN
    /\ report \in Report

(* The shared counter implements the request budget (ReqBudget): every     *)
(* change submit_request makes to total_req_left and total_req_send is one *)
(* request taken from a budget that is not exhausted, and the store(0) of  *)
(* duration_timeout_cb closes the budget for every thread.                 *)
Budget == INSTANCE ReqBudget WITH Budgets <- {NReqsOf(m) : m \in Modes},
                                  left <- totalReqLeft, sent <- totalReqSend
BudgetRefined == Budget!Spec
=============================================================================
