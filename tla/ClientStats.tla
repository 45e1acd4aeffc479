---------------------------- MODULE ClientStats ----------------------------
(***************************************************************************)
(* The timing statistics of one Worker (src/src/h2load.cc): the time      *)
(* points each Client keeps in its ClientStat (client start and end,      *)
(* connect start, connect, first byte), the RequestStat of each request, *)
(* the lists Worker::stats.req_stats and client_stats they are copied     *)
(* into, and the reduction process_time_stats / compute_time_stat the     *)
(* orchestrator applies once the worker has returned.                     *)
(*                                                                         *)
(* Time is a logical clock "now" in 1..MaxTime; a time point is 0 while   *)
(* it is not recorded, as recorded() tests (time_since_epoch != 0).  The  *)
(* session code that calls record_request_time and record_ttfb is not in  *)
(* this repository: those calls are environment steps (Submit and         *)
(* FirstByte) of a connected client.  One client has at most one request  *)
(* in flight here; budgets and status classes are H2LoadWorker's.         *)
(***************************************************************************)
EXTENDS Integers, Sequences, SequencesExt, FiniteSets, TimeStat

CONSTANTS
  Clients,   \* the worker's clients (model values)
  MaxTime,   \* bound: the logical clock runs over 1..MaxTime
  MaxReqs    \* bound: requests submitted by the worker

ASSUME MaxTime \in Nat \ {0} /\ MaxReqs \in Nat

Stamps == 0..MaxTime
CStat == [start : Stamps, end : Stamps, cstart : Stamps, conn : Stamps,
          ttfb : Stamps, success : 0..MaxReqs]
ReqStat == [request : Stamps, close : Stamps, completed : BOOLEAN]
Kinds == {"request", "connect", "ttfb", "rps"}

VARIABLES
  timing,       \* config.is_timing_based_mode()
  phase,        \* worker->current_phase
  now,          \* std::chrono::steady_clock::now()
  cstate,       \* Client::state: "IDLE", "CONNECTING" (connect() issued,
                \* writecb not yet run) or "CONNECTED"
  cstat,        \* Client::cstat
  reqTime,      \* request_time of the client's stream in flight, 0 if none
  sent,         \* requests submitted so far
  reqStats,     \* Worker::stats.req_stats
  clientStats,  \* Worker::stats.client_stats
  mainStart,    \* history: the time MAIN_DURATION began
  reduced,      \* the orchestrator has run process_time_stats
  result        \* its SDStats, by kind

vars == <<timing, phase, now, cstate, cstat, reqTime, sent, reqStats,
          clientStats, mainStart, reduced, result>>

Recorded(t) == t # 0

\* Client::record_client_start_time: only the first time.
ClientStart(cs) ==
  IF Recorded(cs.start) THEN cs ELSE [cs EXCEPT !.start = now]

\* Mutation: clear_connect_times leaves the first-byte time.
ClearConnectTimesKeepTtfb(cs) == [cs EXCEPT !.cstart = 0, !.conn = 0]

\* Client::clear_connect_times.
ClearConnectTimes(cs) == [cs EXCEPT !.cstart = 0, !.conn = 0, !.ttfb = 0]

\* Client::record_connect_start_time.
ConnectStart(cs) == [cs EXCEPT !.cstart = now]

\* The three calls Client::connect and warmup_timeout_cb make in a row.
Restamp(cs) == ConnectStart(ClearConnectTimes(ClientStart(cs)))

\* Client::record_ttfb: only the first byte after the times were cleared.
RecordTtfb(cs) == IF Recorded(cs.ttfb) THEN cs ELSE [cs EXCEPT !.ttfb = now]

\* A new Worker (its phase) and its new Clients (idle, nothing recorded).
Init ==
  /\ timing \in BOOLEAN
  /\ phase = IF timing THEN "INITIAL_IDLE" ELSE "MAIN_DURATION"
  /\ now = 1
  /\ cstate = [c \in Clients |-> "IDLE"]
  /\ cstat = [c \in Clients |-> [start |-> 0, end |-> 0, cstart |-> 0,
                                 conn |-> 0, ttfb |-> 0, success |-> 0]]
  /\ reqTime = [c \in Clients |-> 0]
  /\ sent = 0
  /\ reqStats = <<>>
  /\ clientStats = <<>>
  /\ mainStart = IF timing THEN 0 ELSE 1
  /\ reduced = FALSE
  /\ result = [k \in Kinds |-> EmptyStat]

Tick ==
  /\ ~reduced /\ now < MaxTime
  /\ now' = now + 1
  /\ UNCHANGED <<timing, phase, cstate, cstat, reqTime, sent, reqStats,
                 clientStats, mainStart, reduced, result>>

(* Client::connect, from Worker::run or from try_again_or_fail: outside   *)
(* timing mode, or in MAIN_DURATION, the client start, connect start and  *)
(* cleared connect times are stamped; the first connect of a timing run  *)
(* instead enters WARM_UP (and arms the warm-up timer).                   *)
\* Mutation: Client::connect stamps the times in every phase.
ConnectNoPhaseCheck(c) ==
  /\ ~reduced /\ cstate[c] = "IDLE" /\ phase # "DURATION_OVER"
  /\ cstate' = [cstate EXCEPT ![c] = "CONNECTING"]
  /\ cstat' = [cstat EXCEPT ![c] = Restamp(@)]
  /\ phase' = IF phase = "INITIAL_IDLE" THEN "WARM_UP" ELSE phase
  /\ UNCHANGED <<timing, now, reqTime, sent, reqStats, clientStats,
                 mainStart, reduced, result>>

Connect(c) ==
  /\ ~reduced /\ cstate[c] = "IDLE" /\ phase # "DURATION_OVER"
  /\ cstate' = [cstate EXCEPT ![c] = "CONNECTING"]
  /\ IF ~timing \/ phase = "MAIN_DURATION"
       THEN /\ cstat' = [cstat EXCEPT ![c] = Restamp(@)]
            /\ UNCHANGED phase
       ELSE /\ phase' = IF phase = "INITIAL_IDLE" THEN "WARM_UP" ELSE phase
            /\ UNCHANGED cstat
  /\ UNCHANGED <<timing, now, reqTime, sent, reqStats, clientStats,
                 mainStart, reduced, result>>

(* Client::connection_made: record_connect_time, whatever the phase.      *)
Made(c) ==
  /\ ~reduced /\ cstate[c] = "CONNECTING"
  /\ cstate' = [cstate EXCEPT ![c] = "CONNECTED"]
  /\ cstat' = [cstat EXCEPT ![c].conn = now]
  /\ UNCHANGED <<timing, phase, now, reqTime, sent, reqStats, clientStats,
                 mainStart, reduced, result>>

(* Client::disconnect, from a failed connect, a timeout, a read or write *)
(* error or a reconnect: record_client_end_time and streams.clear().      *)
Disconnect(c) ==
  /\ ~reduced /\ cstate[c] # "IDLE" /\ phase # "DURATION_OVER"
  /\ cstate' = [cstate EXCEPT ![c] = "IDLE"]
  /\ cstat' = [cstat EXCEPT ![c].end = now]
  /\ reqTime' = [reqTime EXCEPT ![c] = 0]
  /\ UNCHANGED <<timing, phase, now, sent, reqStats, clientStats,
                 mainStart, reduced, result>>

(* A request submitted by the session, which calls record_request_time.   *)
Submit(c) ==
  /\ ~reduced /\ cstate[c] = "CONNECTED" /\ reqTime[c] = 0
  /\ phase \in {"WARM_UP", "MAIN_DURATION"} /\ sent < MaxReqs
  /\ reqTime' = [reqTime EXCEPT ![c] = now]
  /\ sent' = sent + 1
  /\ UNCHANGED <<timing, phase, now, cstate, cstat, reqStats, clientStats,
                 mainStart, reduced, result>>

(* The first byte of a response, on which the session calls record_ttfb. *)
FirstByte(c) ==
  /\ ~reduced /\ cstate[c] = "CONNECTED"
  /\ cstat' = [cstat EXCEPT ![c] = RecordTtfb(@)]
  /\ UNCHANGED <<timing, phase, now, cstate, reqTime, sent, reqStats,
                 clientStats, mainStart, reduced, result>>

(* Client::on_stream_close: in MAIN_DURATION the close time is stamped;  *)
(* a successful request is counted in cstat.req_success and its           *)
(* RequestStat, now completed, is copied by Worker::process_req_stat.     *)
(* Outside MAIN_DURATION the stream is only erased.                       *)
Close(c, success) ==
  /\ ~reduced /\ cstate[c] = "CONNECTED" /\ reqTime[c] # 0
  /\ IF phase = "MAIN_DURATION" /\ success
       THEN /\ cstat' = [cstat EXCEPT ![c].success = @ + 1]
            /\ reqStats' = Append(reqStats, [request |-> reqTime[c],
                                             close |-> now, completed |-> TRUE])
       ELSE UNCHANGED <<cstat, reqStats>>
  /\ reqTime' = [reqTime EXCEPT ![c] = 0]
  /\ UNCHANGED <<timing, phase, now, cstate, sent, clientStats, mainStart,
                 reduced, result>>

(* warmup_timeout_cb: every client of worker->clients, connected or not, *)
(* is restamped, and the phase becomes MAIN_DURATION.                     *)
WarmupEnd ==
  /\ ~reduced /\ timing /\ phase = "WARM_UP"
  /\ cstat' = [c \in Clients |-> Restamp(cstat[c])]
  /\ phase' = "MAIN_DURATION"
  /\ mainStart' = now
  /\ UNCHANGED <<timing, now, cstate, reqTime, sent, reqStats, clientStats,
                 reduced, result>>

(* Worker::stop_all_clients, run by duration_timeout_cb: every client's  *)
(* end time is stamped, a client with a session is disconnected, and     *)
(* every client's ClientStat is copied by Worker::process_client_stat.   *)
(* Clients are never destroyed, so this is the only place client_stats   *)
(* is filled.                                                             *)
\* Mutation: only a client with a session has its ClientStat copied.
StopAllClientsLiveOnly ==
  LET ended == [c \in Clients |-> [cstat[c] EXCEPT !.end = now]]
      live(c) == cstate[c] = "CONNECTED"
      order == SetToSeq({c \in Clients : live(c)})
  IN /\ cstat' = ended
     /\ cstate' = [c \in Clients |-> IF live(c) THEN "IDLE" ELSE cstate[c]]
     /\ reqTime' = [c \in Clients |-> IF live(c) THEN 0 ELSE reqTime[c]]
     /\ clientStats' = clientStats \o [i \in DOMAIN order |-> ended[order[i]]]

StopAllClients ==
  LET ended == [c \in Clients |-> [cstat[c] EXCEPT !.end = now]]
      order == SetToSeq(Clients)
      live(c) == cstate[c] = "CONNECTED"
  IN /\ cstat' = ended
     /\ cstate' = [c \in Clients |-> IF live(c) THEN "IDLE" ELSE cstate[c]]
     /\ reqTime' = [c \in Clients |-> IF live(c) THEN 0 ELSE reqTime[c]]
     /\ clientStats' = clientStats \o [i \in DOMAIN order |-> ended[order[i]]]

DurationEnd ==
  /\ ~reduced /\ timing /\ phase = "MAIN_DURATION"
  /\ StopAllClients
  /\ phase' = "DURATION_OVER"
  /\ UNCHANGED <<timing, now, sent, reqStats, mainStart, reduced, result>>

(***************************************************************************)
(* process_time_stats: the four sample lists.  A request time is taken   *)
(* from each completed RequestStat; a requests-per-second value from each *)
(* ClientStat with both client times recorded and a positive span; a      *)
(* connect time from each with both connect times recorded, and a TTFB    *)
(* from those that also have a first byte.                                *)
(***************************************************************************)
Span(cs) == cs.end - cs.start

RequestTimes ==
  LET done == SelectSeq(reqStats, LAMBDA r : r.completed)
  IN [i \in DOMAIN done |-> QOf(done[i].close - done[i].request)]

RpsValues ==
  LET timed == SelectSeq(clientStats, LAMBDA cs : Recorded(cs.start)
                                          /\ Recorded(cs.end) /\ Span(cs) > 0)
  IN [i \in DOMAIN timed |-> Frac(timed[i].success, Span(timed[i]))]

Connected == SelectSeq(clientStats, LAMBDA cs : Recorded(cs.cstart)
                                                /\ Recorded(cs.conn))

ConnectTimes == [i \in DOMAIN Connected |-> QOf(Connected[i].conn
                                                 - Connected[i].cstart)]

TtfbTimes ==
  LET first == SelectSeq(Connected, LAMBDA cs : Recorded(cs.ttfb))
  IN [i \in DOMAIN first |-> QOf(first[i].ttfb - first[i].cstart)]

Samples == [request |-> RequestTimes, connect |-> ConnectTimes,
            ttfb |-> TtfbTimes, rps |-> RpsValues]

(* The orchestrator, once the worker's loop has returned, reduces its     *)
(* lists with compute_time_stat (population variance).                    *)
Reduce ==
  /\ ~reduced
  /\ \/ timing /\ phase = "DURATION_OVER"
     \/ ~timing /\ \A c \in Clients : cstate[c] = "IDLE"
  /\ reduced' = TRUE
  /\ result' = [k \in Kinds |-> ComputeTimeStat(Samples[k], FALSE)]
  /\ UNCHANGED <<timing, phase, now, cstate, cstat, reqTime, sent, reqStats,
                 clientStats, mainStart>>

Next ==
  \/ Tick
  \/ WarmupEnd
  \/ DurationEnd
  \/ Reduce
  \/ \E c \in Clients :
       \/ Connect(c)
       \/ Made(c)
       \/ Disconnect(c)
       \/ Submit(c)
       \/ FirstByte(c)
       \/ \E success \in BOOLEAN : Close(c, success)

Spec == Init /\ [][Next]_vars

-----------------------------------------------------------------------------

TypeOK ==
  /\ timing \in BOOLEAN
  /\ phase \in {"INITIAL_IDLE", "WARM_UP", "MAIN_DURATION", "DURATION_OVER"}
  /\ now \in 1..MaxTime
  /\ cstate \in [Clients -> {"IDLE", "CONNECTING", "CONNECTED"}]
  /\ cstat \in [Clients -> CStat]
  /\ reqTime \in [Clients -> Stamps]
  /\ sent \in 0..MaxReqs
  /\ reqStats \in Seq(ReqStat)
  /\ clientStats \in Seq(CStat)
  /\ reduced \in BOOLEAN
  /\ \A k \in Kinds : LeQ(Zero, result[k].within)
                      /\ LeQ(result[k].within, QOf(100))

(* compute_time_stat is right: once the run is reduced, each of the four  *)
(* statistics has the minimum, mean, variance (sd squared) and within-sd  *)
(* share that the two-pass textbook definitions give for its samples, so *)
(* Welford's incremental update of a and q loses nothing.                 *)
StatsExact ==
  reduced => \A k \in Kinds : MatchesReference(result[k], Samples[k])

(* The ClientStat time points are consistent wherever a connect or TTFB  *)
(* sample could be taken from them (the live cstat of every client and   *)
(* every copy in client_stats): the connect start is no later than the   *)
(* connect, and the first byte no earlier than the connect, across       *)
(* reconnects and the warm-up restamp ("We will get connect event before *)
(* FFTB" in process_time_stats).  Otherwise a sample is negative or      *)
(* measures a previous connection.                                        *)
SamplesOrdered ==
  \A cs \in {cstat[c] : c \in Clients} \cup Range(clientStats) :
    Recorded(cs.cstart) /\ Recorded(cs.conn) =>
      /\ cs.cstart <= cs.conn
      /\ Recorded(cs.ttfb) => cs.conn <= cs.ttfb

(* Requests per second measure the main phase: every copied ClientStat   *)
(* whose client start is recorded started no earlier than MAIN_DURATION, *)
(* so warm-up time (during which no success is counted) never dilutes a  *)
(* client's rate.                                                         *)
RpsMeasuresMain ==
  \A i \in DOMAIN clientStats :
    Recorded(clientStats[i].start) => mainStart <= clientStats[i].start

(* In timing mode every success counted in MAIN_DURATION is attributed   *)
(* to a client: the req_success of the copied ClientStats add up to the  *)
(* number of request samples, once the statistics are reduced.            *)
SuccessesAttributed ==
  reduced /\ timing =>
    FoldLeft(LAMBDA n, cs : n + cs.success, 0, clientStats) = Len(reqStats)
=============================================================================
