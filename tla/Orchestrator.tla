----------------------------- MODULE Orchestrator -----------------------------
(***************************************************************************)
(* What main does around the workers: it creates nthreads workers one by  *)
(* one, splitting -c clients, the rate and --qps between them (the QPS     *)
(* share of a worker spread over its tick slots by rand()), releases them  *)
(* together at a barrier, and after joining them computes the latency      *)
(* distribution from the RTT samples the workers recorded.                 *)
(*                                                                         *)
(* RTTs are microseconds in 0..RttLimit-1, and RttLimit stands for         *)
(* numeric_limits<uint64_t>::max(), the initial rtt_min of a worker.       *)
(* The percentile rank is computed exactly; for at most four samples the  *)
(* double arithmetic of the code gives the same rank (p/100*N is exact or *)
(* at least 0.04 away from an integer).                                    *)
(***************************************************************************)
EXTENDS Naturals, Sequences, FiniteSets, Bags, BagsExt, FiniteSetsExt

CONSTANTS Options,    \* the command lines: records of -n, -c, -m, -t, -r, --qps, -D
          MaxThreads, \* the largest -t among Options
          QpsSlots,   \* qps_update_per_second, scaled down
          RttLimit,   \* numeric_limits<uint64_t>::max(), scaled down
          MaxSamples  \* RTT samples recorded over all workers

ASSUME QpsSlots \in Nat \ {0} /\ RttLimit \in Nat \ {0}
ASSUME \A o \in Options : o.nthreads <= MaxThreads

Rtts == 0..RttLimit - 1

\* The percentiles main prints.
Percentiles == {50, 75, 90, 95, 99}

VARIABLES cfg,         \* the Config main runs with
          stage,       \* "parse", "exited" (exit(EXIT_FAILURE)) or "started"
          workers,     \* the workers created so far, in order
          clientsRem,  \* nclients_rem
          rateRem,     \* rate_per_thread_rem
          ready,       \* the barrier flag
          rtts,        \* per worker: Worker::rtts, as a bag
          rttMin,      \* per worker: Worker::rtt_min
          rttMax,      \* per worker: Worker::rtt_max
          reported,    \* main has printed the latency distribution
          report       \* the latency printed for each percentile

vars == <<cfg, stage, workers, clientsRem, rateRem, ready, rtts, rttMin, rttMax, reported,
          report>>

Worker == [nclients : Nat, rate : Nat, nqps : Nat, qpsCounts : [0..QpsSlots - 1 -> Nat]]

Init ==
    /\ cfg \in Options
    /\ stage = "parse"
    /\ workers = <<>>
    /\ clientsRem = 0
    /\ rateRem = 0
    /\ ready = FALSE
    /\ rtts = [t \in 0..MaxThreads - 1 |-> EmptyBag]
    /\ rttMin = [t \in 0..MaxThreads - 1 |-> RttLimit]
    /\ rttMax = [t \in 0..MaxThreads - 1 |-> 0]
    /\ reported = FALSE
    /\ report = [p \in Percentiles |-> 0]

Threads == 0..cfg.nthreads - 1

Timing == cfg.duration > 0
QpsMode == cfg.qps # 0
RateMode == cfg.rate # 0

\* A mutant of Validate: the check of -c against -t is missing.
ValidateNoClientCheck ==
    LET exits == \/ QpsMode /\ RateMode
                 \/ QpsMode /\ cfg.duration = 0
                 \/ Timing /\ RateMode
                 \/ cfg.nreqs = 0 /\ ~Timing
                 \/ cfg.streams = 0
                 \/ cfg.nthreads = 0
                 \/ RateMode /\ (cfg.rate < cfg.nthreads \/ cfg.rate > cfg.nclients)
    IN  /\ stage = "parse"
        /\ stage' = IF exits THEN "exited" ELSE "started"
        /\ clientsRem' = IF exits THEN 0 ELSE cfg.nclients % cfg.nthreads
        /\ rateRem' = IF exits THEN 0 ELSE cfg.rate % cfg.nthreads
        /\ UNCHANGED <<cfg, workers, ready, rtts, rttMin, rttMax, reported, report>>

(* The checks of main after the options are parsed, in their order; any   *)
(* failing check exits before a worker is created.  A run that passes     *)
(* them computes the per-thread shares of clients and rate.               *)
Validate ==
    LET exits == \/ QpsMode /\ RateMode
                 \/ QpsMode /\ cfg.duration = 0
                 \/ Timing /\ RateMode
                 \/ cfg.nreqs = 0 /\ ~Timing
                 \/ cfg.streams = 0
                 \/ cfg.nthreads = 0
                 \/ cfg.nclients < cfg.nthreads /\ ~QpsMode
                 \/ RateMode /\ (cfg.rate < cfg.nthreads \/ cfg.rate > cfg.nclients)
    IN  /\ stage = "parse"
        /\ stage' = IF exits THEN "exited" ELSE "started"
        /\ clientsRem' = IF exits THEN 0 ELSE cfg.nclients % cfg.nthreads
        /\ rateRem' = IF exits THEN 0 ELSE cfg.rate % cfg.nthreads
        /\ UNCHANGED <<cfg, workers, ready, rtts, rttMin, rttMax, reported, report>>

\* The number of the tokens in a placement that went to slot s.
SlotCount(place, n, s) == Cardinality({q \in 1..n : place[q] = s})

\* A mutant of CreateWorker: the remainder goes to one worker too many.
CreateWorkerRemOff ==
    LET i == Len(workers)
        nqps == cfg.qps \div cfg.nthreads + (IF i < cfg.qps % cfg.nthreads THEN 1 ELSE 0)
    IN  /\ stage = "started" /\ i < cfg.nthreads
        /\ \E place \in [1..nqps -> 0..QpsSlots - 1] :
             workers' = Append(workers,
               [nclients |-> cfg.nclients \div cfg.nthreads + (IF clientsRem >= 0 THEN 1 ELSE 0),
                rate |-> cfg.rate \div cfg.nthreads + (IF rateRem > 0 THEN 1 ELSE 0),
                nqps |-> IF QpsMode THEN nqps ELSE 0,
                qpsCounts |-> [s \in 0..QpsSlots - 1 |->
                                 IF QpsMode THEN SlotCount(place, nqps, s) ELSE 0]])
        /\ clientsRem' = IF clientsRem >= 0 THEN clientsRem - 1 ELSE clientsRem
        /\ rateRem' = IF rateRem > 0 THEN rateRem - 1 ELSE rateRem
        /\ UNCHANGED <<cfg, stage, ready, rtts, rttMin, rttMax, reported, report>>

(* One iteration of the worker loop of main: the worker takes one more     *)
(* client and one more unit of rate while a remainder is left, its qps     *)
(* share is qps / nthreads plus one for the first qps % nthreads workers,  *)
(* and each of its nqps tokens goes to slot rand() % qps_update_per_second. *)
CreateWorker ==
    LET i == Len(workers)
        nqps == cfg.qps \div cfg.nthreads + (IF i < cfg.qps % cfg.nthreads THEN 1 ELSE 0)
    IN  /\ stage = "started" /\ i < cfg.nthreads
        /\ \E place \in [1..nqps -> 0..QpsSlots - 1] :
             workers' = Append(workers,
               [nclients |-> cfg.nclients \div cfg.nthreads + (IF clientsRem > 0 THEN 1 ELSE 0),
                rate |-> cfg.rate \div cfg.nthreads + (IF rateRem > 0 THEN 1 ELSE 0),
                nqps |-> IF QpsMode THEN nqps ELSE 0,
                qpsCounts |-> [s \in 0..QpsSlots - 1 |->
                                 IF QpsMode THEN SlotCount(place, nqps, s) ELSE 0]])
        /\ clientsRem' = IF clientsRem > 0 THEN clientsRem - 1 ELSE clientsRem
        /\ rateRem' = IF rateRem > 0 THEN rateRem - 1 ELSE rateRem
        /\ UNCHANGED <<cfg, stage, ready, rtts, rttMin, rttMax, reported, report>>

\* ready = true and cv.notify_all(): every worker starts its run.
Release ==
    /\ Len(workers) = cfg.nthreads
    /\ ~ready
    /\ ready' = TRUE
    /\ UNCHANGED <<cfg, stage, workers, clientsRem, rateRem, rtts, rttMin, rttMax,
                   reported, report>>

(* Worker::record_rtt, called by on_stream_close of a request closed in    *)
(* MAIN_DURATION.                                                          *)
RecordRtt(t, rtt) ==
    /\ ready /\ ~reported
    /\ MapThenSumSet(LAMBDA u : BagCardinality(rtts[u]), Threads) < MaxSamples
    /\ t \in Threads
    /\ rtts' = [rtts EXCEPT ![t] = BagAdd(@, rtt)]
    /\ rttMin' = [rttMin EXCEPT ![t] = IF rtt < @ THEN rtt ELSE @]
    /\ rttMax' = [rttMax EXCEPT ![t] = IF rtt > @ THEN rtt ELSE @]
    /\ UNCHANGED <<cfg, stage, workers, clientsRem, rateRem, ready, reported, report>>

\* The RTT samples of all workers together, as one bag.
AllRtts == MapThenFoldSet(LAMBDA a, b : a (+) b, EmptyBag, LAMBDA t : rtts[t],
                          LAMBDA S : CHOOSE t \in S : TRUE, Threads)

\* A mutant of Walk: the running total must pass the rank, not reach it.
RECURSIVE WalkStrict(_, _, _, _, _)
WalkStrict(hist, rtt, hi, total, rank) ==
    IF rtt > hi THEN rtt
    ELSE IF total + hist[rtt] > rank THEN rtt
    ELSE WalkStrict(hist, rtt + 1, hi, total + hist[rtt], rank)

\* std::round of a non-negative num / den: halves round away from zero.
Round(num, den) == (2 * num + den) \div (2 * den)

\* rank = std::round((percentile / 100.0) * rtt_counts + 0.5)
Rank(p, n) == Round(p * n + 50, 100)

(* The cumulative walk over the histogram: the first rtt from lo whose     *)
(* running total reaches rank, or hi + 1 when the walk runs off the end.   *)
RECURSIVE Walk(_, _, _, _, _)
Walk(hist, rtt, hi, total, rank) ==
    IF rtt > hi THEN rtt
    ELSE IF total + hist[rtt] >= rank THEN rtt
    ELSE Walk(hist, rtt + 1, hi, total + hist[rtt], rank)

\* A mutant of Report: the case of no samples is not reset to 0.
ReportNoInvalid ==
    LET lo == Min({rttMin[t] : t \in Threads})
        hi == Max({rttMax[t] : t \in Threads})
        hist == [r \in lo..hi |-> CopiesIn(r, AllRtts)]
    IN  /\ ready /\ ~reported
        /\ reported' = TRUE
        /\ report' = [p \in Percentiles |->
                        Walk(hist, lo, hi, 0, Rank(p, BagCardinality(AllRtts)))]
        /\ UNCHANGED <<cfg, stage, workers, clientsRem, rateRem, ready, rtts, rttMin,
                       rttMax>>

(* main after joining the workers: the overall rtt_min and rtt_max, the    *)
(* invalid case when no sample was recorded (printed as 0us), the dense    *)
(* histogram from rtt_min to rtt_max, and for each percentile the walk.    *)
Report ==
    LET lo0 == Min({rttMin[t] : t \in Threads})
        hi0 == Max({rttMax[t] : t \in Threads})
        invalid == lo0 > hi0
        lo == IF invalid THEN 0 ELSE lo0
        hi == IF invalid THEN 0 ELSE hi0
        all == AllRtts
        hist == [r \in lo..hi |-> CopiesIn(r, all)]
        n == BagCardinality(all)
    IN  /\ ready /\ ~reported
        /\ reported' = TRUE
        /\ report' = [p \in Percentiles |->
                        IF invalid THEN 0 ELSE Walk(hist, lo, hi, 0, Rank(p, n))]
        /\ UNCHANGED <<cfg, stage, workers, clientsRem, rateRem, ready, rtts, rttMin,
                       rttMax>>

Next ==
    \/ Validate
    \/ CreateWorker
    \/ Release
    \/ \E t \in 0..MaxThreads - 1, rtt \in Rtts : RecordRtt(t, rtt)
    \/ Report
    \/ ((reported \/ stage = "exited") /\ UNCHANGED vars)

Spec == Init /\ [][Next]_vars

-----------------------------------------------------------------------------

TypeOK ==
    /\ cfg \in Options
    /\ stage \in {"parse", "exited", "started"}
    /\ workers \in Seq(Worker) /\ Len(workers) <= cfg.nthreads
    /\ clientsRem \in Int /\ rateRem \in Int
    /\ ready \in BOOLEAN /\ reported \in BOOLEAN
    /\ \A t \in DOMAIN rtts : IsABag(rtts[t]) /\ BagToSet(rtts[t]) \subseteq Rtts
    /\ rttMin \in [0..MaxThreads - 1 -> Rtts \cup {RttLimit}]
    /\ rttMax \in [0..MaxThreads - 1 -> Rtts]
    /\ report \in [Percentiles -> Rtts]

\* The spec's split of a total x: x / nthreads, plus one for the first x % nthreads.
Share(x, i) == x \div cfg.nthreads + (IF i < x % cfg.nthreads THEN 1 ELSE 0)

(* Once every worker is created, each has its fair share of the clients,  *)
(* the rate and the qps (spec: evenly, the remainder to the first K        *)
(* workers), the shares add up to the totals, and the worker's qps slots   *)
(* hold exactly its qps share.                                             *)
FairShares ==
    Len(workers) = cfg.nthreads =>
        /\ \A i \in 1..cfg.nthreads :
              /\ workers[i].nclients = Share(cfg.nclients, i - 1)
              /\ workers[i].rate = Share(cfg.rate, i - 1)
              /\ workers[i].nqps = IF QpsMode THEN Share(cfg.qps, i - 1) ELSE 0
              /\ MapThenSumSet(LAMBDA s : workers[i].qpsCounts[s], 0..QpsSlots - 1)
                   = workers[i].nqps
        /\ MapThenSumSet(LAMBDA i : workers[i].nclients, 1..cfg.nthreads) = cfg.nclients
        /\ MapThenSumSet(LAMBDA i : workers[i].rate, 1..cfg.nthreads) = cfg.rate

(* A run main starts is one every worker can carry: outside QPS mode each *)
(* worker gets at least one client, and in rate mode a positive rate no    *)
(* larger than its clients (spec: nclients >= nthreads except in QPS mode, *)
(* nthreads <= rate <= nclients).                                          *)
WorkersRunnable ==
    (Len(workers) = cfg.nthreads /\ stage = "started" /\ ~QpsMode) =>
        \A i \in 1..cfg.nthreads :
            /\ workers[i].nclients >= 1
            /\ RateMode => 1 <= workers[i].rate /\ workers[i].rate <= workers[i].nclients

\* The k-th smallest RTT sample of the run.
SampleAt(k) == Min({r \in Rtts : MapThenSumSet(LAMBDA v : CopiesIn(v, AllRtts), 0..r) >= k})

\* The spec's nearest rank: ceil((p / 100) * N).
NearestRank(p, n) == (p * n + 99) \div 100

(* The printed latency of percentile p is the sample at the spec's nearest *)
(* rank ceil(p/100 * N), or the next sample when p/100 * N is a whole      *)
(* number (the code's rank is one higher there); with no samples every     *)
(* percentile prints 0us.                                                  *)
PercentileNearRank ==
    LET n == BagCardinality(AllRtts) IN
    reported =>
        \A p \in Percentiles :
            IF n = 0 THEN report[p] = 0
            ELSE IF (p * n) % 100 # 0 THEN report[p] = SampleAt(NearestRank(p, n))
            ELSE report[p] \in {SampleAt(NearestRank(p, n)), SampleAt(NearestRank(p, n) + 1)}

=============================================================================
