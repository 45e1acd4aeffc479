---------------------------- MODULE H2LoadWorker ----------------------------
(***************************************************************************)
(* One h2load Worker (src/src/h2load.cc): the single-threaded event loop   *)
(* that owns a set of Clients, the warm-up / duration / QPS timers, the    *)
(* QPS token budget with its LIFO queue of blocked clients, and the        *)
(* Stats counters.  Every action is one libev callback run to completion   *)
(* (writecb, readcb, conn_timeout_cb, warmup_timeout_cb,                   *)
(* duration_timeout_cb, update_worker_qpsLeft) or one callback the         *)
(* protocol session makes into the Client (on_header / on_status_code /   *)
(* on_sofarpc_status, on_stream_close).                                    *)
(*                                                                         *)
(* The protocol sessions (HTTP/2, HTTP/1.1, BOLT) are not in this          *)
(* repository; they are the environment: they create a stream on every    *)
(* submit_request, report a status and close streams in any order, and    *)
(* the network may fail a read or a write at any time.                     *)
(***************************************************************************)
EXTENDS Integers, Sequences, FiniteSets, Bags, BagsExt, FiniteSetsExt, TLC

CONSTANTS
  Clients,           \* the worker's clients (model values)
  Mode,              \* "count" (-n), "timing" (-D) or "qps" (--qps with -D)
  NReqs,             \* config.nreqs in count mode
  TimingReqLeft,     \* stands for SIZE_MAX / qps*duration in timing modes
  MaxStreams,        \* session->max_concurrent_streams()
  NAddrs,            \* length of the resolved address list config.addrs
  UseTLS,            \* scheme is https
  NoTlsProto,        \* config.no_tls_proto: "h2", "h1" or "bolt"
  TlsOffers,         \* protocols the server may select by ALPN/NPN
  NpnHasH1,          \* "http/1.1" is in config.npn_list
  InactivityTimeout, \* -N given (conn_inactivity_timeout > 0)
  ActiveTimeout,     \* -T given (conn_active_timeout > 0)
  QpsCounts,         \* the worker's qps_counts_ slot array
  QpsUnbounded,      \* INT_MAX, the budget when qps_counts_ is empty
  HttpCodes,         \* :status values the server may send (H1/H2)
  BoltCodes,         \* response status values the server may send (BOLT)
  BoltSuccess,       \* RESPONSE_STATUS_SUCCESS
  MaxSends,          \* bound: total_req_send explored up to this value
  MaxTokens,         \* bound: qpsLeft explored up to this value
  MaxBlocked         \* bound: clientsBlockedDueToQps explored up to this length

ASSUME Mode \in {"count", "timing", "qps"}
ASSUME Mode = "count" => NReqs \in Nat \ {0}
ASSUME TimingReqLeft \in Nat /\ TimingReqLeft > MaxSends
ASSUME MaxStreams \in Nat \ {0} /\ NAddrs \in Nat \ {0}
ASSUME NoTlsProto \in {"h2", "h1", "bolt"}
ASSUME TlsOffers \subseteq {"h2", "h1", "bolt", "other", "none"}
ASSUME Mode = "qps" <=> Len(QpsCounts) > 0
ASSUME BoltSuccess \in BoltCodes
ASSUME Mode = "count" => MaxSends >= NReqs

Phases == <<"INITIAL_IDLE", "WARM_UP", "MAIN_DURATION", "DURATION_OVER">>
Sessions == {"none", "h2", "h1", "bolt"}

\* A stream of a client's streams map.  status is status_success; counted
\* records whether submit_request counted the request (it was submitted
\* in MAIN_DURATION), i.e. whether it is one of req_inflight.
StreamRec == [status : {-1, 0, 1}, counted : BOOLEAN]

VARIABLES
  phase,          \* worker->current_phase
  loopState,      \* "init" before Worker::run, "running", "exited" when
                  \* ev_run returns for lack of watchers, "broken" by ev_break
  warmupArmed,    \* worker->warmup_watcher active
  durationArmed,  \* worker->duration_watcher active
  qpsTickArmed,   \* worker->qpsUpdater active
  totalReqLeft,   \* the atomic total_req_left
  totalReqSend,   \* the atomic total_req_send
  qpsLeft,        \* worker->qpsLeft
  qpsIdx,         \* worker->qps_count_index_
  blocked,        \* worker->clientsBlockedDueToQps (back = top)
  stats,          \* worker->stats and the number of recorded rtts
  cstate,         \* "IDLE", "CONNECTING", "HANDSHAKE" or "CONNECTED"
  curAddr,        \* index of client->current_addr, 0 for nullptr
  nextAddr,       \* index of client->next_addr, NAddrs + 1 for nullptr
  session,        \* kind of client->session, "none" for nullptr
  terminated,     \* terminate_session() was called on the session
  streams,        \* client->streams as a bag of StreamRec
  inflight,       \* client->req_inflight
  newConnReq,     \* client->new_connection_requested
  inactTimer,     \* client->conn_inactivity_watcher active
  activeTimer     \* client->conn_active_watcher active

vars == <<phase, loopState, warmupArmed, durationArmed, qpsTickArmed,
          totalReqLeft, totalReqSend, qpsLeft, qpsIdx, blocked, stats,
          cstate, curAddr, nextAddr, session, terminated, streams, inflight,
          newConnReq, inactTimer, activeTimer>>

Timed == Mode \in {"timing", "qps"}
InMain == phase = "MAIN_DURATION"

\* Copies(r, k) is the bag holding k copies of r.
Copies(r, k) == IF k = 0 THEN EmptyBag ELSE (r :> k)

-----------------------------------------------------------------------------
(* Worker::Worker and main(): the state before Worker::run.                *)

Init ==
  /\ phase = IF Timed THEN "INITIAL_IDLE" ELSE "MAIN_DURATION"
  /\ loopState = "init"
  /\ warmupArmed = FALSE /\ durationArmed = FALSE /\ qpsTickArmed = FALSE
  /\ totalReqLeft = IF Timed THEN TimingReqLeft ELSE NReqs
  /\ totalReqSend = 0
  /\ qpsLeft = 0 /\ qpsIdx = 0 /\ blocked = <<>>
  /\ stats = [req_started |-> 0, req_done |-> 0, req_success |-> 0,
              req_status_success |-> 0, req_failed |-> 0, req_error |-> 0,
              req_timedout |-> 0, status |-> [b \in 2..5 |-> 0],
              sofarpcStatus |-> [s \in BoltCodes |-> 0], rtts |-> 0]
  /\ cstate = [c \in Clients |-> "IDLE"]
  /\ curAddr = [c \in Clients |-> 0]
  /\ nextAddr = [c \in Clients |-> 1]
  /\ session = [c \in Clients |-> "none"]
  /\ terminated = [c \in Clients |-> FALSE]
  /\ streams = [c \in Clients |-> EmptyBag]
  /\ inflight = [c \in Clients |-> 0]
  /\ newConnReq = [c \in Clients |-> FALSE]
  /\ inactTimer = [c \in Clients |-> FALSE]
  /\ activeTimer = [c \in Clients |-> FALSE]

-----------------------------------------------------------------------------
(* Helpers: the Client methods that the callbacks call.                    *)

\* Mutation: the address walk runs one past the end of the list.
ConnectOutcomesPastEnd(cur, next) ==
  IF cur # 0 THEN {cur, 0} ELSE (next .. NAddrs + 1) \cup {0}

\* Client::connect with current_addr cur and next_addr next: it retries
\* current_addr when it is set, otherwise walks next_addr until make_socket
\* succeeds.  The result is the index of the address it connects to, or 0
\* when every attempt failed.
ConnectOutcomes(cur, next) ==
  IF cur # 0 THEN {cur, 0} ELSE (next .. NAddrs) \cup {0}

\* next_addr after that connect reached address r (0: none).
NextAddrAfter(cur, next, r) ==
  IF cur # 0 THEN next ELSE IF r = 0 THEN NAddrs + 1 ELSE r + 1

\* Mutations: an abandoned request is not counted as errored, or not as
\* failed.
AbandonNoError(st, n) ==
  IF InMain THEN [st EXCEPT !.req_failed = @ + n] ELSE st

Abandon(st, n) ==
  IF InMain THEN [st EXCEPT !.req_failed = @ + n, !.req_error = @ + n] ELSE st

\* Client::process_timedout_streams: in MAIN_DURATION the requests in flight
\* are counted as timed out, then abandoned.
TimedOut(st, n) ==
  IF InMain THEN [Abandon(st, n) EXCEPT !.req_timedout = @ + n] ELSE st

\* The session connection_made creates for a negotiated protocol: H2 for
\* the h2 family, H1 for http/1.1, BOLT for its token, nothing for another
\* token; with nothing negotiated, H1 only when http/1.1 is in npn_list.
SelectSession(p) ==
  CASE p \in {"h2", "h1", "bolt"} -> p
    [] p = "other" -> "none"
    [] p = "none"  -> IF NpnHasH1 THEN "h1" ELSE "none"

\* Client::submit_request called n times for client c, stopping at the
\* first failure.  In QPS mode a call without a token pushes c onto
\* clientsBlockedDueToQps and succeeds; otherwise a call fails once
\* total_req_left is 0.  s is the number of requests actually submitted.
Submitted(n, tokens, left) ==
  IF Mode = "qps" THEN Min({n, tokens}) ELSE Min({n, Max({left, 0})})

\* The effect of those calls for every client c, k[c] submitted and
\* pushes appended to the queue, on state already changed by the caller
\* (st0, inflight0, streams0, ...).  A failed call runs
\* process_request_failure, which breaks the loop outside MAIN_DURATION.
ApplySubmits(k, pushes, failed, sess, st0, infl0, strm0, act0, tok0, q0) ==
  LET n == MapThenSumSet(LAMBDA c : k[c], Clients)
      rec == [status |-> -1, counted |-> InMain]
  IN /\ totalReqLeft' = IF Mode = "qps" THEN totalReqLeft ELSE totalReqLeft - n
     /\ qpsLeft' = IF Mode = "qps" THEN tok0 - n ELSE tok0
     /\ blocked' = q0 \o pushes
     /\ Len(blocked') <= MaxBlocked
     /\ totalReqSend' = totalReqSend + n
     /\ totalReqSend' <= MaxSends
     /\ streams' = [c \in Clients |->
                      IF sess[c] = "none" THEN strm0[c]
                      ELSE strm0[c] (+) Copies(rec, k[c])]
     /\ stats' = IF InMain THEN [st0 EXCEPT !.req_started = @ + n] ELSE st0
     /\ inflight' = IF InMain THEN [c \in Clients |-> infl0[c] + k[c]]
                    ELSE infl0
     /\ activeTimer' = [c \in Clients |->
                          act0[c] \/ (InMain /\ ActiveTimeout /\ k[c] > 0)]
     /\ loopState' = IF failed /\ ~InMain THEN "broken" ELSE loopState

\* submit_request called n times for one client c.
SubmitLoop(c, n, sess, st0, infl0, strm0, act0) ==
  LET s == Submitted(n, qpsLeft, totalReqLeft)
      k == [d \in Clients |-> IF d = c THEN s ELSE 0]
  IN ApplySubmits(k, [i \in 1 .. (IF Mode = "qps" THEN n - s ELSE 0) |-> c],
                  Mode # "qps" /\ s < n, sess, st0, infl0, strm0, act0,
                  qpsLeft, blocked)

\* Mutation: one initial request more than max_concurrent_streams.
ConnectionMadeOneMore(c, sess) ==
  /\ cstate' = [cstate EXCEPT ![c] = "CONNECTED"]
  /\ session' = [session EXCEPT ![c] = sess]
  /\ SubmitLoop(c, MaxStreams + 1, session', stats, inflight, streams,
                activeTimer)

\* Client::connection_made once the session is chosen: CONNECTED, and
\* max_concurrent_streams initial requests.
ConnectionMade(c, sess) ==
  /\ cstate' = [cstate EXCEPT ![c] = "CONNECTED"]
  /\ session' = [session EXCEPT ![c] = sess]
  /\ SubmitLoop(c, MaxStreams, session', stats, inflight, streams, activeTimer)

\* Client::disconnect for client c, on the other per-client variables.
DisconnectVars(c) ==
  /\ session' = [session EXCEPT ![c] = "none"]
  /\ terminated' = [terminated EXCEPT ![c] = FALSE]
  /\ streams' = [streams EXCEPT ![c] = EmptyBag]
  /\ activeTimer' = [activeTimer EXCEPT ![c] = FALSE]

\* Mutation: process_abandoned_streams leaves req_inflight as it was.
FailKeepInflight(c) ==
  /\ cstate' = [cstate EXCEPT ![c] = "IDLE"]
  /\ DisconnectVars(c)
  /\ inactTimer' = [inactTimer EXCEPT ![c] = FALSE]
  /\ stats' = Abandon(stats, inflight[c])
  /\ inflight' = inflight

\* Client::fail: disconnect, then process_abandoned_streams.
Fail(c) ==
  /\ cstate' = [cstate EXCEPT ![c] = "IDLE"]
  /\ DisconnectVars(c)
  /\ inactTimer' = [inactTimer EXCEPT ![c] = FALSE]
  /\ stats' = Abandon(stats, inflight[c])
  /\ inflight' = [inflight EXCEPT ![c] = IF InMain THEN 0 ELSE @]

Running == loopState = "running"

-----------------------------------------------------------------------------
(* Worker::run: connect every client; a client whose connect fails is      *)
(* failed.  The first connect of a timing-based run enters WARM_UP.        *)

Run ==
  /\ loopState = "init"
  /\ \E r \in [Clients -> ConnectOutcomes(0, 1)] :
       /\ phase' = IF phase = "INITIAL_IDLE" /\ Clients # {} THEN "WARM_UP"
                   ELSE phase
       /\ warmupArmed' = (phase = "INITIAL_IDLE" /\ Clients # {})
       /\ cstate' = [c \in Clients |-> IF r[c] = 0 THEN "IDLE" ELSE "CONNECTING"]
       /\ curAddr' = r
       /\ nextAddr' = [c \in Clients |-> NextAddrAfter(0, 1, r[c])]
       /\ inactTimer' = [c \in Clients |-> InactivityTimeout /\ r[c] # 0]
  /\ loopState' = "running"
  /\ UNCHANGED <<durationArmed, qpsTickArmed, totalReqLeft, totalReqSend,
                 qpsLeft, qpsIdx, blocked, stats, session, terminated, streams,
                 inflight, newConnReq, activeTimer>>

(* writecb when do_write reports ERR_CONNECT_FAIL: the client disconnects *)
(* and tries the next address (Client::connect with current_addr          *)
(* cleared), failing when none is left.                                    *)

ConnectFailed(c) ==
  /\ Running /\ cstate[c] = "CONNECTING"
  /\ \E r \in ConnectOutcomes(0, nextAddr[c]) :
       /\ curAddr' = [curAddr EXCEPT ![c] = r]
       /\ nextAddr' = [nextAddr EXCEPT ![c] = NextAddrAfter(0, @, r)]
       /\ IF r = 0
            THEN Fail(c)
            ELSE /\ cstate' = [cstate EXCEPT ![c] = "CONNECTING"]
                 /\ inactTimer' = [inactTimer EXCEPT ![c] = InactivityTimeout]
                 /\ DisconnectVars(c)
                 /\ UNCHANGED <<stats, inflight>>
  /\ UNCHANGED <<totalReqLeft, totalReqSend, qpsLeft, blocked, loopState>>
  /\ UNCHANGED <<phase, warmupArmed, durationArmed, qpsTickArmed, qpsIdx,
                 newConnReq>>

(* Client::connected, the socket being connected: with TLS the handshake  *)
(* starts, without it connection_made runs with --no-tls-proto.            *)

Connected(c) ==
  /\ Running /\ cstate[c] = "CONNECTING"
  /\ \/ /\ UseTLS
        /\ cstate' = [cstate EXCEPT ![c] = "HANDSHAKE"]
        /\ inactTimer' = [inactTimer EXCEPT ![c] = InactivityTimeout \/ @]
        /\ UNCHANGED <<curAddr, nextAddr, session, terminated, streams,
                       activeTimer, stats, inflight, totalReqLeft,
                       totalReqSend, qpsLeft, blocked, loopState>>
     \/ /\ ~UseTLS
        /\ inactTimer' = [inactTimer EXCEPT ![c] = InactivityTimeout \/ @]
        /\ ConnectionMade(c, NoTlsProto)
        /\ UNCHANGED <<curAddr, nextAddr, terminated>>
  /\ UNCHANGED <<phase, warmupArmed, durationArmed, qpsTickArmed, qpsIdx,
                 newConnReq>>

\* writecb on a connecting client.
WriteConnect(c) == ConnectFailed(c) \/ Connected(c)

(* Client::tls_handshake completing: connection_made picks the session    *)
(* from the negotiated protocol; with no usable session it disconnects     *)
(* and the callback fails the client.                                      *)

TlsHandshake(c) ==
  /\ Running /\ cstate[c] = "HANDSHAKE"
  /\ \E p \in TlsOffers :
       IF SelectSession(p) = "none"
         THEN /\ Fail(c)
              /\ UNCHANGED <<totalReqLeft, totalReqSend, qpsLeft, blocked,
                             loopState>>
         ELSE /\ inactTimer' = [inactTimer EXCEPT ![c] = InactivityTimeout \/ @]
              /\ ConnectionMade(c, SelectSession(p))
              /\ UNCHANGED terminated
  /\ UNCHANGED <<phase, warmupArmed, durationArmed, qpsTickArmed, qpsIdx,
                 curAddr, nextAddr, newConnReq>>


(* Client::try_again_or_fail.  After the session asked for a new          *)
(* connection and while requests are left, the requests in flight are     *)
(* counted failed and the client reconnects to the same address.          *)

TryAgainOrFail(c) ==
  /\ DisconnectVars(c)
  /\ newConnReq' = [newConnReq EXCEPT ![c] = FALSE]
  /\ IF newConnReq[c] /\ totalReqLeft > 0
       THEN \E r \in ConnectOutcomes(curAddr[c], nextAddr[c]) :
              /\ cstate' = [cstate EXCEPT ![c] = IF r = 0 THEN "IDLE"
                                                ELSE "CONNECTING"]
              /\ curAddr' = [curAddr EXCEPT ![c] = IF r = 0 THEN @ ELSE r]
              /\ nextAddr' = [nextAddr EXCEPT ![c] =
                                  NextAddrAfter(curAddr[c], @, r)]
              /\ inactTimer' = [inactTimer EXCEPT ![c] = InactivityTimeout]
              /\ stats' = Abandon(stats, inflight[c])
              /\ inflight' = [inflight EXCEPT ![c] = IF InMain THEN 0 ELSE @]
       ELSE /\ cstate' = [cstate EXCEPT ![c] = "IDLE"]
            /\ inactTimer' = [inactTimer EXCEPT ![c] = FALSE]
            /\ stats' = Abandon(stats, inflight[c])
            /\ inflight' = [inflight EXCEPT ![c] = IF InMain THEN 0 ELSE @]
            /\ UNCHANGED <<curAddr, nextAddr>>

(* readcb when do_read fails (EOF, socket error, TLS or decode error):     *)
(* try_again_or_fail, and free_client, which does nothing, when it fails.  *)

ReadFail(c) ==
  /\ Running /\ cstate[c] \in {"HANDSHAKE", "CONNECTED"}
  /\ TryAgainOrFail(c)
  /\ UNCHANGED <<phase, loopState, warmupArmed, durationArmed, qpsTickArmed,
                 totalReqLeft, totalReqSend, qpsLeft, qpsIdx, blocked>>

(* writecb when do_write fails (write error, or a terminated session that  *)
(* has nothing left to send): Client::fail.                                *)

WriteFail(c) ==
  /\ Running /\ cstate[c] \in {"HANDSHAKE", "CONNECTED"}
  /\ Fail(c)
  /\ UNCHANGED <<phase, loopState, warmupArmed, durationArmed, qpsTickArmed,
                 totalReqLeft, totalReqSend, qpsLeft, qpsIdx, blocked,
                 curAddr, nextAddr, newConnReq>>

\* The teardown a terminated session performs by itself: its on_write
\* reports the end of the session.
SessionTeardown(c) == terminated[c] /\ WriteFail(c)

(* The status of a response: on_header(":status") for HTTP/2, which only   *)
(* classifies a stream whose status is still unknown; on_status_code for   *)
(* HTTP/1.1; on_sofarpc_status for BOLT.  Outside MAIN_DURATION the        *)
(* stream is only marked successful.  The HTTP/1.1 and BOLT sessions      *)
(* report the status of a response once; HTTP/2 may repeat :status.       *)

\* The classification shared by on_header and on_status_code.
HttpBucket(code) ==
  IF code >= 200 /\ code < 300 THEN 2
  ELSE IF code < 400 THEN 3
  ELSE IF code < 600 THEN code \div 100
  ELSE 0

HttpOk(code) == IF code < 400 THEN 1 ELSE 0

StatusEvent(c) ==
  /\ Running /\ cstate[c] = "CONNECTED"
  /\ \E r \in BagToSet(streams[c]),
        code \in IF session[c] = "bolt" THEN BoltCodes ELSE HttpCodes :
     /\ session[c] = "h2" \/ r.status = -1
     /\ LET classify == InMain /\ (session[c] # "h2" \/ r.status = -1)
           ok == IF ~InMain THEN 1
                 ELSE IF session[c] = "bolt"
                        THEN IF code = BoltSuccess THEN 1 ELSE 0
                        ELSE HttpOk(code)
           r2 == [r EXCEPT !.status = IF classify \/ ~InMain THEN ok ELSE @]
       IN /\ streams' = [streams EXCEPT ![c] = BagAdd(BagRemove(@, r), r2)]
          /\ stats' =
               IF ~classify THEN stats
               ELSE IF session[c] = "bolt"
                 THEN [stats EXCEPT !.sofarpcStatus[code] = @ + 1]
               ELSE IF HttpBucket(code) = 0 THEN stats
               ELSE [stats EXCEPT !.status[HttpBucket(code)] = @ + 1]
  /\ inactTimer' = [inactTimer EXCEPT ![c] = InactivityTimeout \/ @]
  /\ UNCHANGED <<phase, loopState, warmupArmed, durationArmed, qpsTickArmed,
                 totalReqLeft, totalReqSend, qpsLeft, qpsIdx, blocked, cstate,
                 curAddr, nextAddr, session, terminated, inflight, newConnReq,
                 activeTimer>>

(* Client::on_stream_close.  In MAIN_DURATION: req_inflight goes down      *)
(* (not below 0), the close is counted (success, status success or         *)
(* failure; failure also as error), req_done and an rtt are recorded.      *)
(* Then the stream is erased; with no requests left the session is         *)
(* terminated, otherwise a stream not closed as final is replaced by a     *)
(* new submit_request.  Only HTTP/1.1 closes a stream as final, when the   *)
(* server ends the connection, and then asks for a new connection.         *)

StreamClose(c) ==
  /\ Running /\ cstate[c] = "CONNECTED"
  /\ \E r \in BagToSet(streams[c]), success \in BOOLEAN,
        final \in IF session[c] = "h1" THEN BOOLEAN ELSE {FALSE} :
       LET infl1 == [inflight EXCEPT ![c] = IF InMain /\ @ > 0 THEN @ - 1
                                            ELSE @]
           st1 == IF ~InMain THEN stats
                  ELSE IF success
                    THEN [stats EXCEPT !.req_success = @ + 1,
                            !.req_status_success = @ + (IF r.status = 1 THEN 1 ELSE 0),
                            !.req_failed = @ + (IF r.status = 1 THEN 0 ELSE 1),
                            !.req_done = @ + 1, !.rtts = @ + 1]
                    ELSE [stats EXCEPT !.req_failed = @ + 1,
                            !.req_error = @ + 1,
                            !.req_done = @ + 1, !.rtts = @ + 1]
           strm1 == [streams EXCEPT ![c] = BagRemove(@, r)]
       IN /\ newConnReq' = [newConnReq EXCEPT ![c] = @ \/ final]
          /\ IF totalReqLeft <= 0 \/ final
               THEN /\ terminated' = [terminated EXCEPT ![c] =
                                        @ \/ totalReqLeft <= 0]
                    /\ stats' = st1 /\ inflight' = infl1 /\ streams' = strm1
                    /\ UNCHANGED <<totalReqLeft, totalReqSend, qpsLeft,
                                   blocked, activeTimer, loopState>>
               ELSE /\ SubmitLoop(c, 1, session, st1, infl1, strm1, activeTimer)
                    /\ UNCHANGED terminated
  /\ inactTimer' = [inactTimer EXCEPT ![c] = InactivityTimeout \/ @]
  /\ UNCHANGED <<phase, warmupArmed, durationArmed, qpsTickArmed, qpsIdx,
                 cstate, curAddr, nextAddr, session>>

(* conn_timeout_cb: the inactivity or the active timer fires.  Both are    *)
(* stopped; when the socket is connected, Client::timeout counts the       *)
(* requests in flight as timed out and abandoned, and disconnects.  A      *)
(* socket still connecting may or may not have completed its connect.     *)

SocketConnected(c) ==
  CASE cstate[c] \in {"HANDSHAKE", "CONNECTED"} -> {TRUE}
    [] cstate[c] = "CONNECTING" -> BOOLEAN
    [] cstate[c] = "IDLE" -> {FALSE}

\* Mutation: conn_timeout_cb stops the timers but never calls
\* Client::timeout.
TimeoutNoDisconnect(c) ==
  /\ Running /\ (inactTimer[c] \/ activeTimer[c])
  /\ inactTimer' = [inactTimer EXCEPT ![c] = FALSE]
  /\ activeTimer' = [activeTimer EXCEPT ![c] = FALSE]
  /\ UNCHANGED <<phase, loopState, warmupArmed, durationArmed, qpsTickArmed,
                 totalReqLeft, totalReqSend, qpsLeft, qpsIdx, blocked, stats,
                 cstate, curAddr, nextAddr, session, terminated, streams,
                 inflight, newConnReq>>

Timeout(c) ==
  /\ Running /\ (inactTimer[c] \/ activeTimer[c])
  /\ inactTimer' = [inactTimer EXCEPT ![c] = FALSE]
  /\ \E connected \in SocketConnected(c) :
       IF connected
         THEN /\ cstate' = [cstate EXCEPT ![c] = "IDLE"]
              /\ DisconnectVars(c)
              /\ stats' = TimedOut(stats, inflight[c])
              /\ inflight' = [inflight EXCEPT ![c] = IF InMain THEN 0 ELSE @]
         ELSE /\ activeTimer' = [activeTimer EXCEPT ![c] = FALSE]
              /\ UNCHANGED <<cstate, session, terminated, streams, stats,
                             inflight>>
  /\ UNCHANGED <<phase, loopState, warmupArmed, durationArmed, qpsTickArmed,
                 totalReqLeft, totalReqSend, qpsLeft, qpsIdx, blocked,
                 curAddr, nextAddr, newConnReq>>


(* warmup_timeout_cb: the warm-up is over; MAIN_DURATION starts, with the  *)
(* duration timer and the QPS tick.                                        *)

\* Mutation: warmup_timeout_cb never starts duration_watcher.
WarmupTimeoutNoDuration ==
  /\ Running /\ warmupArmed
  /\ phase' = "MAIN_DURATION"
  /\ warmupArmed' = FALSE /\ qpsTickArmed' = TRUE
  /\ UNCHANGED <<loopState, durationArmed, totalReqLeft, totalReqSend, qpsLeft,
                 qpsIdx, blocked, stats, cstate, curAddr, nextAddr, session,
                 terminated, streams, inflight, newConnReq, inactTimer,
                 activeTimer>>

WarmupTimeout ==
  /\ Running /\ warmupArmed
  /\ phase' = "MAIN_DURATION"
  /\ warmupArmed' = FALSE /\ durationArmed' = TRUE /\ qpsTickArmed' = TRUE
  /\ UNCHANGED <<loopState, totalReqLeft, totalReqSend, qpsLeft, qpsIdx,
                 blocked, stats, cstate, curAddr, nextAddr, session, terminated,
                 streams, inflight, newConnReq, inactTimer, activeTimer>>

\* Worker::stop_all_clients: every client that has a session has it
\* terminated and is disconnected; the others are left as they are.
StopAllClients ==
  LET gone(c) == session[c] # "none"
  IN /\ cstate' = [c \in Clients |-> IF gone(c) THEN "IDLE" ELSE cstate[c]]
     /\ streams' = [c \in Clients |-> IF gone(c) THEN EmptyBag ELSE streams[c]]
     /\ inactTimer' = [c \in Clients |-> ~gone(c) /\ inactTimer[c]]
     /\ activeTimer' = [c \in Clients |-> ~gone(c) /\ activeTimer[c]]
     /\ session' = [c \in Clients |-> "none"]
     /\ terminated' = [c \in Clients |-> FALSE]

(* duration_timeout_cb: total_req_left is zeroed, DURATION_OVER, the QPS   *)
(* tick stopped, Worker::stop_all_clients terminates and disconnects       *)
(* every client that has a session, and the loop is broken.                *)

\* Mutation: duration_timeout_cb without the ev_break.
DurationTimeoutNoBreak ==
  /\ Running /\ durationArmed
  /\ StopAllClients
  /\ totalReqLeft' = 0
  /\ phase' = "DURATION_OVER"
  /\ durationArmed' = FALSE /\ qpsTickArmed' = FALSE
  /\ UNCHANGED <<loopState, warmupArmed, totalReqSend, qpsLeft, qpsIdx,
                 blocked, stats, curAddr, nextAddr, inflight, newConnReq>>

DurationTimeout ==
  /\ Running /\ durationArmed
  /\ StopAllClients
  /\ totalReqLeft' = 0
  /\ phase' = "DURATION_OVER"
  /\ durationArmed' = FALSE /\ qpsTickArmed' = FALSE
  /\ loopState' = "broken"
  /\ UNCHANGED <<warmupArmed, totalReqSend, qpsLeft, qpsIdx, blocked, stats,
                 curAddr, nextAddr, inflight, newConnReq>>

(* update_worker_qpsLeft, every 5 ms: the next slot of qps_counts_ is      *)
(* added to qpsLeft (with no slots the budget is INT_MAX), then blocked    *)

\* Mutation: update_worker_qpsLeft pops one queued client per tick.
QpsTickPopOne ==
  /\ Running /\ qpsTickArmed
  /\ LET tok1 == IF Len(QpsCounts) > 0 THEN qpsLeft + QpsCounts[qpsIdx + 1]
                 ELSE QpsUnbounded
         m == Min({tok1, Len(blocked), 1})
         rest == SubSeq(blocked, 1, Len(blocked) - m)
         popped == SubSeq(blocked, Len(blocked) - m + 1, Len(blocked))
         k == [c \in Clients |-> Cardinality({i \in 1 .. m : popped[i] = c})]
     IN /\ tok1 <= MaxTokens
        /\ ApplySubmits(k, <<>>, FALSE, session, stats, inflight, streams,
                        activeTimer, tok1, rest)
  /\ qpsIdx' = IF Len(QpsCounts) > 0 THEN (qpsIdx + 1) % Len(QpsCounts)
               ELSE qpsIdx
  /\ UNCHANGED <<phase, warmupArmed, durationArmed, qpsTickArmed, cstate,
                 curAddr, nextAddr, session, terminated, newConnReq,
                 inactTimer>>

(* clients are popped from the back and submit while tokens are left.     *)

QpsTick ==
  /\ Running /\ qpsTickArmed
  /\ LET tok1 == IF Len(QpsCounts) > 0 THEN qpsLeft + QpsCounts[qpsIdx + 1]
                 ELSE QpsUnbounded
         m == Min({tok1, Len(blocked)})
         rest == SubSeq(blocked, 1, Len(blocked) - m)
         popped == SubSeq(blocked, Len(blocked) - m + 1, Len(blocked))
         k == [c \in Clients |-> Cardinality({i \in 1 .. m : popped[i] = c})]
     IN /\ tok1 <= MaxTokens
        /\ ApplySubmits(k, <<>>, FALSE, session, stats, inflight, streams,
                        activeTimer, tok1, rest)
  /\ qpsIdx' = IF Len(QpsCounts) > 0 THEN (qpsIdx + 1) % Len(QpsCounts)
               ELSE qpsIdx
  /\ UNCHANGED <<phase, warmupArmed, durationArmed, qpsTickArmed, cstate,
                 curAddr, nextAddr, session, terminated, newConnReq,
                 inactTimer>>

(* ev_run returns in Worker::run once no watcher is active: every client   *)
(* is disconnected with its timers stopped and no worker timer is armed.   *)

LoopExit ==
  /\ Running
  /\ \A c \in Clients : cstate[c] = "IDLE" /\ ~inactTimer[c] /\ ~activeTimer[c]
  /\ ~warmupArmed /\ ~durationArmed /\ ~qpsTickArmed
  /\ loopState' = "exited"
  /\ UNCHANGED <<phase, warmupArmed, durationArmed, qpsTickArmed,
                 totalReqLeft, totalReqSend, qpsLeft, qpsIdx, blocked, stats,
                 cstate, curAddr, nextAddr, session, terminated, streams,
                 inflight, newConnReq, inactTimer, activeTimer>>

\* The worker thread has returned from Worker::run.
Finished == loopState \in {"exited", "broken"}

Next ==
  \/ Run
  \/ \E c \in Clients :
       \/ WriteConnect(c)
       \/ TlsHandshake(c)
       \/ ReadFail(c)
       \/ WriteFail(c)
       \/ StatusEvent(c)
       \/ StreamClose(c)
       \/ Timeout(c)
  \/ WarmupTimeout
  \/ DurationTimeout
  \/ QpsTick
  \/ LoopExit
  \/ (Finished /\ UNCHANGED vars)

(* Fairness: timers fire, a connect(2) in progress completes, a            *)
(* terminated session tears itself down and the loop returns when idle.    *)
(* Of the server we assume that it completes a TLS handshake and answers   *)
(* requests, never that it fails or closes a connection.                   *)
Fairness ==
  /\ WF_vars(Run) /\ WF_vars(LoopExit)
  /\ WF_vars(WarmupTimeout) /\ WF_vars(DurationTimeout) /\ WF_vars(QpsTick)
  /\ \A c \in Clients :
       /\ WF_vars(WriteConnect(c)) /\ WF_vars(TlsHandshake(c))
       /\ WF_vars(StreamClose(c)) /\ WF_vars(Timeout(c))
       /\ WF_vars(SessionTeardown(c))

Spec == Init /\ [][Next]_vars /\ Fairness

-----------------------------------------------------------------------------
(* Properties                                                              *)

TypeOK ==
  /\ phase \in {Phases[i] : i \in 1 .. 4}
  /\ loopState \in {"init", "running", "exited", "broken"}
  /\ {warmupArmed, durationArmed, qpsTickArmed} \subseteq BOOLEAN
  /\ totalReqLeft \in Int /\ totalReqSend \in Nat
  /\ qpsLeft \in Nat /\ qpsIdx \in Nat /\ blocked \in Seq(Clients)
  /\ cstate \in [Clients -> {"IDLE", "CONNECTING", "HANDSHAKE", "CONNECTED"}]
  /\ curAddr \in [Clients -> 0 .. NAddrs]
  /\ nextAddr \in [Clients -> 1 .. NAddrs + 1]
  /\ session \in [Clients -> Sessions]
  /\ \A c \in Clients : IsABag(streams[c]) /\ BagToSet(streams[c]) \subseteq StreamRec
  /\ inflight \in [Clients -> Nat]
  /\ {terminated, newConnReq, inactTimer, activeTimer} \subseteq [Clients -> BOOLEAN]

SumInflight == MapThenSumSet(LAMBDA c : inflight[c], Clients)

\* The streams of client c that submit_request counted as started.
CountedStreams(c) ==
  MapThenSumSet(LAMBDA r : IF r.counted THEN streams[c][r] ELSE 0,
                BagToSet(streams[c]))

(* Every request counted as started (req_started) is, at every moment,     *)
(* exactly one of: closed successfully (req_success), counted as errored   *)
(* (a failed close, or abandoned by try_again_or_fail, timeout or fail),   *)
(* or still in flight on its client (req_inflight).                        *)
RequestConservation ==
  stats.req_started = stats.req_success + stats.req_error + SumInflight

(* The spec's invariant on Client: req_inflight is the number of streams   *)
(* of the client that are in flight and counted, until duration_timeout_cb *)
(* ends the workload (after it, DurationCountsInflight applies).           *)
InflightMatchesStreams ==
  phase # "DURATION_OVER" => \A c \in Clients : inflight[c] = CountedStreams(c)

(* The spec's cancellation rule: when duration_timeout_cb cancels the      *)
(* workload (stop_all_clients), the requests then in flight are counted    *)
(* as errored, so none is left in flight once the duration is over.        *)
DurationCountsInflight == phase = "DURATION_OVER" => SumInflight = 0

StreamsBound == \A c \in Clients : BagCardinality(streams[c]) <= MaxStreams

(* QPS pacing wastes no token: submit_request queues a client in           *)
(* clientsBlockedDueToQps only when qpsLeft is 0, and update_worker_qpsLeft *)
(* pops queued clients for as long as it holds tokens, so no client waits  *)
(* in the queue while the worker holds a token.                            *)
NoIdleTokens == qpsLeft > 0 => blocked = <<>>

(* Count mode: the worker's loop eventually returns (every client drains   *)
(* and is torn down once no request is left).                              *)
CountModeTerminates == Mode = "count" => <>Finished

(* Timing-based modes: the worker's loop eventually returns, because the  *)
(* duration timer is armed once warm-up ends and duration_timeout_cb       *)
(* breaks the loop whatever state the clients are in.                      *)
TimedRunEnds == Timed => <>Finished

=============================================================================
