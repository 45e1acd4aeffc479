---------------------------- MODULE StatusClassify ----------------------------
(***************************************************************************)
(* How a Client classifies the responses of its streams: on_header parses  *)
(* the :status value of an HTTP/2 stream digit by digit, on_status_code    *)
(* takes the HTTP/1.1 status directly, and both sort it into the status    *)
(* buckets and set the stream's status_success; on_sofarpc_status counts   *)
(* a BOLT response status in its table.  on_stream_close then turns        *)
(* status_success into req_status_success or req_failed.  The session     *)
(* (not in this repository) is the environment: it opens streams,        *)
(* delivers headers or status codes in any order, and closes streams.      *)
(*                                                                         *)
(* A header value is a sequence of characters: the digits 0..9 and NonDigit *)
(* standing for any other character.                                       *)
(***************************************************************************)
EXTENDS Integers, Sequences, FiniteSets, FiniteSetsExt

CONSTANTS Streams,     \* stream ids the session opens
          Protos,      \* sessions of the streams' clients: "h2" reports
                       \* :status to on_header, "h1" to on_status_code,
                       \* "bolt" to on_sofarpc_status
          Values,      \* :status values the server may send (sequences)
          Codes,       \* status codes an HTTP/1.1 response may carry
          BoltCodes,   \* response statuses a BOLT response may carry
          OtherHeader, \* a header name other than :status
          NonDigit,    \* a character that is not a digit
          Warmup,      \* --warm-up-time given: the run starts in WARM_UP
          MaxHeaders   \* headers or status codes per stream

ASSUME Protos \subseteq {"h1", "h2", "bolt"} /\ BoltCodes \subseteq 0..99 /\ Warmup \in BOOLEAN /\ MaxHeaders \in Nat

Buckets == 1..5

\* RESPONSE_STATUS_SUCCESS of the BOLT protocol (declared in h2load.h).
ResponseStatusSuccess == 0

VARIABLES phase,          \* worker->current_phase
          stream,         \* "none", "open" or "closed" (erased)
          proto,          \* the session of the stream's client
          statusSuccess,  \* Stream::status_success
          reqStatus,      \* Stream::req_stat.status
          nHeaders,       \* headers or codes delivered to the stream
          status,         \* worker->stats.status[1..5]
          reqSuccess,     \* worker->stats.req_success
          reqStatusSuccess, \* worker->stats.req_status_success
          reqFailed,      \* worker->stats.req_failed
          sofarpcStatus,  \* worker->stats.sofarpcStatus, by BOLT status
          sent,           \* the status the server last sent: -1 if it
                          \* is not a three-digit code, -2 if none yet
          warm,           \* a header or status arrived in WARM_UP
          parsed          \* the :status value on_header parsed, if any

vars == <<phase, stream, proto, statusSuccess, reqStatus, nHeaders, status,
          reqSuccess, reqStatusSuccess, reqFailed, sofarpcStatus, sent, warm,
          parsed>>

(* What a server means by a :status value: a three-digit code, or nothing  *)
(* when the value is not one.                                              *)
Meant(v) ==
    IF Len(v) = 3 /\ \A i \in 1..3 : v[i] \in 0..9
       THEN v[1] * 100 + v[2] * 10 + v[3]
       ELSE -1

(* The value of the leading digits of v, or -1 when it exceeds 999: the     *)
(* reference the digit loop of on_header is checked against.               *)
LeadingDigits(v) ==
    LET k == Max({j \in 0..Len(v) : \A i \in 1..j : v[i] \in 0..9})
        n == MapThenSumSet(LAMBDA i : v[i] * 10^(k - i), 1..k)
    IN  IF n > 999 THEN -1 ELSE n

\* A mutant of ParseFrom: the loop skips a non-digit instead of stopping.
RECURSIVE ParseFromNoBreak(_, _, _)
ParseFromNoBreak(v, i, acc) ==
    IF i > Len(v) THEN acc
    ELSE IF v[i] \notin 0..9 THEN ParseFromNoBreak(v, i + 1, acc)
    ELSE IF acc * 10 + v[i] > 999 THEN -1
    ELSE ParseFromNoBreak(v, i + 1, acc * 10 + v[i])

\* A mutant of ParseFrom: the overflow test is missing.
RECURSIVE ParseFromNoCap(_, _, _)
ParseFromNoCap(v, i, acc) ==
    IF i > Len(v) \/ v[i] \notin 0..9 THEN acc
    ELSE ParseFromNoCap(v, i + 1, acc * 10 + v[i])

(* The digit loop of on_header: status = status * 10 + digit while the     *)
(* characters are digits; above 999 it gives up (-1 here).                 *)
RECURSIVE ParseFrom(_, _, _)
ParseFrom(v, i, acc) ==
    IF i > Len(v) \/ v[i] \notin 0..9 THEN acc
    ELSE IF acc * 10 + v[i] > 999 THEN -1
    ELSE ParseFrom(v, i + 1, acc * 10 + v[i])

ParseStatus(v) == ParseFrom(v, 1, 0)

(* The classification shared by on_header and on_status_code: the bucket  *)
(* incremented (0: none) and the new status_success.                       *)
Classify(s) ==
    IF s >= 200 /\ s < 300 THEN [bucket |-> 2, ok |-> 1]
    ELSE IF s < 400 THEN [bucket |-> 3, ok |-> 1]
    ELSE IF s < 600 THEN [bucket |-> s \div 100, ok |-> 0]
    ELSE [bucket |-> 0, ok |-> 0]

\* Record status s on stream sid and count it in its bucket.
Record(sid, s) ==
    LET c == Classify(s) IN
    /\ reqStatus' = [reqStatus EXCEPT ![sid] = s]
    /\ statusSuccess' = [statusSuccess EXCEPT ![sid] = c.ok]
    /\ status' = IF c.bucket = 0 THEN status
                 ELSE [status EXCEPT ![c.bucket] = @ + 1]

Init ==
    /\ phase = IF Warmup THEN "WARM_UP" ELSE "MAIN_DURATION"
    /\ stream = [s \in Streams |-> "none"]
    /\ proto \in [Streams -> Protos]
    /\ statusSuccess = [s \in Streams |-> -1]
    /\ reqStatus = [s \in Streams |-> 0]
    /\ nHeaders = [s \in Streams |-> 0]
    /\ status = [b \in Buckets |-> 0]
    /\ reqSuccess = 0 /\ reqStatusSuccess = 0 /\ reqFailed = 0
    /\ sofarpcStatus = [c \in BoltCodes |-> 0]
    /\ sent = [s \in Streams |-> -2]
    /\ warm = [s \in Streams |-> FALSE]
    /\ parsed = [s \in Streams |-> {}]

\* warmup_timeout_cb: the phase becomes MAIN_DURATION.
WarmupEnd ==
    /\ phase = "WARM_UP"
    /\ phase' = "MAIN_DURATION"
    /\ UNCHANGED <<stream, proto, statusSuccess, reqStatus, nHeaders, status,
                   reqSuccess, reqStatusSuccess, reqFailed, sofarpcStatus, sent, warm,
                   parsed>>

\* on_request: streams[stream_id] = Stream().
OnRequest(sid) ==
    /\ stream[sid] = "none"
    /\ stream' = [stream EXCEPT ![sid] = "open"]
    /\ UNCHANGED <<phase, proto, statusSuccess, reqStatus, nHeaders, status,
                   reqSuccess, reqStatusSuccess, reqFailed, sofarpcStatus, sent, warm,
                   parsed>>

(* A status is delivered to an open stream.  A server sends another      *)
(* status on a stream only after an interim (1xx) one.                     *)
Deliver(sid, isStatus, meant) ==
    /\ stream[sid] = "open"
    /\ nHeaders[sid] < MaxHeaders
    /\ isStatus => sent[sid] \in {-2} \cup 100..199
    /\ nHeaders' = [nHeaders EXCEPT ![sid] = @ + 1]
    /\ sent' = IF isStatus THEN [sent EXCEPT ![sid] = meant] ELSE sent
    /\ warm' = IF phase = "WARM_UP" THEN [warm EXCEPT ![sid] = TRUE] ELSE warm

(* on_header: outside MAIN_DURATION any header marks the stream a success; *)
(* in MAIN_DURATION only the first :status of a stream is parsed, and a    *)
(* value above 999 marks it a failure without a bucket.                    *)
OnHeader(sid) ==
    /\ proto[sid] = "h2"
    /\ \E name \in {":status", OtherHeader}, v \in Values :
         /\ Deliver(sid, name = ":status", Meant(v))
         /\ parsed' = IF phase = "MAIN_DURATION" /\ statusSuccess[sid] = -1
                           /\ name = ":status"
                        THEN [parsed EXCEPT ![sid] = {v}] ELSE parsed
         /\ IF phase # "MAIN_DURATION"
              THEN /\ statusSuccess' = [statusSuccess EXCEPT ![sid] = 1]
                   /\ UNCHANGED <<reqStatus, status>>
            ELSE IF statusSuccess[sid] = -1 /\ name = ":status"
              THEN IF ParseStatus(v) = -1
                     THEN /\ statusSuccess' = [statusSuccess EXCEPT ![sid] = 0]
                          /\ UNCHANGED <<reqStatus, status>>
                     ELSE Record(sid, ParseStatus(v))
            ELSE UNCHANGED <<statusSuccess, reqStatus, status>>
    /\ UNCHANGED <<phase, stream, proto, reqSuccess, reqStatusSuccess, reqFailed,
                   sofarpcStatus>>

(* on_status_code: every status the HTTP/1.1 session reports in            *)
(* MAIN_DURATION is recorded and counted.                                  *)
OnStatusCode(sid) ==
    /\ proto[sid] = "h1"
    /\ \E code \in Codes :
         /\ Deliver(sid, TRUE, IF code \in 100..999 THEN code ELSE -1)
         /\ UNCHANGED parsed
         /\ IF phase # "MAIN_DURATION"
              THEN /\ statusSuccess' = [statusSuccess EXCEPT ![sid] = 1]
                   /\ UNCHANGED <<reqStatus, status>>
              ELSE Record(sid, code)
    /\ UNCHANGED <<phase, stream, proto, reqSuccess, reqStatusSuccess, reqFailed,
                   sofarpcStatus>>

(* on_sofarpc_status: in MAIN_DURATION the status is recorded, the stream  *)
(* is a success exactly when it is RESPONSE_STATUS_SUCCESS, and the status *)
(* is counted in sofarpcStatus.                                            *)
OnSofarpcStatus(sid) ==
    /\ proto[sid] = "bolt"
    /\ \E code \in BoltCodes :
         /\ Deliver(sid, TRUE, code)
         /\ IF phase # "MAIN_DURATION"
              THEN /\ statusSuccess' = [statusSuccess EXCEPT ![sid] = 1]
                   /\ UNCHANGED <<reqStatus, sofarpcStatus>>
              ELSE /\ reqStatus' = [reqStatus EXCEPT ![sid] = code]
                   /\ statusSuccess' = [statusSuccess EXCEPT ![sid] =
                                          IF code = ResponseStatusSuccess THEN 1 ELSE 0]
                   /\ sofarpcStatus' = [sofarpcStatus EXCEPT ![code] = @ + 1]
    /\ UNCHANGED <<phase, stream, proto, status, reqSuccess, reqStatusSuccess,
                   reqFailed, parsed>>

(* on_stream_close in MAIN_DURATION: a successful close counts            *)
(* req_success and, by status_success, req_status_success or req_failed;  *)
(* a failed close counts req_failed.  The stream is erased in any phase.   *)
OnStreamClose(sid) ==
    /\ stream[sid] = "open"
    /\ stream' = [stream EXCEPT ![sid] = "closed"]
    /\ \E success \in BOOLEAN :
         IF phase = "MAIN_DURATION"
           THEN /\ reqSuccess' = IF success THEN reqSuccess + 1 ELSE reqSuccess
                /\ reqStatusSuccess' =
                     IF success /\ statusSuccess[sid] = 1
                       THEN reqStatusSuccess + 1 ELSE reqStatusSuccess
                /\ reqFailed' =
                     IF success /\ statusSuccess[sid] = 1
                       THEN reqFailed ELSE reqFailed + 1
           ELSE UNCHANGED <<reqSuccess, reqStatusSuccess, reqFailed>>
    /\ UNCHANGED <<phase, proto, statusSuccess, reqStatus, nHeaders, status,
                   sofarpcStatus, sent, warm, parsed>>

AllClosed == \A sid \in Streams : stream[sid] = "closed"

Next ==
    \/ WarmupEnd
    \/ \E sid \in Streams :
         OnRequest(sid) \/ OnHeader(sid) \/ OnStatusCode(sid) \/ OnSofarpcStatus(sid)
           \/ OnStreamClose(sid)
    \/ (AllClosed /\ UNCHANGED vars)

Spec == Init /\ [][Next]_vars

-----------------------------------------------------------------------------

TypeOK ==
    /\ phase \in {"WARM_UP", "MAIN_DURATION"}
    /\ stream \in [Streams -> {"none", "open", "closed"}]
    /\ proto \in [Streams -> Protos]
    /\ statusSuccess \in [Streams -> -1..1]
    /\ reqStatus \in [Streams -> 0..999 \cup Codes]
    /\ sofarpcStatus \in [BoltCodes -> Nat]
    /\ nHeaders \in [Streams -> 0..MaxHeaders]
    /\ status \in [Buckets -> Nat]
    /\ {reqSuccess, reqStatusSuccess, reqFailed} \subseteq Nat
    /\ sent \in [Streams -> -2..999]
    /\ warm \in [Streams -> BOOLEAN]
    /\ parsed \in [Streams -> SUBSET Values]

(* The digit loop of on_header records the value of the leading digits of *)
(* the :status it parsed, and fails the stream exactly when that value     *)
(* exceeds 999.                                                            *)
ParseLeadingDigits ==
    \A sid \in Streams : \A v \in parsed[sid] :
        IF LeadingDigits(v) = -1 THEN statusSuccess[sid] = 0
                                 ELSE reqStatus[sid] = LeadingDigits(v)

(* The status recorded for a stream whose response arrived in            *)
(* MAIN_DURATION is the final status the server sent it (an HTTP 2xx to   *)
(* 5xx, or a BOLT response status), so the reported status of a request is *)
(* its response's.                                                         *)
FinalStatus(sid) ==
    IF proto[sid] = "bolt" THEN sent[sid] >= 0 ELSE sent[sid] \in 200..599

RecordsFinalStatus ==
    \A sid \in Streams :
        (~warm[sid] /\ FinalStatus(sid)) => reqStatus[sid] = sent[sid]

=============================================================================
