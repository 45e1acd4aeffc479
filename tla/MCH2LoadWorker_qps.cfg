\* QPS mode (--qps with -D and a warm-up, -c 2 -m 1, -T), HTTP/1.1 cleartext,
\* two qps slots giving two tokens, then none.
CONSTANTS
  Clients = {c1, c2}
  Mode = "qps"
  NReqs = 0
  TimingReqLeft = 100
  MaxStreams = 1
  NAddrs = 1
  UseTLS = FALSE
  NoTlsProto = "h1"
  TlsOffers = {"h2"}
  NpnHasH1 = TRUE
  InactivityTimeout = FALSE
  ActiveTimeout = TRUE
  QpsCounts <- BurstQpsSlots
  QpsUnbounded = 50
  HttpCodes = {200}
  BoltCodes = {0}
  BoltSuccess = 0
  MaxSends = 3
  MaxTokens = 2
  MaxBlocked = 3

SPECIFICATION Spec
INVARIANT RequestConservation NoIdleTokens
PROPERTY TimedRunEnds
