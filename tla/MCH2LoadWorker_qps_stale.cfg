\* QPS mode (--qps with -D, -c 1 -m 2), HTTP/1.1: a client reconnects while it
\* is still queued in clientsBlockedDueToQps.
CONSTANTS
  Clients = {c1}
  Mode = "qps"
  NReqs = 0
  TimingReqLeft = 100
  MaxStreams = 2
  NAddrs = 1
  UseTLS = FALSE
  NoTlsProto = "h1"
  TlsOffers = {"h2"}
  NpnHasH1 = TRUE
  InactivityTimeout = FALSE
  ActiveTimeout = FALSE
  QpsCounts <- TwoQpsSlots
  QpsUnbounded = 50
  HttpCodes = {200}
  BoltCodes = {0}
  BoltSuccess = 0
  MaxSends = 4
  MaxTokens = 2
  MaxBlocked = 4

SPECIFICATION Spec
INVARIANT StreamsBound
