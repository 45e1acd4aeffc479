\* Timing-based mode (-D, -c 2 -m 1), HTTP/1.1: requests in flight at the end
\* of the duration.
CONSTANTS
  Clients = {c1, c2}
  Mode = "timing"
  NReqs = 0
  TimingReqLeft = 100
  MaxStreams = 1
  NAddrs = 1
  UseTLS = FALSE
  NoTlsProto = "h1"
  TlsOffers = {"h2"}
  NpnHasH1 = TRUE
  InactivityTimeout = FALSE
  ActiveTimeout = TRUE
  QpsCounts <- NoQpsSlots
  QpsUnbounded = 50
  HttpCodes = {200}
  BoltCodes = {0}
  BoltSuccess = 0
  MaxSends = 3
  MaxTokens = 50
  MaxBlocked = 3

SPECIFICATION Spec
INVARIANT DurationCountsInflight
