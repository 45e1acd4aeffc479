\* Timing-based mode (-D with --warm-up-time, -c 2 -m 2), HTTP/1.1: a request
\* submitted in warm-up and closed in MAIN_DURATION.
CONSTANTS
  Clients = {c1, c2}
  Mode = "timing"
  NReqs = 0
  TimingReqLeft = 100
  MaxStreams = 2
  NAddrs = 1
  UseTLS = FALSE
  NoTlsProto = "h1"
  TlsOffers = {"h2"}
  NpnHasH1 = TRUE
  InactivityTimeout = FALSE
  ActiveTimeout = TRUE
  QpsCounts <- NoQpsSlots
  QpsUnbounded = 50
  HttpCodes = {200}
  BoltCodes = {0}
  BoltSuccess = 0
  MaxSends = 4
  MaxTokens = 50
  MaxBlocked = 3

SPECIFICATION Spec
INVARIANT InflightMatchesStreams
