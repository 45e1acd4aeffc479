\* Count mode (-n 3 -c 2 -m 2) without -N, HTTP/2 cleartext, two addresses.
CONSTANTS
  Clients = {c1, c2}
  Mode = "count"
  NReqs = 3
  TimingReqLeft = 100
  MaxStreams = 2
  NAddrs = 2
  UseTLS = FALSE
  NoTlsProto = "h2"
  TlsOffers = {"h2"}
  NpnHasH1 = TRUE
  InactivityTimeout = FALSE
  ActiveTimeout = FALSE
  QpsCounts <- NoQpsSlots
  QpsUnbounded = 50
  HttpCodes = {200, 503}
  BoltCodes = {0}
  BoltSuccess = 0
  MaxSends = 3
  MaxTokens = 50
  MaxBlocked = 3

SPECIFICATION Spec

PROPERTY CountModeTerminates
