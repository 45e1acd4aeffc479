\* Count mode (-n 2 -c 2 -m 1 -N) over TLS with two addresses, where the
\* server may select h2, http/1.1, BOLT, another protocol or none.
CONSTANTS
  Clients = {c1, c2}
  Mode = "count"
  NReqs = 2
  TimingReqLeft = 100
  MaxStreams = 1
  NAddrs = 2
  UseTLS = TRUE
  NoTlsProto = "h2"
  TlsOffers = {"h2", "h1", "bolt", "other", "none"}
  NpnHasH1 = TRUE
  InactivityTimeout = TRUE
  ActiveTimeout = FALSE
  QpsCounts <- NoQpsSlots
  QpsUnbounded = 50
  HttpCodes = {200, 503}
  BoltCodes = {0, 1}
  BoltSuccess = 0
  MaxSends = 2
  MaxTokens = 50
  MaxBlocked = 3

SPECIFICATION Spec
INVARIANT TypeOK RequestConservation InflightMatchesStreams  StreamsBound
PROPERTY CountModeTerminates
