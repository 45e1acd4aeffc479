\* HTTP/2 streams whose response may start with an interim 103.
CONSTANTS
    Streams = {s1, s2}
    Protos = {"h2"}
    Values <- InterimValues
    Codes = {200}
    BoltCodes = {0}
    OtherHeader = other
    NonDigit = x
    Warmup = FALSE
    MaxHeaders = 2
SPECIFICATION Spec
INVARIANT RecordsFinalStatus
