\* Two streams, of an HTTP/2, HTTP/1.1 or BOLT client, with a warm-up phase;
\* every response has a final status only.
CONSTANTS
    Streams = {s1, s2}
    Protos = {"h1", "h2", "bolt"}
    Values <- FinalValues
    Codes = {200, 302, 400, 503, 700}
    BoltCodes = {0, 1, 8}
    OtherHeader = other
    NonDigit = x
    Warmup = TRUE
    MaxHeaders = 2
SPECIFICATION Spec
INVARIANTS TypeOK ParseLeadingDigits
