\* One thread, count mode (-n 6) or timing mode, size_t scaled to 3 bits.
CONSTANTS
    Modes = {"count", "timing"}
    Threads = {t1}
    NReqs = 6
    Width = 3
    MaxStreams = 2
SPECIFICATION Spec
INVARIANT TypeOK
