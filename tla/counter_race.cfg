CONSTANTS
    Modes = {"count", "timing"}
    Threads = {t1, t2}
    NReqs = 2
    Width = 3
    MaxStreams = 2
SPECIFICATION Spec
PROPERTY BudgetRefined
