\* Two host threads sharing descriptors: the pipeline and the ownership of
\* records under interleaved hooks, with every I/O failure enabled.
CONSTANTS
    t1 = t1
    t2 = t2
    Threads <- TwoThreads
    NFds = 2
    HostKinds = {"send", "bind"}
    Sizes = {1}
    DumpEveryEvents = 2
    DumpEveryBytes = 1
    DumpEveryMicros = 0
    MaxCalls = 4
    MaxTime = 0
    IOFailures = TRUE
    CloseFailures = TRUE
SPECIFICATION Spec
INVARIANTS
    EveryConnectionOwned
PROPERTIES
    CloseIsFinal
