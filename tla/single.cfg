\* One host thread: the event pipeline, stale replacement, I/O failures.
CONSTANTS
    t1 = t1
    t2 = t2
    Threads <- OneThread
    NFds = 2
    HostKinds = {"send", "recv", "bind"}
    Sizes = {1}
    DumpEveryEvents = 2
    DumpEveryBytes = 2
    DumpEveryMicros = 1
    MaxCalls = 6
    MaxTime = 2
    IOFailures = TRUE
    CloseFailures = FALSE
SPECIFICATION Spec
INVARIANTS
    TypeOK
    JsonLogConsistent
    EveryConnectionOwned
    ExitClosesAll
    OwnSocketTracked
PROPERTIES
    CloseIsFinal
