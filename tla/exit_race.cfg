\* Two threads: one runs the atexit sweep while the other creates a socket.
CONSTANTS
    t1 = t1
    t2 = t2
    Threads <- TwoThreads
    NFds = 2
    HostKinds = {"send"}
    Sizes = {1}
    DumpEveryEvents = 5
    DumpEveryBytes = 0
    DumpEveryMicros = 0
    MaxCalls = 3
    MaxTime = 0
    IOFailures = FALSE
    CloseFailures = FALSE
SPECIFICATION Spec
INVARIANTS
    ExitClosesAll
