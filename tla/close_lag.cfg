\* Two threads, two descriptors: a close hook that runs after the kernel
\* handed the descriptor to another thread's socket().
CONSTANTS
    t1 = t1
    t2 = t2
    Threads <- TwoThreads
    NFds = 2
    HostKinds = {"send"}
    Sizes = {1}
    DumpEveryEvents = 5
    DumpEveryBytes = 0
    DumpEveryMicros = 0
    MaxCalls = 3
    MaxTime = 0
    IOFailures = FALSE
    CloseFailures = FALSE
SPECIFICATION Spec
INVARIANTS
    OwnSocketTracked
