\* One thread, a flush after every event, and fclose allowed to fail.
CONSTANTS
    t1 = t1
    t2 = t2
    Threads <- OneThread
    NFds = 1
    HostKinds = {"send"}
    Sizes = {1}
    DumpEveryEvents = 1
    DumpEveryBytes = 0
    DumpEveryMicros = 0
    MaxCalls = 3
    MaxTime = 0
    IOFailures = FALSE
    CloseFailures = TRUE
SPECIFICATION Spec
INVARIANTS
    JsonLogConsistent
