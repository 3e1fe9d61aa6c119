\* Two threads on one descriptor, both tcp_info gates open: both hooks decide
\* to sample under the slot lock and record the samples after the unlock.
CONSTANTS
    t1 = t1
    t2 = t2
    Threads <- TwoThreads
    NFds = 1
    HostKinds = {"send"}
    Sizes = {1}
    DumpEveryEvents = 5
    DumpEveryBytes = 0
    DumpEveryMicros = 0
    MaxCalls = 3
    MaxTime = 0
    IOFailures = FALSE
    CloseFailures = FALSE
SPECIFICATION Spec
INVARIANTS
    NoConsecutiveTcpInfo
