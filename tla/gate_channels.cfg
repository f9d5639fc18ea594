SPECIFICATION FairSpec
CONSTANTS
    N = 2
    F = 0
    Leader = 0
    OrderCapacity = 1
    MaxSeq = 2
    MaxFaults = 1
    MaxLate = 1
    MaxAttempts = 1
INVARIANT OnlyVerificationsRead
PROPERTIES Progress OrdersNeverBlock FinishCompletes
CHECK_DEADLOCK FALSE
