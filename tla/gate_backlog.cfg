SPECIFICATION Spec
CONSTANTS
    N = 5
    F = 1
    Leader = 0
    OrderCapacity = 1
    MaxSeq = 3
    MaxFaults = 3
    MaxLate = 1
    MaxAttempts = 1
INVARIANT WedgeNeedsRetries
CONSTRAINTS NoDeadline OrdersInTurn Lockstep LastFailure
CHECK_DEADLOCK FALSE
