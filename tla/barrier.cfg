SPECIFICATION FairSpec
CONSTANTS
    N = 3
    Leader = 0
    Process <- FirstTwoTogether
    MaxReady = 1
    MaxTxs = 1
    MaxFaults = 2
INVARIANTS StartBeforeTransactions HandlersBeforeExperiment
PROPERTIES ImplementsBarrier EverybodyStarts
CHECK_DEADLOCK FALSE
