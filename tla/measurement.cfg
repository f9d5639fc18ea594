SPECIFICATION Spec
CONSTANTS
    Rate = 2
    Second = 3
    Deadline = 5
    Horizon = 6
    MaxInt = 7
    MaxFailures = 1
    MaxAbandons = 1
INVARIANTS KeepsToTarget WithinWindow EverySampled ReportFinal
CHECK_DEADLOCK FALSE
