SPECIFICATION Spec
CONSTANTS
  N = 3
  F = 0
  Leader = 0
  Malicious = {1}
  Txs = {t1,t2}
  LoMax = 2
  MaxSeq = 2
  MaxFaults = 1
  MaxBacklog = 1
CONSTRAINT BeforeDeadline
SYMMETRY Symmetry
INVARIANTS SingleHistory CommitFindsCandidate BatchApplicable LogFollowsReceipt
PROPERTY ImplementsAgreedLog
CHECK_DEADLOCK FALSE
