SPECIFICATION Spec
CONSTANTS
  N = 5
  F = 1
  Leader = 0
  Malicious = {}
  Txs = {t1}
  LoMax = 1
  MaxSeq = 2
  MaxFaults = 0
  MaxBacklog = 2
CONSTRAINT Lockstep
INVARIANTS Agreement QuorumBacked NoEquivocation CommitOwed
CHECK_DEADLOCK FALSE
