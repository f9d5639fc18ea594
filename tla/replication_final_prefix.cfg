SPECIFICATION Spec
CONSTANTS
  N = 5
  F = 1
  Leader = 0
  Malicious = {}
  Txs = {t1}
  LoMax = 1
  MaxSeq = 1
  MaxFaults = 0
  MaxBacklog = 0
CONSTRAINT Committing
INVARIANT FinalPrefixReceived
CHECK_DEADLOCK FALSE
