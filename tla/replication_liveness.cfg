SPECIFICATION FairSpec
CONSTANTS
  N = 3
  F = 0
  Leader = 0
  Malicious = {}
  Txs = {t1}
  LoMax = 1
  MaxSeq = 2
  MaxFaults = 0
  MaxBacklog = 2
ACTION_CONSTRAINTS Patient OneAtATime
INVARIANT FinalPrefixReceived
PROPERTIES Progress FinishArrives
CHECK_DEADLOCK FALSE
