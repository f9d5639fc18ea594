SPECIFICATION Spec
CONSTANTS
  Replicas = {r1,r2,r3,r4,r5}
  F = 1
  QH = 4
  Txs = {1,2}
  LoMax = 2
  MaxSeq = 3
  MaxCompared = 3
SYMMETRY Symmetry
INVARIANTS CachesExact GraphExact BatchOrderFairness OnlyShadedBlocks OneOrderAccepted
PROPERTY OutputGrows
CHECK_DEADLOCK FALSE
