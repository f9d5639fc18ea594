SPECIFICATION Spec
CONSTANTS
  Replicas = {r1,r2,r3}
  F = 0
  QH = 2
  Txs = {1,2,3}
  LoMax = 3
  MaxSeq = 2
  MaxCompared = 1
SYMMETRY Symmetry
INVARIANTS CertificateAccepted TarjanExact KahnExact OneOrderAccepted
CHECK_DEADLOCK FALSE
