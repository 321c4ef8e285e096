SPECIFICATION RTFairSpec
CONSTANTS
  VLMAX = 16
  TailBytes = {255}
  Targets = {"arm64", "s390x"}
  DecodeTargets = {"power8", "s390x"}
  Lengths = {0, 1, 4, 5, 8}
  Values <- Mixed
  OldBytes = {170}
  Slack = 0
  IntBits = 32
INVARIANTS
  Reproduces
  NeverCut
  RTInv
PROPERTIES
  ImplementsCodec
  GetsThrough
