SPECIFICATION MCFairSpec
CONSTANTS
  VLMAX = 16
  srcAt = 1000
  dstAt = 2000
  masksAt = 10000
  lensAt = 20000
  revAt = 30000
  TailBytes = {255}
  Targets = {"generic", "amd64", "arm64", "power9", "riscv64", "loong64", "s390x"}
  Lengths = {4, 5, 8}
  Values <- AllValues
  OldBytes = {170}
  Slack = 0
  IntBits = 32
  Missing = {0, 12}
INVARIANTS
  OwnMemory
  AsmInv
  RegistersSet
PROPERTIES
  ImplementsEncode
  CallEnds
