SPECIFICATION MCFairSpec
CONSTANTS
  VLMAX = 16
  srcAt = 1000
  dstAt = 2000
  masksAt = 10000
  lensAt = 20000
  revAt = 30000
  TailBytes = {255}
  Targets = {"generic", "amd64", "arm64", "power8", "power9", "riscv64", "loong64", "s390x"}
  Counts = {4, 9, 12}
  Streams <- AllStreams
  OldValues <- FilledOnly
  Slack = 1
INVARIANTS
  OwnMemory
  AsmInv
  RegistersSet
PROPERTIES
  ImplementsDecode
  CallEnds
