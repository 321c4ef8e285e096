SPECIFICATION Spec
CONSTANTS
  VLMAX = 256
  TailBytes = {0, 255}
  Targets = {"riscv64"}
  Counts = {4}
  Streams <- AllKeys
  OldValues <- Filled
  Slack = 0
INVARIANT
  ReadsStream
