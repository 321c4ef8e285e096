SPECIFICATION Spec
CONSTANTS
  VLMAX = 16
  TailBytes = {255}
  Targets = {"generic", "amd64", "amd64_noSSSE3", "arm64", "power8", "power9", "riscv64", "loong64", "s390x"}
  Counts = {4, 6}
  Streams <- AllKeys
  OldValues <- Filled
  Slack = 0
INVARIANTS
  DecodedPrefix
