SPECIFICATION CodesSpec
CONSTANTS
  VLMAX = 16
  TailBytes = {255}
  Targets = {"generic", "generic32", "amd64", "amd64_noSSSE3", "arm64", "power8", "power9", "riscv64", "loong64", "s390x"}
  Lengths = {1, 4, 9}
  Values <- EveryValue
  OldBytes = {170}
  Slack = 0
  IntBits = 16
INVARIANTS
  MatchesRefEncode
