SPECIFICATION Spec
CONSTANTS
  VLMAX = 16
  TailBytes = {255}
  Targets = {"amd64"}
  Lengths = {4}
  Values <- Mixed
  OldBytes = {170}
  Slack = 1
  IntBits = 32
INVARIANT
  OnlyEncodedBytesWritten
