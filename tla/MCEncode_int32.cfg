SPECIFICATION Spec
CONSTANTS
  VLMAX = 16
  TailBytes = {255}
  Targets = {"generic32"}
  Lengths = {8}
  Values <- Mixed
  OldBytes = {170}
  Slack = 0
  IntBits = 6
INVARIANT
  MaxLenIsUpperBound
