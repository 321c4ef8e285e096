SPECIFICATION SBSpec
CONSTANTS
  VLMAX = 16
  TailBytes = {255}
  Targets = {"generic", "amd64"}
  Lengths = {4, 5}
  Values <- Mixed
  OldBytes = {170}
  Slack = 0
  IntBits = 32
  Room = 40
INVARIANTS
  BothBlocks
  BlocksInv
PROPERTY
  NoDamage
