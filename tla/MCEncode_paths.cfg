SPECIFICATION Spec
CONSTANTS
  VLMAX = 16
  TailBytes = {255}
  Targets = {"generic", "generic32", "power9", "s390x"}
  Lengths = {0, 1, 4, 5, 8}
  Values <- Mixed
  OldBytes = {170}
  Slack = 16
  IntBits = 6
INVARIANTS
  EncodesSource
  NoOverrun
  EncodeInv
  SafeIsLargest
  RemainderIsShort
  PanicsOnlyWhenTooShort
  ClobberIsBounded
  StaysInMaxLen
PROPERTY
  FinalBytesStay
