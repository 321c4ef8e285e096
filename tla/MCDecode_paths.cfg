SPECIFICATION Spec
CONSTANTS
  VLMAX = 16
  TailBytes = {255}
  Targets = {"generic", "power8", "s390x"}
  Counts <- SomeCounts
  Streams <- CutStreams
  OldValues <- Filled
  Slack = 1
INVARIANTS
  ReadsStream
  LoadInBounds
  DecodedPrefix
  PanicsOnlyWhenTruncated
  SafeIsLargest
  IndInv
