SPECIFICATION FairSpec
INVARIANTS
  RowsInStep
  BuildsTables
  MasksUndo
  RowInv
PROPERTY
  InitEnds
