SPECIFICATION Spec
CONSTANTS
  Starts <- SomeStarts
  Pieces <- SomePieces
  MaxPieces = 2
  WriteTicks = 1
INVARIANTS
  TypeOK
  ViewsAgree
  MonthsCount
  ReadAgrees
  
  NamesInOrder
PROPERTY
  IsWallClock
CHECK_DEADLOCK FALSE
