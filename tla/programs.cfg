SPECIFICATION ProgramsSpec
CONSTANTS
  MaxLine = 10
  MaxBytes = 30
  Writer = {w1, w2}
  MaxLines = 2
  Client = {c1, c2}
  Parts = 3
  NoClient = NoClient
  IntMax = 127
  Alphabet = {32, 43, 45, 49, 50, 55, 56, 81, 113, 114}
  MaxText = 5
  Letters = {113, 114, 115}
  MaxPair = 4
  MaxRing = 8
  Placeable = {1, 2}
  MaxPlaced = 2
  Nodes = {1, 2, 3, 4, 5, 6, 7, 8, 9, 10, 11, 12, 13, 14, 15}
INVARIANTS
  AtoiSaturates
  StringsAnswered
  ListsAnswered
  NoSleepOverData
  LinesInOrder
PROPERTIES
  NothingLeftBehind
  AllPrinted
  ReaderEndsAfterWriters
  EveryClientServed
CHECK_DEADLOCK FALSE
