SPECIFICATION DSpec
CONSTANTS
  HalfWord = 8
  Base = 4
  IntBytes = 2
  Sources <- MCSources
  Text <- MCText
  Programs <- MCPrograms
INVARIANT DeliveryTypeOK
INVARIANT WholeFileIsProgram
INVARIANT CutFilePrintsPrefix
PROPERTY CutFileEnds
