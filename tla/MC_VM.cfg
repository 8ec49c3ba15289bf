SPECIFICATION SharedSpec
CONSTANTS
  HalfWord = 4
  Text <- MCText
  Programs <- MCPrograms
  Heights <- MCHeights
INVARIANT TypeOK
INVARIANT NoControlFault
INVARIANT NoUnderflow
PROPERTY OwnStackEach
