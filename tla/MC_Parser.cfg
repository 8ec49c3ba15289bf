SPECIFICATION CSpec
CONSTANTS
  Texts <- MCTexts
  MaxInt = 8
  MaxDepth = 12
INVARIANT TypeOK
INVARIANT AgreesWithGrammar
INVARIANT TreeIsReading
INVARIANT FirstFaultPrinted
PROPERTY Terminates
