SPECIFICATION FairSpecAll
CONSTANTS
  MaxDepth = 10
  HalfInt = 4
  HalfWord = 32
  Sources <- MCSources
  Heights <- MCHeights
INVARIANT PassesCoherent
INVARIANT EmitsVerified
INVARIANT ReceiverTyped
INVARIANT PrintsItsMeaning
PROPERTY EventuallyEnds
