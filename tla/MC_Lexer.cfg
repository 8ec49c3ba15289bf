CONSTANTS
  Sources <- MCSources
  Others <- MCOthers
  Println <- MCPrintln
  Keywords <- MCKeywords
  MaxLookahead = 1
  MaxTaken = 5
  MaxDiagnostics = 2
SPECIFICATION Spec
INVARIANT TypeOK
INVARIANT TokensAreLongestMatches
INVARIANT ReportedOnce
