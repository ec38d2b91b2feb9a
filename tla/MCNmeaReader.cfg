SPECIFICATION Spec
CONSTANTS
  Token <- MCToken
  Today <- MCToday
  MaxTokens = 32
  MaxPrn = 32
  Channels = 12
  PerSentence = 1
  Sentences <- MCLines
  Size = 3
  MinLength = 2
  MaxLength = 4
  MaxLines = 3
  MaxResets = 1
  MaxCuts = 1
CHECK_DEADLOCK FALSE
INVARIANTS
  TypeOK
  LineWhole
  LineKept
  ListWhole
