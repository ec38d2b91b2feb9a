SPECIFICATION FairSpec
CONSTANTS
  Token <- MCToken
  Today <- MCToday
  MaxTokens = 32
  MaxPrn = 32
  Channels = 12
  PerSentence = 4
  Sentences <- MCSentences
  MinLength = 9
  MaxCalls = 5
  MaxSentences = 2
  MaxFaults = 1
  FaultKinds = {"open", "tty", "pair", "create", "hangup"}
CHECK_DEADLOCK FALSE
INVARIANTS
  JoinsItsThread
  CommandsHold
  FixFresh
PROPERTIES
  KeepsSession
  CleanupReturns
