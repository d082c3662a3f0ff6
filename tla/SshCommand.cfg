SPECIFICATION Spec
CONSTANTS
  Text <- MCText
  Inputs <- MCInputs
  Numbers <- MCNumbers
  TakesValue <- MCTakesValue
INVARIANTS
  TypeOK
  PlainPassedThrough
  HighestLayerWins
  AskedAsMeant
CHECK_DEADLOCK FALSE
