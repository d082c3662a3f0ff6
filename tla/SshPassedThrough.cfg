SPECIFICATION Spec
CONSTANTS
  Text <- MCText
  Inputs <- MCGroupedInputs
  Numbers <- MCNumbers
  TakesValue <- MCTakesValue
INVARIANTS
  PassedThrough
CHECK_DEADLOCK FALSE
