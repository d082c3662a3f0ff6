SPECIFICATION Spec
CONSTANTS
  Commands <- MCCommands
  MaxOld = 1
  MaxLog = 3
  ServerLimit = 2
  Retries = 1
  MaxFaults = 2
INVARIANTS
  TypeOK
  FollowsExactly
  NoReplay
  ViewIsCurrent
  ShowsWhatWasAsked
PROPERTY
  NewEntriesShown
CHECK_DEADLOCK FALSE
