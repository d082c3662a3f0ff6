SPECIFICATION Spec
CHECK_DEADLOCK FALSE
CONSTANTS
  c1 = c1
  c2 = c2
  m1 = m1
  None = None
  CA = {c1, c2}
  Machine = {m1}
  Invocations <- MCInvocations
  Starts <- MCStarts
  MaxOthers = 1
INVARIANTS
  TypeOK
  SuccessIsTrue
  EffectsAccounted
  NothingWithoutConsent
  OneDocument
  DoctorAgrees
PROPERTY
  CommandEnds
