SPECIFICATION Spec
CONSTANTS
  Proc = {p1, p2}
  Key = {k1, k2}
  Secret = {s1}
  None = None
  Unreadable = Unreadable
  Corrupt = Corrupt
  Absent = Absent
  MaxIds = 2
INVARIANT TypeOK
PROPERTY KeepsPromise
\* Only the bound on machine ids stops the processes.
CHECK_DEADLOCK FALSE
SYMMETRY Symmetry
