SPECIFICATION Spec
CONSTANTS
  work = work
  home = home
  ann = ann
  bob = bob
  Proc = {p1}
  Commands <- MCEvery
  Profile = {work, home}
  Id = {ann}
  None = None
  SignIns <- MCSharedSignIns
  MaxTokens = 2
INVARIANT OwnTokenOnly
