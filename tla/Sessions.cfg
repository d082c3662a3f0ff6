SPECIFICATION Spec
CONSTANTS
  work = work
  home = home
  ann = ann
  bob = bob
  Proc = {p1, p2}
  Commands <- MCEvery
  Profile = {work, home}
  Id = {ann, bob}
  None = None
  SignIns <- MCSignIns
  MaxTokens = 2
SYMMETRY Symmetry
INVARIANT TypeOK
INVARIANT OwnTokenWhenSeparate
INVARIANT SoloLoginTakes
INVARIANT IndexClosed
INVARIANT SoloLogoutForgets
