SPECIFICATION Spec
CONSTANTS
  Proc = {p1, p2}
  p1 = p1
  p2 = p2
  Commands <- MCSshBesideSaves
  Threshold = 1
  TTLs <- MCShort
  Skews <- MCAhead
  MaxTime = 2
  MaxIssues = 2
INVARIANT TypeOK
INVARIANT SoloSaveIsWhole
INVARIANT AgreementMeansWhole
INVARIANT PublishedIsWhole
INVARIANT SoloRemovalIsClean
INVARIANT ReuseLeavesThreshold
PROPERTY NeverHandsExpired
