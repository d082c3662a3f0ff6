SPECIFICATION Spec
CONSTANTS
  Proc = {p1, p2}
  p1 = p1
  p2 = p2
  Commands <- MCTwoSaves
  Threshold = 1
  TTLs <- MCTTLs
  Skews <- MCSkews
  MaxTime = 0
  MaxIssues = 2
INVARIANT MetadataReads
