SPECIFICATION Spec
CONSTANTS
  Proc = {p1}
  p1 = p1
  p2 = p2
  Commands <- MCSshAndIssue
  Threshold = 1
  TTLs <- MCTTLs
  Skews <- MCSkews
  MaxTime = 1
  MaxIssues = 2
INVARIANT LaunchPairMatches
