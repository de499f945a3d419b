SPECIFICATION FairSpec
CONSTANTS
  Null = Null
  Corrupt = Corrupt
  Policy <- MCPolicy
  Evidence <- CoreEvidence
  MaxTime = 4
  MaxCrashes = 1
  Allowed = {}
  TickDeadlineS = 1
PROPERTY PendingResolves
