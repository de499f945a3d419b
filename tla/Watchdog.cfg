SPECIFICATION LotSpec
CONSTANTS
  Null = Null
  Corrupt = Corrupt
  Policy <- MCPolicy
  Evidence <- CoreEvidence
  MaxTime = 11
  MaxCrashes = 0
  Allowed = {}
  TickDeadlineS = 1
INVARIANTS TypeOK OneActionPerOutage PeopleFirst SentSpaced RationHeld
