SPECIFICATION LotsSpec
CONSTANTS
  Null = Null
  Torn = Torn
  WanTargets <- MCWanTargets
  Lines <- MCLines
  SpoolMax = 2
  MaxTime = 3
  MaxFaults = 2
  Allowed = {"break", "torn", "late"}
INVARIANTS TypeOK RecordSound ChangesTrue
PROPERTIES EachScopeRecord EveryCycleRecorded
