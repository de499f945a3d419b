SPECIFICATION LotSpec
CONSTANTS
  Null = Null
  Corrupt = Corrupt
  Policy <- ReportPolicy
  Evidence <- LookEvidence
  MaxTime = 7
  MaxCrashes = 0
  Allowed = {}
  TickDeadlineS = 0
  NotifyInterval = 2
  SpoolMax = 2
  MaxFails = 0
INVARIANTS RecordTold AlarmsKept RebootForeseen DownIsCalled
PROPERTY AlarmHeard
