SPECIFICATION StatusSpec
CONSTANTS
  Null = Null
  Corrupt = Corrupt
  Policy <- ReportPolicy
  Evidence <- ReportEvidence
  MaxTime = 3
  MaxCrashes = 0
  Allowed = {}
  TickDeadlineS = 0
  NotifyInterval = 2
  SpoolMax = 2
  MaxFails = 0
INVARIANT EventsKept
