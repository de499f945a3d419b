SPECIFICATION Spec
CONSTANTS
  Keys <- MCKeys
  Null = Null
  Redacted = Redacted
  Tolerance = 1
  HostVantageAge = 4
  Requests = {r1, r2}
  Kinds = {"reconnect", "reboot"}
  ConnTypes = {"PPPoE", "DHCP", "odd"}
  HostVantages <- MCVantages
  ReadTime = 1
  PollMinInterval = 1
  StartTime = 3
  MaxTime = 4
  MaxWork = 2
  MaxFaults = 1
INVARIANTS
  TypeOK
  NobodyWaitsForEver
  AbandonedForCause
  TellsWhatAnswered
  ResyncTrue
  TimelineAgrees
  VerbsInOrder
  RowsTellWhatWasSent
CHECK_DEADLOCK FALSE
