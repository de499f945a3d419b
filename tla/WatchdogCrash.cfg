SPECIFICATION DeathSpec
CONSTANTS
  Null = Null
  Corrupt = Corrupt
  Policy <- ForgetfulPolicy
  Evidence <- CoreEvidence
  MaxTime = 6
  MaxCrashes = 1
  Allowed = {"write_error", "events_unread"}
  TickDeadlineS = 1
INVARIANT SentIsLogged
PROPERTY LadderOnlyClimbs
