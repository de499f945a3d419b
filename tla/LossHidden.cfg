SPECIFICATION Spec
CHECK_DEADLOCK FALSE
CONSTANTS
  J = {"record"}
  en0 = en0
  en8 = en8
  Null = Null
  w1 = w1
  w2 = w2
  WanTargets <- MCWan
  GatewayTarget = gw
  ProbeCycleS = 60
  DegradedLoss = 50
  PollS = 300
  Home = en0
  Away = en8
  Phase = 40
  ReadAfterS = 35
  MaxCycles = 4
  MaxOdd = 2
  MaxMinutes = 4
  ComparableS = 180
  MaxAsides = 3
  StaleAfterS = 120
  Ifaces <- MCIfaces
  Fallback = en0
  MaxBuffered = 1
  CycleS = 2
  SpawnTimeoutS = 2
  MaxTime = 3
  MaxLines = 3
  CycleLines = 2
  MaxWritten = 9
  Scopes = {"wan"}
  Stale = 1
  PushMax = 1
  Every = 2
  Window = 3
  MinInterval = 2
  TestMax = 2
  MaxClock = 4
  MaxRestarts = 1
  Radio = en0
  Socket = en8
  Expected = gw
  Stranger = wg
  Silence = quiet
  MaxMoves = 1
INVARIANT WorstIsShown
