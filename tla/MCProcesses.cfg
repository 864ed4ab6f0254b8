CONSTANTS
  t1 = t1
  theId = theId
  Tasks = {t1}
  Workers = {w1, w2}
  NoWorker = NoWorker
  NoWork = NoWork
  MaxAttempts <- MCMaxAttempts
  MaxLease = 2
  LeaseSeconds = 2
  HeartbeatInterval = 1
  MaxDelay = 0
  MaxBackoff = 1
  MaxFaults = 3
  Rows = {r1, r2}
  Dispatchers = {d1, d2}
  Ids = {theId}
  DispatcherId <- MCDispatcherId
  NoId = NoId
  HintLease = 2
  HintDelay = 1
  MaxHintBackoff = 2
SPECIFICATION MCFairSpec
INVARIANTS RunsAreExclusive RepeatsCostFaults
PROPERTIES TasksComeToAnEnd StopEnds LiveClaimIsExclusive EveryRowIsPublished
CHECK_DEADLOCK FALSE
