CONSTANTS
  Tasks = {t1, t2, m1}
  Workers = {w1}
  NoWorker = NoWorker
  MaxLease = 1
  MaxDelay = 0
  MaxBackoff = 1
  Schedulers = {s1, s2}
  MaxInstants = 2
  Misfires = {"skip", "fire_once", "catch_up_limited"}
  Overlaps = {"forbid", "replace"}
  CatchUpLimit = 2
  ClaimLease = 1
  MaxSkew = 1
  MaxEdits = 1
  MaxFaults = 1
  NoScheduler = NoScheduler
  Attempts = 1
  t1 = t1
  t2 = t2
  m1 = m1
  CronTask <- MCCronTask
  MaxAttempts <- MCMaxAttempts
SPECIFICATION MCSpec
INVARIANTS ForbidNeverOverlaps
PROPERTIES EveryInstantHasOneFate DueInstantsAreHandled
