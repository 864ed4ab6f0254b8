CONSTANTS
  Tasks = {t1, t2}
  Workers = {w1}
  NoWorker = NoWorker
  MaxLease = 1
  MaxDelay = 0
  MaxBackoff = 1
  Schedulers = {s1, s2}
  MaxInstants = 2
  Misfires = {"fire_once"}
  Overlaps = {"replace"}
  CatchUpLimit = 2
  ClaimLease = 1
  MaxSkew = 0
  MaxEdits = 0
  MaxFaults = 1
  NoScheduler = NoScheduler
  Attempts = 2
  t1 = t1
  t2 = t2
  m1 = m1
  CronTask <- MCCronTask
  MaxAttempts <- MCMaxAttempts
SPECIFICATION SchedulerAndWorkersFairSpec
PROPERTIES RetriesAreTakenUp
