CONSTANTS
  t1 = t1
  t2 = t2
  t3 = t3
  t4 = t4
  w1 = w1
  w2 = w2
  d1 = d1
  Tasks = {t1, t2, t3, t4}
  Workers = {w1, w2}
  Devices = {d1}
  NoWorker = NoWorker
  MaxAttempts <- MCMaxAttempts
  MaxLease = 2
  MaxDelay = 1
  MaxBackoff = 2
  OfflineAfter = 1
  MaxLeases = 2
SPECIFICATION MCSpec
SYMMETRY WorkerSymmetry
INVARIANTS NoTaskIsStranded EndsAreDue DeviceAndLeaseAgree
PROPERTIES LiveLeaseIsExclusive EveryTaskIsALeasedJob LiveDeviceLeaseIsExclusive
