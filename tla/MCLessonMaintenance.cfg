SPECIFICATION MCSpec
CONSTANTS
  p1 = p1
  p2 = p2
  s1 = s1
  s2 = s2
  s3 = s3
  c1 = c1
  c2 = c2
  l1 = l1
  x1 = x1
  d1 = d1
  s3file = s3file
  localfile = localfile
  artifact = artifact
  u1 = u1
  u2 = u2
  n1 = n1
  n2 = n2
  n3 = n3
  q1 = q1
  q2 = q2
  g1 = g1
  g2 = g2
  b1 = b1
  b2 = b2
  o1 = o1
  del1 = del1
  del2 = del2
  k1 = k1
  k2 = k2
  Scenarios = {"lesson_devices"}
  MaxFaults = 0
  Projects = {p1, p2}
  Suites = {s1, s2, s3}
  Cases = {c1, c2}
  Plans = {l1}
  Executions = {x1}
  Defects = {d1}
  Names = {"a", "b"}
  MaxVersions = 2
  ImportFiles <- MCImportFiles
  Files = {s3file, localfile, artifact}
  Artifacts = {artifact}
  Backend <- MCBackend
  Deletes = {del1, del2}
  Readers = {reader}
  Permits = 2
  Targets = {target}
  Comments = {comment}
  Runs = {run1, run2}
  EventIds = {e1}
  PipelineRequests <- MCPipelineRequests
  Users = {u1, u2}
  Sessions = {n1, n2, n3}
  Requests = {q1, q2}
  Logins = {g1, g2}
  Callbacks = {b1, b2}
  Transactions = {o1}
  MaxFailedLogins = 2
  ProjectIds = {p1, p2}
  Versions = {v1, v2}
  All = all
  NoEntry = NoEntry
  Clients = {k1, k2}
  Nobody = Nobody
  j1 = j1
  j2 = j2
  j3 = j3
  Jobs = {j1, j2, j3}
  JobBudget = 2
  JobLease = 1
  JobBackoff = 1
  LastInstant = 2
  InstantJob <- MCInstantJob
  CatchUp = 1
  MaxDue = 2
  Devices = {d1}
  LeaseIds = {e1, e2, e3}
  OfflineAfter = 2
  DeviceLease = 2
  DbSessions = {1, 2, 3}
  TaskRows = {1, 2}
  DeviceRows = {1}
  LeaseGraph <- MCLeaseGraph
  CronTexts <- MCCronTexts
  FieldRange <- MCFieldRange
  MaximumDay <- MCMaximumDay
  WallClock <- MCWallClock
  SearchMinutes = 8
  Graces = {0, 5}
  CatchUpLimits = {1, 3}
  LastTick = 50
INVARIANT DeviceLeasesAreExclusive
CHECK_DEADLOCK FALSE
