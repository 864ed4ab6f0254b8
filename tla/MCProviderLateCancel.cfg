CONSTANTS
  Runs = {r1}
  Gated = {}
  Failing = {}
  Subscribed = {r1}
  Events = {e1}
  Workers = {w1}
  MaxDeliveryAttempts = 1
  MaxInterventions = 0
  NoRun = NoRun
  NoApproval = NoApproval
  Dispatchers = {d1}
  Pollers = {p1}
  Approvers = {}
  MaxAttempts = 2
  MaxQueries = 1
  MaxApprovals = 0
  LateCancels = TRUE
SPECIFICATION ProviderSpec
PROPERTIES EndIsKept
