CONSTANTS
  Runs = {r1}
  Gated = {}
  Failing = {}
  Subscribed = {r1}
  Events = {e1}
  Workers = {w1}
  MaxDeliveryAttempts = 1
  MaxInterventions = 0
  NoRun = NoRun
  NoApproval = NoApproval
  Dispatchers = {d1}
  Pollers = {}
  Approvers = {}
  MaxAttempts = 2
  MaxQueries = 0
  MaxApprovals = 0
  LateCancels = FALSE
SPECIFICATION ProviderSpec
INVARIANTS LeftLeaseIsRecoverable
