CONSTANTS
  Runs = {r1}
  Gated = {r1}
  Failing = {}
  Subscribed = {r1}
  Events = {e1, e2}
  Workers = {w1}
  MaxDeliveryAttempts = 1
  MaxInterventions = 1
  NoRun = NoRun
  NoApproval = NoApproval
  Dispatchers = {d1}
  Pollers = {p1}
  Approvers = {a1, a2}
  MaxAttempts = 1
  MaxQueries = 1
  MaxApprovals = 2
  LateCancels = FALSE
SPECIFICATION ProviderSpec
SYMMETRY ApproverSymmetry
INVARIANTS AnnouncedLifeMovesForward GateNeedsADecision DecisionsAgree
