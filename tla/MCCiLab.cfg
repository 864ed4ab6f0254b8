CONSTANTS
  Runs = {r1}
  Gated = {}
  Failing = {}
  Subscribed = {r1}
  Events = {e1}
  Workers = {w1, w2}
  MaxDeliveryAttempts = 2
  MaxInterventions = 1
  NoRun = NoRun
  NoApproval = NoApproval
SPECIFICATION FairSpec
INVARIANTS EveryChangeIsAnnounced DeliveriesAreOrderly
PROPERTIES RunsComeToRest NoDeliveryIsStuck
