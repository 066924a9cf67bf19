SPECIFICATION Spec
CONSTANTS
  Msgs = {1, 2}
  Urls = {u1, u2}
  Auths = {k1}
  LastBackoff = 1
  BackoffSchedule <- MCBackoffSchedule
  LastPause = 1
  cbPauseDurations <- MCPauseDurations
  cbFailThreshold = 2
  drainBatchSize = 2
  Admins = {a1}
  MaxDisruptions = 1
SYMMETRY Symmetry
INVARIANTS TypeOK BatchDue OpenMeansNoDrain NoLostWakeup
