SPECIFICATION Spec
CONSTANTS
  Msgs = {1}
  Urls = {u1, u2}
  Auths = {k1}
  LastBackoff = 1
  BackoffSchedule <- MCBackoffSchedule
  LastPause = 1
  cbPauseDurations <- MCPauseDurations
  cbFailThreshold = 2
  drainBatchSize = 2
  Admins = {a1}
  MaxDisruptions = 3
INVARIANTS BreakerCoherent
PROPERTY KeepsContract
