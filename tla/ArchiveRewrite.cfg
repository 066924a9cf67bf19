SPECIFICATION Spec
CONSTANTS
  Msgs = {1}
  Urls = {u1}
  Auths = {k1, k2}
  LastBackoff = 1
  BackoffSchedule <- MCBackoffSchedule
  LastPause = 1
  cbPauseDurations <- MCPauseDurations
  cbFailThreshold = 2
  drainBatchSize = 2
  Admins = {a1}
  MaxDisruptions = 1
PROPERTY AllHeldRowsRewritten
