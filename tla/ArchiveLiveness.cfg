SPECIFICATION FairSpec
CONSTANTS
  Msgs = {1, 2}
  Urls = {u1}
  Auths = {k1}
  LastBackoff = 1
  BackoffSchedule <- MCBackoffSchedule
  LastPause = 0
  cbPauseDurations <- MCPauseDurations
  cbFailThreshold = 2
  drainBatchSize = 1
  Admins = {}
  MaxDisruptions = 1
PROPERTIES EventuallySettled CircuitRecovers
