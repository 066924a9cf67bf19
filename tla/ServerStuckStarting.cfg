SPECIFICATION FairSpec
CONSTANTS
  Servers = {s1}
  Stateless = {}
  GitBuilt = {s1}
  Users = {u1}
  failThreshold = 1
  maxRecoverAttempts = 2
  recoveryCooldown = 1
  MaxRequests = 1
  free = free
PROPERTY StartingEnds
