SPECIFICATION FairSpec
CONSTANTS
  Servers = {s1}
  Stateless = {}
  GitBuilt = {}
  Users = {u1}
  failThreshold = 1
  maxRecoverAttempts = 1
  recoveryCooldown = 1
  MaxRequests = 2
  free = free
PROPERTIES
  ShutdownEnds
  ErrorIsActedOn
  HealthSettles
