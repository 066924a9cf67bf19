SPECIFICATION Spec
CONSTANTS
  Servers = {s1}
  Stateless = {s1}
  GitBuilt = {}
  Users = {u1}
  failThreshold = 1
  maxRecoverAttempts = 2
  recoveryCooldown = 1
  MaxRequests = 1
  free = free
PROPERTY CooldownBetweenAttempts
