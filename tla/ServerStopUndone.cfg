SPECIFICATION Spec
CONSTANTS
  Servers = {s1}
  Stateless = {}
  GitBuilt = {}
  Users = {u1}
  failThreshold = 1
  maxRecoverAttempts = 2
  recoveryCooldown = 1
  MaxRequests = 2
  free = free
INVARIANT StopIsHonoured
