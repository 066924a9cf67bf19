SPECIFICATION Spec
CONSTANTS
  Servers = {s1}
  Stateless = {s1}
  GitBuilt = {}
  Users = {u1, u2}
  failThreshold = 2
  maxRecoverAttempts = 2
  recoveryCooldown = 1
  MaxRequests = 3
  free = free
SYMMETRY UserSymmetry
INVARIANTS
  
  GivesUp
