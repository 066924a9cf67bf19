SPECIFICATION Spec
CONSTANTS
  Servers = {s1}
  Stateless = {}
  GitBuilt = {s1}
  Users = {u1, u2}
  failThreshold = 1
  maxRecoverAttempts = 1
  recoveryCooldown = 1
  MaxRequests = 2
  free = free
SYMMETRY UserSymmetry
INVARIANTS
  TypeOK
  
  
  GivesUp
