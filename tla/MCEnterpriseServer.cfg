SPECIFICATION MCSpec
CONSTANTS
  Requests = {r1, r2, r3, r4}
  Callers <- MCCallers
  TenantValues <- MCTenantValues
  Engines = {"embedded", "remote"}
  Policies <- MCPolicies
  HashInput <- MCHash
  WindowMs = 2
  CacheTtlMs = 2
  PolicyTtl = 2
  PolicyTimeout = 1
  MaxConcurrent = 10
  MaxTime = 4
  MaxChanges = 1
SYMMETRY MCSymmetry
CHECK_DEADLOCK FALSE
INVARIANTS
  WindowBound
  RetryAfterIsEnough
  TenantNoStalerThanTtl
  HandledMeansAllowed
  AuditChainVerifies
  AuditTrailComplete
