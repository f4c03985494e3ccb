SPECIFICATION Spec
CONSTANTS
  Requests = {r1, r2}
  Callers <- MCOneUser
  TenantValues <- MCOneTenant
  Engines = {"remote"}
  Policies <- MCOfficePolicy
  HashInput <- MCPerfectHash
  WindowMs = 2
  CacheTtlMs = 2
  PolicyTtl = 2
  PolicyTimeout = 1
  MaxConcurrent = 10
  MaxTime = 2
  MaxChanges = 0
CHECK_DEADLOCK FALSE
INVARIANT OwnInputAllowed
