SPECIFICATION Spec
CONSTANTS
  e1 = e1
  e2 = e2
  t1 = t1
  t2 = t2
  w1 = w1
  w2 = w2
  c1 = c1
  c2 = c2
  Events = {e1}
  Tenants = {t1}
  Workers = {w1, w2}
  Callers = {c1, c2}
  TenantOf <- MCTenantOf
  Leftover = {}
  Hooks <- OnlySigned
  MaxAttempts = 2
  Setting = 2
  Connected = TRUE
  PeekLock = FALSE
  NoEvent = NoEvent
  NoTenant = NoTenant
  MaxRetries = 2
  MaxFaults = 0
INVARIANT MaxAttemptsHold
