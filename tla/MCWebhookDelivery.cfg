SPECIFICATION Spec
CONSTANTS
  e1 = e1
  e2 = e2
  t1 = t1
  t2 = t2
  w1 = w1
  w2 = w2
  c1 = c1
  c2 = c2
  Events = {e1}
  Tenants = {t1, t2}
  Workers = {w1, w2}
  Callers = {c1, c2}
  TenantOf <- MCTenantOf
  Leftover = {e1}
  Hooks <- MCHooks
  MaxAttempts = 2
  Setting = 2
  Connected = TRUE
  PeekLock = TRUE
  NoEvent = NoEvent
  NoTenant = NoTenant
  MaxRetries = 3
  MaxFaults = 1
INVARIANTS TypeOK PendingIsCarried DueIsAnnounced AttemptsBounded AckIsRecorded
PROPERTIES FollowsDelivery RetriedByOwner
