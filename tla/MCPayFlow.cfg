SPECIFICATION FlowSpec
CONSTANTS
  p1 = p1
  r1 = r1
  w1 = w1
  w2 = w2
  t1 = t1
  c1 = c1
  Payments = {p1}
  Refunds = {r1}
  PaymentOf <- MCPaymentOf
  Workers = {w1, w2}
  NoJob = NoJob
  Stamps = {1}
  MaxFaults = 1
  Tenants = {t1}
  Callers = {c1}
  TenantOf <- MCTenantOf
  Hooks <- MCHooks
  MaxAttempts = 2
  Setting = 2
  PeekLock = FALSE
  NoTenant = NoTenant
  MaxRetries = 1
CONSTRAINT NothingLost
INVARIANT MerchantHearsTruth
PROPERTIES ImplementsWebhooks AcceptedIsNotified
