SPECIFICATION FairSpec
CONSTANTS
  t1 = t1
  t2 = t2
  k1 = k1
  k2 = k2
  m1 = m1
  c1 = c1
  c2 = c2
  TenantIds = {t1, t2}
  KeyIds = {k1, k2}
  Emails = {m1}
  Calls = {c1, c2}
  BadKey = BadKey
  BadToken = BadToken
  Nothing = Nothing
  NoTenant = NoTenant
  NoCred = NoCred
INVARIANTS TypeOK EffectsTraceBack RevokedOnce
PROPERTY RevokedKeysDrain
