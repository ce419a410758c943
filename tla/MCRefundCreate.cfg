SPECIFICATION FairSpec
CONSTANTS
  c1 = c1
  c2 = c2
  c3 = c3
  i1 = i1
  i2 = i2
  i3 = i3
  t1 = t1
  t2 = t2
  k1 = k1
  k2 = k2
  blank = blank
  p1 = p1
  p2 = p2
  Calls = {c1,c2}
  Ids = {i1,i2}
  Tenants = {t1,t2}
  Keys = {k1,k2,blank}
  UsableKeys = {k1,k2}
  Payments = {p1,p2}
  PayTenant <- MCPayTenant
  PayAmount <- MCPayAmount
  Amounts <- MCAmounts
  MaxInt = 15
  Intents <- MCIntents
  NoId = NoId
  NoReq = NoReq
  NoRow = NoRow
PROPERTIES HonoursContract FollowsLifecycle EveryCallEnds
INVARIANTS TypeOK NeverOverRefunded RefundsAreBacked
