SPECIFICATION FairSpec
CONSTANTS
  c1 = c1
  c2 = c2
  c3 = c3
  i1 = i1
  i2 = i2
  i3 = i3
  t1 = t1
  t2 = t2
  k1 = k1
  k2 = k2
  blank = blank
  Calls = {c1, c2, c3}
  Ids = {i1, i2}
  Tenants = {t1, t2}
  Keys = {k1, blank}
  UsableKeys = {k1}
  Amounts = {0, 1, 2}
  RawCurrencies = {"usd", "USD", "euro"}
  Canon <- MCCanon
  ISO = {"USD", "EUR"}
  Intents <- MCIntents
  NoId = NoId
  NoReq = NoReq
  NoRow = NoRow
INVARIANTS TypeOK OneRowPerKey AcceptedIsComplete MetricNeverOvercounts
PROPERTIES HonoursContract EveryCallEnds
