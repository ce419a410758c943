SPECIFICATION ViewSpec
CONSTANTS
  p1 = p1
  p2 = p2
  r1 = r1
  w1 = w1
  w2 = w2
  m1 = m1
  Payments = {p1, p2}
  Refunds = {r1}
  PaymentOf <- MCPaymentOf
  Workers = {w1, w2}
  NoJob = NoJob
  Stamps = {1}
  MaxFaults = 2
  Clients = {m1}
  Mine = {p1, r1}
INVARIANTS TypeOK LedgerMatchesStatus PendingIsQueued AnswerIsExplained AnswersAgree
PROPERTIES FollowsLifecycle SettlesEverything
