SPECIFICATION Spec
CONSTANTS
  w1 = w1  w2 = w2  j1 = j1  t1 = t1  t2 = t2  i1 = i1  i2 = i2
  c1 = c1  f1 = f1  x1 = x1  u1 = u1
  Webhooks = {w1, w2}
  Janitors = {}
  Sessions = {w1, w2}
  Events = {c1, f1}
  Txns = {t1}
  Intents = {i1}
  IntentOf <- MCOneIntentOf
  EventTxn <- MCOneTxn
  EventKind <- MCOneKind
  Cancellable = {}
  MaxDeliveries = 1
  MaxErrors = 0
  MaxCrashes = 0
PROPERTIES TerminalIsFinal
CHECK_DEADLOCK FALSE
