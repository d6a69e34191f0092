SPECIFICATION Spec
CONSTANTS
  w1 = w1  w2 = w2  t1 = t1  i1 = i1  i2 = i2
  Sessions = {w1, w2}
  Txns = {t1}
  Intents = {i1, i2}
  IntentOf <- MCIntentOf
  MaxAttempts = 2
  MaxQueued = 2
  MaxFaults = 1
INVARIANTS TypeOK OutcomeIsProviders JobTellsOutcome
PROPERTIES CapturedStays OrderedIsResolved
CHECK_DEADLOCK FALSE
