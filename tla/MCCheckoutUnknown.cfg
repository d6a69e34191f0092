SPECIFICATION Spec
CONSTANTS
  r1 = r1  r2 = r2  i1 = i1  i2 = i2  i3 = i3
  Requests = {r1}
  Intents = {i1}
  NeedsConsent = {}
  Amount <- MCOneAmount
  DailyLimit = 3
  Terms = {}
  CapabilityTTL = 1
  ConsentTTL = 1
  IntentTTL = 1
  Calls = {"checkout"}
  MaxMandates = 0
  MaxTime = 2
PROPERTIES UnknownNotRetried
CHECK_DEADLOCK FALSE
