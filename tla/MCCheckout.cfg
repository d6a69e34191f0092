SPECIFICATION Spec
CONSTANTS
  r1 = r1  r2 = r2  i1 = i1  i2 = i2  i3 = i3
  Requests = {r1, r2}
  Intents = {i1, i2, i3}
  NeedsConsent = {i3}
  Amount <- MCAmount
  DailyLimit = 3
  Terms <- MCWideTerms
  CapabilityTTL = 1
  ConsentTTL = 1
  IntentTTL = 1
  Calls = {"checkout", "mandate", "request", "APPROVED", "REJECTED", "cancel"}
  MaxMandates = 1
  MaxTime = 2
SYMMETRY MCSymmetry
CONSTRAINT MCApart
INVARIANTS TypeOK ReservedWithinLimit ParkedWasAsked
PROPERTIES AtomicCheckout AskedOnce
CHECK_DEADLOCK FALSE
