SPECIFICATION Spec
CONSTANTS
  r1 = r1  r2 = r2  i1 = i1  i2 = i2  i3 = i3
  Requests = {r1, r2}
  Intents = {i1, i2}
  NeedsConsent = {}
  Amount <- MCMandateAmount
  DailyLimit = 3
  Terms <- MCNarrowTerms
  CapabilityTTL = 1
  ConsentTTL = 1
  IntentTTL = 1
  Calls = {"checkout", "mandate"}
  MaxMandates = 1
  MaxTime = 2
SYMMETRY MCSymmetry
INVARIANTS CoveredWithinMandate OneLiveCapability
PROPERTIES ReservesUnsettled
CHECK_DEADLOCK FALSE
