SPECIFICATION Spec
CONSTANTS
  r1 = r1  r2 = r2  i1 = i1  i2 = i2  i3 = i3  book = book  half = half  free = free
  Requests = {r1}
  Intents = {i1, i2, i3}
  Products = {book}
  Price <- MCPrice
  MaxAmount = 6
  Quantities = {1, 2}
  Campaigns = {half, free}
  NoCampaign = NoCampaign
  Percent = {half}
  Value <- MCValue
  MaxDiscount <- MCMaxDiscount
  Eligible <- MCEligible
  MaxUses <- MCMaxUses
  IntentTTL = 1
  Production = FALSE
  MaxTime = 1
  MaxIterations = 2
  MaxTurns = 1
  MaxCalls = 2
SYMMETRY MCSymmetry
INVARIANTS CapNotExceeded
CHECK_DEADLOCK FALSE
