SPECIFICATION Spec
CONSTANTS
  r1 = r1  r2 = r2  r3 = r3
  Requests = {r1, r2, r3}
  Items <- MCItems
  User <- MCUser
  Defaults <- MCDefaults
  Limits = {1, 4}
  SeedLimit = 4
  Methods = {"UPI", "CARD"}
  MaxPolicies = 3
INVARIANTS TypeOK NewestInForce IssuedInForce SimulatorForesees
SYMMETRY MCSymmetry
CHECK_DEADLOCK FALSE
