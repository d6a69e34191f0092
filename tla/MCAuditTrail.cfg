SPECIFICATION Spec
CONSTANTS
  s1 = s1  s2 = s2
  Sessions = {s1, s2}
  Kinds = {"create_intent", "approve_consent", "checkout", "webhook", "reconcile"}
  Transitions = 2
  MaxStarts = 3
INVARIANTS TypeOK ForkIsDisorder CyclesCrossAudit
PROPERTIES SessionsEnd
CHECK_DEADLOCK FALSE
