------------------------ MODULE AuditTrailProperties ------------------------
(***************************************************************************)
(* What the audit trail guarantees.                                        *)
(***************************************************************************)
EXTENDS AuditTrail

Resources == {"campaign", "consent", "intent", "user", "txn", "budget", "hold", "append"}

\* Events are unique, and a closed session holds nothing.
TypeOK ==
  /\ trail \subseteq Event
  /\ \A s \in Sessions :
       /\ todo[s] \in Seq(Resources \cup {"commit"})
       /\ own[s] # {} => "append" \in locks[s]
       /\ ~Open(s) => todo[s] = <<>> /\ own[s] = {} /\ locks[s] = {}
  /\ \A x, y \in trail : Key(x) = Key(y) => x = y
  /\ starts \in 0..MaxStarts

Fork(x, y) == x # y /\ x.prev = y.prev

\* Where the trail forks, an event came out of order: of two events with one
\* previous event, one sorts before that previous event, since its session
\* began earlier or its random id is lower.  Nothing else forks the trail, so
\* only its first event has no previous one.
ForkIsDisorder ==
  \A x, y \in trail :
    Fork(x, y) => \E z \in {x, y} : Older(Key(z), z.prev)

\* The rows alone never make the writers wait in a cycle: whoever is in one has
\* a member that keeps the audit lock while it waits for a row.
CyclesCrossAudit ==
  \A C \in (SUBSET Sessions) \ {{}} : Cycle(C) => \E s \in C : "append" \in locks[s]

\* Every writer ends, though a checkout locks the intent before the trail and a
\* webhook the trail before the intent: the detector ends one of the two.
SessionsEnd == \A s \in Sessions : Open(s) ~> ~Open(s)
=============================================================================
