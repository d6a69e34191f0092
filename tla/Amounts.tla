------------------------------ MODULE Amounts ------------------------------
(***************************************************************************)
(* Sums of integer amounts over rows, as SUM in a SELECT computes them.    *)
(* An amount is a set of as many units, so that a sum is the number of     *)
(* units of its rows.                                                      *)
(***************************************************************************)
EXTENDS Integers, FiniteSets

Units(amount, S) == UNION {{i} \X (1..amount[i]) : i \in S}

Total(amount, S) == Cardinality(Units(amount, S))
=============================================================================
