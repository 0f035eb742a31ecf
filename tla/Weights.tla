------------------------------ MODULE Weights ------------------------------
(***************************************************************************)
(* Sums over the members of a finite set, as the number of the units that  *)
(* the members hold: one pair for each unit.  The sum of numbers that only *)
(* change one at a time is then a fact about two sets of pairs.            *)
(***************************************************************************)
EXTENDS Integers, FiniteSets

\* The units of x: one to f[x].
UnitsOf(f, x) == {x} \X (1..f[x])

\* What the members of S hold together.
Held(f, S) == UNION {UnitsOf(f, x) : x \in S}
Weight(f, S) == Cardinality(Held(f, S))
=============================================================================
