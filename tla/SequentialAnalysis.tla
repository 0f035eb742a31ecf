------------------------- MODULE SequentialAnalysis -------------------------
(***************************************************************************)
(* What analyze_units promises whatever threads it uses: the result of the *)
(* loop of one thread.  The outputs are those of the units in their order, *)
(* or the error is that of the first unit that has one.  A panic is the    *)
(* exception: it may overtake the error of an earlier unit.                *)
(***************************************************************************)
EXTENDS Integers, Sequences

CONSTANT N                \* units.len()

VARIABLES cancelled,      \* the cancellation token
          fate,           \* how the analysis of each unit ends by itself
          outputs,        \* the units whose outputs are collected, in order
          outcome         \* how the call ends, and the unit that decided it

Fate == {"ok", "failed", "panicked"}
Running == [kind |-> "running", unit |-> 0]
Ended(kind, unit) == [kind |-> kind, unit |-> unit]

Init ==
  /\ fate \in [1..N -> Fate]
  /\ cancelled = FALSE
  /\ outputs = <<>>
  /\ outcome = Running

Current == Len(outputs) + 1

Cancel == cancelled' = TRUE /\ UNCHANGED <<fate, outputs, outcome>>

\* A cancellation that comes while a unit is analysed may be too late for it.
Analysed ==
  /\ Current <= N /\ fate[Current] = "ok"
  /\ outputs' = Append(outputs, Current)
  /\ UNCHANGED <<cancelled, fate, outcome>>

Fails ==
  /\ Current <= N /\ fate[Current] = "failed"
  /\ outcome' = Ended("failed", Current)
  /\ UNCHANGED <<cancelled, fate, outputs>>

IsCancelled ==
  /\ cancelled /\ Current <= N
  /\ outcome' = Ended("cancelled", Current)
  /\ UNCHANGED <<cancelled, fate, outputs>>

Panics ==
  /\ \E u \in 1..N : fate[u] = "panicked"
  /\ outcome' = Ended("panicked", 0)
  /\ UNCHANGED <<cancelled, fate, outputs>>

Returns ==
  /\ Len(outputs) = N
  /\ outcome' = Ended("ok", N)
  /\ UNCHANGED <<cancelled, fate, outputs>>

Next == outcome = Running /\ (Cancel \/ Analysed \/ Fails \/ IsCancelled \/ Panics \/ Returns)

vars == <<cancelled, fate, outputs, outcome>>
Spec == Init /\ [][Next]_vars
=============================================================================
