-------------------------- MODULE SequentialBlocks --------------------------
(***************************************************************************)
(* What ordered_bounded_try_for_each promises its caller: the loop         *)
(* "for index in 0..N, consume(operation(index)?)?" of one thread.         *)
(***************************************************************************)
EXTENDS Integers

CONSTANT N                \* item_count

VARIABLES done,           \* items that were consumed: 0, 1, .., done - 1
          outcome         \* Running, the index that failed, or N: no item did

Running == -1

Init == done = 0 /\ outcome = Running

Consume == done < N /\ done' = done + 1 /\ UNCHANGED outcome

\* The operation on the next item, or its consumer, returns an error; or there
\* is no next item.
Return == outcome' = done /\ UNCHANGED done

Next == outcome = Running /\ (Consume \/ Return)

vars == <<done, outcome>>
Spec == Init /\ [][Next]_vars /\ WF_vars(Next)
=============================================================================
