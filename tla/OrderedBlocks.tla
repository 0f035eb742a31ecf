---------------------------- MODULE OrderedBlocks ----------------------------
(***************************************************************************)
(* The compression pipeline of the Pak writer: ordered_bounded_try_for_each*)
(* of repak.  Workers take block numbers from a scheduler behind a mutex   *)
(* and a condition variable, work on them concurrently, and send what they *)
(* got through a channel; the calling thread puts the blocks in order,     *)
(* consumes them, and opens the scheduling window for the next ones.       *)
(*                                                                         *)
(* What is done under the mutex is one action: nothing blocks inside.      *)
(***************************************************************************)
EXTENDS Integers, Sequences, FiniteSets

CONSTANTS N,       \* item_count
          Worker   \* the spawned threads

Index == 0..N - 1

\* worker_count: at least one thread, and no more of them than items.
ASSUME BlocksAssumption ==
  /\ N \in Nat \ {0}
  /\ IsFiniteSet(Worker)
  /\ Cardinality(Worker) \in 1..N

Least(a, b) == IF a <= b THEN a ELSE b
Most(a, b) == IF a >= b THEN a ELSE b

Window == Least(2 * Cardinality(Worker), N)

VARIABLES
  \* OrderedWorkState, behind the mutex
  next_to_schedule, consumed, allowed_exclusive, peak_in_flight, stop,
  pc,               \* where each worker stands
  item,             \* the index a worker took
  channel,          \* the messages sent and not received
  main,             \* where the calling thread stands
  pending,          \* results that wait for an earlier index
  next_to_consume,
  failure           \* the index whose error is returned, or none

scheduler == <<next_to_schedule, consumed, allowed_exclusive, peak_in_flight, stop>>
workers == <<pc, item>>
caller == <<main, pending, next_to_consume, failure>>
vars == <<scheduler, workers, channel, caller>>

NoFailure == -1

Message == [index : Index, ok : BOOLEAN]

Done(w) == pc[w] = "done"

\* notify_all: those that wait take the mutex again and look again.
NotifyAll == pc' = [w \in Worker |-> IF pc[w] = "waiting" THEN "take" ELSE pc[w]]
-----------------------------------------------------------------------------
\* Mutant: the window is one item too wide.
WindowClosedLate == next_to_schedule > allowed_exclusive
WindowClosed == next_to_schedule >= allowed_exclusive

\* Mutant: the last item is not scheduled.
NoMoreWorkEarly == stop \/ next_to_schedule >= N - 1
NoMoreWork == stop \/ next_to_schedule >= N

Leave(w) ==
  /\ pc[w] = "take" /\ NoMoreWork
  /\ pc' = [pc EXCEPT ![w] = "done"]
  /\ UNCHANGED <<scheduler, item, channel, caller>>

\* Condvar::wait gives the mutex back and sleeps in one step.
Wait(w) ==
  /\ pc[w] = "take" /\ ~NoMoreWork /\ WindowClosed
  /\ pc' = [pc EXCEPT ![w] = "waiting"]
  /\ UNCHANGED <<scheduler, item, channel, caller>>

\* A condition variable may wake a thread for no reason.
WakeSpuriously(w) ==
  /\ pc[w] = "waiting"
  /\ pc' = [pc EXCEPT ![w] = "take"]
  /\ UNCHANGED <<scheduler, item, channel, caller>>

\* Mutant: an increment is lost.
TakenStale == Most(next_to_schedule, Least(consumed + 1, N))
Taken == next_to_schedule + 1

Take(w) ==
  /\ pc[w] = "take" /\ ~NoMoreWork /\ ~WindowClosed
  /\ item' = [item EXCEPT ![w] = next_to_schedule]
  /\ next_to_schedule' = Taken
  /\ peak_in_flight' = Most(peak_in_flight, Taken - consumed)
  /\ pc' = [pc EXCEPT ![w] = "work"]
  /\ UNCHANGED <<consumed, allowed_exclusive, stop, channel, caller>>

\* operation(index), an error or a caught panic included, and send.
Work(w) ==
  /\ pc[w] = "work"
  /\ \E ok \in BOOLEAN : channel' = Append(channel, [index |-> item[w], ok |-> ok])
  /\ pc' = [pc EXCEPT ![w] = "take"]
  /\ UNCHANGED <<scheduler, item, caller>>
-----------------------------------------------------------------------------
Receive ==
  /\ main = "receive" /\ next_to_consume < N /\ channel # << >>
  /\ pending' = pending \cup {Head(channel)}
  /\ channel' = Tail(channel)
  /\ main' = "consume"
  /\ UNCHANGED <<scheduler, workers, next_to_consume, failure>>

Ready == {m \in pending : m.index = next_to_consume}

\* consume fails as well: a write error, a panic, or a cancelled operation.
Consume ==
  /\ main = "consume"
  /\ \E m \in Ready :
       /\ pending' = pending \ {m}
       /\ \/ /\ m.ok
             /\ next_to_consume' = next_to_consume + 1
             /\ main' = "publish"
             /\ UNCHANGED failure
          \/ /\ failure' = m.index
             /\ main' = "stop"
             /\ UNCHANGED next_to_consume
  /\ UNCHANGED <<scheduler, workers, channel>>

NothingReady ==
  /\ main = "consume" /\ Ready = {}
  /\ main' = "receive"
  /\ UNCHANGED <<scheduler, workers, channel, pending, next_to_consume, failure>>

\* Mutant: the window moves without a word to the workers that wait.
PublishSilently ==
  /\ main = "publish"
  /\ consumed' = next_to_consume
  /\ allowed_exclusive' = Least(next_to_consume + Window, N)
  /\ main' = "consume"
  /\ UNCHANGED <<next_to_schedule, peak_in_flight, stop, workers, channel, pending,
                 next_to_consume, failure>>

\* Mutant: what was received counts as consumed.
PublishReceived ==
  /\ main = "publish"
  /\ consumed' = next_to_consume + Cardinality(pending)
  /\ allowed_exclusive' = Least(next_to_consume + Cardinality(pending) + Window, N)
  /\ NotifyAll
  /\ main' = "consume"
  /\ UNCHANGED <<next_to_schedule, peak_in_flight, stop, item, channel, pending,
                 next_to_consume, failure>>

\* Mutant: the window runs over the last item.
PublishUnclamped ==
  /\ main = "publish"
  /\ consumed' = next_to_consume
  /\ allowed_exclusive' = next_to_consume + Window
  /\ NotifyAll
  /\ main' = "consume"
  /\ UNCHANGED <<next_to_schedule, peak_in_flight, stop, item, channel, pending,
                 next_to_consume, failure>>

Publish ==
  /\ main = "publish"
  /\ consumed' = next_to_consume
  /\ allowed_exclusive' = Least(next_to_consume + Window, N)
  /\ NotifyAll
  /\ main' = "consume"
  /\ UNCHANGED <<next_to_schedule, peak_in_flight, stop, item, channel, pending,
                 next_to_consume, failure>>

\* The loop is over, or was left with a failure.
Stop ==
  /\ \/ main = "stop"
     \/ main = "receive" /\ next_to_consume = N
  /\ stop' = TRUE
  /\ NotifyAll
  /\ main' = "join"
  /\ UNCHANGED <<next_to_schedule, consumed, allowed_exclusive, peak_in_flight, item,
                 channel, pending, next_to_consume, failure>>

\* The scope joins its threads before the call returns.
Join ==
  /\ main = "join" /\ \A w \in Worker : Done(w)
  /\ main' = "returned"
  /\ UNCHANGED <<scheduler, workers, channel, pending, next_to_consume, failure>>
-----------------------------------------------------------------------------
Init ==
  /\ next_to_schedule = 0 /\ consumed = 0
  /\ allowed_exclusive = Window
  /\ peak_in_flight = 0 /\ stop = FALSE
  /\ pc = [w \in Worker |-> "take"]
  /\ item = [w \in Worker |-> 0]
  /\ channel = << >>
  /\ main = "receive"
  /\ pending = {}
  /\ next_to_consume = 0
  /\ failure = NoFailure

WorkerStep(w) == Leave(w) \/ Wait(w) \/ Take(w) \/ Work(w)
CallerStep == Receive \/ Consume \/ NothingReady \/ Publish \/ Stop \/ Join

Next ==
  \/ \E w \in Worker : WorkerStep(w) \/ WakeSpuriously(w)
  \/ CallerStep

Spec == Init /\ [][Next]_vars

\* Threads run; a thread that waits runs only after it was notified.
FairSpec == Spec /\ WF_vars(CallerStep) /\ \A w \in Worker : WF_vars(WorkerStep(w))
-----------------------------------------------------------------------------
(***************************************************************************)
(* Properties                                                              *)
(***************************************************************************)
\* Type invariant of the scheduler, its workers and the calling thread.
TypeOK ==
  /\ next_to_schedule \in 0..N /\ consumed \in 0..N
  /\ allowed_exclusive \in 0..N /\ peak_in_flight \in 0..N
  /\ stop \in BOOLEAN
  /\ pc \in [Worker -> {"take", "waiting", "work", "done"}]
  /\ item \in [Worker -> Index]
  /\ channel \in Seq(Message)
  /\ main \in {"receive", "consume", "publish", "stop", "join", "returned"}
  /\ pending \in SUBSET Message
  /\ next_to_consume \in 0..N
  /\ failure \in Index \cup {NoFailure}

Working == {w \in Worker : pc[w] = "work"}

\* "At most two blocks per worker are scheduled ahead of the last consumed
\* block": the assertion peak_in_flight <= window at the end of the call.
WindowHolds == peak_in_flight <= Window

\* Every block is compressed once: an index that was scheduled is in one place,
\* with one worker, in the channel, pending, or consumed.
InOnePlace ==
  /\ \A v, w \in Working : v # w => item[v] # item[w]
  /\ \A i, j \in DOMAIN channel : i # j => channel[i].index # channel[j].index
  /\ \A m, n \in pending : m # n => m.index # n.index
  /\ \A w \in Working : \A i \in DOMAIN channel : item[w] # channel[i].index
  /\ \A w \in Working : \A m \in pending : item[w] # m.index
  /\ \A i \in DOMAIN channel : \A m \in pending : channel[i].index # m.index

\* The memory bound behind the window: results that are worked on or held and
\* not yet consumed never exceed it.
HeldWithinWindow ==
  Cardinality(Working) + Len(channel) + Cardinality(pending) <= Window

\* The caller never receives from a channel without senders: its error "workers
\* ended before every block was returned" has no step here, as it cannot occur.
CallerIsServed ==
  main = "receive" /\ next_to_consume < N /\ channel = << >> =>
    \E w \in Worker : ~Done(w)

\* The call returns the error of one index, or the success of all of them.
Outcome == IF main # "returned" THEN -1
           ELSE IF failure = NoFailure THEN N ELSE failure

Sequential == INSTANCE SequentialBlocks WITH done <- next_to_consume, outcome <- Outcome

\* The pipeline is the loop of one thread: blocks are consumed in the order of
\* their index, the error returned is that of the first index that fails,
\* nothing behind it is consumed, and the call ends, with all threads joined.
IsSequential == Sequential!Spec
=============================================================================
