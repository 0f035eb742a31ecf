--------------------------- MODULE AnalysisWorkers ---------------------------
(***************************************************************************)
(* analyze_units: every asset of the inputs is compared, by one thread in  *)
(* order, or by scoped threads that each own a fixed share of the units    *)
(* and tell the calling thread of their progress and results through one   *)
(* channel.  At most two threads parse databases, and one thread is kept   *)
(* for the units that need no parser.                                      *)
(*                                                                         *)
(* The analysis of a unit is one step from entered to its result; how it   *)
(* ends is its fate, unless it sees the cancellation first.                *)
(***************************************************************************)
EXTENDS Integers, Sequences, FiniteSets

CONSTANTS N,              \* units.len()
          DatabaseUnits,  \* unit_requires_database_parse
          Fates,          \* the ways the analyses of the units may end
          MaxThreads,     \* the largest worker_threads() looked at
          Steps           \* ANALYSIS_PROGRESS_STEPS_PER_UNIT

Units == 1..N
IndependentUnits == Units \ DatabaseUnits

ASSUME AnalysisAssumption ==
  /\ N \in Nat \ {0}
  /\ DatabaseUnits \subseteq Units
  /\ Fates \subseteq [Units -> {"ok", "failed", "panicked"}]
  /\ MaxThreads \in Nat \ {0}
  /\ Steps \in Nat \ {0}

VARIABLES
  fate,          \* how the analysis of each unit ends by itself
  threads,       \* worker_threads()
  multithreaded, \* the user's option
  cancelled,     \* the cancellation token
  todo,          \* the units a thread has not begun
  unit,          \* the unit a thread works on, 0 for none
  pc,            \* where it stands
  channel,       \* the messages sent and not received
  slots,         \* the results received
  unitSteps,     \* AnalysisProgressTracker: the slice of each unit
  completed,     \* and their sum, as it was last reported
  outputs,       \* the outputs collected
  outcome        \* how the call ends

setup == <<fate, threads, multithreaded>>
workers == <<todo, unit, pc>>
tracker == <<unitSteps, completed>>
result == <<outputs, outcome>>
vars == <<setup, cancelled, workers, channel, slots, tracker, result>>

Sequential == INSTANCE SequentialAnalysis
Running == Sequential!Running
Ended(kind, u) == Sequential!Ended(kind, u)

Pending == "pending"
Result == {"ok", "failed", "cancelled"}
Idle == "idle"

Least(S) == CHOOSE x \in S : \A y \in S : x <= y
Lower(a, b) == IF a <= b THEN a ELSE b
Higher(a, b) == IF a >= b THEN a ELSE b
-----------------------------------------------------------------------------
\* The threads and their shares.

WorkerCount == Lower(threads, N)
OuterWorkersActive == multithreaded /\ N >= 2 /\ WorkerCount >= 2

DatabaseWorkerCount ==
  LET reserved == IF IndependentUnits = {} THEN 0 ELSE 1
  IN  Lower(Lower(Cardinality(DatabaseUnits), 2), Higher(WorkerCount - reserved, 1))

\* Mutant: no thread is kept for the independent units.
IndependentWorkerCountNone ==
  Lower(WorkerCount - Lower(Cardinality(DatabaseUnits), 2), Cardinality(IndependentUnits))

IndependentWorkerCount ==
  Lower(Higher(WorkerCount - DatabaseWorkerCount, 1), Cardinality(IndependentUnits))

DatabaseWorkers == {<<"database", k>> : k \in 1..2}
IndependentWorkers == {<<"independent", k>> : k \in 1..MaxThreads}
Main == <<"main", 0>>
Workers == DatabaseWorkers \cup IndependentWorkers

\* The units of a share are dealt out in turn: position % count.
Dealt(part, count, k) ==
  {u \in part : count > 0 /\ Cardinality({v \in part : v < u}) % count = k - 1}

Share(w) ==
  IF w = Main THEN IF OuterWorkersActive THEN {} ELSE Units
  ELSE IF ~OuterWorkersActive THEN {}
  ELSE IF w \in DatabaseWorkers THEN Dealt(DatabaseUnits, DatabaseWorkerCount, w[2])
  ELSE Dealt(IndependentUnits, IndependentWorkerCount, w[2])

\* A thread whose loop has ended, or that panicked, has dropped its sender.
Stopped(w) == pc[w] = "dead" \/ (pc[w] = Idle /\ todo[w] = {})
\* Mutant: the calling thread keeps its own sender.
AllStoppedNever == FALSE
AllStopped == \A w \in Workers : Stopped(w)
-----------------------------------------------------------------------------
\* AnalysisProgressTracker.

\* Mutant: the slice is replaced by the update.
SliceReplaced(u, steps) == Lower(steps, Steps - 1)
\* Mutant: details may fill the slice.
SliceFilled(u, steps) == Higher(steps, unitSteps[u])

Slice(u, steps) == Higher(Lower(steps, Steps - 1), unitSteps[u])

SetSlice(u, next) ==
  /\ completed' = completed + (next - unitSteps[u])
  /\ unitSteps' = [unitSteps EXCEPT ![u] = next]

Update(u, steps) == SetSlice(u, Slice(u, steps))
Finish(u) == SetSlice(u, Steps)
-----------------------------------------------------------------------------
Init ==
  /\ fate \in Fates
  /\ threads \in 1..MaxThreads
  /\ multithreaded \in BOOLEAN
  /\ cancelled = FALSE
  /\ todo = [w \in Workers \cup {Main} |-> Share(w)]
  /\ unit = [w \in Workers \cup {Main} |-> 0]
  /\ pc = [w \in Workers \cup {Main} |-> Idle]
  /\ channel = <<>>
  /\ slots = [u \in Units |-> Pending]
  /\ unitSteps = [u \in Units |-> 0]
  /\ completed = 0
  /\ outputs = <<>>
  /\ outcome = Running

\* The user presses Cancel.
Cancel ==
  /\ ~cancelled /\ outcome = Running
  /\ cancelled' = TRUE
  /\ UNCHANGED <<setup, workers, channel, slots, tracker, result>>
-----------------------------------------------------------------------------
\* The analysis of one unit, on any thread.

\* analyze_unit looks at the token first: a unit that meets it is refused.
Begin(w) ==
  /\ pc[w] = Idle /\ todo[w] # {}
  /\ unit' = [unit EXCEPT ![w] = Least(todo[w])]
  /\ todo' = [todo EXCEPT ![w] = @ \ {Least(@)}]
  /\ pc' = [pc EXCEPT ![w] = IF cancelled THEN "refused" ELSE "analysing"]

\* Only analyze_database_group tells of its rows, once per unit here.
Report(w) ==
  /\ pc[w] = "analysing" /\ unit[w] \in DatabaseUnits
  /\ pc' = [pc EXCEPT ![w] = "reported"]
  /\ UNCHANGED <<todo, unit>>

EndWith(w, r) ==
  /\ \/ pc[w] \in {"analysing", "reported"} /\ r = fate[unit[w]]
     \/ pc[w] \in {"analysing", "reported", "refused"} /\ cancelled /\ r = "cancelled"
  /\ pc' = [pc EXCEPT ![w] = Idle]
  /\ unit' = [unit EXCEPT ![w] = 0]
  /\ UNCHANGED todo

Panic(w) ==
  /\ pc[w] \in {"analysing", "reported"} /\ fate[unit[w]] = "panicked"
  /\ pc' = [pc EXCEPT ![w] = "dead"]
  /\ UNCHANGED <<todo, unit>>
-----------------------------------------------------------------------------
\* The scoped threads.

Progress(u, steps) == [kind |-> "progress", unit |-> u, steps |-> steps]
Finished(u, r) == [kind |-> "finished", unit |-> u, result |-> r]
Send(message) == channel' = Append(channel, message)

\* The message sent before each unit carries a label and no steps: left out.
WorkerBegins(w) == Begin(w) /\ UNCHANGED channel
WorkerReports(w) == Report(w) /\ \E steps \in 1..Steps : Send(Progress(unit[w], steps))
WorkerFinishes(w) == \E r \in Result : EndWith(w, r) /\ Send(Finished(unit[w], r))
WorkerPanics(w) == Panic(w) /\ UNCHANGED channel

Worker(w) ==
  /\ WorkerBegins(w) \/ WorkerReports(w) \/ WorkerFinishes(w) \/ WorkerPanics(w)
  /\ UNCHANGED <<setup, cancelled, slots, tracker, result>>
-----------------------------------------------------------------------------
\* The calling thread with workers: it receives until every unit has its result.

AllFinished == \A u \in Units : slots[u] # Pending

Receive ==
  /\ OuterWorkersActive /\ outcome = Running /\ ~AllFinished
  /\ channel # <<>>
  /\ channel' = Tail(channel)
  /\ LET m == Head(channel)
     IN  \/ /\ m.kind = "progress"
            /\ Update(m.unit, m.steps)
            /\ UNCHANGED slots
         \/ /\ m.kind = "finished"
            /\ slots' = [slots EXCEPT ![m.unit] = m.result]
            /\ IF m.result = "ok" THEN Finish(m.unit) ELSE Update(m.unit, 0)
  /\ UNCHANGED <<setup, cancelled, workers, result>>

\* recv fails when every sender is gone; the error made of it is dropped, as
\* the scope joins the thread that panicked and panics in its turn.
RecvFails ==
  /\ OuterWorkersActive /\ outcome = Running /\ ~AllFinished
  /\ channel = <<>> /\ AllStopped
  /\ outcome' = Ended("panicked", 0)
  /\ UNCHANGED <<setup, cancelled, workers, channel, slots, tracker, outputs>>

\* slots.into_iter().collect(): in the order of the units, up to an error.
\* Mutant: a unit without an output is passed over.
CollectedSkipping(u) ==
  /\ outputs' = Append(outputs, u)
  /\ UNCHANGED outcome

Collected(u) ==
  IF slots[u] = "ok"
  THEN outputs' = Append(outputs, u) /\ UNCHANGED outcome
  ELSE outcome' = Ended(slots[u], u) /\ UNCHANGED outputs

Collect ==
  /\ OuterWorkersActive /\ outcome = Running /\ AllFinished
  /\ Len(outputs) < N
  /\ Collected(Len(outputs) + 1)
  /\ UNCHANGED <<setup, cancelled, workers, channel, slots, tracker>>
-----------------------------------------------------------------------------
\* The calling thread alone: the same analysis, unit after unit.

AloneBegins ==
  IF cancelled
  THEN /\ outcome' = Ended("cancelled", Least(todo[Main]))
       /\ UNCHANGED <<workers, tracker, outputs>>
  ELSE Begin(Main) /\ UNCHANGED <<tracker, result>>

AloneReports ==
  /\ Report(Main)
  /\ \E steps \in 1..Steps : Update(unit[Main], steps)
  /\ UNCHANGED result

AloneFinishes ==
  \E r \in Result :
    /\ EndWith(Main, r)
    /\ IF r = "ok"
       THEN /\ Finish(unit[Main])
            /\ outputs' = Append(outputs, unit[Main])
            /\ UNCHANGED outcome
       ELSE /\ outcome' = Ended(r, unit[Main])
            /\ UNCHANGED <<tracker, outputs>>

AlonePanics ==
  /\ Panic(Main)
  /\ outcome' = Ended("panicked", 0)
  /\ UNCHANGED <<tracker, outputs>>

Alone ==
  /\ ~OuterWorkersActive /\ outcome = Running
  /\ \/ pc[Main] = Idle /\ todo[Main] # {} /\ AloneBegins
     \/ AloneReports
     \/ AloneFinishes
     \/ AlonePanics
  /\ UNCHANGED <<setup, cancelled, channel, slots>>

Return ==
  /\ outcome = Running /\ Len(outputs) = N
  /\ outcome' = Ended("ok", N)
  /\ UNCHANGED <<setup, cancelled, workers, channel, slots, tracker, outputs>>

Caller == Receive \/ RecvFails \/ Collect \/ Alone \/ Return

Next == Cancel \/ Caller \/ \E w \in Workers : Worker(w)

Spec == Init /\ [][Next]_vars

\* The threads are scheduled; nothing is assumed of a database parser's end.
FairSpec ==
  Spec /\ WF_vars(Caller) /\ \A w \in IndependentWorkers : WF_vars(Worker(w))
-----------------------------------------------------------------------------
\* What the threads share has the shape the caller expects.
TypeOK ==
  /\ fate \in [Units -> Sequential!Fate]
  /\ threads \in 1..MaxThreads
  /\ multithreaded \in BOOLEAN /\ cancelled \in BOOLEAN
  /\ todo \in [Workers \cup {Main} -> SUBSET Units]
  /\ unit \in [Workers \cup {Main} -> 0..N]
  /\ pc \in [Workers \cup {Main} -> {Idle, "analysing", "reported", "refused", "dead"}]
  /\ slots \in [Units -> Result \cup {Pending}]
  /\ unitSteps \in [Units -> 0..Steps]
  /\ completed \in 0..N * Steps
  /\ outputs \in Seq(Units)

\* The result is that of the loop over the units: outputs in the order of the
\* assets, or the error of the first asset that has one (merge.rs:2054).
ImplementsSequential == Sequential!Spec

\* The reported progress is the sum of the slices, so that no update counts
\* twice, and is complete only when every unit has succeeded (merge.rs:26).
ProgressIsHonest ==
  /\ \A u \in Units :
       unitSteps[u] = Steps =>
         slots[u] = "ok" \/ (\E i \in 1..Len(outputs) : outputs[i] = u)
  /\ (completed = N * Steps) <=> \A u \in Units : unitSteps[u] = Steps

\* The progress bar never goes back, in whatever order the messages of several
\* units arrive, and however a unit ends (AnalysisProgressTracker::update).
ProgressNeverFalls == [][completed' >= completed]_vars

\* "One worker is always reserved for independent work so large database
\* parsers cannot starve loose files" (merge.rs:2126): with workers, every
\* independent unit is analysed even if no database parser ever returns, unless
\* a unit of its share panics.
IndependentAnalysed ==
  \A u \in IndependentUnits :
    <>(\/ ~OuterWorkersActive
       \/ slots[u] # Pending
       \/ \E w \in IndependentWorkers : u \in Share(w) /\ pc[w] = "dead")

\* Once every database parser has returned or panicked, the call returns: no
\* failure, panic or cancellation leaves the caller waiting (merge.rs:2271).
ReturnsAfterDatabases ==
  (\A w \in DatabaseWorkers : <>Stopped(w)) => <>(outcome # Running)
=============================================================================
