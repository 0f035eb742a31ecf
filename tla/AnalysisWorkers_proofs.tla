----------------------- MODULE AnalysisWorkers_proofs -----------------------
(***************************************************************************)
(* Proofs about analyze_units, for any units, parsers, threads and fates:  *)
(* no unit is analysed twice or lost, the progress is the sum of the       *)
(* slices and never falls, and the result is that of a loop of one thread. *)
(***************************************************************************)
EXTENDS AnalysisWorkers, FiniteSetTheorems, WellFoundedInduction, TLAPS

Threads == Workers \cup {Main}

Message == [kind : {"progress"}, unit : Units, steps : 1..Steps]
           \cup [kind : {"finished"}, unit : Units, result : Result]

\* Where the result of a unit is on its way.
Sent(u) == {i \in 1..Len(channel) : channel[i].kind = "finished" /\ channel[i].unit = u}

ChannelInv == channel \in Seq(Message)

\* A thread keeps to its share.
ShareInv ==
  \A w \in Threads :
    /\ todo[w] \subseteq Share(w)
    /\ pc[w] = Idle => unit[w] = 0
    /\ pc[w] # Idle => unit[w] \in Share(w)

\* A unit waits, is worked on, or has a result, and has one result.
OnceInv ==
  \A u \in Units :
    /\ \A w \in Threads :
         /\ u \in todo[w] => unit[w] # u
         /\ u \in todo[w] \/ unit[w] = u => Sent(u) = {} /\ slots[u] = Pending
    /\ \A i, j \in Sent(u) : i = j /\ slots[u] = Pending

\* No unit of a share is lost.
CoverInv ==
  \A w \in Workers : \A u \in Share(w) :
    u \in todo[w] \/ unit[w] = u \/ Sent(u) # {} \/ slots[u] # Pending

\* A result is the unit's own, or a cancellation that took place.
Honest(u, r) == r = fate[u] \/ (r = "cancelled" /\ cancelled)

FateInv ==
  /\ \A w \in Threads : pc[w] = "dead" => fate[unit[w]] = "panicked"
  /\ \A i \in 1..Len(channel) :
       channel[i].kind = "finished" => Honest(channel[i].unit, channel[i].result)
  /\ \A u \in Units : slots[u] # Pending => Honest(u, slots[u])

\* The outputs are a prefix of the units; workers' results are collected at the
\* end, and the calling thread alone works at the unit after its last output.
OutputsInv ==
  /\ outputs \in Seq(Units) /\ Len(outputs) <= N
  /\ \A i \in 1..Len(outputs) : outputs[i] = i
  /\ OuterWorkersActive /\ outputs # <<>> => AllFinished

AloneInv ==
  ~OuterWorkersActive =>
    /\ channel = <<>> /\ \A u \in Units : slots[u] = Pending
    /\ outcome = Running =>
         \/ pc[Main] = Idle /\ todo[Main] = (Len(outputs) + 1)..N
         \/ /\ pc[Main] \in {"analysing", "reported"}
            /\ unit[Main] = Len(outputs) + 1
            /\ todo[Main] = (Len(outputs) + 2)..N

\* The tracker has counted the slices, and fills that of a success only.
Succeeded(u) == slots[u] = "ok" \/ (\E i \in 1..Len(outputs) : outputs[i] = u)

\* The steps of the slices one by one: there are as many as f says.
Counted(f) == {x \in Units \X (1..Steps) : x[2] <= f[x[1]]}
ProgressInv ==
  /\ completed = Cardinality(Counted(unitSteps))
  /\ \A u \in Units : unitSteps[u] = Steps => Succeeded(u)

IInv ==
  /\ TypeOK /\ ChannelInv /\ ShareInv /\ OnceInv /\ CoverInv /\ FateInv
  /\ OutputsInv /\ AloneInv /\ ProgressInv
-----------------------------------------------------------------------------
(***************************************************************************)
(* The shares                                                              *)
(***************************************************************************)
\* A set of units that is not empty has a first one.
LEMMA LeastOf ==
  ASSUME NEW S \in SUBSET Nat, S # {}
  PROVE  Least(S) \in S /\ \A y \in S : Least(S) <= y
<1>1. PICK x \in S : \A y \in S : ~(<<y, x>> \in OpToRel(<, Nat))
  BY NatLessThanWellFounded, WFMin, Zenon
<1>2. \A y \in S : ~(y < x)
  BY <1>1 DEF OpToRel
<1>3. \A y \in S : x <= y
  BY <1>2
<1> QED
  BY <1>3 DEF Least

\* Units are counted from one.
LEMMA UnitsFacts == N \in Nat /\ Steps \in Nat /\ Steps >= 1 /\ Units \in SUBSET Nat
                    /\ IsFiniteSet(Units) /\ Cardinality(Units) = N
<1>1. N \in Nat /\ N >= 1 /\ Steps \in Nat /\ Steps >= 1
  BY AnalysisAssumption
<1>2. IsFiniteSet(1..N) /\ Cardinality(1..N) = IF 1 > N THEN 0 ELSE N - 1 + 1
  BY <1>1, FS_Interval
<1> QED
  BY <1>1, <1>2 DEF Units

\* A position among the units of a part is a number.
LEMMA PositionType ==
  ASSUME NEW part \in SUBSET Units, NEW u
  PROVE  Cardinality({v \in part : v < u}) \in Nat
<1>1. {v \in part : v < u} \in SUBSET Units
  OBVIOUS
<1>2. IsFiniteSet({v \in part : v < u})
  BY <1>1, UnitsFacts, FS_Subset
<1> QED
  BY <1>2, FS_CardinalityType

\* What is dealt to one worker is not dealt to another one.
LEMMA DealtOnce ==
  ASSUME NEW part, NEW count, NEW k \in Nat, NEW j \in Nat, NEW u,
         u \in Dealt(part, count, k), u \in Dealt(part, count, j)
  PROVE  k = j
BY DEF Dealt

\* Everything is dealt to one of the workers there are.
LEMMA DealtAll ==
  ASSUME NEW part \in SUBSET Units, NEW count \in Nat, count >= 1, NEW u \in part
  PROVE  \E k \in 1..count : u \in Dealt(part, count, k)
<1> DEFINE position == Cardinality({v \in part : v < u})
<1>1. position \in Nat
  BY PositionType
<1> HIDE DEF position
<1>2. position % count \in 0..count - 1
  BY <1>1
<1>3. (position % count) + 1 \in 1..count /\ position % count = ((position % count) + 1) - 1
  BY <1>2
<1>4. u \in Dealt(part, count, (position % count) + 1)
  BY <1>3 DEF Dealt, position
<1> QED
  BY <1>3, <1>4

\* There are as many workers as the shares need, and no more.
LEMMA WorkerCounts ==
  ASSUME TypeOK
  PROVE  /\ DatabaseUnits # {} => DatabaseWorkerCount \in 1..2
         /\ IndependentUnits # {} => IndependentWorkerCount \in 1..MaxThreads
<1>1. /\ threads \in Nat /\ threads >= 1 /\ threads <= MaxThreads /\ MaxThreads \in Nat
      /\ N \in Nat /\ N >= 1
  BY AnalysisAssumption DEF TypeOK
<1>2. /\ IsFiniteSet(DatabaseUnits) /\ IsFiniteSet(IndependentUnits)
      /\ Cardinality(DatabaseUnits) \in Nat /\ Cardinality(IndependentUnits) \in Nat
  <2>1. DatabaseUnits \in SUBSET Units /\ IndependentUnits \in SUBSET Units
    BY AnalysisAssumption DEF IndependentUnits
  <2> QED
    BY <2>1, UnitsFacts, FS_Subset, FS_CardinalityType
<1>3. /\ DatabaseUnits # {} => Cardinality(DatabaseUnits) >= 1
      /\ IndependentUnits # {} => Cardinality(IndependentUnits) >= 1
  BY <1>2, FS_EmptySet
<1>4. WorkerCount \in Nat /\ WorkerCount >= 1 /\ WorkerCount <= MaxThreads
  BY <1>1 DEF WorkerCount, Lower
<1>5. DatabaseWorkerCount \in Nat /\ (DatabaseUnits # {} => DatabaseWorkerCount \in 1..2)
  BY <1>2, <1>3, <1>4 DEF DatabaseWorkerCount, Lower, Higher
<1>6. IndependentUnits # {} => IndependentWorkerCount \in 1..MaxThreads
  BY <1>1, <1>2, <1>3, <1>4, <1>5 DEF IndependentWorkerCount, Lower, Higher
<1> QED
  BY <1>5, <1>6

\* No two threads own a unit.
LEMMA OneOwner ==
  ASSUME NEW w \in Threads, NEW v \in Threads, NEW u, u \in Share(w), u \in Share(v)
  PROVE  w = v
<1>1. Main \notin Workers /\ DatabaseWorkers \cap IndependentWorkers = {}
  BY DEF Workers, DatabaseWorkers, IndependentWorkers, Main
<1>2. CASE w = Main \/ v = Main
  BY <1>1, <1>2 DEF Share, Threads
<1>3. CASE w # Main /\ v # Main
  <2>1. OuterWorkersActive /\ w \in Workers /\ v \in Workers
    BY <1>3 DEF Share, Threads
  <2>2. CASE w \in DatabaseWorkers
    <3>1. u \in Dealt(DatabaseUnits, DatabaseWorkerCount, w[2])
      BY <1>3, <2>1, <2>2 DEF Share
    <3>2. v \in DatabaseWorkers
      <4>1. u \in DatabaseUnits
        BY <3>1 DEF Dealt
      <4>2. v \notin DatabaseWorkers => u \in Dealt(IndependentUnits, IndependentWorkerCount, v[2])
        BY <1>3, <2>1 DEF Share
      <4>3. v \notin DatabaseWorkers => u \in IndependentUnits
        BY <4>2 DEF Dealt
      <4> QED
        BY <4>1, <4>3 DEF IndependentUnits
    <3>3. u \in Dealt(DatabaseUnits, DatabaseWorkerCount, v[2])
      BY <1>3, <2>1, <3>2 DEF Share
    <3>4. PICK k \in 1..2 : w = <<"database", k>>
      BY <2>2 DEF DatabaseWorkers
    <3>5. PICK j \in 1..2 : v = <<"database", j>>
      BY <3>2 DEF DatabaseWorkers
    <3>6. k = j
      BY <3>1, <3>3, <3>4, <3>5, DealtOnce
    <3> QED
      BY <3>4, <3>5, <3>6
  <2>3. CASE w \notin DatabaseWorkers
    <3>1. u \in Dealt(IndependentUnits, IndependentWorkerCount, w[2])
      BY <1>3, <2>1, <2>3 DEF Share
    <3>2. v \notin DatabaseWorkers
      <4>1. u \in IndependentUnits
        BY <3>1 DEF Dealt
      <4>2. v \in DatabaseWorkers => u \in Dealt(DatabaseUnits, DatabaseWorkerCount, v[2])
        BY <1>3, <2>1 DEF Share
      <4>3. v \in DatabaseWorkers => u \in DatabaseUnits
        BY <4>2 DEF Dealt
      <4> QED
        BY <4>1, <4>3 DEF IndependentUnits
    <3>3. u \in Dealt(IndependentUnits, IndependentWorkerCount, v[2])
      BY <1>3, <2>1, <3>2 DEF Share
    <3>4. w \in IndependentWorkers /\ v \in IndependentWorkers
      BY <2>1, <2>3, <3>2 DEF Workers
    <3>5. PICK k \in 1..MaxThreads : w = <<"independent", k>>
      BY <3>4 DEF IndependentWorkers
    <3>6. PICK j \in 1..MaxThreads : v = <<"independent", j>>
      BY <3>4 DEF IndependentWorkers
    <3>7. k = j
      BY <3>1, <3>3, <3>5, <3>6, DealtOnce
    <3> QED
      BY <3>5, <3>6, <3>7
  <2> QED
    BY <2>2, <2>3
<1> QED
  BY <1>2, <1>3

\* With workers, one of them owns each unit.
LEMMA EveryUnitOwned ==
  ASSUME TypeOK, OuterWorkersActive, NEW u \in Units
  PROVE  \E w \in Workers : u \in Share(w)
<1>1. Main \notin Workers /\ DatabaseWorkers \cap IndependentWorkers = {}
  BY DEF Workers, DatabaseWorkers, IndependentWorkers, Main
<1>2. CASE u \in DatabaseUnits
  <2>1. DatabaseWorkerCount \in 1..2 /\ DatabaseUnits \in SUBSET Units
    BY <1>2, WorkerCounts, AnalysisAssumption
  <2>2. PICK k \in 1..DatabaseWorkerCount : u \in Dealt(DatabaseUnits, DatabaseWorkerCount, k)
    BY <1>2, <2>1, DealtAll
  <2>3. <<"database", k>> \in DatabaseWorkers
    BY <2>1 DEF DatabaseWorkers
  <2>4. <<"database", k>> \in Workers /\ <<"database", k>> # Main
    BY <1>1, <2>3 DEF Workers
  <2>5. u \in Share(<<"database", k>>)
    BY <2>2, <2>3, <2>4 DEF Share
  <2> QED
    BY <2>4, <2>5
<1>3. CASE u \notin DatabaseUnits
  <2>1. u \in IndependentUnits /\ IndependentUnits \in SUBSET Units
    BY <1>3 DEF IndependentUnits
  <2>2. IndependentWorkerCount \in 1..MaxThreads
    BY <2>1, WorkerCounts
  <2>3. PICK k \in 1..IndependentWorkerCount : u \in Dealt(IndependentUnits, IndependentWorkerCount, k)
    BY <2>1, <2>2, DealtAll, AnalysisAssumption
  <2>4. <<"independent", k>> \in IndependentWorkers
    BY <2>2, AnalysisAssumption DEF IndependentWorkers
  <2>5. /\ <<"independent", k>> \in Workers /\ <<"independent", k>> # Main
        /\ <<"independent", k>> \notin DatabaseWorkers
    BY <1>1, <2>4 DEF Workers
  <2>6. u \in Share(<<"independent", k>>)
    BY <2>3, <2>5 DEF Share
  <2> QED
    BY <2>5, <2>6
<1> QED
  BY <1>2, <1>3

\* The shares are those of the start: nothing changes the threads there are.
LEMMA SharesStay ==
  ASSUME UNCHANGED setup
  PROVE  /\ OuterWorkersActive' = OuterWorkersActive
         /\ \A w : Share(w)' = Share(w)
BY DEF setup, OuterWorkersActive, Share, WorkerCount, DatabaseWorkerCount, IndependentWorkerCount,
       Dealt, Lower, Higher

-----------------------------------------------------------------------------
(***************************************************************************)
(* The channel                                                             *)
(***************************************************************************)
\* What a message is.
LEMMA MessageFields ==
  ASSUME NEW m \in Message
  PROVE  /\ m.kind \in {"progress", "finished"} /\ m.unit \in Units
         /\ m.kind = "progress" => m.steps \in 1..Steps
         /\ m.kind = "finished" => m.result \in Result
BY DEF Message

\* Sending adds one message behind the others.
LEMMA SendFacts ==
  ASSUME ChannelInv, NEW m \in Message, Send(m)
  PROVE  /\ ChannelInv'
         /\ Len(channel') = Len(channel) + 1 /\ channel'[Len(channel) + 1] = m
         /\ \A i \in 1..Len(channel) : channel'[i] = channel[i]
BY DEF ChannelInv, Send

LEMMA SendProgress ==
  ASSUME ChannelInv, NEW m \in Message, m.kind = "progress", Send(m)
  PROVE  \A u : Sent(u)' = Sent(u)
<1>1. Len(channel) \in Nat
  BY DEF ChannelInv
<1> QED
  BY <1>1, SendFacts DEF Sent

LEMMA SendFinished ==
  ASSUME ChannelInv, NEW m \in Message, m.kind = "finished", Send(m), NEW u0, m.unit = u0
  PROVE  /\ Sent(u0)' = Sent(u0) \cup {Len(channel) + 1}
         /\ \A u : u # u0 => Sent(u)' = Sent(u)
<1>1. Len(channel) \in Nat
  BY DEF ChannelInv
<1> QED
  BY <1>1, SendFacts DEF Sent

\* Receiving takes the first message away and moves the others up.
LEMMA ReceiveFacts ==
  ASSUME ChannelInv, channel # <<>>, channel' = Tail(channel)
  PROVE  /\ ChannelInv' /\ Head(channel) \in Message /\ Head(channel) = channel[1]
         /\ Len(channel) \in Nat /\ Len(channel) >= 1 /\ Len(channel') = Len(channel) - 1
         /\ \A i \in 1..Len(channel') : channel'[i] = channel[i + 1]
BY DEF ChannelInv

LEMMA ReceiveSent ==
  ASSUME ChannelInv, channel # <<>>, channel' = Tail(channel)
  PROVE  \A u : /\ \A i \in Sent(u)' : i + 1 \in Sent(u)
                /\ \A i \in Sent(u) : i = 1 \/ i - 1 \in Sent(u)'
                /\ 1 \in Sent(u) <=> Head(channel).kind = "finished" /\ Head(channel).unit = u
<1> TAKE u
<1>1. \A i \in Sent(u)' : i + 1 \in Sent(u)
  BY ReceiveFacts DEF Sent
<1>2. \A i \in Sent(u) : i = 1 \/ i - 1 \in Sent(u)'
  <2> TAKE i \in Sent(u)
  <2>1. i \in 1..Len(channel) /\ channel[i].kind = "finished" /\ channel[i].unit = u
    BY DEF Sent
  <2>2. i # 1 => i - 1 \in 1..Len(channel') /\ channel'[i - 1] = channel[i - 1 + 1] /\ i - 1 + 1 = i
    BY <2>1, ReceiveFacts
  <2> QED
    BY <2>1, <2>2 DEF Sent
<1>3. 1 \in Sent(u) <=> Head(channel).kind = "finished" /\ Head(channel).unit = u
  BY ReceiveFacts DEF Sent
<1> QED
  BY <1>1, <1>2, <1>3
-----------------------------------------------------------------------------
(***************************************************************************)
(* The scoped threads                                                      *)
(***************************************************************************)
\* What a thread works at is a unit.
LEMMA UnitType ==
  ASSUME TypeOK, ShareInv, NEW w \in Threads
  PROVE  /\ pc[w] # Idle => unit[w] \in Units /\ unit[w] # 0
         /\ pc[w] = Idle => unit[w] \notin Units
         /\ todo[w] \in SUBSET Units
<1>1. 0 \notin Units
  BY DEF Units
<1>2. Share(w) \in SUBSET Units
  BY AnalysisAssumption DEF Share, Dealt, IndependentUnits
<1> QED
  BY <1>1, <1>2 DEF ShareInv, TypeOK, Threads

\* A worker has something to do only when there are workers.
LEMMA WorkersOnly ==
  ASSUME ShareInv, NEW w \in Workers, Worker(w)
  PROVE  OuterWorkersActive /\ w \in Threads /\ w # Main
<1>1. w \in Threads /\ w # Main
  BY DEF Threads, Workers, DatabaseWorkers, IndependentWorkers, Main
<1>2. todo[w] # {} \/ pc[w] # Idle
  BY DEF Worker, WorkerBegins, WorkerReports, WorkerFinishes, WorkerPanics, Begin, Report, EndWith,
     Panic, Idle
<1>3. Share(w) # {}
  BY <1>1, <1>2 DEF ShareInv
<1> QED
  BY <1>1, <1>3 DEF Share

\* analyze_unit begins with the first unit of the share that is left.
LEMMA BeginStep ==
  ASSUME IInv, NEW w \in Workers, Worker(w), WorkerBegins(w)
  PROVE  IInv'
<1> USE DEF IInv
<1>1. OuterWorkersActive /\ w \in Threads /\ w # Main
  BY WorkersOnly
<1>2. /\ UNCHANGED <<setup, cancelled, slots, tracker, result>> /\ channel' = channel
      /\ pc[w] = Idle /\ todo[w] # {}
      /\ unit' = [unit EXCEPT ![w] = Least(todo[w])]
      /\ todo' = [todo EXCEPT ![w] = todo[w] \ {Least(todo[w])}]
      /\ pc' = [pc EXCEPT ![w] = IF cancelled THEN "refused" ELSE "analysing"]
  BY DEF Worker, WorkerBegins, Begin
<1>3. todo[w] \in SUBSET Units /\ unit[w] \notin Units
  BY <1>1, <1>2, UnitType
<1>4. Least(todo[w]) \in todo[w] /\ Least(todo[w]) \in Units
  BY <1>2, <1>3, UnitsFacts, LeastOf
<1>5. OuterWorkersActive' = OuterWorkersActive /\ \A v : Share(v)' = Share(v)
  BY <1>2, SharesStay
<1>6. \A u : Sent(u)' = Sent(u)
  BY <1>2 DEF Sent
<1>7. TypeOK'
  BY <1>1, <1>2, <1>4 DEF TypeOK, setup, tracker, result, Threads, Idle, Units
<1>8. ChannelInv' /\ OutputsInv' /\ ProgressInv' /\ AloneInv'
  BY <1>1, <1>2, <1>5 DEF ChannelInv, OutputsInv, ProgressInv, AloneInv, Succeeded, AllFinished,
     setup, tracker, result
<1>9. ShareInv'
  BY <1>1, <1>2, <1>4, <1>5 DEF ShareInv, TypeOK, Threads, Idle
<1>10. OnceInv'
  BY <1>1, <1>2, <1>4, <1>6 DEF OnceInv, TypeOK, Threads
<1>11. CoverInv'
  <2>1. ASSUME NEW v \in Workers, NEW u \in Share(v)
        PROVE  u \in todo'[v] \/ unit'[v] = u \/ Sent(u)' # {} \/ slots'[u] # Pending
    <3>1. slots' = slots /\ Sent(u)' = Sent(u)
      BY <1>2, <1>6
    <3>2. u \in todo[v] \/ unit[v] = u \/ Sent(u) # {} \/ slots[u] # Pending
      BY DEF CoverInv
    <3>3. u \in Units
      BY AnalysisAssumption DEF Share, Dealt, IndependentUnits
    <3>4. CASE v = w
      <4>1. unit'[w] = Least(todo[w]) /\ todo'[w] = todo[w] \ {Least(todo[w])}
        BY <1>1, <1>2 DEF TypeOK, Threads
      <4> QED
        BY <1>3, <3>1, <3>2, <3>3, <3>4, <4>1
    <3>5. CASE v # w
      <4>1. unit'[v] = unit[v] /\ todo'[v] = todo[v]
        BY <1>2, <3>5 DEF TypeOK, Threads
      <4> QED
        BY <3>1, <3>2, <4>1
    <3> QED
      BY <3>4, <3>5
  <2>2. \A v \in Workers : Share(v)' = Share(v)
    BY <1>5
  <2> QED
    BY <2>1, <2>2 DEF CoverInv
<1>12. FateInv'
  BY <1>1, <1>2 DEF FateInv, Honest, TypeOK, Threads, setup
<1> QED
  BY <1>7, <1>8, <1>9, <1>10, <1>11, <1>12

\* A progress message leaves the units where they are.
LEMMA ReportStep ==
  ASSUME IInv, NEW w \in Workers, Worker(w), WorkerReports(w)
  PROVE  IInv'
<1> USE DEF IInv
<1>1. OuterWorkersActive /\ w \in Threads /\ w # Main
  BY WorkersOnly
<1>2. /\ UNCHANGED <<setup, cancelled, slots, tracker, result>>
      /\ pc[w] = "analysing" /\ pc' = [pc EXCEPT ![w] = "reported"] /\ todo' = todo /\ unit' = unit
  BY DEF Worker, WorkerReports, Report
<1>3. PICK steps \in 1..Steps : Send(Progress(unit[w], steps))
  BY DEF WorkerReports
<1>4. unit[w] \in Units
  BY <1>1, <1>2, UnitType DEF Idle
<1>5. Progress(unit[w], steps) \in Message /\ Progress(unit[w], steps).kind = "progress"
  BY <1>4 DEF Message, Progress
<1>6. \A u : Sent(u)' = Sent(u)
  BY <1>3, <1>5, SendProgress
<1>7. /\ Len(channel) \in Nat /\ ChannelInv' /\ Len(channel') = Len(channel) + 1
      /\ channel'[Len(channel) + 1] = Progress(unit[w], steps)
      /\ \A i \in 1..Len(channel) : channel'[i] = channel[i]
  BY <1>3, <1>5, SendFacts DEF ChannelInv
<1>8. OuterWorkersActive' = OuterWorkersActive /\ \A v : Share(v)' = Share(v)
  BY <1>2, SharesStay
<1>9. TypeOK'
  BY <1>1, <1>2 DEF TypeOK, setup, tracker, result, Threads
<1>10. OutputsInv' /\ ProgressInv' /\ AloneInv'
  BY <1>1, <1>2, <1>8 DEF OutputsInv, ProgressInv, AloneInv, Succeeded, AllFinished,
     setup, tracker, result
<1>11. ShareInv'
  BY <1>1, <1>2, <1>8 DEF ShareInv, TypeOK, Threads, Idle
<1>12. OnceInv' /\ CoverInv'
  BY <1>2, <1>6, <1>8 DEF OnceInv, CoverInv
<1>13. FateInv'
  <2>1. \A v \in Threads : pc'[v] = "dead" => fate'[unit'[v]] = "panicked"
    BY <1>1, <1>2 DEF FateInv, TypeOK, Threads, setup
  <2>2. ASSUME NEW i \in 1..Len(channel'), channel'[i].kind = "finished"
        PROVE  \/ channel'[i].result = fate'[channel'[i].unit]
               \/ channel'[i].result = "cancelled" /\ cancelled'
    <3>1. i \in 1..Len(channel) /\ channel'[i] = channel[i]
      BY <1>5, <1>7, <2>2
    <3> QED
      BY <1>2, <2>2, <3>1 DEF FateInv, Honest, setup
  <2>3. \A u \in Units : slots'[u] # Pending =>
          slots'[u] = fate'[u] \/ (slots'[u] = "cancelled" /\ cancelled')
    BY <1>2 DEF FateInv, Honest, setup
  <2> QED
    BY <2>1, <2>2, <2>3 DEF FateInv, Honest
<1> QED
  BY <1>7, <1>9, <1>10, <1>11, <1>12, <1>13

\* A finished message carries the one result of a unit that nobody else holds.
LEMMA FinishStep ==
  ASSUME IInv, NEW w \in Workers, Worker(w), WorkerFinishes(w), NEW u0, u0 = unit[w]
  PROVE  IInv'
<1> USE DEF IInv
<1>1. OuterWorkersActive /\ w \in Threads /\ w # Main
  BY WorkersOnly
<1>2. PICK r \in Result : EndWith(w, r) /\ Send(Finished(unit[w], r))
  BY DEF WorkerFinishes
<1>3. /\ UNCHANGED <<setup, cancelled, slots, tracker, result>>
      /\ pc[w] # Idle /\ pc' = [pc EXCEPT ![w] = Idle] /\ unit' = [unit EXCEPT ![w] = 0]
      /\ todo' = todo
  BY <1>2 DEF Worker, EndWith, Idle
<1>4. u0 \in Units /\ u0 # 0 /\ u0 \in Share(w)
  BY <1>1, <1>3, UnitType DEF ShareInv
<1>5. Honest(u0, r)
  BY <1>2 DEF EndWith, Honest
<1>6. /\ Finished(u0, r) \in Message /\ Finished(u0, r).kind = "finished"
      /\ Finished(u0, r).unit = u0 /\ Finished(u0, r).result = r
  BY <1>4 DEF Message, Finished
<1>7. /\ Sent(u0)' = Sent(u0) \cup {Len(channel) + 1}
      /\ \A u : u # u0 => Sent(u)' = Sent(u)
  BY <1>2, <1>6, SendFinished
<1>8. /\ Len(channel) \in Nat /\ ChannelInv' /\ Len(channel') = Len(channel) + 1
      /\ channel'[Len(channel) + 1] = Finished(u0, r)
      /\ \A i \in 1..Len(channel) : channel'[i] = channel[i]
  BY <1>2, <1>6, SendFacts DEF ChannelInv
<1>9. OuterWorkersActive' = OuterWorkersActive /\ \A v : Share(v)' = Share(v)
  BY <1>3, SharesStay
<1>10. TypeOK'
  BY <1>1, <1>3, UnitsFacts DEF TypeOK, setup, tracker, result, Threads
<1>11. OutputsInv' /\ ProgressInv' /\ AloneInv'
  BY <1>1, <1>3, <1>9 DEF OutputsInv, ProgressInv, AloneInv, Succeeded, AllFinished,
     setup, tracker, result
<1>12. ShareInv'
  BY <1>1, <1>3, <1>9 DEF ShareInv, TypeOK, Threads
<1>13. OnceInv'
  <2>1. Sent(u0) = {} /\ slots[u0] = Pending /\ u0 \notin todo[w]
    BY <1>1, <1>4 DEF OnceInv
  <2>2. \A v \in Threads : u0 \notin todo'[v] /\ unit'[v] # u0
    <3> TAKE v \in Threads
    <3>1. CASE v = w
      BY <1>1, <1>3, <1>4, <2>1, <3>1 DEF TypeOK, Threads
    <3>2. CASE v # w
      <4>1. u0 \notin Share(v)
        BY <1>1, <1>4, <3>2, OneOwner
      <4>2. u0 \notin todo[v] /\ unit[v] # u0
        BY <1>4, <4>1, UnitType DEF ShareInv
      <4> QED
        BY <1>3, <3>2, <4>2 DEF TypeOK, Threads
    <3> QED
      BY <3>1, <3>2
  <2>3. ASSUME NEW u \in Units, u # u0, NEW v \in Threads
        PROVE  /\ u \in todo'[v] => unit'[v] # u
               /\ u \in todo'[v] \/ unit'[v] = u => Sent(u)' = {} /\ slots'[u] = Pending
    <3>1. u # 0
      BY DEF Units
    <3>2. todo'[v] = todo[v] /\ (unit'[v] = unit[v] \/ unit'[v] = 0)
      BY <1>3, <2>3 DEF TypeOK, Threads
    <3> QED
      BY <1>3, <1>7, <2>3, <3>1, <3>2 DEF OnceInv
  <2>4. ASSUME NEW u \in Units, NEW i \in Sent(u)', NEW j \in Sent(u)'
        PROVE  i = j /\ slots'[u] = Pending
    <3>1. CASE u = u0
      BY <1>3, <1>7, <2>1, <3>1
    <3>2. CASE u # u0
      BY <1>3, <1>7, <3>2 DEF OnceInv
    <3> QED
      BY <3>1, <3>2
  <2>5. \A v \in Threads :
          /\ u0 \in todo'[v] => unit'[v] # u0
          /\ u0 \in todo'[v] \/ unit'[v] = u0 => Sent(u0)' = {} /\ slots'[u0] = Pending
    BY <2>2
  <2>6. \A u \in Units : \A v \in Threads :
          /\ u \in todo'[v] => unit'[v] # u
          /\ u \in todo'[v] \/ unit'[v] = u => Sent(u)' = {} /\ slots'[u] = Pending
    BY <2>3, <2>5
  <2> QED
    BY <2>4, <2>6 DEF OnceInv
<1>14. CoverInv'
  <2>1. ASSUME NEW v \in Workers, NEW u \in Share(v)
        PROVE  u \in todo'[v] \/ unit'[v] = u \/ Sent(u)' # {} \/ slots'[u] # Pending
    <3>1. u = u0 => Sent(u)' # {}
      BY <1>7
    <3>2. u # u0 => (unit[v] = u => unit'[v] = u) /\ Sent(u)' = Sent(u)
      BY <1>3, <1>7 DEF TypeOK, Threads
    <3> QED
      BY <1>3, <2>1, <3>1, <3>2 DEF CoverInv
  <2> QED
    BY <1>9, <2>1 DEF CoverInv
<1>15. FateInv'
  <2>1. \A v \in Threads : pc'[v] = "dead" => fate'[unit'[v]] = "panicked"
    BY <1>1, <1>3 DEF FateInv, TypeOK, Threads, setup, Idle
  <2>2. ASSUME NEW i \in 1..Len(channel'), channel'[i].kind = "finished"
        PROVE  \/ channel'[i].result = fate'[channel'[i].unit]
               \/ channel'[i].result = "cancelled" /\ cancelled'
    <3>1. CASE i \in 1..Len(channel)
      <4>1. channel'[i] = channel[i]
        BY <1>8, <3>1
      <4> QED
        BY <1>3, <2>2, <3>1, <4>1 DEF FateInv, Honest, setup
    <3>2. CASE i = Len(channel) + 1
      BY <1>3, <1>5, <1>6, <1>8, <3>2 DEF Honest, setup
    <3> QED
      BY <1>8, <3>1, <3>2
  <2>3. \A u \in Units : slots'[u] # Pending =>
          slots'[u] = fate'[u] \/ (slots'[u] = "cancelled" /\ cancelled')
    BY <1>3 DEF FateInv, Honest, setup
  <2> QED
    BY <2>1, <2>2, <2>3 DEF FateInv, Honest
<1> QED
  BY <1>8, <1>10, <1>11, <1>12, <1>13, <1>14, <1>15

\* A panic leaves the unit with the dead thread.
LEMMA PanicStep ==
  ASSUME IInv, NEW w \in Workers, Worker(w), WorkerPanics(w)
  PROVE  IInv'
<1> USE DEF IInv
<1>1. OuterWorkersActive /\ w \in Threads /\ w # Main
  BY WorkersOnly
<1>2. /\ UNCHANGED <<setup, cancelled, slots, tracker, result>> /\ channel' = channel
      /\ pc[w] \in {"analysing", "reported"} /\ fate[unit[w]] = "panicked"
      /\ pc' = [pc EXCEPT ![w] = "dead"] /\ todo' = todo /\ unit' = unit
  BY DEF Worker, WorkerPanics, Panic
<1>3. OuterWorkersActive' = OuterWorkersActive /\ \A v : Share(v)' = Share(v)
  BY <1>2, SharesStay
<1>4. \A u : Sent(u)' = Sent(u)
  BY <1>2 DEF Sent
<1>5. TypeOK' /\ ChannelInv'
  BY <1>1, <1>2 DEF TypeOK, ChannelInv, setup, tracker, result, Threads
<1>6. OutputsInv' /\ ProgressInv' /\ AloneInv'
  BY <1>1, <1>2, <1>3 DEF OutputsInv, ProgressInv, AloneInv, Succeeded, AllFinished,
     setup, tracker, result
<1>7. ShareInv'
  BY <1>1, <1>2, <1>3 DEF ShareInv, TypeOK, Threads, Idle
<1>8. OnceInv' /\ CoverInv'
  BY <1>2, <1>3, <1>4 DEF OnceInv, CoverInv
<1>9. FateInv'
  BY <1>1, <1>2 DEF FateInv, Honest, TypeOK, Threads, setup
<1> QED
  BY <1>5, <1>6, <1>7, <1>8, <1>9

-----------------------------------------------------------------------------
(***************************************************************************)
(* The tracker                                                             *)
(***************************************************************************)
\* The interval of the steps after a number.
LEMMA StepsAfter ==
  ASSUME NEW a \in Int, NEW b \in Int, a <= b
  PROVE  IsFiniteSet((a + 1)..b) /\ Cardinality((a + 1)..b) = b - a
<1>1. a + 1 \in Int
  OBVIOUS
<1>2. IsFiniteSet((a + 1)..b) /\ Cardinality((a + 1)..b) = IF a + 1 > b THEN 0 ELSE b - (a + 1) + 1
  BY <1>1, FS_Interval
<1> QED
  BY <1>2

\* All the steps there are.
LEMMA AllSteps ==
  /\ IsFiniteSet(Units \X (1..Steps)) /\ Cardinality(Units \X (1..Steps)) = N * Steps
  /\ N \in Nat /\ Steps \in Nat
<1>1. Steps \in Nat /\ N \in Nat /\ IsFiniteSet(Units) /\ Cardinality(Units) = N
  BY UnitsFacts
<1>2. IsFiniteSet(1..Steps) /\ Cardinality(1..Steps) = Steps
  <2>1. IsFiniteSet(1..Steps) /\ Cardinality(1..Steps) = IF 1 > Steps THEN 0 ELSE Steps - 1 + 1
    BY <1>1, FS_Interval
  <2> QED
    BY <1>1, <2>1
<1> QED
  BY <1>1, <1>2, FS_Product

\* No more steps are counted than there are, and all of them only when every
\* slice is full.
LEMMA CountedFull ==
  ASSUME NEW f, \A u \in Units : f[u] \in 0..Steps
  PROVE  /\ IsFiniteSet(Counted(f)) /\ Cardinality(Counted(f)) \in 0..N * Steps
         /\ Cardinality(Counted(f)) = N * Steps <=> \A u \in Units : f[u] = Steps
<1> DEFINE All == Units \X (1..Steps)
<1>1. IsFiniteSet(All) /\ Cardinality(All) = N * Steps /\ N \in Nat /\ Steps \in Nat
  BY AllSteps
<1>2. Counted(f) \subseteq All
  BY DEF Counted
<1>3. /\ IsFiniteSet(Counted(f)) /\ Cardinality(Counted(f)) <= Cardinality(All)
      /\ Cardinality(All) = Cardinality(Counted(f)) => All = Counted(f)
  BY <1>1, <1>2, FS_Subset
<1>4. Cardinality(Counted(f)) \in Nat
  BY <1>3, FS_CardinalityType
<1>5. ASSUME \A u \in Units : f[u] = Steps PROVE Counted(f) = All
  BY <1>1, <1>5 DEF Counted
<1>6. ASSUME Counted(f) = All, NEW u \in Units PROVE f[u] = Steps
  <2>1. CASE Steps = 0
    BY <2>1
  <2>2. CASE Steps # 0
    <3>1. <<u, Steps>> \in All
      BY <1>1, <2>2
    <3>2. Steps <= f[u]
      BY <1>6, <3>1 DEF Counted
    <3> QED
      BY <1>1, <3>2
  <2> QED
    BY <2>1, <2>2
<1>7. N * Steps \in Nat
  BY <1>1
<1> HIDE DEF All
<1> QED
  BY <1>1, <1>3, <1>4, <1>5, <1>6, <1>7

\* Nothing is counted of empty slices.
LEMMA CountedNone ==
  ASSUME NEW f, \A u \in Units : f[u] = 0
  PROVE  Cardinality(Counted(f)) = 0
<1>1. Counted(f) = {}
  BY DEF Counted
<1> QED
  BY <1>1, FS_EmptySet

\* A slice that grows adds what it grows by.
LEMMA CountedMore ==
  ASSUME NEW f, NEW g, NEW u \in Units,
         \A v \in Units : f[v] \in 0..Steps /\ g[v] \in 0..Steps,
         \A v \in Units \ {u} : g[v] = f[v], f[u] <= g[u]
  PROVE  Cardinality(Counted(g)) = Cardinality(Counted(f)) + (g[u] - f[u])
<1> DEFINE New == {u} \X ((f[u] + 1)..g[u])
<1>1. f[u] \in 0..Steps /\ g[u] \in 0..Steps /\ Steps \in Nat
  BY AllSteps
<1>2. f[u] \in Int /\ g[u] \in Int
  BY <1>1
<1>3. IsFiniteSet((f[u] + 1)..g[u]) /\ Cardinality((f[u] + 1)..g[u]) = g[u] - f[u]
  BY <1>2, StepsAfter
<1>4. IsFiniteSet({u}) /\ Cardinality({u}) = 1
  BY FS_Singleton
<1>5. IsFiniteSet(New) /\ Cardinality(New) = g[u] - f[u]
  <2>1. \A S : IsFiniteSet(S) => IsFiniteSet({u} \X S) /\ Cardinality({u} \X S) = Cardinality({u}) * Cardinality(S)
    BY <1>4, FS_Product
  <2>2. IsFiniteSet(New) /\ Cardinality(New) = Cardinality({u}) * Cardinality((f[u] + 1)..g[u])
    BY <1>3, <2>1
  <2> QED
    BY <1>2, <1>3, <1>4, <2>2
<1>6. Counted(g) = Counted(f) \cup New
  <2>1. ASSUME NEW x \in Counted(g) PROVE x \in Counted(f) \cup New
    <3>1. PICK v \in Units, k \in 1..Steps : x = <<v, k>> /\ k <= g[v]
      BY DEF Counted
    <3>2. CASE v # u
      BY <3>1, <3>2 DEF Counted
    <3>3. CASE v = u /\ k <= f[u]
      BY <3>1, <3>3 DEF Counted
    <3>4. CASE v = u /\ ~(k <= f[u])
      BY <1>1, <3>1, <3>4
    <3> QED
      BY <3>2, <3>3, <3>4
  <2>2. ASSUME NEW x \in Counted(f) PROVE x \in Counted(g)
    <3>1. PICK v \in Units, k \in 1..Steps : x = <<v, k>> /\ k <= f[v]
      BY DEF Counted
    <3>2. k <= g[v]
      BY <1>1, <3>1
    <3> QED
      BY <3>1, <3>2 DEF Counted
  <2>3. ASSUME NEW x \in New PROVE x \in Counted(g)
    <3>1. PICK k \in (f[u] + 1)..g[u] : x = <<u, k>>
      OBVIOUS
    <3>2. k \in 1..Steps /\ k <= g[u]
      BY <1>1
    <3> QED
      BY <3>1, <3>2 DEF Counted
  <2> QED
    BY <2>1, <2>2, <2>3
<1>7. Counted(f) \cap New = {}
  <2> SUFFICES ASSUME NEW x \in Counted(f), x \in New PROVE FALSE
    OBVIOUS
  <2>1. PICK k \in (f[u] + 1)..g[u] : x = <<u, k>>
    OBVIOUS
  <2>2. k <= f[u]
    BY <2>1 DEF Counted
  <2> QED
    BY <1>1, <2>2
<1>8. IsFiniteSet(Counted(f)) /\ Cardinality(Counted(f)) \in Nat
  BY CountedFull, FS_CardinalityType
<1> HIDE DEF New
<1>9. Cardinality(Counted(f) \cup New) = Cardinality(Counted(f)) + Cardinality(New) - Cardinality(Counted(f) \cap New)
  BY <1>5, <1>8, FS_Union
<1>10. Cardinality(Counted(f) \cap New) = 0
  BY <1>7, FS_EmptySet
<1> QED
  BY <1>1, <1>5, <1>6, <1>8, <1>9, <1>10

\* Filling a slice adds as much to what was reported.
LEMMA SliceStep ==
  ASSUME TypeOK, ProgressInv, NEW u \in Units, NEW next \in 0..Steps, next >= unitSteps[u],
         SetSlice(u, next)
  PROVE  /\ unitSteps' \in [Units -> 0..Steps] /\ unitSteps'[u] = next
         /\ \A v \in Units : v # u => unitSteps'[v] = unitSteps[v]
         /\ completed' = Cardinality(Counted(unitSteps')) /\ completed' \in 0..N * Steps
         /\ completed' >= completed
<1>1. Steps \in Nat /\ N \in Nat /\ IsFiniteSet(Units) /\ Cardinality(Units) = N
  BY UnitsFacts
<1>2. /\ unitSteps \in [Units -> 0..Steps] /\ unitSteps' = [unitSteps EXCEPT ![u] = next]
      /\ completed' = completed + (next - unitSteps[u]) /\ completed \in 0..N * Steps
  BY DEF SetSlice, TypeOK
<1>3. /\ unitSteps' \in [Units -> 0..Steps] /\ unitSteps'[u] = next
      /\ \A v \in Units : v # u => unitSteps'[v] = unitSteps[v]
  BY <1>2
<1>4. /\ \A v \in Units : unitSteps[v] \in Nat /\ unitSteps'[v] \in Nat
      /\ \A v \in Units : unitSteps'[v] \in 0..Steps
      /\ \A v \in Units \ {u} : unitSteps'[v] = unitSteps[v]
  BY <1>1, <1>2, <1>3
<1>5. PICK before : before = unitSteps
  OBVIOUS
<1>6. PICK after : after = unitSteps'
  OBVIOUS
<1>7. Cardinality(Counted(after)) = Cardinality(Counted(before)) + (after[u] - before[u])
  <2>1. \A v \in Units : before[v] \in 0..Steps /\ after[v] \in 0..Steps
    BY <1>2, <1>4, <1>5, <1>6
  <2>2. \A v \in Units \ {u} : after[v] = before[v]
    BY <1>4, <1>5, <1>6
  <2>3. before[u] <= after[u]
    BY <1>1, <1>2, <1>3, <1>5, <1>6
  <2> QED
    BY ONLY <2>1, <2>2, <2>3, u \in Units, CountedMore
<1>8. Cardinality(Counted(after)) \in 0..N * Steps /\ Cardinality(Counted(before)) \in 0..N * Steps
  BY <1>2, <1>4, <1>5, <1>6, CountedFull
<1>10. completed = Cardinality(Counted(before))
  BY <1>5 DEF ProgressInv
<1>11. completed' = Cardinality(Counted(after))
  BY <1>2, <1>3, <1>5, <1>6, <1>7, <1>8, <1>10
<1>12. N * Steps \in Nat
  BY <1>1
<1>13. completed' \in 0..N * Steps /\ completed' >= completed
  <2>1. completed' \in Nat /\ completed' <= N * Steps
    BY <1>1, <1>8, <1>11, <1>12
  <2>2. completed \in Nat /\ unitSteps[u] \in Nat /\ next \in Nat
    BY <1>4, <1>8, <1>10
  <2>3. completed' >= completed
    BY <1>2, <2>2
  <2> QED
    BY <1>12, <2>1, <2>3
<1> QED
  BY <1>3, <1>6, <1>11, <1>13

\* Details never fill a slice.
LEMMA UpdateStep ==
  ASSUME TypeOK, ProgressInv, NEW u \in Units, NEW steps \in 0..Steps, Update(u, steps)
  PROVE  /\ unitSteps' \in [Units -> 0..Steps]
         /\ \A v \in Units : unitSteps'[v] = Steps => unitSteps[v] = Steps
         /\ completed' = Cardinality(Counted(unitSteps')) /\ completed' \in 0..N * Steps
         /\ completed' >= completed
<1>1. Steps \in Nat /\ Steps >= 1 /\ unitSteps[u] \in 0..Steps
  BY UnitsFacts DEF TypeOK
<1>2. PICK next : next = Slice(u, steps)
  OBVIOUS
<1>3. next \in 0..Steps /\ next >= unitSteps[u] /\ (next = Steps => unitSteps[u] = Steps)
  BY <1>1, <1>2 DEF Slice, Higher, Lower
<1>4. SetSlice(u, next)
  BY <1>2 DEF Update
<1> QED
  BY <1>3, <1>4, SliceStep

LEMMA FinishSlice ==
  ASSUME TypeOK, ProgressInv, NEW u \in Units, Finish(u)
  PROVE  /\ unitSteps' \in [Units -> 0..Steps] /\ unitSteps'[u] = Steps
         /\ \A v \in Units : v # u => unitSteps'[v] = unitSteps[v]
         /\ completed' = Cardinality(Counted(unitSteps')) /\ completed' \in 0..N * Steps
         /\ completed' >= completed
<1>1. Steps \in Nat /\ Steps \in 0..Steps /\ unitSteps[u] \in 0..Steps
  BY UnitsFacts DEF TypeOK
<1> QED
  BY <1>1, SliceStep DEF Finish
-----------------------------------------------------------------------------
(***************************************************************************)
(* The calling thread with workers                                         *)
(***************************************************************************)
\* While it receives it has collected nothing.
LEMMA ReceiveParts ==
  ASSUME IInv, Receive, NEW m, m = Head(channel)
  PROVE  /\ OuterWorkersActive /\ outputs = <<>> /\ m \in Message /\ m.unit \in Units
         /\ channel # <<>> /\ channel' = Tail(channel)
         /\ UNCHANGED <<setup, cancelled, workers, result>>
         /\ \/ m.kind = "progress" /\ Update(m.unit, m.steps) /\ slots' = slots
            \/ /\ m.kind = "finished" /\ slots' = [slots EXCEPT ![m.unit] = m.result]
               /\ IF m.result = "ok" THEN Finish(m.unit) ELSE Update(m.unit, 0)
<1>1. OuterWorkersActive /\ outputs = <<>>
  BY DEF Receive, IInv, OutputsInv
<1>2. m \in Message
  BY ReceiveFacts DEF Receive, IInv
<1>3. m.unit \in Units
  BY <1>2, MessageFields
<1> QED
  BY <1>1, <1>2, <1>3 DEF Receive

\* What receiving does to the channel, whatever the message.
LEMMA ReceiveChannel ==
  ASSUME IInv, Receive
  PROVE  /\ ChannelInv' /\ ShareInv'
         /\ \A w \in Threads : pc'[w] = "dead" => fate'[unit'[w]] = "panicked"
         /\ \A i \in 1..Len(channel') : channel'[i].kind = "finished" =>
              \/ channel'[i].result = fate'[channel'[i].unit]
              \/ channel'[i].result = "cancelled" /\ cancelled'
         /\ \A w \in Workers : Share(w)' = Share(w)
         /\ OuterWorkersActive'
<1>1. /\ OuterWorkersActive /\ channel # <<>> /\ channel' = Tail(channel)
      /\ UNCHANGED <<setup, cancelled, workers, result>>
  BY ReceiveParts
<1>2. OuterWorkersActive' = OuterWorkersActive /\ \A v : Share(v)' = Share(v)
  BY <1>1, SharesStay
<1>3. ShareInv'
  BY <1>1, <1>2 DEF IInv, ShareInv, workers
<1>4. /\ ChannelInv' /\ Len(channel) \in Nat /\ Len(channel') = Len(channel) - 1
      /\ \A i \in 1..Len(channel') : channel'[i] = channel[i + 1]
  BY <1>1, ReceiveFacts DEF IInv
<1>5. ASSUME NEW i \in 1..Len(channel'), channel'[i].kind = "finished"
      PROVE  \/ channel'[i].result = fate'[channel'[i].unit]
             \/ channel'[i].result = "cancelled" /\ cancelled'
  <2>1. i + 1 \in 1..Len(channel) /\ channel'[i] = channel[i + 1]
    BY <1>4
  <2> QED
    BY <1>1, <1>5, <2>1 DEF IInv, FateInv, Honest, setup
<1>6. \A w \in Threads : pc'[w] = "dead" => fate'[unit'[w]] = "panicked"
  BY <1>1 DEF IInv, FateInv, setup, workers
<1> QED
  BY <1>1, <1>2, <1>3, <1>4, <1>5, <1>6

\* A progress message fills the slice of its unit.
LEMMA ReceiveProgress ==
  ASSUME IInv, Receive, NEW m, m = Head(channel), m.kind = "progress"
  PROVE  IInv' /\ completed' >= completed
<1> USE DEF IInv
<1>1. /\ OuterWorkersActive /\ outputs = <<>> /\ m \in Message /\ m.unit \in Units
      /\ channel # <<>> /\ channel' = Tail(channel)
      /\ UNCHANGED <<setup, cancelled, workers, result>>
      /\ Update(m.unit, m.steps) /\ slots' = slots
  BY ReceiveParts
<1>2. m.steps \in 0..Steps
  BY <1>1, MessageFields, UnitsFacts
<1>3. /\ unitSteps' \in [Units -> 0..Steps]
      /\ \A v \in Units : unitSteps'[v] = Steps => unitSteps[v] = Steps
      /\ completed' = Cardinality(Counted(unitSteps')) /\ completed' \in 0..N * Steps
      /\ completed' >= completed
  BY <1>1, <1>2, UpdateStep
<1>4. TypeOK'
  BY <1>1, <1>3 DEF TypeOK, setup, workers, result
<1>5. \A u : /\ \A i \in Sent(u)' : i + 1 \in Sent(u)
             /\ \A i \in Sent(u) : i - 1 \in Sent(u)'
  BY <1>1, ReceiveSent
<1>6. \A u : \A i \in Sent(u)' : i \in Nat
  BY ReceiveChannel DEF Sent, ChannelInv
<1>7. OnceInv'
  BY <1>1, <1>5, <1>6 DEF OnceInv, workers
<1>8. CoverInv'
  BY <1>1, <1>5, ReceiveChannel DEF CoverInv, workers
<1>9. FateInv'
  <2>1. \A u \in Units : slots'[u] # Pending =>
          slots'[u] = fate'[u] \/ (slots'[u] = "cancelled" /\ cancelled')
    BY <1>1 DEF FateInv, Honest, setup
  <2> QED
    BY <2>1, ReceiveChannel DEF FateInv, Honest
<1>10. OutputsInv' /\ AloneInv'
  BY <1>1, ReceiveChannel DEF OutputsInv, AloneInv, result
<1>11. ProgressInv'
  BY <1>1, <1>3 DEF ProgressInv, Succeeded, result
<1> QED
  BY <1>3, <1>4, <1>7, <1>8, <1>9, <1>10, <1>11, ReceiveChannel

\* A finished message takes the one result of its unit from the channel.
LEMMA ReceiveFinished ==
  ASSUME IInv, Receive, NEW m, m = Head(channel), m.kind = "finished"
  PROVE  IInv' /\ completed' >= completed
<1> USE DEF IInv
<1>1. /\ OuterWorkersActive /\ outputs = <<>> /\ m \in Message /\ m.unit \in Units
      /\ channel # <<>> /\ channel' = Tail(channel)
      /\ UNCHANGED <<setup, cancelled, workers, result>>
      /\ slots' = [slots EXCEPT ![m.unit] = m.result]
      /\ IF m.result = "ok" THEN Finish(m.unit) ELSE Update(m.unit, 0)
  BY ReceiveParts
<1>2. PICK u0 \in Units : u0 = m.unit
  BY <1>1
<1>3. m.result \in Result /\ m.result # Pending
  <2>1. m.result \in Result
    BY <1>1, MessageFields
  <2> QED
    BY <2>1 DEF Result, Pending
<1>4. slots'[u0] = m.result /\ \A u \in Units : u # u0 => slots'[u] = slots[u]
  BY <1>1, <1>2 DEF TypeOK
<1>5. \A u : /\ \A i \in Sent(u)' : i + 1 \in Sent(u)
             /\ \A i \in Sent(u) : i = 1 \/ i - 1 \in Sent(u)'
             /\ 1 \in Sent(u) <=> u = u0
  BY <1>1, <1>2, ReceiveSent
<1>6. \A u : \A i \in Sent(u)' : i \in Nat /\ i >= 1
  BY ReceiveChannel DEF Sent, ChannelInv
<1>7. /\ slots[u0] = Pending /\ Sent(u0)' = {}
      /\ \A w \in Threads : u0 \notin todo[w] /\ unit[w] # u0
  <2>1. 1 \in Sent(u0)
    BY <1>5
  <2>2. slots[u0] = Pending /\ \A w \in Threads : u0 \notin todo[w] /\ unit[w] # u0
    BY <2>1 DEF OnceInv
  <2>3. \A i \in Sent(u0)' : i + 1 = 1
    BY <1>5, <2>1 DEF OnceInv
  <2>4. Sent(u0)' = {}
    BY <1>6, <2>3
  <2> QED
    BY <2>2, <2>4
<1>8. slots' \in [Units -> Result \cup {Pending}]
  BY <1>1, <1>3 DEF TypeOK
<1>9. /\ unitSteps' \in [Units -> 0..Steps]
      /\ \A v \in Units : unitSteps'[v] = Steps => unitSteps[v] = Steps \/ slots'[v] = "ok"
      /\ completed' = Cardinality(Counted(unitSteps')) /\ completed' \in 0..N * Steps
      /\ completed' >= completed
  <2>1. CASE m.result = "ok"
    BY <1>1, <1>2, <1>4, <2>1, FinishSlice
  <2>2. CASE m.result # "ok"
    <3>1. 0 \in 0..Steps
      BY UnitsFacts
    <3>2. Update(u0, 0)
      BY <1>1, <1>2, <2>2
    <3> QED
      BY <3>1, <3>2, UpdateStep
  <2> QED
    BY <2>1, <2>2
<1>10. TypeOK'
  BY <1>1, <1>8, <1>9 DEF TypeOK, setup, workers, result
<1>11. OnceInv'
  <2>1. ASSUME NEW u \in Units, u # u0
        PROVE  /\ \A w \in Threads :
                    /\ u \in todo'[w] => unit'[w] # u
                    /\ u \in todo'[w] \/ unit'[w] = u => Sent(u)' = {} /\ slots'[u] = Pending
               /\ \A i, j \in Sent(u)' : i = j /\ slots'[u] = Pending
    BY <1>1, <1>4, <1>5, <1>6, <2>1 DEF OnceInv, workers
  <2>2. /\ \A w \in Threads :
             /\ u0 \in todo'[w] => unit'[w] # u0
             /\ u0 \in todo'[w] \/ unit'[w] = u0 => Sent(u0)' = {} /\ slots'[u0] = Pending
        /\ \A i, j \in Sent(u0)' : i = j /\ slots'[u0] = Pending
    BY <1>1, <1>7 DEF workers
  <2> QED
    BY <2>1, <2>2 DEF OnceInv
<1>12. CoverInv'
  <2>1. ASSUME NEW w \in Workers, NEW u \in Share(w)
        PROVE  u \in todo'[w] \/ unit'[w] = u \/ Sent(u)' # {} \/ slots'[u] # Pending
    <3>1. u \in todo[w] \/ unit[w] = u \/ Sent(u) # {} \/ slots[u] # Pending
      BY DEF CoverInv
    <3>2. u \in Units
      BY AnalysisAssumption DEF Share, Dealt, IndependentUnits
    <3>3. CASE u = u0
      BY <1>3, <1>4, <3>3
    <3>4. CASE u # u0
      BY <1>1, <1>4, <1>5, <3>1, <3>2, <3>4 DEF workers
    <3> QED
      BY <3>3, <3>4
  <2> QED
    BY <2>1, ReceiveChannel DEF CoverInv
<1>13. FateInv'
  <2>1. Honest(u0, m.result)
    <3>1. 1 \in 1..Len(channel) /\ channel[1] = m
      BY <1>1, ReceiveFacts
    <3> QED
      BY <1>2, <3>1 DEF FateInv
  <2>2. \A u \in Units : slots'[u] # Pending =>
          slots'[u] = fate'[u] \/ (slots'[u] = "cancelled" /\ cancelled')
    BY <1>1, <1>4, <2>1 DEF FateInv, Honest, setup
  <2> QED
    BY <2>2, ReceiveChannel DEF FateInv, Honest
<1>14. OutputsInv' /\ AloneInv'
  BY <1>1, ReceiveChannel DEF OutputsInv, AloneInv, result
<1>15. ProgressInv'
  <2>1. ASSUME NEW v \in Units, unitSteps'[v] = Steps
        PROVE  slots'[v] = "ok"
    <3>1. unitSteps[v] = Steps => slots[v] = "ok"
      BY <1>1 DEF ProgressInv, Succeeded
    <3>2. CASE v = u0
      BY <1>7, <1>9, <2>1, <3>1, <3>2 DEF Pending
    <3>3. CASE v # u0
      BY <1>4, <1>9, <2>1, <3>1, <3>3
    <3> QED
      BY <3>2, <3>3
  <2> QED
    BY <1>9, <2>1 DEF ProgressInv, Succeeded
<1> QED
  BY <1>9, <1>10, <1>11, <1>12, <1>13, <1>14, <1>15, ReceiveChannel

LEMMA ReceiveStep ==
  ASSUME IInv, Receive
  PROVE  IInv' /\ completed' >= completed
<1>1. PICK m : m = Head(channel)
  OBVIOUS
<1>2. m.kind = "progress" \/ m.kind = "finished"
  BY <1>1, ReceiveParts
<1> QED
  BY <1>1, <1>2, ReceiveProgress, ReceiveFinished
\* A step that leaves the threads and the messages alone keeps their parts of
\* the invariant; the token only ever turns to cancelled.
LEMMA CallerFrame ==
  ASSUME IInv, UNCHANGED <<setup, workers, channel, slots>>, cancelled => cancelled'
  PROVE  /\ ChannelInv' /\ ShareInv' /\ OnceInv' /\ CoverInv' /\ FateInv'
         /\ OuterWorkersActive' = OuterWorkersActive
<1> USE DEF IInv
<1>1. OuterWorkersActive' = OuterWorkersActive /\ \A v : Share(v)' = Share(v)
  BY SharesStay
<1>2. \A u : Sent(u)' = Sent(u)
  BY DEF Sent
<1>3. ChannelInv' /\ ShareInv' /\ OnceInv' /\ CoverInv'
  BY <1>1, <1>2 DEF ChannelInv, ShareInv, OnceInv, CoverInv, workers
<1>4. FateInv'
  BY DEF FateInv, Honest, setup, workers
<1> QED
  BY <1>1, <1>3, <1>4

\* The panic of a worker reaches the caller.
LEMMA RecvFailsStep ==
  ASSUME IInv, RecvFails
  PROVE  IInv'
<1> USE DEF IInv
<1>1. /\ OuterWorkersActive
      /\ outcome' # Running /\ UNCHANGED <<setup, cancelled, workers, channel, slots, tracker, outputs>>
  BY DEF RecvFails, Ended, Running, Sequential!Ended, Sequential!Running
<1>2. /\ ChannelInv' /\ ShareInv' /\ OnceInv' /\ CoverInv' /\ FateInv' /\ OuterWorkersActive'
  BY <1>1, CallerFrame
<1>3. TypeOK'
  BY <1>1 DEF TypeOK, setup, workers, tracker
<1>4. OutputsInv' /\ AloneInv' /\ ProgressInv'
  BY <1>1, <1>2 DEF OutputsInv, AloneInv, ProgressInv, Succeeded, AllFinished, tracker
<1> QED
  BY <1>2, <1>3, <1>4

\* An output joins the others behind the last one.
LEMMA OutputStep ==
  ASSUME OutputsInv, NEW k, k = Len(outputs) + 1, k <= N, outputs' = Append(outputs, k)
  PROVE  /\ outputs' \in Seq(Units) /\ Len(outputs') = k /\ \A i \in 1..Len(outputs') : outputs'[i] = i
         /\ k \in Units /\ \A u : (\E i \in 1..Len(outputs) : outputs[i] = u) =>
                                  \E i \in 1..Len(outputs') : outputs'[i] = u
<1>1. outputs \in Seq(Units) /\ Len(outputs) \in Nat /\ N \in Nat
  BY UnitsFacts DEF OutputsInv
<1>2. k \in Units
  BY <1>1 DEF Units
<1>3. /\ outputs' \in Seq(Units) /\ Len(outputs') = k /\ outputs'[k] = k
      /\ \A i \in 1..Len(outputs) : outputs'[i] = outputs[i]
  BY <1>1, <1>2
<1>4. \A i \in 1..Len(outputs') : outputs'[i] = i
  BY <1>1, <1>3 DEF OutputsInv
<1>5. \A i \in 1..Len(outputs) : i \in 1..Len(outputs')
  BY <1>1, <1>3
<1> QED
  BY <1>2, <1>3, <1>4, <1>5

LEMMA CollectStep ==
  ASSUME IInv, Collect
  PROVE  IInv'
<1> USE DEF IInv
<1>1. /\ OuterWorkersActive /\ AllFinished /\ Len(outputs) < N
      /\ Collected(Len(outputs) + 1)
      /\ UNCHANGED <<setup, cancelled, workers, channel, slots, tracker>>
  BY DEF Collect
<1>2. /\ ChannelInv' /\ ShareInv' /\ OnceInv' /\ CoverInv' /\ FateInv' /\ OuterWorkersActive'
  BY <1>1, CallerFrame
<1>3. PICK k : k = Len(outputs) + 1
  OBVIOUS
<1>4. k <= N
  BY <1>1, <1>3, UnitsFacts DEF OutputsInv
<1>5. outputs' = Append(outputs, k) \/ outputs' = outputs
  BY <1>1, <1>3 DEF Collected
<1>6. /\ outputs' \in Seq(Units) /\ Len(outputs') <= N /\ \A i \in 1..Len(outputs') : outputs'[i] = i
      /\ \A u : (\E i \in 1..Len(outputs) : outputs[i] = u) =>
                \E i \in 1..Len(outputs') : outputs'[i] = u
  <2>1. CASE outputs' = Append(outputs, k)
    BY <1>3, <1>4, <2>1, OutputStep
  <2>2. CASE outputs' = outputs
    BY <2>2 DEF OutputsInv
  <2> QED
    BY <1>5, <2>1, <2>2
<1>7. TypeOK'
  BY <1>1, <1>6 DEF TypeOK, setup, workers, tracker
<1>8. OutputsInv' /\ AloneInv'
  BY <1>1, <1>2, <1>6 DEF OutputsInv, AloneInv, AllFinished
<1>9. ProgressInv'
  BY <1>1, <1>6 DEF ProgressInv, Succeeded, tracker
<1> QED
  BY <1>2, <1>7, <1>8, <1>9

LEMMA ReturnStep ==
  ASSUME IInv, Return
  PROVE  IInv'
<1> USE DEF IInv
<1>1. outcome' # Running /\ UNCHANGED <<setup, cancelled, workers, channel, slots, tracker, outputs>>
  BY DEF Return, Ended, Running, Sequential!Ended, Sequential!Running
<1>2. /\ ChannelInv' /\ ShareInv' /\ OnceInv' /\ CoverInv' /\ FateInv'
      /\ OuterWorkersActive' = OuterWorkersActive
  BY <1>1, CallerFrame
<1>3. TypeOK'
  BY <1>1 DEF TypeOK, setup, workers, tracker
<1>4. OutputsInv' /\ AloneInv' /\ ProgressInv'
  BY <1>1, <1>2 DEF OutputsInv, AloneInv, ProgressInv, Succeeded, AllFinished, tracker
<1> QED
  BY <1>2, <1>3, <1>4

\* A cancellation makes no result dishonest.
LEMMA CancelStep ==
  ASSUME IInv, Cancel
  PROVE  IInv'
<1> USE DEF IInv
<1>1. cancelled' = TRUE /\ UNCHANGED <<setup, workers, channel, slots, tracker, result>>
  BY DEF Cancel
<1>2. /\ ChannelInv' /\ ShareInv' /\ OnceInv' /\ CoverInv' /\ FateInv'
      /\ OuterWorkersActive' = OuterWorkersActive
  BY <1>1, CallerFrame
<1>3. TypeOK'
  BY <1>1 DEF TypeOK, setup, workers, tracker, result
<1>4. OutputsInv' /\ AloneInv' /\ ProgressInv'
  BY <1>1, <1>2 DEF OutputsInv, AloneInv, ProgressInv, Succeeded, AllFinished, tracker, result, workers
<1> QED
  BY <1>2, <1>3, <1>4

LEMMA StutterStep ==
  ASSUME IInv, UNCHANGED vars
  PROVE  IInv'
<1> USE DEF IInv
<1>1. UNCHANGED <<setup, cancelled, workers, channel, slots, tracker, result>>
  BY DEF vars
<1>2. /\ ChannelInv' /\ ShareInv' /\ OnceInv' /\ CoverInv' /\ FateInv'
      /\ OuterWorkersActive' = OuterWorkersActive
  BY <1>1, CallerFrame
<1>3. TypeOK'
  BY <1>1 DEF TypeOK, setup, workers, tracker, result
<1>4. OutputsInv' /\ AloneInv' /\ ProgressInv'
  BY <1>1, <1>2 DEF OutputsInv, AloneInv, ProgressInv, Succeeded, AllFinished, tracker, result, workers
<1> QED
  BY <1>2, <1>3, <1>4
-----------------------------------------------------------------------------
(***************************************************************************)
(* The calling thread alone                                                *)
(***************************************************************************)
\* Nobody else has anything to do, and nothing is on its way.
LEMMA AloneFacts ==
  ASSUME IInv, ~OuterWorkersActive
  PROVE  /\ Main \in Threads /\ Main \notin Workers
         /\ \A w \in Workers : Share(w) = {} /\ todo[w] = {} /\ pc[w] = Idle /\ unit[w] = 0
         /\ Share(Main) = Units /\ channel = <<>> /\ \A u : Sent(u) = {}
         /\ \A u \in Units : slots[u] = Pending
<1> USE DEF IInv
<1>1. Main \in Threads /\ Main \notin Workers
  BY DEF Threads, Workers, DatabaseWorkers, IndependentWorkers, Main
<1>2. Share(Main) = Units /\ \A w \in Workers : Share(w) = {} /\ w \in Threads
  BY <1>1 DEF Share, Threads
<1>3. \A w \in Workers : todo[w] = {} /\ pc[w] = Idle /\ unit[w] = 0
  BY <1>2 DEF ShareInv
<1>4. channel = <<>> /\ \A u \in Units : slots[u] = Pending
  BY DEF AloneInv
<1>5. \A u : Sent(u) = {}
  BY <1>4 DEF Sent
<1> QED
  BY <1>1, <1>2, <1>3, <1>4, <1>5

\* What a step of the thread alone must establish of its own state.
LEMMA AloneFrame ==
  ASSUME IInv, ~OuterWorkersActive, UNCHANGED <<setup, cancelled, channel, slots>>,
         \A w \in Workers : todo'[w] = todo[w] /\ unit'[w] = unit[w] /\ pc'[w] = pc[w],
         todo'[Main] \subseteq Units,
         pc'[Main] = Idle => unit'[Main] = 0,
         pc'[Main] # Idle => unit'[Main] \in Units /\ unit'[Main] \notin todo'[Main],
         pc'[Main] = "dead" => fate[unit'[Main]] = "panicked"
  PROVE  /\ ChannelInv' /\ ShareInv' /\ OnceInv' /\ CoverInv' /\ FateInv'
         /\ ~OuterWorkersActive' /\ channel' = <<>> /\ \A u \in Units : slots'[u] = Pending
<1> USE DEF IInv
<1>1. /\ Main \in Threads /\ Main \notin Workers
      /\ \A w \in Workers : Share(w) = {} /\ todo[w] = {} /\ pc[w] = Idle /\ unit[w] = 0
      /\ Share(Main) = Units /\ channel = <<>> /\ \A u : Sent(u) = {}
      /\ \A u \in Units : slots[u] = Pending
  BY AloneFacts
<1>2. OuterWorkersActive' = OuterWorkersActive /\ \A v : Share(v)' = Share(v)
  BY SharesStay
<1>3. \A u : Sent(u)' = {}
  <2>1. \A u : Sent(u)' = Sent(u)
    BY DEF Sent
  <2> QED
    BY <1>1, <2>1
<1>4. /\ \A w \in Workers : todo'[w] = {} /\ pc'[w] = Idle /\ unit'[w] = 0
      /\ \A u \in Units : slots'[u] = Pending
  BY <1>1
<1>5. 0 \notin Units
  BY DEF Units
<1>6. ShareInv'
  <2>1. \A w \in Threads : /\ todo'[w] \subseteq Share(w)
                           /\ pc'[w] = Idle => unit'[w] = 0
                           /\ pc'[w] # Idle => unit'[w] \in Share(w)
    BY <1>1, <1>4 DEF Threads
  <2> QED
    BY <1>2, <2>1 DEF ShareInv
<1>7. OnceInv'
  <2>1. \A u \in Units : \A w \in Threads : u \in todo'[w] => unit'[w] # u
    BY <1>4, <1>5 DEF Threads
  <2> QED
    BY <1>3, <1>4, <2>1 DEF OnceInv
<1>8. CoverInv'
  BY <1>1, <1>2 DEF CoverInv
<1>9. FateInv'
  <2>1. \A w \in Threads : pc'[w] = "dead" => fate'[unit'[w]] = "panicked"
    BY <1>4 DEF Threads, setup, Idle
  <2>2. Len(channel') = 0
    BY <1>1
  <2> QED
    BY <1>4, <2>1, <2>2 DEF FateInv
<1>10. ChannelInv'
  BY DEF ChannelInv
<1> QED
  BY <1>1, <1>2, <1>4, <1>6, <1>7, <1>8, <1>9, <1>10

\* A step of the thread alone, in its parts.
LEMMA AloneParts ==
  ASSUME IInv, Alone
  PROVE  /\ ~OuterWorkersActive /\ outcome = Running
         /\ UNCHANGED <<setup, cancelled, channel, slots>>
         /\ outputs \in Seq(Units) /\ Len(outputs) \in Nat /\ Len(outputs) <= N /\ N \in Nat
         /\ \A i \in 1..Len(outputs) : outputs[i] = i
         /\ \/ pc[Main] = Idle /\ todo[Main] = (Len(outputs) + 1)..N
            \/ /\ pc[Main] \in {"analysing", "reported"}
               /\ unit[Main] = Len(outputs) + 1
               /\ todo[Main] = (Len(outputs) + 2)..N
BY UnitsFacts DEF Alone, IInv, AloneInv, OutputsInv

LEMMA AloneBeginsStep ==
  ASSUME IInv, Alone, pc[Main] = Idle, todo[Main] # {}, AloneBegins
  PROVE  IInv' /\ tracker' = tracker /\ outputs' = outputs
<1> USE DEF IInv
<1> DEFINE k == Len(outputs)
<1>1. /\ ~OuterWorkersActive /\ outcome = Running /\ UNCHANGED <<setup, cancelled, channel, slots>>
      /\ k \in Nat /\ N \in Nat /\ todo[Main] = (k + 1)..N
  BY AloneParts DEF Idle
<1>2. Least(todo[Main]) = k + 1 /\ k + 1 \in Units
  <2>1. todo[Main] \in SUBSET Nat
    BY <1>1
  <2>2. Least(todo[Main]) \in todo[Main] /\ \A y \in todo[Main] : Least(todo[Main]) <= y
    BY <2>1, LeastOf
  <2>3. k + 1 \in todo[Main]
    BY <1>1
  <2> HIDE DEF k
  <2> QED
    BY <1>1, <2>2, <2>3 DEF Units
<1> HIDE DEF k
<1>3. CASE cancelled
  <2>1. outcome' # Running /\ UNCHANGED <<workers, tracker, outputs>>
    BY <1>3 DEF AloneBegins, Ended, Running, Sequential!Ended, Sequential!Running
  <2>2. /\ ChannelInv' /\ ShareInv' /\ OnceInv' /\ CoverInv' /\ FateInv'
        /\ OuterWorkersActive' = OuterWorkersActive
    BY <1>1, <2>1, CallerFrame
  <2>3. TypeOK'
    BY <1>1, <2>1 DEF TypeOK, setup, workers, tracker
  <2>4. OutputsInv' /\ AloneInv' /\ ProgressInv'
    BY <1>1, <2>1, <2>2 DEF OutputsInv, AloneInv, ProgressInv, Succeeded, AllFinished, tracker
  <2> QED
    BY <2>1, <2>2, <2>3, <2>4
<1>4. CASE ~cancelled
  <2>1. /\ UNCHANGED <<tracker, result>>
        /\ unit' = [unit EXCEPT ![Main] = k + 1]
        /\ todo' = [todo EXCEPT ![Main] = todo[Main] \ {k + 1}]
        /\ pc' = [pc EXCEPT ![Main] = "analysing"]
    BY <1>2, <1>4 DEF AloneBegins, Begin
  <2>2. /\ unit'[Main] = k + 1 /\ todo'[Main] = todo[Main] \ {k + 1} /\ pc'[Main] = "analysing"
        /\ \A w \in Workers : todo'[w] = todo[w] /\ unit'[w] = unit[w] /\ pc'[w] = pc[w]
    BY <1>1, <2>1, AloneFacts DEF TypeOK
  <2>3. todo'[Main] = (k + 2)..N
    BY <1>1, <2>2
  <2>4. todo'[Main] \subseteq Units /\ k + 1 \notin todo'[Main]
    BY <1>1, <2>2, <2>3 DEF Units
  <2>5. /\ ChannelInv' /\ ShareInv' /\ OnceInv' /\ CoverInv' /\ FateInv'
        /\ ~OuterWorkersActive' /\ channel' = <<>> /\ \A u \in Units : slots'[u] = Pending
    BY <1>1, <1>2, <2>2, <2>4, AloneFrame DEF Idle
  <2>6. TypeOK'
    BY <1>1, <1>2, <2>1, <2>4 DEF TypeOK, setup, tracker, result, Units
  <2>7. AloneInv'
    BY <2>1, <2>2, <2>3, <2>5 DEF AloneInv, result, k
  <2>8. OutputsInv' /\ ProgressInv'
    BY <1>1, <2>1, <2>5 DEF OutputsInv, ProgressInv, Succeeded, tracker, result
  <2> QED
    BY <2>1, <2>5, <2>6, <2>7, <2>8 DEF result
<1> QED
  BY <1>3, <1>4

LEMMA AloneReportsStep ==
  ASSUME IInv, Alone, AloneReports
  PROVE  IInv' /\ completed' >= completed /\ outputs' = outputs
<1> USE DEF IInv
<1>1. /\ ~OuterWorkersActive /\ outcome = Running /\ UNCHANGED <<setup, cancelled, channel, slots>>
      /\ outputs \in Seq(Units) /\ Len(outputs) \in Nat /\ Len(outputs) <= N /\ N \in Nat
      /\ \A i \in 1..Len(outputs) : outputs[i] = i
  BY AloneParts
<1>2. pc[Main] = "analysing" /\ pc' = [pc EXCEPT ![Main] = "reported"] /\ UNCHANGED <<todo, unit, result>>
  BY DEF AloneReports, Report
<1>3. unit[Main] \in Units /\ unit[Main] \notin todo[Main] /\ todo[Main] \subseteq Units /\ Main \in Threads
  <2>1. Main \in Threads
    BY AloneFacts, <1>1
  <2> QED
    BY <1>2, <2>1, UnitType DEF OnceInv, Idle
<1>4. /\ unitSteps' \in [Units -> 0..Steps]
      /\ \A v \in Units : unitSteps'[v] = Steps => unitSteps[v] = Steps
      /\ completed' = Cardinality(Counted(unitSteps')) /\ completed' \in 0..N * Steps
      /\ completed' >= completed
  <2>1. PICK steps \in 1..Steps : Update(unit[Main], steps)
    BY DEF AloneReports
  <2>2. steps \in 0..Steps
    BY UnitsFacts
  <2> QED
    BY <1>3, <2>1, <2>2, UpdateStep
<1>5. /\ pc'[Main] = "reported" /\ \A w \in Workers : pc'[w] = pc[w]
      /\ todo' = todo /\ unit' = unit
  BY <1>1, <1>2, AloneFacts DEF TypeOK
<1>6. /\ ChannelInv' /\ ShareInv' /\ OnceInv' /\ CoverInv' /\ FateInv'
      /\ ~OuterWorkersActive' /\ channel' = <<>> /\ \A u \in Units : slots'[u] = Pending
  BY <1>1, <1>3, <1>5, AloneFrame DEF Idle
<1>7. TypeOK'
  BY <1>1, <1>2, <1>4 DEF TypeOK, setup, result
<1>8. AloneInv'
  BY <1>1, <1>2, <1>5, <1>6 DEF AloneInv, result, Idle
<1>9. OutputsInv' /\ ProgressInv'
  BY <1>1, <1>2, <1>4, <1>6 DEF OutputsInv, ProgressInv, Succeeded, result
<1> QED
  BY <1>2, <1>4, <1>6, <1>7, <1>8, <1>9 DEF result

\* A unit analysed by the thread alone is the one after the last output.
LEMMA AloneFinishesStep ==
  ASSUME IInv, Alone, AloneFinishes
  PROVE  IInv' /\ completed' >= completed
<1> USE DEF IInv
<1>1. /\ ~OuterWorkersActive /\ outcome = Running /\ UNCHANGED <<setup, cancelled, channel, slots>>
      /\ outputs \in Seq(Units) /\ Len(outputs) \in Nat /\ Len(outputs) <= N /\ N \in Nat
      /\ \A i \in 1..Len(outputs) : outputs[i] = i
  BY AloneParts
<1>2. PICK r \in Result :
        /\ EndWith(Main, r)
        /\ IF r = "ok"
           THEN /\ Finish(unit[Main]) /\ outputs' = Append(outputs, unit[Main]) /\ UNCHANGED outcome
           ELSE outcome' = Ended(r, unit[Main]) /\ UNCHANGED <<tracker, outputs>>
  BY DEF AloneFinishes
<1>3. pc[Main] # Idle /\ pc' = [pc EXCEPT ![Main] = Idle] /\ unit' = [unit EXCEPT ![Main] = 0] /\ todo' = todo
  BY <1>2 DEF EndWith, Idle
<1>4. Main \in Threads /\ \A w \in Workers : w # Main
  BY <1>1, AloneFacts
<1>5. PICK k : k = Len(outputs) + 1
  OBVIOUS
<1>6. unit[Main] = k /\ todo[Main] = (k + 1)..N /\ k \in Units /\ todo[Main] \subseteq Units
  <2>1. unit[Main] \in Units /\ todo[Main] \subseteq Units
    BY <1>3, <1>4, UnitType
  <2> QED
    BY <1>1, <1>3, <1>5, <2>1, AloneParts
<1>7. /\ pc'[Main] = Idle /\ unit'[Main] = 0
      /\ \A w \in Workers : todo'[w] = todo[w] /\ unit'[w] = unit[w] /\ pc'[w] = pc[w]
  BY <1>3, <1>4 DEF TypeOK, Threads
<1>8. /\ ChannelInv' /\ ShareInv' /\ OnceInv' /\ CoverInv' /\ FateInv'
      /\ ~OuterWorkersActive' /\ channel' = <<>> /\ \A u \in Units : slots'[u] = Pending
  <2>1. todo'[Main] \subseteq Units /\ pc'[Main] # "dead"
    BY <1>3, <1>6, <1>7 DEF Idle
  <2> QED
    BY <1>1, <1>7, <2>1, AloneFrame
<1>9. unit' \in [Threads -> 0..N] /\ pc' \in [Threads -> {Idle, "analysing", "reported", "refused", "dead"}]
  BY <1>1, <1>3 DEF TypeOK, Threads
<1>10. CASE r = "ok"
  <2>1. Finish(k) /\ outputs' = Append(outputs, k) /\ outcome' = outcome
    BY <1>2, <1>6, <1>10
  <2>2. k <= N
    BY <1>1, <1>6 DEF Units
  <2>3. /\ outputs' \in Seq(Units) /\ Len(outputs') = k /\ \A i \in 1..Len(outputs') : outputs'[i] = i
        /\ \A u : (\E i \in 1..Len(outputs) : outputs[i] = u) => \E i \in 1..Len(outputs') : outputs'[i] = u
    BY <1>5, <2>1, <2>2, OutputStep
  <2>4. /\ unitSteps' \in [Units -> 0..Steps] /\ unitSteps'[k] = Steps
        /\ \A v \in Units : v # k => unitSteps'[v] = unitSteps[v]
        /\ completed' = Cardinality(Counted(unitSteps')) /\ completed' \in 0..N * Steps
        /\ completed' >= completed
    BY <1>6, <2>1, FinishSlice
  <2>5. TypeOK'
    BY <1>1, <1>3, <1>9, <2>3, <2>4 DEF TypeOK, setup, Threads
  <2>6. AloneInv'
    BY <1>3, <1>6, <1>7, <1>8, <2>3 DEF AloneInv
  <2>7. \E i \in 1..Len(outputs') : outputs'[i] = k
    <3>1. k \in 1..Len(outputs') /\ outputs'[k] = k
      BY <1>1, <1>5, <2>3
    <3> QED
      BY <3>1
  <2>8. OutputsInv' /\ ProgressInv'
    BY <1>1, <1>8, <2>2, <2>3, <2>4, <2>7 DEF OutputsInv, ProgressInv, Succeeded
  <2> QED
    BY <1>8, <2>4, <2>5, <2>6, <2>8
<1>11. CASE r # "ok"
  <2>1. outcome' # Running /\ UNCHANGED <<tracker, outputs>>
    BY <1>2, <1>11 DEF Ended, Running, Sequential!Ended, Sequential!Running, Result
  <2>2. TypeOK'
    BY <1>1, <1>3, <1>9, <2>1 DEF TypeOK, setup, tracker, Threads
  <2>3. OutputsInv' /\ ProgressInv' /\ AloneInv'
    BY <1>1, <1>8, <2>1 DEF OutputsInv, ProgressInv, Succeeded, AloneInv, tracker
  <2>4. completed \in Nat
    BY UnitsFacts DEF TypeOK
  <2> QED
    BY <1>8, <2>1, <2>2, <2>3, <2>4 DEF tracker
<1> QED
  BY <1>10, <1>11

LEMMA AlonePanicsStep ==
  ASSUME IInv, Alone, AlonePanics
  PROVE  IInv' /\ tracker' = tracker
<1> USE DEF IInv
<1>1. /\ ~OuterWorkersActive /\ UNCHANGED <<setup, cancelled, channel, slots>>
  BY AloneParts
<1>2. /\ pc[Main] \in {"analysing", "reported"} /\ fate[unit[Main]] = "panicked"
      /\ pc' = [pc EXCEPT ![Main] = "dead"] /\ UNCHANGED <<todo, unit>>
      /\ outcome' # Running /\ UNCHANGED <<tracker, outputs>>
  BY DEF AlonePanics, Panic, Ended, Running, Sequential!Ended, Sequential!Running
<1>3. Main \in Threads /\ \A w \in Workers : w # Main
  BY <1>1, AloneFacts
<1>4. unit[Main] \in Units /\ unit[Main] \notin todo[Main] /\ todo[Main] \subseteq Units
  BY <1>2, <1>3, UnitType DEF OnceInv, Idle
<1>5. pc'[Main] = "dead" /\ \A w \in Workers : pc'[w] = pc[w]
  BY <1>2, <1>3 DEF TypeOK, Threads
<1>6. /\ ChannelInv' /\ ShareInv' /\ OnceInv' /\ CoverInv' /\ FateInv'
      /\ ~OuterWorkersActive' /\ channel' = <<>> /\ \A u \in Units : slots'[u] = Pending
  BY <1>1, <1>2, <1>4, <1>5, AloneFrame DEF Idle
<1>7. TypeOK'
  BY <1>1, <1>2 DEF TypeOK, setup, tracker
<1>8. OutputsInv'
  BY <1>2, <1>6 DEF OutputsInv
<1>9. ProgressInv'
  BY <1>1, <1>2 DEF ProgressInv, Succeeded, tracker
<1>10. AloneInv'
  BY <1>2, <1>6 DEF AloneInv
<1> QED
  BY <1>2, <1>6, <1>7, <1>8, <1>9, <1>10

LEMMA AloneStep ==
  ASSUME IInv, Alone
  PROVE  IInv' /\ completed' >= completed
<1>1. completed \in Nat
  BY UnitsFacts DEF IInv, TypeOK
<1>2. \/ pc[Main] = Idle /\ todo[Main] # {} /\ AloneBegins
      \/ AloneReports
      \/ AloneFinishes
      \/ AlonePanics
  BY DEF Alone
<1> QED
  BY <1>1, <1>2, AloneBeginsStep, AloneReportsStep, AloneFinishesStep, AlonePanicsStep DEF tracker
-----------------------------------------------------------------------------
(***************************************************************************)
(* The invariant                                                           *)
(***************************************************************************)
\* Nothing is done at first, and every unit waits in its share.
LEMMA InitIInv ==
  ASSUME Init
  PROVE  IInv
<1>1. /\ Units \in SUBSET Nat /\ 0 \notin Units /\ N \in Nat /\ Steps \in Nat /\ Steps >= 1
      /\ IsFiniteSet(Units)
  BY UnitsFacts DEF Units
<1>2. \A w : Share(w) \in SUBSET Units
  BY AnalysisAssumption DEF Share, Dealt, IndependentUnits
<1>3. /\ todo = [w \in Threads |-> Share(w)] /\ unit = [w \in Threads |-> 0]
      /\ pc = [w \in Threads |-> Idle] /\ channel = <<>> /\ slots = [u \in Units |-> Pending]
      /\ unitSteps = [u \in Units |-> 0] /\ completed = 0 /\ outputs = <<>> /\ outcome = Running
      /\ fate \in Fates /\ threads \in 1..MaxThreads /\ multithreaded \in BOOLEAN /\ cancelled = FALSE
  BY DEF Init, Threads
<1>4. \A w \in Threads : todo[w] = Share(w) /\ unit[w] = 0 /\ pc[w] = Idle
  BY <1>3
<1>5. TypeOK
  <2>1. fate \in [Units -> Sequential!Fate]
    BY <1>3, AnalysisAssumption DEF Sequential!Fate
  <2>2. todo \in [Threads -> SUBSET Units]
    BY <1>2, <1>3
  <2>3. completed \in 0..N * Steps
    BY <1>1, <1>3
  <2>4. unit \in [Threads -> 0..N] /\ unitSteps \in [Units -> 0..Steps]
    BY <1>1, <1>3
  <2>5. outputs \in Seq(Units) /\ slots \in [Units -> Result \cup {Pending}]
    BY <1>3
  <2> QED
    BY <1>3, <2>1, <2>2, <2>3, <2>4, <2>5 DEF TypeOK, Threads
<1>6. ChannelInv /\ ShareInv
  BY <1>3, <1>4 DEF ChannelInv, ShareInv
<1>7. \A u : Sent(u) = {}
  BY <1>3 DEF Sent
<1>8. OnceInv
  BY <1>1, <1>3, <1>4, <1>7 DEF OnceInv
<1>9. CoverInv
  BY <1>4 DEF CoverInv, Threads
<1>10. FateInv
  BY <1>3, <1>4 DEF FateInv, Idle
<1>11. OutputsInv
  BY <1>1, <1>3 DEF OutputsInv
<1>12. AloneInv
  <2>1. Main \in Threads
    BY DEF Threads
  <2>2. ~OuterWorkersActive => Share(Main) = Units
    BY DEF Share
  <2> QED
    BY <1>1, <1>3, <1>4, <2>1, <2>2 DEF AloneInv, Units
<1>13. ProgressInv
  <2>1. \A u \in Units : unitSteps[u] = 0
    BY <1>3
  <2>2. Cardinality(Counted(unitSteps)) = 0
    BY <2>1, CountedNone
  <2>3. \A u \in Units : unitSteps[u] # Steps
    BY <1>1, <2>1
  <2> QED
    BY <1>3, <2>2, <2>3 DEF ProgressInv
<1> QED
  BY <1>5, <1>6, <1>8, <1>9, <1>10, <1>11, <1>12, <1>13 DEF IInv

\* Every step keeps the invariant, and none takes progress back.
LEMMA NextKeepsIInv ==
  ASSUME IInv, [Next]_vars
  PROVE  IInv' /\ completed' >= completed
<1>1. completed \in Nat
  BY UnitsFacts DEF IInv, TypeOK
<1>2. CASE Cancel
  BY <1>1, <1>2, CancelStep DEF Cancel, tracker
<1>3. CASE Receive
  BY <1>3, ReceiveStep
<1>4. CASE RecvFails
  BY <1>1, <1>4, RecvFailsStep DEF RecvFails, tracker
<1>5. CASE Collect
  BY <1>1, <1>5, CollectStep DEF Collect, tracker
<1>6. CASE Alone
  BY <1>6, AloneStep
<1>7. CASE Return
  BY <1>1, <1>7, ReturnStep DEF Return, tracker
<1>8. ASSUME NEW w \in Workers, Worker(w)
      PROVE  IInv' /\ completed' >= completed
  <2>1. completed' = completed
    BY <1>8 DEF Worker, tracker
  <2>2. WorkerBegins(w) \/ WorkerReports(w) \/ WorkerFinishes(w) \/ WorkerPanics(w)
    BY <1>8 DEF Worker
  <2> QED
    BY <1>1, <1>8, <2>1, <2>2, BeginStep, ReportStep, FinishStep, PanicStep
<1>9. CASE UNCHANGED vars
  BY <1>1, <1>9, StutterStep DEF vars, tracker
<1> QED
  BY <1>2, <1>3, <1>4, <1>5, <1>6, <1>7, <1>8, <1>9 DEF Next, Caller

LEMMA Invariance == Spec => []IInv
<1>1. Init => IInv
  BY InitIInv
<1>2. IInv /\ [Next]_vars => IInv'
  BY NextKeepsIInv
<1> QED
  BY <1>1, <1>2, PTL DEF Spec
-----------------------------------------------------------------------------
\* What the threads share has the shape the caller expects, whatever the order
\* of their steps.
THEOREM TypeCorrect == Spec => []TypeOK
<1>1. IInv => TypeOK
  BY DEF IInv
<1> QED
  BY <1>1, Invariance, PTL

\* A full progress bar means that every unit has succeeded, and no update is
\* counted twice (AnalysisProgressTracker).
THEOREM ProgressTellsTheTruth == Spec => []ProgressIsHonest
<1>1. IInv => ProgressIsHonest
  <2> SUFFICES ASSUME IInv PROVE ProgressIsHonest
    OBVIOUS
  <2>1. IsFiniteSet(Units) /\ Cardinality(Units) = N /\ Steps \in Nat
    BY UnitsFacts
  <2>2. \A u \in Units : unitSteps[u] \in 0..Steps
    BY DEF IInv, TypeOK
  <2>3. Cardinality(Counted(unitSteps)) = N * Steps <=> \A u \in Units : unitSteps[u] = Steps
    BY <2>2, CountedFull
  <2> QED
    BY <2>3 DEF IInv, ProgressInv, Succeeded, ProgressIsHonest
<1> QED
  BY <1>1, Invariance, PTL

\* The progress bar never goes back (AnalysisProgressTracker::update).
THEOREM ProgressOnlyGrows == Spec => ProgressNeverFalls
<1>1. IInv /\ [Next]_vars => [completed' >= completed]_vars
  BY NextKeepsIInv
<1> QED
  BY <1>1, Invariance, PTL DEF Spec, ProgressNeverFalls
-----------------------------------------------------------------------------
(***************************************************************************)
(* The loop of one thread                                                  *)
(***************************************************************************)
\* An honest result of the unit after the last output is what the loop finds.
LEMMA NextUnitOfTheLoop ==
  ASSUME IInv, outcome = Running, NEW k, k = Len(outputs) + 1, k <= N, NEW r \in Result,
         Honest(k, r), UNCHANGED <<cancelled, fate>>,
         IF r = "ok" THEN outputs' = Append(outputs, k) /\ UNCHANGED outcome
                     ELSE outcome' = Ended(r, k) /\ UNCHANGED outputs
  PROVE  Sequential!Next
<1>1. Sequential!Current = k
  BY DEF Sequential!Current
<1>2. CASE r = "ok"
  BY <1>1, <1>2 DEF Sequential!Next, Sequential!Analysed, Honest, Running
<1>3. CASE r = "failed"
  BY <1>1, <1>3 DEF Sequential!Next, Sequential!Fails, Honest, Running, Ended
<1>4. CASE r = "cancelled"
  <2>1. k \in Units
    BY UnitsFacts DEF IInv, OutputsInv, Units
  <2>2. fate[k] # "cancelled"
    BY <2>1 DEF IInv, TypeOK, Sequential!Fate
  <2> QED
    BY <1>1, <1>4, <2>2 DEF Sequential!Next, Sequential!IsCancelled, Honest, Running, Ended
<1> QED
  BY <1>2, <1>3, <1>4 DEF Result

\* recv fails only when a unit of a dead thread is missing.
LEMMA SomeUnitPanicked ==
  ASSUME IInv, RecvFails
  PROVE  \E u \in Units : fate[u] = "panicked"
<1> USE DEF IInv
<1>1. OuterWorkersActive /\ ~AllFinished /\ channel = <<>> /\ AllStopped
  BY DEF RecvFails
<1>2. PICK u \in Units : slots[u] = Pending
  BY <1>1 DEF AllFinished
<1>3. PICK w \in Workers : u \in Share(w)
  BY <1>1, EveryUnitOwned
<1>4. Sent(u) = {}
  BY <1>1 DEF Sent
<1>5. u \in todo[w] \/ unit[w] = u
  BY <1>2, <1>3, <1>4 DEF CoverInv
<1>6. w \in Threads
  BY DEF Threads
<1>7. pc[w] = "dead"
  <2>1. Stopped(w)
    BY <1>1 DEF AllStopped
  <2>2. pc[w] = Idle => unit[w] \notin Units
    BY <1>6, UnitType
  <2> QED
    BY <1>5, <2>1, <2>2 DEF Stopped
<1>8. unit[w] \in Units /\ fate[unit[w]] = "panicked"
  BY <1>6, <1>7, UnitType DEF FateInv, Idle
<1> QED
  BY <1>8

LEMMA InitRefines == Init => Sequential!Init
<1>1. Init => fate \in [1..N -> Sequential!Fate]
  BY AnalysisAssumption DEF Init, Units, Sequential!Fate
<1> QED
  BY <1>1 DEF Init, Sequential!Init, Running

\* What the thread alone does to one unit is what the loop does.
LEMMA AloneRefines ==
  ASSUME IInv, Alone
  PROVE  Sequential!Next \/ UNCHANGED Sequential!vars
<1> USE DEF IInv
<1>1. /\ ~OuterWorkersActive /\ outcome = Running /\ UNCHANGED <<setup, cancelled, channel, slots>>
      /\ Len(outputs) \in Nat /\ N \in Nat
  BY AloneParts
<1>2. CASE pc[Main] = Idle /\ todo[Main] # {} /\ AloneBegins
  <2>1. CASE cancelled
    <3>1. todo[Main] = (Len(outputs) + 1)..N
      BY <1>2, AloneParts DEF Idle
    <3>2. PICK k : k = Len(outputs) + 1
      OBVIOUS
    <3>3. Least(todo[Main]) = k /\ k <= N
      <4>1. todo[Main] \in SUBSET Nat /\ todo[Main] # {} /\ todo[Main] = k..N /\ k \in Nat
        BY <1>1, <1>2, <3>1, <3>2
      <4>2. Least(todo[Main]) \in todo[Main] /\ \A y \in todo[Main] : Least(todo[Main]) <= y
        BY <4>1, LeastOf
      <4>3. k \in todo[Main]
        BY <1>1, <4>1
      <4> QED
        BY <1>1, <4>1, <4>2, <4>3
    <3>4. outcome' = Ended("cancelled", k) /\ UNCHANGED <<outputs, cancelled, fate>>
      BY <1>1, <1>2, <2>1, <3>3 DEF AloneBegins, setup
    <3> QED
      BY <1>1, <2>1, <3>2, <3>3, <3>4
         DEF Sequential!Next, Sequential!IsCancelled, Sequential!Current, Running, Ended
  <2>2. CASE ~cancelled
    BY <1>1, <1>2, <2>2 DEF AloneBegins, Sequential!vars, setup, result
  <2> QED
    BY <2>1, <2>2
<1>3. CASE AloneReports
  BY <1>1, <1>3 DEF AloneReports, Sequential!vars, setup, result
<1>4. CASE AloneFinishes
  <2>1. PICK r \in Result :
          /\ EndWith(Main, r)
          /\ IF r = "ok"
             THEN outputs' = Append(outputs, unit[Main]) /\ UNCHANGED outcome
             ELSE outcome' = Ended(r, unit[Main]) /\ UNCHANGED outputs
    BY <1>4 DEF AloneFinishes
  <2>2. pc[Main] # Idle
    BY <2>1 DEF EndWith, Idle
  <2>3. PICK k : k = Len(outputs) + 1
    OBVIOUS
  <2>4. unit[Main] = k
    BY <2>2, <2>3, AloneParts
  <2>5. k <= N
    <3>1. Main \in Threads
      BY <1>1, AloneFacts
    <3>2. unit[Main] \in Units
      BY <2>2, <3>1, UnitType
    <3> QED
      BY <2>4, <3>2 DEF Units
  <2>6. Honest(k, r)
    BY <2>1, <2>4 DEF EndWith, Honest
  <2> QED
    BY <1>1, <2>1, <2>3, <2>4, <2>5, <2>6, NextUnitOfTheLoop DEF setup
<1>5. CASE AlonePanics
  <2>1. /\ pc[Main] # Idle /\ fate[unit[Main]] = "panicked" /\ outcome' = Ended("panicked", 0)
        /\ UNCHANGED <<outputs, cancelled, fate>>
    BY <1>1, <1>5 DEF AlonePanics, Panic, Idle, setup
  <2>2. unit[Main] \in 1..N
    BY <1>1, <2>1, AloneFacts, UnitType DEF Units
  <2> QED
    BY <1>1, <2>1, <2>2 DEF Sequential!Next, Sequential!Panics, Running, Ended
<1> QED
  BY <1>2, <1>3, <1>4, <1>5 DEF Alone

\* A step of the threads is a step of the loop, or changes nothing of it.
LEMMA StepRefines ==
  ASSUME IInv, [Next]_vars
  PROVE  [Sequential!Next]_Sequential!vars
<1> USE DEF IInv
<1>1. CASE Cancel
  BY <1>1 DEF Cancel, setup, result, Sequential!Next, Sequential!Cancel, Running
<1>2. CASE Receive
  BY <1>2 DEF Receive, setup, result, Sequential!vars
<1>3. CASE RecvFails
  <2>1. \E u \in 1..N : fate[u] = "panicked"
    BY <1>3, SomeUnitPanicked DEF Units
  <2> QED
    BY <1>3, <2>1 DEF RecvFails, setup, Sequential!Next, Sequential!Panics, Running, Ended
<1>4. CASE Collect
  <2>1. PICK k : k = Len(outputs) + 1
    OBVIOUS
  <2>2. /\ outcome = Running /\ AllFinished /\ Len(outputs) < N /\ UNCHANGED <<cancelled, fate>>
        /\ IF slots[k] = "ok" THEN outputs' = Append(outputs, k) /\ UNCHANGED outcome
                              ELSE outcome' = Ended(slots[k], k) /\ UNCHANGED outputs
    BY <1>4, <2>1 DEF Collect, Collected, setup
  <2>3. k <= N /\ k \in Units
    BY <2>1, <2>2, UnitsFacts DEF OutputsInv, Units
  <2>4. slots[k] \in Result /\ Honest(k, slots[k])
    BY <2>2, <2>3 DEF AllFinished, TypeOK, FateInv
  <2> QED
    BY <2>1, <2>2, <2>3, <2>4, NextUnitOfTheLoop
<1>5. CASE Alone
  BY <1>5, AloneRefines
<1>6. CASE Return
  BY <1>6 DEF Return, setup, Sequential!Next, Sequential!Returns, Running, Ended
<1>7. ASSUME NEW w \in Workers, Worker(w)
      PROVE  UNCHANGED Sequential!vars
  BY <1>7 DEF Worker, setup, result, Sequential!vars
<1>8. CASE UNCHANGED vars
  BY <1>8 DEF vars, setup, result, Sequential!vars
<1> QED
  BY <1>1, <1>2, <1>3, <1>4, <1>5, <1>6, <1>7, <1>8 DEF Next, Caller

\* Whatever threads there are and however their messages interleave, the call
\* ends as the loop of one thread over the units would: with the outputs in the
\* order of the assets, the error of the first unit that has one, or a panic of
\* some unit (analyze_units).
THEOREM ThreadsImplementLoop == Spec => ImplementsSequential
<1>1. IInv /\ [Next]_vars => [Sequential!Next]_Sequential!vars
  BY StepRefines
<1> QED
  BY <1>1, InitRefines, Invariance, PTL DEF Spec, ImplementsSequential, Sequential!Spec
=============================================================================
