--------------------------- MODULE GuiSession_proofs ---------------------------
(***************************************************************************)
(* Proofs about the window, for any Paks, threads and conflicts: each      *)
(* inspection is answered by its own job, so that what is shown is of the  *)
(* files in the list, and whatever may still run has been told to stop     *)
(* before it is joined.                                                    *)
(***************************************************************************)
EXTENDS GuiSession, TLAPS

Archive == Nat \cup {None}
Generation == Nat \ {0}
Entry == [status : {"pending", "failed", "supported"}, generation : Generation,
          archive : Archive, since : Nat]
Job == [pak : Pak, generation : Generation]
TakenJob == [pak : Pak, generation : Generation, version : Nat]
Answer == [pak : Pak, generation : Generation, archive : Archive]
Command == UNION {[cs -> Pak \cup {None}] : cs \in SUBSET Conflict}

\* The shape of the lists, the pool and the operation.
ListType == paks \in Seq(Pak) /\ carrier \in Nat

PoolType ==
  /\ disk \in [Pak -> Nat]
  /\ inspections \in [Pak -> Entry \cup {Absent}]
  /\ nextGeneration \in Generation
  /\ requests \in Seq(Job) /\ results \in Seq(Answer)
  /\ inspector \in [Inspector -> TakenJob \cup {Waiting, Gone}]

PlanType ==
  /\ choices \in [Conflict -> Pak \cup {None}] /\ undo \in Seq(Command)
  /\ IsBusy => worker = [kind |-> worker.kind, inputs |-> worker.inputs,
                         overwrite |-> worker.overwrite, result |-> worker.result]

\* A Pak is listed once, and has an inspection while it is.
ListInv ==
  /\ \A i, j \in 1..Len(paks) : paks[i] = paks[j] => i = j
  /\ IF paks = <<>> THEN carrier = 0 ELSE carrier < Len(paks)
  /\ \A p \in Pak : Cached(p) <=> p \in ToSet(paks)

\* A generation is given to one job, which is in one place.
JobInv ==
  /\ \A i \in 1..Len(requests) : requests[i].generation < nextGeneration
  /\ \A i \in 1..Len(results) : results[i].generation < nextGeneration
  /\ \A i \in Inspector : inspector[i].generation < nextGeneration
  /\ \A p \in Pak : Cached(p) => inspections[p].generation < nextGeneration

OnceInv ==
  /\ \A i, j \in 1..Len(requests) : requests[i].generation = requests[j].generation => i = j
  /\ \A i, j \in 1..Len(results) : results[i].generation = results[j].generation => i = j
  /\ \A i, j \in Inspector : Busy(i) /\ inspector[i].generation = inspector[j].generation => i = j
  /\ \A i \in 1..Len(requests) : \A j \in 1..Len(results) :
       requests[i].generation # results[j].generation
  /\ \A i \in 1..Len(requests) : \A j \in Inspector :
       requests[i].generation # inspector[j].generation
  /\ \A i \in 1..Len(results) : \A j \in Inspector :
       results[i].generation # inspector[j].generation

\* An inspection that has its archive awaits nothing more.
AnsweredInv ==
  \A p \in Pak : HasArchive(p) =>
    /\ \A i \in 1..Len(requests) : requests[i].generation # inspections[p].generation
    /\ \A i \in 1..Len(results) : results[i].generation # inspections[p].generation
    /\ \A i \in Inspector : inspector[i].generation # inspections[p].generation

\* An inspection that is awaited opens the Pak after it was asked for.
Awaits(p, generation) == Cached(p) /\ inspections[p].generation = generation

FreshInv ==
  /\ \A p \in Pak : Cached(p) => inspections[p].since <= disk[p]
  /\ \A i \in Inspector : \A p \in Pak :
       Busy(i) /\ inspector[i].pak = p /\ Awaits(p, inspector[i].generation)
         => inspector[i].version >= inspections[p].since
  /\ \A i \in 1..Len(results) : \A p \in Pak :
       results[i].pak = p /\ Awaits(p, results[i].generation) /\ results[i].archive # None
         => results[i].archive >= inspections[p].since
  /\ ArchivesAreFresh

\* A job has been told to stop, or is that of an inspection that closing stops.
Stoppable(generation) ==
  generation \in stopped \/ \E p \in Pak : Awaits(p, generation)

StopInv ==
  /\ \A i \in 1..Len(requests) : Stoppable(requests[i].generation)
  /\ \A i \in Inspector : Busy(i) => Stoppable(inspector[i].generation)

\* What is analysed or planned is in the list, each Pak with its archive.
AllOpened == paks # <<>> /\ \A p \in ToSet(paks) : HasArchive(p)

PlanInv ==
  /\ session # None => AllOpened
  /\ IsBusy /\ worker.kind = "analysis" => AllOpened /\ worker.inputs = Inputs
  /\ PlanIsOfTheList

PoolInv == PoolType /\ JobInv /\ OnceInv /\ AnsweredInv /\ FreshInv /\ StopInv

IInv ==
  /\ ListType /\ PlanType /\ ListInv /\ PoolInv /\ PlanInv
  /\ StoppedBeforeJoin /\ UndoUnwinds
-----------------------------------------------------------------------------
(***************************************************************************)
(* Lists                                                                   *)
(***************************************************************************)
\* Where a Pak stands in a list that has it once.
LEMMA PositionInList ==
  ASSUME NEW ps \in Seq(Pak), \A i, j \in 1..Len(ps) : ps[i] = ps[j] => i = j,
         NEW i \in 1..Len(ps)
  PROVE  SelectInSeq(ps, LAMBDA q : q = ps[i]) = i
<1>1. {j \in 1..Len(ps) : ps[j] = ps[i]} = {i}
  OBVIOUS
<1>2. Min({i}) = i
  BY DEF Min
<1> QED
  BY <1>1, <1>2 DEF SelectInSeq

\* An inspection is an entry, or there is none.
LEMMA EntryType ==
  ASSUME PoolType, NEW p \in Pak
  PROVE  /\ Cached(p) => /\ inspections[p] \in Entry /\ inspections[p].generation \in Nat
                         /\ inspections[p].generation >= 1 /\ inspections[p].since \in Nat
         /\ ~Cached(p) => inspections[p] = Absent
         /\ HasArchive(p) => inspections[p].archive \in Nat
BY DEF PoolType, Cached, Entry, Absent, HasArchive, Archive, Generation

\* The records the pool is made of.
LEMMA RecordTypes ==
  /\ \A status \in {"pending", "failed", "supported"}, g \in Generation, a \in Archive, since \in Nat :
       [status |-> status, generation |-> g, archive |-> a, since |-> since] \in Entry
  /\ \A p \in Pak, g \in Generation : [pak |-> p, generation |-> g] \in Job
  /\ \A p \in Pak, g \in Generation, v \in Nat : [pak |-> p, generation |-> g, version |-> v] \in TakenJob
  /\ \A p \in Pak, g \in Generation, a \in Archive : [pak |-> p, generation |-> g, archive |-> a] \in Answer
BY DEF Entry, Job, TakenJob, Answer

LEMMA JobTypes ==
  ASSUME PoolType
  PROVE  /\ \A i \in 1..Len(requests) : requests[i].generation \in Nat /\ requests[i].generation >= 1
                                        /\ requests[i].pak \in Pak
         /\ \A i \in 1..Len(results) : results[i].generation \in Nat /\ results[i].generation >= 1
                                       /\ results[i].pak \in Pak /\ results[i].archive \in Archive
         /\ \A i \in Inspector : inspector[i].generation \in Int
         /\ \A i \in Inspector : Busy(i) => inspector[i] \in TakenJob
         /\ \A i \in Inspector : Busy(i) <=> inspector[i].generation >= 1
         /\ Len(requests) \in Nat /\ Len(results) \in Nat /\ nextGeneration \in Nat /\ nextGeneration >= 1
<1>1. /\ \A i \in 1..Len(requests) : requests[i] \in Job
      /\ \A i \in 1..Len(results) : results[i] \in Answer
      /\ \A i \in Inspector : inspector[i] \in TakenJob \cup {Waiting, Gone}
      /\ Len(requests) \in Nat /\ Len(results) \in Nat /\ nextGeneration \in Nat /\ nextGeneration >= 1
  BY DEF PoolType, Generation
<1>2. Waiting.generation = 0 /\ Gone.generation = -1
  BY DEF Waiting, Gone
<1>3. \A x \in TakenJob : x.generation \in Nat /\ x.generation >= 1
  BY DEF TakenJob, Generation
<1>4. \A x \in Job : x.generation \in Nat /\ x.generation >= 1 /\ x.pak \in Pak
  BY DEF Job, Generation
<1>5. \A x \in Answer : x.generation \in Nat /\ x.generation >= 1 /\ x.pak \in Pak /\ x.archive \in Archive
  BY DEF Answer, Generation
<1>6. \A i \in Inspector : Busy(i) <=> inspector[i] \notin {Waiting, Gone}
  BY DEF Busy
<1>7. \A i \in Inspector : Busy(i) => inspector[i] \in TakenJob
  BY <1>1, <1>6
<1>8. \A i \in Inspector : (Busy(i) <=> inspector[i].generation >= 1) /\ inspector[i].generation \in Int
  BY <1>1, <1>2, <1>3, <1>6
<1> QED
  BY <1>1, <1>4, <1>5, <1>7, <1>8
-----------------------------------------------------------------------------
(***************************************************************************)
(* Inspections are asked for                                               *)
(***************************************************************************)
\* New inspections have generations of their own, and those dropped are stopped.
LEMMA QueuedFacts ==
  ASSUME PoolType, NEW ps \in Seq(Pak), \A i, j \in 1..Len(ps) : ps[i] = ps[j] => i = j,
         NEW gone \in SUBSET Pak, Queued(ps, gone)
  PROVE  /\ \A i \in 1..Len(ps) :
              inspections'[ps[i]] = [status |-> "pending", generation |-> nextGeneration + i - 1,
                                     archive |-> None, since |-> disk[ps[i]]]
         /\ \A p \in Pak \ ToSet(ps) :
              inspections'[p] = IF p \in gone THEN Absent ELSE inspections[p]
         /\ inspections' \in [Pak -> Entry \cup {Absent}]
         /\ nextGeneration' = nextGeneration + Len(ps) /\ Len(ps) \in Nat
         /\ stopped \subseteq stopped'
         /\ \A p \in gone : Cached(p) => inspections[p].generation \in stopped'
         /\ requests' \in Seq(Job) /\ Len(requests') = Len(requests) + Len(ps)
         /\ \A i \in 1..Len(requests) : requests'[i] = requests[i]
         /\ \A i \in 1..Len(ps) :
              requests'[Len(requests) + i] = [pak |-> ps[i], generation |-> nextGeneration + i - 1]
         /\ UNCHANGED <<open, inspector, results>>
<1> DEFINE generation(p) == nextGeneration + SelectInSeq(ps, LAMBDA q : q = p) - 1
           new == [i \in 1..Len(ps) |-> [pak |-> ps[i], generation |-> generation(ps[i])]]
           cancelled == {inspections[p].generation : p \in {q \in gone : Cached(q)}}
<1>1. Pool(ps, gone, cancelled)
  BY DEF Queued
<1>2. \A i \in 1..Len(ps) : generation(ps[i]) = nextGeneration + i - 1
  BY PositionInList
<1> HIDE DEF generation
<1>3. /\ inspections' = [p \in Pak |-> IF p \in ToSet(ps) THEN Inspection("pending", generation(p), None, disk[p])
                                       ELSE IF p \in gone THEN Absent ELSE inspections[p]]
      /\ nextGeneration' = nextGeneration + Len(ps)
      /\ stopped' = stopped \cup cancelled
      /\ requests' = requests \o new
      /\ UNCHANGED <<open, inspector, results>>
  BY <1>1 DEF Pool, generation
<1>4. nextGeneration \in Nat /\ nextGeneration >= 1 /\ Len(ps) \in Nat /\ Len(requests) \in Nat
  BY JobTypes
<1>5. \A i \in 1..Len(ps) :
        inspections'[ps[i]] = [status |-> "pending", generation |-> nextGeneration + i - 1,
                               archive |-> None, since |-> disk[ps[i]]]
  <2> TAKE i \in 1..Len(ps)
  <2>1. ps[i] \in Pak /\ ps[i] \in ToSet(ps)
    BY DEF ToSet
  <2> QED
    BY <1>2, <1>3, <2>1 DEF Inspection
<1>6. \A p \in Pak \ ToSet(ps) : inspections'[p] = IF p \in gone THEN Absent ELSE inspections[p]
  BY <1>3
<1>7. \A i \in 1..Len(ps) : nextGeneration + i - 1 \in Generation
  BY <1>4 DEF Generation
<1>8. inspections' \in [Pak -> Entry \cup {Absent}]
  <2>1. \A i \in 1..Len(ps) : inspections'[ps[i]] \in Entry
    <3> TAKE i \in 1..Len(ps)
    <3>1. ps[i] \in Pak /\ disk[ps[i]] \in Nat /\ nextGeneration + i - 1 \in Generation
      BY <1>7 DEF PoolType
    <3>2. None \in Archive /\ "pending" \in {"pending", "failed", "supported"}
      BY DEF Archive
    <3>3. \A g \in Generation, since \in Nat :
            [status |-> "pending", generation |-> g, archive |-> None, since |-> since] \in Entry
      BY <3>2, RecordTypes, Zenon
    <3>4. [status |-> "pending", generation |-> nextGeneration + i - 1, archive |-> None,
           since |-> disk[ps[i]]] \in Entry
      BY <3>1, <3>3, Zenon
    <3> QED
      BY <1>5, <3>4, Zenon
  <2>2. \A p \in ToSet(ps) : inspections'[p] \in Entry
    BY <2>1 DEF ToSet
  <2>3. \A p \in Pak : inspections'[p] \in Entry \cup {Absent}
    BY <1>6, <2>2 DEF PoolType
  <2>4. \E f : inspections' = [p \in Pak |-> f[p]]
    BY <1>3
  <2> QED
    BY <2>3, <2>4
<1>9. new \in Seq(Job) /\ Len(new) = Len(ps)
      /\ \A i \in 1..Len(ps) : new[i] = [pak |-> ps[i], generation |-> nextGeneration + i - 1]
  <2>1. \A i \in 1..Len(ps) : new[i] = [pak |-> ps[i], generation |-> nextGeneration + i - 1]
    BY <1>2
  <2>2. \A i \in 1..Len(ps) : new[i] \in Job
    <3> TAKE i \in 1..Len(ps)
    <3>1. ps[i] \in Pak /\ nextGeneration + i - 1 \in Generation
      BY <1>7
    <3> HIDE DEF new
    <3> QED
      BY <2>1, <3>1, RecordTypes
  <2>3. new = [i \in 1..Len(ps) |-> new[i]]
    OBVIOUS
  <2> HIDE DEF new
  <2> QED
    BY <1>4, <2>1, <2>2, <2>3
<1> HIDE DEF new
<1>10. /\ requests' \in Seq(Job) /\ Len(requests') = Len(requests) + Len(ps)
       /\ \A i \in 1..Len(requests) : requests'[i] = requests[i]
       /\ \A i \in 1..Len(ps) : requests'[Len(requests) + i] = new[i]
  <2>1. requests \in Seq(Job) /\ new \in Seq(Job) /\ requests' = requests \o new
    BY <1>3, <1>9 DEF PoolType
  <2>2. requests' \in Seq(Job) /\ Len(requests') = Len(requests) + Len(ps)
    BY <1>9, <2>1
  <2>3. \A i \in 1..Len(requests) : requests'[i] = requests[i]
    BY <1>4, <1>9, <2>1
  <2>4. ASSUME NEW i \in 1..Len(ps) PROVE requests'[Len(requests) + i] = new[i]
    BY <1>4, <1>9, <2>1, <2>4
  <2> QED
    BY <2>2, <2>3, <2>4
<1> QED
  BY <1>3, <1>4, <1>5, <1>6, <1>8, <1>9, <1>10

\* The pool goes on as before with the jobs it had, and has one job more for each
\* inspection that is asked for.
LEMMA QueuedKeepsPool ==
  ASSUME PoolInv, NEW ps \in Seq(Pak), \A i, j \in 1..Len(ps) : ps[i] = ps[j] => i = j,
         NEW gone \in SUBSET Pak, Queued(ps, gone), disk' = disk,
         \A p \in ToSet(ps) : Cached(p) => p \in gone
  PROVE  PoolInv'
<1> USE DEF PoolInv
<1>1. /\ \A i \in 1..Len(ps) :
           inspections'[ps[i]] = [status |-> "pending", generation |-> nextGeneration + i - 1,
                                  archive |-> None, since |-> disk[ps[i]]]
      /\ \A p \in Pak \ ToSet(ps) :
           inspections'[p] = IF p \in gone THEN Absent ELSE inspections[p]
      /\ inspections' \in [Pak -> Entry \cup {Absent}]
      /\ nextGeneration' = nextGeneration + Len(ps) /\ Len(ps) \in Nat
      /\ stopped \subseteq stopped'
      /\ \A p \in gone : Cached(p) => inspections[p].generation \in stopped'
      /\ requests' \in Seq(Job) /\ Len(requests') = Len(requests) + Len(ps)
      /\ \A i \in 1..Len(requests) : requests'[i] = requests[i]
      /\ \A i \in 1..Len(ps) :
           requests'[Len(requests) + i] = [pak |-> ps[i], generation |-> nextGeneration + i - 1]
      /\ UNCHANGED <<open, inspector, results>>
  BY QueuedFacts
<1>2. /\ \A i \in 1..Len(requests) : requests[i].generation \in Nat /\ requests[i].generation < nextGeneration
      /\ \A i \in 1..Len(results) : results[i].generation \in Nat /\ results[i].generation < nextGeneration
      /\ \A i \in Inspector : inspector[i].generation \in Int /\ inspector[i].generation < nextGeneration
      /\ Len(requests) \in Nat /\ nextGeneration \in Nat /\ nextGeneration >= 1
  BY JobTypes DEF JobInv
<1>3. \A i \in 1..Len(requests') :
        \/ i \in 1..Len(requests) /\ requests'[i] = requests[i]
        \/ /\ i - Len(requests) \in 1..Len(ps) /\ requests'[i].pak = ps[i - Len(requests)]
           /\ requests'[i].generation = nextGeneration + (i - Len(requests)) - 1
  <2> TAKE i \in 1..Len(requests')
  <2>1. CASE i <= Len(requests)
    BY <1>1, <1>2, <2>1
  <2>2. CASE i > Len(requests)
    <3>1. PICK k : k = i - Len(requests)
      OBVIOUS
    <3>2. k \in 1..Len(ps) /\ i = Len(requests) + k
      BY <1>1, <1>2, <2>2, <3>1
    <3>3. requests'[i] = [pak |-> ps[k], generation |-> nextGeneration + k - 1]
      BY <1>1, <3>2
    <3>4. requests'[i].pak = ps[k] /\ requests'[i].generation = nextGeneration + k - 1
      BY <3>3
    <3>5. nextGeneration + (i - Len(requests)) - 1 = nextGeneration + k - 1
      BY <3>1
    <3> QED
      BY <3>1, <3>2, <3>4, <3>5
  <2> QED
    BY <1>1, <1>2, <2>1, <2>2
<1>11. \A i \in 1..Len(requests') :
        /\ requests'[i].generation \in Nat /\ requests'[i].generation < nextGeneration'
        /\ \/ i \in 1..Len(requests) /\ requests'[i].generation = requests[i].generation
           \/ i > Len(requests) /\ requests'[i].generation = nextGeneration + (i - Len(requests)) - 1
  <2> TAKE i \in 1..Len(requests')
  <2>1. CASE i \in 1..Len(requests) /\ requests'[i] = requests[i]
    BY <1>1, <1>2, <2>1
  <2>2. CASE /\ i - Len(requests) \in 1..Len(ps)
             /\ requests'[i].generation = nextGeneration + (i - Len(requests)) - 1
    BY <1>1, <1>2, <2>2
  <2> QED
    BY <1>3, <2>1, <2>2
<1>4. ASSUME NEW p \in Pak
      PROVE  \/ /\ p \notin ToSet(ps) /\ p \notin gone
                /\ inspections'[p] = inspections[p] /\ (Cached(p)' <=> Cached(p))
                /\ (HasArchive(p)' <=> HasArchive(p))
             \/ p \in gone /\ ~Cached(p)' /\ ~HasArchive(p)'
             \/ \E k \in 1..Len(ps) :
                  /\ p = ps[k] /\ inspections'[p].generation = nextGeneration + k - 1
                  /\ inspections'[p].since = disk[p] /\ Cached(p)' /\ ~HasArchive(p)'
  <2>1. CASE p \in ToSet(ps)
    <3>1. PICK k \in 1..Len(ps) : p = ps[k]
      BY <2>1 DEF ToSet
    <3>2. inspections'[p] = [status |-> "pending", generation |-> nextGeneration + k - 1,
                             archive |-> None, since |-> disk[p]]
      BY <1>1, <3>1
    <3> QED
      BY <3>1, <3>2 DEF Cached, HasArchive
  <2>2. CASE p \notin ToSet(ps) /\ p \in gone
    BY <1>1, <2>2 DEF Cached, HasArchive, Absent
  <2>3. CASE p \notin ToSet(ps) /\ p \notin gone
    BY <1>1, <2>3 DEF Cached, HasArchive
  <2> QED
    BY <2>1, <2>2, <2>3
<1>5. PoolType'
  BY <1>1, <1>2 DEF PoolType, Generation
<1>6. JobInv'
  <2>1. \A i \in 1..Len(requests') : requests'[i].generation < nextGeneration'
    BY <1>11
  <2>2. \A p \in Pak : Cached(p)' => inspections'[p].generation < nextGeneration'
    <3> TAKE p \in Pak
    <3>1. Cached(p) => inspections[p].generation \in Nat /\ inspections[p].generation < nextGeneration
      BY EntryType DEF JobInv
    <3> QED
      BY <1>1, <1>2, <1>4, <3>1
  <2>3. /\ \A i \in 1..Len(results') : results'[i].generation < nextGeneration'
        /\ \A i \in Inspector : inspector'[i].generation < nextGeneration'
    BY <1>1, <1>2
  <2> QED
    BY <2>1, <2>2, <2>3 DEF JobInv
<1>7. OnceInv'
  <2>1. ASSUME NEW i \in 1..Len(requests'), NEW j \in 1..Len(requests'),
               requests'[i].generation = requests'[j].generation
        PROVE  i = j
    <3>1. CASE i \in 1..Len(requests) /\ j \in 1..Len(requests)
      BY <1>1, <2>1, <3>1 DEF OnceInv
    <3>2. \A x \in 1..Len(requests') :
            \/ x \in 1..Len(requests) /\ requests'[x].generation < nextGeneration
            \/ x > Len(requests) /\ x \in Int
               /\ requests'[x].generation = nextGeneration + (x - Len(requests)) - 1
      <4> TAKE x \in 1..Len(requests')
      <4>1. CASE x \in 1..Len(requests) /\ requests'[x].generation = requests[x].generation
        BY <1>2, <4>1
      <4>2. CASE x > Len(requests) /\ requests'[x].generation = nextGeneration + (x - Len(requests)) - 1
        BY <4>2
      <4> QED
        BY <1>11, <4>1, <4>2
    <3>3. CASE i \notin 1..Len(requests) \/ j \notin 1..Len(requests)
      BY <1>2, <2>1, <3>2, <3>3
    <3> QED
      BY <3>1, <3>3
  <2>2. \A i \in 1..Len(requests') : \A j \in 1..Len(results) :
          requests'[i].generation # results[j].generation
    <3> TAKE i \in 1..Len(requests')
    <3> TAKE j \in 1..Len(results)
    <3>1. CASE i \in 1..Len(requests) /\ requests'[i].generation = requests[i].generation
      BY <3>1 DEF OnceInv
    <3>2. CASE i > Len(requests) /\ requests'[i].generation = nextGeneration + (i - Len(requests)) - 1
      <4>1. results[j].generation \in Int /\ results[j].generation < nextGeneration
        BY <1>2
      <4> QED
        BY <1>2, <3>2, <4>1
    <3> QED
      BY <1>11, <3>1, <3>2
  <2>3. \A i \in 1..Len(requests') : \A j \in Inspector :
          requests'[i].generation # inspector[j].generation
    <3> TAKE i \in 1..Len(requests')
    <3> TAKE j \in Inspector
    <3>1. CASE i \in 1..Len(requests)
      <4>1. requests[i].generation # inspector[j].generation
        BY <3>1 DEF OnceInv
      <4> QED
        BY <1>1, <3>1, <4>1
    <3>2. CASE i \notin 1..Len(requests)
      BY <1>2, <1>11, <3>2
    <3> QED
      BY <3>1, <3>2
  <2> QED
    BY <1>1, <2>1, <2>2, <2>3 DEF OnceInv, Busy
<1>8. AnsweredInv'
  <2>1. ASSUME NEW p \in Pak, HasArchive(p)'
        PROVE  /\ \A i \in 1..Len(requests') : requests'[i].generation # inspections'[p].generation
               /\ \A i \in 1..Len(results') : results'[i].generation # inspections'[p].generation
               /\ \A i \in Inspector : inspector'[i].generation # inspections'[p].generation
    <3>1. HasArchive(p) /\ inspections'[p] = inspections[p]
      BY <1>4, <2>1
    <3>2. inspections[p].generation \in Nat /\ inspections[p].generation < nextGeneration
      BY <3>1, EntryType DEF JobInv, HasArchive
    <3> QED
      <4>1. ASSUME NEW i \in 1..Len(requests')
            PROVE  requests'[i].generation # inspections[p].generation
        <5>1. CASE i \in 1..Len(requests)
          BY <1>1, <3>1, <5>1 DEF AnsweredInv
        <5>2. CASE i \notin 1..Len(requests)
          BY <1>2, <1>11, <3>2, <5>2
        <5> QED
          BY <5>1, <5>2
      <4> QED
        BY <1>1, <3>1, <4>1 DEF AnsweredInv
  <2> QED
    BY <2>1 DEF AnsweredInv
<1>9. FreshInv'
  <2>1. \A p \in Pak : Cached(p)' => inspections'[p].since <= disk'[p]
    <3> TAKE p \in Pak
    <3>1. disk[p] \in Nat
      BY DEF PoolType
    <3> QED
      BY <1>4, <3>1 DEF FreshInv
  <2>2. ASSUME NEW p \in Pak, NEW g \in Int, g < nextGeneration, Awaits(p, g)'
        PROVE  Awaits(p, g) /\ inspections'[p] = inspections[p]
    <3>1. Cached(p)' /\ inspections'[p].generation = g
      BY <2>2 DEF Awaits
    <3> QED
      BY <1>2, <1>4, <2>2, <3>1 DEF Awaits
  <2>3. ASSUME NEW i \in Inspector, NEW p \in Pak,
               Busy(i)', inspector'[i].pak = p, Awaits(p, inspector[i].generation)'
        PROVE  inspector'[i].version >= inspections'[p].since
    <3>1. PICK g \in Int : g = inspector[i].generation /\ g < nextGeneration
      BY <1>2
    <3>2. Awaits(p, g)' /\ Busy(i)
      BY <1>1, <2>3, <3>1 DEF Busy, Awaits
    <3> QED
      BY <1>1, <2>2, <2>3, <3>1, <3>2 DEF FreshInv
  <2>4. ASSUME NEW i \in 1..Len(results'), NEW p \in Pak,
               results'[i].pak = p, Awaits(p, results[i].generation)', results'[i].archive # None
        PROVE  results'[i].archive >= inspections'[p].since
    <3>1. i \in 1..Len(results)
      BY <1>1
    <3>2. PICK g \in Int : g = results[i].generation /\ g < nextGeneration
      BY <1>2, <3>1
    <3>3. Awaits(p, g)'
      BY <1>1, <2>4, <3>2 DEF Awaits
    <3> QED
      BY <1>1, <2>2, <2>4, <3>1, <3>2, <3>3 DEF FreshInv
  <2>5. ArchivesAreFresh'
    BY <1>4 DEF FreshInv, ArchivesAreFresh
  <2> QED
    BY <2>1, <2>3, <2>4, <2>5 DEF FreshInv
<1>10. StopInv'
  <2>1. ASSUME NEW g, Stoppable(g) PROVE Stoppable(g)'
    <3>1. CASE g \in stopped
      BY <1>1, <3>1 DEF Stoppable
    <3>2. CASE \E p \in Pak : Awaits(p, g)
      <4>1. PICK p \in Pak : Cached(p) /\ inspections[p].generation = g
        BY <3>2 DEF Awaits
      <4>2. CASE p \in gone
        BY <1>1, <4>1, <4>2 DEF Stoppable
      <4>3. CASE p \notin gone
        <5>1. p \notin ToSet(ps)
          BY <4>1, <4>3
        <5>2. inspections'[p] = inspections[p]
          BY <1>1, <4>3, <5>1
        <5> QED
          BY <4>1, <5>2 DEF Stoppable, Awaits, Cached
      <4> QED
        BY <4>2, <4>3
    <3> QED
      BY <2>1, <3>1, <3>2 DEF Stoppable
  <2>2. ASSUME NEW k \in 1..Len(ps), NEW g, g = nextGeneration + k - 1 PROVE Stoppable(g)'
    <3>1. PICK p \in Pak : p = ps[k]
      OBVIOUS
    <3>2. inspections'[p].status = "pending" /\ inspections'[p].generation = g
      <4>1. inspections'[p] = [status |-> "pending", generation |-> g, archive |-> None,
                               since |-> disk[p]]
        BY <1>1, <2>2, <3>1
      <4> QED
        BY <4>1
    <3> QED
      BY <3>2 DEF Stoppable, Awaits, Cached
  <2>3. ASSUME NEW i \in 1..Len(requests'), NEW g, g = requests'[i].generation
        PROVE  Stoppable(g)'
    <3>1. CASE i \in 1..Len(requests) /\ requests'[i] = requests[i]
      BY <2>1, <2>3, <3>1 DEF StopInv
    <3>2. CASE /\ i - Len(requests) \in 1..Len(ps)
               /\ requests'[i].generation = nextGeneration + (i - Len(requests)) - 1
      BY <2>2, <2>3, <3>2
    <3> QED
      BY <1>3, <3>1, <3>2
  <2>4. ASSUME NEW i \in Inspector, Busy(i)', NEW g, g = inspector'[i].generation
        PROVE  Stoppable(g)'
    BY <1>1, <2>1, <2>4 DEF StopInv, Busy
  <2>5. (\A i \in 1..Len(requests) : Stoppable(requests[i].generation))'
    BY <2>3
  <2>6. (\A i \in Inspector : Busy(i) => Stoppable(inspector[i].generation))'
    BY <2>4
  <2> QED
    BY <2>5, <2>6 DEF StopInv
<1> QED
  BY <1>5, <1>6, <1>7, <1>8, <1>9, <1>10
-----------------------------------------------------------------------------
(***************************************************************************)
(* The threads of the pool                                                 *)
(***************************************************************************)
\* A thread takes the oldest job, and opens the Pak as it is now.
LEMMA TakeKeepsPool ==
  ASSUME PoolInv, NEW i \in Inspector, Take(i), disk' = disk
  PROVE  PoolInv'
<1> USE DEF PoolInv
<1>1. PICK job : job = Head(requests)
  OBVIOUS
<1>2. /\ inspector[i] = Waiting /\ requests # <<>> /\ requests' = Tail(requests)
      /\ inspector' = [inspector EXCEPT ![i] = [pak |-> job.pak, generation |-> job.generation,
                                                version |-> disk[job.pak]]]
      /\ UNCHANGED <<inspections, nextGeneration, stopped, open, results>>
  BY <1>1 DEF Take
<1>3. /\ requests' \in Seq(Job) /\ Len(requests) \in Nat /\ Len(requests) >= 1
      /\ Len(requests') = Len(requests) - 1 /\ job = requests[1] /\ job \in Job
      /\ \A k \in 1..Len(requests') : k + 1 \in 1..Len(requests) /\ requests'[k] = requests[k + 1]
  BY <1>1, <1>2 DEF PoolType
<1>4. /\ job.pak \in Pak /\ job.generation \in Generation /\ job.generation \in Nat /\ job.generation >= 1
      /\ job.generation < nextGeneration /\ disk[job.pak] \in Nat
  BY <1>3 DEF Job, Generation, JobInv, PoolType
<1>5. /\ inspector'[i] = [pak |-> job.pak, generation |-> job.generation, version |-> disk[job.pak]]
      /\ inspector'[i].generation = job.generation /\ inspector'[i].pak = job.pak
      /\ inspector'[i].version = disk[job.pak]
      /\ \A j \in Inspector : j # i => inspector'[j] = inspector[j]
  BY <1>2 DEF PoolType
<1>6. PoolType'
  <2>1. [pak |-> job.pak, generation |-> job.generation, version |-> disk[job.pak]] \in TakenJob
    BY <1>4, RecordTypes
  <2> QED
    BY <1>2, <1>3, <2>1 DEF PoolType
<1>7. JobInv'
  <2>1. \A k \in 1..Len(requests') : requests'[k].generation < nextGeneration
    BY <1>3 DEF JobInv
  <2>2. \A j \in Inspector : inspector'[j].generation < nextGeneration
    BY <1>4, <1>5 DEF JobInv
  <2> QED
    BY <1>2, <2>1, <2>2 DEF JobInv, Cached
<1>8. OnceInv'
  <2>1. \A k, m \in 1..Len(requests') : requests'[k].generation = requests'[m].generation => k = m
    <3> TAKE k, m \in 1..Len(requests')
    <3>1. requests[k + 1].generation = requests[m + 1].generation => k + 1 = m + 1
      BY <1>3 DEF OnceInv
    <3> QED
      BY <1>3, <3>1
  <2>2. \A k \in 1..Len(requests') : requests'[k].generation # job.generation
    <3> TAKE k \in 1..Len(requests')
    <3>1. requests[k + 1].generation = requests[1].generation => k + 1 = 1
      BY <1>3 DEF OnceInv
    <3> QED
      BY <1>3, <3>1
  <2>3. \A j \in Inspector : job.generation # inspector[j].generation
    BY <1>3 DEF OnceInv
  <2>4. \A k \in 1..Len(results) : job.generation # results[k].generation
    BY <1>3 DEF OnceInv
  <2>5. \A j, k \in Inspector : Busy(j)' /\ inspector'[j].generation = inspector'[k].generation => j = k
    <3> TAKE j, k \in Inspector
    <3>1. CASE j = i \/ k = i
      BY <1>5, <2>3, <3>1
    <3>2. CASE j # i /\ k # i
      BY <1>5, <3>2 DEF OnceInv, Busy
    <3> QED
      BY <3>1, <3>2
  <2>6. \A k \in 1..Len(requests') : \A j \in Inspector :
          requests'[k].generation # inspector'[j].generation
    <3> TAKE k \in 1..Len(requests')
    <3> TAKE j \in Inspector
    <3>1. CASE j = i
      BY <1>5, <2>2, <3>1
    <3>2. CASE j # i
      <4>1. requests[k + 1].generation # inspector[j].generation
        BY <1>3 DEF OnceInv
      <4> QED
        BY <1>3, <1>5, <3>2, <4>1
    <3> QED
      BY <3>1, <3>2
  <2>7. \A k \in 1..Len(results) : \A j \in Inspector :
          results[k].generation # inspector'[j].generation
    BY <1>5, <2>4 DEF OnceInv
  <2>8. \A k \in 1..Len(requests') : \A m \in 1..Len(results) :
          requests'[k].generation # results[m].generation
    <3> TAKE k \in 1..Len(requests')
    <3> TAKE m \in 1..Len(results)
    <3>1. requests[k + 1].generation # results[m].generation
      BY <1>3 DEF OnceInv
    <3> QED
      BY <1>3, <3>1
  <2>9. UNCHANGED results
    BY <1>2
  <2>10. \A k, m \in 1..Len(results) : results[k].generation = results[m].generation => k = m
    BY DEF OnceInv
  <2> QED
    BY ONLY <2>1, <2>5, <2>6, <2>7, <2>8, <2>9, <2>10 DEF OnceInv
<1>9. AnsweredInv'
  <2>1. ASSUME NEW p \in Pak, HasArchive(p)
        PROVE  /\ \A k \in 1..Len(requests') : requests'[k].generation # inspections[p].generation
               /\ \A j \in Inspector : inspector'[j].generation # inspections[p].generation
    BY <1>3, <1>5, <2>1 DEF AnsweredInv
  <2> QED
    BY <1>2, <2>1 DEF AnsweredInv, HasArchive, Cached
<1>10. FreshInv'
  <2>1. ASSUME NEW j \in Inspector, NEW p \in Pak, Busy(j)', inspector'[j].pak = p,
               NEW g, g = inspector'[j].generation, Awaits(p, g)
        PROVE  inspector'[j].version >= inspections[p].since
    <3>1. CASE j = i
      BY <1>5, <2>1, <3>1 DEF FreshInv, Awaits
    <3>2. CASE j # i
      BY <1>5, <2>1, <3>2 DEF FreshInv, Busy
    <3> QED
      BY <3>1, <3>2
  <2>2. inspections' = inspections /\ results' = results
    BY <1>2
  <2> QED
    BY <2>1, <2>2 DEF FreshInv, Awaits, Cached, ArchivesAreFresh, HasArchive
<1>11. StopInv'
  <2>1. \A g : Stoppable(g)' <=> Stoppable(g)
    BY <1>2 DEF Stoppable, Awaits, Cached
  <2>2. ASSUME NEW k \in 1..Len(requests'), NEW g, g = requests'[k].generation PROVE Stoppable(g)'
    BY <1>3, <2>1, <2>2 DEF StopInv
  <2>3. ASSUME NEW j \in Inspector, Busy(j)', NEW g, g = inspector'[j].generation PROVE Stoppable(g)'
    <3>1. CASE j = i
      BY <1>3, <1>5, <2>1, <2>3, <3>1 DEF StopInv
    <3>2. CASE j # i
      BY <1>5, <2>1, <2>3, <3>2 DEF StopInv, Busy
    <3> QED
      BY <3>1, <3>2
  <2>4. (\A k \in 1..Len(requests) : Stoppable(requests[k].generation))'
    BY <2>2
  <2>5. (\A j \in Inspector : Busy(j) => Stoppable(inspector[j].generation))'
    BY <2>3
  <2> QED
    BY <2>4, <2>5 DEF StopInv
<1> QED
  BY <1>6, <1>7, <1>8, <1>9, <1>10, <1>11

\* The answer of a job takes its place.
LEMMA SendKeepsPool ==
  ASSUME PoolInv, NEW i \in Inspector, Send(i), disk' = disk
  PROVE  PoolInv'
<1> USE DEF PoolInv
<1>1. PICK archive \in {inspector[i].version, None} :
        results' = Append(results, [pak |-> inspector[i].pak, generation |-> inspector[i].generation,
                                    archive |-> archive])
  BY DEF Send
<1>2. /\ Busy(i) /\ inspector' = [inspector EXCEPT ![i] = Waiting]
      /\ UNCHANGED <<inspections, nextGeneration, stopped, requests, open>>
  BY DEF Send
<1>3. PICK job \in TakenJob : job = inspector[i]
  BY <1>2, JobTypes
<1>4. /\ job.pak \in Pak /\ job.generation \in Generation /\ job.generation \in Nat /\ job.generation >= 1
      /\ job.version \in Nat /\ archive \in Archive /\ job.generation < nextGeneration
  BY <1>1, <1>3 DEF TakenJob, Generation, Archive, JobInv
<1>5. PICK answer \in Answer : /\ answer = [pak |-> job.pak, generation |-> job.generation, archive |-> archive]
                               /\ answer.pak = job.pak /\ answer.generation = job.generation
                               /\ answer.archive = archive
  BY <1>4, RecordTypes
<1>6. /\ results' \in Seq(Answer) /\ Len(results) \in Nat /\ Len(results') = Len(results) + 1
      /\ \A k \in 1..Len(results) : results'[k] = results[k]
      /\ results'[Len(results) + 1] = answer
  BY <1>1, <1>3, <1>5 DEF PoolType
<1>7. \A k \in 1..Len(results') : \/ k \in 1..Len(results) /\ results'[k] = results[k]
                                  \/ k = Len(results) + 1 /\ results'[k] = answer
  BY <1>6
<1>8. /\ inspector'[i] = Waiting /\ inspector'[i].generation = 0
      /\ \A j \in Inspector : j # i => inspector'[j] = inspector[j]
      /\ ~Busy(i)' /\ \A j \in Inspector : Busy(j)' => j # i
  BY <1>2 DEF PoolType, Waiting, Busy
<1>9. PoolType'
  BY <1>2, <1>6 DEF PoolType
<1>10. JobInv'
  <2>1. \A k \in 1..Len(results') : results'[k].generation < nextGeneration
    BY <1>4, <1>5, <1>7 DEF JobInv
  <2>2. \A j \in Inspector : inspector'[j].generation < nextGeneration
    BY <1>4, <1>8, JobTypes DEF JobInv
  <2> QED
    BY <1>2, <2>1, <2>2 DEF JobInv, Cached
<1>11. OnceInv'
  <2>1. \A k \in 1..Len(results) : results[k].generation # job.generation
    BY <1>3 DEF OnceInv
  <2>2. \A k \in 1..Len(requests) : requests[k].generation # job.generation
    BY <1>3 DEF OnceInv
  <2>3. \A j \in Inspector : j # i => inspector[j].generation # job.generation
    BY <1>2, <1>3 DEF OnceInv
  <2>4. \A k, m \in 1..Len(results') : results'[k].generation = results'[m].generation => k = m
    <3> TAKE k, m \in 1..Len(results')
    <3>1. CASE k \in 1..Len(results) /\ m \in 1..Len(results)
      BY <1>6, <3>1 DEF OnceInv
    <3>2. CASE k \notin 1..Len(results) \/ m \notin 1..Len(results)
      BY <1>5, <1>7, <2>1, <3>2
    <3> QED
      BY <3>1, <3>2
  <2>5. \A k \in 1..Len(results') : \A j \in Inspector : results'[k].generation # inspector'[j].generation
    <3> TAKE k \in 1..Len(results')
    <3> TAKE j \in Inspector
    <3>1. results'[k].generation >= 1
      BY <1>4, <1>5, <1>7, JobTypes
    <3>2. CASE j = i
      BY <1>8, <3>1, <3>2
    <3>3. CASE j # i
      BY <1>5, <1>7, <1>8, <2>3, <3>3 DEF OnceInv
    <3> QED
      BY <3>2, <3>3
  <2>6. \A k \in 1..Len(requests) : \A m \in 1..Len(results') : requests[k].generation # results'[m].generation
    BY <1>5, <1>7, <2>2 DEF OnceInv
  <2>7. \A k \in 1..Len(requests) : \A j \in Inspector : requests[k].generation # inspector'[j].generation
    <3> TAKE k \in 1..Len(requests)
    <3> TAKE j \in Inspector
    <3>1. requests[k].generation >= 1
      BY JobTypes
    <3> QED
      BY <1>8, <3>1 DEF OnceInv
  <2>8. \A j, k \in Inspector : Busy(j)' /\ inspector'[j].generation = inspector'[k].generation => j = k
    <3> TAKE j, k \in Inspector
    <3>1. ASSUME Busy(j)', inspector'[j].generation = inspector'[k].generation PROVE j = k
      <4>1. j # i /\ inspector'[j] = inspector[j] /\ Busy(j)
        BY <1>8, <3>1 DEF Busy
      <4>2. inspector[j].generation >= 1
        BY <4>1, JobTypes
      <4>3. k # i
        BY <1>8, <3>1, <4>1, <4>2
      <4> QED
        BY <1>8, <3>1, <4>1, <4>3 DEF OnceInv
    <3> QED
      BY <3>1
  <2> QED
    BY <1>2, <2>4, <2>5, <2>6, <2>7, <2>8 DEF OnceInv
<1>12. AnsweredInv'
  <2>1. ASSUME NEW p \in Pak, HasArchive(p)
        PROVE  /\ \A k \in 1..Len(results') : results'[k].generation # inspections[p].generation
               /\ \A j \in Inspector : inspector'[j].generation # inspections[p].generation
    <3>1. inspections[p].generation \in Nat /\ inspections[p].generation >= 1
      BY <2>1, EntryType DEF HasArchive
    <3>2. inspections[p].generation # job.generation
      BY <1>3, <2>1 DEF AnsweredInv
    <3> QED
      BY <1>5, <1>7, <1>8, <2>1, <3>1, <3>2 DEF AnsweredInv
  <2> QED
    BY <1>2, <2>1 DEF AnsweredInv, HasArchive, Cached
<1>13. FreshInv'
  <2>1. inspections' = inspections
    BY <1>2
  <2>2. ASSUME NEW k \in 1..Len(results'), NEW p \in Pak, results'[k].pak = p,
               NEW g, g = results'[k].generation, Awaits(p, g), results'[k].archive # None
        PROVE  results'[k].archive >= inspections[p].since
    <3>1. CASE k \in 1..Len(results) /\ results'[k] = results[k]
      BY <2>2, <3>1 DEF FreshInv
    <3>2. CASE results'[k] = answer
      BY <1>1, <1>2, <1>3, <1>5, <2>2, <3>2 DEF FreshInv
    <3> QED
      BY <1>7, <3>1, <3>2
  <2>3. ASSUME NEW j \in Inspector, NEW p \in Pak, Busy(j)', inspector'[j].pak = p,
               NEW g, g = inspector'[j].generation, Awaits(p, g)
        PROVE  inspector'[j].version >= inspections[p].since
    BY <1>8, <2>3 DEF FreshInv, Busy
  <2> QED
    BY <2>1, <2>2, <2>3 DEF FreshInv, Awaits, Cached, ArchivesAreFresh, HasArchive
<1>14. StopInv'
  <2>1. \A g : Stoppable(g)' <=> Stoppable(g)
    BY <1>2 DEF Stoppable, Awaits, Cached
  <2>2. ASSUME NEW k \in 1..Len(requests'), NEW g, g = requests'[k].generation PROVE Stoppable(g)'
    BY <1>2, <2>1, <2>2 DEF StopInv
  <2>3. ASSUME NEW j \in Inspector, Busy(j)', NEW g, g = inspector'[j].generation PROVE Stoppable(g)'
    BY <1>8, <2>1, <2>3 DEF StopInv, Busy
  <2>4. (\A k \in 1..Len(requests) : Stoppable(requests[k].generation))'
    BY <2>2
  <2>5. (\A j \in Inspector : Busy(j) => Stoppable(inspector[j].generation))'
    BY <2>3
  <2> QED
    BY <2>4, <2>5 DEF StopInv
<1> QED
  BY <1>9, <1>10, <1>11, <1>12, <1>13, <1>14

\* A thread that ends has no job.
LEMMA LeaveKeepsPool ==
  ASSUME PoolInv, NEW i \in Inspector, Leave(i), disk' = disk
  PROVE  PoolInv'
<1> USE DEF PoolInv
<1>1. /\ inspector[i] = Waiting /\ inspector' = [inspector EXCEPT ![i] = Gone]
      /\ UNCHANGED <<inspections, nextGeneration, stopped, requests, open, results>>
  BY DEF Leave
<1>2. /\ inspector'[i] = Gone /\ inspector'[i].generation = -1 /\ ~Busy(i)'
      /\ \A j \in Inspector : j # i => inspector'[j] = inspector[j]
      /\ \A j \in Inspector : Busy(j)' => j # i /\ Busy(j)
  BY <1>1 DEF PoolType, Gone, Busy
<1>3. PoolType'
  BY <1>1 DEF PoolType
<1>4. JobInv'
  <2>1. \A j \in Inspector : inspector'[j].generation < nextGeneration
    BY <1>2, JobTypes DEF JobInv
  <2> QED
    BY <1>1, <2>1 DEF JobInv, Cached
<1>5. OnceInv'
  <2>1. \A j, k \in Inspector : Busy(j)' /\ inspector'[j].generation = inspector'[k].generation => j = k
    BY <1>2, JobTypes DEF OnceInv
  <2>2. \A k \in 1..Len(requests) : \A j \in Inspector : requests[k].generation # inspector'[j].generation
    <3>1. \A k \in 1..Len(requests) : requests[k].generation >= 1
      BY JobTypes
    <3> QED
      BY <1>2, <3>1 DEF OnceInv
  <2>3. \A k \in 1..Len(results) : \A j \in Inspector : results[k].generation # inspector'[j].generation
    <3>1. \A k \in 1..Len(results) : results[k].generation >= 1
      BY JobTypes
    <3> QED
      BY <1>2, <3>1 DEF OnceInv
  <2> QED
    BY <1>1, <2>1, <2>2, <2>3 DEF OnceInv
<1>6. AnsweredInv'
  <2>1. ASSUME NEW p \in Pak, HasArchive(p)
        PROVE  \A j \in Inspector : inspector'[j].generation # inspections[p].generation
    <3>1. inspections[p].generation \in Nat
      BY <2>1, EntryType DEF HasArchive
    <3> QED
      BY <1>2, <2>1, <3>1 DEF AnsweredInv
  <2> QED
    BY <1>1, <2>1 DEF AnsweredInv, HasArchive, Cached
<1>7. FreshInv'
  <2>1. ASSUME NEW j \in Inspector, NEW p \in Pak, Busy(j)', inspector'[j].pak = p,
               NEW g, g = inspector'[j].generation, Awaits(p, g)
        PROVE  inspector'[j].version >= inspections[p].since
    BY <1>2, <2>1 DEF FreshInv
  <2> QED
    BY <1>1, <2>1 DEF FreshInv, Awaits, Cached, ArchivesAreFresh, HasArchive
<1>8. StopInv'
  <2>1. \A g : Stoppable(g)' <=> Stoppable(g)
    BY <1>1 DEF Stoppable, Awaits, Cached
  <2>2. ASSUME NEW k \in 1..Len(requests'), NEW g, g = requests'[k].generation PROVE Stoppable(g)'
    BY <1>1, <2>1, <2>2 DEF StopInv
  <2>3. ASSUME NEW j \in Inspector, Busy(j)', NEW g, g = inspector'[j].generation PROVE Stoppable(g)'
    BY <1>2, <2>1, <2>3 DEF StopInv
  <2>4. (\A k \in 1..Len(requests) : Stoppable(requests[k].generation))'
    BY <2>2
  <2>5. (\A j \in Inspector : Busy(j) => Stoppable(inspector[j].generation))'
    BY <2>3
  <2> QED
    BY <2>4, <2>5 DEF StopInv
<1> QED
  BY <1>3, <1>4, <1>5, <1>6, <1>7, <1>8

\* A file that changes is not older than it was.
LEMMA FileChangesKeepsPool ==
  ASSUME PoolInv, FileChanges
  PROVE  PoolInv'
<1> USE DEF PoolInv
<1>1. PICK q \in Changing : disk[q] = 0 /\ disk' = [disk EXCEPT ![q] = 1]
  BY DEF FileChanges
<1>2. UNCHANGED pool
  BY DEF FileChanges
<1>3. \A p \in Pak : disk'[p] \in Nat /\ disk[p] \in Nat /\ disk'[p] >= disk[p]
  BY <1>1 DEF PoolType
<1>4. PoolType' /\ JobInv' /\ OnceInv' /\ AnsweredInv' /\ StopInv'
  <2>1. disk' \in [Pak -> Nat]
    BY <1>1 DEF PoolType
  <2> QED
    BY <1>2, <2>1 DEF PoolType, JobInv, OnceInv, AnsweredInv, StopInv, Stoppable, Awaits, Cached,
       HasArchive, Busy, pool
<1>5. FreshInv'
  <2>1. \A p \in Pak : Cached(p) => inspections[p].since <= disk'[p]
    <3> TAKE p \in Pak
    <3>1. Cached(p) => inspections[p].since \in Nat /\ inspections[p].since <= disk[p]
      BY EntryType DEF FreshInv
    <3> QED
      BY <1>3, <3>1
  <2> QED
    BY <1>2, <2>1 DEF FreshInv, Awaits, Cached, ArchivesAreFresh, HasArchive, Busy, pool
<1> QED
  BY <1>4, <1>5

\* Closing stops every inspection that is awaited.
LEMMA CloseKeepsPool ==
  ASSUME PoolInv, Close
  PROVE  PoolInv'
<1> USE DEF PoolInv
<1>1. /\ stopped \subseteq stopped'
      /\ UNCHANGED <<disk, inspections, nextGeneration, requests, inspector, results>>
  BY DEF Close, StopAll
<1>2. PoolType' /\ JobInv' /\ OnceInv' /\ AnsweredInv' /\ FreshInv'
  BY <1>1 DEF PoolType, JobInv, OnceInv, AnsweredInv, FreshInv, Awaits, Cached, HasArchive, Busy,
     ArchivesAreFresh
<1>3. StopInv'
  BY <1>1 DEF StopInv, Stoppable, Awaits, Cached, Busy
<1> QED
  BY <1>2, <1>3

\* Nothing happens to the pool.
LEMMA PoolStays ==
  ASSUME PoolInv, UNCHANGED <<disk, pool>>
  PROVE  PoolInv'
BY DEF PoolInv, PoolType, JobInv, OnceInv, AnsweredInv, FreshInv, StopInv, Stoppable, Awaits, Cached,
   HasArchive, Busy, ArchivesAreFresh, pool

\* What the interface thread does with an answer.
LEMMA PollParts ==
  ASSUME PoolInv, PollInspections, NEW m, m = Head(results)
  PROVE  /\ m \in Answer /\ m.pak \in Pak /\ m.generation \in Nat /\ m.generation >= 1
         /\ m.archive \in Archive /\ m = results[1] /\ results # <<>>
         /\ results' \in Seq(Answer) /\ Len(results) \in Nat /\ Len(results) >= 1
         /\ Len(results') = Len(results) - 1
         /\ \A k \in 1..Len(results') : k + 1 \in 1..Len(results) /\ results'[k] = results[k + 1]
         /\ UNCHANGED <<disk, nextGeneration, stopped, requests, open, inspector>>
         /\ \A p \in Pak :
              \/ inspections'[p] = inspections[p]
              \/ /\ p = m.pak /\ Awaits(p, m.generation) /\ inspections'[p].archive = m.archive
                 /\ inspections'[p].status \in {"failed", "supported"}
                 /\ inspections'[p].since = inspections[p].since
                 /\ inspections'[p].generation = inspections[p].generation
         /\ inspections' \in [Pak -> Entry \cup {Absent}]
<1> USE DEF PoolInv
<1>1. /\ results # <<>> /\ results' = Tail(results)
      /\ UNCHANGED <<disk, nextGeneration, stopped, requests, open, inspector>>
      /\ inspections' =
           IF ~IsAwaited(m) THEN inspections
           ELSE [inspections EXCEPT ![m.pak] =
                   Inspection(IF m.archive = None THEN "failed" ELSE "supported",
                              m.generation, m.archive, inspections[m.pak].since)]
  BY DEF PollInspections
<1>2. /\ m \in Answer /\ m = results[1] /\ results' \in Seq(Answer)
      /\ Len(results) \in Nat /\ Len(results) >= 1 /\ Len(results') = Len(results) - 1
      /\ \A k \in 1..Len(results') : k + 1 \in 1..Len(results) /\ results'[k] = results[k + 1]
  BY <1>1 DEF PoolType
<1>3. m.pak \in Pak /\ m.generation \in Nat /\ m.generation >= 1 /\ m.archive \in Archive
  BY <1>2 DEF Answer, Generation
<1>4. CASE ~IsAwaited(m)
  BY <1>1, <1>2, <1>3, <1>4 DEF PoolType
<1>5. CASE IsAwaited(m)
  <2>1. PICK p \in Pak : p = m.pak
    BY <1>3
  <2>2. PICK status : status = IF m.archive = None THEN "failed" ELSE "supported"
    OBVIOUS
  <2>3. Awaits(p, m.generation) /\ Cached(p)
    BY <1>5, <2>1 DEF IsAwaited, Awaits
  <2>4. PICK since \in Nat : since = inspections[p].since
    BY <2>3, EntryType
  <2>5. PICK e : e = [status |-> status, generation |-> m.generation, archive |-> m.archive,
                      since |-> since]
    OBVIOUS
  <2>6. inspections' = [inspections EXCEPT ![p] = e]
    BY <1>1, <1>5, <2>1, <2>2, <2>4, <2>5 DEF Inspection
  <2>7. inspections'[p] = e
    BY <2>6 DEF PoolType
  <2>8. e \in Entry
    <3>1. m.generation \in Generation /\ status \in {"pending", "failed", "supported"}
      BY <1>3, <2>2 DEF Generation
    <3> QED
      BY <1>3, <2>4, <2>5, <3>1, RecordTypes
  <2>9. \A x \in Pak : x # p => inspections'[x] = inspections[x]
    BY <2>6 DEF PoolType
  <2>10. inspections' \in [Pak -> Entry \cup {Absent}]
    BY <2>6, <2>8 DEF PoolType
  <2>11. /\ e.status \in {"failed", "supported"} /\ e.generation = m.generation
         /\ e.archive = m.archive /\ e.since = since
    BY <2>2, <2>5
  <2>12. inspections[p].generation = m.generation
    BY <2>3 DEF Awaits
  <2> QED
    BY <1>1, <1>2, <1>3, <2>1, <2>3, <2>4, <2>7, <2>9, <2>10, <2>11, <2>12
<1> QED
  BY <1>4, <1>5

\* An answer is taken by the inspection that waits for it, which then waits for
\* nothing more.
LEMMA PollKeepsPool ==
  ASSUME PoolInv, PollInspections
  PROVE  PoolInv'
<1> USE DEF PoolInv
<1>1. PICK m : m = Head(results)
  OBVIOUS
<1>2. /\ m \in Answer /\ m.pak \in Pak /\ m.generation \in Nat /\ m.generation >= 1
      /\ m.archive \in Archive /\ m = results[1] /\ results # <<>>
      /\ results' \in Seq(Answer) /\ Len(results) \in Nat /\ Len(results) >= 1
      /\ Len(results') = Len(results) - 1
      /\ \A k \in 1..Len(results') : k + 1 \in 1..Len(results) /\ results'[k] = results[k + 1]
      /\ UNCHANGED <<disk, nextGeneration, stopped, requests, open, inspector>>
      /\ inspections' \in [Pak -> Entry \cup {Absent}]
  BY <1>1, PollParts
<1>3. ASSUME NEW p \in Pak
      PROVE  \/ inspections'[p] = inspections[p]
             \/ /\ p = m.pak /\ Awaits(p, m.generation) /\ inspections'[p].archive = m.archive
                /\ inspections'[p].status \in {"failed", "supported"}
                /\ inspections'[p].since = inspections[p].since
                /\ inspections'[p].generation = m.generation
  BY <1>1, PollParts DEF Awaits
<1>4. ASSUME NEW p \in Pak
      PROVE  /\ Cached(p)' <=> Cached(p)
             /\ Cached(p) => inspections'[p].generation = inspections[p].generation
             /\ Cached(p) => inspections'[p].since = inspections[p].since
             /\ \A g : Awaits(p, g)' <=> Awaits(p, g)
  BY <1>3 DEF Cached, Awaits
<1>5. PoolType' /\ JobInv'
  <2>1. \A k \in 1..Len(results') : results'[k].generation < nextGeneration
    BY <1>2 DEF JobInv
  <2> QED
    BY <1>2, <1>4, <2>1 DEF PoolType, JobInv
<1>6. OnceInv'
  <2>1. \A k, n \in 1..Len(results') : results'[k].generation = results'[n].generation => k = n
    <3> TAKE k, n \in 1..Len(results')
    <3>1. results[k + 1].generation = results[n + 1].generation => k + 1 = n + 1
      BY <1>2 DEF OnceInv
    <3> QED
      BY <1>2, <3>1
  <2>2. /\ \A k \in 1..Len(requests) : \A n \in 1..Len(results') : requests[k].generation # results'[n].generation
        /\ \A k \in 1..Len(results') : \A n \in Inspector : results'[k].generation # inspector[n].generation
    <3>1. ASSUME NEW n \in 1..Len(results')
          PROVE  /\ \A k \in 1..Len(requests) : requests[k].generation # results'[n].generation
                 /\ \A j \in Inspector : results'[n].generation # inspector[j].generation
      <4>1. n + 1 \in 1..Len(results) /\ results'[n] = results[n + 1]
        BY <1>2
      <4> QED
        BY <4>1 DEF OnceInv
    <3> QED
      BY <3>1
  <2>3. UNCHANGED <<requests, inspector>>
    BY <1>2
  <2> QED
    BY <2>1, <2>2, <2>3 DEF OnceInv, Busy
<1>7. AnsweredInv'
  <2>1. ASSUME NEW p \in Pak, HasArchive(p)'
        PROVE  /\ \A i \in 1..Len(requests) : requests[i].generation # inspections'[p].generation
               /\ \A i \in 1..Len(results') : results'[i].generation # inspections'[p].generation
               /\ \A i \in Inspector : inspector[i].generation # inspections'[p].generation
    <3>1. CASE inspections'[p] = inspections[p]
      <4>1. HasArchive(p)
        BY <2>1, <3>1 DEF HasArchive, Cached
      <4> QED
        BY <1>2, <3>1, <4>1 DEF AnsweredInv
    <3>2. CASE inspections'[p].generation = m.generation
      <4>1. \A i \in 1..Len(results') : results'[i].generation # m.generation
        <5> TAKE i \in 1..Len(results')
        <5>1. results[i + 1].generation = results[1].generation => i + 1 = 1
          BY <1>2 DEF OnceInv
        <5> QED
          BY <1>2, <5>1
      <4>2. /\ \A i \in 1..Len(requests) : requests[i].generation # m.generation
            /\ \A i \in Inspector : inspector[i].generation # m.generation
        BY <1>2 DEF OnceInv
      <4> QED
        BY <3>2, <4>1, <4>2
    <3> QED
      BY <1>3, <3>1, <3>2
  <2> QED
    BY <1>2, <2>1 DEF AnsweredInv
<1>8. FreshInv'
  <2>1. \A p \in Pak : Cached(p)' => inspections'[p].since <= disk'[p]
    BY <1>2, <1>4 DEF FreshInv
  <2>2. ASSUME NEW i \in Inspector, NEW p \in Pak, Busy(i)', inspector'[i].pak = p,
               NEW g, g = inspector'[i].generation, Awaits(p, g)'
        PROVE  inspector'[i].version >= inspections'[p].since
    BY <1>2, <1>4, <2>2 DEF FreshInv, Busy, Awaits
  <2>3. ASSUME NEW i \in 1..Len(results'), NEW p \in Pak, results'[i].pak = p,
               NEW g, g = results'[i].generation, Awaits(p, g)', results'[i].archive # None
        PROVE  results'[i].archive >= inspections'[p].since
    BY <1>2, <1>4, <2>3 DEF FreshInv, Awaits
  <2>4. ASSUME NEW p \in Pak, HasArchive(p)'
        PROVE  inspections'[p].archive >= inspections'[p].since
    <3>1. CASE inspections'[p] = inspections[p]
      BY <2>4, <3>1 DEF FreshInv, ArchivesAreFresh, HasArchive, Cached
    <3>2. CASE /\ p = m.pak /\ Awaits(p, m.generation) /\ inspections'[p].archive = m.archive
               /\ inspections'[p].since = inspections[p].since
      BY <1>2, <2>4, <3>2 DEF FreshInv, HasArchive
    <3> QED
      BY <1>3, <3>1, <3>2
  <2> QED
    BY <2>1, <2>2, <2>3, <2>4 DEF FreshInv, ArchivesAreFresh
<1>9. StopInv'
  <2>1. \A g : Stoppable(g) => Stoppable(g)'
    BY <1>2, <1>4 DEF Stoppable
  <2>2. ASSUME NEW k \in 1..Len(requests'), NEW g, g = requests'[k].generation PROVE Stoppable(g)'
    BY <1>2, <2>1, <2>2 DEF StopInv
  <2>3. ASSUME NEW j \in Inspector, Busy(j)', NEW g, g = inspector'[j].generation PROVE Stoppable(g)'
    BY <1>2, <2>1, <2>3 DEF StopInv, Busy
  <2>4. (\A k \in 1..Len(requests) : Stoppable(requests[k].generation))'
    BY <2>2
  <2>5. (\A j \in Inspector : Busy(j) => Stoppable(inspector[j].generation))'
    BY <2>3
  <2> QED
    BY <2>4, <2>5 DEF StopInv
<1> QED
  BY <1>5, <1>6, <1>7, <1>8, <1>9
-----------------------------------------------------------------------------
(***************************************************************************)
(* The choices                                                             *)
(***************************************************************************)
\* A choice is put aside before it is changed.
LEMMA AppliedStep ==
  ASSUME IInv, NEW cs \in SUBSET Conflict, NEW p \in Pak, Applied(cs, p), worker' = worker
  PROVE  PlanType' /\ UndoUnwinds'
<1>0. PlanType /\ UndoUnwinds
  BY DEF IInv
<1>1. PICK changed : changed = {c \in cs : choices[c] # p}
  OBVIOUS
<1>2. PICK command : command = [c \in changed |-> choices[c]]
  OBVIOUS
<1>3. /\ choices' = [c \in Conflict |-> IF c \in changed THEN p ELSE choices[c]]
      /\ undo' = IF changed = {} THEN undo ELSE Append(undo, command)
      /\ changed \in SUBSET Conflict
  BY <1>1, <1>2 DEF Applied
<1>4. choices \in [Conflict -> Pak \cup {None}] /\ undo \in Seq(Command) /\ Len(undo) \in Nat
  BY <1>0 DEF PlanType
<1>5. command \in Command /\ DOMAIN command = changed /\ \A c \in changed : command[c] = choices[c]
  <2>1. command \in [changed -> Pak \cup {None}]
    BY <1>2, <1>3, <1>4
  <2> QED
    BY <1>2, <1>3, <2>1 DEF Command
<1>6. undo' \in Seq(Command) /\ choices' \in [Conflict -> Pak \cup {None}]
  BY <1>3, <1>4, <1>5
<1>7. PlanType'
  BY <1>0, <1>6 DEF PlanType, IsBusy
<1>8. CASE changed = {}
  <2>1. undo' = undo /\ choices' = choices
    BY <1>3, <1>4, <1>8
  <2> QED
    BY <1>0, <1>7, <2>1 DEF UndoUnwinds
<1>9. CASE changed # {}
  <2>1. /\ DOMAIN undo = 1..Len(undo) /\ DOMAIN undo' = 1..Len(undo) + 1
        /\ \A k \in 1..Len(undo) : undo'[k] = undo[k]
        /\ undo'[Len(undo) + 1] = command
    BY <1>3, <1>4, <1>5, <1>9
  <2>2. ASSUME NEW c \in Conflict, \A k \in 1..Len(undo) + 1 : c \notin DOMAIN undo'[k]
        PROVE  choices'[c] = None
    <3>1. c \notin changed
      BY <1>4, <1>5, <2>1, <2>2
    <3>2. \A k \in 1..Len(undo) : c \notin DOMAIN undo[k]
      BY <1>4, <2>1, <2>2
    <3> QED
      BY <1>0, <1>3, <2>1, <3>1, <3>2 DEF UndoUnwinds
  <2>3. ASSUME NEW c \in Conflict, NEW k \in 1..Len(undo) + 1, c \in DOMAIN undo'[k],
               \A j \in 1..k - 1 : c \notin DOMAIN undo'[j]
        PROVE  undo'[k][c] = None
    <3>1. \A j \in 1..k - 1 : c \notin DOMAIN undo[j]
      BY <1>4, <2>1, <2>3
    <3>2. CASE k \in 1..Len(undo)
      BY <1>0, <2>1, <2>3, <3>1, <3>2 DEF UndoUnwinds
    <3>3. CASE k = Len(undo) + 1
      <4>1. c \in changed /\ undo'[k][c] = choices[c]
        BY <1>5, <2>1, <2>3, <3>3
      <4>2. \A j \in 1..Len(undo) : c \notin DOMAIN undo[j]
        BY <1>4, <3>1, <3>3
      <4> QED
        BY <1>0, <2>1, <4>1, <4>2 DEF UndoUnwinds
    <3> QED
      BY <1>4, <3>2, <3>3
  <2>4. \A c \in Conflict : (\A k \in DOMAIN undo' : c \notin DOMAIN undo'[k]) => choices'[c] = None
    BY <2>1, <2>2
  <2>5. \A c \in Conflict : \A k \in DOMAIN undo' :
          c \in DOMAIN undo'[k] /\ (\A j \in 1..k - 1 : c \notin DOMAIN undo'[j]) => undo'[k][c] = None
    BY <2>1, <2>3
  <2> QED
    BY <1>7, <2>4, <2>5 DEF UndoUnwinds
<1> QED
  BY <1>7, <1>8, <1>9

\* Undoing puts back what the last command put aside.
LEMMA UndoStep ==
  ASSUME IInv, undo # <<>>, choices' = Restored(Last(undo)), undo' = Front(undo), worker' = worker
  PROVE  PlanType' /\ UndoUnwinds'
<1> USE DEF IInv
<1>1. PICK n : n = Len(undo)
  OBVIOUS
<1>2. PICK command : command = undo[n]
  OBVIOUS
<1>3. choices \in [Conflict -> Pak \cup {None}] /\ undo \in Seq(Command) /\ n \in Nat /\ n >= 1
  BY <1>1 DEF PlanType
<1>4. /\ DOMAIN undo = 1..n /\ undo' \in Seq(Command) /\ DOMAIN undo' = 1..n - 1
      /\ \A k \in 1..n - 1 : undo'[k] = undo[k]
  BY <1>1, <1>3 DEF Front
<1>5. choices' = [c \in Conflict |-> IF c \in DOMAIN command THEN command[c] ELSE choices[c]]
  BY <1>1, <1>2 DEF Restored, Last
<1>6. choices' \in [Conflict -> Pak \cup {None}]
  <2>1. command \in Command
    BY <1>2, <1>3, <1>4
  <2>2. PICK cs \in SUBSET Conflict : command \in [cs -> Pak \cup {None}]
    BY <2>1 DEF Command
  <2> QED
    BY <1>3, <1>5, <2>2
<1>7. PlanType'
  BY <1>4, <1>6 DEF PlanType, IsBusy
<1>8. ASSUME NEW c \in Conflict, \A k \in 1..n - 1 : c \notin DOMAIN undo'[k]
      PROVE  choices'[c] = None
  <2>1. \A k \in 1..n - 1 : c \notin DOMAIN undo[k]
    BY <1>4, <1>8
  <2>2. CASE c \in DOMAIN command
    <3>1. n \in DOMAIN undo
      BY <1>3, <1>4
    <3> QED
      BY <1>2, <1>5, <2>1, <2>2, <3>1 DEF UndoUnwinds
  <2>3. CASE c \notin DOMAIN command
    <3>1. \A k \in 1..n : c \notin DOMAIN undo[k]
      BY <1>2, <1>3, <2>1, <2>3
    <3> QED
      BY <1>4, <1>5, <2>3, <3>1 DEF UndoUnwinds
  <2> QED
    BY <2>2, <2>3
<1>9. ASSUME NEW c \in Conflict, NEW k \in 1..n - 1, c \in DOMAIN undo'[k],
             \A j \in 1..k - 1 : c \notin DOMAIN undo'[j]
      PROVE  undo'[k][c] = None
  <2>1. k \in DOMAIN undo /\ undo'[k] = undo[k] /\ \A j \in 1..k - 1 : undo'[j] = undo[j]
    BY <1>3, <1>4
  <2> QED
    BY <1>9, <2>1 DEF UndoUnwinds
<1> QED
  BY <1>4, <1>7, <1>8, <1>9 DEF UndoUnwinds
-----------------------------------------------------------------------------
(***************************************************************************)
(* The window                                                              *)
(***************************************************************************)
\* What depends on the list, its inspections and the plan alone.
LEMMA PlanStays ==
  ASSUME IInv, UNCHANGED <<list, inspections, plan, worker>>
  PROVE  ListType' /\ PlanType' /\ ListInv' /\ PlanInv' /\ UndoUnwinds'
BY DEF IInv, ListType, PlanType, ListInv, PlanInv, UndoUnwinds, PlanIsOfTheList, AllOpened, Inputs,
   Unresolved, IsBusy, HasArchive, Cached, list, plan

\* What depends on the list alone.
LEMMA ListStays ==
  ASSUME IInv, UNCHANGED <<list, inspections>>
  PROVE  /\ ListType' /\ ListInv' /\ (AllOpened' <=> AllOpened) /\ Inputs' = Inputs
BY DEF IInv, ListType, ListInv, AllOpened, Inputs, HasArchive, Cached, list

\* Without a plan there is nothing to be undone or asked.
LEMMA InvalidatedStep ==
  ASSUME IInv, Invalidated, (worker' = worker /\ ~IsBusy) \/ worker' = None
  PROVE  PlanType' /\ PlanInv' /\ UndoUnwinds'
<1>1. session' = None /\ choices' = NoChoices /\ undo' = <<>> /\ pendingOverwrite' = FALSE /\ ~IsBusy'
  BY DEF Invalidated, IsBusy
<1>2. choices' \in [Conflict -> Pak \cup {None}] /\ undo' \in Seq(Command) /\ DOMAIN undo' = {}
  BY <1>1 DEF NoChoices
<1>3. \A c \in Conflict : choices'[c] = None
  BY <1>1 DEF NoChoices
<1> QED
  BY <1>1, <1>2, <1>3 DEF PlanType, PlanInv, PlanIsOfTheList, UndoUnwinds

\* Nothing is joined while the window is open.
LEMMA OpenIsNotJoining ==
  ASSUME phase' = phase, phase = "open"
  PROVE  StoppedBeforeJoin'
BY DEF StoppedBeforeJoin

LEMMA FileChangesStep ==
  ASSUME IInv, FileChanges
  PROVE  IInv'
<1>1. /\ UNCHANGED <<list, inspections, plan, worker, phase>> /\ phase = "open"
  BY DEF FileChanges, pool, operation, window
<1> QED
  BY <1>1, PlanStays, FileChangesKeepsPool, OpenIsNotJoining DEF IInv

LEMMA ConsentStep ==
  ASSUME IInv, Withdraw \/ LooksAtConsent \/ Accept
  PROVE  IInv'
<1>1. /\ UNCHANGED <<disk, list, pool, plan, operation, phase>> /\ phase = "open"
  BY DEF Withdraw, LooksAtConsent, Accept, Ready, window
<1>2. UNCHANGED <<list, inspections, plan, worker>> /\ UNCHANGED <<disk, pool>>
  BY <1>1 DEF pool, operation
<1> QED
  BY <1>1, <1>2, PlanStays, PoolStays, OpenIsNotJoining DEF IInv

LEMMA StutterStep ==
  ASSUME IInv, UNCHANGED vars
  PROVE  IInv'
<1>1. UNCHANGED <<list, inspections, plan, worker>> /\ UNCHANGED <<disk, pool>>
  BY DEF vars, pool, operation
<1>2. StoppedBeforeJoin'
  BY DEF IInv, StoppedBeforeJoin, vars, pool, operation, window, Busy, IsBusy
<1> QED
  BY <1>1, <1>2, PlanStays, PoolStays DEF IInv

\* A Pak is added with an inspection of its own.
LEMMA AddPakStep ==
  ASSUME IInv, NEW p \in Pak, AddPak(p)
  PROVE  /\ IInv'
         /\ \A q \in Pak : paks # <<>> /\ q = paks[carrier + 1] => q = paks'[carrier' + 1]
<1> USE DEF IInv
<1>1. /\ phase = "open" /\ ~IsBusy /\ p \notin ToSet(paks) /\ paks' = Append(paks, p)
      /\ carrier' = IF carrier >= Len(paks') THEN 0 ELSE carrier
      /\ Queued(<<p>>, {}) /\ Invalidated /\ UNCHANGED <<disk, worker, phase>>
  BY DEF AddPak, Ready, operation, window
<1>2. PICK ps : ps = <<p>>
  OBVIOUS
<1>3. ps \in Seq(Pak) /\ Len(ps) = 1 /\ ps[1] = p /\ ToSet(ps) = {p}
  BY <1>2 DEF ToSet
<1>4. \A i, j \in 1..Len(ps) : ps[i] = ps[j] => i = j
  BY <1>3
<1>5. ~Cached(p)
  BY <1>1 DEF ListInv
<1>6. PICK gone \in SUBSET Pak : gone = {} /\ Queued(ps, gone)
  BY <1>1, <1>2
<1>7. PoolInv'
  BY <1>1, <1>3, <1>4, <1>5, <1>6, QueuedKeepsPool
<1>8. /\ inspections'[p].status = "pending"
      /\ \A q \in Pak : q # p => inspections'[q] = inspections[q]
  <2>1. PoolType
    BY DEF PoolInv
  <2>2. ps \in Seq(Pak)
    BY <1>3
  <2>3. Queued(ps, gone)
    BY <1>6
  <2>4. /\ \A i \in 1..Len(ps) :
             inspections'[ps[i]] = [status |-> "pending", generation |-> nextGeneration + i - 1,
                                    archive |-> None, since |-> disk[ps[i]]]
        /\ \A q \in Pak \ ToSet(ps) : inspections'[q] = IF q \in gone THEN Absent ELSE inspections[q]
    BY ONLY <2>2, <2>3, <1>4, <2>1, QueuedFacts
  <2>5. 1 \in 1..Len(ps)
    BY <1>3
  <2>6. inspections'[p] = [status |-> "pending", generation |-> nextGeneration + 1 - 1,
                           archive |-> None, since |-> disk[p]]
    BY <1>3, <2>4, <2>5
  <2> QED
    BY <1>3, <1>6, <2>4, <2>6
<1>9. /\ paks \in Seq(Pak) /\ Len(paks) \in Nat /\ carrier \in Nat
      /\ paks' \in Seq(Pak) /\ Len(paks') = Len(paks) + 1 /\ paks'[Len(paks) + 1] = p
      /\ \A i \in 1..Len(paks) : paks'[i] = paks[i]
      /\ paks' # <<>> /\ carrier < Len(paks')
  BY <1>1 DEF ListType, ListInv
<1>10. carrier' = carrier
  BY <1>1, <1>9
<1>11. ListType'
  BY <1>9, <1>10 DEF ListType
<1>12. ListInv'
  <2>1. \A i \in 1..Len(paks) : paks[i] # p
    BY <1>1, <1>9 DEF ToSet
  <2>2. \A i \in 1..Len(paks') : \/ i \in 1..Len(paks) /\ paks'[i] = paks[i]
                                 \/ i = Len(paks) + 1 /\ paks'[i] = p
    BY <1>9
  <2>3. \A i, j \in 1..Len(paks') : paks'[i] = paks'[j] => i = j
    BY <2>1, <2>2 DEF ListInv
  <2>4. ToSet(paks') = ToSet(paks) \cup {p}
    <3>1. Len(paks) + 1 \in 1..Len(paks') /\ \A i \in 1..Len(paks) : i \in 1..Len(paks')
      BY <1>9
    <3> QED
      BY <1>9, <2>2, <3>1 DEF ToSet
  <2>5. \A q \in Pak : Cached(q)' <=> q \in ToSet(paks')
    BY <1>8, <2>4 DEF Cached, ListInv
  <2> QED
    BY <1>9, <1>10, <2>3, <2>5 DEF ListInv
<1>13. PlanType' /\ PlanInv' /\ UndoUnwinds'
  BY <1>1, InvalidatedStep
<1>14. \A q \in Pak : paks # <<>> /\ q = paks[carrier + 1] => q = paks'[carrier' + 1]
  <2>1. paks # <<>> => carrier + 1 \in 1..Len(paks)
    BY <1>9 DEF ListInv
  <2> QED
    BY <1>9, <1>10, <2>1
<1> QED
  BY <1>1, <1>7, <1>11, <1>12, <1>13, <1>14, OpenIsNotJoining

\* The list without one of its Paks.
LEMMA RemovedFacts ==
  ASSUME NEW s \in Seq(Pak), NEW k \in 1..Len(s), NEW r, r = RemoveAt(s, k)
  PROVE  /\ r \in Seq(Pak) /\ Len(s) \in Nat /\ Len(s) >= 1 /\ Len(r) = Len(s) - 1
         /\ \A j \in 1..k - 1 : r[j] = s[j]
         /\ \A j \in k..Len(s) - 1 : r[j] = s[j + 1]
<1>1. PICK a : a = SubSeq(s, 1, k - 1)
  OBVIOUS
<1>2. PICK b : b = SubSeq(s, k + 1, Len(s))
  OBVIOUS
<1>3. Len(s) \in Nat /\ Len(s) >= 1 /\ k \in Nat
  OBVIOUS
<1>4. a \in Seq(Pak) /\ Len(a) = k - 1 /\ \A j \in 1..k - 1 : a[j] = s[j]
  BY <1>1, <1>3
<1>5. b \in Seq(Pak) /\ Len(b) = Len(s) - k /\ \A j \in 1..Len(s) - k : b[j] = s[j + k]
  BY <1>2, <1>3
<1>6. r = a \o b
  BY <1>1, <1>2 DEF RemoveAt
<1>7. r \in Seq(Pak) /\ Len(r) = Len(s) - 1
  BY <1>3, <1>4, <1>5, <1>6
<1>8. \A j \in 1..k - 1 : r[j] = s[j]
  BY <1>3, <1>4, <1>5, <1>6
<1>9. ASSUME NEW j \in k..Len(s) - 1
      PROVE  r[j] = s[j + 1]
  <2>1. PICK n : n = j - (k - 1)
    OBVIOUS
  <2>2. n \in 1..Len(s) - k /\ n + k = j + 1 /\ j \in 1..Len(a) + Len(b) /\ j > Len(a)
    BY <1>3, <1>4, <1>5, <2>1
  <2>3. r[j] = b[n]
    BY <1>4, <1>5, <1>6, <2>1, <2>2
  <2> QED
    BY <1>5, <2>2, <2>3
<1> QED
  BY <1>3, <1>7, <1>8, <1>9

\* A Pak is removed with its inspection, and the base Pak keeps its mark.
LEMMA RemovePakStep ==
  ASSUME IInv, NEW i \in Index, RemovePak(i)
  PROVE  /\ IInv'
         /\ \A q \in Pak : paks # <<>> /\ q = paks[carrier + 1] /\ q \in ToSet(paks')
                             => q = paks'[carrier' + 1]
<1>1. /\ phase = "open" /\ ~IsBusy /\ paks' = RemoveAt(paks, i + 1) /\ carrier' = CarrierAfter(i)
      /\ Queued(<<>>, {paks[i + 1]}) /\ Invalidated /\ UNCHANGED <<disk, worker, phase>>
  BY DEF RemovePak, Ready, operation, window
<1>2. PICK n : n = Len(paks)
  OBVIOUS
<1>3. PICK k : k = i + 1
  OBVIOUS
<1>4. PICK p : p = paks[k]
  OBVIOUS
<1>5. paks \in Seq(Pak) /\ n \in Nat /\ carrier \in Nat /\ i \in Nat /\ i < n /\ k \in 1..n /\ p \in Pak
  BY <1>2, <1>3, <1>4 DEF IInv, ListType, Index
<1>6. paks # <<>> /\ carrier < n
  BY <1>2, <1>5 DEF IInv, ListInv
<1>7. /\ paks' \in Seq(Pak) /\ Len(paks') = n - 1
      /\ \A j \in 1..k - 1 : paks'[j] = paks[j]
      /\ \A j \in k..n - 1 : paks'[j] = paks[j + 1]
  BY <1>1, <1>2, <1>3, <1>5, RemovedFacts
<1>8. \A j, l \in 1..n : paks[j] = paks[l] => j = l
  BY <1>2 DEF IInv, ListInv
<1>9. PICK ps : ps = <<>>
  OBVIOUS
<1>10. PICK gone \in SUBSET Pak : gone = {p} /\ Queued(ps, gone)
  BY <1>1, <1>3, <1>4, <1>5, <1>9
<1>11. ps \in Seq(Pak) /\ ToSet(ps) = {} /\ \A j, l \in 1..Len(ps) : ps[j] = ps[l] => j = l
  BY <1>9 DEF ToSet
<1>12. PoolInv /\ PoolType
  BY DEF IInv, PoolInv
<1>13. PoolInv'
  <2>1. \A q \in ToSet(ps) : Cached(q) => q \in gone
    BY <1>11
  <2> QED
    BY <1>1, <1>10, <1>11, <1>12, <2>1, QueuedKeepsPool
<1>14. \A q \in Pak : inspections'[q] = IF q = p THEN Absent ELSE inspections[q]
  <2>1. ps \in Seq(Pak) /\ Queued(ps, gone)
    BY <1>10, <1>11
  <2>2. \A j, l \in 1..Len(ps) : ps[j] = ps[l] => j = l
    BY <1>11
  <2>3. \A q \in Pak \ ToSet(ps) : inspections'[q] = IF q \in gone THEN Absent ELSE inspections[q]
    BY ONLY <1>12, <2>1, <2>2, QueuedFacts
  <2> QED
    BY <1>10, <1>11, <2>3
<1>15. ASSUME NEW j \in 1..n - 1
       PROVE  \/ j \in 1..k - 1 /\ j \in 1..n /\ j # k /\ paks'[j] = paks[j]
              \/ j \in k..n - 1 /\ j + 1 \in 1..n /\ j + 1 # k /\ paks'[j] = paks[j + 1]
  <2>1. CASE j < k
    <3>1. j \in 1..k - 1 /\ j \in 1..n /\ j # k
      BY <1>5, <2>1
    <3> QED
      BY <1>7, <3>1
  <2>2. CASE j >= k
    <3>1. j \in k..n - 1 /\ j + 1 \in 1..n /\ j + 1 # k
      BY <1>5, <2>2
    <3> QED
      BY <1>7, <3>1
  <2> QED
    BY <1>5, <2>1, <2>2
<1>16. ToSet(paks') = ToSet(paks) \ {p}
  <2>1. ToSet(paks) = {paks[j] : j \in 1..n} /\ ToSet(paks') = {paks'[j] : j \in 1..n - 1}
    <3>1. DOMAIN paks = 1..n /\ DOMAIN paks' = 1..n - 1
      BY <1>2, <1>5, <1>7
    <3> QED
      BY ONLY <3>1 DEF ToSet
  <2>2. ASSUME NEW j \in 1..n - 1
        PROVE  paks'[j] \in ToSet(paks) /\ paks'[j] # p
    BY <1>4, <1>5, <1>8, <1>15, <2>1, <2>2
  <2>3. ASSUME NEW j \in 1..n, paks[j] # p
        PROVE  paks[j] \in ToSet(paks')
    <3>1. CASE j < k
      <4>1. j \in 1..n - 1 /\ paks'[j] = paks[j]
        BY <1>5, <1>7, <3>1
      <4> QED
        BY <2>1, <4>1
    <3>2. CASE j > k
      <4>1. PICK l : l = j - 1
        OBVIOUS
      <4>2. l \in 1..n - 1 /\ l \in k..n - 1 /\ l + 1 = j
        BY <1>5, <3>2, <4>1
      <4>3. paks'[l] = paks[j]
        BY <1>7, <4>2
      <4> QED
        BY <2>1, <4>2, <4>3
    <3> QED
      BY <1>4, <1>5, <2>3, <3>1, <3>2
  <2> QED
    BY <2>1, <2>2, <2>3
<1>17. /\ n = 1 => carrier' = 0
       /\ n # 1 /\ i < carrier => carrier' = carrier - 1
       /\ n # 1 /\ i >= carrier => carrier' = IF carrier <= n - 2 THEN carrier ELSE n - 2
  BY <1>1, <1>2, <1>5 DEF CarrierAfter, Min2
<1>18. ListType'
  BY <1>5, <1>7, <1>17 DEF ListType
<1>19. ListInv'
  <2>1. ASSUME NEW j \in 1..n - 1, NEW l \in 1..n - 1, paks'[j] = paks'[l]
        PROVE  j = l
    BY <1>5, <1>8, <1>15, <2>1
  <2>2. IF paks' = <<>> THEN carrier' = 0 ELSE carrier' < n - 1
    <3>1. paks' = <<>> <=> n = 1
      BY <1>5, <1>7
    <3> QED
      BY <1>5, <1>6, <1>17, <3>1
  <2>3. \A q \in Pak : Cached(q)' <=> q \in ToSet(paks')
    BY <1>14, <1>16 DEF IInv, ListInv, Cached, Absent
  <2> QED
    BY <1>7, <2>1, <2>2, <2>3 DEF ListInv
<1>20. PlanType' /\ PlanInv' /\ UndoUnwinds'
  BY <1>1, InvalidatedStep
<1>21. ASSUME NEW q \in Pak, q = paks[carrier + 1], q \in ToSet(paks')
       PROVE  q = paks'[carrier' + 1]
  <2>1. carrier + 1 # k /\ carrier + 1 \in 1..n
    BY <1>4, <1>5, <1>6, <1>16, <1>21
  <2>2. CASE i < carrier
    <3>1. n # 1 /\ carrier' + 1 = carrier /\ carrier \in k..n - 1
      BY <1>3, <1>5, <1>6, <1>17, <2>2
    <3> QED
      BY <1>7, <1>21, <3>1
  <2>3. CASE i > carrier
    <3>1. n # 1 /\ carrier' = carrier /\ carrier + 1 \in 1..k - 1
      BY <1>3, <1>5, <1>6, <1>17, <2>3
    <3> QED
      BY <1>7, <1>21, <3>1
  <2> QED
    BY <1>3, <1>5, <2>1, <2>2, <2>3
<1> QED
  BY <1>1, <1>13, <1>18, <1>19, <1>20, <1>21, OpenIsNotJoining DEF IInv

\* Another base Pak is marked.
LEMMA SetCarrierStep ==
  ASSUME IInv, NEW i \in Index, SetCarrier(i)
  PROVE  IInv' /\ paks' = paks
<1>1. /\ phase = "open" /\ ~IsBusy /\ carrier' = i /\ Invalidated
      /\ UNCHANGED <<disk, paks, pool, worker, phase>>
  BY DEF SetCarrier, Ready, operation, window
<1>2. paks \in Seq(Pak) /\ Len(paks) \in Nat /\ i \in Nat /\ i < Len(paks)
  BY DEF IInv, ListType, Index
<1>3. ListType' /\ ListInv'
  BY <1>1, <1>2 DEF IInv, ListType, ListInv, Cached, pool
<1>4. PlanType' /\ PlanInv' /\ UndoUnwinds'
  BY <1>1, InvalidatedStep
<1>5. PoolInv'
  BY <1>1, PoolStays DEF IInv
<1> QED
  BY <1>1, <1>3, <1>4, <1>5, OpenIsNotJoining DEF IInv

\* The threads leave the window as it is, and hold no job that may go on when it
\* is being closed.
LEMMA InspectStep ==
  ASSUME IInv, NEW i \in Inspector, Inspect(i)
  PROVE  IInv' /\ paks' = paks
<1>1. /\ UNCHANGED <<disk, list, plan, worker, workerStopped, phase, inspections, stopped>>
      /\ Take(i) \/ Send(i) \/ Leave(i)
  BY DEF Inspect, operation, window, Take, Send, Leave
<1>2. PoolInv'
  BY <1>1, TakeKeepsPool, SendKeepsPool, LeaveKeepsPool DEF IInv
<1>3. inspector \in [Inspector -> TakenJob \cup {Waiting, Gone}] /\ requests \in Seq(Job)
  BY DEF IInv, PoolInv, PoolType
<1>4. StoppedBeforeJoin'
  <2>1. \A j \in Inspector : j # i => inspector'[j] = inspector[j]
    BY <1>1, <1>3 DEF Take, Send, Leave
  <2>2. CASE phase # "closing"
    BY <1>1, <2>2 DEF StoppedBeforeJoin
  <2>3. CASE phase = "closing"
    <3>1. /\ \A j \in 1..Len(requests) : requests[j].generation \in stopped
          /\ \A j \in Inspector : Busy(j) => inspector[j].generation \in stopped
          /\ IsBusy => workerStopped
      BY <2>3 DEF IInv, StoppedBeforeJoin
    <3>2. \A j \in Inspector : j # i /\ Busy(j)' => inspector'[j].generation \in stopped
      BY <2>1, <3>1 DEF Busy
    <3>3. CASE Take(i)
      <4>1. Len(requests) \in Nat /\ Len(requests) >= 1 /\ 1 \in 1..Len(requests)
        BY <1>3, <3>3 DEF Take
      <4>2. inspector'[i].generation = requests[1].generation
        BY <1>3, <3>3 DEF Take
      <4>3. Len(requests') = Len(requests) - 1 /\ \A j \in 1..Len(requests) - 1 : requests'[j] = requests[j + 1]
        BY <1>3, <3>3, <4>1 DEF Take
      <4>4. \A j \in 1..Len(requests') : j + 1 \in 1..Len(requests) /\ requests'[j] = requests[j + 1]
        BY <4>1, <4>3
      <4> QED
        BY <1>1, <3>1, <3>2, <4>1, <4>2, <4>4 DEF StoppedBeforeJoin, IsBusy
    <3>4. CASE Send(i) \/ Leave(i)
      <4>1. requests' = requests /\ ~Busy(i)'
        BY <1>3, <3>4 DEF Send, Leave, Busy
      <4> QED
        BY <1>1, <3>1, <3>2, <4>1 DEF StoppedBeforeJoin, IsBusy
    <3> QED
      BY <1>1, <3>3, <3>4
  <2> QED
    BY <2>2, <2>3
<1>5. ListType' /\ PlanType' /\ ListInv' /\ PlanInv' /\ UndoUnwinds'
  BY <1>1, PlanStays
<1> QED
  BY <1>1, <1>2, <1>4, <1>5 DEF IInv, list

\* A result changes what is awaited, never an archive that is shown.
LEMMA PollInspectionsStep ==
  ASSUME IInv, PollInspections
  PROVE  IInv' /\ paks' = paks
<1>1. phase = "open" /\ UNCHANGED <<disk, list, plan, worker, phase>>
  BY DEF PollInspections, Ready, operation, window
<1>2. PoolInv' /\ PoolInv
  BY PollKeepsPool DEF IInv
<1>3. PICK m : m = Head(results)
  OBVIOUS
<1>4. /\ m = results[1] /\ Len(results) \in Nat /\ Len(results) >= 1
      /\ \A p \in Pak :
           \/ inspections'[p] = inspections[p]
           \/ /\ p = m.pak /\ Awaits(p, m.generation)
              /\ inspections'[p].status \in {"failed", "supported"}
  BY <1>2, <1>3, PollParts
<1>5. \A p \in Pak : HasArchive(p) => inspections'[p] = inspections[p]
  <2>1. 1 \in 1..Len(results)
    BY <1>4
  <2>2. \A p \in Pak : HasArchive(p) => ~Awaits(p, m.generation)
    BY <1>2, <1>4, <2>1 DEF PoolInv, AnsweredInv, Awaits
  <2> QED
    BY <1>4, <2>2
<1>6. \A p \in Pak : Cached(p)' <=> Cached(p)
  BY <1>4 DEF Cached, Awaits
<1>7. paks \in Seq(Pak) /\ ToSet(paks) \subseteq Pak
  BY DEF IInv, ListType, ToSet
<1>8. ListType' /\ ListInv'
  BY <1>1, <1>6 DEF IInv, ListType, ListInv, list
<1>9. AllOpened => AllOpened' /\ Inputs' = Inputs
  <2>1. ASSUME AllOpened, NEW p \in ToSet(paks)
        PROVE  inspections'[p] = inspections[p] /\ HasArchive(p)'
    BY <1>5, <1>7, <2>1 DEF AllOpened, HasArchive, Cached
  <2>2. ASSUME AllOpened
        PROVE  AllOpened'
    BY <1>1, <2>1, <2>2 DEF AllOpened, list
  <2>3. ASSUME AllOpened
        PROVE  [p \in ToSet(paks) |-> inspections'[p].archive] = [p \in ToSet(paks) |-> inspections[p].archive]
    BY <2>1, <2>3
  <2> QED
    BY <1>1, <2>2, <2>3 DEF Inputs, list
<1>10. PlanInv'
  BY <1>1, <1>9 DEF IInv, PlanInv, PlanIsOfTheList, Unresolved, IsBusy, plan, list
<1>11. PlanType' /\ UndoUnwinds'
  BY <1>1 DEF IInv, PlanType, UndoUnwinds, IsBusy, plan
<1> QED
  BY <1>1, <1>2, <1>8, <1>10, <1>11, OpenIsNotJoining DEF IInv, list
-----------------------------------------------------------------------------
(***************************************************************************)
(* Operations and choices                                                  *)
(***************************************************************************)
\* A question is asked while nothing runs.
LEMMA QuestionsWait ==
  ASSUME IInv
  PROVE  pendingOverwrite => session # None /\ Unresolved = {} /\ ~IsBusy
BY DEF IInv, PlanInv, PlanIsOfTheList

\* What the steps of this part leave alone.
LEMMA OperationFrame ==
  ASSUME IInv, UNCHANGED <<disk, list, pool>>, phase' = phase, phase = "open"
  PROVE  /\ ListType' /\ ListInv' /\ PoolInv' /\ StoppedBeforeJoin'
         /\ (AllOpened' <=> AllOpened) /\ Inputs' = Inputs
  <1>1. inspections' = inspections
    BY DEF pool
  <1> QED
    BY <1>1, ListStays, PoolStays, OpenIsNotJoining DEF IInv

LEMMA StartAnalysisStep ==
  ASSUME IInv, StartAnalysis
  PROVE  IInv' /\ paks' = paks
<1>1. /\ phase = "open" /\ Len(paks) >= 2 /\ \A p \in ToSet(paks) : HasArchive(p)
      /\ worker' = Operation("analysis", Inputs, FALSE) /\ Invalidated
      /\ UNCHANGED <<disk, list, pool, phase>>
  BY DEF StartAnalysis, Start, Ready, window
<1>2. AllOpened
  BY <1>1 DEF AllOpened
<1>3. ListType' /\ ListInv' /\ PoolInv' /\ StoppedBeforeJoin' /\ AllOpened' /\ Inputs' = Inputs
  BY <1>1, <1>2, OperationFrame
<1>4. /\ session' = None /\ choices' = NoChoices /\ undo' = <<>> /\ pendingOverwrite' = FALSE
      /\ worker' = [kind |-> "analysis", inputs |-> Inputs, overwrite |-> FALSE, result |-> None]
  BY <1>1 DEF Invalidated, Operation
<1>5. PlanType'
  BY <1>4 DEF PlanType, NoChoices
<1>6. UndoUnwinds'
  BY <1>4 DEF UndoUnwinds, NoChoices
<1>7. PlanInv'
  BY <1>3, <1>4 DEF PlanInv, PlanIsOfTheList
<1> QED
  BY <1>1, <1>3, <1>5, <1>6, <1>7 DEF IInv, list

LEMMA MergeStep ==
  ASSUME IInv, NEW overwrite \in BOOLEAN, worker' = Operation("merge", session, overwrite),
         UNCHANGED <<disk, list, pool, session, choices, undo, phase>>,
         pendingOverwrite' = FALSE, phase = "open"
  PROVE  IInv' /\ paks' = paks
<1>1. /\ ListType' /\ ListInv' /\ PoolInv' /\ StoppedBeforeJoin'
      /\ (AllOpened' <=> AllOpened) /\ Inputs' = Inputs
  BY OperationFrame
<1>2. worker' = [kind |-> "merge", inputs |-> session, overwrite |-> overwrite, result |-> None]
  BY DEF Operation
<1>3. PlanType'
  BY <1>2 DEF IInv, PlanType
<1>4. UndoUnwinds'
  BY DEF IInv, UndoUnwinds
<1>5. PlanInv'
  BY <1>1, <1>2 DEF IInv, PlanInv, PlanIsOfTheList, list
<1> QED
  BY <1>1, <1>3, <1>4, <1>5 DEF IInv, list

LEMMA QuestionStep ==
  ASSUME IInv, AskOverwrite \/ KeepExisting
  PROVE  IInv' /\ paks' = paks
<1>1. /\ phase = "open" /\ UNCHANGED <<disk, list, pool, session, choices, undo, worker, phase>>
      /\ pendingOverwrite' => session # None /\ Unresolved = {} /\ ~IsBusy
  BY DEF AskOverwrite, KeepExisting, CanMerge, Ready, operation, window
<1>2. /\ ListType' /\ ListInv' /\ PoolInv' /\ StoppedBeforeJoin'
      /\ (AllOpened' <=> AllOpened) /\ Inputs' = Inputs
  BY <1>1, OperationFrame
<1>3. PlanType' /\ UndoUnwinds'
  BY <1>1 DEF IInv, PlanType, UndoUnwinds, IsBusy
<1>4. PlanInv'
  BY <1>1, <1>2 DEF IInv, PlanInv, PlanIsOfTheList, Unresolved, IsBusy, list
<1> QED
  BY <1>1, <1>2, <1>3, <1>4 DEF IInv, list

LEMMA MergeToNewStep ==
  ASSUME IInv, MergeToNew
  PROVE  IInv' /\ paks' = paks
<1>1. /\ phase = "open" /\ worker' = Operation("merge", session, FALSE)
      /\ UNCHANGED <<disk, list, pool, session, choices, undo, phase>>
      /\ ~pendingOverwrite /\ UNCHANGED pendingOverwrite
  BY DEF MergeToNew, StartMerge, Start, Ready, window
<1>2. pendingOverwrite' = FALSE
  BY <1>1 DEF IInv, PlanInv, PlanIsOfTheList
<1> QED
  BY <1>1, <1>2, MergeStep

LEMMA ReplaceStep ==
  ASSUME IInv, Replace
  PROVE  IInv' /\ paks' = paks
<1>1. /\ phase = "open" /\ pendingOverwrite' = FALSE
      /\ UNCHANGED <<disk, list, pool, session, choices, undo, phase>>
      /\ \/ worker' = Operation("merge", session, TRUE)
         \/ UNCHANGED worker
  BY DEF Replace, StartMerge, Start, Ready, operation, window
<1>2. CASE worker' = Operation("merge", session, TRUE)
  BY <1>1, <1>2, MergeStep
<1>3. CASE UNCHANGED worker
  <2>1. /\ ListType' /\ ListInv' /\ PoolInv' /\ StoppedBeforeJoin'
        /\ (AllOpened' <=> AllOpened) /\ Inputs' = Inputs
    BY <1>1, OperationFrame
  <2>2. PlanType' /\ UndoUnwinds'
    BY <1>1, <1>3 DEF IInv, PlanType, UndoUnwinds, IsBusy
  <2>3. PlanInv'
    BY <1>1, <1>3, <2>1 DEF IInv, PlanInv, PlanIsOfTheList, Unresolved, IsBusy, list
  <2> QED
    BY <1>1, <2>1, <2>2, <2>3 DEF IInv, list
<1> QED
  BY <1>1, <1>2, <1>3

LEMMA CancelStep ==
  ASSUME IInv, CancelOperation
  PROVE  IInv' /\ paks' = paks
<1>1. phase = "open" /\ UNCHANGED <<disk, list, pool, plan, worker, phase>>
  BY DEF CancelOperation, Ready, window
<1>2. UNCHANGED <<list, inspections, plan, worker>> /\ UNCHANGED <<disk, pool>>
  BY <1>1 DEF pool
<1> QED
  BY <1>1, <1>2, PlanStays, PoolStays, OpenIsNotJoining DEF IInv, list

\* The thread of the operation says how it ends, and nothing else.
LEMMA WorkerThreadStep ==
  ASSUME IInv, WorkerThread
  PROVE  IInv' /\ paks' = paks
<1>1. /\ IsBusy /\ UNCHANGED <<disk, list, pool, plan, workerStopped, phase>>
      /\ \E r \in {"failed", "changed", "verified", "done"} : worker' = [worker EXCEPT !.result = r]
  BY DEF WorkerThread, Verify, Finish, window
<1>2. PICK r \in {"failed", "changed", "verified", "done"} : worker' = [worker EXCEPT !.result = r]
  BY <1>1
<1>3. worker = [kind |-> worker.kind, inputs |-> worker.inputs,
                overwrite |-> worker.overwrite, result |-> worker.result]
  BY <1>1 DEF IInv, PlanType
<1>4. worker' = [kind |-> worker.kind, inputs |-> worker.inputs,
                 overwrite |-> worker.overwrite, result |-> r]
  BY <1>2, <1>3
<1>5. /\ worker'.kind = worker.kind /\ worker'.inputs = worker.inputs
      /\ worker' = [kind |-> worker'.kind, inputs |-> worker'.inputs,
                    overwrite |-> worker'.overwrite, result |-> worker'.result]
  BY <1>4
<1>6. ListType' /\ ListInv' /\ (AllOpened' <=> AllOpened) /\ Inputs' = Inputs
  <2>1. UNCHANGED <<list, inspections>>
    BY <1>1 DEF pool
  <2> QED
    BY <2>1, ListStays
<1>7. PlanType' /\ UndoUnwinds'
  BY <1>1, <1>5 DEF IInv, PlanType, UndoUnwinds, plan
<1>8. PlanInv'
  BY <1>1, <1>5, <1>6 DEF IInv, PlanInv, PlanIsOfTheList, Unresolved, IsBusy, plan, list
<1>9. StoppedBeforeJoin'
  BY <1>1 DEF IInv, StoppedBeforeJoin, Busy, IsBusy, pool
<1>10. PoolInv'
  BY <1>1, PoolStays DEF IInv
<1> QED
  BY <1>1, <1>6, <1>7, <1>8, <1>9, <1>10 DEF IInv, list

\* What an operation leaves: a session, every Pak asked for again, or nothing.
LEMMA PollWorkerStep ==
  ASSUME IInv, PollWorker
  PROVE  IInv' /\ paks' = paks
<1>1. phase = "open" /\ IsBusy /\ worker' = None /\ ~IsBusy' /\ UNCHANGED <<disk, list, phase>>
  BY DEF PollWorker, Ready, Ended, window, IsBusy
<1>2. CASE /\ worker.kind = "analysis"
           /\ session' = worker.inputs /\ choices' = NoChoices /\ undo' = <<>>
           /\ UNCHANGED <<pendingOverwrite, pool>>
  <2>1. ListType' /\ ListInv' /\ PoolInv' /\ StoppedBeforeJoin' /\ (AllOpened' <=> AllOpened) /\ Inputs' = Inputs
    BY <1>1, <1>2, OperationFrame
  <2>2. AllOpened /\ session' = Inputs
    BY <1>1, <1>2 DEF IInv, PlanInv
  <2>3. ~pendingOverwrite'
    BY <1>1, <1>2, QuestionsWait
  <2>4. PlanInv'
    BY <1>1, <2>1, <2>2, <2>3 DEF PlanInv, PlanIsOfTheList, AllOpened
  <2>5. PlanType' /\ UndoUnwinds'
    BY <1>1, <1>2 DEF PlanType, UndoUnwinds, NoChoices
  <2> QED
    BY <1>1, <2>1, <2>4, <2>5 DEF IInv, list
<1>3. CASE Invalidated /\ Queued(paks, ToSet(paks))
  <2>1. PICK ps : ps = paks
    OBVIOUS
  <2>2. PICK gone \in SUBSET Pak : gone = ToSet(ps)
    <3>1. ToSet(ps) \subseteq Pak
      BY <2>1 DEF IInv, ListType, ToSet
    <3> QED
      BY <3>1
  <2>3. ps \in Seq(Pak) /\ \A i, j \in 1..Len(ps) : ps[i] = ps[j] => i = j
    BY <2>1 DEF IInv, ListType, ListInv
  <2>4. Queued(ps, gone) /\ PoolInv /\ PoolType
    BY <1>3, <2>1, <2>2 DEF IInv, PoolInv
  <2>5. PoolInv'
    BY <1>1, <2>2, <2>3, <2>4, QueuedKeepsPool
  <2>6. ps \in Seq(Pak)
    BY <2>3
  <2>7. \A i, j \in 1..Len(ps) : ps[i] = ps[j] => i = j
    BY <2>3
  <2>8. Queued(ps, gone)
    BY <2>4
  <2>9. PoolType
    BY <2>4
  <2>10. /\ \A i \in 1..Len(ps) :
              inspections'[ps[i]] = [status |-> "pending", generation |-> nextGeneration + i - 1,
                                     archive |-> None, since |-> disk[ps[i]]]
         /\ \A q \in Pak \ ToSet(ps) : inspections'[q] = IF q \in gone THEN Absent ELSE inspections[q]
    BY ONLY <2>6, <2>7, <2>8, <2>9, QueuedFacts
  <2>11. \A q \in ToSet(ps) : inspections'[q].status = "pending"
    <3>1. ToSet(ps) = {ps[i] : i \in 1..Len(ps)}
      BY <2>6 DEF ToSet
    <3>2. ASSUME NEW i \in 1..Len(ps)
          PROVE  inspections'[ps[i]].status = "pending"
      <4>1. PICK g : g = nextGeneration + i - 1
        OBVIOUS
      <4>2. PICK d : d = disk[ps[i]]
        OBVIOUS
      <4>3. inspections'[ps[i]] = [status |-> "pending", generation |-> g, archive |-> None, since |-> d]
        BY <2>10, <4>1, <4>2
      <4> QED
        BY ONLY <4>3
    <3> QED
      BY <3>1, <3>2
  <2>12. \A q \in Pak : Cached(q)' <=> Cached(q)
    <3>1. \A q \in Pak : q \in ToSet(ps) => Cached(q)
      BY <2>1 DEF IInv, ListInv
    <3> QED
      BY <2>2, <2>10, <2>11, <3>1 DEF Cached
  <2>13. ListType' /\ ListInv'
    BY <1>1, <2>12 DEF IInv, ListType, ListInv, list
  <2>14. PlanType' /\ PlanInv' /\ UndoUnwinds'
    BY <1>1, <1>3, InvalidatedStep
  <2> QED
    BY <1>1, <2>5, <2>13, <2>14, OpenIsNotJoining DEF IInv, list
<1>4. CASE UNCHANGED <<plan, pool>>
  <2>1. ListType' /\ ListInv' /\ PoolInv' /\ StoppedBeforeJoin' /\ (AllOpened' <=> AllOpened) /\ Inputs' = Inputs
    BY <1>1, <1>4, OperationFrame
  <2>2. ~pendingOverwrite'
    BY <1>1, <1>4, QuestionsWait DEF plan
  <2>3. PlanInv'
    BY <1>1, <1>4, <2>1, <2>2 DEF IInv, PlanInv, PlanIsOfTheList, plan, list
  <2>4. PlanType' /\ UndoUnwinds'
    BY <1>1, <1>4 DEF IInv, PlanType, UndoUnwinds, plan
  <2> QED
    BY <1>1, <2>1, <2>3, <2>4 DEF IInv, list
<1> QED
  BY <1>2, <1>3, <1>4 DEF PollWorker

\* Choices are made while nothing is asked, and change neither list nor plan.
LEMMA ChoiceStep ==
  ASSUME IInv, MayChoose, UNCHANGED Rest, PlanType', UndoUnwinds'
  PROVE  IInv' /\ paks' = paks
<1>1. /\ phase = "open" /\ ~pendingOverwrite
      /\ UNCHANGED <<disk, list, pool, session, pendingOverwrite, worker, phase>>
  BY DEF MayChoose, Ready, Rest, operation, window
<1>2. /\ ListType' /\ ListInv' /\ PoolInv' /\ StoppedBeforeJoin'
      /\ (AllOpened' <=> AllOpened) /\ Inputs' = Inputs
  BY <1>1, OperationFrame
<1>3. PlanInv'
  BY <1>1, <1>2 DEF IInv, PlanInv, PlanIsOfTheList, IsBusy, list
<1> QED
  BY <1>1, <1>2, <1>3 DEF IInv, list

LEMMA ChoicesStep ==
  ASSUME IInv, \/ \E p \in Pak : ApplyBulk(p) \/ \E c \in Conflict : ChooseVariant(c, p)
               \/ UndoLast
  PROVE  IInv' /\ paks' = paks
<1>1. MayChoose /\ UNCHANGED Rest /\ worker' = worker
  BY DEF ApplyBulk, ChooseVariant, UndoLast, Rest, operation
<1>2. CASE \E p \in Pak : ApplyBulk(p) \/ \E c \in Conflict : ChooseVariant(c, p)
  <2>1. PICK p \in Pak : ApplyBulk(p) \/ \E c \in Conflict : ChooseVariant(c, p)
    BY <1>2
  <2>2. PICK cs \in SUBSET Conflict : Applied(cs, p)
    <3>1. CASE ApplyBulk(p)
      <4>1. BulkUpdates(p) \in SUBSET Conflict /\ Applied(BulkUpdates(p), p)
        BY <3>1 DEF ApplyBulk, BulkUpdates, Unresolved
      <4> QED
        BY <4>1
    <3>2. CASE \E c \in Conflict : ChooseVariant(c, p)
      BY <3>2 DEF ChooseVariant
    <3> QED
      BY <2>1, <3>1, <3>2
  <2>3. PlanType' /\ UndoUnwinds'
    BY <1>1, <2>2, AppliedStep
  <2> QED
    BY <1>1, <2>3, ChoiceStep
<1>3. CASE UndoLast
  <2>1. PlanType' /\ UndoUnwinds'
    BY <1>1, <1>3, UndoStep DEF UndoLast
  <2> QED
    BY <1>1, <2>1, ChoiceStep
<1> QED
  BY <1>2, <1>3

\* Closing tells every job to stop: one that was not told has an inspection.
LEMMA CloseStep ==
  ASSUME IInv, Close
  PROVE  IInv' /\ paks' = paks
<1>1. /\ phase' = "closing" /\ workerStopped' = IsBusy
      /\ stopped' = stopped \cup {inspections[p].generation : p \in {q \in Pak : Cached(q)}}
      /\ UNCHANGED <<disk, list, inspections, requests, inspector, plan, worker>>
  BY DEF Close, StopAll
<1>2. PoolInv /\ PoolInv'
  BY CloseKeepsPool DEF IInv
<1>3. \A g : Stoppable(g) => g \in stopped'
  BY <1>1 DEF Stoppable, Awaits
<1>4. StoppedBeforeJoin'
  BY <1>1, <1>2, <1>3 DEF PoolInv, StopInv, StoppedBeforeJoin, Busy, IsBusy
<1>5. ListType' /\ PlanType' /\ ListInv' /\ PlanInv' /\ UndoUnwinds'
  BY <1>1, PlanStays
<1> QED
  BY <1>1, <1>2, <1>4, <1>5 DEF IInv, list

LEMMA ClosedStep ==
  ASSUME IInv, Closed
  PROVE  IInv' /\ paks' = paks
<1>1. phase' = "closed" /\ worker' = None /\ ~IsBusy' /\ UNCHANGED <<disk, list, pool, plan>>
  BY DEF Closed, IsBusy
<1>2. UNCHANGED <<list, inspections>> /\ UNCHANGED <<disk, pool>>
  BY <1>1 DEF pool
<1>3. PoolInv' /\ ListType' /\ ListInv' /\ (AllOpened' <=> AllOpened) /\ Inputs' = Inputs
  BY <1>2, PoolStays, ListStays DEF IInv
<1>4. PlanInv' /\ PlanType' /\ UndoUnwinds'
  BY <1>1, <1>3 DEF IInv, PlanInv, PlanIsOfTheList, PlanType, UndoUnwinds, Unresolved, plan, list
<1>5. StoppedBeforeJoin'
  BY <1>1 DEF StoppedBeforeJoin
<1> QED
  BY <1>1, <1>3, <1>4, <1>5 DEF IInv, list
-----------------------------------------------------------------------------
(***************************************************************************)
(* The invariant                                                           *)
(***************************************************************************)
LEMMA InitIInv == Init => IInv
<1> SUFFICES ASSUME Init PROVE IInv
  OBVIOUS
<1> USE DEF Init
<1>1. /\ \A p \in Pak : inspections[p] = Absent /\ ~Cached(p) /\ ~HasArchive(p)
      /\ \A i \in Inspector : inspector[i] = Waiting /\ ~Busy(i) /\ inspector[i].generation = 0
      /\ Len(requests) = 0 /\ Len(results) = 0 /\ Len(paks) = 0 /\ ToSet(paks) = {}
      /\ ~IsBusy
  BY DEF Cached, HasArchive, Absent, Waiting, Busy, IsBusy, ToSet
<1>2. ListType /\ ListInv /\ PlanType /\ PlanInv
  BY <1>1 DEF ListType, ListInv, PlanType, PlanInv, PlanIsOfTheList, NoChoices
<1>3. PoolType
  BY <1>1 DEF PoolType, Generation
<1>4. JobInv /\ OnceInv /\ AnsweredInv /\ FreshInv /\ StopInv
  BY <1>1 DEF JobInv, OnceInv, AnsweredInv, FreshInv, StopInv, ArchivesAreFresh
<1>5. StoppedBeforeJoin /\ UndoUnwinds
  BY <1>1 DEF StoppedBeforeJoin, UndoUnwinds, NoChoices
<1> QED
  BY <1>2, <1>3, <1>4, <1>5 DEF IInv, PoolInv

\* Every step keeps the invariant, and the base Pak while it is in the list.
BasePakKept ==
  \A p \in Pak : (paks # <<>> /\ paks' # paks /\ p = paks[carrier + 1] /\ p \in ToSet(paks'))
                   => p = paks'[carrier' + 1]

LEMMA StepKeepsIInv ==
  ASSUME IInv, [Next]_vars
  PROVE  IInv' /\ BasePakKept
<1>1. CASE FileChanges \/ Withdraw \/ LooksAtConsent \/ Accept
  <2>1. paks' = paks
    BY <1>1 DEF FileChanges, Withdraw, LooksAtConsent, Accept, list
  <2> QED
    BY <1>1, <2>1, FileChangesStep, ConsentStep DEF BasePakKept
<1>2. CASE \E p \in Pak : AddPak(p)
  BY <1>2, AddPakStep DEF BasePakKept
<1>3. CASE (\E p \in Pak : ApplyBulk(p) \/ \E c \in Conflict : ChooseVariant(c, p)) \/ UndoLast
  BY <1>3, ChoicesStep DEF BasePakKept
<1>4. CASE \E i \in Index : RemovePak(i) \/ SetCarrier(i)
  BY <1>4, RemovePakStep, SetCarrierStep DEF BasePakKept
<1>5. CASE \E i \in Inspector : Inspect(i)
  BY <1>5, InspectStep DEF BasePakKept
<1>6. CASE PollInspections \/ PollWorker \/ WorkerThread
  BY <1>6, PollInspectionsStep, PollWorkerStep, WorkerThreadStep DEF BasePakKept
<1>7. CASE StartAnalysis \/ AskOverwrite \/ MergeToNew \/ Replace \/ KeepExisting \/ CancelOperation
  BY <1>7, StartAnalysisStep, QuestionStep, MergeToNewStep, ReplaceStep, CancelStep DEF BasePakKept
<1>8. CASE Close \/ Closed
  BY <1>8, CloseStep, ClosedStep DEF BasePakKept
<1>9. CASE UNCHANGED vars
  <2>1. paks' = paks
    BY <1>9 DEF vars, list
  <2> QED
    BY <1>9, <2>1, StutterStep DEF BasePakKept
<1> QED
  BY <1>1, <1>2, <1>3, <1>4, <1>5, <1>6, <1>7, <1>8, <1>9 DEF Next

THEOREM Invariance == Spec => []IInv
<1>1. Init => IInv
  BY InitIInv
<1>2. IInv /\ [Next]_vars => IInv'
  BY StepKeepsIInv
<1> QED
  BY <1>1, <1>2, PTL DEF Spec

\* What is on the screen is of the Paks in the list (PlanIsOfTheList).
THEOREM PlansAreOfTheList == Spec => []PlanIsOfTheList
<1>1. IInv => PlanIsOfTheList
  BY DEF IInv, PlanInv
<1> QED
  BY <1>1, Invariance, PTL

\* A late result never stands for a later inspection (ArchivesAreFresh).
THEOREM ShownArchivesAreFresh == Spec => []ArchivesAreFresh
<1>1. IInv => ArchivesAreFresh
  BY DEF IInv, PoolInv, FreshInv
<1> QED
  BY <1>1, Invariance, PTL

\* Undoing everything leads back to no choice (UndoUnwinds).
THEOREM UndoLeadsBack == Spec => []UndoUnwinds
<1>1. IInv => UndoUnwinds
  BY DEF IInv
<1> QED
  BY <1>1, Invariance, PTL

\* No thread is joined that was not told to stop (StoppedBeforeJoin).
THEOREM JoinedThreadsAreStopped == Spec => []StoppedBeforeJoin
<1>1. IInv => StoppedBeforeJoin
  BY DEF IInv
<1> QED
  BY <1>1, Invariance, PTL

\* The base Pak is moved by its own removal alone (BasePakStays).
THEOREM BasePakIsKept == Spec => BasePakStays
<1>1. IInv /\ [Next]_vars => [BasePakKept]_vars
  BY StepKeepsIInv
<1>2. [][BasePakKept]_vars <=> BasePakStays
  BY DEF BasePakKept, BasePakStays
<1> QED
  BY <1>1, <1>2, Invariance, PTL DEF Spec
=============================================================================
