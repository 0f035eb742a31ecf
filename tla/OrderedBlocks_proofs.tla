------------------------ MODULE OrderedBlocks_proofs ------------------------
(***************************************************************************)
(* Proofs about the compression pipeline, for any number of blocks and of  *)
(* workers: its type invariant, its window, that no block is worked on     *)
(* twice, and that its steps are those of a sequential loop.               *)
(***************************************************************************)
EXTENDS OrderedBlocks, FiniteSetTheorems, TLAPS

\* The scheduler's own bookkeeping, and how far the caller is ahead of it.
SchedulerInv ==
  /\ allowed_exclusive = Least(consumed + Window, N)
  /\ next_to_consume = IF main = "publish" THEN consumed + 1 ELSE consumed
  /\ next_to_consume <= next_to_schedule
  /\ next_to_schedule <= allowed_exclusive

\* Whatever is held was scheduled.
HeldWasScheduled ==
  /\ \A w \in Working : item[w] < next_to_schedule
  /\ \A i \in DOMAIN channel : channel[i].index < next_to_schedule
  /\ \A m \in pending : m.index < next_to_schedule

\* Why the caller left its loop.
CallerInv ==
  /\ failure # NoFailure => failure = next_to_consume /\ main \in {"stop", "join", "returned"}
  /\ main \in {"stop", "join", "returned"} =>
       failure # NoFailure \/ next_to_consume = N

IInv == TypeOK /\ SchedulerInv /\ WindowHolds /\ HeldWasScheduled /\ InOnePlace /\ CallerInv

\* Whatever is held was not consumed, and nothing is lost on the way: what was
\* scheduled and not consumed is held, the result that failed excepted.
HeldCount == Cardinality(Working) + Len(channel) + Cardinality(pending)

NothingIsLost ==
  /\ IsFiniteSet(pending)
  /\ HeldCount = next_to_schedule - next_to_consume - (IF failure = NoFailure THEN 0 ELSE 1)
  /\ \A w \in Working : item[w] >= next_to_consume
  /\ \A i \in DOMAIN channel : channel[i].index >= next_to_consume
  /\ \A m \in pending : m.index >= next_to_consume

\* Workers end when there is no work; the caller waits when nothing is ready.
WaitingInv ==
  /\ stop => main \in {"join", "returned"}
  /\ \A w \in Worker : Done(w) => NoMoreWork
  /\ main = "receive" => Ready = {}

CountInv == NothingIsLost /\ WaitingInv
-----------------------------------------------------------------------------
\* The window is a number of items: at least one, at most all of them.
LEMMA WindowType == N \in Nat \ {0} /\ Window \in 1..N
<1>1. N \in Nat \ {0} /\ Cardinality(Worker) \in 1..N
  BY BlocksAssumption
<1>2. 2 * Cardinality(Worker) \in Nat /\ 2 * Cardinality(Worker) >= 1
  BY <1>1
<1> QED
  BY <1>1, <1>2 DEF Window, Least

LEMMA InitIInv == Init => IInv
<1> SUFFICES ASSUME Init PROVE IInv
  OBVIOUS
<1> USE WindowType
<1>1. TypeOK
  <2>1. channel \in Seq(Message) /\ pending \in SUBSET Message
    BY DEF Init
  <2>2. item \in [Worker -> Index]
    BY DEF Init, Index
  <2>3. pc \in [Worker -> {"take", "waiting", "work", "done"}]
    BY DEF Init
  <2>4. /\ next_to_schedule \in 0..N /\ consumed \in 0..N /\ next_to_consume \in 0..N
        /\ allowed_exclusive \in 0..N /\ peak_in_flight \in 0..N
    BY DEF Init
  <2> QED
    BY <2>1, <2>2, <2>3, <2>4 DEF Init, TypeOK
<1>2. SchedulerInv /\ WindowHolds
  BY DEF Init, SchedulerInv, WindowHolds, Least
<1>3. HeldWasScheduled /\ InOnePlace
  BY DEF Init, HeldWasScheduled, InOnePlace, Working
<1>4. CallerInv
  BY DEF Init, CallerInv
<1> QED
  BY <1>1, <1>2, <1>3, <1>4 DEF IInv

\* A step of a worker that takes or gives nothing.
LEMMA IdleWorkerKeepsIInv ==
  ASSUME IInv, NEW w \in Worker, Leave(w) \/ Wait(w) \/ WakeSpuriously(w)
  PROVE  IInv'
<1> USE WindowType DEF scheduler, caller
<1>0. UNCHANGED <<scheduler, item, channel, caller>> /\ Working' = Working
  BY DEF IInv, TypeOK, Leave, Wait, WakeSpuriously, Working
<1>1. TypeOK'
  BY <1>0 DEF IInv, TypeOK, Leave, Wait, WakeSpuriously
<1>2. SchedulerInv' /\ WindowHolds' /\ CallerInv'
  BY <1>0 DEF IInv, SchedulerInv, WindowHolds, CallerInv
<1>3. HeldWasScheduled' /\ InOnePlace'
  BY <1>0 DEF IInv, HeldWasScheduled, InOnePlace
<1> QED
  BY <1>1, <1>2, <1>3 DEF IInv

\* The index a worker takes is above every index that was scheduled before it.
LEMMA TakeKeepsIInv ==
  ASSUME IInv, NEW w \in Worker, Take(w)
  PROVE  IInv'
<1> USE WindowType DEF caller, Taken
<1>0. /\ next_to_schedule < N /\ next_to_schedule < allowed_exclusive
      /\ next_to_schedule \in 0..N /\ consumed \in 0..N
      /\ consumed <= next_to_schedule /\ allowed_exclusive <= consumed + Window
  BY DEF IInv, TypeOK, SchedulerInv, Take, NoMoreWork, WindowClosed, Least
<1>1. TypeOK'
  BY <1>0 DEF IInv, TypeOK, Take, Index, Most
<1>2. SchedulerInv' /\ CallerInv'
  BY <1>0 DEF IInv, TypeOK, SchedulerInv, CallerInv, Take
<1>3. WindowHolds'
  BY <1>0 DEF IInv, TypeOK, WindowHolds, Take, Most
<1>4. Working' = Working \cup {w} /\ w \notin Working
  BY DEF IInv, TypeOK, Take, Working
<1>5. item'[w] = next_to_schedule /\ \A v \in Working : item'[v] = item[v]
  BY <1>4 DEF IInv, TypeOK, Take, Working
<1>6. HeldWasScheduled'
  <2>1. next_to_schedule' = next_to_schedule + 1 /\ UNCHANGED <<channel, pending>>
    BY DEF Take
  <2>2. \A v \in Working : item[v] < next_to_schedule + 1 /\ item[v] \in Int
    BY <1>0 DEF IInv, TypeOK, HeldWasScheduled, Working, Index
  <2>3. \A v \in Working' : item'[v] < next_to_schedule'
    BY <2>1, <2>2, <1>0, <1>4, <1>5
  <2>4. \A i \in DOMAIN channel : channel[i] \in Message
    BY DEF IInv, TypeOK
  <2>5. \A i \in DOMAIN channel : channel[i].index < next_to_schedule + 1
    BY <2>4, <1>0 DEF IInv, HeldWasScheduled, Message, Index
  <2>6. \A m \in pending : m.index < next_to_schedule + 1
    BY <1>0 DEF IInv, TypeOK, HeldWasScheduled, Message, Index
  <2> QED
    BY <2>1, <2>3, <2>5, <2>6 DEF HeldWasScheduled
<1>7. InOnePlace'
  BY <1>0, <1>4, <1>5 DEF IInv, TypeOK, HeldWasScheduled, InOnePlace, Take, Message, Index
<1> QED
  BY <1>1, <1>2, <1>3, <1>6, <1>7 DEF IInv

\* The index moves from the worker to the end of the channel.
LEMMA WorkKeepsIInv ==
  ASSUME IInv, NEW w \in Worker, Work(w)
  PROVE  IInv'
<1> USE WindowType DEF scheduler, caller
<1>0. PICK ok \in BOOLEAN : channel' = Append(channel, [index |-> item[w], ok |-> ok])
  BY DEF Work
<1>1. TypeOK'
  BY <1>0 DEF IInv, TypeOK, Work, Message
<1>2. SchedulerInv' /\ WindowHolds' /\ CallerInv'
  BY DEF IInv, SchedulerInv, WindowHolds, CallerInv, Work
<1>3. Working' = Working \ {w} /\ w \in Working
  BY DEF IInv, TypeOK, Work, Working
<1>4. /\ DOMAIN channel' = DOMAIN channel \cup {Len(channel) + 1}
      /\ Len(channel) + 1 \notin DOMAIN channel
      /\ channel'[Len(channel) + 1].index = item[w]
      /\ \A i \in DOMAIN channel : channel'[i] = channel[i]
  BY <1>0 DEF IInv, TypeOK
<1>5. HeldWasScheduled'
  BY <1>3, <1>4 DEF IInv, HeldWasScheduled, Work
<1>6. InOnePlace'
  BY <1>3, <1>4 DEF IInv, InOnePlace, Work
<1> QED
  BY <1>1, <1>2, <1>5, <1>6 DEF IInv

\* The index moves from the front of the channel to what is pending.
LEMMA ReceiveKeepsIInv ==
  ASSUME IInv, Receive
  PROVE  IInv'
<1> USE WindowType DEF scheduler, workers
<1>1. TypeOK'
  BY DEF IInv, TypeOK, Receive
<1>2. SchedulerInv' /\ WindowHolds' /\ CallerInv'
  BY DEF IInv, SchedulerInv, WindowHolds, CallerInv, Receive
<1>3. /\ Working' = Working /\ item' = item
      /\ 1 \in DOMAIN channel /\ pending' = pending \cup {channel[1]}
      /\ \A i \in DOMAIN channel' :
           i + 1 \in DOMAIN channel /\ i + 1 # 1 /\ channel'[i] = channel[i + 1]
  BY DEF IInv, TypeOK, Receive, Working
<1>4. HeldWasScheduled'
  BY <1>3 DEF IInv, HeldWasScheduled, Receive
<1>5. \A i, j \in DOMAIN channel' : i # j => i + 1 # j + 1
  BY DEF IInv, TypeOK, Receive
<1>6. InOnePlace'
  BY <1>3, <1>5 DEF IInv, InOnePlace
<1> QED
  BY <1>1, <1>2, <1>4, <1>6 DEF IInv

\* A result leaves what is pending; its index is the next one, and in bounds.
LEMMA ConsumeKeepsIInv ==
  ASSUME IInv, Consume
  PROVE  IInv'
<1> USE WindowType DEF scheduler, workers, Ready
<1>0. PICK m \in Ready :
        /\ pending' = pending \ {m}
        /\ \/ m.ok /\ next_to_consume' = next_to_consume + 1 /\ main' = "publish"
              /\ UNCHANGED failure
           \/ failure' = m.index /\ main' = "stop" /\ UNCHANGED next_to_consume
  BY DEF Consume
<1>1. /\ m \in pending /\ m.index = next_to_consume
      /\ m.index \in Index /\ m.index < next_to_schedule
  BY <1>0 DEF IInv, TypeOK, HeldWasScheduled, Message
<1>2. TypeOK'
  BY <1>0, <1>1 DEF IInv, TypeOK, Consume, Index
<1>3. SchedulerInv' /\ WindowHolds' /\ CallerInv'
  BY <1>0, <1>1
  DEF IInv, TypeOK, SchedulerInv, WindowHolds, CallerInv, Consume, Index, NoFailure
<1>4. Working' = Working /\ UNCHANGED <<next_to_schedule, item, channel>>
  BY DEF Consume, Working
<1>5. HeldWasScheduled' /\ InOnePlace'
  BY <1>0, <1>4 DEF IInv, HeldWasScheduled, InOnePlace
<1> QED
  BY <1>2, <1>3, <1>5 DEF IInv

\* The caller's other steps: the window only moves forward, as the caller did.
LEMMA CallerKeepsIInv ==
  ASSUME IInv, NothingReady \/ Publish \/ Stop \/ Join
  PROVE  IInv'
<1> USE WindowType DEF scheduler, workers
<1>1. UNCHANGED <<next_to_schedule, item, channel, pending>> /\ Working' = Working
  BY DEF IInv, TypeOK, NothingReady, Publish, Stop, Join, NotifyAll, Working
<1>2. HeldWasScheduled' /\ InOnePlace'
  BY <1>1 DEF IInv, HeldWasScheduled, InOnePlace
<1>3. CASE NothingReady \/ Join
  <2>1. TypeOK' /\ SchedulerInv' /\ WindowHolds' /\ CallerInv'
    BY <1>3 DEF IInv, TypeOK, SchedulerInv, WindowHolds, CallerInv, NothingReady, Join
  <2> QED
    BY <2>1, <1>2 DEF IInv
<1>4. CASE Publish
  <2>1. TypeOK'
    BY <1>4 DEF IInv, TypeOK, Publish, NotifyAll, Least
  <2>2. SchedulerInv' /\ WindowHolds' /\ CallerInv'
    BY <1>4 DEF IInv, TypeOK, SchedulerInv, WindowHolds, CallerInv, Publish, Least
  <2> QED
    BY <2>1, <2>2, <1>2 DEF IInv
<1>5. CASE Stop
  <2>1. TypeOK'
    BY <1>5 DEF IInv, TypeOK, Stop, NotifyAll
  <2>2. SchedulerInv' /\ WindowHolds' /\ CallerInv'
    BY <1>5 DEF IInv, SchedulerInv, WindowHolds, CallerInv, Stop
  <2> QED
    BY <2>1, <2>2, <1>2 DEF IInv
<1> QED
  BY <1>3, <1>4, <1>5

LEMMA StutterKeepsIInv ==
  ASSUME IInv, UNCHANGED vars
  PROVE  IInv'
BY DEF IInv, TypeOK, SchedulerInv, WindowHolds, HeldWasScheduled, InOnePlace, CallerInv,
       Working, vars, scheduler, workers, caller

LEMMA NextKeepsIInv == IInv /\ [Next]_vars => IInv'
BY IdleWorkerKeepsIInv, TakeKeepsIInv, WorkKeepsIInv, ReceiveKeepsIInv, ConsumeKeepsIInv,
   CallerKeepsIInv, StutterKeepsIInv
DEF Next, WorkerStep, CallerStep

LEMMA Invariance == Spec => []IInv
BY InitIInv, NextKeepsIInv, PTL DEF Spec
-----------------------------------------------------------------------------
\* The scheduler, its workers and the caller of ordered_bounded_try_for_each
\* have their types in every reachable state.
THEOREM TypeCorrect == Spec => []TypeOK
<1>1. IInv => TypeOK
  BY DEF IInv
<1> QED
  BY <1>1, Invariance, PTL

\* The debug_assert at the end of the call holds: no more than two blocks per
\* worker are ever scheduled ahead of the last consumed one.
THEOREM WindowIsKept == Spec => []WindowHolds
<1>1. IInv => WindowHolds
  BY DEF IInv
<1> QED
  BY <1>1, Invariance, PTL

\* No block is compressed twice or held in two places.
THEOREM BlocksAreInOnePlace == Spec => []InOnePlace
<1>1. IInv => InOnePlace
  BY DEF IInv
<1> QED
  BY <1>1, Invariance, PTL
-----------------------------------------------------------------------------
(***************************************************************************)
(* Counting what is held                                                   *)
(***************************************************************************)
\* The workers at work can be counted.
LEMMA WorkingIsFinite ==
  IsFiniteSet(Working) /\ Cardinality(Working) \in Nat
BY BlocksAssumption, FS_Subset, FS_CardinalityType DEF Working

LEMMA InitCountInv == Init => CountInv
<1> SUFFICES ASSUME Init PROVE CountInv
  OBVIOUS
<1> USE WindowType
<1>1. Working = {} /\ pending = {} /\ Len(channel) = 0 /\ DOMAIN channel = {}
  BY DEF Init, Working
<1>2. NothingIsLost
  BY <1>1, FS_EmptySet DEF Init, NothingIsLost, HeldCount
<1>3. WaitingInv
  BY DEF Init, WaitingInv, Done, Ready
<1> QED
  BY <1>2, <1>3 DEF CountInv

LEMMA IdleWorkerKeepsCount ==
  ASSUME IInv, CountInv, NEW w \in Worker, Leave(w) \/ Wait(w) \/ WakeSpuriously(w)
  PROVE  CountInv'
<1> USE DEF scheduler, caller
<1>0. UNCHANGED <<scheduler, item, channel, caller>> /\ Working' = Working
  BY DEF IInv, TypeOK, Leave, Wait, WakeSpuriously, Working
<1>1. NothingIsLost'
  BY <1>0 DEF CountInv, NothingIsLost, HeldCount
<1>2. WaitingInv'
  BY <1>0 DEF IInv, TypeOK, CountInv, WaitingInv, Ready, Done, NoMoreWork, Leave, Wait, WakeSpuriously
<1> QED
  BY <1>1, <1>2 DEF CountInv

LEMMA TakeKeepsCount ==
  ASSUME IInv, CountInv, NEW w \in Worker, Take(w)
  PROVE  CountInv'
<1> USE WindowType DEF caller, Taken
<1>1. Working' = Working \cup {w} /\ w \notin Working
  BY DEF IInv, TypeOK, Take, Working
<1>2. Cardinality(Working') = Cardinality(Working) + 1
  BY <1>1, WorkingIsFinite, FS_AddElement
<1>3. item'[w] = next_to_schedule /\ \A v \in Working : item'[v] = item[v]
  BY <1>1 DEF IInv, TypeOK, Take, Working
<1>4. Len(channel) \in Nat /\ Cardinality(pending) \in Nat
  BY FS_CardinalityType DEF IInv, TypeOK, CountInv, NothingIsLost
<1>5. HeldCount' = HeldCount + 1
  BY <1>2, <1>4, WorkingIsFinite DEF HeldCount, Take
<1>6. NothingIsLost'
  <2>1. HeldCount' = next_to_schedule' - next_to_consume' - (IF failure' = NoFailure THEN 0 ELSE 1)
    BY <1>5 DEF IInv, TypeOK, CountInv, NothingIsLost, Take
  <2>2. \A v \in Working' : item'[v] >= next_to_consume'
    BY <1>1, <1>3 DEF IInv, TypeOK, SchedulerInv, CountInv, NothingIsLost, Take
  <2> QED
    BY <2>1, <2>2 DEF CountInv, NothingIsLost, Take
<1>7. WaitingInv'
  BY DEF IInv, TypeOK, CountInv, WaitingInv, Ready, Done, NoMoreWork, Take
<1> QED
  BY <1>6, <1>7 DEF CountInv

LEMMA WorkKeepsCount ==
  ASSUME IInv, CountInv, NEW w \in Worker, Work(w)
  PROVE  CountInv'
<1> USE WindowType DEF scheduler, caller
<1>0. PICK ok \in BOOLEAN : channel' = Append(channel, [index |-> item[w], ok |-> ok])
  BY DEF Work
<1>1. Working' = Working \ {w} /\ w \in Working
  BY DEF IInv, TypeOK, Work, Working
<1>2. Cardinality(Working') = Cardinality(Working) - 1
  BY <1>1, WorkingIsFinite, FS_RemoveElement
<1>3. Len(channel') = Len(channel) + 1 /\ Len(channel) \in Nat
  BY <1>0 DEF IInv, TypeOK
<1>4. Cardinality(pending) \in Nat
  BY FS_CardinalityType DEF CountInv, NothingIsLost
<1>5. HeldCount' = HeldCount
  BY <1>2, <1>3, <1>4, WorkingIsFinite DEF HeldCount, Work
<1>6. /\ DOMAIN channel' = DOMAIN channel \cup {Len(channel) + 1}
      /\ channel'[Len(channel) + 1].index = item[w]
      /\ \A i \in DOMAIN channel : channel'[i] = channel[i]
  BY <1>0 DEF IInv, TypeOK
<1>7. NothingIsLost'
  BY <1>1, <1>5, <1>6 DEF CountInv, NothingIsLost, Work
<1>8. WaitingInv'
  BY DEF IInv, TypeOK, CountInv, WaitingInv, Ready, Done, NoMoreWork, Work
<1> QED
  BY <1>7, <1>8 DEF CountInv

LEMMA ReceiveKeepsCount ==
  ASSUME IInv, CountInv, Receive
  PROVE  CountInv'
<1> USE WindowType DEF scheduler, workers
<1>1. /\ 1 \in DOMAIN channel /\ Head(channel) = channel[1]
      /\ pending' = pending \cup {channel[1]}
      /\ Len(channel') = Len(channel) - 1 /\ Len(channel) \in Nat
      /\ \A i \in DOMAIN channel' : i + 1 \in DOMAIN channel /\ channel'[i] = channel[i + 1]
  BY DEF IInv, TypeOK, Receive
<1>2. channel[1] \notin pending
  BY <1>1 DEF IInv, InOnePlace
<1>3. /\ IsFiniteSet(pending') /\ Cardinality(pending) \in Nat
      /\ Cardinality(pending') = Cardinality(pending) + 1
  BY <1>1, <1>2, FS_AddElement, FS_CardinalityType DEF CountInv, NothingIsLost
<1>4. Working' = Working
  BY DEF Receive, Working
<1>5. HeldCount' = HeldCount
  BY <1>1, <1>3, <1>4, WorkingIsFinite DEF HeldCount
<1>6. NothingIsLost'
  BY <1>1, <1>3, <1>4, <1>5 DEF CountInv, NothingIsLost, Receive
<1>7. WaitingInv'
  BY DEF CountInv, WaitingInv, Done, NoMoreWork, Receive
<1> QED
  BY <1>6, <1>7 DEF CountInv

LEMMA ConsumeKeepsCount ==
  ASSUME IInv, CountInv, Consume
  PROVE  CountInv'
<1> USE WindowType DEF scheduler, workers, Ready
<1>0. PICK m \in Ready :
        /\ pending' = pending \ {m}
        /\ \/ m.ok /\ next_to_consume' = next_to_consume + 1 /\ main' = "publish"
              /\ UNCHANGED failure
           \/ failure' = m.index /\ main' = "stop" /\ UNCHANGED next_to_consume
  BY DEF Consume
<1>1. m \in pending /\ m.index = next_to_consume /\ m.index \in Index
  BY <1>0 DEF IInv, TypeOK, Message
<1>2. /\ IsFiniteSet(pending') /\ Cardinality(pending) \in Nat
      /\ Cardinality(pending') = Cardinality(pending) - 1
  BY <1>0, <1>1, FS_RemoveElement, FS_CardinalityType DEF CountInv, NothingIsLost
<1>3. Working' = Working /\ UNCHANGED <<next_to_schedule, item, channel, stop, pc>>
  BY DEF Consume, Working
<1>4. Len(channel) \in Nat
  BY DEF IInv, TypeOK
<1>5. HeldCount' = HeldCount - 1
  BY <1>2, <1>3, <1>4, WorkingIsFinite DEF HeldCount
<1>6. failure = NoFailure
  BY DEF IInv, CallerInv, Consume
<1>7. HeldCount' = next_to_schedule' - next_to_consume' - (IF failure' = NoFailure THEN 0 ELSE 1)
  BY <1>0, <1>1, <1>3, <1>5, <1>6
  DEF IInv, TypeOK, CountInv, NothingIsLost, NoFailure, Index
<1>8. /\ \A w \in Working : item[w] >= next_to_consume'
      /\ \A i \in DOMAIN channel : channel[i].index >= next_to_consume'
      /\ \A n \in pending' : n.index >= next_to_consume'
  <2>1. /\ \A w \in Working : item[w] \in Int /\ item[w] # next_to_consume
        /\ \A i \in DOMAIN channel : channel[i].index # next_to_consume
        /\ \A n \in pending' : n \in pending /\ n.index # next_to_consume
    BY <1>0, <1>1 DEF IInv, TypeOK, InOnePlace, Working, Index
  <2>2. \A i \in DOMAIN channel : channel[i] \in Message
    BY DEF IInv, TypeOK
  <2>3. /\ \A i \in DOMAIN channel : channel[i].index \in Int
        /\ \A n \in pending : n.index \in Int
    BY <2>2 DEF IInv, TypeOK, Message, Index
  <2>4. next_to_consume' \in {next_to_consume, next_to_consume + 1} /\ next_to_consume \in Int
    BY <1>0 DEF IInv, TypeOK
  <2> QED
    BY <2>1, <2>3, <2>4 DEF CountInv, NothingIsLost
<1>9. NothingIsLost'
  BY <1>2, <1>3, <1>7, <1>8 DEF NothingIsLost
<1>10. WaitingInv'
  BY <1>0 DEF CountInv, WaitingInv, Done, NoMoreWork, Consume
<1> QED
  BY <1>9, <1>10 DEF CountInv

LEMMA CallerKeepsCount ==
  ASSUME IInv, CountInv, NothingReady \/ Publish \/ Stop \/ Join
  PROVE  CountInv'
<1> USE WindowType DEF scheduler, workers
<1>1. /\ UNCHANGED <<next_to_schedule, item, channel, pending, next_to_consume, failure>>
      /\ Working' = Working
  BY DEF IInv, TypeOK, NothingReady, Publish, Stop, Join, NotifyAll, Working
<1>2. NothingIsLost'
  BY <1>1 DEF CountInv, NothingIsLost, HeldCount
<1>3. WaitingInv'
  BY DEF IInv, TypeOK, CountInv, WaitingInv, Ready, Done, NoMoreWork, NothingReady, Publish,
         Stop, Join, NotifyAll
<1> QED
  BY <1>2, <1>3 DEF CountInv

LEMMA StutterKeepsCount ==
  ASSUME CountInv, UNCHANGED vars
  PROVE  CountInv'
BY DEF CountInv, NothingIsLost, HeldCount, WaitingInv, Ready, Done, NoMoreWork, Working,
       vars, scheduler, workers, caller

LEMMA NextKeepsCount == IInv /\ CountInv /\ [Next]_vars => CountInv'
BY IdleWorkerKeepsCount, TakeKeepsCount, WorkKeepsCount, ReceiveKeepsCount,
   ConsumeKeepsCount, CallerKeepsCount, StutterKeepsCount
DEF Next, WorkerStep, CallerStep

LEMMA CountInvariance == Spec => []CountInv
BY Invariance, InitCountInv, NextKeepsCount, PTL DEF Spec
-----------------------------------------------------------------------------
\* The memory bound behind the window: blocks that are worked on, sent, or put
\* aside by the caller never exceed two per worker.
THEOREM MemoryIsBounded == Spec => []HeldWithinWindow
<1>1. IInv /\ CountInv => HeldWithinWindow
  <2> SUFFICES ASSUME IInv, CountInv PROVE HeldWithinWindow
    OBVIOUS
  <2>1. HeldCount <= next_to_schedule - next_to_consume /\ HeldCount \in Int
    BY WindowType DEF IInv, TypeOK, CountInv, NothingIsLost
  <2>2. next_to_schedule <= consumed + Window /\ consumed <= next_to_consume
    BY WindowType DEF IInv, TypeOK, SchedulerInv, Least
  <2>3. HeldCount <= Window
    BY <2>1, <2>2, WindowType DEF IInv, TypeOK
  <2> QED
    BY <2>3 DEF HeldCount, HeldWithinWindow
<1> QED
  BY <1>1, Invariance, CountInvariance, PTL

\* The caller never waits for workers that are gone: the error "workers ended
\* before every block was returned" cannot occur, whatever fails and whenever
\* threads wake.  If all workers had ended, every block would be pending but
\* the next one, and they would be too many for their distinct indexes.
THEOREM CallerIsAlwaysServed == Spec => []CallerIsServed
<1>1. IInv /\ CountInv => CallerIsServed
  <2> SUFFICES ASSUME IInv, CountInv, main = "receive", next_to_consume < N, channel = << >>,
                      \A w \in Worker : Done(w)
               PROVE  FALSE
    BY DEF CallerIsServed
  <2> USE WindowType
  <2>1. Worker # {}
    BY BlocksAssumption, FS_EmptySet
  <2>2. next_to_schedule = N /\ Ready = {} /\ failure = NoFailure
    <3>1. ~stop /\ Ready = {} /\ failure = NoFailure
      BY DEF IInv, CallerInv, CountInv, WaitingInv
    <3>2. next_to_schedule >= N
      BY <2>1, <3>1 DEF CountInv, WaitingInv, NoMoreWork
    <3> QED
      BY <3>1, <3>2 DEF IInv, TypeOK
  <2>3. Working = {}
    BY DEF Working, Done
  <2>4. IsFiniteSet(pending) /\ Cardinality(pending) = N - next_to_consume
    <3>1. IsFiniteSet(pending) /\ Cardinality(pending) \in Nat
      BY FS_CardinalityType DEF CountInv, NothingIsLost
    <3>2. Cardinality(Working) = 0 /\ Len(channel) = 0
      BY <2>3, FS_EmptySet
    <3>3. HeldCount = N - next_to_consume
      BY <2>2 DEF IInv, TypeOK, CountInv, NothingIsLost
    <3> QED
      BY <3>1, <3>2, <3>3 DEF HeldCount
  <2> DEFINE Above == next_to_consume + 1 .. N - 1
  <2>5. IsFiniteSet(Above) /\ Cardinality(Above) < Cardinality(pending)
    BY <2>4, FS_Interval DEF IInv, TypeOK
  <2> DEFINE index_of == [m \in pending |-> m.index]
  <2>6. index_of \in [pending -> Above]
    BY <2>2 DEF IInv, TypeOK, Message, Index, CountInv, NothingIsLost, Ready
  <2>7. PICK m, n \in pending : m # n /\ index_of[m] = index_of[n]
    <3> HIDE DEF Above, index_of
    <3> QED
      BY <2>4, <2>5, <2>6, FS_PigeonHole
  <2> QED
    BY <2>7 DEF IInv, InOnePlace
<1> QED
  BY <1>1, Invariance, CountInvariance, PTL
-----------------------------------------------------------------------------
(***************************************************************************)
(* The steps of the pipeline are those of a sequential loop                *)
(***************************************************************************)
LEMMA InitIsSequential == Init => Sequential!Init
BY DEF Init, Sequential!Init, Sequential!Running, Outcome

\* Only a result that is consumed moves the loop; only the join ends it.
LEMMA StepIsSequential ==
  IInv /\ [Next]_vars => [Sequential!Next]_<<next_to_consume, Outcome>>
<1> SUFFICES ASSUME IInv, [Next]_vars
             PROVE  \/ Sequential!Next
                    \/ UNCHANGED <<next_to_consume, Outcome>>
  OBVIOUS
<1> USE WindowType
<1>1. CASE \/ \E w \in Worker : WorkerStep(w) \/ WakeSpuriously(w)
           \/ Receive \/ NothingReady \/ Publish \/ Stop \/ UNCHANGED vars
  <2>1. /\ UNCHANGED <<next_to_consume, failure>>
        /\ \/ UNCHANGED main
           \/ main # "returned" /\ main' # "returned"
    BY <1>1 DEF WorkerStep, Leave, Wait, Take, Work, WakeSpuriously, Receive, NothingReady,
                Publish, Stop, vars, caller
  <2> QED
    BY <2>1 DEF Outcome
<1>2. CASE Consume
  <2>1. main = "consume" /\ main' \in {"publish", "stop"}
    BY <1>2 DEF Consume
  <2>2. \/ next_to_consume' = next_to_consume + 1
        \/ UNCHANGED next_to_consume
    BY <1>2 DEF Consume
  <2>3. next_to_consume < N
    BY <1>2 DEF Consume, Ready, IInv, TypeOK, Message, Index
  <2>4. Outcome = Sequential!Running /\ UNCHANGED Outcome
    BY <2>1 DEF Outcome, Sequential!Running
  <2> QED
    BY <2>2, <2>3, <2>4 DEF Sequential!Next, Sequential!Consume
<1>3. CASE Join
  <2>1. main = "join" /\ main' = "returned" /\ UNCHANGED <<next_to_consume, failure>>
    BY <1>3 DEF Join
  <2>2. Outcome = Sequential!Running /\ Outcome' = next_to_consume
    BY <2>1 DEF IInv, CallerInv, Outcome, Sequential!Running
  <2> QED
    BY <2>1, <2>2 DEF Sequential!Next, Sequential!Return
<1> QED
  BY <1>1, <1>2, <1>3 DEF Next, CallerStep

\* Every execution of the pipeline, with any number of workers, is one of the
\* loop of a single thread: blocks are consumed in order, and the call returns
\* the first error in that order or the success of all blocks.
THEOREM PipelineIsSequential ==
  Spec => Sequential!Init /\ [][Sequential!Next]_<<next_to_consume, Outcome>>
BY InitIsSequential, StepIsSequential, Invariance, PTL DEF Spec
=============================================================================
