------------------------- MODULE DecodeCache_proofs -------------------------
(***************************************************************************)
(* Proofs about the decoded-entry cache, for any workers, entries, sizes   *)
(* and limits: its RAM stays within the budget, both counters are exactly  *)
(* what is reserved, and no entry is expanded twice.                       *)
(***************************************************************************)
EXTENDS DecodeCache, FiniteSetTheorems, TLAPS

\* From the lock of its cell to the end of its decoding a worker holds the
\* mutex, and finds the cell as it saw it.
HolderInv ==
  \A w \in Worker : pc[w] \notin {"idle", "lock"} =>
    mutex[entry[w]] = w /\ cell[entry[w]] = "empty"

\* An empty cell was not decoded since it was emptied.
DecodedInv == \A e \in Entry : cell[e] = "empty" => decoded[e] = 0

\* What a file has and what is still reserved for it make up its size, but for
\* the unit that is written and not recorded.
ReservationInv ==
  \A w \in Worker :
    /\ pc[w] = "write" => written[w] + remaining[w] = SizeOf(w)
    /\ pc[w] = "record" => written[w] + remaining[w] = SizeOf(w) + 1 /\ written[w] <= SizeOf(w)
    /\ pc[w] \notin {"write", "record"} => written[w] = 0 /\ remaining[w] = 0

IInv ==
  /\ TypeOK /\ HolderInv /\ DecodedInv /\ ReservationInv
  /\ MemoryWithinLimit /\ CountersMatchReservations /\ ExpandedOnce
-----------------------------------------------------------------------------
(***************************************************************************)
(* What the counters need of a weight: it is a number, it grows and        *)
(* shrinks by the weight of a member, and it only looks at its members.    *)
(***************************************************************************)
\* The units of one member are as many as its weight says.
LEMMA UnitsCount ==
  ASSUME NEW f, NEW x, f[x] \in Nat
  PROVE  IsFiniteSet(UnitsOf(f, x)) /\ Cardinality(UnitsOf(f, x)) = f[x]
<1>1. IsFiniteSet({x}) /\ Cardinality({x}) = 1
  BY FS_Singleton
<1>2. IsFiniteSet(1..f[x]) /\ Cardinality(1..f[x]) = IF 1 > f[x] THEN 0 ELSE f[x] - 1 + 1
  BY SMTT(30), FS_Interval
<1>3. Cardinality(1..f[x]) = f[x]
  BY <1>2
<1>4. /\ IsFiniteSet({x} \X (1..f[x]))
      /\ Cardinality({x} \X (1..f[x])) = Cardinality({x}) * Cardinality(1..f[x])
  BY <1>1, <1>2, FS_Product
<1> QED
  BY <1>1, <1>3, <1>4 DEF UnitsOf

\* A finite set of members holds finitely many units.
LEMMA HeldFinite ==
  ASSUME NEW f, NEW S, IsFiniteSet(S), \A x \in S : f[x] \in Nat
  PROVE  IsFiniteSet(Held(f, S))
<1> DEFINE T == {UnitsOf(f, x) : x \in S}
           g == [x \in S |-> UnitsOf(f, x)]
<1>1. g \in Surjection(S, T)
  BY DEF Surjection
<1>2. IsFiniteSet(T)
  BY <1>1, FS_Surjection
<1>3. \A U \in T : IsFiniteSet(U)
  BY UnitsCount
<1> QED
  BY <1>2, <1>3, FS_UNION DEF Held

\* The weight of a finite set is a number.
LEMMA WeightType ==
  ASSUME NEW f, NEW S, IsFiniteSet(S), \A x \in S : f[x] \in Nat
  PROVE  Weight(f, S) \in Nat
BY HeldFinite, FS_CardinalityType DEF Weight

\* Nothing weighs nothing.
LEMMA WeightEmpty == \A f : Weight(f, {}) = 0
<1> SUFFICES ASSUME NEW f PROVE Weight(f, {}) = 0
  OBVIOUS
<1>1. Held(f, {}) = {}
  BY DEF Held
<1> QED
  BY <1>1, FS_EmptySet DEF Weight

\* Only the members count: another function that agrees on them weighs the same.
LEMMA WeightSame ==
  ASSUME NEW f, NEW g, NEW S, \A x \in S : f[x] = g[x]
  PROVE  Weight(f, S) = Weight(g, S)
<1>1. \A x \in S : UnitsOf(f, x) = UnitsOf(g, x)
  BY DEF UnitsOf
<1>2. Held(f, S) = Held(g, S)
  BY <1>1 DEF Held
<1> QED
  BY <1>2 DEF Weight

\* One more member adds its weight.
LEMMA WeightAdd ==
  ASSUME NEW f, NEW S, NEW x, x \notin S, IsFiniteSet(S),
         f[x] \in Nat, \A y \in S : f[y] \in Nat
  PROVE  Weight(f, S \cup {x}) = Weight(f, S) + f[x]
<1>1. IsFiniteSet(Held(f, S))
  BY HeldFinite
<1>2. IsFiniteSet(UnitsOf(f, x)) /\ Cardinality(UnitsOf(f, x)) = f[x]
  BY UnitsCount
<1>3. Held(f, S \cup {x}) = Held(f, S) \cup UnitsOf(f, x)
  BY DEF Held
<1>4. Held(f, S) \cap UnitsOf(f, x) = {}
  BY DEF Held, UnitsOf
<1>5. Cardinality({}) = 0
  BY FS_EmptySet
<1>6. Cardinality(Held(f, S) \cup UnitsOf(f, x)) =
        Cardinality(Held(f, S)) + Cardinality(UnitsOf(f, x)) - Cardinality(Held(f, S) \cap UnitsOf(f, x))
  BY <1>1, <1>2, FS_Union
<1>7. Cardinality(Held(f, S)) \in Nat
  BY <1>1, FS_CardinalityType
<1>8. Cardinality(Held(f, S) \cap UnitsOf(f, x)) = 0
  BY <1>4, <1>5
<1> HIDE DEF Held, UnitsOf
<1>9. Cardinality(Held(f, S) \cup UnitsOf(f, x)) = Cardinality(Held(f, S)) + f[x]
  BY <1>2, <1>6, <1>7, <1>8
<1> QED
  BY <1>3, <1>9 DEF Weight

\* One member less takes its weight away.
LEMMA WeightRemove ==
  ASSUME NEW f, NEW S, NEW x \in S, IsFiniteSet(S), \A y \in S : f[y] \in Nat
  PROVE  /\ Weight(f, S \ {x}) = Weight(f, S) - f[x]
         /\ f[x] <= Weight(f, S)
<1>1. IsFiniteSet(S \ {x})
  BY FS_RemoveElement
<1>2. Weight(f, (S \ {x}) \cup {x}) = Weight(f, S \ {x}) + f[x]
  BY <1>1, WeightAdd
<1>3. (S \ {x}) \cup {x} = S
  OBVIOUS
<1>4. Weight(f, S \ {x}) \in Nat /\ f[x] \in Nat
  BY <1>1, WeightType
<1>5. Weight(f, S) = Weight(f, S \ {x}) + f[x]
  BY <1>2, <1>3
<1> QED
  BY <1>4, <1>5

\* When the weight of one member changes, the sum changes by as much.
LEMMA WeightChange ==
  ASSUME NEW f, NEW g, NEW S, NEW x \in S, IsFiniteSet(S),
         \A y \in S : f[y] \in Nat /\ g[y] \in Nat,
         \A y \in S \ {x} : g[y] = f[y]
  PROVE  Weight(g, S) = Weight(f, S) - f[x] + g[x]
<1>1. Weight(f, S \ {x}) = Weight(f, S) - f[x]
  BY WeightRemove
<1>2. Weight(g, S \ {x}) = Weight(g, S) - g[x]
  BY WeightRemove
<1>3. Weight(g, S \ {x}) = Weight(f, S \ {x})
  BY WeightSame
<1>4. Weight(f, S) \in Nat /\ Weight(g, S) \in Nat
  BY WeightType
<1> QED
  BY <1>1, <1>2, <1>3, <1>4

-----------------------------------------------------------------------------
USE DEF cells, counters, local, Goto

\* Sizes are positive numbers.
LEMMA SizeType ==
  /\ \A e \in Entry : Size[e] \in Nat /\ Size[e] > 0
  /\ TypeOK => \A w \in Worker : SizeOf(w) \in Nat /\ SizeOf(w) > 0
<1>1. \A e \in Entry : Size[e] \in Nat /\ Size[e] > 0
  BY CacheAssumption
<1>2. TypeOK => \A w \in Worker : entry[w] \in Entry
  BY DEF TypeOK
<1> QED
  BY <1>1, <1>2 DEF SizeOf

\* The sets that are summed over are finite, and the sums are numbers.
LEMMA SumTypes ==
  ASSUME TypeOK
  PROVE  /\ IsFiniteSet(InRam) /\ IsFiniteSet(DecodingToRam)
         /\ Weight(Size, InRam) \in Nat
         /\ Weight([w \in Worker |-> SizeOf(w)], DecodingToRam) \in Nat
         /\ Weight(remaining, Worker) \in Nat
<1>1. IsFiniteSet(Entry) /\ IsFiniteSet(Worker)
  BY CacheAssumption
<1>2. InRam \in SUBSET Entry /\ DecodingToRam \in SUBSET Worker
  BY DEF InRam, DecodingToRam
<1>3. IsFiniteSet(InRam) /\ IsFiniteSet(DecodingToRam)
  BY <1>1, <1>2, FS_Subset
<1>4. Weight(Size, InRam) \in Nat
  BY <1>2, <1>3, SizeType, WeightType
<1>5. Weight([w \in Worker |-> SizeOf(w)], DecodingToRam) \in Nat
  <2> DEFINE f == [w \in Worker |-> SizeOf(w)]
  <2>1. \A w \in DecodingToRam : f[w] \in Nat
    BY <1>2, SizeType
  <2> HIDE DEF f
  <2>2. Weight(f, DecodingToRam) \in Nat
    BY <1>3, <2>1, WeightType
  <2> QED
    BY <2>2 DEF f
<1>6. Weight(remaining, Worker) \in Nat
  BY <1>1, WeightType DEF TypeOK
<1> QED
  BY <1>3, <1>4, <1>5, <1>6

\* A counter holds at least every reservation that it counts.
LEMMA CountersHold ==
  ASSUME TypeOK, CountersMatchReservations
  PROVE  /\ \A e \in InRam : Size[e] <= memory
         /\ \A w \in DecodingToRam : SizeOf(w) <= memory
         /\ \A w \in Worker : remaining[w] <= pending
<1> USE SumTypes DEF CountersMatchReservations
<1>1. ASSUME NEW e \in InRam PROVE Size[e] <= memory
  <2>1. \A x \in InRam : Size[x] \in Nat
    BY SizeType DEF InRam
  <2>2. Size[e] <= Weight(Size, InRam)
    BY <2>1, WeightRemove
  <2> QED
    BY <2>1, <2>2 DEF TypeOK
<1>2. ASSUME NEW w \in DecodingToRam PROVE SizeOf(w) <= memory
  <2> DEFINE f == [v \in Worker |-> SizeOf(v)]
  <2>1. f[w] = SizeOf(w) /\ \A x \in DecodingToRam : f[x] \in Nat
    BY SizeType DEF DecodingToRam
  <2>2. memory = Weight(Size, InRam) + Weight(f, DecodingToRam) /\ Weight(f, DecodingToRam) \in Nat
    OBVIOUS
  <2> HIDE DEF f
  <2>3. f[w] <= Weight(f, DecodingToRam)
    BY <2>1, WeightRemove
  <2> QED
    BY <2>1, <2>2, <2>3 DEF TypeOK
<1>3. ASSUME NEW w \in Worker PROVE remaining[w] <= pending
  <2>1. \A x \in Worker : remaining[x] \in Nat
    BY DEF TypeOK
  <2> QED
    BY <2>1, WeightRemove, CacheAssumption
<1> QED
  BY <1>1, <1>2, <1>3

\* Who neither reserves nor writes disturbs no reservation of disk space.
LEMMA ReservationFrame ==
  ASSUME TypeOK, ReservationInv, NEW w \in Worker,
         pc[w] \notin {"write", "record"}, pc'[w] \notin {"write", "record"},
         \A v \in Worker \ {w} : pc'[v] = pc[v] /\ entry'[v] = entry[v],
         written' = written, remaining' = remaining
  PROVE  ReservationInv'
BY DEF ReservationInv, SizeOf

\* Every step keeps the types, and takes from a counter no more than it holds.
LEMMA TypeStep == IInv /\ Next => TypeOK'
<1> SUFFICES ASSUME IInv, Next PROVE TypeOK'
  OBVIOUS
<1> USE DEF IInv, TypeOK, Places
<1>1. ASSUME NEW w \in Worker, Ask(w) \/ Step(w) PROVE TypeOK'
  <2>1. CASE Ask(w)
    <3>1. entry' \in [Worker -> Entry] /\ asked' \in [Worker -> 0..MaxRequests]
      BY <2>1, CacheAssumption DEF Ask
    <3> QED
      BY <2>1, <3>1 DEF Ask
  <2>2. CASE Lock(w)
    BY <2>2 DEF Lock, Cached
  <2>3. CASE GiveUp(w)
    BY <2>3 DEF GiveUp, Unlock
  <2>4. CASE MemoryLoad(w)
    BY <2>4 DEF MemoryLoad
  <2>5. CASE MemoryExchange(w)
    <3>1. SizeOf(w) \in Nat
      BY SizeType
    <3> QED
      BY <2>5, <3>1 DEF MemoryExchange, MemoryFits
  <2>6. CASE MemoryDecoded(w)
    BY <2>6 DEF MemoryDecoded, Store, Unlock
  <2>7. CASE MemoryFailed(w)
    <3>1. w \in DecodingToRam
      BY <2>7 DEF MemoryFailed, DecodingToRam
    <3>2. memory - SizeOf(w) \in Nat
      BY <3>1, SizeType, CountersHold
    <3> QED
      BY <2>7, <3>2 DEF MemoryFailed, Unlock
  <2>8. CASE MemoryUnavailable(w)
    <3>1. w \in DecodingToRam
      BY <2>8 DEF MemoryUnavailable, DecodingToRam
    <3>2. memory - SizeOf(w) \in Nat
      BY <3>1, SizeType, CountersHold
    <3> QED
      BY <2>8, <3>2 DEF MemoryUnavailable
  <2>9. CASE DiskProbe(w)
    BY <2>9 DEF DiskProbe
  <2>10. CASE DiskLoad(w)
    BY <2>10 DEF DiskLoad
  <2>11. CASE DiskExchange(w)
    <3>1. SizeOf(w) \in Nat
      BY SizeType
    <3> QED
      BY <2>11, <3>1 DEF DiskExchange, Effective, Unlock
  <2>12. CASE WriteBytes(w)
    BY <2>12 DEF WriteBytes
  <2>13. CASE RecordMaterialized(w)
    <3>1. SizeOf(w) \in Nat /\ pc[w] = "record"
      BY <2>13, SizeType DEF RecordMaterialized
    <3>2. remaining[w] >= 1
      BY <3>1 DEF ReservationInv
    <3>3. remaining[w] - 1 \in Nat /\ pending - 1 \in Nat
      BY <3>2, CountersHold
    <3> QED
      BY <2>13, <3>3 DEF RecordMaterialized
  <2>14. CASE DiskDecoded(w)
    BY <2>14 DEF DiskDecoded, Store, Unlock
  <2>15. CASE DiskFailed(w)
    <3>1. pending - remaining[w] \in Nat
      BY CountersHold
    <3> QED
      BY <2>15, <3>1 DEF DiskFailed, Unlock, Released
  <2> QED
    BY <1>1, <2>1, <2>2, <2>3, <2>4, <2>5, <2>6, <2>7, <2>8, <2>9, <2>10,
     <2>11, <2>12, <2>13, <2>14, <2>15 DEF Step
<1>2. ASSUME NEW e \in Entry, ReleaseCell(e) PROVE TypeOK'
  <2>1. cell[e] = "memory" => memory - Size[e] \in Nat
    BY SizeType, CountersHold DEF InRam
  <2>2. free + Size[e] \in Nat
    BY SizeType
  <2> QED
    BY <1>2, <2>1, <2>2 DEF ReleaseCell
<1> QED
  BY <1>1, <1>2 DEF Next

\* Nobody else opens, fills or empties the cell of a worker that decodes.
LEMMA HolderStep == IInv /\ Next => HolderInv'
<1> SUFFICES ASSUME IInv, Next PROVE HolderInv'
  OBVIOUS
<1> USE DEF IInv, TypeOK, HolderInv
<1>1. ASSUME NEW w \in Worker, Ask(w) \/ Step(w) PROVE HolderInv'
  <2>1. CASE Ask(w)
    BY <2>1 DEF Ask
  <2>2. CASE Lock(w)
    <3>1. CASE Cached(entry[w])
      BY <2>2, <3>1 DEF Lock
    <3>2. CASE ~Cached(entry[w])
      BY <2>2, <3>2, CacheAssumption DEF Lock, Cached
    <3> QED
      BY <3>1, <3>2
  <2>3. CASE GiveUp(w)
    BY <2>3 DEF GiveUp, Unlock
  <2>4. CASE MemoryLoad(w)
    BY <2>4 DEF MemoryLoad
  <2>5. CASE MemoryExchange(w)
    BY <2>5 DEF MemoryExchange, MemoryFits
  <2>6. CASE MemoryDecoded(w)
    BY <2>6 DEF MemoryDecoded, Store, Unlock
  <2>7. CASE MemoryFailed(w)
    BY <2>7 DEF MemoryFailed, Unlock
  <2>8. CASE MemoryUnavailable(w)
    BY <2>8 DEF MemoryUnavailable
  <2>9. CASE DiskProbe(w)
    BY <2>9 DEF DiskProbe
  <2>10. CASE DiskLoad(w)
    BY <2>10 DEF DiskLoad
  <2>11. CASE DiskExchange(w)
    BY <2>11 DEF DiskExchange, Unlock, Effective
  <2>12. CASE WriteBytes(w)
    BY <2>12 DEF WriteBytes
  <2>13. CASE RecordMaterialized(w)
    BY <2>13 DEF RecordMaterialized
  <2>14. CASE DiskDecoded(w)
    BY <2>14 DEF DiskDecoded, Store, Unlock
  <2>15. CASE DiskFailed(w)
    BY <2>15 DEF DiskFailed, Unlock, Released
  <2> QED
    BY <1>1, <2>1, <2>2, <2>3, <2>4, <2>5, <2>6, <2>7, <2>8, <2>9, <2>10,
     <2>11, <2>12, <2>13, <2>14, <2>15 DEF Step
<1>2. ASSUME NEW e \in Entry, ReleaseCell(e) PROVE HolderInv'
  BY <1>2, CacheAssumption DEF ReleaseCell, Cached
<1> QED
  BY <1>1, <1>2 DEF Next

\* A cell is filled and counted in one step, and emptied in one step.
LEMMA DecodedStep == IInv /\ Next => DecodedInv'
<1> SUFFICES ASSUME IInv, Next PROVE DecodedInv'
  OBVIOUS
<1> USE DEF IInv, TypeOK, DecodedInv
<1>1. ASSUME NEW w \in Worker, Ask(w) \/ Step(w) PROVE DecodedInv'
  <2>1. CASE Ask(w)
    BY <2>1 DEF Ask
  <2>2. CASE Lock(w)
    BY <2>2 DEF Lock, Cached
  <2>3. CASE GiveUp(w)
    BY <2>3 DEF GiveUp, Unlock
  <2>4. CASE MemoryLoad(w)
    BY <2>4 DEF MemoryLoad
  <2>5. CASE MemoryExchange(w)
    BY <2>5 DEF MemoryExchange, MemoryFits
  <2>6. CASE MemoryDecoded(w)
    BY <2>6 DEF MemoryDecoded, Store, Unlock
  <2>7. CASE MemoryFailed(w)
    BY <2>7 DEF MemoryFailed, Unlock
  <2>8. CASE MemoryUnavailable(w)
    BY <2>8 DEF MemoryUnavailable
  <2>9. CASE DiskProbe(w)
    BY <2>9 DEF DiskProbe
  <2>10. CASE DiskLoad(w)
    BY <2>10 DEF DiskLoad
  <2>11. CASE DiskExchange(w)
    BY <2>11 DEF DiskExchange, Unlock, Effective
  <2>12. CASE WriteBytes(w)
    BY <2>12 DEF WriteBytes
  <2>13. CASE RecordMaterialized(w)
    BY <2>13 DEF RecordMaterialized
  <2>14. CASE DiskDecoded(w)
    BY <2>14 DEF DiskDecoded, Store, Unlock
  <2>15. CASE DiskFailed(w)
    BY <2>15 DEF DiskFailed, Unlock, Released
  <2> QED
    BY <1>1, <2>1, <2>2, <2>3, <2>4, <2>5, <2>6, <2>7, <2>8, <2>9, <2>10,
     <2>11, <2>12, <2>13, <2>14, <2>15 DEF Step
<1>2. ASSUME NEW e \in Entry, ReleaseCell(e) PROVE DecodedInv'
  BY <1>2, CacheAssumption DEF ReleaseCell, Cached
<1> QED
  BY <1>1, <1>2 DEF Next

\* Bytes leave the reservation one by one, after they were written.
LEMMA ReservationStep == IInv /\ Next => ReservationInv'
<1> SUFFICES ASSUME IInv, Next PROVE ReservationInv'
  OBVIOUS
<1> USE DEF IInv, TypeOK, ReservationInv
<1>1. ASSUME NEW w \in Worker, Ask(w) \/ Step(w) PROVE ReservationInv'
  <2>1. CASE Ask(w)
    <3>1. /\ pc[w] \notin {"write", "record"} /\ pc'[w] \notin {"write", "record"}
          /\ \A v \in Worker \ {w} : pc'[v] = pc[v] /\ entry'[v] = entry[v]
      BY <2>1 DEF Ask
    <3>2. written' = written /\ remaining' = remaining
      BY <2>1 DEF Ask
    <3> QED
      BY <3>1, <3>2, ReservationFrame
  <2>2. CASE Lock(w)
    <3>1. /\ pc[w] \notin {"write", "record"} /\ pc'[w] \notin {"write", "record"}
          /\ \A v \in Worker \ {w} : pc'[v] = pc[v] /\ entry'[v] = entry[v]
      BY <2>2 DEF Lock
    <3>2. written' = written /\ remaining' = remaining
      BY <2>2 DEF Lock
    <3> QED
      BY <3>1, <3>2, ReservationFrame
  <2>3. CASE GiveUp(w)
    <3>1. /\ pc[w] \notin {"write", "record"} /\ pc'[w] \notin {"write", "record"}
          /\ \A v \in Worker \ {w} : pc'[v] = pc[v] /\ entry'[v] = entry[v]
      BY <2>3 DEF GiveUp
    <3>2. written' = written /\ remaining' = remaining
      BY <2>3 DEF GiveUp
    <3> QED
      BY <3>1, <3>2, ReservationFrame
  <2>4. CASE MemoryLoad(w)
    <3>1. /\ pc[w] \notin {"write", "record"} /\ pc'[w] \notin {"write", "record"}
          /\ \A v \in Worker \ {w} : pc'[v] = pc[v] /\ entry'[v] = entry[v]
      BY <2>4 DEF MemoryLoad
    <3>2. written' = written /\ remaining' = remaining
      BY <2>4 DEF MemoryLoad
    <3> QED
      BY <3>1, <3>2, ReservationFrame
  <2>5. CASE MemoryExchange(w)
    <3>1. /\ pc[w] \notin {"write", "record"} /\ pc'[w] \notin {"write", "record"}
          /\ \A v \in Worker \ {w} : pc'[v] = pc[v] /\ entry'[v] = entry[v]
      BY <2>5 DEF MemoryExchange
    <3>2. written' = written /\ remaining' = remaining
      BY <2>5 DEF MemoryExchange
    <3> QED
      BY <3>1, <3>2, ReservationFrame
  <2>6. CASE MemoryDecoded(w)
    <3>1. /\ pc[w] \notin {"write", "record"} /\ pc'[w] \notin {"write", "record"}
          /\ \A v \in Worker \ {w} : pc'[v] = pc[v] /\ entry'[v] = entry[v]
      BY <2>6 DEF MemoryDecoded
    <3>2. written' = written /\ remaining' = remaining
      BY <2>6 DEF MemoryDecoded
    <3> QED
      BY <3>1, <3>2, ReservationFrame
  <2>7. CASE MemoryFailed(w)
    <3>1. /\ pc[w] \notin {"write", "record"} /\ pc'[w] \notin {"write", "record"}
          /\ \A v \in Worker \ {w} : pc'[v] = pc[v] /\ entry'[v] = entry[v]
      BY <2>7 DEF MemoryFailed
    <3>2. written' = written /\ remaining' = remaining
      BY <2>7 DEF MemoryFailed
    <3> QED
      BY <3>1, <3>2, ReservationFrame
  <2>8. CASE MemoryUnavailable(w)
    <3>1. /\ pc[w] \notin {"write", "record"} /\ pc'[w] \notin {"write", "record"}
          /\ \A v \in Worker \ {w} : pc'[v] = pc[v] /\ entry'[v] = entry[v]
      BY <2>8 DEF MemoryUnavailable
    <3>2. written' = written /\ remaining' = remaining
      BY <2>8 DEF MemoryUnavailable
    <3> QED
      BY <3>1, <3>2, ReservationFrame
  <2>9. CASE DiskProbe(w)
    <3>1. /\ pc[w] \notin {"write", "record"} /\ pc'[w] \notin {"write", "record"}
          /\ \A v \in Worker \ {w} : pc'[v] = pc[v] /\ entry'[v] = entry[v]
      BY <2>9 DEF DiskProbe
    <3>2. written' = written /\ remaining' = remaining
      BY <2>9 DEF DiskProbe
    <3> QED
      BY <3>1, <3>2, ReservationFrame
  <2>10. CASE DiskLoad(w)
    <3>1. /\ pc[w] \notin {"write", "record"} /\ pc'[w] \notin {"write", "record"}
          /\ \A v \in Worker \ {w} : pc'[v] = pc[v] /\ entry'[v] = entry[v]
      BY <2>10 DEF DiskLoad
    <3>2. written' = written /\ remaining' = remaining
      BY <2>10 DEF DiskLoad
    <3> QED
      BY <3>1, <3>2, ReservationFrame
  <2>11. CASE DiskExchange(w)
    <3>1. \A v \in Worker : SizeOf(v) \in Nat /\ SizeOf(v)' = SizeOf(v)
      BY <2>11, SizeType DEF DiskExchange, SizeOf
    <3>2. \A v \in Worker \ {w} :
            pc'[v] = pc[v] /\ written'[v] = written[v] /\ remaining'[v] = remaining[v]
      BY <2>11 DEF DiskExchange
    <3>3. /\ pc'[w] = "write" => written'[w] + remaining'[w] = SizeOf(w)
          /\ pc'[w] = "record" => /\ written'[w] + remaining'[w] = SizeOf(w) + 1
                                 /\ written'[w] <= SizeOf(w)
          /\ pc'[w] \notin {"write", "record"} => written'[w] = 0 /\ remaining'[w] = 0
      BY <2>11, <3>1 DEF DiskExchange
    <3> QED
      BY <3>1, <3>2, <3>3
  <2>12. CASE WriteBytes(w)
    <3>1. \A v \in Worker : SizeOf(v) \in Nat /\ SizeOf(v)' = SizeOf(v)
      BY <2>12, SizeType DEF WriteBytes, SizeOf
    <3>2. \A v \in Worker \ {w} :
            pc'[v] = pc[v] /\ written'[v] = written[v] /\ remaining'[v] = remaining[v]
      BY <2>12 DEF WriteBytes
    <3>3. /\ pc[w] = "write" /\ written[w] < SizeOf(w) /\ pc'[w] = "record"
          /\ written'[w] = written[w] + 1 /\ remaining'[w] = remaining[w]
      BY <2>12 DEF WriteBytes
    <3>4. written[w] + remaining[w] = SizeOf(w) /\ written[w] \in Nat /\ remaining[w] \in Nat
      BY <3>3
    <3>5. written'[w] + remaining'[w] = SizeOf(w) + 1 /\ written'[w] <= SizeOf(w)
      BY <3>1, <3>3, <3>4
    <3> QED
      BY <3>1, <3>2, <3>3, <3>5
  <2>13. CASE RecordMaterialized(w)
    <3>1. \A v \in Worker : SizeOf(v) \in Nat /\ SizeOf(v)' = SizeOf(v)
      BY <2>13, SizeType DEF RecordMaterialized, SizeOf
    <3>2. \A v \in Worker \ {w} :
            pc'[v] = pc[v] /\ written'[v] = written[v] /\ remaining'[v] = remaining[v]
      BY <2>13 DEF RecordMaterialized
    <3>3. /\ pc'[w] = "write" => written'[w] + remaining'[w] = SizeOf(w)
          /\ pc'[w] = "record" => /\ written'[w] + remaining'[w] = SizeOf(w) + 1
                                 /\ written'[w] <= SizeOf(w)
          /\ pc'[w] \notin {"write", "record"} => written'[w] = 0 /\ remaining'[w] = 0
      BY <2>13, <3>1 DEF RecordMaterialized
    <3> QED
      BY <3>1, <3>2, <3>3
  <2>14. CASE DiskDecoded(w)
    <3>1. \A v \in Worker : SizeOf(v) \in Nat /\ SizeOf(v)' = SizeOf(v)
      BY <2>14, SizeType DEF DiskDecoded, SizeOf
    <3>2. \A v \in Worker \ {w} :
            pc'[v] = pc[v] /\ written'[v] = written[v] /\ remaining'[v] = remaining[v]
      BY <2>14 DEF DiskDecoded
    <3>3. /\ pc'[w] = "write" => written'[w] + remaining'[w] = SizeOf(w)
          /\ pc'[w] = "record" => /\ written'[w] + remaining'[w] = SizeOf(w) + 1
                                 /\ written'[w] <= SizeOf(w)
          /\ pc'[w] \notin {"write", "record"} => written'[w] = 0 /\ remaining'[w] = 0
      BY <2>14, <3>1 DEF DiskDecoded
    <3> QED
      BY <3>1, <3>2, <3>3
  <2>15. CASE DiskFailed(w)
    <3>1. \A v \in Worker : SizeOf(v) \in Nat /\ SizeOf(v)' = SizeOf(v)
      BY <2>15, SizeType DEF DiskFailed, SizeOf
    <3>2. \A v \in Worker \ {w} :
            pc'[v] = pc[v] /\ written'[v] = written[v] /\ remaining'[v] = remaining[v]
      BY <2>15 DEF DiskFailed
    <3>3. /\ pc'[w] = "write" => written'[w] + remaining'[w] = SizeOf(w)
          /\ pc'[w] = "record" => /\ written'[w] + remaining'[w] = SizeOf(w) + 1
                                 /\ written'[w] <= SizeOf(w)
          /\ pc'[w] \notin {"write", "record"} => written'[w] = 0 /\ remaining'[w] = 0
      BY <2>15, <3>1 DEF DiskFailed
    <3> QED
      BY <3>1, <3>2, <3>3
  <2> QED
    BY <1>1, <2>1, <2>2, <2>3, <2>4, <2>5, <2>6, <2>7, <2>8, <2>9, <2>10,
     <2>11, <2>12, <2>13, <2>14, <2>15 DEF Step
<1>2. ASSUME NEW e \in Entry, ReleaseCell(e) PROVE ReservationInv'
  <2>1. UNCHANGED <<pc, entry, written, remaining>>
    BY <1>2 DEF ReleaseCell
  <2> QED
    BY <2>1 DEF SizeOf
<1> QED
  BY <1>1, <1>2 DEF Next

\* The counter only grows by a compare-exchange that fits.
LEMMA LimitStep == IInv /\ Next => MemoryWithinLimit'
<1> SUFFICES ASSUME IInv, Next PROVE MemoryWithinLimit'
  OBVIOUS
<1> USE DEF IInv, TypeOK, MemoryWithinLimit
<1>1. ASSUME NEW w \in Worker, Ask(w) \/ Step(w) PROVE MemoryWithinLimit'
  <2>1. CASE Ask(w)
    BY <2>1 DEF Ask
  <2>2. CASE Lock(w)
    BY <2>2 DEF Lock, Cached
  <2>3. CASE GiveUp(w)
    BY <2>3 DEF GiveUp, Unlock
  <2>4. CASE MemoryLoad(w)
    BY <2>4 DEF MemoryLoad
  <2>5. CASE MemoryExchange(w)
    BY <2>5 DEF MemoryExchange, MemoryFits
  <2>6. CASE MemoryDecoded(w)
    BY <2>6 DEF MemoryDecoded, Store, Unlock
  <2>7. CASE MemoryFailed(w)
    BY <2>7, SizeType, CacheAssumption DEF MemoryFailed
  <2>8. CASE MemoryUnavailable(w)
    BY <2>8, SizeType, CacheAssumption DEF MemoryUnavailable
  <2>9. CASE DiskProbe(w)
    BY <2>9 DEF DiskProbe
  <2>10. CASE DiskLoad(w)
    BY <2>10 DEF DiskLoad
  <2>11. CASE DiskExchange(w)
    BY <2>11 DEF DiskExchange, Unlock, Effective
  <2>12. CASE WriteBytes(w)
    BY <2>12 DEF WriteBytes
  <2>13. CASE RecordMaterialized(w)
    BY <2>13 DEF RecordMaterialized
  <2>14. CASE DiskDecoded(w)
    BY <2>14 DEF DiskDecoded, Store, Unlock
  <2>15. CASE DiskFailed(w)
    BY <2>15 DEF DiskFailed, Unlock, Released
  <2> QED
    BY <1>1, <2>1, <2>2, <2>3, <2>4, <2>5, <2>6, <2>7, <2>8, <2>9, <2>10,
     <2>11, <2>12, <2>13, <2>14, <2>15 DEF Step
<1>2. ASSUME NEW e \in Entry, ReleaseCell(e) PROVE MemoryWithinLimit'
  BY <1>2, SizeType, CacheAssumption DEF ReleaseCell
<1> QED
  BY <1>1, <1>2 DEF Next

\* Only a worker that found the cell empty fills it.
LEMMA OnceStep == IInv /\ Next => ExpandedOnce'
<1> SUFFICES ASSUME IInv, Next PROVE ExpandedOnce'
  OBVIOUS
<1> USE DEF IInv, TypeOK, ExpandedOnce
<1>1. ASSUME NEW w \in Worker, Ask(w) \/ Step(w) PROVE ExpandedOnce'
  <2>1. CASE Ask(w)
    BY <2>1 DEF Ask
  <2>2. CASE Lock(w)
    BY <2>2 DEF Lock, Cached
  <2>3. CASE GiveUp(w)
    BY <2>3 DEF GiveUp, Unlock
  <2>4. CASE MemoryLoad(w)
    BY <2>4 DEF MemoryLoad
  <2>5. CASE MemoryExchange(w)
    BY <2>5 DEF MemoryExchange, MemoryFits
  <2>6. CASE MemoryDecoded(w)
    BY <2>6 DEF MemoryDecoded, Store, Unlock, HolderInv, DecodedInv
  <2>7. CASE MemoryFailed(w)
    BY <2>7 DEF MemoryFailed, Unlock
  <2>8. CASE MemoryUnavailable(w)
    BY <2>8 DEF MemoryUnavailable
  <2>9. CASE DiskProbe(w)
    BY <2>9 DEF DiskProbe
  <2>10. CASE DiskLoad(w)
    BY <2>10 DEF DiskLoad
  <2>11. CASE DiskExchange(w)
    BY <2>11 DEF DiskExchange, Unlock, Effective
  <2>12. CASE WriteBytes(w)
    BY <2>12 DEF WriteBytes
  <2>13. CASE RecordMaterialized(w)
    BY <2>13 DEF RecordMaterialized
  <2>14. CASE DiskDecoded(w)
    BY <2>14 DEF DiskDecoded, Store, Unlock, HolderInv, DecodedInv
  <2>15. CASE DiskFailed(w)
    BY <2>15 DEF DiskFailed, Unlock, Released
  <2> QED
    BY <1>1, <2>1, <2>2, <2>3, <2>4, <2>5, <2>6, <2>7, <2>8, <2>9, <2>10,
     <2>11, <2>12, <2>13, <2>14, <2>15 DEF Step
<1>2. ASSUME NEW e \in Entry, ReleaseCell(e) PROVE ExpandedOnce'
  BY <1>2, CacheAssumption DEF ReleaseCell, Cached
<1> QED
  BY <1>1, <1>2 DEF Next

-----------------------------------------------------------------------------
(***************************************************************************)
(* The counters                                                            *)
(***************************************************************************)
Sizes == [w \in Worker |-> SizeOf(w)]
MemoryCounted == memory = Weight(Size, InRam) + Weight(Sizes, DecodingToRam)
PendingCounted == pending = Weight(remaining, Worker)

\* Nothing is counted anew when neither the cells nor the decodings change.
LEMMA MemoryFrame ==
  ASSUME TypeOK, MemoryCounted, memory' = memory, InRam' = InRam,
         DecodingToRam' = DecodingToRam, \A w \in DecodingToRam : entry'[w] = entry[w]
  PROVE  MemoryCounted'
<1>1. \A w \in DecodingToRam : Sizes[w] = Sizes'[w]
  BY DEF Sizes, SizeOf, DecodingToRam
<1>2. Weight(Sizes, DecodingToRam) = Weight(Sizes', DecodingToRam)
  BY <1>1, WeightSame
<1> QED
  BY <1>2 DEF MemoryCounted

\* A decoding that ends takes its size from the sum of the decodings.
LEMMA DecodingEnds ==
  ASSUME TypeOK, NEW w \in DecodingToRam, DecodingToRam' = DecodingToRam \ {w}, entry' = entry
  PROVE  /\ Weight(Sizes, DecodingToRam)' = Weight(Sizes, DecodingToRam) - SizeOf(w)
         /\ Weight(Sizes, DecodingToRam) \in Nat /\ SizeOf(w) \in Nat
<1>1. \A v \in DecodingToRam : Sizes[v] \in Nat /\ Sizes[v] = SizeOf(v)
  BY SizeType DEF Sizes, DecodingToRam
<1>2. Sizes' = Sizes
  BY DEF Sizes, SizeOf
<1>3. IsFiniteSet(DecodingToRam)
  BY SumTypes
<1>4. Weight(Sizes, DecodingToRam \ {w}) = Weight(Sizes, DecodingToRam) - Sizes[w]
  BY <1>1, <1>3, WeightRemove
<1>5. Weight(Sizes, DecodingToRam) \in Nat
  BY <1>1, <1>3, WeightType
<1> QED
  BY <1>1, <1>2, <1>4, <1>5

\* The RAM counter is what is cached in RAM and what is being decoded to it.
LEMMA MemoryStep == IInv /\ Next => MemoryCounted'
<1> SUFFICES ASSUME IInv, Next PROVE MemoryCounted'
  OBVIOUS
<1>1. TypeOK /\ HolderInv /\ MemoryCounted
  BY DEF IInv, CountersMatchReservations, MemoryCounted, Sizes
<1>2. /\ IsFiniteSet(InRam) /\ IsFiniteSet(DecodingToRam)
      /\ Weight(Size, InRam) \in Nat /\ Weight(Sizes, DecodingToRam) \in Nat
  BY <1>1, SumTypes DEF Sizes
<1>3. ASSUME NEW w \in Worker, MemoryExchange(w), pc'[w] = "memoryDecode" PROVE MemoryCounted'
  <2>1. /\ memory' = memory + SizeOf(w) /\ cell' = cell /\ entry' = entry
        /\ pc' = [pc EXCEPT ![w] = "memoryDecode"] /\ pc[w] = "memoryExchange"
    BY <1>1, <1>3 DEF MemoryExchange, TypeOK
  <2>2. w \notin DecodingToRam /\ DecodingToRam' = DecodingToRam \cup {w} /\ InRam' = InRam
    BY <1>1, <2>1 DEF DecodingToRam, InRam, TypeOK
  <2>3. Sizes' = Sizes /\ \A v \in Worker : Sizes[v] \in Nat /\ Sizes[v] = SizeOf(v)
    BY <1>1, <2>1, SizeType DEF Sizes, SizeOf
  <2>4. \A v \in DecodingToRam : v \in Worker
    BY DEF DecodingToRam
  <2>5. Weight(Sizes, DecodingToRam \cup {w}) = Weight(Sizes, DecodingToRam) + Sizes[w]
    BY <1>2, <2>2, <2>3, <2>4, WeightAdd
  <2>6. Weight(Sizes, DecodingToRam)' = Weight(Sizes, DecodingToRam) + SizeOf(w)
    BY <2>2, <2>3, <2>5
  <2>7. memory = Weight(Size, InRam) + Weight(Sizes, DecodingToRam) /\ SizeOf(w) \in Nat
    BY <1>1, SizeType DEF MemoryCounted
  <2>8. memory' = Weight(Size, InRam)' + Weight(Sizes, DecodingToRam)'
    BY <1>2, <2>1, <2>2, <2>6, <2>7
  <2> QED
    BY <2>8 DEF MemoryCounted
<1>4. ASSUME NEW w \in Worker, MemoryDecoded(w) PROVE MemoryCounted'
  <2>1. /\ pc[w] = "memoryDecode" /\ pc' = [pc EXCEPT ![w] = "idle"] /\ memory' = memory
        /\ cell' = [cell EXCEPT ![entry[w]] = "memory"] /\ entry' = entry
    BY <1>4 DEF MemoryDecoded, Store
  <2>2. entry[w] \in Entry /\ cell[entry[w]] = "empty"
    BY <1>1, <2>1 DEF HolderInv, TypeOK
  <2>3. w \in DecodingToRam /\ DecodingToRam' = DecodingToRam \ {w}
    BY <1>1, <2>1 DEF DecodingToRam, TypeOK
  <2>4. entry[w] \notin InRam /\ InRam' = InRam \cup {entry[w]}
    BY <1>1, <2>1, <2>2 DEF InRam, TypeOK
  <2>5. Weight(Sizes, DecodingToRam)' = Weight(Sizes, DecodingToRam) - SizeOf(w) /\ SizeOf(w) \in Nat
    BY <1>1, <2>1, <2>3, DecodingEnds
  <2>6. \A e \in InRam \cup {entry[w]} : Size[e] \in Nat
    BY <2>2, SizeType DEF InRam
  <2>7. Weight(Size, InRam \cup {entry[w]}) = Weight(Size, InRam) + Size[entry[w]]
    BY <1>2, <2>4, <2>6, WeightAdd
  <2>8. Weight(Size, InRam)' = Weight(Size, InRam) + SizeOf(w)
    BY <2>4, <2>7 DEF SizeOf
  <2>9. memory = Weight(Size, InRam) + Weight(Sizes, DecodingToRam)
    BY <1>1 DEF MemoryCounted
  <2>10. memory' = Weight(Size, InRam)' + Weight(Sizes, DecodingToRam)'
    BY <1>2, <2>1, <2>5, <2>8, <2>9
  <2> QED
    BY <2>10 DEF MemoryCounted
<1>5. ASSUME NEW w \in Worker, MemoryFailed(w) \/ MemoryUnavailable(w) PROVE MemoryCounted'
  <2>1. /\ pc[w] = "memoryDecode" /\ pc' \in {[pc EXCEPT ![w] = "idle"], [pc EXCEPT ![w] = "diskProbe"]}
        /\ memory' = memory - SizeOf(w) /\ cell' = cell /\ entry' = entry
    BY <1>5 DEF MemoryFailed, MemoryUnavailable
  <2>2. w \in DecodingToRam /\ DecodingToRam' = DecodingToRam \ {w} /\ InRam' = InRam
    BY <1>1, <2>1 DEF DecodingToRam, InRam, TypeOK
  <2>3. Weight(Sizes, DecodingToRam)' = Weight(Sizes, DecodingToRam) - SizeOf(w) /\ SizeOf(w) \in Nat
    BY <1>1, <2>1, <2>2, DecodingEnds
  <2>4. memory = Weight(Size, InRam) + Weight(Sizes, DecodingToRam)
    BY <1>1 DEF MemoryCounted
  <2>5. memory' = Weight(Size, InRam)' + Weight(Sizes, DecodingToRam)'
    BY <1>2, <2>1, <2>2, <2>3, <2>4
  <2> QED
    BY <2>5 DEF MemoryCounted
<1>6. ASSUME NEW e \in Entry, ReleaseCell(e) PROVE MemoryCounted'
  <2>1. /\ cell' = [cell EXCEPT ![e] = "empty"] /\ UNCHANGED <<pc, entry>>
        /\ memory' = IF cell[e] = "memory" THEN memory - Size[e] ELSE memory
    BY <1>6 DEF ReleaseCell
  <2>2. DecodingToRam' = DecodingToRam /\ Sizes' = Sizes
    BY <2>1 DEF DecodingToRam, Sizes, SizeOf
  <2>3. InRam' = InRam \ {e}
    BY <1>1, <2>1 DEF InRam, TypeOK
  <2>4. memory = Weight(Size, InRam) + Weight(Sizes, DecodingToRam)
    BY <1>1 DEF MemoryCounted
  <2>5. CASE e \in InRam
    <3>1. \A x \in InRam : Size[x] \in Nat
      BY SizeType DEF InRam
    <3>2. Weight(Size, InRam \ {e}) = Weight(Size, InRam) - Size[e]
      BY <1>2, <2>5, <3>1, WeightRemove
    <3>3. memory' = memory - Size[e] /\ Size[e] \in Nat
      BY <2>1, <2>5, SizeType DEF InRam
    <3>4. memory' = Weight(Size, InRam)' + Weight(Sizes, DecodingToRam)'
      BY <1>2, <2>2, <2>3, <2>4, <3>2, <3>3
    <3> QED
      BY <3>4 DEF MemoryCounted
  <2>6. CASE e \notin InRam
    <3>1. InRam' = InRam /\ memory' = memory
      BY <2>1, <2>3, <2>6 DEF InRam
    <3> QED
      BY <2>2, <2>4, <3>1 DEF MemoryCounted
  <2> QED
    BY <2>5, <2>6
<1>7. ASSUME NEW w \in Worker, Ask(w) \/ Step(w),
             ~(MemoryExchange(w) /\ pc'[w] = "memoryDecode"), ~MemoryDecoded(w),
             ~MemoryFailed(w), ~MemoryUnavailable(w)
      PROVE  MemoryCounted'
  <2>1. memory' = memory
    BY <1>1, <1>7 DEF Step, Ask, Lock, GiveUp, MemoryLoad, MemoryExchange, DiskProbe, DiskLoad,
       DiskExchange, WriteBytes, RecordMaterialized, DiskDecoded, DiskFailed, TypeOK
  <2>2. \A v \in Worker \ {w} : pc'[v] = pc[v] /\ entry'[v] = entry[v]
    BY <1>1, <1>7 DEF Step, Ask, Lock, GiveUp, MemoryLoad, MemoryExchange, DiskProbe, DiskLoad,
       DiskExchange, WriteBytes, RecordMaterialized, DiskDecoded, DiskFailed, TypeOK
  <2>3. pc[w] # "memoryDecode" /\ pc'[w] # "memoryDecode"
    BY <1>1, <1>7 DEF Step, Ask, Lock, GiveUp, MemoryLoad, MemoryExchange, DiskProbe, DiskLoad,
       DiskExchange, WriteBytes, RecordMaterialized, DiskDecoded, DiskFailed, TypeOK
  <2>4. cell' = cell \/ DiskDecoded(w)
    BY <1>7 DEF Step, Ask, Lock, GiveUp, MemoryLoad, MemoryExchange, DiskProbe, DiskLoad,
       DiskExchange, WriteBytes, RecordMaterialized, DiskFailed
  <2>5. InRam' = InRam
    <3>1. CASE cell' = cell
      BY <3>1 DEF InRam
    <3>2. CASE DiskDecoded(w)
      <4>1. cell' = [cell EXCEPT ![entry[w]] = "disk"] /\ cell[entry[w]] = "empty"
        BY <1>1, <3>2 DEF DiskDecoded, Store, HolderInv
      <4> QED
        BY <1>1, <4>1 DEF InRam, TypeOK
    <3> QED
      BY <2>4, <3>1, <3>2
  <2>6. DecodingToRam' = DecodingToRam /\ \A v \in DecodingToRam : entry'[v] = entry[v]
    BY <2>2, <2>3 DEF DecodingToRam
  <2> QED
    BY <1>1, <2>1, <2>5, <2>6, MemoryFrame
<1> QED
  BY <1>3, <1>4, <1>5, <1>6, <1>7 DEF Next

\* When the reservation of one worker changes, the sum does so by as much.
LEMMA ReservationChanges ==
  ASSUME TypeOK, PendingCounted, NEW w \in Worker, NEW n \in Nat,
         remaining' = [remaining EXCEPT ![w] = n]
  PROVE  Weight(remaining, Worker)' = pending - remaining[w] + n
<1>1. \A v \in Worker : remaining[v] \in Nat /\ remaining'[v] \in Nat
  BY DEF TypeOK
<1>2. \A v \in Worker \ {w} : remaining'[v] = remaining[v]
  BY DEF TypeOK
<1>3. remaining'[w] = n
  BY DEF TypeOK
<1>4. IsFiniteSet(Worker)
  BY CacheAssumption
<1>5. \A f, g : (\A v \in Worker : f[v] \in Nat /\ g[v] \in Nat) /\ (\A v \in Worker \ {w} : g[v] = f[v])
              => Weight(g, Worker) = Weight(f, Worker) - f[w] + g[w]
  BY <1>4, WeightChange
<1>6. Weight(remaining', Worker) = Weight(remaining, Worker) - remaining[w] + remaining'[w]
  BY <1>1, <1>2, <1>5
<1> QED
  BY <1>3, <1>6 DEF PendingCounted

\* The disk counter is what the workers have reserved and not recorded.
LEMMA PendingStep == IInv /\ Next => PendingCounted'
<1> SUFFICES ASSUME IInv, Next PROVE PendingCounted'
  OBVIOUS
<1>1. TypeOK /\ ReservationInv /\ PendingCounted
  BY DEF IInv, CountersMatchReservations, PendingCounted
<1>2. ASSUME UNCHANGED <<pending, remaining>> PROVE PendingCounted'
  BY <1>1, <1>2 DEF PendingCounted
<1>3. ASSUME NEW w \in Worker, DiskExchange(w) PROVE PendingCounted'
  <2>1. CASE UNCHANGED <<pending, remaining>>
    BY <1>2, <2>1
  <2>2. CASE ~UNCHANGED <<pending, remaining>>
    <3>1. /\ pending' = pending + SizeOf(w) /\ remaining' = [remaining EXCEPT ![w] = SizeOf(w)]
          /\ pc[w] = "diskExchange"
      BY <1>3, <2>2 DEF DiskExchange
    <3>2. remaining[w] = 0 /\ SizeOf(w) \in Nat /\ pending \in Nat
      BY <1>1, <3>1, SizeType DEF ReservationInv, TypeOK
    <3>3. Weight(remaining, Worker)' = pending - remaining[w] + SizeOf(w)
      BY <1>1, <3>1, <3>2, ReservationChanges
    <3> QED
      BY <3>1, <3>2, <3>3 DEF PendingCounted
  <2> QED
    BY <2>1, <2>2
<1>4. ASSUME NEW w \in Worker, RecordMaterialized(w) PROVE PendingCounted'
  <2>1. /\ pending' = pending - 1 /\ remaining' = [remaining EXCEPT ![w] = remaining[w] - 1]
        /\ pc[w] = "record"
    BY <1>4 DEF RecordMaterialized
  <2>2. SizeOf(w) \in Nat /\ remaining[w] \in Nat /\ written[w] \in Nat /\ pending \in Nat
    BY <1>1, SizeType DEF TypeOK
  <2>3. remaining[w] - 1 \in Nat
    BY <1>1, <2>1, <2>2 DEF ReservationInv
  <2>4. Weight(remaining, Worker)' = pending - remaining[w] + (remaining[w] - 1)
    BY <1>1, <2>1, <2>3, ReservationChanges
  <2> QED
    BY <2>1, <2>2, <2>4 DEF PendingCounted
<1>5. ASSUME NEW w \in Worker, DiskFailed(w) PROVE PendingCounted'
  <2>1. pending' = pending - remaining[w] /\ remaining' = [remaining EXCEPT ![w] = 0]
    BY <1>5 DEF DiskFailed, Released
  <2>2. Weight(remaining, Worker)' = pending - remaining[w] + 0
    BY <1>1, <2>1, ReservationChanges
  <2>3. pending \in Nat /\ remaining[w] \in Nat
    BY <1>1 DEF TypeOK
  <2> QED
    BY <2>1, <2>2, <2>3 DEF PendingCounted
<1>6. ASSUME NEW w \in Worker, Ask(w) \/ Step(w),
             ~DiskExchange(w), ~RecordMaterialized(w), ~DiskFailed(w)
      PROVE  PendingCounted'
  <2>1. UNCHANGED <<pending, remaining>>
    BY <1>6 DEF Step, Ask, Lock, GiveUp, MemoryLoad, MemoryExchange, MemoryDecoded, MemoryFailed,
       MemoryUnavailable, DiskProbe, DiskLoad, WriteBytes, DiskDecoded
  <2> QED
    BY <1>2, <2>1
<1>7. ASSUME NEW e \in Entry, ReleaseCell(e) PROVE PendingCounted'
  BY <1>2, <1>7 DEF ReleaseCell
<1> QED
  BY <1>3, <1>4, <1>5, <1>6, <1>7 DEF Next
-----------------------------------------------------------------------------
\* Everything is empty and nothing is reserved.
LEMMA InitIInv == Init => IInv
<1> SUFFICES ASSUME Init PROVE IInv
  OBVIOUS
<1>1. TypeOK
  BY CacheAssumption DEF Init, TypeOK, Places
<1>2. HolderInv /\ DecodedInv /\ ReservationInv /\ ExpandedOnce
  BY DEF Init, HolderInv, DecodedInv, ReservationInv, ExpandedOnce
<1>3. MemoryWithinLimit
  BY CacheAssumption DEF Init, MemoryWithinLimit
<1>4. CountersMatchReservations
  <2>1. InRam = {} /\ DecodingToRam = {}
    BY DEF Init, InRam, DecodingToRam
  <2>2. \A w \in Worker : remaining[w] = 0
    BY DEF Init
  <2>3. Held(remaining, Worker) = {}
    BY <2>2 DEF Held, UnitsOf
  <2>4. Weight(remaining, Worker) = 0
    BY <2>3, FS_EmptySet DEF Weight
  <2> QED
    BY <2>1, <2>4, WeightEmpty DEF Init, CountersMatchReservations
<1> QED
  BY <1>1, <1>2, <1>3, <1>4 DEF IInv

\* No step, and no stuttering, leaves the inductive invariant.
LEMMA NextKeepsIInv == IInv /\ [Next]_vars => IInv'
<1>1. ASSUME IInv, Next PROVE IInv'
  <2>1. CountersMatchReservations'
    BY <1>1, MemoryStep, PendingStep DEF CountersMatchReservations, MemoryCounted, PendingCounted, Sizes
  <2> QED
    BY <1>1, <2>1, TypeStep, HolderStep, DecodedStep, ReservationStep, LimitStep, OnceStep DEF IInv
<1>2. ASSUME IInv, UNCHANGED vars PROVE IInv'
  BY <1>2 DEF vars, IInv, TypeOK, HolderInv, DecodedInv, ReservationInv, MemoryWithinLimit,
     CountersMatchReservations, ExpandedOnce, InRam, DecodingToRam, SizeOf
<1> QED
  BY <1>1, <1>2

LEMMA Invariance == Spec => []IInv
BY InitIInv, NextKeepsIInv, PTL DEF Spec
-----------------------------------------------------------------------------
\* The variables keep their types: no counter goes below zero.
THEOREM TypeCorrect == Spec => []TypeOK
<1>1. IInv => TypeOK
  BY DEF IInv
<1> QED
  BY <1>1, Invariance, PTL

\* try_reserve_decoded_memory never admits more than the limit.
THEOREM MemoryStaysWithinLimit == Spec => []MemoryWithinLimit
<1>1. IInv => MemoryWithinLimit
  BY DEF IInv
<1> QED
  BY <1>1, Invariance, PTL

\* No reservation is lost or given back twice, whatever fails.
THEOREM CountersAreReservations == Spec => []CountersMatchReservations
<1>1. IInv => CountersMatchReservations
  BY DEF IInv
<1> QED
  BY <1>1, Invariance, PTL

\* cached_compressed_entry expands an entry once until its cell is emptied.
THEOREM EntriesExpandedOnce == Spec => []ExpandedOnce
<1>1. IInv => ExpandedOnce
  BY DEF IInv
<1> QED
  BY <1>1, Invariance, PTL
=============================================================================
