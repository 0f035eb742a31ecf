------------------------ MODULE DatabaseMerge_proofs ------------------------
(***************************************************************************)
(* Proofs about the merge of one database, for any number of input Paks,   *)
(* any databases and any profile.  First, over the whole list: its types,  *)
(* that the merged list holds every row once, that the user is asked only  *)
(* where inputs disagree, and that the report's audit hides no             *)
(* replacement.  Then, row by row: the units of a row share no byte, so    *)
(* that splicing the chosen ones in never fails and changes nothing else,  *)
(* and the conflicts of the plan are those of the comparison, so that what *)
(* differs was asked and what was chosen is stored.                        *)
(***************************************************************************)
EXTENDS DatabaseMerge, FiniteSetTheorems, SequenceTheorems, WellFoundedInduction, TLAPS

-----------------------------------------------------------------------------
(***************************************************************************)
(* Finite sets                                                             *)
(***************************************************************************)
\* The range of a function over a finite set is finite.
LEMMA RangeIsFinite ==
  ASSUME NEW S, IsFiniteSet(S), NEW f, DOMAIN f = S
  PROVE  IsFiniteSet({f[x] : x \in S})
<1> DEFINE T == {f[x] : x \in S}
           g == [x \in S |-> f[x]]
<1>1. g \in Surjection(S, T)
  BY DEF Surjection
<1> QED
  BY <1>1, FS_Surjection

\* And so is every set that a function over a finite set reaches.
LEMMA ReachedIsFinite ==
  ASSUME NEW S, IsFiniteSet(S), NEW f, DOMAIN f = S,
         NEW T, \A t \in T : \E x \in S : t = f[x]
  PROVE  IsFiniteSet(T)
<1> DEFINE R == {f[x] : x \in S}
<1>1. T \in SUBSET R /\ IsFiniteSet(R)
  BY RangeIsFinite
<1> HIDE DEF R
<1> QED
  BY <1>1, FS_Subset

\* A finite set of integers that is not empty has a lowest member.
LEMMA LowestExists ==
  ASSUME NEW S \in SUBSET Int, IsFiniteSet(S), S # {}
  PROVE  Lowest(S) \in S /\ \A y \in S : Lowest(S) <= y
<1> DEFINE Below(x) == {y \in S : y < x}
           T == {Below(x) : x \in S}
<1>1. T \subseteq FiniteSubsetsOf(S) /\ T # {}
  <2>1. \A x \in S : Below(x) \in SUBSET S /\ IsFiniteSet(Below(x))
    <3> TAKE x \in S
    <3>1. Below(x) \in SUBSET S
      OBVIOUS
    <3> QED
      BY <3>1, FS_Subset
  <2> HIDE DEF Below
  <2> QED
    BY <2>1 DEF FiniteSubsetsOf
<1>2. PICK B \in T : \A A \in T : ~(<<A, B>> \in StrictSubsetOrdering(S))
  BY <1>1, FS_StrictSubsetOrderingWellFounded, WFMin
<1>3. PICK x \in S : B = Below(x)
  BY <1>2
<1>4. \A y \in S : ~(y < x)
  <2> SUFFICES ASSUME NEW y \in S, y < x PROVE FALSE
    OBVIOUS
  <2>1. Below(y) \subseteq Below(x)
    <3>1. \A z \in S : z < y => z < x
      OBVIOUS
    <3> QED
      BY <3>1
  <2>2. y \in Below(x) /\ y \notin Below(y)
    OBVIOUS
  <2>3. Below(y) \in SUBSET S /\ Below(x) \in SUBSET S
    OBVIOUS
  <2>4. <<Below(y), Below(x)>> \in StrictSubsetOrdering(S) /\ Below(y) \in T
    <3> HIDE DEF Below
    <3> QED
      BY <2>1, <2>2, <2>3 DEF StrictSubsetOrdering
  <2> QED
    BY <1>2, <1>3, <2>4
<1>5. x \in S /\ \A y \in S : x <= y
  BY <1>4
<1> QED
  BY <1>5 DEF Lowest
-----------------------------------------------------------------------------
(***************************************************************************)
(* Rows and their units                                                    *)
(***************************************************************************)
\* A profile group cuts a row into finitely many units.
LEMMA GroupUnitsAreFinite ==
  ASSUME NEW row, IsRow(row), NEW g \in Groups
  PROVE  IsFiniteSet(GroupUnits(g, row))
<1>1. CASE Present(g, row) = {}
  BY <1>1, FS_EmptySet DEF GroupUnits
<1>2. CASE Present(g, row) # {} /\ IsParallel(g, row)
  <2> DEFINE n == ParallelLen(g, row)
             unit == [i \in 1..n |->
                        [id |-> <<"group", g.id, i>>, fields |-> Present(g, row),
                         compound |-> TRUE, index |-> i, len |-> n]]
  <2>1. n \in Nat
    <3>1. PICK f \in Present(g, row) : n = ArrayLen(row, f)
      BY <1>2 DEF ParallelLen
    <3>2. f \in DOMAIN row.val /\ row.val[f] \in Node
      BY DEF Present, IsRow
    <3> QED
      BY <3>1, <3>2 DEF ArrayLen, Node
  <2>2. IsFiniteSet(1..n)
    BY <2>1, FS_Interval
  <2>3. \A u \in GroupUnits(g, row) : \E i \in 1..n : u = unit[i]
    BY <1>2 DEF GroupUnits
  <2>4. DOMAIN unit = 1..n
    OBVIOUS
  <2> HIDE DEF n, unit
  <2> QED
    BY <2>2, <2>3, <2>4, ReachedIsFinite
<1>3. CASE Present(g, row) # {} /\ ~IsParallel(g, row)
  BY <1>3, FS_Singleton DEF GroupUnits
<1> QED
  BY <1>1, <1>2, <1>3

\* A row has finitely many units.
LEMMA UnitsAreFinite ==
  ASSUME NEW row, IsRow(row)
  PROVE  IsFiniteSet(Units(row))
<1>1. IsFiniteSet(UNION {GroupUnits(g, row) : g \in Groups})
  <2> DEFINE units == [g \in Groups |-> GroupUnits(g, row)]
  <2>1. IsFiniteSet({units[g] : g \in Groups})
    <3>1. DOMAIN units = Groups
      OBVIOUS
    <3> HIDE DEF units
    <3> QED
      BY <3>1, ProfileAssumption, RangeIsFinite
  <2>2. \A T \in {units[g] : g \in Groups} : IsFiniteSet(T)
    BY GroupUnitsAreFinite
  <2>3. UNION {units[g] : g \in Groups} = UNION {GroupUnits(g, row) : g \in Groups}
    OBVIOUS
  <2>4. IsFiniteSet(UNION {units[g] : g \in Groups})
    <3> HIDE DEF units
    <3> QED
      BY <2>1, <2>2, FS_UNION
  <2> QED
    BY <2>3, <2>4
<1>2. IsFiniteSet(DOMAIN row.val)
  <2>1. DOMAIN row.order = 1..Len(row.order) /\ Len(row.order) \in Nat
    BY DEF IsRow
  <2>2. IsFiniteSet(1..Len(row.order))
    <3> DEFINE n == Len(row.order)
    <3>1. n \in Nat
      BY <2>1
    <3> HIDE DEF n
    <3>2. IsFiniteSet(1..n)
      BY <3>1, FS_Interval
    <3> QED
      BY <3>2 DEF n
  <2>3. \A f \in DOMAIN row.val : \E i \in 1..Len(row.order) : f = row.order[i]
    <3>1. DOMAIN row.val = {row.order[i] : i \in DOMAIN row.order}
      BY DEF IsRow
    <3> QED
      BY <2>1, <3>1
  <2> DEFINE order == row.order
             fields == DOMAIN row.val
  <2>4. DOMAIN order = 1..Len(row.order) /\ \A f \in fields : \E i \in 1..Len(row.order) : f = order[i]
    BY <2>1, <2>3
  <2> HIDE DEF order, fields
  <2>5. IsFiniteSet(fields)
    BY <2>2, <2>4, ReachedIsFinite
  <2> QED
    BY <2>5 DEF fields
<1>3. IsFiniteSet(FieldUnits(row))
  <2> DEFINE S == DOMAIN row.val \ Grouped
             unit == [f \in S |->
                        [id |-> <<"field", f, 0>>, fields |-> {f},
                         compound |-> row.val[f].kind # "scalar", index |-> 0, len |-> 0]]
  <2>1. IsFiniteSet(S)
    BY <1>2, FS_Subset
  <2>2. \A u \in FieldUnits(row) : \E f \in S : u = unit[f]
    BY DEF FieldUnits
  <2>3. DOMAIN unit = S
    OBVIOUS
  <2> HIDE DEF S, unit
  <2> QED
    BY <2>1, <2>2, <2>3, ReachedIsFinite
<1> QED
  BY <1>1, <1>3, FS_Union DEF Units
-----------------------------------------------------------------------------
(***************************************************************************)
(* The inputs                                                              *)
(***************************************************************************)
\* What is assumed of the inputs, at the providers of a state.
LEMMA InputFacts ==
  ASSUME TypeOK, NEW p \in Providers
  PROVE  /\ db[p] \in Databases
         /\ db[p].order \in Seq(Int)
         /\ DOMAIN db[p].rows = {db[p].order[i] : i \in DOMAIN db[p].order}
         /\ \A r \in DOMAIN db[p].rows : IsRow(RowOf(p, r))
BY MergeAssumption DEF TypeOK, RowOf

LEMMA HoldersFacts ==
  ASSUME TypeOK, NEW r \in RowIds
  PROVE  /\ Holders(r) # {} /\ Holders(r) \subseteq Providers
         /\ \A p \in Holders(r) : IsRow(RowOf(p, r))
BY InputFacts DEF Holders, RowIds

LEMMA RowIdsAreFinite ==
  ASSUME TypeOK
  PROVE  RowIds \in SUBSET Int /\ IsFiniteSet(RowIds)
<1> DEFINE ids == [p \in Providers |-> DOMAIN db[p].rows]
<1>0. \A n \in Nat : IsFiniteSet(1..n)
  BY FS_Interval
<1>1. ASSUME NEW p \in Providers
      PROVE  ids[p] \in SUBSET Int /\ IsFiniteSet(ids[p])
  <2>1. db[p].order \in Seq(Int) /\ ids[p] = {db[p].order[i] : i \in DOMAIN db[p].order}
    BY InputFacts
  <2>2. DOMAIN db[p].order = 1..Len(db[p].order) /\ Len(db[p].order) \in Nat
    BY <2>1
  <2>3. IsFiniteSet(ids[p])
    <3>1. IsFiniteSet(1..Len(db[p].order))
      BY <2>2, <1>0
    <3>2. \A r \in ids[p] : \E i \in 1..Len(db[p].order) : r = db[p].order[i]
      BY <2>1, <2>2
    <3> QED
      BY <2>2, <3>1, <3>2, ReachedIsFinite
  <2>4. \A i \in DOMAIN db[p].order : db[p].order[i] \in Int
    BY <2>1
  <2> QED
    BY <2>1, <2>3, <2>4
<1>2. RowIds = UNION {ids[p] : p \in Providers}
  BY DEF RowIds
<1>3. IsFiniteSet(Providers)
  BY MergeAssumption, FS_Interval DEF Providers
<1>4. IsFiniteSet({ids[p] : p \in Providers})
  BY <1>3, RangeIsFinite
<1> HIDE DEF ids
<1>5. \A T \in {ids[p] : p \in Providers} : IsFiniteSet(T) /\ T \in SUBSET Int
  BY <1>1
<1> QED
  BY <1>2, <1>4, <1>5, FS_UNION
-----------------------------------------------------------------------------
(***************************************************************************)
(* Types, and the rows of the output                                       *)
(***************************************************************************)
\* The output is a sequence, whatever a row is.
OutputIsSequence == \E S : output \in Seq(S)

base == db[carrier].order

\* Nothing is written before the build.  While it runs, the base rows come
\* first; then what is left to append and what was appended are all rows that
\* the base lacks, in the order of their ids.
OutputInv ==
  /\ OutputIsSequence
  /\ phase \in {"analyze", "resolve", "rejected"} => output = << >>
  /\ phase = "build" /\ Len(output) <= Len(base) => todo = Appended
  /\ phase = "build" => todo \subseteq Appended
  /\ phase = "build" => \A x \in Appended \ todo :
       \E i \in DOMAIN output : Len(base) < i /\ output[i].id = x
  /\ phase = "build" => \A i \in DOMAIN output : \A x \in todo :
       Len(base) < i => output[i].id < x

IInv == TypeOK /\ OutputInv /\ EveryRowOnce

\* Appending to the output adds one place and changes no other.
LEMMA WrittenFacts ==
  ASSUME OutputIsSequence, NEW r, NEW row, output' = Written(r, row)
  PROVE  /\ OutputIsSequence'
         /\ Len(output) \in Nat /\ Len(output') = Len(output) + 1
         /\ DOMAIN output = 1..Len(output) /\ DOMAIN output' = 1..Len(output')
         /\ output'[Len(output')] = [id |-> r, row |-> row]
         /\ output'[Len(output')].id = r
         /\ \A i \in DOMAIN output : output'[i] = output[i]
<1>1. PICK S : output \in Seq(S)
  BY DEF OutputIsSequence
<1> DEFINE entry == [id |-> r, row |-> row]
           T == S \cup {entry}
<1>2. output \in Seq(T) /\ entry \in T
  BY <1>1, SeqMonotonic
<1>3. output' = Append(output, entry)
  BY DEF Written
<1> HIDE DEF entry, T
<1>4. /\ output' \in Seq(T)
      /\ Len(output) \in Nat /\ Len(output') = Len(output) + 1
      /\ DOMAIN output = 1..Len(output) /\ DOMAIN output' = 1..Len(output')
      /\ output'[Len(output')] = entry
      /\ \A i \in DOMAIN output : output'[i] = output[i]
  BY <1>2, <1>3
<1> QED
  BY <1>4 DEF OutputIsSequence, entry

LEMMA InitIInv == Init => IInv
<1> SUFFICES ASSUME Init PROVE IInv
  OBVIOUS
<1>1. TypeOK
  BY DEF Init, TypeOK, Phases, Errors
<1>2. OutputInv
  <2>1. output \in Seq({})
    BY DEF Init
  <2> QED
    BY <2>1 DEF Init, OutputInv, OutputIsSequence
<1>3. EveryRowOnce
  BY DEF Init, EveryRowOnce
<1> QED
  BY <1>1, <1>2, <1>3 DEF IInv

\* Steps that leave inputs and output alone and do not enter or stay in the build.
LEMMA OutsideBuild ==
  ASSUME IInv, UNCHANGED <<db, carrier, output>>, phase' \notin {"build", "done"},
         phase' \in {"analyze", "resolve", "rejected"} =>
           phase \in {"analyze", "resolve", "rejected"}
  PROVE  OutputInv' /\ EveryRowOnce'
<1>1. OutputInv'
  BY DEF IInv, OutputInv, OutputIsSequence
<1>2. EveryRowOnce'
  BY DEF IInv, EveryRowOnce
<1> QED
  BY <1>1, <1>2

LEMMA DriftGroupsAreFinite ==
  ASSUME TypeOK, NEW r \in RowIds
  PROVE  IsFiniteSet(DriftGroups(r))
<1>1. CASE InBase(r)
  <2> DEFINE ids == [u \in Units(Base(r)) |-> u.id]
  <2>1. IsFiniteSet(Units(Base(r)))
    BY <1>1, HoldersFacts, UnitsAreFinite DEF InBase, Base
  <2>2. \A g \in DriftGroups(r) : \E u \in Units(Base(r)) : g = ids[u]
    BY <1>1 DEF DriftGroups
  <2>3. DOMAIN ids = Units(Base(r))
    OBVIOUS
  <2> HIDE DEF ids
  <2> QED
    BY <2>1, <2>2, <2>3, ReachedIsFinite
<1>2. CASE ~InBase(r)
  BY <1>2, FS_EmptySet, FS_Singleton DEF DriftGroups
<1> QED
  BY <1>1, <1>2

\* A blocking record of a row names the row and the inputs that hold it.
LEMMA RowConflictFields ==
  ASSUME NEW r, NEW c \in RowConflicts(r)
  PROVE  /\ c.row = r /\ c.inputs = Holders(r)
         /\ c.blocking = TRUE /\ c.kind # "EncodingDrift"
<1>1. CASE InBase(r) /\ ~LayoutDiffers(r)
  <2>1. PICK u \in Units(Base(r)) : c = Conflict(r, u.id, UnitKind(u), TRUE)
    BY <1>1 DEF RowConflicts
  <2>2. UnitKind(u) # "EncodingDrift"
    BY DEF UnitKind
  <2> QED
    BY <2>1, <2>2 DEF Conflict
<1>2. CASE InBase(r) /\ LayoutDiffers(r)
  BY <1>2 DEF RowConflicts, Conflict
<1>3. CASE ~InBase(r)
  BY <1>3 DEF RowConflicts, Conflict
<1> QED
  BY <1>1, <1>2, <1>3

LEMMA AnalyzeRowKeepsIInv ==
  ASSUME IInv, NEW r \in todo, AnalyzeRow(r)
  PROVE  IInv'
<1> USE DEF IInv
<1>1. r \in RowIds /\ UNCHANGED <<db, carrier, choices, output>> /\ RowIds' = RowIds
  BY DEF TypeOK, AnalyzeRow, RowIds
<1>2. CASE \E p \in Holders(r) : PartialGroup(RowOf(p, r))
  BY <1>1, <1>2, OutsideBuild DEF TypeOK, AnalyzeRow, Fail, Phases, Errors
<1>3. CASE ~\E p \in Holders(r) : PartialGroup(RowOf(p, r))
  <2>1. PICK S \in SUBSET DriftGroups(r) :
          conflicts' = conflicts \cup RowConflicts(r) \cup
                         {Conflict(r, g, "EncodingDrift", FALSE) : g \in S}
    BY <1>3, Zenon DEF AnalyzeRow
  <2>2. /\ todo' = todo \ {r} /\ UNCHANGED <<phase, error>>
        /\ drift' = drift + Cardinality(DriftGroups(r))
    BY <1>3 DEF AnalyzeRow
  <2>3. \A c \in conflicts' :
          c \in conflicts \/ (c.row = r /\ c.blocking \in BOOLEAN /\ c.inputs = Holders(r))
    <3>1. SUFFICES ASSUME NEW c \in conflicts', c \notin conflicts
                   PROVE  c.row = r /\ c.blocking \in BOOLEAN /\ c.inputs = Holders(r)
      OBVIOUS
    <3>2. CASE c \in RowConflicts(r)
      BY <3>2, RowConflictFields
    <3>3. CASE c \notin RowConflicts(r)
      <4>1. PICK g \in S : c = Conflict(r, g, "EncodingDrift", FALSE)
        BY <2>1, <3>1, <3>3
      <4> QED
        BY <4>1 DEF Conflict
    <3> QED
      BY <3>2, <3>3
  <2>4. \A c \in conflicts' : /\ c.row \in RowIds
                              /\ c.blocking \in BOOLEAN
                              /\ c.inputs \in SUBSET Providers
    BY <1>1, <2>3, HoldersFacts DEF TypeOK
  <2>5. Cardinality(DriftGroups(r)) \in Nat
    BY <1>1, DriftGroupsAreFinite, FS_CardinalityType
  <2>6. drift' \in Nat
    BY <2>2, <2>5 DEF TypeOK
  <2>7. \A k \in DOMAIN choices : \E c \in conflicts' : Key(c) = k
    BY <2>1 DEF TypeOK
  <2>8. TypeOK'
    BY <1>1, <2>2, <2>4, <2>6, <2>7 DEF TypeOK
  <2>9. phase = "analyze"
    BY DEF AnalyzeRow
  <2> QED
    BY <1>1, <2>2, <2>8, <2>9, OutsideBuild
<1> QED
  BY <1>2, <1>3

LEMMA FinishAnalysisKeepsIInv == IInv /\ FinishAnalysis => IInv'
<1> SUFFICES ASSUME IInv, FinishAnalysis PROVE IInv'
  OBVIOUS
<1>1. TypeOK'
  BY DEF IInv, TypeOK, FinishAnalysis, Fail, Phases, Errors, RowIds
<1>2. OutputInv' /\ EveryRowOnce'
  BY OutsideBuild DEF FinishAnalysis, Fail
<1> QED
  BY <1>1, <1>2 DEF IInv

\* A choice that is accepted selects an input for a recorded conflict.
LEMMA StartWriteKeepsIInv ==
  ASSUME IInv, NEW ch \in ResolutionSets, StartWrite(ch)
  PROVE  IInv'
<1> USE DEF IInv
<1>1. /\ UNCHANGED <<db, carrier, conflicts, drift, output, audit, error>>
      /\ choices' = ch /\ phase' = "build" /\ todo' = Appended
      /\ RowIds' = RowIds /\ Appended' = Appended /\ base' = base
  BY DEF StartWrite, RowIds, Appended, base
<1>2. \A k \in DOMAIN ch : ch[k] \in Providers /\ \E c \in conflicts : Key(c) = k
  BY DEF StartWrite, Accepted, TypeOK
<1>3. TypeOK'
  BY <1>1, <1>2 DEF TypeOK, Phases, Appended
<1>4. output = << >>
  BY DEF StartWrite, OutputInv
<1>5. OutputInv'
  BY <1>1, <1>4 DEF OutputInv, OutputIsSequence
<1>6. EveryRowOnce'
  BY <1>1, <1>4 DEF EveryRowOnce
<1> QED
  BY <1>3, <1>5, <1>6

LEMMA RejectWriteKeepsIInv ==
  ASSUME IInv, NEW ch \in ResolutionSets, RejectWrite(ch)
  PROVE  IInv'
<1>1. TypeOK'
  BY DEF IInv, TypeOK, RejectWrite, Phases, RowIds
<1>2. OutputInv' /\ EveryRowOnce'
  BY OutsideBuild DEF RejectWrite
<1> QED
  BY <1>1, <1>2 DEF IInv

LEMMA BuildBaseRowKeepsIInv == IInv /\ BuildBaseRow => IInv'
<1> SUFFICES ASSUME IInv, BuildBaseRow PROVE IInv'
  OBVIOUS
<1> USE DEF IInv
<1> DEFINE r == base[Len(output) + 1]
<1>1. /\ UNCHANGED <<db, carrier, todo, conflicts, drift, choices>> /\ phase = "build"
      /\ RowIds' = RowIds /\ Appended' = Appended /\ base' = base
  BY DEF BuildBaseRow, RowIds, Appended, base
<1>2. CASE \/ Fail("InvalidPlan") /\ UNCHANGED <<output, audit>>
           \/ Fail("Verification") /\ UNCHANGED <<output, audit>>
  <2>1. TypeOK'
    BY <1>1, <1>2 DEF TypeOK, Fail, Phases, Errors
  <2> QED
    BY <1>1, <1>2, <2>1, OutsideBuild DEF Fail
<1>3. CASE output' = Written(r, BuiltRow(r)) /\ UNCHANGED <<phase, error>>
  <2>1. /\ OutputIsSequence'
        /\ Len(output) \in Nat /\ Len(output') = Len(output) + 1
        /\ DOMAIN output = 1..Len(output) /\ DOMAIN output' = 1..Len(output')
        /\ output'[Len(output')].id = r
        /\ \A i \in DOMAIN output : output'[i] = output[i]
    <3>1. OutputIsSequence
      BY DEF OutputInv
    <3>2. PICK row : output' = Written(r, row)
      BY <1>3
    <3> HIDE DEF IInv
    <3> QED
      BY <3>1, <3>2, WrittenFacts
  <2>2. /\ base \in Seq(Int) /\ Len(base) \in Nat /\ DOMAIN base = 1..Len(base)
        /\ DOMAIN db[carrier].rows = {base[i] : i \in DOMAIN base}
    BY InputFacts DEF TypeOK, base
  <2>3. Len(output) < Len(base)
    BY <2>1, <2>2 DEF BuildBaseRow, BaseDone, base
  <2>4. r \in RowIds
    <3>1. Len(output) + 1 \in DOMAIN base
      BY <2>1, <2>2, <2>3
    <3>2. r \in DOMAIN db[carrier].rows
      BY <2>2, <3>1
    <3> QED
      BY <3>2 DEF TypeOK, RowIds
  <2>5. TypeOK'
    BY <1>1, <1>3, <2>1, <2>4 DEF TypeOK
  <2>6. todo = Appended
    BY <1>1, <2>1, <2>2, <2>3 DEF OutputInv
  <2>7. OutputInv'
    BY <1>1, <1>3, <2>1, <2>2, <2>3, <2>6 DEF OutputInv
  <2>8. \A i \in DOMAIN output' : i <= Len(base) /\ output'[i].id = base[i]
    BY SMTT(30), <2>1, <2>2, <2>3 DEF EveryRowOnce, base
  <2>9. EveryRowOnce'
    <3>1. Len(output') <= Len(base) /\ phase' # "done"
      BY <1>1, <1>3, <2>1, <2>2, <2>3
    <3>2. \A i \in DOMAIN output' : ~(Len(base) < i)
      BY <2>1, <2>2, <3>1
    <3> QED
      BY <1>1, <2>8, <3>1, <3>2 DEF EveryRowOnce, base
  <2> QED
    BY <2>5, <2>7, <2>9
<1> QED
  <2>1. \/ Fail("InvalidPlan") /\ UNCHANGED <<output, audit>>
        \/ Fail("Verification") /\ UNCHANGED <<output, audit>>
        \/ output' = Written(r, BuiltRow(r)) /\ UNCHANGED <<phase, error>>
    BY Zenon DEF BuildBaseRow, base
  <2> QED
    BY <1>2, <1>3, <2>1

\* The row appended is the lowest of those that are left, so above all before it.
LEMMA AppendRowKeepsIInv ==
  ASSUME IInv, NEW r \in todo, AppendRow(r)
  PROVE  IInv'
<1> USE DEF IInv
<1>1. /\ UNCHANGED <<db, carrier, conflicts, drift, choices>> /\ phase = "build"
      /\ RowIds' = RowIds /\ Appended' = Appended /\ base' = base
  BY DEF AppendRow, RowIds, Appended, base
<1>2. CASE UNCHANGED <<todo, output>> /\ Fail("InvalidPlan")
  <2>1. TypeOK'
    BY <1>1, <1>2 DEF TypeOK, Fail, Phases, Errors
  <2> QED
    BY <1>1, <1>2, <2>1, OutsideBuild DEF Fail
<1>3. CASE /\ output' = Written(r, RowOf(Donor(r), r)) /\ todo' = todo \ {r}
           /\ UNCHANGED <<phase, error>>
  <2>1. /\ OutputIsSequence'
        /\ Len(output) \in Nat /\ Len(output') = Len(output) + 1
        /\ DOMAIN output = 1..Len(output) /\ DOMAIN output' = 1..Len(output')
        /\ output'[Len(output')].id = r
        /\ \A i \in DOMAIN output : output'[i] = output[i]
    <3>1. OutputIsSequence
      BY DEF OutputInv
    <3>2. PICK row : output' = Written(r, row)
      BY <1>3
    <3> HIDE DEF IInv
    <3> QED
      BY <3>1, <3>2, WrittenFacts
  <2>2. base \in Seq(Int) /\ Len(base) \in Nat
    BY InputFacts DEF TypeOK, base
  <2>3. Len(base) <= Len(output)
    BY <2>1, <2>2 DEF AppendRow, BaseDone, base
  <2>4. r \in RowIds /\ r \in Appended
    BY <1>1 DEF TypeOK, OutputInv
  <2>5. TypeOK'
    BY <1>1, <1>3, <2>1, <2>4 DEF TypeOK
  <2>6. todo \in SUBSET Int /\ \A x \in todo : r <= x
    <3>1. todo \in SUBSET Int /\ IsFiniteSet(todo) /\ todo # {}
      BY RowIdsAreFinite, FS_Subset DEF TypeOK
    <3> QED
      BY <3>1, LowestExists DEF AppendRow
  <2>7. OutputInv'
    <3>1. \A x \in Appended \ todo' :
            \E i \in DOMAIN output' : Len(base) < i /\ output'[i].id = x
      BY <1>1, <1>3, <2>1, <2>2, <2>3 DEF OutputInv
    <3>2. \A i \in DOMAIN output' : \A x \in todo' : Len(base) < i => output'[i].id < x
      BY <1>1, <1>3, <2>1, <2>2, <2>3, <2>6 DEF OutputInv
    <3>3. todo' \subseteq Appended
      BY <1>1, <1>3 DEF OutputInv
    <3> QED
      BY <1>1, <1>3, <2>1, <2>2, <2>3, <3>1, <3>2, <3>3 DEF OutputInv
  <2>8. EveryRowOnce'
    <3>1. \A i \in DOMAIN output' : i <= Len(base) => output'[i].id = base[i]
      BY <2>1, <2>2, <2>3 DEF EveryRowOnce, base
    <3>2. \A i, j \in DOMAIN output' :
            Len(base) < i /\ i < j => output'[i].id < output'[j].id
      BY <1>1, <2>1, <2>2, <2>3 DEF EveryRowOnce, OutputInv, base
    <3>3. \A i \in DOMAIN output' :
            Len(base) < i => output'[i].id \notin DOMAIN db[carrier].rows
      BY <2>1, <2>2, <2>3, <2>4 DEF EveryRowOnce, Appended, base
    <3> QED
      BY <1>1, <1>3, <3>1, <3>2, <3>3 DEF EveryRowOnce, base
  <2> QED
    BY <2>5, <2>7, <2>8
<1> QED
  BY <1>2, <1>3 DEF AppendRow

\* The build ends when every row was written.
LEMMA FinishBuildKeepsIInv == IInv /\ FinishBuild => IInv'
<1> SUFFICES ASSUME IInv, FinishBuild PROVE IInv'
  OBVIOUS
<1> USE DEF IInv
<1>1. /\ UNCHANGED <<db, carrier, todo, conflicts, drift, choices, output>>
      /\ phase = "build" /\ phase' \in {"done", "failed"} /\ todo = {}
      /\ RowIds' = RowIds /\ base' = base
  BY DEF FinishBuild, Fail, RowIds, base
<1>2. TypeOK'
  BY <1>1 DEF TypeOK, FinishBuild, Fail, Phases, Errors
<1>3. OutputInv'
  BY <1>1 DEF OutputInv, OutputIsSequence
<1>4. {output[i].id : i \in DOMAIN output} = RowIds
  <2>1. /\ base \in Seq(Int) /\ Len(base) \in Nat /\ DOMAIN base = 1..Len(base)
        /\ DOMAIN db[carrier].rows = {base[i] : i \in DOMAIN base}
    BY InputFacts DEF TypeOK, base
  <2>2. Len(output) \in Nat /\ DOMAIN output = 1..Len(output)
    BY DEF OutputInv, OutputIsSequence
  <2>3. Len(base) <= Len(output)
    BY <2>1, <2>2 DEF FinishBuild, BaseDone, base
  <2>4. ASSUME NEW x \in RowIds PROVE \E i \in DOMAIN output : output[i].id = x
    <3>1. CASE x \in DOMAIN db[carrier].rows
      <4>1. PICK i \in DOMAIN base : x = base[i]
        BY <2>1, <3>1
      <4>2. i \in DOMAIN output /\ i <= Len(base)
        BY <2>1, <2>2, <2>3
      <4> QED
        BY <4>1, <4>2 DEF EveryRowOnce, base
    <3>2. CASE x \notin DOMAIN db[carrier].rows
      BY <1>1, <3>2 DEF OutputInv, Appended
    <3> QED
      BY <3>1, <3>2
  <2>5. \A i \in DOMAIN output : output[i].id \in RowIds
    BY DEF TypeOK
  <2> QED
    BY <2>4, <2>5
<1>5. EveryRowOnce'
  BY <1>1, <1>4 DEF EveryRowOnce
<1> QED
  BY <1>2, <1>3, <1>5

LEMMA CancelKeepsIInv == IInv /\ Cancel => IInv'
<1> SUFFICES ASSUME IInv, Cancel PROVE IInv'
  OBVIOUS
<1>1. TypeOK'
  BY DEF IInv, TypeOK, Cancel, Fail, Phases, Errors, RowIds
<1>2. OutputInv' /\ EveryRowOnce'
  BY OutsideBuild DEF Cancel, Fail
<1> QED
  BY <1>1, <1>2 DEF IInv

LEMMA StutterKeepsIInv == IInv /\ UNCHANGED vars => IInv'
<1> SUFFICES ASSUME IInv, UNCHANGED vars PROVE IInv'
  OBVIOUS
<1>1. TypeOK'
  BY DEF IInv, TypeOK, RowIds, vars
<1>2. OutputInv'
  BY DEF IInv, OutputInv, OutputIsSequence, Appended, RowIds, base, vars
<1>3. EveryRowOnce'
  BY ZenonT(40) DEF IInv, EveryRowOnce, RowIds, vars
<1> QED
  BY <1>1, <1>2, <1>3 DEF IInv

LEMMA NextKeepsIInv == IInv /\ [Next]_vars => IInv'
BY AnalyzeRowKeepsIInv, FinishAnalysisKeepsIInv, StartWriteKeepsIInv, RejectWriteKeepsIInv,
   BuildBaseRowKeepsIInv, AppendRowKeepsIInv, FinishBuildKeepsIInv, CancelKeepsIInv,
   StutterKeepsIInv
DEF Next

LEMMA Invariance == Spec => []IInv
BY InitIInv, NextKeepsIInv, PTL DEF Spec

\* Type correctness of the merge of one database.
THEOREM TypeCorrect == Spec => []TypeOK
<1>1. IInv => TypeOK
  BY DEF IInv
<1> QED
  BY <1>1, Invariance, PTL

\* build_merged_database writes every row of every input once: the base Pak's
\* rows in its order, then the others by ascending id.
THEOREM RowsAreUnited == Spec => []EveryRowOnce
<1>1. IInv => EveryRowOnce
  BY DEF IInv
<1> QED
  BY <1>1, Invariance, PTL
-----------------------------------------------------------------------------
(***************************************************************************)
(* The audit of the report                                                 *)
(***************************************************************************)
\* The stored rows that are not the base Pak's to the byte.
Changed == {k \in DOMAIN output : ~InBase(output[k].id) \/ output[k].row # Base(output[k].id)}

AuditInv ==
  /\ audit \in [rows : Nat, units : Nat, preserved : Nat, replaced : Nat]
  /\ \A c \in conflicts : c.kind = "EncodingDrift" => c.blocking = FALSE
  /\ audit.replaced >= Cardinality(Changed)

LEMMA ReportIsChanged ==
  ReportCountsReplacements <=> audit.replaced >= Cardinality(Changed)
BY DEF ReportCountsReplacements, Changed

LEMMA ChangedIsFinite ==
  ASSUME OutputIsSequence
  PROVE  IsFiniteSet(Changed) /\ Cardinality(Changed) \in Nat
<1>1. DOMAIN output = 1..Len(output) /\ Len(output) \in Nat
  BY DEF OutputIsSequence
<1>2. Changed \in SUBSET (1..Len(output))
  BY <1>1 DEF Changed
<1> DEFINE n == Len(output)
<1> HIDE DEF n
<1>3. IsFiniteSet(1..n)
  BY <1>1, FS_Interval DEF n
<1> QED
  BY <1>2, <1>3, FS_Subset, FS_CardinalityType DEF n

\* A row that is written adds itself to the changed ones, at most.
LEMMA WrittenChanges ==
  ASSUME OutputIsSequence, NEW r, NEW row, output' = Written(r, row),
         UNCHANGED <<db, carrier>>
  PROVE  /\ IsFiniteSet(Changed')
         /\ Cardinality(Changed') <= Cardinality(Changed) + 1
         /\ InBase(r) /\ row = Base(r) => Cardinality(Changed') <= Cardinality(Changed)
<1> DEFINE k == Len(output')
<1>1. /\ Len(output) \in Nat /\ k = Len(output) + 1
      /\ DOMAIN output = 1..Len(output) /\ DOMAIN output' = 1..k
      /\ output'[k] = [id |-> r, row |-> row]
      /\ \A i \in DOMAIN output : output'[i] = output[i]
  BY WrittenFacts
<1>2. \A x : (InBase(x))' = InBase(x) /\ (Base(x))' = Base(x)
  BY DEF InBase, Base, Holders, RowOf
<1>3. \A i \in Changed' : i \in Changed \/ i = k
  BY <1>1, <1>2 DEF Changed
<1>4. InBase(r) /\ row = Base(r) => k \notin Changed'
  BY <1>1, <1>2 DEF Changed
<1> HIDE DEF k
<1>5. IsFiniteSet(Changed \cup {k}) /\ Cardinality(Changed \cup {k}) <= Cardinality(Changed) + 1
  BY ChangedIsFinite, FS_AddElement
<1>6. Changed' \in SUBSET (Changed \cup {k})
  BY <1>3
<1>7. Cardinality(Changed') <= Cardinality(Changed) + 1 /\ IsFiniteSet(Changed')
  <2>1. IsFiniteSet(Changed') /\ Cardinality(Changed') <= Cardinality(Changed \cup {k})
    BY <1>5, <1>6, FS_Subset
  <2>2. Cardinality(Changed') \in Nat /\ Cardinality(Changed \cup {k}) \in Nat
    BY <1>5, <2>1, FS_CardinalityType
  <2> QED
    BY <1>5, <2>1, <2>2, ChangedIsFinite
<1>8. ASSUME k \notin Changed' PROVE Cardinality(Changed') <= Cardinality(Changed)
  <2>1. Changed' \in SUBSET Changed
    BY <1>3, <1>8
  <2> QED
    BY <2>1, ChangedIsFinite, FS_Subset
<1> QED
  BY <1>4, <1>7, <1>8

\* Where the build takes bytes of another input the audit counts a replacement.
LEMMA BuiltRowIsCounted ==
  ASSUME IInv, AuditInv, NEW r \in RowIds, InBase(r)
  PROVE  /\ Audited(r) \in [rows : Nat, units : Nat, preserved : Nat, replaced : Nat]
         /\ Audited(r).replaced >= audit.replaced
         /\ BuiltRow(r) # Base(r) => Audited(r).replaced >= audit.replaced + 1
<1>1. IsFiniteSet(Units(Base(r)))
  BY HoldersFacts, UnitsAreFinite DEF IInv, InBase, Base
<1>2. /\ Cardinality(Units(Base(r))) \in Nat
      /\ Cardinality(Units(Base(r)) \ Replaced(r)) \in Nat
  BY <1>1, FS_CardinalityType, FS_Subset
<1>3. IsFiniteSet(Replaced(r)) /\ Cardinality(Replaced(r)) \in Nat
  BY <1>1, FS_CardinalityType, FS_Subset DEF Replaced
<1>4. CASE HasConflict(r, WholeRow)
  BY <1>4 DEF AuditInv, Audited, BuiltRow, Base, Counted
<1>5. CASE ~HasConflict(r, WholeRow) /\ Units(Base(r)) = {}
  <2>1. DonorUnits(r) = {}
    BY <1>5 DEF DonorUnits
  <2> QED
    BY <1>5, <2>1 DEF AuditInv, Audited, BuiltRow, Counted
<1>6. CASE ~HasConflict(r, WholeRow) /\ Units(Base(r)) # {}
  <2>1. /\ Audited(r) \in [rows : Nat, units : Nat, preserved : Nat, replaced : Nat]
        /\ Audited(r).replaced = audit.replaced + Cardinality(Replaced(r))
    BY <1>2, <1>3, <1>6 DEF AuditInv, Audited, Counted
  <2>2. ASSUME BuiltRow(r) # Base(r) PROVE Cardinality(Replaced(r)) >= 1
    <3>1. PICK u \in DonorUnits(r) : TRUE
      BY <1>6, <2>2 DEF BuiltRow
    <3>2. u \in Units(Base(r)) /\ Chosen(r, u.id) # carrier
      BY DEF DonorUnits
    <3>3. \E c \in Indexed(r, u.id) : c.kind # "EncodingDrift"
      BY DEF DonorUnits, AuditInv, Indexed
    <3>4. u \in Replaced(r)
      BY <3>2, <3>3 DEF Replaced, AuditSource
    <3> QED
      BY <1>3, <3>4, FS_EmptySet
  <2> QED
    BY <1>3, <2>1, <2>2 DEF AuditInv
<1> QED
  BY <1>4, <1>5, <1>6

LEMMA InitAuditInv == Init => AuditInv
<1> SUFFICES ASSUME Init PROVE AuditInv
  OBVIOUS
<1>1. Changed = {}
  BY DEF Init, Changed
<1> QED
  BY <1>1, FS_EmptySet DEF Init, AuditInv, NoAudit

\* The rows that are stored, and how they are counted, change in the build only.
LEMMA SameOutputKeepsAudit ==
  ASSUME AuditInv, UNCHANGED <<db, carrier, conflicts, output, audit>>
  PROVE  AuditInv'
<1>1. Changed' = Changed
  BY DEF Changed, InBase, Holders, Base, RowOf
<1> QED
  BY <1>1 DEF AuditInv

LEMMA AnalyzeRowKeepsAudit ==
  ASSUME IInv, AuditInv, NEW r \in todo, AnalyzeRow(r)
  PROVE  AuditInv'
<1>1. Changed' = Changed /\ UNCHANGED audit
  BY DEF AnalyzeRow, Changed, InBase, Holders, Base, RowOf
<1>2. \A c \in conflicts' : c.kind = "EncodingDrift" => c.blocking = FALSE
  <2>1. CASE UNCHANGED conflicts
    BY <2>1 DEF AuditInv
  <2>2. CASE ~UNCHANGED conflicts
    <3>1. PICK S \in SUBSET DriftGroups(r) :
            conflicts' = conflicts \cup RowConflicts(r) \cup
                           {Conflict(r, g, "EncodingDrift", FALSE) : g \in S}
      BY <2>2 DEF AnalyzeRow
    <3>2. SUFFICES ASSUME NEW c \in conflicts', c.kind = "EncodingDrift", c \notin conflicts
                   PROVE  c.blocking = FALSE
      BY DEF AuditInv
    <3>3. c \notin RowConflicts(r)
      BY <3>2, RowConflictFields
    <3>4. PICK g \in S : c = Conflict(r, g, "EncodingDrift", FALSE)
      BY <3>1, <3>2, <3>3
    <3> QED
      BY <3>4 DEF Conflict
  <2> QED
    BY <2>1, <2>2
<1> QED
  BY <1>1, <1>2 DEF AuditInv

LEMMA BuildBaseRowKeepsAudit == IInv /\ AuditInv /\ BuildBaseRow => AuditInv'
<1> SUFFICES ASSUME IInv, AuditInv, BuildBaseRow PROVE AuditInv'
  OBVIOUS
<1> DEFINE r == base[Len(output) + 1]
<1>1. UNCHANGED <<db, carrier, conflicts>>
  BY DEF BuildBaseRow
<1>2. \/ UNCHANGED <<output, audit>>
      \/ output' = Written(r, BuiltRow(r)) /\ audit' = Audited(r)
  BY Zenon DEF BuildBaseRow, base
<1>3. CASE UNCHANGED <<output, audit>>
  BY <1>1, <1>3, SameOutputKeepsAudit
<1>4. CASE output' = Written(r, BuiltRow(r)) /\ audit' = Audited(r)
  <2>1. OutputIsSequence
    BY DEF IInv, OutputInv
  <2>2. r \in RowIds /\ InBase(r)
    <3>1. /\ base \in Seq(Int) /\ DOMAIN db[carrier].rows = {base[i] : i \in DOMAIN base}
          /\ carrier \in Providers
      BY InputFacts DEF IInv, TypeOK, base
    <3>2. Len(output) + 1 \in DOMAIN base
      BY <2>1, <3>1 DEF OutputIsSequence, BuildBaseRow, BaseDone, base
    <3>3. r \in DOMAIN db[carrier].rows
      BY <3>1, <3>2
    <3> QED
      BY <3>1, <3>3 DEF RowIds, InBase, Holders
  <2>3. /\ audit' \in [rows : Nat, units : Nat, preserved : Nat, replaced : Nat]
        /\ audit'.replaced >= audit.replaced
        /\ BuiltRow(r) # Base(r) => audit'.replaced >= audit.replaced + 1
    BY <1>4, <2>2, BuiltRowIsCounted
  <2>4. /\ IsFiniteSet(Changed')
        /\ Cardinality(Changed') <= Cardinality(Changed) + 1
        /\ BuiltRow(r) = Base(r) => Cardinality(Changed') <= Cardinality(Changed)
    <3> DEFINE row == BuiltRow(r)
    <3>1. output' = Written(r, row) /\ UNCHANGED <<db, carrier>>
      BY <1>1, <1>4
    <3> HIDE DEF row, r
    <3> QED
      BY <2>1, <2>2, <3>1, WrittenChanges DEF row
  <2>5. Cardinality(Changed') \in Nat /\ Cardinality(Changed) \in Nat
    BY <2>1, <2>4, ChangedIsFinite, FS_CardinalityType
  <2>6. audit'.replaced >= Cardinality(Changed')
    BY <2>3, <2>4, <2>5 DEF AuditInv
  <2> QED
    BY <1>1, <2>3, <2>6 DEF AuditInv
<1> QED
  BY <1>2, <1>3, <1>4

LEMMA AppendRowKeepsAudit ==
  ASSUME IInv, AuditInv, NEW r \in todo, AppendRow(r)
  PROVE  AuditInv'
<1>1. UNCHANGED <<db, carrier, conflicts>>
  BY DEF AppendRow
<1>2. \/ UNCHANGED <<output, audit>>
      \/ output' = Written(r, RowOf(Donor(r), r)) /\ audit' = Counted(0, 0, 1)
  BY DEF AppendRow
<1>3. CASE UNCHANGED <<output, audit>>
  BY <1>1, <1>3, SameOutputKeepsAudit
<1>4. CASE output' = Written(r, RowOf(Donor(r), r)) /\ audit' = Counted(0, 0, 1)
  <2>1. OutputIsSequence
    BY DEF IInv, OutputInv
  <2>2. /\ IsFiniteSet(Changed')
        /\ Cardinality(Changed') <= Cardinality(Changed) + 1
    BY <1>1, <1>4, <2>1, WrittenChanges
  <2>3. Cardinality(Changed') \in Nat /\ Cardinality(Changed) \in Nat
    BY <2>1, <2>2, ChangedIsFinite, FS_CardinalityType
  <2>4. /\ audit' \in [rows : Nat, units : Nat, preserved : Nat, replaced : Nat]
        /\ audit'.replaced = audit.replaced + 1 /\ audit.replaced \in Nat
    BY <1>4 DEF AuditInv, Counted
  <2> QED
    BY <1>1, <2>2, <2>3, <2>4 DEF AuditInv
<1> QED
  BY <1>2, <1>3, <1>4

LEMMA OtherStepsKeepAudit ==
  ASSUME AuditInv,
         \/ FinishAnalysis \/ FinishBuild \/ Cancel \/ UNCHANGED vars
         \/ \E ch \in ResolutionSets : StartWrite(ch) \/ RejectWrite(ch)
  PROVE  AuditInv'
<1>1. UNCHANGED <<db, carrier, conflicts, output, audit>>
  BY DEF FinishAnalysis, FinishBuild, Cancel, StartWrite, RejectWrite, vars
<1> QED
  BY <1>1, SameOutputKeepsAudit

LEMMA NextKeepsAudit == IInv /\ AuditInv /\ [Next]_vars => AuditInv'
BY AnalyzeRowKeepsAudit, BuildBaseRowKeepsAudit, AppendRowKeepsAudit, OtherStepsKeepAudit
DEF Next

\* The raw-preservation audit of the report never hides a change: every stored
\* row that is not the base Pak's to the byte is counted as a replacement.
THEOREM ReportHidesNoChange == Spec => []ReportCountsReplacements
<1>1. Init => AuditInv
  BY InitAuditInv
<1>2. IInv /\ AuditInv /\ [Next]_vars => AuditInv'
  BY NextKeepsAudit
<1>3. AuditInv => ReportCountsReplacements
  BY ReportIsChanged DEF AuditInv
<1> QED
  BY <1>1, <1>2, <1>3, Invariance, PTL DEF Spec
-----------------------------------------------------------------------------
(***************************************************************************)
(* What the user is asked                                                  *)
(***************************************************************************)
LEMMA IntervalLength ==
  ASSUME NEW m \in Nat, NEW n \in Nat, 1..m = 1..n
  PROVE  m = n
<1>1. n \in 1..m \/ n = 0
  OBVIOUS
<1>2. m \in 1..n \/ m = 0
  OBVIOUS
<1> QED
  BY <1>1, <1>2

\* Rows of one meaning agree on the order, the kinds and the lengths of their
\* fields, and on the meaning of every field and item.
LEMMA SameMeaning ==
  ASSUME NEW a, NEW b, IsRow(a), IsRow(b), RowSem(a) = RowSem(b)
  PROVE  /\ a.order = b.order /\ DOMAIN a.val = DOMAIN b.val
         /\ \A f \in DOMAIN a.val :
              /\ NodeSem(a.val[f]) = NodeSem(b.val[f])
              /\ a.val[f].kind = b.val[f].kind
              /\ ArrayLen(a, f) = ArrayLen(b, f) /\ ArrayLen(a, f) \in Nat
              /\ a.val[f].kind = "array" => \A i \in 1..ArrayLen(a, f) :
                   Sem[a.val[f].items[i]] = Sem[b.val[f].items[i]]
<1> DEFINE sem(row) == [f \in DOMAIN row.val |-> NodeSem(row.val[f])]
<1>1. a.order = b.order /\ sem(a) = sem(b)
  BY DEF RowSem
<1>2. DOMAIN sem(a) = DOMAIN a.val /\ DOMAIN sem(b) = DOMAIN b.val
  OBVIOUS
<1>3. DOMAIN a.val = DOMAIN b.val
  BY <1>1, <1>2
<1>4. ASSUME NEW f \in DOMAIN a.val
      PROVE  /\ NodeSem(a.val[f]) = NodeSem(b.val[f])
             /\ a.val[f].kind = b.val[f].kind
             /\ ArrayLen(a, f) = ArrayLen(b, f) /\ ArrayLen(a, f) \in Nat
             /\ a.val[f].kind = "array" => \A i \in 1..ArrayLen(a, f) :
                  Sem[a.val[f].items[i]] = Sem[b.val[f].items[i]]
  <2>1. sem(a)[f] = NodeSem(a.val[f]) /\ sem(b)[f] = NodeSem(b.val[f])
    BY <1>3
  <2>2. NodeSem(a.val[f]) = NodeSem(b.val[f])
    BY <1>1, <2>1
  <2>3. /\ a.val[f] \in Node /\ b.val[f] \in Node
        /\ a.val[f].kind # "array" => a.val[f].items = << >>
        /\ b.val[f].kind # "array" => b.val[f].items = << >>
    BY <1>3 DEF IsRow
  <2>4. a.val[f].kind = b.val[f].kind
    BY <2>2, <2>3 DEF NodeSem, Node
  <2>5. CASE a.val[f].kind = "array"
    <3> DEFINE items(node) == [i \in DOMAIN node.items |-> Sem[node.items[i]]]
    <3>1. items(a.val[f]) = items(b.val[f])
      BY <2>2, <2>4, <2>5 DEF NodeSem
    <3>2. /\ DOMAIN items(a.val[f]) = DOMAIN a.val[f].items
          /\ DOMAIN items(b.val[f]) = DOMAIN b.val[f].items
      OBVIOUS
    <3>3. DOMAIN a.val[f].items = DOMAIN b.val[f].items
      BY <3>1, <3>2
    <3>4. /\ a.val[f].items \in Seq(Raw) /\ b.val[f].items \in Seq(Raw)
      BY <2>3 DEF Node
    <3>5. /\ DOMAIN a.val[f].items = 1..ArrayLen(a, f) /\ ArrayLen(a, f) \in Nat
          /\ DOMAIN b.val[f].items = 1..ArrayLen(b, f) /\ ArrayLen(b, f) \in Nat
      BY <3>4 DEF ArrayLen
    <3>6. ArrayLen(a, f) = ArrayLen(b, f)
      BY <3>3, <3>5, IntervalLength
    <3>7. ASSUME NEW i \in 1..ArrayLen(a, f)
          PROVE  Sem[a.val[f].items[i]] = Sem[b.val[f].items[i]]
      <4>1. /\ items(a.val[f])[i] = Sem[a.val[f].items[i]]
            /\ items(b.val[f])[i] = Sem[b.val[f].items[i]]
        BY <3>3, <3>5
      <4> QED
        BY <3>1, <4>1
    <3> QED
      BY <2>2, <2>4, <3>5, <3>6, <3>7
  <2>6. CASE a.val[f].kind # "array"
    BY <2>2, <2>3, <2>4, <2>6 DEF ArrayLen
  <2> QED
    BY <2>5, <2>6
<1> QED
  BY <1>1, <1>3, <1>4

\* So they are cut into the same units ...
LEMMA SameMeaningSameLayout ==
  ASSUME NEW a, NEW b, IsRow(a), IsRow(b), RowSem(a) = RowSem(b)
  PROVE  SameLayout(a, b)
<1>1. a.order = b.order /\ DOMAIN a.val = DOMAIN b.val
  BY SameMeaning
<1>2. \A f \in DOMAIN a.val :
        a.val[f].kind = b.val[f].kind /\ ArrayLen(a, f) = ArrayLen(b, f)
  BY SameMeaning
<1>3. ASSUME NEW g \in Groups PROVE GroupUnits(g, a) = GroupUnits(g, b)
  <2>1. Present(g, a) = Present(g, b)
    BY <1>1 DEF Present
  <2>2. \A f \in Present(g, a) : f \in DOMAIN a.val
    BY DEF Present
  <2>3. IsParallel(g, a) <=> IsParallel(g, b)
    BY <1>2, <2>1, <2>2 DEF IsParallel
  <2>4. CASE Present(g, a) = {}
    BY <2>1, <2>4 DEF GroupUnits
  <2>5. CASE Present(g, a) # {} /\ IsParallel(g, a)
    <3>1. ParallelLen(g, a) = ParallelLen(g, b)
      BY <1>2, <2>1, <2>2, <2>5 DEF ParallelLen
    <3> QED
      BY <2>1, <2>3, <2>5, <3>1 DEF GroupUnits
  <2>6. CASE Present(g, a) # {} /\ ~IsParallel(g, a)
    <3>1. (\E f \in Present(g, a) : a.val[f].kind # "scalar")
            = (\E f \in Present(g, b) : b.val[f].kind # "scalar")
      BY <1>2, <2>1, <2>2
    <3> QED
      BY <2>1, <2>3, <2>6, <3>1 DEF GroupUnits
  <2> QED
    BY <2>4, <2>5, <2>6
<1>4. FieldUnits(a) = FieldUnits(b)
  <2>1. \A f \in DOMAIN a.val \ Grouped :
          (a.val[f].kind # "scalar") = (b.val[f].kind # "scalar")
    BY <1>2
  <2> QED
    BY <1>1, <2>1 DEF FieldUnits
<1>5. Units(a) = Units(b)
  BY <1>3, <1>4 DEF Units
<1> QED
  BY <1>1, <1>5 DEF SameLayout

\* ... and every unit means the same in both.
LEMMA SameMeaningSameUnit ==
  ASSUME NEW a, NEW b, IsRow(a), IsRow(b), RowSem(a) = RowSem(b), NEW u \in Units(a)
  PROVE  UnitSem(a, u) = UnitSem(b, u)
<1>1. \A f \in u.fields :
        /\ f \in DOMAIN a.val
        /\ u.index # 0 => a.val[f].kind = "array" /\ u.index \in 1..ArrayLen(a, f)
  <2>1. CASE u \in FieldUnits(a)
    BY <2>1 DEF FieldUnits
  <2>2. ASSUME NEW g \in Groups, u \in GroupUnits(g, a), IsParallel(g, a),
               NEW f \in u.fields
        PROVE  /\ f \in DOMAIN a.val
               /\ u.index # 0 => a.val[f].kind = "array" /\ u.index \in 1..ArrayLen(a, f)
    <3>1. Present(g, a) # {}
      BY <2>2 DEF GroupUnits
    <3>2. u.fields = Present(g, a) /\ u.index \in 1..ParallelLen(g, a)
      BY <2>2, <3>1 DEF GroupUnits
    <3>3. ParallelLen(g, a) = ArrayLen(a, f)
      BY <2>2, <3>1, <3>2 DEF ParallelLen, IsParallel
    <3> QED
      BY <2>2, <3>2, <3>3 DEF IsParallel, Present
  <2>3. ASSUME NEW g \in Groups, u \in GroupUnits(g, a), ~IsParallel(g, a)
        PROVE  u.index = 0 /\ u.fields = Present(g, a)
    BY <2>3 DEF GroupUnits
  <2> QED
    BY <2>1, <2>2, <2>3 DEF Units, Present
<1>2. CASE u.index = 0
  <2>1. \A f \in u.fields : NodeSem(a.val[f]) = NodeSem(b.val[f])
    BY <1>1, SameMeaning
  <2> QED
    BY <1>2, <2>1 DEF UnitSem
<1>3. CASE u.index # 0
  <2>1. \A f \in u.fields : Sem[a.val[f].items[u.index]] = Sem[b.val[f].items[u.index]]
    BY <1>1, <1>3, SameMeaning
  <2> QED
    BY <1>3, <2>1 DEF UnitSem
<1> QED
  BY <1>2, <1>3

\* A record that blocks the merge has two inputs that mean different things.
LEMMA RowConflictsDisagree ==
  ASSUME TypeOK, NEW r \in RowIds, NEW c \in RowConflicts(r)
  PROVE  \E p, q \in Holders(r) : RowSem(RowOf(p, r)) # RowSem(RowOf(q, r))
<1> SUFFICES ASSUME \A p, q \in Holders(r) : RowSem(RowOf(p, r)) = RowSem(RowOf(q, r))
             PROVE  FALSE
  OBVIOUS
<1>1. CASE InBase(r)
  <2>1. \A p \in Holders(r) :
          IsRow(RowOf(p, r)) /\ IsRow(Base(r)) /\ RowSem(Base(r)) = RowSem(RowOf(p, r))
    BY <1>1, HoldersFacts DEF InBase, Base
  <2>2. ~LayoutDiffers(r)
    BY <2>1, SameMeaningSameLayout DEF LayoutDiffers
  <2>3. PICK u \in Units(Base(r)) : SemDiffers(r, u)
    BY <1>1, <2>2 DEF RowConflicts
  <2>4. PICK p \in Holders(r) : UnitSem(RowOf(p, r), u) # UnitSem(Base(r), u)
    BY <2>3 DEF SemDiffers
  <2> QED
    BY <2>1, <2>4, SameMeaningSameUnit
<1>2. CASE ~InBase(r)
  <2>1. PICK p \in Holders(r) : RowSem(RowOf(p, r)) # RowSem(RowOf(FirstHolder(r), r))
    BY <1>2 DEF RowConflicts, AppendedSemDiffers
  <2>2. FirstHolder(r) \in Holders(r)
    <3> DEFINE H == Holders(r)
    <3>1. H \in SUBSET Providers /\ H # {} /\ Providers \in SUBSET Int
      BY HoldersFacts, MergeAssumption DEF Providers
    <3>2. IsFiniteSet(Providers)
      BY MergeAssumption, FS_Interval DEF Providers
    <3> HIDE DEF H
    <3>3. IsFiniteSet(H) /\ H \in SUBSET Int
      BY <3>1, <3>2, FS_Subset
    <3>4. Lowest(H) \in H
      BY <3>1, <3>3, LowestExists
    <3> QED
      BY <3>4 DEF FirstHolder, H
  <2> QED
    BY <2>1, <2>2
<1> QED
  BY <1>1, <1>2

DisagreementInv ==
  \A c \in conflicts : c.blocking => c.row \in RowIds /\
    \E p, q \in c.inputs : RowSem(RowOf(p, c.row)) # RowSem(RowOf(q, c.row))

LEMMA AnalyzeRowKeepsDisagreement ==
  ASSUME IInv, DisagreementInv, NEW r \in todo, AnalyzeRow(r)
  PROVE  DisagreementInv'
<1>1. r \in RowIds /\ TypeOK
  BY DEF IInv, TypeOK
<1>2. UNCHANGED <<db, carrier>> /\ RowIds' = RowIds /\ \A p, x : RowOf(p, x)' = RowOf(p, x)
  BY DEF AnalyzeRow, RowIds, RowOf
<1>3. CASE UNCHANGED conflicts
  BY <1>2, <1>3 DEF DisagreementInv
<1>4. CASE ~UNCHANGED conflicts
  <2>1. PICK S \in SUBSET DriftGroups(r) :
          conflicts' = conflicts \cup RowConflicts(r) \cup
                         {Conflict(r, g, "EncodingDrift", FALSE) : g \in S}
    BY <1>4 DEF AnalyzeRow
  <2>2. SUFFICES ASSUME NEW c \in conflicts', c.blocking, c \notin conflicts
                 PROVE  /\ c.row \in RowIds
                        /\ \E p, q \in c.inputs :
                             RowSem(RowOf(p, c.row)) # RowSem(RowOf(q, c.row))
    BY <1>2 DEF DisagreementInv
  <2>3. c \in RowConflicts(r)
    <3>1. SUFFICES ASSUME c \notin RowConflicts(r) PROVE FALSE
      OBVIOUS
    <3>2. PICK g \in S : c = Conflict(r, g, "EncodingDrift", FALSE)
      BY <2>1, <2>2, <3>1
    <3> QED
      BY <2>2, <3>2 DEF Conflict
  <2>4. c.row = r /\ c.inputs = Holders(r)
    BY <2>3, RowConflictFields
  <2> QED
    BY <1>1, <2>3, <2>4, RowConflictsDisagree
<1> QED
  BY <1>3, <1>4

\* The user is asked only where two inputs hold rows of different meaning, field
\* order included: no conflict blocks a merge because of encoding alone.
THEOREM QuestionsAreReal == Spec => []BlockingMeansDisagreement
<1>1. Init => DisagreementInv
  BY DEF Init, DisagreementInv
<1>2. IInv /\ DisagreementInv /\ [Next]_vars => DisagreementInv'
  <2> SUFFICES ASSUME IInv, DisagreementInv, [Next]_vars PROVE DisagreementInv'
    OBVIOUS
  <2>1. CASE \E r \in todo : AnalyzeRow(r)
    BY <2>1, AnalyzeRowKeepsDisagreement
  <2>2. CASE ~\E r \in todo : AnalyzeRow(r)
    <3>1. UNCHANGED <<db, conflicts>>
      BY <2>2 DEF Next, FinishAnalysis, StartWrite, RejectWrite, BuildBaseRow, AppendRow,
                  FinishBuild, Cancel, vars
    <3> QED
      BY <3>1 DEF DisagreementInv, RowIds, RowOf
  <2> QED
    BY <2>1, <2>2
<1>3. DisagreementInv => BlockingMeansDisagreement
  BY DEF DisagreementInv, BlockingMeansDisagreement
<1> QED
  BY <1>1, <1>2, <1>3, Invariance, PTL DEF Spec

-----------------------------------------------------------------------------
(***************************************************************************)
(* The units of a row                                                      *)
(***************************************************************************)
FieldUnit(row, f) ==
  [id |-> <<"field", f, 0>>, fields |-> {f},
   compound |-> row.val[f].kind # "scalar", index |-> 0, len |-> 0]
GroupUnit(row, g) ==
  [id |-> <<"group", g.id, 0>>, fields |-> Present(g, row),
   compound |-> \/ g.force
                \/ \E f \in Present(g, row) : row.val[f].kind # "scalar",
   index |-> 0, len |-> 0]
ItemUnit(row, g, i) ==
  [id |-> <<"group", g.id, i>>, fields |-> Present(g, row),
   compound |-> TRUE, index |-> i, len |-> ParallelLen(g, row)]

\* A unit is an ungrouped field, a group, or one index of a group's arrays.
LEMMA UnitKinds ==
  ASSUME NEW row, NEW u
  PROVE  u \in Units(row) <=>
           \/ \E f \in DOMAIN row.val \ Grouped : u = FieldUnit(row, f)
           \/ \E g \in Groups : /\ Present(g, row) # {} /\ ~IsParallel(g, row)
                                /\ u = GroupUnit(row, g)
           \/ \E g \in Groups : /\ Present(g, row) # {} /\ IsParallel(g, row)
                                /\ \E i \in 1..ParallelLen(g, row) : u = ItemUnit(row, g, i)
<1>1. u \in FieldUnits(row) <=> \E f \in DOMAIN row.val \ Grouped : u = FieldUnit(row, f)
  BY DEF FieldUnits, FieldUnit
<1>2. ASSUME NEW g \in Groups
      PROVE  u \in GroupUnits(g, row) <=>
               \/ Present(g, row) # {} /\ ~IsParallel(g, row) /\ u = GroupUnit(row, g)
               \/ /\ Present(g, row) # {} /\ IsParallel(g, row)
                  /\ \E i \in 1..ParallelLen(g, row) : u = ItemUnit(row, g, i)
  <2>1. CASE Present(g, row) = {}
    BY <2>1 DEF GroupUnits
  <2>2. CASE Present(g, row) # {} /\ IsParallel(g, row)
    BY <2>2 DEF GroupUnits, ItemUnit
  <2>3. CASE Present(g, row) # {} /\ ~IsParallel(g, row)
    BY <2>3 DEF GroupUnits, GroupUnit
  <2> QED
    BY <2>1, <2>2, <2>3
<1>3. u \in Units(row) <=> u \in FieldUnits(row) \/ \E g \in Groups : u \in GroupUnits(g, row)
  BY DEF Units
<1> QED
  BY <1>1, <1>2, <1>3, Zenon

\* The fields of a parallel group are arrays of the group's length.
LEMMA ParallelFacts ==
  ASSUME NEW row, IsRow(row), NEW g \in Groups, Present(g, row) # {}, IsParallel(g, row)
  PROVE  /\ ParallelLen(g, row) \in Nat /\ ParallelLen(g, row) >= 1
         /\ \A f \in Present(g, row) : /\ f \in DOMAIN row.val /\ row.val[f].kind = "array"
                                       /\ ArrayLen(row, f) = ParallelLen(g, row)
<1>1. \A f \in Present(g, row) : f \in DOMAIN row.val /\ row.val[f].kind = "array"
                                 /\ ArrayLen(row, f) \in Nat /\ ArrayLen(row, f) > 0
  BY DEF Present, IsParallel, IsRow, ArrayLen, Node
<1>2. PICK h \in Present(g, row) : ParallelLen(g, row) = ArrayLen(row, h)
  BY DEF ParallelLen
<1>3. \A f \in Present(g, row) : ArrayLen(row, f) = ArrayLen(row, h)
  BY <1>2 DEF IsParallel
<1> QED
  BY <1>1, <1>2, <1>3

\* Where the bytes of a unit are.
LEMMA UnitPlaces ==
  ASSUME NEW row, IsRow(row), NEW u \in Units(row)
  PROVE  /\ u.index \in Nat /\ Selectable(row, u)
         /\ \A f \in u.fields :
              /\ f \in DOMAIN row.val
              /\ u.index # 0 => /\ row.val[f].kind = "array"
                                /\ u.index \in 1..ArrayLen(row, f)
<1>1. CASE \E f \in DOMAIN row.val \ Grouped : u = FieldUnit(row, f)
  BY <1>1 DEF FieldUnit, Selectable
<1>2. CASE \E g \in Groups : u = GroupUnit(row, g)
  BY <1>2 DEF GroupUnit, Selectable, Present
<1>3. ASSUME NEW g \in Groups, Present(g, row) # {}, IsParallel(g, row),
             NEW i \in 1..ParallelLen(g, row), u = ItemUnit(row, g, i)
      PROVE  /\ u.index \in Nat /\ Selectable(row, u)
             /\ \A f \in u.fields :
                  /\ f \in DOMAIN row.val
                  /\ u.index # 0 => /\ row.val[f].kind = "array"
                                    /\ u.index \in 1..ArrayLen(row, f)
  <2>1. u.index = i /\ u.len = ParallelLen(g, row) /\ u.fields = Present(g, row)
    BY <1>3 DEF ItemUnit
  <2> QED
    BY <1>3, <2>1, ParallelFacts DEF Selectable
<1> QED
  BY <1>1, <1>2, <1>3, UnitKinds

\* Two units of a row that share a field are items of different indexes.
LEMMA SharedField ==
  ASSUME NEW row, NEW u \in Units(row), NEW v \in Units(row), NEW f \in u.fields, f \in v.fields
  PROVE  u = v \/ (u.index # 0 /\ v.index # 0 /\ u.index # v.index)
<1>1. \A h \in DOMAIN row.val \ Grouped : \A w : w = FieldUnit(row, h) =>
        w.index = 0 /\ (f \in w.fields => f = h /\ f \notin Grouped)
  BY DEF FieldUnit
<1>2. \A g \in Groups : \A w : w = GroupUnit(row, g) =>
        w.index = 0 /\ (f \in w.fields => f \in g.fields /\ f \in Grouped)
  BY DEF GroupUnit, Present, Grouped
<1>3. \A g \in Groups : \A i : \A w : w = ItemUnit(row, g, i) =>
        w.index = i /\ (f \in w.fields => f \in g.fields /\ f \in Grouped)
  BY DEF ItemUnit, Present, Grouped
<1>4. \A g, h \in Groups : f \in g.fields /\ f \in h.fields => g = h
  BY ProfileAssumption
<1>5. CASE f \notin Grouped
  BY <1>1, <1>2, <1>3, <1>5, UnitKinds
<1>6. CASE f \in Grouped
  <2>1. \/ \E g \in Groups : f \in g.fields /\ ~IsParallel(g, row) /\ u = GroupUnit(row, g)
        \/ \E g \in Groups : /\ f \in g.fields /\ IsParallel(g, row)
                             /\ \E i \in 1..ParallelLen(g, row) : u = ItemUnit(row, g, i)
    BY <1>1, <1>2, <1>3, <1>6, UnitKinds
  <2>2. \/ \E g \in Groups : f \in g.fields /\ ~IsParallel(g, row) /\ v = GroupUnit(row, g)
        \/ \E g \in Groups : /\ f \in g.fields /\ IsParallel(g, row)
                             /\ \E i \in 1..ParallelLen(g, row) : v = ItemUnit(row, g, i)
    BY <1>1, <1>2, <1>3, <1>6, UnitKinds
  <2>3. PICK g \in Groups :
          /\ f \in g.fields
          /\ \/ ~IsParallel(g, row) /\ u = GroupUnit(row, g)
             \/ IsParallel(g, row) /\ \E i \in 1..ParallelLen(g, row) : u = ItemUnit(row, g, i)
    BY <2>1
  <2>4. \/ ~IsParallel(g, row) /\ v = GroupUnit(row, g)
        \/ IsParallel(g, row) /\ \E i \in 1..ParallelLen(g, row) : v = ItemUnit(row, g, i)
    BY <1>4, <2>2, <2>3
  <2>5. CASE ~IsParallel(g, row)
    BY <2>3, <2>4, <2>5
  <2>6. CASE IsParallel(g, row)
    <3>1. PICK i \in 1..ParallelLen(g, row) : u = ItemUnit(row, g, i)
      BY <2>3, <2>6
    <3>2. PICK j \in 1..ParallelLen(g, row) : v = ItemUnit(row, g, j)
      BY <2>4, <2>6
    <3>3. u.index = i /\ v.index = j /\ i # 0 /\ j # 0
      BY <1>3, <3>1, <3>2
    <3> QED
      BY <3>1, <3>2, <3>3
  <2> QED
    BY <2>5, <2>6
<1> QED
  BY <1>5, <1>6

\* A unit is known by its id, and has none of the reserved ones.
LEMMA UnitIds ==
  ASSUME NEW row, NEW u \in Units(row)
  PROVE  /\ u.id # WholeRow /\ u.id # AppendedRow
         /\ \A v \in Units(row) : v.id = u.id => v = u
<1>1. \A f : FieldUnit(row, f).id = <<"field", f, 0>>
  BY DEF FieldUnit
<1>2. \A g : GroupUnit(row, g).id = <<"group", g.id, 0>>
  BY DEF GroupUnit
<1>3. \A g, i : ItemUnit(row, g, i).id = <<"group", g.id, i>>
  BY DEF ItemUnit
<1>4. u.id # WholeRow /\ u.id # AppendedRow
  BY <1>1, <1>2, <1>3, UnitKinds DEF WholeRow, AppendedRow
<1>5. \A g, h \in Groups : g.id = h.id => g = h
  BY ProfileAssumption
<1>6. ASSUME NEW v \in Units(row), v.id = u.id
      PROVE  v = u
  <2>1. CASE \E f \in DOMAIN row.val \ Grouped : u = FieldUnit(row, f)
    BY <1>1, <1>2, <1>3, <1>6, <2>1, UnitKinds
  <2>2. CASE \E g \in Groups : ~IsParallel(g, row) /\ u = GroupUnit(row, g)
    BY <1>1, <1>2, <1>3, <1>5, <1>6, <2>2, UnitKinds
  <2>3. CASE \E g \in Groups : IsParallel(g, row) /\ \E i \in 1..ParallelLen(g, row) : u = ItemUnit(row, g, i)
    BY <1>1, <1>2, <1>3, <1>5, <1>6, <2>3, UnitKinds
  <2> QED
    BY <2>1, <2>2, <2>3, UnitKinds
<1> QED
  BY <1>4, <1>6

\* Every place of a row is in a unit: a field as a whole, or each of its items.
LEMMA PlacesAreCovered ==
  ASSUME NEW row, IsRow(row), NEW f \in DOMAIN row.val
  PROVE  \/ \E u \in Units(row) : f \in u.fields /\ u.index = 0
         \/ /\ row.val[f].kind = "array"
            /\ \A i \in 1..ArrayLen(row, f) : \E u \in Units(row) : f \in u.fields /\ u.index = i
<1>1. CASE f \notin Grouped
  <2>1. FieldUnit(row, f) \in Units(row)
    BY <1>1, UnitKinds
  <2> QED
    BY <2>1 DEF FieldUnit
<1>2. CASE f \in Grouped
  <2>1. PICK g \in Groups : f \in g.fields
    BY <1>2 DEF Grouped
  <2>2. f \in Present(g, row)
    BY <2>1 DEF Present
  <2>3. CASE ~IsParallel(g, row)
    <3>1. GroupUnit(row, g) \in Units(row)
      BY <2>2, <2>3, UnitKinds
    <3> QED
      BY <2>2, <3>1 DEF GroupUnit
  <2>4. CASE IsParallel(g, row)
    <3>1. row.val[f].kind = "array" /\ ArrayLen(row, f) = ParallelLen(g, row)
      BY <2>2, <2>4, ParallelFacts
    <3>2. ASSUME NEW i \in 1..ArrayLen(row, f)
          PROVE  \E u \in Units(row) : f \in u.fields /\ u.index = i
      <4>1. ItemUnit(row, g, i) \in Units(row)
        BY <2>2, <2>4, <3>1, UnitKinds
      <4> QED
        BY <2>2, <4>1 DEF ItemUnit
    <3> QED
      BY <3>1, <3>2
  <2> QED
    BY <2>3, <2>4
<1> QED
  BY <1>1, <1>2

LEMMA FieldHasUnit ==
  ASSUME NEW row, IsRow(row), NEW f \in DOMAIN row.val
  PROVE  \E u \in Units(row) : f \in u.fields
<1>2. CASE f \in Grouped
  <2>1. PICK g \in Groups : f \in g.fields
    BY <1>2 DEF Grouped
  <2>2. f \in Present(g, row)
    BY <2>1 DEF Present
  <2>3. CASE ~IsParallel(g, row)
    <3>1. GroupUnit(row, g) \in Units(row)
      BY <2>2, <2>3, UnitKinds
    <3> QED
      BY <2>2, <3>1 DEF GroupUnit
  <2>4. CASE IsParallel(g, row)
    <3>1. ParallelLen(g, row) \in Nat /\ ParallelLen(g, row) >= 1
      BY <2>2, <2>4, ParallelFacts
    <3>2. 1 \in 1..ParallelLen(g, row)
      BY <3>1
    <3>3. ItemUnit(row, g, 1) \in Units(row)
      BY <2>2, <2>4, <3>2, UnitKinds
    <3> QED
      BY <2>2, <3>3 DEF ItemUnit
  <2> QED
    BY <2>3, <2>4
<1>3. CASE f \notin Grouped
  <2>1. FieldUnit(row, f) \in Units(row)
    BY <1>3, UnitKinds
  <2> QED
    BY <2>1 DEF FieldUnit
<1> QED
  BY <1>2, <1>3
-----------------------------------------------------------------------------
(***************************************************************************)
(* Splicing                                                                *)
(***************************************************************************)
\* Rows of one layout have the same fields, and each has every unit.
LEMMA LayoutFacts ==
  ASSUME NEW a, NEW b, IsRow(a), IsRow(b), SameLayout(a, b)
  PROVE  /\ DOMAIN a.val = DOMAIN b.val /\ Units(a) = Units(b)
         /\ \A u \in Units(a) : Selectable(a, u) /\ Selectable(b, u)
<1>1. a.order = b.order /\ Units(a) = Units(b)
  BY DEF SameLayout
<1>2. /\ DOMAIN a.val = {a.order[i] : i \in DOMAIN a.order}
      /\ DOMAIN b.val = {b.order[i] : i \in DOMAIN b.order}
  BY DEF IsRow
<1>3. DOMAIN a.val = DOMAIN b.val
  BY <1>1, <1>2
<1> QED
  BY <1>1, <1>3, UnitPlaces

\* The selection of a set of units, each with the row it is taken from.
SelectionOf(donors, source) == {[unit |-> u, row |-> source[u]] : u \in donors}

\* No two of them overlap, and each row has its unit: a splice does not fail.
LEMMA SpliceSucceeds ==
  ASSUME NEW b, IsRow(b), NEW donors \in SUBSET Units(b), NEW source,
         \A u \in donors : IsRow(source[u]) /\ SameLayout(b, source[u])
  PROVE  ~SpliceFails(b, SelectionOf(donors, source))
<1> DEFINE sel == SelectionOf(donors, source)
<1>1. \A s \in sel : s.unit \in donors /\ s.row = source[s.unit]
                     /\ s = [unit |-> s.unit, row |-> source[s.unit]]
  BY DEF SelectionOf
<1> HIDE DEF sel
<1>2. \A s \in sel : Selectable(s.row, s.unit) /\ Selectable(b, s.unit)
  BY <1>1, LayoutFacts
<1>3. ASSUME NEW s \in sel, NEW t \in sel, s # t, NEW f \in s.unit.fields, f \in t.unit.fields
      PROVE  s.unit.index # t.unit.index /\ s.unit.index # 0 /\ t.unit.index # 0
  <2>1. s.unit # t.unit
    BY <1>1, <1>3
  <2>2. s.unit \in Units(b) /\ t.unit \in Units(b)
    BY <1>1
  <2> QED
    BY <1>3, <2>1, <2>2, SharedField
<1>4. ~OverlappingSelection(sel)
  BY <1>3 DEF OverlappingSelection
<1>5. ~SpliceFails(b, sel)
  BY <1>2, <1>4 DEF SpliceFails
<1> QED
  BY <1>5 DEF sel

\* What is selected at a place is the unit that the place is in, if it is chosen.
LEMMA SelectedAt ==
  ASSUME NEW b, IsRow(b), NEW donors \in SUBSET Units(b), NEW source,
         NEW u \in Units(b), NEW f \in u.fields, NEW sel, sel = SelectionOf(donors, source)
  PROVE  /\ u.index = 0 => WholeSelections(sel, f) =
                              IF u \in donors THEN {[unit |-> u, row |-> source[u]]} ELSE {}
         /\ u.index # 0 => /\ WholeSelections(sel, f) = {}
                           /\ ItemSelections(sel, f, u.index) =
                                IF u \in donors THEN {[unit |-> u, row |-> source[u]]} ELSE {}
<1>1. \A s \in sel : s.unit \in donors /\ s.unit \in Units(b)
                     /\ s = [unit |-> s.unit, row |-> source[s.unit]]
  BY DEF SelectionOf
<1>2. u \in donors => [unit |-> u, row |-> source[u]] \in sel
  BY DEF SelectionOf
<1>3. \A s \in sel : f \in s.unit.fields =>
        s.unit = u \/ (u.index # 0 /\ s.unit.index # 0 /\ u.index # s.unit.index)
  BY <1>1, SharedField
<1>4. CASE u.index = 0
  <2>1. \A s \in sel : f \in s.unit.fields => s.unit = u
    BY <1>3, <1>4
  <2>2. \A s \in WholeSelections(sel, f) : s = [unit |-> u, row |-> source[u]] /\ u \in donors
    BY <1>1, <2>1 DEF WholeSelections
  <2>3. u \in donors => [unit |-> u, row |-> source[u]] \in WholeSelections(sel, f)
    BY <1>2, <1>4 DEF WholeSelections
  <2>4. WholeSelections(sel, f) = IF u \in donors THEN {[unit |-> u, row |-> source[u]]} ELSE {}
    BY <2>2, <2>3
  <2> QED
    BY <1>4, <2>4
<1>5. CASE u.index # 0
  <2>1. WholeSelections(sel, f) = {}
    BY <1>3, <1>5 DEF WholeSelections
  <2>2. \A s \in ItemSelections(sel, f, u.index) : s = [unit |-> u, row |-> source[u]] /\ u \in donors
    BY <1>1, <1>3 DEF ItemSelections
  <2>3. u \in donors => [unit |-> u, row |-> source[u]] \in ItemSelections(sel, f, u.index)
    BY <1>2 DEF ItemSelections
  <2> QED
    BY <1>5, <2>1, <2>2, <2>3
<1> QED
  BY <1>4, <1>5

\* And nothing is selected of an item of a field that is not chosen.
LEMMA NothingSelectedAt ==
  ASSUME NEW b, NEW donors \in SUBSET Units(b), NEW source,
         NEW u \in Units(b), NEW f \in u.fields, NEW sel, sel = SelectionOf(donors, source),
         u.index = 0, u \notin donors
  PROVE  \A i \in Nat : ItemSelections(sel, f, i) = {}
<1>1. \A s \in sel : s.unit \in donors /\ s.unit \in Units(b)
  BY DEF SelectionOf
<1>2. \A s \in sel : f \notin s.unit.fields
  BY <1>1, SharedField
<1> QED
  BY <1>2 DEF ItemSelections

\* The header of an array whose items are units is never touched.
LEMMA SplicedHeads ==
  ASSUME NEW b, IsRow(b), NEW donors \in SUBSET Units(b), NEW source,
         NEW row, row = Spliced(b, SelectionOf(donors, source)),
         NEW u \in Units(b), u.index # 0, NEW f \in u.fields
  PROVE  /\ row.val[f].head = b.val[f].head /\ row.val[f].kind = b.val[f].kind
         /\ ArrayLen(row, f) = ArrayLen(b, f)
         /\ row.val[f].items[u.index] =
              IF u \in donors THEN source[u].val[f].items[u.index] ELSE b.val[f].items[u.index]
<1>1. PICK sel : sel = SelectionOf(donors, source)
  OBVIOUS
<1>2. u.index \in 1..Len(b.val[f].items) /\ f \in DOMAIN b.val /\ b.val[f] \in Node
  BY UnitPlaces DEF ArrayLen, IsRow
<1>3. row.val[f] = SplicedNode(b, sel, f)
  BY <1>1, <1>2 DEF Spliced
<1>4. /\ WholeSelections(sel, f) = {}
      /\ ItemSelections(sel, f, u.index) = IF u \in donors THEN {[unit |-> u, row |-> source[u]]} ELSE {}
  BY ZenonT(40), <1>1, SelectedAt
<1>5. row.val[f] = [kind |-> b.val[f].kind, head |-> b.val[f].head,
                    items |-> [i \in 1..Len(b.val[f].items) |-> SplicedItem(b, sel, f, i)]]
  BY <1>3, <1>4 DEF SplicedNode
<1>6. u.index \in 1..Len(b.val[f].items) /\ Len(b.val[f].items) \in Nat
  BY <1>2 DEF Node
<1>7. row.val[f].items[u.index] = SplicedItem(b, sel, f, u.index)
  BY <1>5, <1>6
<1>8. SplicedItem(b, sel, f, u.index) =
        IF u \in donors THEN source[u].val[f].items[u.index] ELSE b.val[f].items[u.index]
  <2>1. CASE u \in donors
    <3>1. PICK x : x = [unit |-> u, row |-> source[u]]
      OBVIOUS
    <3>2. ItemSelections(sel, f, u.index) = {x}
      BY <1>4, <2>1, <3>1
    <3>3. (CHOOSE s \in ItemSelections(sel, f, u.index) : TRUE) = x
      BY <3>2
    <3>4. SplicedItem(b, sel, f, u.index) = x.row.val[f].items[u.index]
      BY <3>2, <3>3 DEF SplicedItem
    <3>5. x.row = source[u]
      BY <3>1
    <3> QED
      BY <2>1, <3>4, <3>5
  <2>2. CASE u \notin donors
    BY <1>4, <2>2 DEF SplicedItem
  <2> QED
    BY <2>1, <2>2
<1>9. PICK n \in Nat : n = Len(b.val[f].items)
  BY <1>6
<1>10. PICK items : items = [i \in 1..n |-> SplicedItem(b, sel, f, i)]
  OBVIOUS
<1>11. Len(items) = n
  BY <1>10
<1>12. row.val[f].items = items
  BY <1>5, <1>9, <1>10
<1> QED
  BY <1>5, <1>7, <1>8, <1>9, <1>11, <1>12 DEF ArrayLen

\* A chosen unit is its donor's to the byte; any other unit is as it was.
LEMMA SplicedUnits ==
  ASSUME NEW b, IsRow(b), NEW donors \in SUBSET Units(b), NEW source,
         NEW row, row = Spliced(b, SelectionOf(donors, source)), NEW u \in Units(b)
  PROVE  /\ DOMAIN row.val = DOMAIN b.val /\ row.order = b.order /\ row.idraw = b.idraw
         /\ UnitValue(row, u) = UnitValue(IF u \in donors THEN source[u] ELSE b, u)
<1>1. PICK sel : sel = SelectionOf(donors, source)
  OBVIOUS
<1>2. /\ row.order = b.order /\ row.idraw = b.idraw /\ DOMAIN row.val = DOMAIN b.val
      /\ \A f \in DOMAIN b.val : row.val[f] = SplicedNode(b, sel, f)
  BY <1>1 DEF Spliced
<1>3. u.index \in Nat /\ \A f \in u.fields : f \in DOMAIN b.val /\ b.val[f] \in Node
  BY UnitPlaces DEF IsRow
<1>4. CASE u.index = 0
  <2>1. ASSUME NEW f \in u.fields
        PROVE  row.val[f] = IF u \in donors THEN source[u].val[f] ELSE b.val[f]
    <3>1. CASE u \in donors
      <4>1. WholeSelections(sel, f) = {[unit |-> u, row |-> source[u]]}
        BY <1>1, <1>4, <3>1, SelectedAt
      <4>2. PICK x : x = [unit |-> u, row |-> source[u]]
        OBVIOUS
      <4>3. (CHOOSE s \in WholeSelections(sel, f) : TRUE) = x
        BY <4>1, <4>2
      <4>4. SplicedNode(b, sel, f) = x.row.val[f]
        BY <4>1, <4>3 DEF SplicedNode
      <4>5. x.row = source[u]
        BY <4>2
      <4> QED
        BY <1>2, <1>3, <3>1, <4>4, <4>5
    <3>2. CASE u \notin donors
      <4>1. /\ WholeSelections(sel, f) = {}
            /\ \A i \in Nat : ItemSelections(sel, f, i) = {}
        BY ZenonT(40), <1>1, <1>4, <3>2, SelectedAt, NothingSelectedAt
      <4>2. PICK node : node = b.val[f]
        OBVIOUS
      <4>3. node \in Node
        BY <1>3, <4>2
      <4>4. /\ node = [kind |-> node.kind, head |-> node.head, items |-> node.items]
            /\ node.items = [i \in 1..Len(node.items) |-> node.items[i]]
        BY <4>3 DEF Node
      <4>5. \A i \in 1..Len(node.items) : SplicedItem(b, sel, f, i) = node.items[i]
        BY <4>1, <4>2 DEF SplicedItem
      <4>6. SplicedNode(b, sel, f) = [kind |-> node.kind, head |-> node.head,
              items |-> [i \in 1..Len(node.items) |-> SplicedItem(b, sel, f, i)]]
        BY <4>1, <4>2 DEF SplicedNode
      <4>7. SplicedNode(b, sel, f) = node
        BY <4>4, <4>5, <4>6
      <4> QED
        BY <1>2, <1>3, <3>2, <4>2, <4>7
    <3> QED
      BY <3>1, <3>2
  <2> QED
    BY <1>2, <1>4, <2>1 DEF UnitValue
<1>5. CASE u.index # 0
  <2>1. \A f \in u.fields : row.val[f].items[u.index] =
          IF u \in donors THEN source[u].val[f].items[u.index] ELSE b.val[f].items[u.index]
    BY <1>5, SplicedHeads
  <2> QED
    BY <1>2, <1>5, <2>1 DEF UnitValue
<1> QED
  BY <1>4, <1>5
-----------------------------------------------------------------------------
(***************************************************************************)
(* The plan and the choices                                                *)
(***************************************************************************)
\* A record is of the comparison of its row.
Compared(c) ==
  /\ c.row \in RowIds /\ c.inputs = Holders(c.row)
  /\ \/ c \in RowConflicts(c.row)
     \/ c.kind = "EncodingDrift" /\ c.blocking = FALSE /\ c.group \in DriftGroups(c.row)

SoundInv == \A c \in conflicts : Compared(c)

Complete == \A r \in RowIds : RowConflicts(r) \subseteq conflicts

\* What holds from the first row of a build on.
Planned == TypeOK /\ SoundInv /\ Complete /\ Accepted(choices)

\* A record that is no drift is one of the comparison, and blocks.
LEMMA RecordKinds ==
  ASSUME SoundInv, NEW c \in conflicts
  PROVE  /\ c.row \in RowIds /\ c.inputs = Holders(c.row)
         /\ c.kind # "EncodingDrift" => c \in RowConflicts(c.row)
         /\ (c.kind # "EncodingDrift") <=> (c.blocking = TRUE)
         /\ c.blocking \in BOOLEAN
BY RowConflictFields DEF SoundInv, Compared

\* A choice is for a record of the comparison, and of an input that holds the row.
LEMMA ChoiceFacts ==
  ASSUME Planned, NEW key \in DOMAIN choices
  PROVE  /\ key.row \in RowIds /\ choices[key] \in Holders(key.row)
         /\ key = [row |-> key.row, group |-> key.group]
         /\ \E c \in RowConflicts(key.row) : c.group = key.group
<1>1. PICK c \in conflicts : Key(c) = key /\ c.kind \notin Informational /\ choices[key] \in c.inputs
  BY DEF Planned, Accepted
<1>2. key.row = c.row /\ key.group = c.group /\ key = [row |-> key.row, group |-> key.group]
  BY <1>1 DEF Key
<1>3. c.kind # "EncodingDrift"
  BY <1>1 DEF Informational
<1> QED
  BY <1>1, <1>2, <1>3, RecordKinds DEF Planned

\* Every record of the comparison has a choice.
LEMMA RecordIsChosen ==
  ASSUME Planned, NEW r \in RowIds, NEW c \in RowConflicts(r)
  PROVE  /\ c \in Indexed(r, c.group)
         /\ [row |-> r, group |-> c.group] \in DOMAIN choices
         /\ Chosen(r, c.group) = choices[[row |-> r, group |-> c.group]]
         /\ Chosen(r, c.group) \in Holders(r)
<1>1. c \in conflicts /\ c.row = r /\ c.blocking = TRUE
  BY RowConflictFields DEF Planned, Complete
<1>2. [row |-> r, group |-> c.group] \in DOMAIN choices
  BY <1>1 DEF Planned, Accepted, Key
<1>3. PICK key : key = [row |-> r, group |-> c.group]
  OBVIOUS
<1>4. key.row = r /\ key \in DOMAIN choices
  BY <1>2, <1>3
<1>5. choices[key] \in Holders(r)
  BY <1>4, ChoiceFacts
<1>6. Chosen(r, c.group) = choices[key]
  BY <1>3, <1>4 DEF Chosen
<1> QED
  BY <1>1, <1>2, <1>3, <1>5, <1>6 DEF Indexed

\* The groups of the records of a row.
LEMMA RecordGroups ==
  ASSUME NEW r, NEW c \in RowConflicts(r)
  PROVE  /\ InBase(r) /\ LayoutDiffers(r) => c.group = WholeRow
         /\ InBase(r) /\ ~LayoutDiffers(r) =>
              \E u \in Units(Base(r)) : c.group = u.id /\ SemDiffers(r, u)
         /\ ~InBase(r) => c.group = AppendedRow /\ AppendedSemDiffers(r)
BY DEF RowConflicts, Conflict

LEMMA WholeRowRecords ==
  ASSUME Planned, NEW r \in RowIds
  PROVE  HasConflict(r, WholeRow) <=> InBase(r) /\ LayoutDiffers(r)
<1>1. ASSUME InBase(r), LayoutDiffers(r)
      PROVE  HasConflict(r, WholeRow)
  <2>1. PICK c \in RowConflicts(r) : c.group = WholeRow
    BY <1>1 DEF RowConflicts, Conflict
  <2> QED
    BY <2>1, RecordIsChosen DEF HasConflict
<1>2. ASSUME HasConflict(r, WholeRow)
      PROVE  InBase(r) /\ LayoutDiffers(r)
  <2>1. PICK c \in conflicts : c.row = r /\ c.group = WholeRow
    BY <1>2 DEF HasConflict, Indexed
  <2>2. WholeRow # AppendedRow
    BY DEF WholeRow, AppendedRow
  <2>3. CASE c \in RowConflicts(r)
    BY <2>1, <2>2, <2>3, RecordGroups, UnitIds
  <2>4. CASE c \notin RowConflicts(r)
    <3>1. WholeRow \in DriftGroups(r)
      BY <2>1, <2>4 DEF Planned, SoundInv, Compared
    <3>2. CASE InBase(r) /\ ~LayoutDiffers(r)
      <4>1. PICK u \in Units(Base(r)) : u.id = WholeRow
        BY <3>1, <3>2 DEF DriftGroups
      <4> QED
        BY <4>1, UnitIds
    <3>3. CASE InBase(r) /\ LayoutDiffers(r)
      BY <3>3
    <3>4. CASE ~InBase(r)
      BY <2>2, <3>1, <3>4 DEF DriftGroups
    <3> QED
      BY <3>2, <3>3, <3>4
  <2> QED
    BY <2>3, <2>4
<1> QED
  BY <1>1, <1>2

LEMMA FirstHolderHolds ==
  ASSUME TypeOK, NEW r \in RowIds
  PROVE  FirstHolder(r) \in Holders(r)
<1> DEFINE H == Holders(r)
<1>1. H \in SUBSET Providers /\ H # {} /\ Providers \in SUBSET Int
  BY HoldersFacts, MergeAssumption DEF Providers
<1>2. IsFiniteSet(Providers)
  BY MergeAssumption, FS_Interval DEF Providers
<1> HIDE DEF H
<1>3. IsFiniteSet(H) /\ H \in SUBSET Int
  BY <1>1, <1>2, FS_Subset
<1>4. Lowest(H) \in H
  BY <1>1, <1>3, LowestExists
<1> QED
  BY <1>4 DEF FirstHolder, H

\* Where a unit of a base row comes from: from the input that was chosen for it,
\* which it was when inputs disagree, or from the base Pak.
LEMMA UnitSource ==
  ASSUME Planned, NEW r \in RowIds, InBase(r), ~LayoutDiffers(r), NEW u \in Units(Base(r))
  PROVE  /\ AuditSource(r, u) \in Holders(r)
         /\ u \in DonorUnits(r) <=> AuditSource(r, u) # carrier
         /\ u \in DonorUnits(r) => /\ AuditSource(r, u) = Chosen(r, u.id)
                                   /\ Chosen(r, u.id) \notin {0, carrier}
         /\ SemDiffers(r, u) => [row |-> r, group |-> u.id] \in DOMAIN choices
         /\ ~SemDiffers(r, u) => AuditSource(r, u) = carrier
         /\ [row |-> r, group |-> u.id] \in DOMAIN choices =>
              AuditSource(r, u) = choices[[row |-> r, group |-> u.id]]
<1>1. \A c \in Indexed(r, u.id) : c \in conflicts /\ c.row = r /\ c.group = u.id
  BY DEF Indexed
<1>2. ASSUME NEW c \in Indexed(r, u.id), c.kind # "EncodingDrift"
      PROVE  /\ Chosen(r, u.id) \in Holders(r) /\ Chosen(r, u.id) # 0 /\ SemDiffers(r, u)
             /\ Chosen(r, u.id) = choices[[row |-> r, group |-> u.id]]
  <2>1. c \in RowConflicts(r) /\ c.group = u.id
    BY <1>1, <1>2, RecordKinds DEF Planned
  <2>2. PICK v \in Units(Base(r)) : c.group = v.id /\ SemDiffers(r, v)
    BY <2>1, RecordGroups
  <2>3. v = u
    BY <2>1, <2>2, UnitIds
  <2>4. 0 \notin Holders(r)
    BY DEF Holders, Providers
  <2> QED
    BY <2>1, <2>2, <2>3, <2>4, RecordIsChosen
<1>3. ASSUME SemDiffers(r, u)
      PROVE  /\ \E c \in Indexed(r, u.id) : c.kind # "EncodingDrift"
             /\ [row |-> r, group |-> u.id] \in DOMAIN choices
  <2>1. PICK c \in RowConflicts(r) : c.group = u.id
    <3>1. PICK c : c = Conflict(r, u.id, UnitKind(u), TRUE)
      OBVIOUS
    <3>2. c \in RowConflicts(r)
      BY <1>3, <3>1 DEF RowConflicts
    <3>3. c.group = u.id
      BY <3>1 DEF Conflict
    <3> QED
      BY <3>2, <3>3
  <2> QED
    BY <2>1, RecordIsChosen, RowConflictFields
<1>4. carrier \in Holders(r)
  BY DEF InBase
<1>5. ASSUME [row |-> r, group |-> u.id] \in DOMAIN choices
      PROVE  SemDiffers(r, u)
  <2>1. PICK key \in DOMAIN choices : key = [row |-> r, group |-> u.id]
    BY <1>5
  <2>2. PICK c \in RowConflicts(r) : c.group = u.id
    BY <2>1, ChoiceFacts
  <2>3. PICK v \in Units(Base(r)) : c.group = v.id /\ SemDiffers(r, v)
    BY <2>2, RecordGroups
  <2> QED
    BY <2>2, <2>3, UnitIds
<1>6. u \in DonorUnits(r) <=>
        (\E c \in Indexed(r, u.id) : c.kind # "EncodingDrift") /\ Chosen(r, u.id) # carrier
  <2>1. \A c \in Indexed(r, u.id) : (~(~c.blocking /\ c.kind = "EncodingDrift")) <=> c.kind # "EncodingDrift"
    BY <1>1, RecordKinds DEF Planned
  <2> QED
    BY <2>1 DEF DonorUnits
<1>7. CASE \E c \in Indexed(r, u.id) : c.kind # "EncodingDrift"
  <2>1. AuditSource(r, u) = Chosen(r, u.id)
    BY <1>7 DEF AuditSource
  <2> QED
    BY <1>2, <1>3, <1>6, <1>7, <2>1
<1>8. CASE ~\E c \in Indexed(r, u.id) : c.kind # "EncodingDrift"
  <2>1. AuditSource(r, u) = carrier /\ ~SemDiffers(r, u)
    BY <1>3, <1>8 DEF AuditSource
  <2> QED
    BY <1>4, <1>5, <1>6, <1>8, <2>1
<1> QED
  BY <1>7, <1>8
-----------------------------------------------------------------------------
(***************************************************************************)
(* The stored rows                                                         *)
(***************************************************************************)
\* A base row is built, with each unit from its source to the byte.
LEMMA BuiltUnits ==
  ASSUME Planned, NEW r \in RowIds, InBase(r), ~LayoutDiffers(r), NEW row, row = BuiltRow(r)
  PROVE  /\ ~BuildFails(r)
         /\ DOMAIN row.val = DOMAIN Base(r).val
         /\ row.order = Base(r).order /\ row.idraw = Base(r).idraw
         /\ \A u \in Units(Base(r)) :
              /\ UnitValue(row, u) = UnitValue(RowOf(AuditSource(r, u), r), u)
              /\ u.index # 0 => \A f \in u.fields :
                   /\ row.val[f].head = Base(r).val[f].head /\ row.val[f].kind = Base(r).val[f].kind
                   /\ ArrayLen(row, f) = ArrayLen(Base(r), f)
<1>1. PICK b : b = Base(r)
  OBVIOUS
<1>2. PICK donors \in SUBSET Units(b) : donors = DonorUnits(r)
  BY <1>1 DEF DonorUnits
<1>3. PICK source : source = [u \in donors |-> RowOf(Chosen(r, u.id), r)]
  OBVIOUS
<1>4. TypeOK /\ IsRow(b) /\ ~HasConflict(r, WholeRow)
  BY <1>1, HoldersFacts, WholeRowRecords DEF Planned, InBase, Base
<1>5. \A u \in donors : /\ Chosen(r, u.id) \in Holders(r) /\ Chosen(r, u.id) = AuditSource(r, u)
                        /\ source[u] = RowOf(Chosen(r, u.id), r)
  BY <1>1, <1>2, <1>3, UnitSource
<1>6. \A u \in donors : IsRow(source[u]) /\ SameLayout(b, source[u])
  BY <1>1, <1>4, <1>5, HoldersFacts DEF LayoutDiffers
<1>7. Selections(r) = SelectionOf(donors, source)
  <2>1. \A u \in donors : [unit |-> u, row |-> RowOf(Chosen(r, u.id), r)] = [unit |-> u, row |-> source[u]]
    BY <1>5
  <2> QED
    BY <1>2, <2>1 DEF Selections, SelectionOf
<1>8. ~SpliceFails(b, SelectionOf(donors, source))
  BY <1>4, <1>6, SpliceSucceeds
<1>9. ~BuildFails(r)
  BY <1>1, <1>2, <1>4, <1>5, <1>7, <1>8 DEF BuildFails
<1>10. \A u \in Units(b) \ donors : AuditSource(r, u) = carrier
  BY <1>1, <1>2, UnitSource
<1>11. b = RowOf(carrier, r)
  BY <1>1 DEF Base
<1>12. CASE donors = {}
  <2>1. row = b
    BY <1>1, <1>2, <1>4, <1>12 DEF BuiltRow
  <2> QED
    BY <1>1, <1>9, <1>10, <1>11, <1>12, <2>1
<1>13. CASE donors # {}
  <2>1. row = Spliced(b, SelectionOf(donors, source))
    BY <1>1, <1>2, <1>4, <1>7, <1>13 DEF BuiltRow
  <2>2. DOMAIN row.val = DOMAIN b.val /\ row.order = b.order /\ row.idraw = b.idraw
    BY <2>1 DEF Spliced
  <2>3. ASSUME NEW u \in Units(b)
        PROVE  /\ UnitValue(row, u) = UnitValue(RowOf(AuditSource(r, u), r), u)
               /\ u.index # 0 => \A f \in u.fields :
                    /\ row.val[f].head = b.val[f].head /\ row.val[f].kind = b.val[f].kind
                    /\ ArrayLen(row, f) = ArrayLen(b, f)
    <3>1. UnitValue(row, u) = UnitValue(IF u \in donors THEN source[u] ELSE b, u)
      BY ONLY <1>4, <2>1, SplicedUnits
    <3>3. ASSUME NEW f \in u.fields, u.index # 0
          PROVE  /\ row.val[f].head = b.val[f].head /\ row.val[f].kind = b.val[f].kind
                 /\ ArrayLen(row, f) = ArrayLen(b, f)
      <4>1. IsRow(b)
        BY <1>4
      <4> QED
        BY ONLY <2>1, <3>3, <4>1, SplicedHeads
    <3>2. (IF u \in donors THEN source[u] ELSE b) = RowOf(AuditSource(r, u), r)
      BY <1>5, <1>10, <1>11
    <3> QED
      BY <3>1, <3>2, <3>3
  <2> QED
    BY <1>1, <1>9, <2>2, <2>3
<1> QED
  BY <1>12, <1>13

\* The audit of a built row finds what it recomputes.
LEMMA BuiltRowIsAudited ==
  ASSUME Planned, NEW r \in RowIds, InBase(r)
  PROVE  ~BuildFails(r) /\ AuditMatches(r, BuiltRow(r))
<1>1. CASE LayoutDiffers(r)
  <2>1. HasConflict(r, WholeRow)
    BY <1>1, WholeRowRecords
  <2>2. PICK c \in RowConflicts(r) : c.group = WholeRow
    BY <1>1 DEF RowConflicts, Conflict
  <2>3. Chosen(r, WholeRow) \in Holders(r)
    BY <2>2, RecordIsChosen
  <2> QED
    BY <2>1, <2>3 DEF BuildFails, AuditMatches
<1>2. CASE ~LayoutDiffers(r)
  <2>1. PICK row : row = BuiltRow(r)
    OBVIOUS
  <2>2. IsRow(Base(r))
    BY HoldersFacts DEF Planned, InBase, Base
  <2>3. /\ ~BuildFails(r) /\ DOMAIN row.val = DOMAIN Base(r).val
        /\ \A u \in Units(Base(r)) :
             /\ UnitValue(row, u) = UnitValue(RowOf(AuditSource(r, u), r), u)
             /\ u.index # 0 => \A f \in u.fields :
                  row.val[f].kind = Base(r).val[f].kind /\ ArrayLen(row, f) = ArrayLen(Base(r), f)
    BY <1>2, <2>1, BuiltUnits
  <2>4. \A u \in Units(Base(r)) : Selectable(row, u)
    BY <2>2, <2>3, UnitPlaces DEF Selectable
  <2> QED
    BY <2>1, <2>3, <2>4 DEF AuditMatches
<1> QED
  BY <1>1, <1>2

\* A row that the base Pak lacks is appended from the chosen input, or from the
\* first that holds it where all mean the same.
LEMMA DonorFacts ==
  ASSUME Planned, NEW r \in RowIds, ~InBase(r)
  PROVE  /\ Donor(r) \in Holders(r)
         /\ [row |-> r, group |-> AppendedRow] \in DOMAIN choices =>
              Donor(r) = choices[[row |-> r, group |-> AppendedRow]]
         /\ [row |-> r, group |-> AppendedRow] \notin DOMAIN choices =>
              \A p \in Holders(r) : RowSem(RowOf(p, r)) = RowSem(RowOf(Donor(r), r))
<1>1. CASE AppendedSemDiffers(r)
  <2>1. PICK c \in RowConflicts(r) : c.group = AppendedRow
    BY <1>1 DEF RowConflicts, Conflict
  <2>2. c \in Indexed(r, AppendedRow) /\ c.blocking = TRUE
    BY <2>1, RecordIsChosen, RowConflictFields
  <2>3. Donor(r) = Chosen(r, AppendedRow)
    BY <2>2 DEF Donor
  <2> QED
    BY <2>1, <2>3, RecordIsChosen
<1>2. CASE ~AppendedSemDiffers(r)
  <2>1. RowConflicts(r) = {}
    BY <1>2 DEF RowConflicts
  <2>2. \A c \in Indexed(r, AppendedRow) : ~c.blocking
    BY <2>1, RecordKinds DEF Indexed, Planned
  <2>3. Donor(r) = FirstHolder(r)
    BY <2>2 DEF Donor
  <2>4. FirstHolder(r) \in Holders(r)
    BY FirstHolderHolds DEF Planned
  <2>5. [row |-> r, group |-> AppendedRow] \notin DOMAIN choices
    <3>1. SUFFICES ASSUME NEW key \in DOMAIN choices, key = [row |-> r, group |-> AppendedRow]
                   PROVE  FALSE
      OBVIOUS
    <3>2. key.row = r
      BY <3>1
    <3> QED
      BY <2>1, <3>2, ChoiceFacts
  <2> QED
    BY <1>2, <2>3, <2>4, <2>5 DEF AppendedSemDiffers
<1> QED
  BY <1>1, <1>2

\* The row that is stored for an id.
StoredRow(r) == IF InBase(r) THEN BuiltRow(r) ELSE RowOf(Donor(r), r)

\* A row stored whole is that of the chosen input.
LEMMA WholeRowIsChosen ==
  ASSUME Planned, NEW r \in RowIds, InBase(r), LayoutDiffers(r)
  PROVE  /\ [row |-> r, group |-> WholeRow] \in DOMAIN choices
         /\ Chosen(r, WholeRow) = choices[[row |-> r, group |-> WholeRow]]
         /\ Chosen(r, WholeRow) \in Holders(r)
         /\ StoredRow(r) = RowOf(Chosen(r, WholeRow), r)
<1>1. PICK c \in RowConflicts(r) : c.group = WholeRow
  BY DEF RowConflicts, Conflict
<1>2. HasConflict(r, WholeRow)
  BY WholeRowRecords
<1> QED
  BY <1>1, <1>2, RecordIsChosen DEF StoredRow, BuiltRow

\* Every choice is carried out to the byte.
LEMMA ChoiceIsStored ==
  ASSUME Planned, NEW key \in DOMAIN choices, NEW r, key.row = r
  PROVE  IF key.group \in {WholeRow, AppendedRow}
         THEN StoredRow(r) = RowOf(choices[key], r)
         ELSE \E u \in Units(Base(r)) :
                /\ u.id = key.group
                /\ UnitValue(StoredRow(r), u) = UnitValue(RowOf(choices[key], r), u)
<1>1. /\ r \in RowIds /\ choices[key] \in Holders(r)
      /\ key = [row |-> r, group |-> key.group]
  BY ChoiceFacts
<1>2. PICK c \in RowConflicts(r) : c.group = key.group
  BY ChoiceFacts
<1>3. CASE InBase(r) /\ LayoutDiffers(r)
  <2>1. key.group = WholeRow /\ key = [row |-> r, group |-> WholeRow]
    BY <1>1, <1>2, <1>3, RecordGroups
  <2> QED
    BY <1>1, <1>3, <2>1, WholeRowIsChosen
<1>4. CASE ~InBase(r)
  <2>1. key.group = AppendedRow /\ key = [row |-> r, group |-> AppendedRow]
    BY <1>1, <1>2, <1>4, RecordGroups
  <2> QED
    BY <1>1, <1>4, <2>1, DonorFacts DEF StoredRow
<1>5. CASE InBase(r) /\ ~LayoutDiffers(r)
  <2>1. PICK u \in Units(Base(r)) : key.group = u.id
    BY <1>2, <1>5, RecordGroups
  <2>2. key.group \notin {WholeRow, AppendedRow}
    BY <2>1, UnitIds
  <2>3. AuditSource(r, u) = choices[key]
    <3>1. [row |-> r, group |-> u.id] \in DOMAIN choices /\ key = [row |-> r, group |-> u.id]
      BY <1>1, <2>1
    <3> QED
      BY <1>1, <1>5, <3>1, UnitSource
  <2>4. StoredRow(r) = BuiltRow(r)
    BY <1>5 DEF StoredRow
  <2>5. UnitValue(StoredRow(r), u) = UnitValue(RowOf(AuditSource(r, u), r), u)
    BY <1>1, <1>5, <2>4, BuiltUnits
  <2> QED
    BY <2>1, <2>2, <2>3, <2>5
<1> QED
  BY <1>3, <1>4, <1>5

\* What nobody chose stays the base Pak's.
LEMMA BaseStays ==
  ASSUME Planned, NEW r \in RowIds, InBase(r), Chosen(r, WholeRow) = 0, NEW row, row = StoredRow(r)
  PROVE  /\ row.order = Base(r).order /\ row.idraw = Base(r).idraw
         /\ \A u \in Units(Base(r)) :
              /\ Chosen(r, u.id) \in {0, carrier} => UnitValue(row, u) = UnitValue(Base(r), u)
              /\ u.index # 0 => \A f \in u.fields : row.val[f].head = Base(r).val[f].head
<1>1. ~LayoutDiffers(r)
  <2>1. 0 \notin Holders(r)
    BY DEF Holders, Providers
  <2> QED
    BY <2>1, WholeRowIsChosen
<1>2. row = BuiltRow(r)
  BY DEF StoredRow
<1>3. /\ row.order = Base(r).order /\ row.idraw = Base(r).idraw
      /\ \A u \in Units(Base(r)) :
           /\ UnitValue(row, u) = UnitValue(RowOf(AuditSource(r, u), r), u)
           /\ u.index # 0 => \A f \in u.fields : row.val[f].head = Base(r).val[f].head
  BY <1>1, <1>2, BuiltUnits
<1>4. ASSUME NEW u \in Units(Base(r)), Chosen(r, u.id) \in {0, carrier}
      PROVE  RowOf(AuditSource(r, u), r) = Base(r)
  BY <1>1, <1>4, UnitSource DEF Base
<1> QED
  BY <1>3, <1>4

\* Rows of one meaning differ nowhere.
LEMMA SameMeaningDiffersNowhere ==
  ASSUME NEW a, NEW b, IsRow(a), IsRow(b), RowSem(b) = RowSem(a),
         NEW f \in DOMAIN b.val, NEW i
  PROVE  ~DiffersAt(a, b, f, i)
<1>1. /\ DOMAIN a.val = DOMAIN b.val
      /\ NodeSem(a.val[f]) = NodeSem(b.val[f]) /\ ArrayLen(a, f) = ArrayLen(b, f)
      /\ a.val[f].kind = "array" => \A j \in 1..ArrayLen(a, f) :
           Sem[a.val[f].items[j]] = Sem[b.val[f].items[j]]
  BY SameMeaning
<1> QED
  BY <1>1 DEF DiffersAt

\* Nor do two rows where a unit means the same.
LEMMA SameUnitDiffersNowhere ==
  ASSUME NEW a, NEW b, NEW u, NEW f \in u.fields,
         f \in DOMAIN a.val, a.val[f] \in Node, b.val[f] \in Node,
         u.index = 0, NodeSem(b.val[f]) = NodeSem(a.val[f]), NEW i
  PROVE  ~DiffersAt(a, b, f, i)
<1>1. CASE b.val[f].kind = "array" /\ a.val[f].kind = "array" /\ ArrayLen(b, f) = ArrayLen(a, f)
  <2>1. PICK m : m = [j \in DOMAIN b.val[f].items |-> Sem[b.val[f].items[j]]]
    OBVIOUS
  <2>2. PICK n : n = [j \in DOMAIN a.val[f].items |-> Sem[a.val[f].items[j]]]
    OBVIOUS
  <2>3. m = n
    BY <1>1, <2>1, <2>2 DEF NodeSem
  <2>4. DOMAIN b.val[f].items = 1..ArrayLen(b, f) /\ DOMAIN a.val[f].items = 1..ArrayLen(a, f)
    BY DEF ArrayLen, Node
  <2>5. \A j \in 1..ArrayLen(b, f) : m[j] = Sem[b.val[f].items[j]] /\ n[j] = Sem[a.val[f].items[j]]
    BY <1>1, <2>1, <2>2, <2>4
  <2> QED
    BY <1>1, <2>3, <2>5 DEF DiffersAt
<1>2. CASE ~(b.val[f].kind = "array" /\ a.val[f].kind = "array" /\ ArrayLen(b, f) = ArrayLen(a, f))
  BY <1>2 DEF DiffersAt
<1> QED
  BY <1>1, <1>2

\* Where a stored row means something else than an input's, a choice covers it.
LEMMA DifferenceIsChosen ==
  ASSUME Planned, NEW r \in RowIds, NEW p \in Holders(r), NEW f \in DOMAIN RowOf(p, r).val, NEW i,
         DiffersAt(StoredRow(r), RowOf(p, r), f, i)
  PROVE  \E key \in DOMAIN choices : Covers(key, r, f, i)
<1>1. TypeOK /\ IsRow(RowOf(p, r))
  BY HoldersFacts DEF Planned
<1>2. CASE InBase(r) /\ LayoutDiffers(r)
  <2>1. PICK key \in DOMAIN choices : key = [row |-> r, group |-> WholeRow]
    BY <1>2, WholeRowIsChosen
  <2>2. Covers(key, r, f, i)
    BY <2>1 DEF Covers
  <2> QED
    BY <2>2
<1>3. CASE ~InBase(r)
  <2>1. CASE [row |-> r, group |-> AppendedRow] \in DOMAIN choices
    <3>1. PICK key \in DOMAIN choices : key = [row |-> r, group |-> AppendedRow]
      BY <2>1
    <3>2. Covers(key, r, f, i)
      BY <3>1 DEF Covers
    <3> QED
      BY <3>2
  <2>2. CASE [row |-> r, group |-> AppendedRow] \notin DOMAIN choices
    <3>1. StoredRow(r) = RowOf(Donor(r), r)
      BY <1>3 DEF StoredRow
    <3>2. RowSem(RowOf(p, r)) = RowSem(StoredRow(r)) /\ IsRow(StoredRow(r))
      BY <1>1, <1>3, <2>2, <3>1, DonorFacts, HoldersFacts
    <3> QED
      BY <1>1, <3>2, SameMeaningDiffersNowhere
  <2> QED
    BY <2>1, <2>2
<1>4. CASE InBase(r) /\ ~LayoutDiffers(r)
  <2>1. PICK b : b = Base(r)
    OBVIOUS
  <2>2. PICK q : q = RowOf(p, r)
    OBVIOUS
  <2>3. PICK row : row = StoredRow(r)
    OBVIOUS
  <2>4. IsRow(b) /\ IsRow(q) /\ SameLayout(b, q)
    BY <1>1, <1>4, <2>1, <2>2, HoldersFacts DEF InBase, Base, LayoutDiffers
  <2>5. /\ DOMAIN b.val = DOMAIN q.val /\ f \in DOMAIN b.val
        /\ \A u \in Units(b) : Selectable(b, u) /\ Selectable(q, u)
    BY <2>2, <2>4, LayoutFacts
  <2>6. row = BuiltRow(r)
    BY <1>4, <2>3 DEF StoredRow
  <2>7. /\ DOMAIN row.val = DOMAIN b.val
        /\ \A u \in Units(b) :
             /\ UnitValue(row, u) = UnitValue(RowOf(AuditSource(r, u), r), u)
             /\ u.index # 0 => \A h \in u.fields :
                  row.val[h].kind = b.val[h].kind /\ ArrayLen(row, h) = ArrayLen(b, h)
    BY <1>4, <2>1, <2>6, BuiltUnits
  <2>8. b.val[f] \in Node /\ q.val[f] \in Node
    BY <2>4, <2>5 DEF IsRow
  <2>9. ASSUME NEW u \in Units(b), f \in u.fields, ~SemDiffers(r, u)
        PROVE  /\ u.index = 0 => row.val[f] = b.val[f] /\ NodeSem(q.val[f]) = NodeSem(b.val[f])
               /\ u.index # 0 => /\ row.val[f].items[u.index] = b.val[f].items[u.index]
                                 /\ Sem[q.val[f].items[u.index]] = Sem[b.val[f].items[u.index]]
    <3>1. AuditSource(r, u) = carrier
      BY <1>4, <2>1, <2>9, UnitSource
    <3>2. UnitValue(row, u) = UnitValue(b, u)
      BY <2>1, <2>7, <3>1 DEF Base
    <3>3. UnitSem(q, u) = UnitSem(b, u)
      BY <2>1, <2>2, <2>9 DEF SemDiffers
    <3>4. UnitValue(row, u)[f] = UnitValue(b, u)[f] /\ UnitSem(q, u)[f] = UnitSem(b, u)[f]
      BY <3>2, <3>3
    <3>5. u.index = 0 => /\ UnitValue(row, u)[f] = row.val[f] /\ UnitValue(b, u)[f] = b.val[f]
                         /\ UnitSem(q, u)[f] = NodeSem(q.val[f]) /\ UnitSem(b, u)[f] = NodeSem(b.val[f])
      BY <2>9 DEF UnitValue, UnitSem
    <3>6. u.index # 0 =>
            /\ UnitValue(row, u)[f] = row.val[f].items[u.index]
            /\ UnitValue(b, u)[f] = b.val[f].items[u.index]
            /\ UnitSem(q, u)[f] = Sem[q.val[f].items[u.index]]
            /\ UnitSem(b, u)[f] = Sem[b.val[f].items[u.index]]
      BY <2>9 DEF UnitValue, UnitSem
    <3> QED
      BY <3>4, <3>5, <3>6
  <2>10. ASSUME NEW u \in Units(b), f \in u.fields, SemDiffers(r, u), u.index \in {0, i}
         PROVE  \E key \in DOMAIN choices : Covers(key, r, f, i)
    <3>1. PICK key \in DOMAIN choices : key = [row |-> r, group |-> u.id]
      BY <1>4, <2>1, <2>10, UnitSource
    <3>2. Covers(key, r, f, i)
      BY <2>1, <2>10, <3>1 DEF Covers
    <3> QED
      BY <3>2
  <2>11. CASE \E u \in Units(b) : f \in u.fields /\ u.index = 0
    <3>1. PICK u \in Units(b) : f \in u.fields /\ u.index = 0
      BY <2>11
    <3>2. CASE SemDiffers(r, u)
      BY <2>10, <3>1, <3>2
    <3>3. CASE ~SemDiffers(r, u)
      <4>1. row.val[f] = b.val[f] /\ NodeSem(q.val[f]) = NodeSem(b.val[f])
        BY <2>9, <3>1, <3>3
      <4>2. ~DiffersAt(row, q, f, i)
        BY <2>5, <2>7, <2>8, <3>1, <4>1, SameUnitDiffersNowhere
      <4> QED
        BY <2>2, <2>3, <4>2
    <3> QED
      BY <3>2, <3>3
  <2>12. CASE ~\E u \in Units(b) : f \in u.fields /\ u.index = 0
    <3>1. /\ b.val[f].kind = "array"
          /\ \A j \in 1..ArrayLen(b, f) : \E u \in Units(b) : f \in u.fields /\ u.index = j
      BY <2>4, <2>5, <2>12, PlacesAreCovered
    <3>2. ArrayLen(b, f) \in Nat
      BY <2>8 DEF ArrayLen, Node
    <3>3. CASE ArrayLen(b, f) = 0
      <4>1. ArrayLen(b, f) # 0
        <5>1. PICK u \in Units(b) : f \in u.fields /\ u.index # 0
          BY <2>4, <2>5, <2>12, FieldHasUnit
        <5>2. u.index \in 1..ArrayLen(b, f)
          BY <2>4, <5>1, UnitPlaces
        <5> QED
          BY <3>2, <5>2
      <4> QED
        BY <3>3, <4>1
    <3>4. CASE ArrayLen(b, f) # 0
      <4>1. PICK v \in Units(b) : f \in v.fields /\ v.index = 1
        BY <3>1, <3>2, <3>4
      <4>2. /\ row.val[f].kind = "array" /\ ArrayLen(row, f) = ArrayLen(b, f)
            /\ q.val[f].kind = "array" /\ ArrayLen(q, f) = ArrayLen(b, f)
        BY <2>5, <2>7, <3>1, <4>1 DEF Selectable
      <4>3. i \in 1..ArrayLen(b, f) /\ Sem[q.val[f].items[i]] # Sem[row.val[f].items[i]]
        BY <2>2, <2>3, <2>5, <2>7, <4>2 DEF DiffersAt
      <4>4. PICK u \in Units(b) : f \in u.fields /\ u.index = i
        BY <3>1, <4>3
      <4>5. i # 0
        BY <4>3
      <4> QED
        BY <2>9, <2>10, <4>3, <4>4, <4>5
    <3> QED
      BY <3>3, <3>4
  <2> QED
    BY <2>11, <2>12
<1> QED
  BY <1>2, <1>3, <1>4
\* The fields of a group are one input's, or those of each index are.
LEMMA LinkedFields ==
  ASSUME Planned, NEW r \in RowIds, NEW g \in Groups, NEW row, row = StoredRow(r)
  PROVE  \/ \E p \in Holders(r) : \A f \in Present(g, row) :
              f \in DOMAIN RowOf(p, r).val /\ row.val[f] = RowOf(p, r).val[f]
         \/ /\ IsParallel(g, row)
            /\ \A i \in 1..ParallelLen(g, row) :
                 \E p \in Holders(r) : \A f \in Present(g, row) :
                   /\ f \in DOMAIN RowOf(p, r).val
                   /\ i \in DOMAIN RowOf(p, r).val[f].items
                   /\ row.val[f].items[i] = RowOf(p, r).val[f].items[i]
<1>1. CASE \E p \in Holders(r) : row = RowOf(p, r)
  BY <1>1 DEF Present
<1>2. CASE InBase(r) /\ LayoutDiffers(r)
  BY <1>1, <1>2, WholeRowIsChosen
<1>3. CASE ~InBase(r)
  BY <1>1, <1>3, DonorFacts DEF StoredRow
<1>4. CASE InBase(r) /\ ~LayoutDiffers(r)
  <2>1. PICK b : b = Base(r)
    OBVIOUS
  <2>2. TypeOK /\ IsRow(b) /\ carrier \in Holders(r)
    BY <1>4, <2>1, HoldersFacts DEF Planned, InBase, Base
  <2>3. row = BuiltRow(r)
    BY <1>4 DEF StoredRow
  <2>4. /\ DOMAIN row.val = DOMAIN b.val
        /\ \A u \in Units(b) :
             /\ UnitValue(row, u) = UnitValue(RowOf(AuditSource(r, u), r), u)
             /\ u.index # 0 => \A h \in u.fields :
                  row.val[h].kind = b.val[h].kind /\ ArrayLen(row, h) = ArrayLen(b, h)
    BY <1>4, <2>1, <2>3, BuiltUnits
  <2>5. Present(g, row) = Present(g, b)
    BY <2>4 DEF Present
  <2>6. ASSUME NEW u \in Units(b)
        PROVE  /\ AuditSource(r, u) \in Holders(r)
               /\ IsRow(RowOf(AuditSource(r, u), r)) /\ Selectable(RowOf(AuditSource(r, u), r), u)
    <3>1. AuditSource(r, u) \in Holders(r)
      BY <1>4, <2>1, UnitSource
    <3>2. PICK q : q = RowOf(AuditSource(r, u), r)
      OBVIOUS
    <3>3. IsRow(q) /\ SameLayout(b, q)
      BY <1>4, <2>1, <2>2, <3>1, <3>2, HoldersFacts DEF LayoutDiffers
    <3>4. Selectable(q, u)
      BY <2>2, <3>3, LayoutFacts
    <3> QED
      BY <3>1, <3>2, <3>3, <3>4
  <2>7. CASE Present(g, b) = {}
    BY <2>2, <2>5, <2>7
  <2>8. CASE Present(g, b) # {} /\ ~IsParallel(g, b)
    <3>1. PICK u \in Units(b) : u.fields = Present(g, b) /\ u.index = 0
      <4>1. GroupUnit(b, g) \in Units(b)
        BY <2>8, UnitKinds
      <4> QED
        BY <4>1 DEF GroupUnit
    <3>2. PICK p \in Holders(r) : p = AuditSource(r, u)
      BY <2>6
    <3>3. ASSUME NEW f \in Present(g, b)
          PROVE  f \in DOMAIN RowOf(p, r).val /\ row.val[f] = RowOf(p, r).val[f]
      <4>1. UnitValue(row, u)[f] = UnitValue(RowOf(p, r), u)[f]
        BY <2>4, <3>2
      <4>2. UnitValue(row, u)[f] = row.val[f] /\ UnitValue(RowOf(p, r), u)[f] = RowOf(p, r).val[f]
        BY <3>1 DEF UnitValue
      <4>3. Selectable(RowOf(p, r), u)
        BY <2>6, <3>2
      <4> QED
        BY <3>1, <4>1, <4>2, <4>3 DEF Selectable
    <3> QED
      BY <2>5, <3>3
  <2>9. CASE Present(g, b) # {} /\ IsParallel(g, b)
    <3>1. PICK n \in Nat : n = ParallelLen(g, b) /\ n >= 1
      BY <2>2, <2>9, ParallelFacts
    <3>2. ASSUME NEW i \in 1..n
          PROVE  \E u \in Units(b) : u.fields = Present(g, b) /\ u.index = i /\ u.len = n
      <4>1. ItemUnit(b, g, i) \in Units(b)
        BY <2>9, <3>1, UnitKinds
      <4> QED
        BY <3>1, <4>1 DEF ItemUnit
    <3>3. ASSUME NEW f \in Present(g, b)
          PROVE  row.val[f].kind = "array" /\ ArrayLen(row, f) = n
      <4>1. 1 \in 1..n
        BY <3>1
      <4>2. PICK u \in Units(b) : u.fields = Present(g, b) /\ u.index = 1
        BY <3>2, <4>1
      <4>3. b.val[f].kind = "array" /\ ArrayLen(b, f) = n
        BY <2>2, <2>9, <3>1, ParallelFacts
      <4> QED
        BY <2>4, <4>2, <4>3
    <3>4. IsParallel(g, row)
      BY <2>5, <2>9, <3>1, <3>3 DEF IsParallel
    <3>5. ParallelLen(g, row) = n
      BY <2>5, <2>9, <3>3 DEF ParallelLen
    <3>6. ASSUME NEW i \in 1..n
          PROVE  \E p \in Holders(r) : \A f \in Present(g, row) :
                   /\ f \in DOMAIN RowOf(p, r).val
                   /\ i \in DOMAIN RowOf(p, r).val[f].items
                   /\ row.val[f].items[i] = RowOf(p, r).val[f].items[i]
      <4>1. PICK u \in Units(b) : u.fields = Present(g, b) /\ u.index = i /\ u.len = n
        BY <3>2
      <4>2. PICK p \in Holders(r) : p = AuditSource(r, u)
        BY <2>6
      <4>3. PICK q : q = RowOf(p, r)
        OBVIOUS
      <4>4. IsRow(q) /\ Selectable(q, u) /\ i # 0
        BY <2>6, <3>1, <4>2, <4>3
      <4>5. ASSUME NEW f \in Present(g, row)
            PROVE  f \in DOMAIN q.val /\ i \in DOMAIN q.val[f].items
                   /\ row.val[f].items[i] = q.val[f].items[i]
        <5>1. f \in u.fields
          BY <2>5, <4>1
        <5>2. f \in DOMAIN q.val /\ ArrayLen(q, f) = n
          BY <4>1, <4>4, <5>1 DEF Selectable
        <5>3. q.val[f] \in Node
          BY <4>4, <5>2 DEF IsRow
        <5>4. DOMAIN q.val[f].items = 1..n
          BY <5>2, <5>3 DEF Node, ArrayLen
        <5>5. UnitValue(row, u)[f] = UnitValue(q, u)[f]
          BY <2>4, <4>2, <4>3
        <5>6. UnitValue(row, u)[f] = row.val[f].items[i] /\ UnitValue(q, u)[f] = q.val[f].items[i]
          BY <4>1, <4>4, <5>1 DEF UnitValue
        <5> QED
          BY <5>2, <5>4, <5>5, <5>6
      <4> QED
        BY <4>3, <4>5
    <3> QED
      BY <3>4, <3>5, <3>6
  <2> QED
    BY <2>7, <2>8, <2>9
<1> QED
  BY <1>2, <1>3, <1>4
-----------------------------------------------------------------------------
(***************************************************************************)
(* The invariant                                                           *)
(***************************************************************************)
\* The plan holds the comparison of every row that was compared, of all rows
\* once the analysis ended, and what is built has choices that were accepted.
PlanInv ==
  /\ SoundInv
  /\ phase = "analyze" => \A r \in RowIds \ todo : RowConflicts(r) \subseteq conflicts
  /\ phase \in {"resolve", "rejected", "build", "done"} \/ output # << >> => Complete
  /\ phase \in {"build", "done"} \/ output # << >> => Accepted(choices)

\* What was written is what the plan and the choices say.
StoredInv == \A k \in DOMAIN output : output[k].row = StoredRow(output[k].id)

\* The count that the end of the build is checked against.
CountInv ==
  /\ audit.rows = Len(output)
  /\ phase = "build" /\ Len(base) <= Len(output) =>
       Len(output) + Cardinality(todo) = Len(base) + Cardinality(Appended)

RowsInv == PlanInv /\ StoredInv /\ CountInv /\ BuildNeverFails

\* The inputs are as they were.
LEMMA SameInputs ==
  ASSUME UNCHANGED <<db, carrier>>
  PROVE  /\ RowIds' = RowIds /\ base' = base /\ Appended' = Appended
         /\ \A r : /\ Holders(r)' = Holders(r) /\ RowConflicts(r)' = RowConflicts(r)
                   /\ DriftGroups(r)' = DriftGroups(r)
<1>1. /\ RowIds' = RowIds /\ base' = base
      /\ \A r : Holders(r)' = Holders(r) /\ \A p : RowOf(p, r)' = RowOf(p, r)
  BY DEF RowIds, base, Holders, RowOf
<1>2. Appended' = Appended
  BY <1>1 DEF Appended
<1>3. ASSUME NEW r
      PROVE  RowConflicts(r)' = RowConflicts(r) /\ DriftGroups(r)' = DriftGroups(r)
  BY <1>1 DEF RowConflicts, DriftGroups, Conflict, InBase, LayoutDiffers, SemDiffers, RawDiffers,
              AppendedSemDiffers, AppendedRawDiffers, Base, FirstHolder, RowOf, Holders
<1> QED
  BY <1>1, <1>2, <1>3

\* So is what the plan and the choices make of a row.
LEMMA SamePlan ==
  ASSUME UNCHANGED <<db, carrier, conflicts, choices>>, NEW r
  PROVE  StoredRow(r)' = StoredRow(r)
<1>1. Holders(r)' = Holders(r) /\ \A p : RowOf(p, r)' = RowOf(p, r)
  BY DEF Holders, RowOf
<1>2. \A group : Indexed(r, group)' = Indexed(r, group) /\ Chosen(r, group)' = Chosen(r, group)
  BY DEF Indexed, Chosen
<1>3. Donor(r)' = Donor(r) /\ InBase(r)' = InBase(r) /\ Base(r)' = Base(r)
  BY <1>1, <1>2 DEF Donor, FirstHolder, InBase, Base, Holders, RowOf, Indexed, Chosen
<1>4. DonorUnits(r)' = DonorUnits(r)
  BY <1>3 DEF DonorUnits, Indexed, Chosen
<1>5. Selections(r)' = Selections(r)
  BY <1>4 DEF Selections, Chosen, RowOf
<1>6. BuiltRow(r)' = BuiltRow(r)
  BY <1>3, <1>4, <1>5 DEF BuiltRow, HasConflict, Indexed, Chosen, RowOf
<1> QED
  BY <1>3, <1>6 DEF StoredRow, RowOf

LEMMA SamePlanKeepsPlanInv ==
  ASSUME PlanInv, UNCHANGED <<db, carrier, conflicts, choices>>,
         phase' = "analyze" => phase = "analyze" /\ todo' = todo,
         phase' \in {"resolve", "rejected", "build", "done"} =>
           phase \in {"resolve", "rejected", "build", "done"},
         phase' \in {"build", "done"} => phase \in {"build", "done"},
         output' # << >> => output # << >> \/ phase = "build"
  PROVE  PlanInv'
<1>1. SoundInv' <=> SoundInv
  BY SameInputs DEF SoundInv, Compared
<1>2. Complete' <=> Complete
  BY SameInputs DEF Complete
<1>3. Accepted(choices)' <=> Accepted(choices)
  BY DEF Accepted
<1>4. phase' = "analyze" => \A r \in RowIds' \ todo' : RowConflicts(r)' \subseteq conflicts'
  BY SameInputs DEF PlanInv
<1> QED
  BY <1>1, <1>2, <1>3, <1>4 DEF PlanInv

\* A row is compared: its records join the plan, with samples of its drifts.
LEMMA AnalyzeRowKeepsRows ==
  ASSUME IInv, RowsInv, NEW r \in todo, AnalyzeRow(r)
  PROVE  RowsInv'
<1>1. UNCHANGED <<db, carrier, choices, output, audit>> /\ phase = "analyze"
  BY DEF AnalyzeRow
<1>2. output = << >> /\ output' = << >> /\ r \in RowIds
  BY <1>1 DEF IInv, OutputInv, TypeOK
<1>3. StoredInv' /\ audit'.rows = Len(output')
  BY <1>1, <1>2 DEF RowsInv, StoredInv, CountInv
<1>4. CASE Fail("MissingField") /\ UNCHANGED <<todo, conflicts>>
  <2>1. PlanInv'
    BY <1>1, <1>2, <1>4, SamePlanKeepsPlanInv DEF RowsInv, Fail
  <2> QED
    BY <1>3, <1>4, <2>1 DEF RowsInv, CountInv, BuildNeverFails, Fail
<1>5. CASE ~(Fail("MissingField") /\ UNCHANGED <<todo, conflicts>>)
  <2>1. PICK S \in SUBSET DriftGroups(r) :
          conflicts' = conflicts \cup RowConflicts(r) \cup
                         {Conflict(r, g, "EncodingDrift", FALSE) : g \in S}
    BY <1>5 DEF AnalyzeRow
  <2>2. todo' = todo \ {r} /\ UNCHANGED <<phase, error>>
    BY <1>5 DEF AnalyzeRow
  <2>3. ASSUME NEW c \in conflicts' PROVE Compared(c)'
    <3>1. c.row \in RowIds /\ c.inputs = Holders(c.row)
          /\ (c \in RowConflicts(c.row) \/
              (c.kind = "EncodingDrift" /\ c.blocking = FALSE /\ c.group \in DriftGroups(c.row)))
      <4>1. CASE c \in conflicts
        BY <4>1 DEF RowsInv, PlanInv, SoundInv, Compared
      <4>2. CASE c \in RowConflicts(r)
        BY <1>2, <4>2, RowConflictFields
      <4>3. CASE c \notin conflicts /\ c \notin RowConflicts(r)
        <5>1. PICK g \in S : c = Conflict(r, g, "EncodingDrift", FALSE)
          BY <2>1, <4>3
        <5> QED
          BY <1>2, <5>1 DEF Conflict
      <4> QED
        BY <4>1, <4>2, <4>3
    <3> QED
      BY <1>1, <3>1, SameInputs DEF Compared
  <2>4. \A x \in RowIds' \ todo' : RowConflicts(x)' \subseteq conflicts'
    <3>1. SUFFICES ASSUME NEW x \in RowIds, x \notin todo' PROVE RowConflicts(x) \subseteq conflicts'
      BY <1>1, SameInputs
    <3>2. CASE x = r
      BY <2>1, <3>2
    <3>3. CASE x \notin todo
      <4>1. RowConflicts(x) \subseteq conflicts
        BY <1>1, <3>1, <3>3 DEF RowsInv, PlanInv
      <4> QED
        BY <2>1, <4>1
    <3> QED
      BY <2>2, <3>1, <3>2, <3>3
  <2>5. PlanInv'
    BY <1>1, <1>2, <2>2, <2>3, <2>4 DEF PlanInv, SoundInv
  <2> QED
    BY <1>1, <1>3, <2>2, <2>5 DEF RowsInv, CountInv, BuildNeverFails
<1> QED
  BY <1>4, <1>5

LEMMA FinishAnalysisKeepsRows == IInv /\ RowsInv /\ FinishAnalysis => RowsInv'
<1> SUFFICES ASSUME IInv, RowsInv, FinishAnalysis PROVE RowsInv'
  OBVIOUS
<1>1. /\ UNCHANGED <<db, carrier, todo, conflicts, choices, output, audit>>
      /\ phase = "analyze" /\ todo = {} /\ phase' \in {"resolve", "failed"}
      /\ UNCHANGED error \/ error' = "SchemaDrift"
  BY DEF FinishAnalysis, Fail
<1>2. output = << >> /\ output' = << >>
  BY <1>1 DEF IInv, OutputInv
<1>3. Complete
  BY <1>1 DEF RowsInv, PlanInv, Complete
<1>4. SoundInv' /\ Complete'
  BY <1>1, <1>3, SameInputs DEF RowsInv, PlanInv, SoundInv, Compared, Complete
<1>5. PlanInv'
  BY <1>1, <1>2, <1>4 DEF PlanInv
<1> QED
  BY <1>1, <1>2, <1>5 DEF RowsInv, StoredInv, CountInv, BuildNeverFails

\* The choices are taken over as they were accepted, before any row is written.
LEMMA StartWriteKeepsRows ==
  ASSUME IInv, RowsInv, NEW ch \in ResolutionSets, StartWrite(ch)
  PROVE  RowsInv'
<1>1. /\ UNCHANGED <<db, carrier, conflicts, output, audit, error>>
      /\ choices' = ch /\ Accepted(ch) /\ phase' = "build" /\ todo' = Appended
      /\ phase \in {"resolve", "rejected"}
  BY DEF StartWrite
<1>2. output = << >> /\ output' = << >> /\ Len(output) = 0
  BY <1>1 DEF IInv, OutputInv
<1>3. SoundInv' /\ Complete'
  BY <1>1, SameInputs DEF RowsInv, PlanInv, SoundInv, Compared, Complete
<1>4. Accepted(choices)'
  BY <1>1 DEF Accepted
<1>5. PlanInv'
  BY <1>1, <1>3, <1>4 DEF PlanInv
<1>6. Len(base) \in Nat
  BY InputFacts DEF IInv, TypeOK, base
<1>7. CountInv'
  BY <1>1, <1>2, <1>6, SameInputs DEF RowsInv, CountInv
<1> QED
  BY <1>1, <1>2, <1>5, <1>7 DEF RowsInv, StoredInv, BuildNeverFails

LEMMA RejectWriteKeepsRows ==
  ASSUME IInv, RowsInv, NEW ch \in ResolutionSets, RejectWrite(ch)
  PROVE  RowsInv'
<1>1. /\ UNCHANGED <<db, carrier, todo, conflicts, choices, output, audit, error>>
      /\ phase = "resolve" /\ phase' = "rejected"
  BY DEF RejectWrite
<1>2. output = << >> /\ output' = << >>
  BY <1>1 DEF IInv, OutputInv
<1>3. PlanInv'
  BY <1>1, SamePlanKeepsPlanInv DEF RowsInv
<1> QED
  BY <1>1, <1>2, <1>3 DEF RowsInv, StoredInv, CountInv, BuildNeverFails

\* While rows are built, the plan and the accepted choices stand.
LEMMA BuildIsPlanned ==
  ASSUME IInv, RowsInv, phase = "build"
  PROVE  Planned
BY DEF IInv, RowsInv, PlanInv, Planned

\* A row is written as the plan has it.
LEMMA WrittenRowIsStored ==
  ASSUME IInv, RowsInv, NEW r, NEW row, row = StoredRow(r), output' = Written(r, row),
         UNCHANGED <<db, carrier, conflicts, choices>>, audit'.rows = audit.rows + 1
  PROVE  StoredInv' /\ audit'.rows = Len(output')
<1>1. /\ Len(output) \in Nat /\ Len(output') = Len(output) + 1
      /\ DOMAIN output = 1..Len(output) /\ DOMAIN output' = 1..Len(output')
      /\ output'[Len(output')] = [id |-> r, row |-> row]
      /\ \A i \in DOMAIN output : output'[i] = output[i]
  BY WrittenFacts DEF IInv, OutputInv
<1>2. ASSUME NEW k \in DOMAIN output'
      PROVE  output'[k].row = StoredRow(output'[k].id)
  <2>1. CASE k \in DOMAIN output
    BY <1>1, <2>1 DEF RowsInv, StoredInv
  <2>2. CASE k \notin DOMAIN output
    <3>1. k = Len(output')
      BY <1>1, <2>2
    <3> QED
      BY <1>1, <3>1
  <2> QED
    BY <2>1, <2>2
<1>3. \A x : StoredRow(x)' = StoredRow(x)
  BY SamePlan
<1>4. StoredInv'
  BY <1>2, <1>3 DEF StoredInv
<1> QED
  BY <1>1, <1>4 DEF RowsInv, CountInv

\* A row of the base Pak is built, and audited, without an error.
LEMMA BuildBaseRowKeepsRows == IInv /\ RowsInv /\ BuildBaseRow => RowsInv'
<1> SUFFICES ASSUME IInv, RowsInv, BuildBaseRow PROVE RowsInv'
  OBVIOUS
<1>1. /\ UNCHANGED <<db, carrier, todo, conflicts, choices>> /\ phase = "build" /\ ~BaseDone
  BY DEF BuildBaseRow
<1>2. PICK r : r = base[Len(output) + 1]
  OBVIOUS
<1>3. /\ OutputIsSequence /\ Len(output) \in Nat /\ Len(base) \in Nat /\ Len(output) < Len(base)
      /\ r \in RowIds /\ InBase(r)
  <2>1. /\ base \in Seq(Int) /\ DOMAIN db[carrier].rows = {base[i] : i \in DOMAIN base}
        /\ carrier \in Providers /\ OutputIsSequence
    BY InputFacts DEF IInv, TypeOK, OutputInv, base
  <2>2. Len(output) \in Nat /\ Len(base) \in Nat /\ Len(output) < Len(base)
    BY <1>1, <2>1 DEF OutputIsSequence, BaseDone, base
  <2>3. r \in DOMAIN db[carrier].rows
    BY <1>2, <2>1, <2>2
  <2> QED
    BY <2>1, <2>2, <2>3 DEF RowIds, InBase, Holders
<1>4. ~BuildFails(r) /\ AuditMatches(r, BuiltRow(r))
  BY <1>1, <1>3, BuildIsPlanned, BuiltRowIsAudited
<1>5. PICK row : row = BuiltRow(r)
  OBVIOUS
<1>6. output' = Written(r, row) /\ audit' = Audited(r) /\ UNCHANGED <<phase, error>>
  BY <1>2, <1>4, <1>5, Zenon DEF BuildBaseRow, base
<1>7. audit'.rows = audit.rows + 1
  BY <1>6 DEF Audited, Counted
<1>8. row = StoredRow(r)
  BY <1>3, <1>5 DEF StoredRow
<1>9. StoredInv' /\ audit'.rows = Len(output')
  BY <1>1, <1>6, <1>7, <1>8, WrittenRowIsStored
<1>10. PlanInv'
  BY <1>1, <1>6, SamePlanKeepsPlanInv DEF RowsInv
<1>11. CountInv'
  <2>1. Len(output') = Len(output) + 1
    BY <1>3, <1>6, WrittenFacts
  <2>2. todo = Appended
    BY <1>1, <1>3 DEF IInv, OutputInv
  <2>3. Cardinality(Appended) \in Nat
    BY RowIdsAreFinite, FS_Subset, FS_CardinalityType DEF IInv, Appended
  <2>4. Len(base) <= Len(output') => Len(output') = Len(base)
    BY <1>3, <2>1
  <2>5. Len(base)' = Len(base) /\ Cardinality(Appended)' = Cardinality(Appended)
        /\ Cardinality(todo)' = Cardinality(Appended)
    BY <1>1, <2>2, SameInputs
  <2> QED
    BY <1>9, <2>4, <2>5 DEF CountInv
<1> QED
  BY <1>6, <1>9, <1>10, <1>11 DEF RowsInv, BuildNeverFails

\* A row that the base Pak lacks has a donor.
LEMMA AppendRowKeepsRows ==
  ASSUME IInv, RowsInv, NEW r \in todo, AppendRow(r)
  PROVE  RowsInv'
<1>1. UNCHANGED <<db, carrier, conflicts, choices>> /\ phase = "build" /\ BaseDone
  BY DEF AppendRow
<1>2. r \in RowIds /\ ~InBase(r) /\ todo \subseteq Appended
  <2>1. r \in Appended /\ todo \subseteq Appended
    BY <1>1 DEF IInv, OutputInv
  <2> QED
    BY <2>1 DEF Appended, InBase, Holders
<1>3. Donor(r) \in Holders(r)
  BY <1>1, <1>2, BuildIsPlanned, DonorFacts
<1>4. PICK row : row = RowOf(Donor(r), r)
  OBVIOUS
<1>5. /\ output' = Written(r, row) /\ audit' = Counted(0, 0, 1)
      /\ todo' = todo \ {r} /\ UNCHANGED <<phase, error>>
  BY <1>3, <1>4 DEF AppendRow
<1>6. audit'.rows = audit.rows + 1
  BY <1>5 DEF Counted
<1>7. row = StoredRow(r)
  BY <1>2, <1>4 DEF StoredRow
<1>8. StoredInv' /\ audit'.rows = Len(output')
  BY <1>1, <1>5, <1>6, <1>7, WrittenRowIsStored
<1>9. PlanInv'
  BY <1>1, <1>5, SamePlanKeepsPlanInv DEF RowsInv
<1>10. CountInv'
  <2>1. Len(output) \in Nat /\ Len(output') = Len(output) + 1
    BY <1>5, WrittenFacts DEF IInv, OutputInv
  <2>2. Len(base) <= Len(output) /\ Len(base) \in Nat
    BY <1>1, <2>1, InputFacts DEF IInv, TypeOK, BaseDone, base
  <2>3. IsFiniteSet(todo)
    BY RowIdsAreFinite, FS_Subset DEF IInv, TypeOK
  <2>4. Cardinality(todo) \in Nat /\ Cardinality(todo') = Cardinality(todo) - 1
    BY <1>5, <2>3, FS_CardinalityType, FS_RemoveElement
  <2>5. Len(output) + Cardinality(todo) = Len(base) + Cardinality(Appended)
    BY <1>1, <2>2 DEF RowsInv, CountInv
  <2>6. Len(output') + Cardinality(todo') = Len(base) + Cardinality(Appended)
    <3>1. PICK a, b \in Nat : a = Len(output) /\ b = Cardinality(todo)
      BY <2>1, <2>4
    <3>2. PICK d : d = Len(base) + Cardinality(Appended)
      OBVIOUS
    <3> QED
      BY <2>1, <2>4, <2>5, <3>1, <3>2
  <2> QED
    BY <1>1, <1>8, <2>6, SameInputs DEF CountInv
<1> QED
  BY <1>5, <1>8, <1>9, <1>10 DEF RowsInv, BuildNeverFails

\* The build ends with as many rows as the inputs hold.
LEMMA FinishBuildKeepsRows == IInv /\ RowsInv /\ FinishBuild => RowsInv'
<1> SUFFICES ASSUME IInv, RowsInv, FinishBuild PROVE RowsInv'
  OBVIOUS
<1>1. /\ UNCHANGED <<db, carrier, todo, conflicts, choices, output, audit>>
      /\ phase = "build" /\ BaseDone /\ todo = {}
  BY DEF FinishBuild
<1>2. audit.rows = Len(base) + Cardinality(Appended)
  <2>1. Len(output) \in Nat /\ Len(base) \in Nat /\ Len(base) <= Len(output)
    BY <1>1, InputFacts DEF IInv, TypeOK, OutputInv, OutputIsSequence, BaseDone, base
  <2>2. Cardinality(todo) = 0
    BY <1>1, FS_EmptySet
  <2> QED
    BY <1>1, <2>1, <2>2 DEF RowsInv, CountInv
<1>3. phase' = "done" /\ UNCHANGED error
  BY <1>2 DEF FinishBuild, base
<1>4. PlanInv'
  BY <1>1, <1>3, SamePlanKeepsPlanInv DEF RowsInv
<1>5. StoredInv'
  BY <1>1, SamePlan DEF RowsInv, StoredInv
<1> QED
  BY <1>1, <1>3, <1>4, <1>5 DEF RowsInv, CountInv, BuildNeverFails

LEMMA CancelKeepsRows == IInv /\ RowsInv /\ Cancel => RowsInv'
<1> SUFFICES ASSUME IInv, RowsInv, Cancel PROVE RowsInv'
  OBVIOUS
<1>1. /\ UNCHANGED <<db, carrier, todo, conflicts, choices, output, audit>>
      /\ phase' = "failed" /\ error' = "Cancelled"
  BY DEF Cancel, Fail
<1>2. PlanInv'
  BY <1>1, SamePlanKeepsPlanInv DEF RowsInv
<1>3. StoredInv'
  BY <1>1, SamePlan DEF RowsInv, StoredInv
<1> QED
  BY <1>1, <1>2, <1>3 DEF RowsInv, CountInv, BuildNeverFails

LEMMA StutterKeepsRows == IInv /\ RowsInv /\ UNCHANGED vars => RowsInv'
<1> SUFFICES ASSUME IInv, RowsInv, UNCHANGED vars PROVE RowsInv'
  OBVIOUS
<1>1. UNCHANGED <<db, carrier, todo, conflicts, choices, output, audit, phase, error>>
  BY DEF vars
<1>2. PlanInv'
  BY <1>1, SamePlanKeepsPlanInv DEF RowsInv
<1>3. StoredInv'
  BY <1>1, SamePlan DEF RowsInv, StoredInv
<1>4. CountInv'
  BY <1>1, SameInputs DEF RowsInv, CountInv
<1> QED
  BY <1>1, <1>2, <1>3, <1>4 DEF RowsInv, BuildNeverFails

LEMMA InitRows == Init => RowsInv
BY DEF Init, RowsInv, PlanInv, SoundInv, StoredInv, CountInv, BuildNeverFails, NoAudit, NoError

LEMMA NextKeepsRows == IInv /\ RowsInv /\ [Next]_vars => RowsInv'
BY AnalyzeRowKeepsRows, FinishAnalysisKeepsRows, StartWriteKeepsRows, RejectWriteKeepsRows,
   BuildBaseRowKeepsRows, AppendRowKeepsRows, FinishBuildKeepsRows, CancelKeepsRows,
   StutterKeepsRows
DEF Next

LEMMA RowsInvariance == Spec => [](IInv /\ RowsInv)
<1>1. Init => IInv /\ RowsInv
  BY InitIInv, InitRows
<1>2. (IInv /\ RowsInv) /\ [Next]_vars => (IInv /\ RowsInv)'
  BY NextKeepsIInv, NextKeepsRows
<1> QED
  BY <1>1, <1>2, PTL DEF Spec

\* A written row is of the plan, and of a row id of the inputs.
LEMMA WrittenIsPlanned ==
  ASSUME IInv, RowsInv, NEW k \in DOMAIN output
  PROVE  Planned /\ output[k].id \in RowIds /\ output[k].row = StoredRow(output[k].id)
<1>1. output # << >>
  OBVIOUS
<1> QED
  BY <1>1 DEF IInv, TypeOK, RowsInv, PlanInv, StoredInv, Planned
-----------------------------------------------------------------------------
(***************************************************************************)
(* Theorems                                                                *)
(***************************************************************************)
\* No value of any input is overridden unless the user chose: a difference that
\* analyze_database_group saw is asked about and not lost before the build.
THEOREM NothingIsLostUnasked == Spec => []OverriddenOnlyByChoice
<1>1. IInv /\ RowsInv => OverriddenOnlyByChoice
  <2> SUFFICES ASSUME IInv, RowsInv, NEW k \in DOMAIN output, NEW r, r = output[k].id,
                      NEW p \in Holders(r), NEW f \in DOMAIN RowOf(p, r).val,
                      NEW i \in 0..ArrayLen(RowOf(p, r), f),
                      DiffersAt(output[k].row, RowOf(p, r), f, i)
               PROVE  \E key \in DOMAIN choices : Covers(key, r, f, i)
    BY DEF OverriddenOnlyByChoice
  <2>1. Planned /\ r \in RowIds /\ DiffersAt(StoredRow(r), RowOf(p, r), f, i)
    BY WrittenIsPlanned
  <2> QED
    BY <2>1, DifferenceIsChosen
<1> QED
  BY <1>1, RowsInvariance, PTL

\* Every choice is carried out to the byte, whatever other choices splice into
\* the same row.
THEOREM ChoicesAreStored == Spec => []ChosenBytesStored
<1>1. IInv /\ RowsInv => ChosenBytesStored
  <2> SUFFICES ASSUME IInv, RowsInv, NEW k \in DOMAIN output, NEW key \in DOMAIN choices,
                      key.row = output[k].id
               PROVE  IF key.group \in {WholeRow, AppendedRow}
                      THEN output[k].row = RowOf(choices[key], output[k].id)
                      ELSE \E u \in Units(Base(output[k].id)) :
                             /\ u.id = key.group
                             /\ UnitValue(output[k].row, u) =
                                  UnitValue(RowOf(choices[key], output[k].id), u)
    BY DEF ChosenBytesStored
  <2>1. Planned /\ output[k].row = StoredRow(output[k].id)
    BY WrittenIsPlanned
  <2> QED
    BY <2>1, ChoiceIsStored
<1> QED
  BY <1>1, RowsInvariance, PTL

\* What nobody chose stays the base Pak's bytes.
THEOREM RestOfRowIsKept == Spec => []BaseBytesKept
<1>1. IInv /\ RowsInv => BaseBytesKept
  <2> SUFFICES ASSUME IInv, RowsInv, NEW k \in DOMAIN output, NEW r, r = output[k].id,
                      NEW row, row = output[k].row, InBase(r), Chosen(r, WholeRow) = 0
               PROVE  /\ row.order = Base(r).order /\ row.idraw = Base(r).idraw
                      /\ \A u \in Units(Base(r)) :
                           /\ Chosen(r, u.id) \in {0, carrier} =>
                                UnitValue(row, u) = UnitValue(Base(r), u)
                           /\ u.index # 0 => \A f \in u.fields :
                                row.val[f].head = Base(r).val[f].head
    BY DEF BaseBytesKept
  <2>1. Planned /\ r \in RowIds /\ row = StoredRow(r)
    BY WrittenIsPlanned
  <2> QED
    BY <2>1, BaseStays
<1> QED
  BY <1>1, RowsInvariance, PTL

\* Linked fields move together: those of a group come from one input, or at
\* each index of parallel arrays.
THEOREM GroupsAreNotTornApart == Spec => []LinkedFieldsTogether
<1>1. ASSUME IInv, RowsInv PROVE LinkedFieldsTogether
  <2>1. ASSUME NEW k \in DOMAIN output, NEW g \in Groups
        PROVE  \/ \E p \in Holders(output[k].id) : \A f \in Present(g, output[k].row) :
                    /\ f \in DOMAIN RowOf(p, output[k].id).val
                    /\ output[k].row.val[f] = RowOf(p, output[k].id).val[f]
               \/ /\ IsParallel(g, output[k].row)
                  /\ \A i \in 1..ParallelLen(g, output[k].row) :
                       \E p \in Holders(output[k].id) : \A f \in Present(g, output[k].row) :
                         /\ f \in DOMAIN RowOf(p, output[k].id).val
                         /\ i \in DOMAIN RowOf(p, output[k].id).val[f].items
                         /\ output[k].row.val[f].items[i] = RowOf(p, output[k].id).val[f].items[i]
    <3>1. PICK r \in RowIds : r = output[k].id
      BY <1>1, WrittenIsPlanned
    <3>2. PICK row : row = output[k].row
      OBVIOUS
    <3>3. Planned /\ row = StoredRow(r)
      BY <1>1, <3>1, <3>2, WrittenIsPlanned
    <3> QED
      BY <3>1, <3>2, <3>3, LinkedFields
  <2> QED
    BY <2>1, Zenon DEF LinkedFieldsTogether
<1> QED
  BY <1>1, RowsInvariance, PTL

\* Accepted choices build: neither the checks of build_merged_database nor those
\* of record_streamed_row and its row count fail on a plan of the analysis.
THEOREM AcceptedPlansBuild == Spec => []BuildNeverFails
<1>1. IInv /\ RowsInv => BuildNeverFails
  BY DEF RowsInv
<1> QED
  BY <1>1, RowsInvariance, PTL
=============================================================================
