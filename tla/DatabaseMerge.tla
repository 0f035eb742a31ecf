--------------------------- MODULE DatabaseMerge ---------------------------
(***************************************************************************)
(* The merge of one m_DataList database held by several input Paks: the    *)
(* comparison of every row against the base ("carrier") Pak, the conflicts *)
(* it records, the choices of the user, the rebuilt list of rows and the   *)
(* audit that recomputes each unit of each stored row while it is built.   *)
(*                                                                         *)
(* Each row is one action, as the code looks at the cancellation token     *)
(* between rows.                                                           *)
(***************************************************************************)
EXTENDS AtomicUnits

CONSTANTS
  N,                \* number of input Paks that hold this database
  Databases,        \* the databases an input Pak may hold
  MaxDriftSamples   \* MAX_ENCODING_DRIFT_SAMPLES_PER_ASSET

Providers == 1..N

ASSUME MergeAssumption ==
  /\ N \in Nat \ {0}
  /\ MaxDriftSamples \in Nat
  /\ \A d \in Databases :
       /\ d.order \in Seq(Int)
       /\ \A i, j \in DOMAIN d.order : d.order[i] = d.order[j] => i = j
       /\ DOMAIN d.rows = {d.order[i] : i \in DOMAIN d.order}
       /\ \A r \in DOMAIN d.rows : IsRow(d.rows[r])

WholeRow == <<"row", "__whole_row__", 0>>   \* reserved group ids
AppendedRow == <<"row", "$row", 0>>
UnknownConflict == [row |-> 0, group |-> <<"unknown", "", 0>>]

VARIABLES
  db,         \* the database of each provider
  carrier,    \* the provider of the base Pak
  phase,      \* where the merge stands
  todo,       \* rows left to compare, then rows left to append
  conflicts,  \* the conflict records of the plan
  drift,      \* encoding_drift_count of the asset plan
  choices,    \* the ResolutionSet: conflict key -> selected provider
  output,     \* the rows written to the merged list, in order
  audit,      \* RawAuditAccumulator without its digest
  error       \* why the call failed

vars == <<db, carrier, phase, todo, conflicts, drift, choices, output, audit, error>>

NoError == "none"
Fail(e) == phase' = "failed" /\ error' = e

Holders(r) == {p \in Providers : r \in DOMAIN db[p].rows}
RowIds == UNION {DOMAIN db[p].rows : p \in Providers}
RowOf(p, r) == db[p].rows[r]
Base(r) == RowOf(carrier, r)
InBase(r) == carrier \in Holders(r)

Lowest(S) == CHOOSE x \in S : \A y \in S : x <= y
FirstHolder(r) == Lowest(Holders(r))
\* Mutant: the first provider is taken for the base Pak.
AppendedToFirst == RowIds \ DOMAIN db[1].rows
Appended == RowIds \ DOMAIN db[carrier].rows

Key(c) == [row |-> c.row, group |-> c.group]
Conflict(r, group, kind, blocking) ==
  [row |-> r, group |-> group, kind |-> kind, blocking |-> blocking,
   inputs |-> Holders(r)]
-----------------------------------------------------------------------------
(***************************************************************************)
(* Analysis                                                                *)
(***************************************************************************)
\* A provider's row whose field order or unit plan differs from the base row
\* can only be taken whole.
LayoutDiffers(r) == \E p \in Holders(r) : ~SameLayout(Base(r), RowOf(p, r))

\* Mutant: every provider overwrites the verdict of the one before it.
SemDiffersLast(r, u) ==
  UnitSem(RowOf(CHOOSE p \in Holders(r) : \A q \in Holders(r) : q <= p, r), u)
    # UnitSem(Base(r), u)

SemDiffers(r, u) == \E p \in Holders(r) : UnitSem(RowOf(p, r), u) # UnitSem(Base(r), u)
RawDiffers(r, u) == \E p \in Holders(r) : UnitRaw(RowOf(p, r), u) # UnitRaw(Base(r), u)

\* Mutant: rows are compared by their bytes.
AppendedBytesDiffer(r) ==
  \E p \in Holders(r) : RowOf(p, r) # RowOf(FirstHolder(r), r)
AppendedSemDiffers(r) ==
  \E p \in Holders(r) : RowSem(RowOf(p, r)) # RowSem(RowOf(FirstHolder(r), r))
AppendedRawDiffers(r) ==
  \E p \in Holders(r) : RowOf(p, r) # RowOf(FirstHolder(r), r)

UnitKind(u) == IF u.compound \/ Cardinality(u.fields) > 1
               THEN "AtomicGroup" ELSE "FieldValue"

\* The blocking conflicts of a row.
RowConflicts(r) ==
  IF InBase(r)
  THEN IF LayoutDiffers(r)
       THEN {Conflict(r, WholeRow, "StructureMismatch", TRUE)}
       ELSE {Conflict(r, u.id, UnitKind(u), TRUE) :
               u \in {v \in Units(Base(r)) : SemDiffers(r, v)}}
  ELSE IF AppendedSemDiffers(r)
       THEN {Conflict(r, AppendedRow, "RowIdCollision", TRUE)}
       ELSE {}

\* The groups of a row whose meaning agrees while their bytes differ.
DriftGroups(r) ==
  IF InBase(r)
  THEN IF LayoutDiffers(r) THEN {}
       ELSE {u.id : u \in {v \in Units(Base(r)) :
                             ~SemDiffers(r, v) /\ RawDiffers(r, v)}}
  ELSE IF ~AppendedSemDiffers(r) /\ AppendedRawDiffers(r)
       THEN {AppendedRow} ELSE {}

Samples == Cardinality({c \in conflicts : c.kind = "EncodingDrift"})
Least(a, b) == IF a <= b THEN a ELSE b

\* Only the first MaxDriftSamples drifts get a record, whatever their unit.
AnalyzeRow(r) ==
  /\ phase = "analyze"
  /\ todo # {} /\ r = Lowest(todo)
  /\ IF \E p \in Holders(r) : PartialGroup(RowOf(p, r))
     THEN /\ Fail("MissingField")
          /\ UNCHANGED <<todo, conflicts, drift>>
     ELSE /\ todo' = todo \ {r}
          /\ drift' = drift + Cardinality(DriftGroups(r))
          /\ \E S \in SUBSET DriftGroups(r) :
               /\ Cardinality(S) = Least(MaxDriftSamples - Samples,
                                         Cardinality(DriftGroups(r)))
               /\ conflicts' = conflicts \cup RowConflicts(r) \cup
                    {Conflict(r, g, "EncodingDrift", FALSE) : g \in S}
          /\ UNCHANGED <<phase, error>>
  /\ UNCHANGED <<db, carrier, choices, output, audit>>

\* validate_complete_profile_observation: a strict profile wants to have seen
\* every one of its groups complete in some row.
FullyObserved ==
  Strict => \A g \in Groups : \E p \in Providers : \E r \in DOMAIN db[p].rows :
              Present(g, RowOf(p, r)) = g.fields

FinishAnalysis ==
  /\ phase = "analyze" /\ todo = {}
  /\ IF FullyObserved THEN phase' = "resolve" /\ UNCHANGED error
                      ELSE Fail("SchemaDrift")
  /\ UNCHANGED <<db, carrier, todo, conflicts, drift, choices, output, audit>>
-----------------------------------------------------------------------------
(***************************************************************************)
(* Resolution: validate_resolutions on a set of choices                    *)
(***************************************************************************)
Informational == {"EncodingDrift", "PotentialPlacementCollision"}

\* Mutants: unknown conflict ids pass; unresolved conflicts pass.
AcceptedUnknown(ch) == \A c \in conflicts : c.blocking => Key(c) \in DOMAIN ch
AcceptedUnresolved(ch) ==
  \A k \in DOMAIN ch : \E c \in conflicts :
     Key(c) = k /\ c.kind \notin Informational /\ ch[k] \in c.inputs

Accepted(ch) ==
  /\ \A k \in DOMAIN ch : \E c \in conflicts :
       Key(c) = k /\ c.kind \notin Informational /\ ch[k] \in c.inputs
  /\ \A c \in conflicts : c.blocking => Key(c) \in DOMAIN ch

\* The sets of choices a caller may pass: any selection for any recorded
\* conflict, or for one that the plan does not hold.
ResolutionSets ==
  UNION {[K -> Providers] : K \in SUBSET ({Key(c) : c \in conflicts} \cup {UnknownConflict})}

NoAudit == [rows |-> 0, units |-> 0, preserved |-> 0, replaced |-> 0]

StartWrite(ch) ==
  /\ phase \in {"resolve", "rejected"}
  /\ Accepted(ch)
  /\ choices' = ch
  /\ phase' = "build"
  /\ todo' = Appended
  /\ UNCHANGED <<db, carrier, conflicts, drift, output, audit, error>>

RejectWrite(ch) ==
  /\ phase = "resolve"
  /\ ~Accepted(ch)
  /\ phase' = "rejected"
  /\ UNCHANGED <<db, carrier, todo, conflicts, drift, choices, output, audit, error>>
-----------------------------------------------------------------------------
(***************************************************************************)
(* Build                                                                   *)
(***************************************************************************)
\* indexed_conflict of the asset's conflict index
Indexed(r, group) == {c \in conflicts : c.row = r /\ c.group = group}
HasConflict(r, group) == Indexed(r, group) # {}

\* Mutant: a choice selects the first input that holds the row.
ChosenFirst(r, group) ==
  IF [row |-> r, group |-> group] \in DOMAIN choices THEN FirstHolder(r) ELSE 0

\* selected_input_id; 0 stands for its error when no choice is recorded
Chosen(r, group) ==
  IF [row |-> r, group |-> group] \in DOMAIN choices
  THEN choices[[row |-> r, group |-> group]] ELSE 0

\* The units of a base row that another input was chosen for.
DonorUnits(r) ==
  {u \in Units(Base(r)) :
     \E c \in Indexed(r, u.id) :
       /\ ~(~c.blocking /\ c.kind = "EncodingDrift")
       /\ Chosen(r, u.id) # carrier}

Selections(r) ==
  {[unit |-> u, row |-> RowOf(Chosen(r, u.id), r)] : u \in DonorUnits(r)}

BuildFails(r) ==
  IF HasConflict(r, WholeRow)
  THEN Chosen(r, WholeRow) \notin Holders(r)
  ELSE \/ \E u \in DonorUnits(r) : Chosen(r, u.id) \notin Holders(r)
       \/ SpliceFails(Base(r), Selections(r))

BuiltRow(r) ==
  IF HasConflict(r, WholeRow) THEN RowOf(Chosen(r, WholeRow), r)
  ELSE IF DonorUnits(r) = {} THEN Base(r)
  ELSE Spliced(Base(r), Selections(r))

\* The donor of a row that the base Pak does not hold.
Donor(r) ==
  IF \E c \in Indexed(r, AppendedRow) : c.blocking
  THEN Chosen(r, AppendedRow)
  ELSE FirstHolder(r)

\* expected_atomic_audit_digest: the source of a unit by its conflict record.
AuditSource(r, u) ==
  IF \E c \in Indexed(r, u.id) : c.kind # "EncodingDrift"
  THEN Chosen(r, u.id) ELSE carrier

AuditMatches(r, row) ==
  HasConflict(r, WholeRow) \/
  \A u \in Units(Base(r)) :
    /\ Selectable(row, u)
    /\ UnitValue(row, u) = UnitValue(RowOf(AuditSource(r, u), r), u)

\* Mutant: donor and carrier units are counted the wrong way round.
ReplacedSwapped(r) == {u \in Units(Base(r)) : AuditSource(r, u) = carrier}
Replaced(r) == {u \in Units(Base(r)) : AuditSource(r, u) # carrier}

Counted(units, preserved, replaced) ==
  [rows      |-> audit.rows + 1,
   units     |-> audit.units + units,
   preserved |-> audit.preserved + preserved,
   replaced  |-> audit.replaced + replaced]

\* record_streamed_row for a row of the base Pak
Audited(r) ==
  IF HasConflict(r, WholeRow)
  THEN IF Chosen(r, WholeRow) = carrier THEN Counted(0, 1, 0) ELSE Counted(0, 0, 1)
  ELSE IF Units(Base(r)) = {} THEN Counted(0, 1, 0)
  ELSE Counted(Cardinality(Units(Base(r))),
               Cardinality(Units(Base(r)) \ Replaced(r)),
               Cardinality(Replaced(r)))

Written(r, row) == Append(output, [id |-> r, row |-> row])
BaseDone == Len(output) >= Len(db[carrier].order)

BuildBaseRow ==
  /\ phase = "build" /\ ~BaseDone
  /\ LET r == db[carrier].order[Len(output) + 1] IN
       IF BuildFails(r)
       THEN Fail("InvalidPlan") /\ UNCHANGED <<output, audit>>
       ELSE IF ~AuditMatches(r, BuiltRow(r))
       THEN Fail("Verification") /\ UNCHANGED <<output, audit>>
       ELSE /\ output' = Written(r, BuiltRow(r))
            /\ audit' = Audited(r)
            /\ UNCHANGED <<phase, error>>
  /\ UNCHANGED <<db, carrier, todo, conflicts, drift, choices>>

AppendRow(r) ==
  /\ phase = "build" /\ BaseDone
  /\ todo # {} /\ r = Lowest(todo)
  /\ IF Donor(r) \notin Holders(r)
     THEN Fail("InvalidPlan") /\ UNCHANGED <<todo, output, audit>>
     ELSE /\ output' = Written(r, RowOf(Donor(r), r))
          /\ audit' = Counted(0, 0, 1)
          /\ todo' = todo \ {r}
          /\ UNCHANGED <<phase, error>>
  /\ UNCHANGED <<db, carrier, conflicts, drift, choices>>

FinishBuild ==
  /\ phase = "build" /\ BaseDone /\ todo = {}
  /\ IF audit.rows = Len(db[carrier].order) + Cardinality(Appended)
     THEN phase' = "done" /\ UNCHANGED error
     ELSE Fail("Verification")
  /\ UNCHANGED <<db, carrier, todo, conflicts, drift, choices, output, audit>>

\* check_cancel between two rows
Cancel ==
  /\ phase \in {"analyze", "build"}
  /\ Fail("Cancelled")
  /\ UNCHANGED <<db, carrier, todo, conflicts, drift, choices, output, audit>>
-----------------------------------------------------------------------------
Init ==
  /\ db \in [Providers -> Databases]
  /\ carrier \in Providers
  /\ phase = "analyze"
  /\ todo = RowIds
  /\ conflicts = {}
  /\ drift = 0
  /\ choices = << >>
  /\ output = << >>
  /\ audit = NoAudit
  /\ error = NoError

Next ==
  \/ \E r \in todo : AnalyzeRow(r)
  \/ FinishAnalysis
  \/ \E ch \in ResolutionSets : StartWrite(ch)
  \/ \E ch \in ResolutionSets : RejectWrite(ch)
  \/ BuildBaseRow
  \/ \E r \in todo : AppendRow(r)
  \/ FinishBuild
  \/ Cancel

Spec == Init /\ [][Next]_vars
-----------------------------------------------------------------------------
(***************************************************************************)
(* Properties                                                              *)
(***************************************************************************)
Phases == {"analyze", "resolve", "rejected", "build", "done", "failed"}
Errors == {NoError, "MissingField", "SchemaDrift", "InvalidPlan",
           "Verification", "Cancelled"}

\* Type invariant of the merge of one database.
TypeOK ==
  /\ db \in [Providers -> Databases]
  /\ carrier \in Providers
  /\ phase \in Phases
  /\ todo \in SUBSET RowIds
  /\ \A c \in conflicts : /\ c.row \in RowIds
                         /\ c.blocking \in BOOLEAN
                         /\ c.inputs \in SUBSET Providers
  /\ drift \in Nat
  /\ \A k \in DOMAIN choices : /\ choices[k] \in Providers
                              /\ \E c \in conflicts : Key(c) = k
  /\ \A i \in DOMAIN output : output[i].id \in RowIds
  /\ error \in Errors

\* A place of a row: item i of the array f, or the complete field when i = 0.
DiffersAt(out, row, f, i) ==
  IF /\ f \in DOMAIN out.val
     /\ row.val[f].kind = "array" /\ out.val[f].kind = "array"
     /\ ArrayLen(row, f) = ArrayLen(out, f)
  THEN /\ i \in 1..ArrayLen(row, f)
       /\ Sem[row.val[f].items[i]] # Sem[out.val[f].items[i]]
  ELSE /\ i = 0
       /\ f \in DOMAIN out.val => NodeSem(row.val[f]) # NodeSem(out.val[f])

Covers(key, r, f, i) ==
  /\ key.row = r
  /\ \/ key.group \in {WholeRow, AppendedRow}
     \/ \E u \in Units(Base(r)) :
          u.id = key.group /\ f \in u.fields /\ u.index \in {0, i}

\* No value of any input is overridden unless the user chose: where a stored
\* row means something else than an input's row does, a recorded choice covers
\* the place.  Differences found by analyze_database_group must not be lost on
\* the way to build_merged_database.
OverriddenOnlyByChoice ==
  \A k \in DOMAIN output :
    LET r == output[k].id IN
    \A p \in Holders(r) : \A f \in DOMAIN RowOf(p, r).val :
      \A i \in 0..ArrayLen(RowOf(p, r), f) :
        DiffersAt(output[k].row, RowOf(p, r), f, i) =>
          \E key \in DOMAIN choices : Covers(key, r, f, i)

\* Every choice is carried out to the byte: the chosen unit, or row, is stored
\* exactly as the chosen input holds it, whatever other choices touch the same
\* field (two items of one array may come from two inputs).
ChosenBytesStored ==
  \A k \in DOMAIN output : \A key \in DOMAIN choices :
    LET r == output[k].id IN
    key.row = r =>
      IF key.group \in {WholeRow, AppendedRow}
      THEN output[k].row = RowOf(choices[key], r)
      ELSE \E u \in Units(Base(r)) :
             /\ u.id = key.group
             /\ UnitValue(output[k].row, u) = UnitValue(RowOf(choices[key], r), u)

\* What nobody chose stays the base Pak's bytes: field order, m_id, every unit
\* without a choice and the header of every array that is only spliced into.
BaseBytesKept ==
  \A k \in DOMAIN output :
    LET r == output[k].id
        row == output[k].row
        Kept(u) == Chosen(r, u.id) \in {0, carrier}
    IN InBase(r) /\ Chosen(r, WholeRow) = 0 =>
         /\ row.order = Base(r).order /\ row.idraw = Base(r).idraw
         /\ \A u \in Units(Base(r)) :
              /\ Kept(u) => UnitValue(row, u) = UnitValue(Base(r), u)
              /\ u.index # 0 => \A f \in u.fields :
                   row.val[f].head = Base(r).val[f].head

\* Linked fields move together: in every stored row the fields of a profile
\* group are one input's, or, for parallel arrays, each index is one input's.
LinkedFieldsTogether ==
  \A k \in DOMAIN output : \A g \in Groups :
    LET r == output[k].id
        row == output[k].row
        Same(p, f) == /\ f \in DOMAIN RowOf(p, r).val
                      /\ row.val[f] = RowOf(p, r).val[f]
        SameAt(p, f, i) == /\ f \in DOMAIN RowOf(p, r).val
                           /\ i \in DOMAIN RowOf(p, r).val[f].items
                           /\ row.val[f].items[i] = RowOf(p, r).val[f].items[i]
    IN \/ \E p \in Holders(r) : \A f \in Present(g, row) : Same(p, f)
       \/ /\ IsParallel(g, row)
          /\ \A i \in 1..ParallelLen(g, row) :
               \E p \in Holders(r) : \A f \in Present(g, row) : SameAt(p, f, i)

\* The merged list is the union of the inputs' rows: the base Pak's rows in its
\* order, then every other row once, by ascending id.
EveryRowOnce ==
  LET base == db[carrier].order IN
  /\ \A i \in DOMAIN output : i <= Len(base) => output[i].id = base[i]
  /\ \A i, j \in DOMAIN output :
       Len(base) < i /\ i < j => output[i].id < output[j].id
  /\ \A i \in DOMAIN output : Len(base) < i => output[i].id \notin DOMAIN db[carrier].rows
  /\ phase = "done" => {output[i].id : i \in DOMAIN output} = RowIds

\* Once a set of choices is accepted, neither the build nor its audit fails:
\* the checks of build_merged_database and record_streamed_row are no dead end
\* for a plan that the analysis produced.
BuildNeverFails == error \notin {"InvalidPlan", "Verification"}

\* The user is asked only where two inputs really disagree.
BlockingMeansDisagreement ==
  \A c \in conflicts : c.blocking =>
    \E p, q \in c.inputs : RowSem(RowOf(p, c.row)) # RowSem(RowOf(q, c.row))

\* The audit of the report never hides a change: it counts at least one replaced
\* node for every stored row that is not the base Pak's row to the byte.
ReportCountsReplacements ==
  audit.replaced >= Cardinality({k \in DOMAIN output :
    LET r == output[k].id IN ~InBase(r) \/ output[k].row # Base(r)})
=============================================================================
