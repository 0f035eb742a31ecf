---------------------------- MODULE AtomicUnits ----------------------------
(***************************************************************************)
(* The row algebra of a database merge: how a row of an m_DataList asset   *)
(* is cut into atomic units, how two rows are compared unit by unit, and   *)
(* how units of donor rows are spliced into the carrier's row.             *)
(*                                                                         *)
(* A MessagePack value is abstracted to what the comparison sees.  A raw   *)
(* token stands for the bytes of one node; Sem maps it to the value those  *)
(* bytes mean, so two tokens with one meaning are an "encoding drift".     *)
(* The m_id field, which no unit may hold, is the component idraw.         *)
(***************************************************************************)
EXTENDS Integers, Sequences, FiniteSets

CONSTANTS
  Field,      \* field names of a row, other than m_id
  Raw,        \* raw tokens: the bytes of a scalar, a map or an array header
  Sem,        \* the meaning of each raw token
  Groups,     \* the atomic groups of the asset's profile
  Strict      \* TRUE when the profile's precision is audited or declared

(***************************************************************************)
(* validate_game_profile: the field lists of a profile's groups are not    *)
(* empty, and no field belongs to two of them.                             *)
(***************************************************************************)
ASSUME ProfileAssumption ==
  /\ IsFiniteSet(Groups)
  /\ \A g \in Groups : /\ g.fields \in (SUBSET Field) \ {{}}
                       /\ g.coupled \in BOOLEAN
                       /\ g.force \in BOOLEAN
  /\ \A g, h \in Groups : g # h => /\ g.id # h.id
                                   /\ g.fields \cap h.fields = {}
  /\ Strict \in BOOLEAN
  /\ DOMAIN Sem = Raw

Node == [kind : {"scalar", "map", "array"}, head : Raw, items : Seq(Raw)]

\* An indexed row: field order, bytes of m_id, value node of every field.
IsRow(row) ==
  /\ row = [order |-> row.order, idraw |-> row.idraw, val |-> row.val]
  /\ row.order \in Seq(Field)
  /\ row.idraw \in Raw
  /\ DOMAIN row.val \in SUBSET Field
  /\ \A f \in DOMAIN row.val :
       /\ row.val[f] \in Node
       /\ row.val[f].kind # "array" => row.val[f].items = << >>
  /\ DOMAIN row.val = {row.order[i] : i \in DOMAIN row.order}
-----------------------------------------------------------------------------
(***************************************************************************)
(* Planning: atomic_units_for_fields.                                      *)
(***************************************************************************)
Present(g, row) == g.fields \cap DOMAIN row.val

\* A strict profile refuses a row that holds only some fields of a group.
PartialGroup(row) ==
  /\ Strict
  /\ \E g \in Groups : Present(g, row) \notin {{}, g.fields}

ArrayLen(row, f) == Len(row.val[f].items)

\* The fields of an index-coupled group are arrays of one non-zero length.
IsParallel(g, row) ==
  /\ g.coupled
  /\ \A f \in Present(g, row) : /\ row.val[f].kind = "array"
                                /\ ArrayLen(row, f) > 0
  /\ \A f, h \in Present(g, row) : ArrayLen(row, f) = ArrayLen(row, h)

ParallelLen(g, row) == ArrayLen(row, CHOOSE f \in Present(g, row) : TRUE)

\* Mutant: every field of a group is a unit of its own.
GroupUnitsApart(g, row) ==
  {[id |-> <<"field", f, 0>>, fields |-> {f}, compound |-> FALSE,
    index |-> 0, len |-> 0] : f \in Present(g, row)}

\* index 0 stands for array_index = None: the unit holds complete fields.
GroupUnits(g, row) ==
  IF Present(g, row) = {} THEN {}
  ELSE IF IsParallel(g, row)
  THEN {[id |-> <<"group", g.id, i>>, fields |-> Present(g, row),
         compound |-> TRUE, index |-> i, len |-> ParallelLen(g, row)]
          : i \in 1..ParallelLen(g, row)}
  ELSE {[id |-> <<"group", g.id, 0>>, fields |-> Present(g, row),
         compound |-> \/ g.force
                      \/ \E f \in Present(g, row) : row.val[f].kind # "scalar",
         index |-> 0, len |-> 0]}

Grouped == UNION {g.fields : g \in Groups}

FieldUnits(row) ==
  {[id |-> <<"field", f, 0>>, fields |-> {f},
    compound |-> row.val[f].kind # "scalar", index |-> 0, len |-> 0]
     : f \in (DOMAIN row.val) \ Grouped}

Units(row) == (UNION {GroupUnits(g, row) : g \in Groups}) \cup FieldUnits(row)
-----------------------------------------------------------------------------
(***************************************************************************)
(* Comparison: atomic_group_hashes.  The meaning of an array leaves out    *)
(* the bytes of its header; the raw identity of an indexed unit keeps the  *)
(* header of the parent array.                                             *)
(***************************************************************************)
NodeSem(node) ==
  IF node.kind = "array"
  THEN <<"array", [i \in DOMAIN node.items |-> Sem[node.items[i]]]>>
  ELSE <<node.kind, Sem[node.head]>>

UnitSem(row, u) ==
  [f \in u.fields |-> IF u.index = 0 THEN NodeSem(row.val[f])
                                     ELSE Sem[row.val[f].items[u.index]]]

\* atomic_group_value: the bytes a unit selects, which a splice copies and
\* the stored-data audit digests.
UnitValue(row, u) ==
  [f \in u.fields |-> IF u.index = 0 THEN row.val[f]
                                     ELSE row.val[f].items[u.index]]

UnitRaw(row, u) ==
  [f \in u.fields |-> IF u.index = 0
                      THEN <<row.val[f].head, row.val[f].items>>
                      ELSE <<row.val[f].head, <<row.val[f].items[u.index]>> >>]

RowSem(row) ==
  <<row.order, [f \in DOMAIN row.val |-> NodeSem(row.val[f])]>>

SameLayout(row, other) == row.order = other.order /\ Units(row) = Units(other)
-----------------------------------------------------------------------------
(***************************************************************************)
(* Splicing: merge_row_atomic_node_refs.  A selection is the pair of a     *)
(* unit and the donor row that its bytes are copied from.                  *)
(***************************************************************************)
WholeSelections(sel, f) == {s \in sel : s.unit.index = 0 /\ f \in s.unit.fields}

ItemSelections(sel, f, i) == {s \in sel : s.unit.index = i /\ f \in s.unit.fields}

\* atomic_group_value of the donor: an indexed unit needs its audited length.
Selectable(row, u) ==
  \A f \in u.fields :
    /\ f \in DOMAIN row.val
    /\ u.index # 0 => row.val[f].kind = "array" /\ ArrayLen(row, f) = u.len

OverlappingSelection(sel) ==
  \E s, t \in sel : /\ s # t
                    /\ s.unit.fields \cap t.unit.fields # {}
                    /\ \/ s.unit.index = t.unit.index
                       \/ s.unit.index = 0
                       \/ t.unit.index = 0

SpliceFails(carrier, sel) ==
  \/ \E s \in sel : ~Selectable(s.row, s.unit) \/ ~Selectable(carrier, s.unit)
  \/ OverlappingSelection(sel)

SplicedItem(carrier, sel, f, i) ==
  IF ItemSelections(sel, f, i) = {} THEN carrier.val[f].items[i]
  ELSE (CHOOSE s \in ItemSelections(sel, f, i) : TRUE).row.val[f].items[i]

\* Mutant: a spliced array takes the header of a donor.
SplicedNodeDonorHead(carrier, sel, f) ==
  IF WholeSelections(sel, f) # {}
  THEN (CHOOSE s \in WholeSelections(sel, f) : TRUE).row.val[f]
  ELSE [kind  |-> carrier.val[f].kind,
        head  |-> LET S == {s \in sel : f \in s.unit.fields}
                  IN IF S = {} THEN carrier.val[f].head
                     ELSE (CHOOSE s \in S : TRUE).row.val[f].head,
        items |-> [i \in 1..Len(carrier.val[f].items) |->
                     SplicedItem(carrier, sel, f, i)]]

SplicedNode(carrier, sel, f) ==
  IF WholeSelections(sel, f) # {}
  THEN (CHOOSE s \in WholeSelections(sel, f) : TRUE).row.val[f]
  ELSE [kind  |-> carrier.val[f].kind,
        head  |-> carrier.val[f].head,
        items |-> [i \in 1..Len(carrier.val[f].items) |->
                     SplicedItem(carrier, sel, f, i)]]

Spliced(carrier, sel) ==
  [order |-> carrier.order,
   idraw |-> carrier.idraw,
   val   |-> [f \in DOMAIN carrier.val |-> SplicedNode(carrier, sel, f)]]
=============================================================================
