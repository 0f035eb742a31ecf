------------------------------ MODULE DataTables ------------------------------
(***************************************************************************)
(* Cooked UE4 data tables: what Pak Merger reads of a .uasset and a .uexp     *)
(* (ue_package.rs, data_table.rs), and how data_table_merge.rs copies fields  *)
(* and rows of one table into another without encoding anything again.        *)
(*                                                                           *)
(* A header is a .uasset: its name entries [text, size], the sections behind  *)
(* them [id, size] in file order, and the fields of the summary: "at" says    *)
(* where a section starts (0: there is none), "total", "count" (of names),    *)
(* "exports", "serial" and "bulk".  The imports are [identity, outer].        *)
(* A table is a .uexp: the object block, the number of rows, and rows         *)
(* [name, fields] of fields [name, type, tag, size, value]; the value, and    *)
(* what the tag holds for some types, are sequences of cells that refer to a  *)
(* name or an import, or are data.  An FName is [index, number]; indices are  *)
(* from 1.                                                                   *)
(***************************************************************************)
EXTENDS Integers, Sequences, FiniteSets, SequencesExt

CONSTANTS
  SummarySize,    \* bytes before the name table
  FixedSize       \* the size of a value, for the types that have one

ASSUME SummaryAssumption == SummarySize \in Nat \ {0}

\* The k-th of a set of numbers, and the elements of a list at the places in a set.
Nth(S, k) == CHOOSE n \in S : Cardinality({m \in S : m < n}) = k - 1
Picked(s, places) == [k \in 1..Cardinality(places) |-> s[Nth(places, k)]]

-----------------------------------------------------------------------------
(* Ue4Package.                                                              *)

Total(sizes) == FoldSeq(+, 0, sizes)
Sizes(s) == Total([i \in DOMAIN s |-> s[i].size])
NameTableEnd(h) == SummarySize + Sizes(h.names)
HeaderLength(h) == NameTableEnd(h) + Sizes(h.tail)
\* Where a section of the tail is, whatever the summary says.
Found(h, id) ==
  NameTableEnd(h) + Sizes(SubSeq(h.tail, 1, (CHOOSE i \in DOMAIN h.tail : h.tail[i].id = id) - 1))

\* parse: every offset is checked against the known end, the name table fills
\* the room up to the next section, and there is one export.
HeaderFits(h) ==
  /\ h.total = HeaderLength(h) /\ h.exports = 1
  /\ h.count = Len(h.names)
  /\ \A id \in {"imports", "exports"} : h.at[id] = Found(h, id)
  /\ NameTableEnd(h) = IF h.at["imports"] < h.at["exports"] THEN h.at["imports"] ELSE h.at["exports"]

Shifted(offset, delta) == IF offset = 0 THEN 0 ELSE offset + delta
\* Mutant: the sections behind the names are left where they were.
RewriteHeaderUnmoved(h, appended, size) ==
  LET total == h.total + Sizes(appended)
  IN [h EXCEPT !.names = @ \o appended, !.count = Len(h.names) + Len(appended),
               !.total = total, !.serial = [size |-> size, offset |-> total], !.bulk = total + size]
\* rewrite_header: names are appended, and what is behind them moves as one.
RewriteHeader(h, appended, size) ==
  LET delta == Sizes(appended)
      total == h.total + delta
  IN [h EXCEPT !.names = @ \o appended, !.count = Len(h.names) + Len(appended),
               !.total = total, !.at = [id \in DOMAIN @ |-> Shifted(@[id], delta)],
               !.serial = [size |-> size, offset |-> total], !.bulk = total + size]

-----------------------------------------------------------------------------
(* DataTableIndex and its walker.                                           *)

FNameSize == 8
\* Name, type, size, array index and the flag of a property's GUID.
TagSize == 2 * FNameSize + 9
CellSize(c) ==
  CASE c.kind = "name" -> FNameSize [] c.kind = "import" -> 4 [] c.kind = "data" -> c.size
ValueSize(value) == Total([i \in DOMAIN value |-> CellSize(value[i])])
FieldsSize(fields) ==
  Total([i \in DOMAIN fields |-> TagSize + ValueSize(fields[i].tag) + fields[i].size])
\* A row is its name, its fields and the name that ends them.
BodySize(t) ==
  t.block.size + 8 + Total([i \in DOMAIN t.rows |-> 2 * FNameSize + FieldsSize(t.rows[i].fields)])

CellKinds(value) == [i \in DOMAIN value |-> value[i].kind]
\* read_tag: the value of a bool is in its tag.
TagKinds(type) ==
  CASE type = "BoolProperty" -> <<"data">>
    [] type \in {"ByteProperty", "EnumProperty", "ArrayProperty"} -> <<"name">>
    [] OTHER -> << >>
\* value_inner: what a value of a type is made of.  A byte is an enumeration's
\* name when its size is a name's; an array counts its elements, names here.
ValueFits(type, size, value) ==
  /\ size = ValueSize(value)
  /\ LET kinds == CellKinds(value) IN
     CASE type = "BoolProperty" -> kinds = << >>
       [] type \in DOMAIN FixedSize -> kinds = <<"data">> /\ size = FixedSize[type]
       [] type = "ByteProperty" -> kinds = IF size = FNameSize THEN <<"name">> ELSE <<"data">>
       [] type \in {"NameProperty", "EnumProperty"} -> kinds = <<"name">>
       [] type = "StrProperty" -> kinds = <<"data">>
       [] type = "SoftObjectProperty" -> kinds = <<"name", "data">>
       [] type = "ObjectProperty" -> kinds = <<"import">>
       [] type = "ArrayProperty" ->
            /\ kinds # << >> /\ kinds[1] = "data"
            /\ Len(kinds) = value[1].data + 1 /\ \A i \in 2..Len(kinds) : kinds[i] = "name"
       [] OTHER -> FALSE

Refers(h, name) == name.index \in 1..Len(h.names) /\ name.number >= 0
Text(h, name) == h.names[name.index].text
NameOf(h, name) == <<Text(h, name), name.number>>

FieldFits(h, f) ==
  /\ Refers(h, f.name) /\ Refers(h, f.type) /\ Text(h, f.name) # "None"
  /\ \A i \in DOMAIN f.tag : f.tag[i].kind = "name" => Refers(h, f.tag[i].at)
  /\ \A i \in DOMAIN f.value : f.value[i].kind = "name" => Refers(h, f.value[i].at)
  /\ CellKinds(f.tag) = TagKinds(Text(h, f.type))
  /\ ValueFits(Text(h, f.type), f.size, f.value)

\* DataTableImage::parse, and row_layout of every row.
ImageFits(image) ==
  LET h == image.header
      t == image.table
  IN /\ HeaderFits(h) /\ t.block.tags = <<"RowStruct">>
     /\ \E i \in DOMAIN h.names : h.names[i].text = "None"
     /\ t.count = Len(t.rows) /\ h.serial.size = BodySize(t)
     /\ \A i \in DOMAIN t.rows :
          /\ Refers(h, t.rows[i].name)
          /\ \A j \in DOMAIN t.rows[i].fields : FieldFits(h, t.rows[i].fields[j])
          /\ IsInjective([j \in DOMAIN t.rows[i].fields |-> Text(h, t.rows[i].fields[j].name)])
     /\ IsInjective([i \in DOMAIN t.rows |-> NameOf(h, t.rows[i].name)])

RowNames(image) == {NameOf(image.header, row.name) : row \in ToSet(image.table.rows)}
RowOf(image, r) ==
  CHOOSE row \in ToSet(image.table.rows) : NameOf(image.header, row.name) = r
FieldNames(image, row) == [i \in DOMAIN row.fields |-> Text(image.header, row.fields[i].name)]
HasField(image, r, f) == f \in ToSet(FieldNames(image, RowOf(image, r)))
FieldOf(image, r, f) ==
  CHOOSE field \in ToSet(RowOf(image, r).fields) : Text(image.header, field.name) = f

\* package_index_import, import_identity: the outer of an import is not looked at.
ImportedAs(h, at) ==
  IF -at \in 1..Len(h.imports) THEN <<h.imports[-at].identity>> ELSE << >>
\* normalized_field_bytes: a field with every reference replaced by what it
\* refers to, so that two name tables do not tell equal fields apart.
CellMeaning(h, c) ==
  CASE c.kind = "name" -> [name |-> NameOf(h, c.at)]
    [] c.kind = "import" /\ ImportedAs(h, c.import) # << >> -> [import |-> ImportedAs(h, c.import)]
    [] OTHER -> [bytes |-> c]
Meaning(image, field) ==
  LET h == image.header IN
  [name |-> Text(h, field.name), type |-> Text(h, field.type), size |-> field.size,
   tag |-> [i \in DOMAIN field.tag |-> CellMeaning(h, field.tag[i])],
   value |-> [i \in DOMAIN field.value |-> CellMeaning(h, field.value[i])]]

-----------------------------------------------------------------------------
(* What bytes are read as, whatever they say: a length or a size is unsigned. *)

FName == [index : Int, number : Int]
CellShape(c) ==
  \/ c.kind = "name" /\ c = [kind |-> "name", at |-> c.at] /\ c.at \in FName
  \/ c.kind = "import" /\ c = [kind |-> "import", import |-> c.import] /\ c.import \in Int
  \/ c.kind = "data" /\ c = [kind |-> "data", data |-> c.data, size |-> c.size] /\ c.size \in Nat
FieldShape(f) ==
  /\ f = [name |-> f.name, type |-> f.type, tag |-> f.tag, size |-> f.size, value |-> f.value]
  /\ {f.name, f.type} \subseteq FName
  /\ \A cells \in {f.tag, f.value} :
       cells \in Seq(ToSet(cells)) /\ \A i \in DOMAIN cells : CellShape(cells[i])
RowShape(row) ==
  /\ row = [name |-> row.name, fields |-> row.fields] /\ row.name \in FName
  /\ row.fields \in Seq(ToSet(row.fields)) /\ \A i \in DOMAIN row.fields : FieldShape(row.fields[i])
TableShape(t) ==
  /\ t = [block |-> t.block, count |-> t.count, rows |-> t.rows]
  /\ t.rows \in Seq(ToSet(t.rows)) /\ \A i \in DOMAIN t.rows : RowShape(t.rows[i])
HeaderShape(h) ==
  /\ h = [names |-> h.names, imports |-> h.imports, tail |-> h.tail, at |-> h.at, total |-> h.total,
          count |-> h.count, exports |-> h.exports, serial |-> h.serial, bulk |-> h.bulk]
  /\ h.imports \in Seq(ToSet(h.imports))
  /\ \A s \in {h.names, h.tail} : s \in Seq(ToSet(s)) /\ \A i \in DOMAIN s : s[i].size \in Nat
  /\ {"imports", "exports"} \subseteq DOMAIN h.at /\ h.at = [id \in DOMAIN h.at |-> h.at[id]]
  /\ {"imports", "exports"} \subseteq {h.tail[i].id : i \in DOMAIN h.tail}

-----------------------------------------------------------------------------
(* merge_data_table.  A donor is the position of an image.                   *)

\* The fields that a row of the carrier takes, and the rows it does not have,
\* as what is copied from the donors.
FieldsChosen(image, selections) ==
  FlattenSeq([i \in DOMAIN image.table.rows |->
    SetToSeq({s \in selections.fields : s.row = NameOf(image.header, image.table.rows[i].name)})])
CopiedField(images, s) ==
  [donor |-> s.donor, name |-> << >>, fields |-> <<FieldOf(images[s.donor], s.row, s.field)>>]
CopiedRow(donor, row) == [donor |-> donor, name |-> <<row.name>>, fields |-> row.fields]
Copied(images, carrier, selections) ==
  LET fields == FieldsChosen(images[carrier], selections)
  IN [i \in DOMAIN fields |-> CopiedField(images, fields[i])]
     \o [i \in DOMAIN selections.rows |->
          CopiedRow(selections.rows[i].donor,
                    RowOf(images[selections.rows[i].donor], selections.rows[i].row))]
\* row_fname_sites, fname_sites: every name that a copy refers to.
NamesOfField(f) ==
  LET cells == f.tag \o f.value
      names == Picked(cells, {i \in DOMAIN cells : cells[i].kind = "name"})
  IN <<f.name, f.type>> \o [i \in DOMAIN names |-> names[i].at]
NameSites(copy) ==
  copy.name \o FlattenSeq([i \in DOMAIN copy.fields |-> NamesOfField(copy.fields[i])])

\* NameTableBuilder: the carrier's names keep their index; a name it lacks is
\* appended once, as the entry of the donor that wants it first.
WantedNames(images, copies) ==
  FlattenSeq([i \in DOMAIN copies |->
    LET h == images[copies[i].donor].header
        sites == NameSites(copies[i])
    IN [j \in DOMAIN sites |-> h.names[sites[j].index]]])
FirstOfEach(entries, known) ==
  Picked(entries, {i \in DOMAIN entries : /\ entries[i].text \notin known
                                          /\ \A j \in 1..(i - 1) : entries[j].text # entries[i].text})
AppendedNames(images, carrier, copies) ==
  FirstOfEach(WantedNames(images, copies), {e.text : e \in ToSet(images[carrier].header.names)})
FirstIndex(names, text) ==
  CHOOSE i \in DOMAIN names : names[i].text = text /\ \A j \in 1..(i - 1) : names[j].text # text

\* Retargeter::copy.  Only an import of the carrier's can be referred to.
FirstImport(h, identity) ==
  CHOOSE i \in DOMAIN h.imports :
    h.imports[i].identity = identity /\ \A j \in 1..(i - 1) : h.imports[j].identity # identity
CanRetarget(from, to, f) ==
  \A i \in DOMAIN f.value : LET c == f.value[i] IN
    c.kind = "import" /\ c.import # 0 =>
      /\ ImportedAs(from, c.import) # << >>
      /\ \E j \in DOMAIN to.imports : to.imports[j].identity = ImportedAs(from, c.import)[1]
RetargetedName(from, names, n) == [n EXCEPT !.index = FirstIndex(names, Text(from, n))]
RetargetedCell(from, to, names, c) ==
  CASE c.kind = "name" -> [c EXCEPT !.at = RetargetedName(from, names, @)]
    [] c.kind = "import" /\ c.import # 0 ->
         [c EXCEPT !.import = -FirstImport(to, ImportedAs(from, c.import)[1])]
    [] OTHER -> c
Retargeted(from, to, names, f) ==
  [f EXCEPT !.name = RetargetedName(from, names, @), !.type = RetargetedName(from, names, @),
            !.tag = [i \in DOMAIN @ |-> RetargetedCell(from, to, names, @[i])],
            !.value = [i \in DOMAIN @ |-> RetargetedCell(from, to, names, @[i])]]

\* The selections name rows and fields that the carrier and the donors have.
SelectionsFit(images, carrier, selections) ==
  /\ \A s \in selections.fields :
       /\ HasField(images[carrier], s.row, s.field)
       /\ s.row \in RowNames(images[s.donor]) /\ HasField(images[s.donor], s.row, s.field)
  /\ \A i \in DOMAIN selections.rows :
       selections.rows[i].row \in RowNames(images[selections.rows[i].donor])
CanMergeTable(images, carrier, selections) ==
  /\ SelectionsFit(images, carrier, selections)
  /\ \A copy \in ToSet(Copied(images, carrier, selections)) : \A j \in DOMAIN copy.fields :
       CanRetarget(images[copy.donor].header, images[carrier].header, copy.fields[j])

\* A row of the carrier with the fields that are chosen from donors, and a row
\* copied whole.
KeptRow(images, carrier, selections, names, row) ==
  LET base == images[carrier].header
      chosen(f) == {s \in selections.fields : s.row = NameOf(base, row.name) /\ s.field = Text(base, f.name)}
  IN [row EXCEPT !.fields = [j \in DOMAIN @ |->
        IF chosen(@[j]) = {} THEN @[j]
        ELSE LET s == CHOOSE x \in chosen(@[j]) : TRUE
             IN Retargeted(images[s.donor].header, base, names, FieldOf(images[s.donor], s.row, s.field))]]
AddedRow(from, to, names, row) ==
  [name |-> RetargetedName(from, names, row.name),
   fields |-> [j \in DOMAIN row.fields |-> Retargeted(from, to, names, row.fields[j])]]
WithRows(table, added) == [table EXCEPT !.rows = @ \o added, !.count = @ + Len(added)]
Rewritten(header, appended, table) ==
  [header |-> RewriteHeader(header, appended, BodySize(table)), table |-> table]
WithNames(images, carrier, selections, appended) ==
  LET base == images[carrier]
      names == base.header.names \o appended
      kept == [base.table EXCEPT !.rows =
                [i \in DOMAIN @ |-> KeptRow(images, carrier, selections, names, @[i])]]
      added == [i \in DOMAIN selections.rows |->
                 LET donor == images[selections.rows[i].donor]
                 IN AddedRow(donor.header, base.header, names, RowOf(donor, selections.rows[i].row))]
  IN Rewritten(base.header, appended, WithRows(kept, added))
\* Every byte that is not replaced is the carrier's.
MergedTable(images, carrier, selections) ==
  WithNames(images, carrier, selections,
            AppendedNames(images, carrier, Copied(images, carrier, selections)))
=============================================================================
