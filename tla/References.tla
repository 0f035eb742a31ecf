------------------------------ MODULE References ------------------------------
(***************************************************************************)
(* The check of the merged Pak's references (merge.rs:5162-5712): a profile   *)
(* names tables by the end of their path, and rules: the values of a field of *)
(* one table are rows of another.  What is found missing is told in the       *)
(* report of the merge and does not stop it; a table that cannot be placed    *)
(* does.                                                                     *)
(*                                                                           *)
(* A row of a list is known by the number in its name, and a value refers to  *)
(* the row of its meaning.  How many references are named in full, and the    *)
(* order of the sentences, are left out.                                     *)
(***************************************************************************)
EXTENDS MergePlan

\* reference_table: the first of a game's tables whose suffix a path has.
TableAt(game, path) ==
  LET found == SelectSeq(game.tables, LAMBDA t : IsSuffix(t.suffix, NormalizeAssetPath(path)))
  IN IF found = << >> THEN "" ELSE found[1].name

Packages(pak) == {u \in {UnitOf(f.path) : f \in ToSet(pak.files)} : u.kind = "package"}
Has(pak, u, ext) == \E f \in FilesOf(pak, u) : Ext[Last(f.path)] = ext
HasHeader(pak, u) == Has(pak, u, "uasset")
PlacesOf(game, pak, table) == {u \in Packages(pak) : TableAt(game, u.key) = table}
Placed(game, pak) == {TableAt(game, u.key) : u \in Packages(pak)} \ {""}

\* What the field of a row refers to, and is not in the table it refers into.
Reference(k, row, target) == [kind |-> "break", rule |-> k, row |-> row, target |-> target]

-----------------------------------------------------------------------------
(* Lists: validate_known_references_in_archive.                              *)

\* read_reference_table reads the payload alone.
ListRead(game, pak, table) ==
  \E u \in PlacesOf(game, pak, table) :
    HasHeader(pak, u) /\ Has(pak, u, "uexp") /\ Payload(pak, u).kind = "rows"
ListRows(game, pak, table) ==
  IF ListRead(game, pak, table)
  THEN Payload(pak, CHOOSE u \in PlacesOf(game, pak, table) : TRUE).rows ELSE << >>
RowIds(rows) == {r[2] : r \in DOMAIN rows}
\* visit_positive_integer_leaves: nothing else refers to a row.
PositiveLeaves(value) == {Sem(value)} \cap {n \in 0..9 : n > 0}
ListReferences(game, pak, k) ==
  LET rule == game.rules[k]
      rows == ListRows(game, pak, rule.source)
  IN UNION {{Reference(k, r[2], n) : n \in PositiveLeaves(rows[r].value[rule.field])} :
              r \in {x \in DOMAIN rows : rule.field \in DOMAIN rows[x].value}}
\* A pair that dangles in the game as it is sold is nobody's doing.
\* Mutant: the row it dangles in is not looked at.
VanillaGapOfAnyRow(rule, ref) == \E gap \in rule.gaps : gap[2] = ref.target
VanillaGap(rule, ref) == <<ref.row, ref.target>> \in rule.gaps
BrokenInLists(game, pak, k) ==
  LET targets == RowIds(ListRows(game, pak, game.rules[k].target))
  IN {ref \in ListReferences(game, pak, k) :
        ref.target \notin targets /\ ~VanillaGap(game.rules[k], ref)}
\* Tables in two places, and those without a payload, whose size is asked for
\* before any is read.
ListsUnplaced(game, pak) ==
  \E t \in Placed(game, pak) :
    Cardinality(PlacesOf(game, pak, t)) # 1 \/ \E u \in PlacesOf(game, pak, t) : ~Has(pak, u, "uexp")
UncheckedLists(game, pak) ==
  {[kind |-> "unread", table |-> t] : t \in {x \in Placed(game, pak) : ~ListRead(game, pak, x)}}
  \cup {[kind |-> "unchecked", rule |-> k] :
          k \in {x \in DOMAIN game.rules : /\ ListRead(game, pak, game.rules[x].source)
                                           /\ ~ListRead(game, pak, game.rules[x].target)}}
CheckedLists(game, pak) ==
  LET active == {k \in DOMAIN game.rules : ListRead(game, pak, game.rules[k].target)}
  IN [fails |-> ListsUnplaced(game, pak),
      warnings |-> UncheckedLists(game, pak) \cup UNION {BrokenInLists(game, pak, k) : k \in active}]

-----------------------------------------------------------------------------
(* Data tables: validate_data_table_references_in_archive.                   *)

CompletePlaces(game, pak, table) == {u \in PlacesOf(game, pak, table) : HasHeader(pak, u)}
TablesUnplaced(game, pak) ==
  \E t \in Placed(game, pak) : Cardinality(CompletePlaces(game, pak, t)) > 1
ActiveRules(game, pak) ==
  {k \in DOMAIN game.rules : /\ CompletePlaces(game, pak, game.rules[k].source) # {}
                             /\ CompletePlaces(game, pak, game.rules[k].target) # {}}
\* A table that an active rule needs has to be read.
TableRead(game, pak, table) ==
  \E u \in CompletePlaces(game, pak, table) : Has(pak, u, "uexp") /\ IsTable(pak, u)
TableImage(game, pak, table) == Image(pak, CHOOSE u \in CompletePlaces(game, pak, table) : TRUE)
\* referenced_names: not None, an enumeration's value or the path of an asset.
ReferencedNames(image, field) ==
  IF Text(image.header, field.type) \notin {"NameProperty", "ArrayProperty"} THEN {}
  ELSE {NameOf(image.header, c.at) : c \in {x \in ToSet(field.value) : x.kind = "name"}} \ {<<"None", 0>>}
TableReferences(game, pak, k) ==
  LET rule == game.rules[k]
      image == TableImage(game, pak, rule.source)
  IN UNION {{Reference(k, r, n) : n \in ReferencedNames(image, FieldOf(image, r, rule.field))} :
              r \in {x \in RowNames(image) : HasField(image, x, rule.field)}}
BrokenInTables(game, pak, k) ==
  {ref \in TableReferences(game, pak, k) :
     ref.target \notin RowNames(TableImage(game, pak, game.rules[k].target))}
CheckedTables(game, pak) ==
  LET active == ActiveRules(game, pak)
      needed == UNION {{game.rules[k].source, game.rules[k].target} : k \in active}
      fails == TablesUnplaced(game, pak) \/ \E t \in needed : ~TableRead(game, pak, t)
  IN [fails |-> fails,
      warnings |-> IF fails THEN {}
                   ELSE {[kind |-> "unchecked", rule |-> k] : k \in DOMAIN game.rules \ active}
                        \cup UNION {BrokenInTables(game, pak, k) : k \in active}]

-----------------------------------------------------------------------------
\* validate_references_for_pinned_profile.
PinnedGames(registry, plan) == {g \in GameOf(registry, plan.detected.selected) : g.rules # << >>}
CheckedReferences(registry, plan, pak) ==
  LET games == PinnedGames(registry, plan) IN
  IF games = {} THEN [fails |-> FALSE, warnings |-> {[kind |-> "no rules"]}]
  ELSE LET game == CHOOSE g \in games : TRUE IN
       IF game.format = "DataTable" THEN CheckedTables(game, pak) ELSE CheckedLists(game, pak)
=============================================================================
