------------------------------ MODULE MergePlan ------------------------------
(***************************************************************************)
(* merge.rs as a function of the Paks it holds: their base folders brought    *)
(* together, what each asset becomes, the conflicts, the saved comparison,    *)
(* and the files of the merged Pak for a set of choices.                      *)
(*                                                                           *)
(* A Pak is what it holds: its digest is its name in Contents, its mount the  *)
(* base folder, and its files [path, blob] in the order of its inventory.     *)
(* The blob of a .uasset or a .uexp may be a half of a data table or of a     *)
(* MessagePack database; rows are named <<text, number>> in both.  What the   *)
(* merge of a MessagePack row does to its bytes is in DatabaseMerge.          *)
(***************************************************************************)
EXTENDS Profiles, DataTables

CONSTANTS
  Contents,       \* digest -> [mount, files]
  MaxPaks         \* MAX_SUPPORTED_PAKS

\* The reader of a Pak refuses empty paths, and two spellings of one path.
ASSUME ContentsAssumption ==
  \A id \in DOMAIN Contents :
    LET files == Contents[id].files IN
    /\ Contents[id].mount \in Seq(Name) /\ files \in Seq(ToSet(files))
    /\ \A k \in DOMAIN files : files[k].path \in Seq(Name) \ {<< >>}
    /\ \A j, k \in DOMAIN files : Folded(files[j].path) = Folded(files[k].path) => j = k

\* A half of a data table has its fields, whatever they say.
ASSUME TablesAssumption ==
  \A id \in DOMAIN Contents : \A file \in ToSet(Contents[id].files) :
    /\ file.blob.kind = "header" => HeaderShape(file.blob.header)
    /\ file.blob.kind = "table" => TableShape(file.blob.table)

Least(S) == CHOOSE n \in S : \A m \in S : n <= m

-----------------------------------------------------------------------------
(* canonicalize_mount_points.                                               *)

NamesFolder(path) == \E i \in DOMAIN path : path[i] # ".."
\* safe_mount_components.
SafeMount(m) == \A i, j \in DOMAIN m : i < j /\ m[j] = ".." => m[i] = ".."
Shared(ms, n) ==
  \A i \in DOMAIN ms : n <= Len(ms[i]) /\ Folded(SubSeq(ms[i], 1, n)) = Folded(SubSeq(ms[1], 1, n))
CommonLength(ms) == Len(ms[1]) - Least({k \in 0..Len(ms[1]) : Shared(ms, Len(ms[1]) - k)})
Rest(m, n) == SubSeq(m, n + 1, Len(m))
MountsFit(ms) ==
  LET n == CommonLength(ms)
      named == SelectSeq(ms, NamesFolder)
  IN /\ \A i \in DOMAIN ms : SafeMount(ms[i]) /\ ".." \notin ToSet(Rest(ms[i], n))
     /\ n # 0
     /\ NamesFolder(SubSeq(ms[1], 1, n)) \/ \E i \in DOMAIN ms : ~NamesFolder(ms[i])
     /\ Len(named) < 2 \/ NamesFolder(SubSeq(named[1], 1, CommonLength(named)))

MountsOf(ids) == [i \in DOMAIN ids |-> Contents[ids[i]].mount]
Rebased(prefix, file) == [path |-> prefix \o file.path, own |-> file.path, blob |-> file.blob]
\* OpenedPak, for every Pak; the carrier is a position in the list.
Opened(ids, carrier) ==
  LET ms == MountsOf(ids)
      n == CommonLength(ms)
  IN [mount |-> SubSeq(ms[carrier], 1, n), carrier |-> carrier,
      paks |-> [i \in DOMAIN ids |->
        [id |-> ids[i],
         files |-> [k \in DOMAIN Contents[ids[i]].files |->
                      Rebased(Rest(ms[i], n), Contents[ids[i]].files[k])]]]]
\* The Paks point to one game folder, and no two are the same.
CanOpen(ids) == IsInjective(ids) /\ MountsFit(MountsOf(ids))

-----------------------------------------------------------------------------
(* group_packages, collect_providers: a unit is a package or a loose file.   *)

InPackage(path) == Ext[Last(path)] # ""
BasePath(path) == IF InPackage(path) THEN Append(Front(path), Stem[Last(path)]) ELSE path
UnitOf(path) ==
  [kind |-> IF InPackage(path) THEN "package" ELSE "loose", key |-> Folded(BasePath(path))]
UnitsIn(opened) ==
  UNION {{UnitOf(f.path) : f \in ToSet(opened.paks[i].files)} : i \in DOMAIN opened.paks}
FilesOf(pak, u) == {f \in ToSet(pak.files) : UnitOf(f.path) = u}
\* The Paks that have a unit, in the order of the request.
HaveUnit(opened, u) == {i \in DOMAIN opened.paks : FilesOf(opened.paks[i], u) # {}}
Providers(opened, u) ==
  [k \in 1..Cardinality(HaveUnit(opened, u)) |-> opened.paks[Nth(HaveUnit(opened, u), k)]]
SpelledAs(pak, u) ==
  BasePath(pak.files[Least({k \in DOMAIN pak.files : UnitOf(pak.files[k].path) = u})].path)
\* Mutant: the files of a group are compared up to the payload.
DigestOfHeader(pak, u) ==
  {[path |-> << >>, blob |-> f.blob] : f \in {x \in FilesOf(pak, u) : Ext[Last(x.path)] \in {"", "uasset"}}}
\* group_digest, canonical_logical_sha256: only a package's has its paths.
Digest(pak, u) ==
  {[path |-> IF u.kind = "package" THEN f.path ELSE << >>, blob |-> f.blob] : f \in FilesOf(pak, u)}
Component(pak, u, ext) == CHOOSE f \in FilesOf(pak, u) : Ext[Last(f.path)] = ext
\* is_database_candidate.
IsDatabaseCandidate(pak, u) ==
  /\ u.kind = "package"
  /\ {Ext[Last(f.path)] : f \in FilesOf(pak, u)} = {"uasset", "uexp"}
Header(pak, u) == Component(pak, u, "uasset").blob
Payload(pak, u) == Component(pak, u, "uexp").blob

\* detect_profile_from_opened_inventory.
Inventory(opened) ==
  {opened.mount} \cup
  UNION {{opened.mount \o BasePath(f.path) : f \in ToSet(pak.files)} : pak \in ToSet(opened.paks)}

-----------------------------------------------------------------------------
(* Two formats of a database as one: a view is what each row has, in order,  *)
(* what its fields mean, and how they are stored.                            *)

Sem(value) == value % 10
IsTable(pak, u) ==
  /\ Header(pak, u).kind = "header" /\ Payload(pak, u).kind = "table"
  /\ ImageFits([header |-> Header(pak, u).header, table |-> Payload(pak, u).table])
Image(pak, u) == [header |-> Header(pak, u).header, table |-> Payload(pak, u).table]
TableView(image) ==
  [r \in RowNames(image) |->
    LET order == FieldNames(image, RowOf(image, r))
        means == [f \in ToSet(order) |-> Meaning(image, FieldOf(image, r, f))]
    IN [order |-> order, sem |-> means, raw |-> means]]
IsRows(pak, u) == Header(pak, u).kind = "shell" /\ Payload(pak, u).kind = "rows"
RowsView(rows) ==
  [r \in DOMAIN rows |->
    [order |-> rows[r].order, raw |-> rows[r].value,
     sem |-> [f \in DOMAIN rows[r].value |-> Sem(rows[r].value[f])]]]

AllRows(views) == UNION {DOMAIN views[i] : i \in DOMAIN views}
Having(views, r) == {i \in DOMAIN views : r \in DOMAIN views[i]}
WholeRow == [kind |-> "row", id |-> ""]
Only(v, fields) == [f \in fields |-> v[f]]
\* The conflicts of a row that the base has: of the whole row when a row has
\* other fields, else of each unit that differs.
BaseRowConflicts(views, base, groups, r) ==
  LET have == Having(views, r)
      row == views[base][r]
      units == UnitsOf(groups, ToSet(row.order))
      differs(how, u) == \E i \in have : Only(how[i], u.fields) # Only(how[base], u.fields)
      sems == [i \in have |-> views[i][r].sem]
      raws == [i \in have |-> views[i][r].raw]
      of(u, blocking) == [row |-> <<r>>, group |-> [kind |-> u.kind, id |-> u.id],
                          among |-> have, blocking |-> blocking]
  IN IF \E i \in have : views[i][r].order # row.order
     THEN {[row |-> <<r>>, group |-> WholeRow, among |-> have, blocking |-> TRUE]}
     ELSE {of(u, TRUE) : u \in {x \in units : differs(sems, x)}}
          \cup {of(u, FALSE) : u \in {x \in units : ~differs(sems, x) /\ differs(raws, x)}}
\* Of a row that the base does not have.
AddedRowConflicts(views, r) ==
  LET have == Having(views, r)
      alike(S) == Cardinality(S) = 1
      sems == {<<views[i][r].order, views[i][r].sem>> : i \in have}
      raws == {<<views[i][r].order, views[i][r].raw>> : i \in have}
  IN IF alike(raws) THEN {}
     ELSE {[row |-> <<r>>, group |-> WholeRow, among |-> have, blocking |-> ~alike(sems)]}
RowConflicts(views, base, groups) ==
  UNION {IF r \in DOMAIN views[base] THEN BaseRowConflicts(views, base, groups, r)
         ELSE AddedRowConflicts(views, r) : r \in AllRows(views)}

FieldsOfRow(view, r) == ToSet(view[r].order)
\* A profile's groups are whole in every row, and each is in some row.
ProfileObserved(views, groups) ==
  /\ \A i \in DOMAIN views : \A r \in DOMAIN views[i] : ~PartialGroup(groups, FieldsOfRow(views[i], r))
  /\ \A g \in ToSet(groups) : \E i \in DOMAIN views : \E r \in DOMAIN views[i] :
       ToSet(g.fields) \subseteq FieldsOfRow(views[i], r)

-----------------------------------------------------------------------------
(* analyze_unit.                                                             *)

GroupsOf(registry, detected, path) == ResolveAsset(registry, path, detected.selected)
\* The base of a database: the carrier, or the first Pak that has it.
BaseOf(opened, u) ==
  LET at == {i \in DOMAIN Providers(opened, u) : Providers(opened, u)[i].id = opened.paks[opened.carrier].id}
  IN IF at = {} THEN 1 ELSE Least(at)
\* analyze_data_table_group, load_data_table_group; analyze_database_group,
\* validate_database_shell_compatibility.
TablesCompare(paks, u, base, groups) ==
  /\ \A i \in DOMAIN paks : IsTable(paks[i], u)
  /\ \A i \in DOMAIN paks : Payload(paks[i], u).table.block = Payload(paks[base], u).table.block
  /\ \A row \in ToSet(Payload(paks[base], u).table.rows) :
       ~PartialGroup(groups, ToSet(FieldNames(Image(paks[base], u), row)))
RowListsCompare(paks, u, groups) ==
  /\ \A i \in DOMAIN paks : IsRows(paks[i], u)
  /\ \A i \in DOMAIN paks : /\ Payload(paks[i], u).around = Payload(paks[1], u).around
                            /\ Header(paks[i], u).package = Header(paks[1], u).package
  /\ ProfileObserved([i \in DOMAIN paks |-> RowsView(Payload(paks[i], u).rows)], groups)
Views(paks, u) ==
  [i \in DOMAIN paks |-> IF Header(paks[i], u).kind = "header" THEN TableView(Image(paks[i], u))
                         ELSE RowsView(Payload(paks[i], u).rows)]

\* make_conflict: the id is a digest of the asset, the row, the group and what
\* each Pak has there, which its own digest stands for.
MakeConflict(u, path, c, paks) ==
  [id |-> [unit |-> u.kind, asset |-> path, row |-> c.row, group |-> c.group,
           inputs |-> {paks[i].id : i \in c.among}],
   blocking |-> c.blocking]
\* analyze_package_selection_group, make_loose_conflict.
WholeFile(paks) ==
  [row |-> << >>, group |-> [kind |-> "file", id |-> ""], among |-> DOMAIN paks, blocking |-> TRUE]

\* package_asset_plan, loose_asset_plan.
AssetPlan(u, paks, action, conflicts) ==
  [virtual_path |-> SpelledAs(paks[1], u), action |-> action,
   package_entries |-> IF u.kind = "loose" THEN {SpelledAs(paks[1], u)}
                       ELSE UNION {{f.path : f \in FilesOf(paks[i], u)} : i \in DOMAIN paks},
   donor_input_ids |-> {paks[i].id : i \in DOMAIN paks},
   conflict_ids |-> {c.id : c \in {x \in conflicts : x.blocking}}]

GroupPlan(u, paks, action, path, found) ==
  LET conflicts == {MakeConflict(u, path, c, paks) : c \in found} IN
  [asset |-> AssetPlan(u, paks, action, conflicts), conflicts |-> conflicts]
Compares(u, paks, base, format, groups) ==
  /\ \A i \in DOMAIN paks : IsDatabaseCandidate(paks[i], u)
  /\ IF format = {"DataTable"} THEN TablesCompare(paks, u, base, groups)
     ELSE RowListsCompare(paks, u, groups)
AllAlike(u, paks) == \A i \in DOMAIN paks : Digest(paks[i], u) = Digest(paks[1], u)
AnalyzeGroup(u, paks, base, format, groups) ==
  CASE Len(paks) = 1 -> GroupPlan(u, paks, "Copy", << >>, {})
    [] Len(paks) > 1 /\ AllAlike(u, paks) -> GroupPlan(u, paks, "Deduplicate", << >>, {})
    [] OTHER ->
         IF Compares(u, paks, base, format, groups)
         THEN GroupPlan(u, paks, "MergeDatabase", SpelledAs(paks[base], u),
                        RowConflicts(Views(paks, u), base, groups))
         ELSE GroupPlan(u, paks, "SelectOpaque", SpelledAs(paks[1], u), {WholeFile(paks)})
AnalyzeUnit(opened, registry, detected, u) ==
  LET paks == Providers(opened, u)
      base == BaseOf(opened, u)
  IN AnalyzeGroup(u, paks, base, {g.format : g \in GameOf(registry, detected.selected)},
                  GroupsOf(registry, detected, SpelledAs(paks[base], u)))

\* The digest that a saved comparison is known by.
PlanId(inputs, carrier, detected, conflicts) ==
  [inputs |-> inputs, carrier |-> carrier, status |-> detected.status,
   profile |-> IF detected.selected = << >> THEN "generic" ELSE detected.selected[1],
   conflicts |-> {c.id : c \in conflicts}]
\* analyze_opened.
Planned(request, ids, carrier, detected, outputs) ==
  LET conflicts == UNION {o.conflicts : o \in outputs}
  IN [request |-> request, inputs |-> ids, carrier |-> carrier, detected |-> detected,
      assets |-> {o.asset : o \in outputs}, conflicts |-> conflicts,
      plan_id |-> PlanId(ids, carrier, detected, conflicts)]
AnalyzeDetected(registry, request, ids, opened, detected) ==
  Planned(request, ids, opened.paks[opened.carrier].id, detected,
          {AnalyzeUnit(opened, registry, detected, u) : u \in UnitsIn(opened)})
AnalyzeOpened(registry, request, ids, opened) ==
  AnalyzeDetected(registry, request, ids, opened, DetectInventory(registry, Inventory(opened)))

-----------------------------------------------------------------------------
(* validate_resolutions: an empty plan_id is that of the plan.               *)

ResolutionsFit(plan, resolutions) ==
  /\ resolutions.plan_id \in {<< >>, <<plan.plan_id>>}
  /\ \A id \in DOMAIN resolutions.choices :
       /\ \E c \in plan.conflicts : c.id = id /\ c.blocking
       /\ resolutions.choices[id] \in id.inputs
  /\ \A c \in plan.conflicts : c.blocking => c.id \in DOMAIN resolutions.choices

-----------------------------------------------------------------------------
(* write_opened_with_progress: the files of the merged Pak.                  *)

\* What build_merged_database stores of a row of the list.
MergedRow(paks, u, base, groups, donor, r) ==
  LET chosen(group) == {donor[c] : c \in {x \in DOMAIN donor : x.id.row = <<r>> /\ x.id.group = group}}
      rows(i) == Payload(paks[i], u).rows
      have == {i \in DOMAIN paks : r \in DOMAIN rows(i)}
      whole == chosen(WholeRow)
      from(f) ==
        LET unit == CHOOSE x \in UnitsOf(groups, ToSet(rows(base)[r].order)) : f \in x.fields
            c == chosen([kind |-> unit.kind, id |-> unit.id])
        IN IF c = {} THEN base ELSE CHOOSE i \in c : TRUE
  IN IF whole # {} THEN rows(CHOOSE i \in whole : TRUE)[r]
     ELSE IF base \notin have THEN rows(Least(have))[r]
     ELSE [rows(base)[r] EXCEPT !.value = [f \in DOMAIN @ |-> rows(from(f))[r].value[f]]]

\* build_merged_data_table: the units are those of the built-in profiles.
UnitNamed(plan, path, image, r, group) ==
  {u \in UnitsOf(GroupsOf(WithBuiltins, plan.detected, path), ToSet(FieldNames(image, RowOf(image, r)))) :
     u.kind = group.kind /\ u.id = group.id}
\* The fields a conflict of a row of the base covers.
ConflictFields(plan, path, image, c) ==
  IF c.id.group = WholeRow THEN ToSet(FieldNames(image, RowOf(image, c.id.row[1])))
  ELSE UNION {u.fields : u \in UnitNamed(plan, path, image, c.id.row[1], c.id.group)}
RowSelections(images, base, donor) ==
  LET chosen(r) == {donor[c] : c \in {x \in DOMAIN donor : x.id.row = <<r>>}}
      having(r) == {i \in DOMAIN images : r \in RowNames(images[i])}
      added == (UNION {RowNames(images[i]) : i \in DOMAIN images}) \ RowNames(images[base])
  IN SetToSeq({[row |-> r, donor |-> Least(IF chosen(r) # {} THEN chosen(r) ELSE having(r))] : r \in added})

DatabaseFiles(pak, u, header, payload) ==
  {[path |-> Component(pak, u, "uasset").path, from |-> << >>, blob |-> header],
   [path |-> Component(pak, u, "uexp").path, from |-> << >>, blob |-> payload]}
TableBlobs(pak, u, table) ==
  DatabaseFiles(pak, u, [kind |-> "header", header |-> table.header], [kind |-> "table", table |-> table.table])
TablesBuilt(pak, u, images, base, known, selections) ==
  IF known /\ CanMergeTable(images, base, selections)
  THEN [built |-> TRUE, audited |-> {}, files |-> TableBlobs(pak, u, MergedTable(images, base, selections))]
  ELSE [built |-> FALSE, audited |-> {}, files |-> {}]
WithSelections(pak, u, images, base, wanted, rows) ==
  TablesBuilt(pak, u, images, base, \A w \in wanted : w.fields # {},
    [fields |-> UNION {{[row |-> w.row, field |-> f, donor |-> w.donor] : f \in w.fields} : w \in wanted},
     rows |-> rows])
BuiltTable(plan, path, paks, u, base, donor) ==
  LET images == [i \in DOMAIN paks |-> Image(paks[i], u)]
      onBase == {c \in DOMAIN donor : c.id.row[1] \in RowNames(images[base])}
  IN WithSelections(paks[base], u, images, base,
       {[row |-> c.id.row[1], donor |-> donor[c], fields |-> ConflictFields(plan, path, images[base], c)] :
          c \in onBase},
       RowSelections(images, base, donor))
BuiltRows(paks, u, base, groups, donor) ==
  [built |-> TRUE, audited |-> {u.key},
   files |-> DatabaseFiles(paks[base], u, Header(paks[base], u),
     [Payload(paks[base], u) EXCEPT !.rows =
        [r \in UNION {DOMAIN Payload(paks[i], u).rows : i \in DOMAIN paks} |->
           MergedRow(paks, u, base, groups, donor, r)]])]
\* The two files of a merged database, or that it cannot be built.
BuiltDatabase(registry, plan, choices, u, paks, base) ==
  LET path == SpelledAs(paks[base], u)
      conflicts == {c \in plan.conflicts : c.blocking /\ c.id.row # << >> /\ Folded(c.id.asset) = u.key}
      donor == [c \in conflicts |-> CHOOSE i \in DOMAIN paks : paks[i].id = choices[c.id]]
  IN IF IsTable(paks[base], u) THEN BuiltTable(plan, path, paks, u, base, donor)
     ELSE BuiltRows(paks, u, base, GroupsOf(registry, plan.detected, path), donor)

\* append_package_sources: the files of one Pak.
CopiedFrom(pak, u) ==
  {[path |-> f.path, from |-> <<[pak |-> pak.id, own |-> f.own]>>, blob |-> f.blob] :
     f \in FilesOf(pak, u)}
LooseAsset(asset) ==
  \E path \in asset.package_entries :
    asset.package_entries = {path} /\ Folded(path) = Folded(asset.virtual_path)
UnitOfAsset(opened, asset) ==
  LET key == Folded(asset.virtual_path)
      package == [kind |-> "package", key |-> key]
  IN IF ~LooseAsset(asset) /\ package \in UnitsIn(opened) THEN package
     ELSE [kind |-> "loose", key |-> key]
\* donor_for_asset: the first by its digest, which may be any of them.
DonorFor(asset, paks, u) ==
  IF u.kind = "package" THEN CHOOSE pak \in ToSet(paks) : pak.id \in asset.donor_input_ids ELSE paks[1]
\* What becomes of an asset of the plan.
PreparedAs(opened, registry, plan, choices, asset, u) ==
  LET paks == Providers(opened, u)
      copies(files) == [built |-> u \in UnitsIn(opened), audited |-> {}, files |-> files]
      chosen == choices[CHOOSE id \in asset.conflict_ids : TRUE]
  IN CASE asset.action = "MergeDatabase" /\ u.kind = "package" ->
            BuiltDatabase(registry, plan, choices, u, paks, BaseOf(opened, u))
       [] asset.action = "SelectOpaque" ->
            copies(UNION {CopiedFrom(pak, u) : pak \in {x \in ToSet(paks) : x.id = chosen}})
       [] asset.action \in {"Copy", "Deduplicate"} -> copies(CopiedFrom(DonorFor(asset, paks, u), u))
Prepared(opened, registry, plan, choices, asset) ==
  PreparedAs(opened, registry, plan, choices, asset, UnitOfAsset(opened, asset))
OutputEntries(opened, registry, plan, choices) ==
  {Prepared(opened, registry, plan, choices, asset) : asset \in plan.assets}
\* ensure_unique_output_paths.
Unique(entries) == \A e, f \in entries : Folded(e.path) = Folded(f.path) => e = f

\* raw_audit_inventory_errors: each audit is of a file the Pak has.
AuditsFit(audits, files) == \A key \in audits : \E f \in files : UnitOf(f.path) = [kind |-> "package", key |-> key]
\* verify with a report: an audit for each database that was merged.
ReportAccepted(pak, report) ==
  /\ pak.mount = report.mount /\ pak.files = report.files
  /\ Cardinality(report.audits) = Cardinality({asset \in report.actions : asset.action = "MergeDatabase"})
  /\ AuditsFit(report.audits, pak.files)
=============================================================================
