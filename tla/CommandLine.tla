------------------------------ MODULE CommandLine ------------------------------
(***************************************************************************)
(* A comparison that is saved and a merge made of it later (cli.rs, report.rs *)
(* and the sessions of merge.rs): other programs change the input Paks in     *)
(* between, and the merge reads them again.  A caller of the library may also *)
(* write the session of a comparison at once, as the window does, and may     *)
(* give it profiles of its own.                                              *)
(*                                                                           *)
(* While a Pak is open nobody can change it (the share mode it is opened      *)
(* with, on Windows).  The merged Pak is written entry by entry from the open *)
(* Paks; how it is installed is in OutputInstall, its bytes in PakFile.       *)
(***************************************************************************)
EXTENDS References

CONSTANTS
  File,           \* paths of Paks
  Disks,          \* what they hold at first
  Editions,       \* content -> what another program may put in its place
  Requests,       \* the comparisons that are asked for: [paths, carrier]
  MaxChanges      \* bound: how often an input is changed

ASSUME CommandLineAssumption ==
  /\ Disks \subseteq [File -> DOMAIN Contents] /\ Editions \in [DOMAIN Contents -> SUBSET DOMAIN Contents]
  /\ \A request \in Requests : request.paths \in Seq(File)

VARIABLES
  disk,           \* File -> what it holds
  changes,        \* how often one was changed
  saved,          \* the file of the comparison: << >> or <<plan>>
  process,        \* the call under way
  output,         \* the merged Pak: << >> or one record
  outcome         \* how the last call ended

vars == <<disk, changes, saved, process, output, outcome>>

Begun(step, request, registry, merging) ==
  [step |-> step, request |-> request, registry |-> registry, held |-> << >>, opened |-> << >>,
   merging |-> merging, plan |-> << >>, todo |-> << >>, written |-> {}, audits |-> {}]
Idle == Begun("idle", << >>, 0, << >>)
Init ==
  /\ disk \in Disks /\ changes = 0 /\ saved = << >>
  /\ process = Idle /\ output = << >> /\ outcome = "none"

\* 0 is the registry of the built-in profiles, n that with a profile from a file.
Registry(n) == IF n = 0 THEN WithBuiltins ELSE WithExternal(External[n])

Held == {process.request[1].paths[i] : i \in DOMAIN process.held}
FileChanges ==
  /\ changes < MaxChanges
  /\ \E f \in File \ Held : \E c \in Editions[disk[f]] : disk' = [disk EXCEPT ![f] = c]
  /\ changes' = changes + 1
  /\ UNCHANGED <<saved, process, output, outcome>>

Ends(how) ==
  /\ process' = Idle /\ outcome' = how
  /\ UNCHANGED <<disk, changes>>
Steps(next) ==
  /\ process' = next /\ outcome' = "none"
  /\ UNCHANGED <<disk, changes, saved, output>>

-----------------------------------------------------------------------------
(* Comparing.                                                                *)

\* validate_request_shape.
RequestFits(request) ==
  /\ Len(request.paths) \in 1..MaxPaks /\ IsInjective(request.paths)
  /\ request.carrier \in ToSet(request.paths)
Opening(request, registry, merging) == Begun("opening", <<request>>, registry, merging)
\* run_analyze; analyze_session_with_registry.
StartAnalyze ==
  /\ process = Idle /\ output = << >> /\ saved = << >>
  /\ \E request \in Requests, registry \in {0} \cup DOMAIN External :
       /\ RequestFits(request)
       /\ Steps(Opening(request, registry, << >>))
RefuseRequest ==
  /\ process = Idle /\ output = << >> /\ saved = << >>
  /\ \E request \in Requests : ~RequestFits(request)
  /\ Ends("refused") /\ UNCHANGED <<saved, output>>

Opens(next) == Len(process.held) < Len(next.paths)
OpenInput ==
  /\ process.step = "opening" /\ Opens(process.request[1])
  /\ Steps([process EXCEPT !.held = Append(@, disk[process.request[1].paths[Len(@) + 1]])])
\* open_paks.
AllHeld == process.step = "opening" /\ ~Opens(process.request[1])
Position(request) == CHOOSE i \in DOMAIN request.paths : request.paths[i] = request.carrier
OpenTogether ==
  /\ AllHeld /\ CanOpen(process.held)
  /\ Steps([process EXCEPT !.step = "opened", !.opened = <<Opened(process.held, Position(process.request[1]))>>])
CannotOpen ==
  /\ AllHeld /\ ~CanOpen(process.held)
  /\ Ends("refused") /\ UNCHANGED <<saved, output>>
Analyse ==
  /\ process.step = "opened"
  /\ Steps([process EXCEPT !.step = "compared",
              !.plan = <<AnalyzeOpened(Registry(process.registry), process.request[1], process.held,
                                       process.opened[1])>>])

\* One comparison is saved; write_json_new refuses to write over it.
SavePlan ==
  /\ process.step = "compared" /\ process.merging = << >>
  /\ saved' = process.plan /\ Ends("saved") /\ UNCHANGED output

-----------------------------------------------------------------------------
(* Choosing.                                                                 *)

Complete(plan) ==
  LET asked == {c.id : c \in {x \in plan.conflicts : x.blocking}}
  IN {f \in [asked -> ToSet(plan.inputs)] : \A id \in asked : f[id] \in id.inputs}
\* What a file of choices may hold: those of this comparison, of another, none,
\* or a choice of what is only information.
SavedChoices(plan) ==
  LET informational == {c.id : c \in {x \in plan.conflicts : ~x.blocking}} IN
  {[plan_id |-> << >>, choices |-> f] : f \in Complete(plan)}
  \cup {[plan_id |-> <<[plan.plan_id EXCEPT !.inputs = Reverse(@)]>>, choices |-> f] : f \in Complete(plan)}
  \cup {[plan_id |-> <<plan.plan_id>>, choices |-> [id \in S |-> plan.carrier]] :
          S \in {{}} \cup {{id} : id \in informational}}
\* What the command line may say besides: nothing, one answer, or two.
Inline(plan) ==
  LET answers == {c.id : c \in plan.conflicts} \X ToSet(plan.inputs) IN
  {{}} \cup {{x[1], x[2]} : x \in {y \in answers \X answers : y[1][1] = y[2][1]}}
\* merge_inline_choices.
Consistent(inline) == \A a, b \in inline : a[1] = b[1] => a = b
WithInline(resolutions, inline) ==
  [resolutions EXCEPT !.choices = [id \in {a[1] : a \in inline} |->
                                     (CHOOSE a \in inline : a[1] = id)[2]] @@ @]

\* run_merge: the choices are checked with the saved comparison first.
StartMerge ==
  /\ process = Idle /\ output = << >> /\ saved # << >>
  /\ \E resolutions \in SavedChoices(saved[1]), inline \in Inline(saved[1]) :
       /\ Consistent(inline) /\ ResolutionsFit(saved[1], WithInline(resolutions, inline))
       /\ Steps(Opening(saved[1].request, 0, <<[plan |-> saved[1],
                          choices |-> WithInline(resolutions, inline).choices]>>))
RefuseChoices ==
  /\ process = Idle /\ output = << >> /\ saved # << >>
  /\ \E resolutions \in SavedChoices(saved[1]), inline \in Inline(saved[1]) :
       ~Consistent(inline) \/ ~ResolutionsFit(saved[1], WithInline(resolutions, inline))
  /\ Ends("refused") /\ UNCHANGED <<saved, output>>

-----------------------------------------------------------------------------
(* Writing: write_session_with_options_progress_and_cancel.                  *)

\* verify_session_input_stamps, validate_resolutions.
StillThere ==
  \A i \in DOMAIN process.held : disk[process.request[1].paths[i]] = process.held[i]
Writes(choices, prepared) ==
  LET entries == UNION {p.files : p \in prepared} IN
  IF /\ StillThere /\ ResolutionsFit(process.plan[1], [plan_id |-> << >>, choices |-> choices])
     /\ (\A p \in prepared : p.built) /\ Unique(entries)
  THEN Steps([process EXCEPT !.step = "writing", !.todo = SetToSeq(entries),
                !.merging = <<[plan |-> IF @ = << >> THEN process.plan[1] ELSE @[1].plan, choices |-> choices]>>,
                !.audits = UNION {p.audited : p \in prepared}])
  ELSE Ends("failed") /\ UNCHANGED <<saved, output>>
IsCurrent == process.plan[1].plan_id = process.merging[1].plan.plan_id
\* A session is written as it is; a saved comparison must be that of the Paks
\* as they are now.
Write ==
  /\ process.step = "compared"
  /\ process.merging # << >> => IsCurrent
  /\ \E choices \in IF process.merging = << >> THEN Complete(process.plan[1])
                   ELSE {process.merging[1].choices} :
       Writes(choices, OutputEntries(process.opened[1], Registry(process.registry), process.plan[1], choices))
PaksChanged ==
  /\ process.step = "compared" /\ process.merging # << >> /\ ~IsCurrent
  /\ Ends("refused") /\ UNCHANGED <<saved, output>>

\* The provider of the Pak writer: from a Pak that is open, or a temporary file.
OwnFile(entry) ==
  LET f == process.request[1].paths[CHOOSE i \in DOMAIN process.held : process.held[i] = entry.from[1].pak]
  IN {x.blob : x \in {y \in ToSet(Contents[disk[f]].files) : y.path = entry.from[1].own}}
CopyEntry ==
  /\ process.step = "writing" /\ process.todo # << >>
  /\ LET entry == Head(process.todo) IN
     \E blob \in IF entry.from = << >> THEN {entry.blob} ELSE OwnFile(entry) :
       Steps([process EXCEPT !.todo = Tail(@), !.written = @ \cup {[path |-> entry.path, blob |-> blob]}])
\* The entries are written and verified; then its references are checked.
AllWritten == process.step = "writing" /\ process.todo = << >>
Checked ==
  CheckedReferences(Registry(process.registry), process.plan[1],
                    [id |-> "output", files |-> SetToSeq(process.written)])
\* finalize_raw_preservation_audits: for a file of the Pak, each of them.
AuditsFinal == AuditsFit(process.audits, process.written)
MergeReport(checked) ==
  [mount |-> process.opened[1].mount, files |-> process.written, audits |-> process.audits,
   actions |-> process.plan[1].assets, references |-> checked.warnings]
Merged(checked) ==
  [mount |-> process.opened[1].mount, files |-> process.written, compared |-> process.merging[1].plan,
   choices |-> process.merging[1].choices, registry |-> process.registry, report |-> MergeReport(checked)]
Finish ==
  /\ AllWritten /\ AuditsFinal
  /\ \E checked \in {Checked} : ~checked.fails /\ output' = <<Merged(checked)>>
  /\ Ends("written") /\ UNCHANGED saved
CannotCheck ==
  /\ AllWritten /\ ~(AuditsFinal /\ ~Checked.fails)
  /\ Ends("failed") /\ UNCHANGED <<saved, output>>
Cancel ==
  /\ process # Idle
  /\ Ends("cancelled") /\ UNCHANGED <<saved, output>>

Next ==
  \/ FileChanges \/ StartAnalyze \/ RefuseRequest \/ OpenInput \/ OpenTogether \/ CannotOpen \/ Analyse \/ SavePlan
  \/ StartMerge \/ RefuseChoices \/ Write \/ PaksChanged
  \/ CopyEntry \/ Finish \/ CannotCheck \/ Cancel

Spec == Init /\ [][Next]_vars
-----------------------------------------------------------------------------
(* Files as the game sees them: by their path from its root, whatever Pak's  *)
(* base folder they are under.                                               *)

AsSeen(mount, files) == {[path |-> Folded(mount \o f.path), own |-> << >>, blob |-> f.blob] : f \in files}
GamePak(id) ==
  [id |-> id, files |-> SetToSeq(AsSeen(Contents[id].mount, ToSet(Contents[id].files)))]
OutputPak(o) == [id |-> "output", files |-> SetToSeq(AsSeen(o.mount, {[path |-> f.path, blob |-> f.blob] : f \in o.files}))]
UnitsOfPak(pak) == {UnitOf(f.path) : f \in ToSet(pak.files)}
FilesSeen(pak, u) == FilesOf(pak, u)
ComparedPaks(o) == {GamePak(id) : id \in ToSet(o.compared.inputs)}
HoldersSeen(o, u) == {pak \in ComparedPaks(o) : u \in UnitsOfPak(pak)}
MergedUnits(o) ==
  {[kind |-> "package", key |-> Folded(o.mount \o asset.virtual_path)] :
     asset \in {x \in o.compared.assets : x.action = "MergeDatabase"}}
MergedTables(o) ==
  {u \in MergedUnits(o) : \A pak \in HoldersSeen(o, u) : Header(pak, u).kind = "header"}
About(o, id, u) == id.unit = u.kind /\ Folded(o.mount \o id.asset) = u.key

\* What is written is what was compared when the choices were made: every file
\* of the game that a Pak of the comparison has, and no other; each asset that
\* is not merged row by row as one of these Paks had it then, the chosen one
\* where they differ.  The report of the merge is accepted by verify,
\* unless a data table was merged, for which there is no audit.
OutputIsWhatWasCompared ==
  \A o \in ToSet(output) :
    LET units == UNION {UnitsOfPak(pak) : pak \in ComparedPaks(o)}
        written == OutputPak(o)
    IN /\ UnitsOfPak(written) = units
       /\ \A u \in units \ MergedUnits(o) : \E pak \in HoldersSeen(o, u) :
            /\ FilesSeen(written, u) = FilesSeen(pak, u)
            /\ \A id \in DOMAIN o.choices : About(o, id, u) => o.choices[id] = pak.id
            /\ (\E other \in HoldersSeen(o, u) : FilesSeen(other, u) # FilesSeen(pak, u)) =>
                 \E id \in DOMAIN o.choices : About(o, id, u)
       /\ ReportAccepted([mount |-> o.mount, files |-> o.files], o.report) <=> MergedTables(o) = {}

\* The groups of the one profile that the game's files point at, by its one
\* rule of highest priority for an asset.
SeenPaths(o) == UNION {{NormalizeAssetPath(f.path) : f \in ToSet(pak.files)} : pak \in ComparedPaks(o)}
GamesSeen(registry, seen) ==
  {g \in ToSet(registry) :
     g.minimum <= Cardinality({i \in DOMAIN g.detection : \E p \in seen : Matches(g.detection[i], p)})}
LinkedBy(games, rules) ==
  LET best == {rule \in rules : \A other \in rules : other.priority <= rule.priority}
  IN IF Cardinality(games) = 1 /\ Cardinality(best) = 1
     THEN ToSet((CHOOSE rule \in best : TRUE).groups) ELSE {}
LinkedOf(games, path) ==
  LinkedBy(games, {rule \in UNION {ToSet(g.assets) : g \in games} : RuleMatches(rule, path)})
LinkedGroups(o, path) == LinkedOf(GamesSeen(Registry(o.registry), SeenPaths(o)), path)

ViewSeen(pak, u) == Views(<<pak>>, u)[1]
ViewsOf(o, u) == [pak \in HoldersSeen(o, u) |-> ViewSeen(pak, u)]
\* The value of a field where a Pak has it.
Values(views, r, f) ==
  {[pak |-> pak.id, value |-> views[pak][r].sem[f]] :
     pak \in {x \in DOMAIN views : r \in DOMAIN views[x] /\ f \in ToSet(views[x][r].order)}}
ValuesTogether(views, stored, groups) ==
  \A r \in DOMAIN stored, g \in groups :
    ToSet(g.fields) \subseteq ToSet(stored[r].order) =>
      \E pak \in DOMAIN views : \A f \in ToSet(g.fields) :
        [pak |-> pak.id, value |-> stored[r].sem[f]] \in Values(views, r, f)
Covers(o, u, groups, id, r, f) ==
  /\ About(o, id, u) /\ id.row = <<r>>
  /\ CASE id.group.kind = "row" -> TRUE
       [] id.group.kind = "field" -> id.group.id = f
       [] id.group.kind = "group" -> \E g \in groups : g.id = id.group.id /\ f \in ToSet(g.fields)
Decided(o, u, views, stored, groups) ==
  /\ DOMAIN stored = UNION {DOMAIN views[pak] : pak \in DOMAIN views}
  /\ \A r \in DOMAIN stored : \A f \in ToSet(stored[r].order) :
       \/ \A x \in Values(views, r, f) : x.value = stored[r].sem[f]
       \/ \E id \in DOMAIN o.choices :
            /\ Covers(o, u, groups, id, r, f)
            /\ [pak |-> o.choices[id], value |-> stored[r].sem[f]] \in Values(views, r, f)
  /\ ValuesTogether(views, stored, groups)

\* A merged database has the rows of all Paks; where they differ in a field,
\* a choice decides it, the choice for this row that covers it; fields that a
\* rule for the asset's path in the merged Pak links come from one Pak.
ChoicesDecideRows ==
  \A o \in ToSet(output) : \A u \in MergedUnits(o) :
    Decided(o, u, ViewsOf(o, u), ViewSeen(OutputPak(o), u),
            LinkedGroups(o, SubSeq(u.key, Len(o.mount) + 1, Len(u.key))))

\* A merged data table can be read again: its rows and names are where and as
\* many as it says, the sections that the base's summary has found are found,
\* and each row that was not in the base is one Pak's row as a whole.  A row of
\* the base that nobody chose anything in has not changed at all.
InPlace(h, id) == (\E i \in DOMAIN h.tail : h.tail[i].id = id) /\ h.at[id] = Found(h, id)
SectionsFound(h, base, body) ==
  /\ h.tail = base.tail /\ DOMAIN h.at = DOMAIN base.at
  /\ \A id \in DOMAIN base.at : (InPlace(base, id) => InPlace(h, id)) /\ (base.at[id] = 0 => h.at[id] = 0)
  /\ h.serial.offset = HeaderLength(h) /\ h.bulk = HeaderLength(h) + body
RowsKept(o, u, image, base, holders) ==
  LET chosen == {id.row[1] : id \in {x \in DOMAIN o.choices : About(o, x, u)}} IN
  /\ \A r \in RowNames(base) \ chosen : RowOf(image, r) = RowOf(base, r)
  /\ \A r \in RowNames(image) \ RowNames(base) : \E pak \in holders :
       r \in RowNames(Image(pak, u)) /\ TableView(Image(pak, u))[r] = TableView(image)[r]
TableReads(o, u, image, holders) ==
  /\ ImageFits(image)
  /\ \E base \in holders :
       /\ (\E pak \in holders : pak.id = o.compared.carrier) => base.id = o.compared.carrier
       /\ SectionsFound(image.header, Image(base, u).header, BodySize(image.table))
       /\ RowsKept(o, u, image, Image(base, u), holders)
MergedTablesRead ==
  \A o \in ToSet(output) : \A u \in MergedTables(o) :
    TableReads(o, u, Image(OutputPak(o), u), HoldersSeen(o, u))

\* A reference that one of the compared Paks keeps, and the merged Pak has and
\* does not keep, because its source and its target come from different Paks,
\* is told in the report, or that its rule was not checked; unless it is one
\* that dangles in the game itself.  No reference that is kept is told.
Pointing(game, pak, k) ==
  IF game.format # "DataTable" THEN ListReferences(game, pak, k)
  ELSE IF TableRead(game, pak, game.rules[k].source) THEN TableReferences(game, pak, k) ELSE {}
Kept(game, pak, k) ==
  LET table == game.rules[k].target
      rows == IF game.format # "DataTable" THEN RowIds(ListRows(game, pak, table))
              ELSE IF TableRead(game, pak, table) THEN RowNames(TableImage(game, pak, table)) ELSE {}
  IN {ref \in Pointing(game, pak, k) : ref.target \in rows}
BrokenReferencesTold ==
  \A o \in ToSet(output) : \A game \in PinnedGames(Registry(o.registry), o.compared) :
    \A k \in DOMAIN game.rules :
      LET merged == [id |-> "output", files |-> SetToSeq(o.files)]
          pointing == Pointing(game, merged, k)
          kept == Kept(game, merged, k)
          before == UNION {Kept(game, pak, k) : pak \in ToSet(Opened(o.compared.inputs, 1).paks)}
          gaps == {ref \in pointing : <<ref.row, ref.target>> \in game.rules[k].gaps}
          told == {w \in o.report.references : w.kind = "break" /\ w.rule = k}
      IN /\ \A ref \in told : ref \notin kept
         /\ \/ [kind |-> "unchecked", rule |-> k] \in o.report.references
            \/ (pointing \cap before) \ kept \subseteq told \cup gaps

\* "Battle music is one decision": the fields that a profile links in a row of
\* a database come from one Pak, by the rule for the asset's path in the game.
LinkedFieldsTogether ==
  \A o \in ToSet(output) : \A u \in MergedUnits(o) :
    ValuesTogether(ViewsOf(o, u), ViewSeen(OutputPak(o), u), LinkedGroups(o, u.key))
=============================================================================
