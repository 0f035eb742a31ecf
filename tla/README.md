# Verification of Pak Merger

TLA+ modules, model-checking runs and proofs about Pak Merger, the program that
combines compatible mod Pak files into one. Paths are those of the repository
(`src/merge.rs`, `vendor/repak/...`). `PROJECT.json` maps every definition that
models code to the lines it stands for.

    tlc -config MCDatabaseMergeRows.cfg MCDatabaseMergeRows
    tlapm OutputInstall_proofs.tla

## The system

| Part | State | Operations | Talks to |
|---|---|---|---|
| Merge engine (`src/merge.rs`) | plan with conflicts, parsed databases, choices, output writer, audit | `analyze_*`, `resolve`, `write_*`, `verify` | profiles, archives, Pak writer, resources |
| Profiles (`src/profiles/`) | chosen game profile, observed groups | `atomic_units_for_fields`, registry, external profiles | merge engine |
| MessagePack rows (`src/binary_asset.rs`) | none (bytes and spans) | parse, digest, splice | merge engine, profiles |
| Output installation (`src/merge.rs:5749-6044`) | output file, its stamp, partial Pak, sidecar | capture, check, rename, copy | file system, resources |
| Job directories and cleanup (`src/resources.rs:27-277`) | `tmp` directory, ownership marker, install journals, their locks | lock, register, clean at start | every process that shares the directory |
| Decoded-entry cache (`src/pak.rs`) | a mutex-guarded cell per compressed entry | `cached_compressed_entry`, `release_decoded_cache` | budgets, reader |
| Budgets (`src/resources.rs:372-503`) | two process-wide atomic counters | reserve, record, drop | cache |
| Compression pipeline (`vendor/repak/repak/src/data.rs`) | `OrderedWorkState`, channel, pending map | `ordered_bounded_try_for_each` | Pak writer |
| Analysis workers (`src/merge.rs:2054-2301`) | slots, progress tracker, channel | `analyze_partitioned_units` | merge engine |
| Report and `verify` (`src/merge.rs:1390-1606`) | report, raw audits | finalize, verify | CLI, GUI |
| Pak files (`src/pak.rs`, `vendor/repak/repak/src/`) | one archive on a disk, its inventory | write, reopen, open, verify, two decoders | reader: engine, GUI; writer: engine |
| DataTables and packages (`src/data_table*.rs`, `src/ue_package.rs`) | none (images of two files) | parse, compare, copy fields and rows, rewrite the header | engine |
| Command line (`src/cli.rs`, `src/report.rs`) | a saved comparison, a file of choices | `analyze`, `merge`, `verify` | engine |
| GUI session (`src/gui.rs`) | Pak list, inspections by generation, worker, plan, choices, undo | button handlers, polling, shutdown | engine, inspection workers |
| Terms of use, Oodle loader | one record; one library | accept, withdraw; load | GUI, CLI; Pak reader |

The engine runs in two calls. `analyze` opens the Paks, finds in every database
the rows and *atomic units* (groups of fields that must stay together) on which
the inputs disagree, and returns a plan with conflicts. The user answers them.
`write` checks the answers, splices the chosen units into the base Pak's rows,
writes and verifies a partial Pak in a job directory, and installs it. The
compressed inputs are decoded through the cache, the output is compressed through
the pipeline.

### What is hard

* **Two phases that must agree.** The analysis decides by meaning, the build
  works on bytes and derives the units again; what is lost between them changes a
  game silently.
* **The file system under several processes.** Two launches share the `tmp`
  directory, either may be killed anywhere, and the output path belongs to the user.
* **Threads.** Atomics with load/exchange gaps, a mutex held during a long
  decoding, a condition variable between workers and a caller that waits for them.
* **Comparisons that wait for their answer.** Paks are compared, questions are
  answered minutes or days later, in a window or in files, and the Paks, the list or
  the output may have changed by then.
* **Paths.** The same asset has several spellings, base folders and cases, and
  profiles, packages and Paks are all found by comparing them.
* **Two readers of one format**, and files of other tools.
* **Cancellation and errors** at every step, with cleanup by `Drop`, whose order
  matters.

`PROJECT.json` lists each hazard at its line with the properties that would catch
it; those that no property covers say why.

### What makes each part correct

* Merge: no input value is overridden without a choice, every choice reaches the
  output to the byte, the rest stays the base Pak's, linked fields stay together,
  rows are united, questions are real, the audit hides no change, an accepted plan
  can be built.
* Installation: the output path never shows half a Pak, only a confirmed file is
  replaced, the result tells the truth, nothing is left behind.
* Cleanup: what a killed process left is removed, what a live one uses is not.
* Cache and budgets: bounds hold, counters are exact, one decoding per entry,
  every request is answered.
* Pipeline and analysis workers: each is the sequential loop; the first is within a
  memory bound, the second starves nothing.
* Window: what it shows is of the Paks in its list, undo unwinds, closing ends.
* Pak files: what is written is what was asked; an archive that opens has one reading.
* The merged Pak: each file is one input's, the chosen one, or merged field by field
  as chosen, for the Paks as they were compared; merged tables can be read again; a
  reference that the merge broke is told.

## The modules

| Module | Models |
|---|---|
| `AtomicUnits` | rows, their units, their digests and the splice: operators only |
| `DatabaseMerge` (extends `AtomicUnits`) | the merge of one database from analysis to audit |
| `OutputInstall` | the life of a write from `capture_output_target` to the rename, and the startup cleanup |
| `DecodeCache` | the cache cells and the two counters |
| `SequentialBlocks` | the abstract loop: blocks 0, 1, 2, .. until one fails |
| `OrderedBlocks` | the pipeline, refining `SequentialBlocks` |
| `SequentialAnalysis` | the abstract analysis: the loop over the units |
| `AnalysisWorkers` | the threads, channel, slots and progress, refining `SequentialAnalysis` |
| `GuiSession` | the window's session: list, inspections, operation, choices, undo, shutdown |
| `PakFormat` | the layouts, readers, decoders and the writer of a Pak: operators only |
| `PakFile` (extends `PakFormat`) | one Pak that is written, damaged, opened and verified |
| `Profiles` | what a game profile may be, detection, and the rule of an asset: operators only |
| `DataTables` | data tables and their packages: reading, copying, rewriting: operators only |
| `MergePlan` (extends both) | the comparison of whole Paks, its choices, the files of the merged Pak: operators only |
| `References` (extends `MergePlan`) | the check of the merged Pak's references: operators only |
| `CommandLine` (extends `References`) | a comparison that is saved, and a merge made of it later |
| `Weights` | sums over a finite set, written as cardinalities so that they can be reasoned about |
| `OrderedBlocks_proofs`, `DatabaseMerge_proofs`, `OutputInstall_proofs`, `DecodeCache_proofs`, `AnalysisWorkers_proofs`, `GuiSession_proofs`, `PakFile_proofs`, `CommandLine_proofs` | the theorems about the module of that name |
| `MC*` | the instances that TLC checks |

The modules are separate because the parts are: the engine calls the pipeline and
the cache and waits, and the installation begins when the partial Pak is verified.
`DatabaseMerge` composes with `AtomicUnits`, `OrderedBlocks` and `AnalysisWorkers`
with their abstract specifications, `CommandLine` with `Profiles`, `DataTables`,
`MergePlan` and `References`. `CommandLine` is the composition of the engine from the Paks to the
merged Pak: what `DatabaseMerge` says of the bytes of one row, `OutputInstall` of the
installation, `AnalysisWorkers` of the threads and `PakFile` of the file is one
operator or one step there.

### DatabaseMerge and AtomicUnits

`db` holds what every input parsed: the order of the row ids and the rows; a row
is the order of its fields, the bytes of its id, and a value for each field, an
array or a scalar. Encodings are tokens; `Sem` gives the meaning of each, so two
encodings of one number are two tokens of one meaning. That is what
`update_semantic_digest` distinguishes from the raw digest.

`phase` goes from `analyze` to `resolve`, `build` and `done`, or to `rejected` or
`failed`. `AnalyzeRow` is one turn of the row loop of `analyze_database_group`,
`FinishAnalysis` its end; `StartWrite` and `RejectWrite` are
`validate_resolutions`; `BuildBaseRow` and `AppendRow` are one turn of each loop
of `build_merged_database` together with `record_streamed_row`, whose audit is part
of the same step; `FinishBuild` is its end; `Cancel` is `check_cancel`. Rows are
analysed in ascending id as in the code. `choices` are enumerated from all
functions of conflicts to inputs, the invalid ones included, so both outcomes of
the validation occur.

Left out: the uasset header and the export size, the plan digest, the warnings about
placements (information only), and limits on sizes. The check of references is a part
of `CommandLine`.

### OutputInstall

A *launch* is the life of one process that makes one write; `pc` is where it
stands. `Scan`, `ProbeJob`, `ReleaseJob`, `RemoveJob`, `ProbeJournal`,
`ReadJournal`, `RemoveJournal`, `FinishCleanup` are the cleanup of the first
`runtime_temp_directory`; `MakeDir`, `CreateMarker`, `LockMarker`, `BuildPartial`
the job; `CheckTarget` and `RenamePartial` the direct installation;
`CreateSidecar` .. `RenameSidecar` the copy to another volume. Every system call
that another process can observe is a step. `owned` is the stack of values with a
`Drop`: `Unwind` drops the youngest first. `Stop` is a cancelled check or a failed
call at any place before the rename. `Crash` kills: the system frees the locks,
nothing is dropped. `EditTarget` is another program.

External: the file system and the locks. Names made by `tempfile` are never used
twice. Every change of a file changes its stamp (length, time, read-only). The
rename is `MoveFileExW`: atomic, refusing an existing file without
`MOVEFILE_REPLACE_EXISTING`. `remove_dir_all` is one step. A second write in the
same process, which skips the cleanup, is not modelled, nor is the 24-hour rule
for directories without a marker and for decoded files (it needs a clock).

### DecodeCache

A worker asks for an entry, takes the lock of its cell and decodes it to memory or
to a temporary file. Each load and each compare-exchange of a counter is a step,
as is the reading of the available space, each write of a byte and the release
after it. A failed exchange takes the new value and tries again; the spurious failures of
`compare_exchange_weak` add nothing to that. `ReleaseCell` is
`release_decoded_cache` for one entry, at any time its lock is free. Mutex
poisoning and other programs that use the disk are left out. The direct decode
plan, which sizes its file at once, is not distinguished: it counts the same
bytes twice for a while, which refuses more and admits no more.

### OrderedBlocks and SequentialBlocks

What a worker or the caller does under the mutex is one step. `Work` is the
operation and the send; it may succeed or fail for any index, and a panic is a
failure, since the code catches it. `WakeSpuriously` is allowed at any time but not
required by fairness. `SequentialBlocks` has two variables: how many blocks were
consumed, and the outcome. The mapping is `done <- next_to_consume` and
`outcome <- Outcome`, the index that failed, or the number of blocks when all
succeeded.

### AnalysisWorkers and SequentialAnalysis

Each worker owns a fixed share of the units and sends progress and results through
one channel; `Receive` is one turn of the caller's loop, `RecvFails` the end of it,
`Collect` the loop over the slots, `Alone` the path of one thread. The analysis of a
unit ends by its *fate*, success, failure or panic, or sees the cancellation; fates
are chosen at first, so that the abstract loop has the same ones. The message that
only carries a label before a unit is left out. A panic is the exception to the
order of errors: the scope panics again when it joins, so it overtakes the error of
an earlier unit, and the error made at the failed `recv` is never returned.

### GuiSession

One step is one action of the user or one handled message. `AddPak`, `RemovePak`,
`SetCarrier`, `ChooseVariant`, `ApplyBulk`, `UndoLast`, `StartAnalysis`,
`AskOverwrite`, `Replace`, `KeepExisting`, `MergeToNew`, `CancelOperation` and
`Close` are handlers, with the conditions under which the button is drawn enabled;
`Inspect` is a thread of `inspection_worker`, `WorkerThread` the thread of one
operation, `PollInspections` and `PollWorker` what a frame does. `FileChanges` is
another program. A file's version stands for its stamp and its bytes; whether the
output exists is read anew at each look. The terms of use are one Boolean, which may
be withdrawn from outside. Left out: drawing and wording, the settings, the dialog
that confirms a batch of choices, the display of the last output.

### PakFormat and PakFile

A file says what starts at each offset and how long it is; a read at another offset
or of another size meets nothing that parses. Digests are the things they are taken
of, so a changed thing has another digest and a damaged digest matches nothing.
`Begin`, `WriteEntry`, `WriteIndex`, `Reopen` and `Fail` are
`write_pak_v11_from_data_provider_open_with_source_hashes` with its calls of the
provider; `OpenInput` is `PakArchive::open`, `Verify` the comparison with a later
inventory; `Damage` changes one field of a file. The constants of the format (2 KiB
blocks, 64 codes, the limits and thresholds) are small numbers with the same
relations. Errors are not told apart. Left out: the limits on the bytes of an index,
the encodings of integers and strings, encryption keys and signatures beyond
that an archive has them.

### Profiles, DataTables, MergePlan, References and CommandLine

`Profiles` has a path as the sequence of its names, with the lower case, the stem and
the extension of each; a pattern begins and ends at a slash. The tables of the
built-in profiles and of declarative files are constants. `DataTables` has the two
files of a table as their parts with a size and, where the format has one, an offset;
what is copied between tables is cells, which are names, imports or data.
`MergePlan` is `canonicalize_mount_points`, `group_packages`, the comparison of each
unit, the conflicts, `validate_resolutions`, and the files of the output. A conflict
is known by what its digest is taken of, and so is a comparison. A row of a
MessagePack database is a value for each field, whose meaning is its last digit, so
that 1 and 11 are two encodings of one value.

`References` is `validate_references_for_pinned_profile` with both of its checks, of
lists and of data tables: which tables of a profile the merged Pak has, which rules
have both of their tables, and which values name no row. The names of the tables, the
rules and the pairs that dangle in the game as it is sold are constants. What is found
missing, and what could not be checked, is told in the report; the merge fails when a
table is in two places, when a list has no `.uexp`, or when a data table that an active
rule needs cannot be read (`CannotCheck` in `CommandLine`).

In `CommandLine`, `disk` is what each path holds, `process` the call under way with
the Paks it holds open, `saved` the file of the comparison. `StartAnalyze`,
`OpenInput`, `OpenTogether`, `Analyse`, `SavePlan` are `run_analyze`; `StartMerge`
checks the choices with the saved comparison as `run_merge` does, reads the Paks
again, and `Write` goes on only when the new comparison has the saved one's id;
`CopyEntry` is the provider of the Pak writer. `Write` of a comparison that is not saved is what the window
does. `FileChanges` never touches a Pak that is open: it is opened with a share mode
that forbids it (Windows), so the check of the stamps can not fail within a call.
`SavedChoices` and `Inline` enumerate right and wrong answers: of this comparison and
of another, incomplete, about conflicts that only inform, and contradictory ones. Any
error in a data table makes it a whole-file choice (`src/merge.rs:6493`), which is why
errors need not be told apart. The order of the names that one copied row appends is
not specified. Left out: warnings that are not about references, samples, progress,
limits on counts and sizes, and disk space.

## The runs

| Run | Instance | Distinct states | Shows |
|---|---|---|---|
| `merge_units` | 3 inputs, one row, two fields linked by a group, 11 rows: arrays of equal and unequal length, scalars, two encodings of one value, another field order | 91,770 | `OverriddenOnlyByChoice`, `ChosenBytesStored`, `BaseBytesKept`, `LinkedFieldsTogether`, `BuildNeverFails` |
| `merge_rows` | 3 inputs, two rows that each may hold or not, in either order, strict profile | 123,930 | `EveryRowOnce`, `BlockingMeansDisagreement`, `ReportCountsReplacements` |
| `install` | 2 launches, 1 edit by another program, 1 kill | 120,916 | `OutputIsWhole`, `ResultTellsInstall`, `NewOutputsReplaceNothing`, `ReplacedWasConfirmed`, `NothingLeftBehind`, `LiveCopyKept`, `WriteEnds`, `KilledCopyIsRemoved` |
| `install_job` | 2 launches, no kill | violated | `LiveJobKept` |
| `decode_cache` | 2 workers with 2 requests each, sizes 1 and 2, memory for one of the two | 27,462 | `MemoryWithinLimit`, `CountersMatchReservations`, `ExpandedOnce`, `RequestsEnd` |
| `decode_cache_disk` | sizes 2 and 3, 4 units of disk | violated | `ReservedSpaceIsFree` |
| `ordered_blocks` | 2 workers, 6 blocks, window 4 | 69,160 | `HeldWithinWindow`, `CallerIsServed`, `IsSequential` |
| `analysis_workers` | 3 units, 2 of them databases, 1 to 3 threads, up to two that do not succeed | 112,292 | `ImplementsSequential`, `ProgressIsHonest`, `IndependentAnalysed`, `ReturnsAfterDatabases` |
| `gui_session` | 3 Paks, 1 inspecting thread, 3 conflicts of which one informs, undo of 2 | 951,176 | `PlanIsOfTheList`, `ArchivesAreFresh`, `UndoUnwinds`, `StoppedBeforeJoin`, `BasePakStays`, `ClosingEnds`, `InspectionsAnswered` |
| `pak_files` | 5 paths, contents of up to 6 symbols in blocks of 2, 2 entries in a file that opens, 2 damages; 480 files of other tools | 29,095 | `WriteIsHonest`, `OpenedIsSound` |
| `merge_files` | 3 files, 11 disks, 4 requests, 4 registries, 1 change of an input | 5,332 | `OutputIsWhatWasCompared`, `ChoicesDecideRows`, `MergedTablesRead`, `BrokenReferencesTold` |
| `linked_fields` | 2 Paks of one table, based at its folder | violated | `LinkedFieldsTogether` |

A property is in a run when breaking the code breaks it. Checked on the same
instances and left out of the runs are the types (`TypeOK`), `WindowHolds` and
`InOnePlace` of the pipeline, `ProgressNeverFalls` of the analysis and
`DataIsJournaled` of the installation, which are theorems, and every inductive
invariant below.

Every run has `CHECK_DEADLOCK FALSE`, because every one of these systems comes to
an end: a merge, an installation, finite requests, a pipeline, an analysis, a window,
a Pak that was looked at, one comparison and one merged Pak. That none of them stops
before its end is what the liveness properties say.

### Why the bounds are enough

* Three inputs are the least in which two disagree while the third, the base,
  agrees with one of them, and in which a row is in two inputs but not in the
  base. Two fields and two items are the least in which linked values can be torn
  apart and in which two choices meet in one field. `MaxDriftSamples` is 1 in
  place of the code's cap, so that the cap is reached.
* Two launches are the least in which a cleanup meets a live write and a later
  launch meets a dead one. The file properties were also run with three launches
  (996,083 states), and those of the output with two edits (224,240 states), with the
  same result.
* Two workers contend for both counters and for one cell. The limits are chosen so
  that one entry fits in memory and both do not, and so that the disk is short.
* Six blocks close and open a window of four more than once.
* Three units are the least with a database on either side of an independent one;
  one to three threads take each of the paths of `analyze_partitioned_units`. Two
  units that do not succeed race for the first error; two panics add nothing, as one
  decides the outcome.
* Three Paks are the least in which the base Pak moves in the list when another is
  removed, and `MaxPaks` is 3 so that the full list occurs. One thread with three inspections makes a queue;
  one file changes, once, before or after it is looked at.
* Contents of no, one, three, five and six symbols are empty, one block, several
  blocks with a short last one, one symbol each, and above the limit. The seven
  layouts are the versions that differ in their index or their entries. A reader takes
  two entries, and one request has three, so that a written file is refused. A resealed
  file is what a faulty or different tool makes: one field changed and every digest
  made again, so that no digest catches it. 64 of the 480 open, 22 of those are read
  with a direct plan, and one has the stale digest of a v3 `.uexp`.
* Two Paks of one table differ in their names, their imports, a field of each type,
  the fields of a row and a row that only some hold; the third holds the same table
  another way, a package, a loose file or a list. The base folders are the same,
  nested and in another case. Three built-in rules match one table, two of them with
  one priority. For the references each of two Paks has one of the two rows that a table
  of both refers to, so that the merged Pak lacks a row only when a whole-file choice
  dropped it; one pair dangles in the game itself, and one table cannot be read. One change falls before, between and after the two calls.

### Fairness

Safety runs use `Spec`, without fairness. `OutputInstall!FairSpec` and
`DecodeCache!FairSpec` say that a process or thread that can take a step takes one
(the operating system schedules it); they do not make the user start a launch or
ask for an entry, and nothing forces a kill or an edit. A mutex or a file lock
need not be fair, because the requests are finite in number. In
`OrderedBlocks!FairSpec` a waiting worker is not enabled until the caller notifies
it, and spurious wake-ups are not relied upon. `AnalysisWorkers!FairSpec`
schedules the caller and the threads without a database parser; nothing is assumed of
the others, so that `IndependentAnalysed` holds even if a parser never returns, and
`ReturnsAfterDatabases` names their end as its condition. `GuiSession!FairSpec`
schedules the threads and draws frames, which poll, and assumes nothing of the user.

### What disagrees with the code's own words

* **`install_job`** (`src/resources.rs:196`). A comment says that the "open,
  exclusively locked marker lets a later launch distinguish an abandoned directory
  from a merge that is still running in another process". The marker is created
  and only then locked, and the cleanup gives its probe's lock back before it
  removes the directory. A launch that probes between the two removes the directory
  of a running merge, which then fails. The output path is not harmed:
  `install` includes this behaviour.
* **`decode_cache_disk`** (`src/resources.rs:442`). The available space is read
  before the counter of pending reservations. When another worker writes its bytes
  and releases them in between, they are missing from both, and the reservation is
  granted for space that is gone. The decoding then ends with an I/O error instead
  of the intended one about a shortage.

* **`linked_fields`** (`src/merge.rs:6588`). The game is detected by the base folder
  of a Pak joined to its paths, but the rule of an asset is looked up by its path below
  the common base folder. When all Paks are based at or below a folder that the suffix
  of a rule names, the rule is not found, the fields it links are asked for one by one, and an
  output with half of each Pak's decision is written.
  `src/profiles/octopath_traveler_2.rs:76` says of such fields: "Battle music is one
  decision". `ChoicesDecideRows` states the same with the path that the code uses, and holds.

`OutputIsWhatWasCompared` also states, as what the code does, that the report of a
merge with a data table is never accepted by `verify`: it demands an audit per merged
database (`src/merge.rs:1477`), and the writer makes none for a table (`:970`).

## What is proved

Theorems hold for all values of the constants, under the assumptions that the modules
name and TLC evaluates in the runs:

* `BlocksAssumption`: at least one block, between one thread and as many as blocks,
  which is what `worker_count` returns.
* `ProfileAssumption`, `MergeAssumption`: finite sets of fields and groups, a meaning for
  each encoding, databases whose order lists the ids of their rows once.
* `InstallAssumption`: the token for "nobody" is no launch. The launches need not be
  finite in number.
* `CacheAssumption`: finitely many workers and entries, positive sizes; the limits are any
  numbers.
* `AnalysisAssumption`: at least one unit, thread and step of progress.
* `GuiAssumption`: finitely many Paks and inspecting threads, at least one of these.
* `ProfilesAssumption`, `BuiltinAssumption`, `ContentsAssumption`, `CommandLineAssumption`:
  the lower case of names (it is its own, and keeps extension and stem; a name is given by
  these two), built-in profiles that the registry accepts one after the other; no Pak has an empty path or two spellings of one path, which its
  reader refuses; every path of a request is one on the disk.
* `SummaryAssumption`, `TablesAssumption`: a package's summary has a size; a half of a data
  table has the fields of one, with lengths and sizes that are unsigned, and its summary has
  an offset and a section for imports and for exports, as `Ue4Package` has. Nothing more is
  assumed of what the files of a Pak hold: names and imports may be missing, cells may have
  a type they do not fit, offsets may point anywhere.
* `PakAssumption`, `ForeignAssumption`, `RequestsAssumption`, `ResultAssumption`: the
  folding and the order of paths, the block sizes, a limit on the entries that is a number;
  a request is a list of paths, a content is a sequence of bytes; what parses in another tool's file as a header or as a list of
  folders has the fields of one (natural numbers, as all of them are unsigned), and no
  more is assumed of such a file.

Each safety property is `Spec => []Inv`, by an inductive `IInv` that was model-checked
first. `PROJECT.json` lists the theorems.

**`OrderedBlocks_proofs`.** `HeldWithinWindow` is not inductive: the results on
their way are bounded only because their number is that of the indices scheduled
and not consumed, and because scheduling stays within the allowance. The invariant
has two layers. `IInv` is the type, the relations of the counters (`SchedulerInv`:
consumed, scheduled and allowed come in this order, and the allowance is the window
ahead of what was consumed), `WindowHolds`, that whatever is held was scheduled,
`InOnePlace`, and why the caller left its loop (`CallerInv`). `CountInv` adds that
nothing is lost (`NothingIsLost`: the held results are as many as the indices
scheduled and not consumed, less the one that failed, and none of them was
consumed) and when threads stand still (`WaitingInv`: a worker ended because there
is no more work, the caller receives because nothing is ready).
`PipelineIsSequential` is the safety part of the refinement: the initial
states map to initial states, and each step maps to a step or a stutter of
`SequentialBlocks`.

**`DatabaseMerge_proofs`.** `RowsAreUnited` rests on `OutputInv`: the output is
always a prefix of the base rows followed by added rows in ascending order, and
`todo` holds exactly the ids not yet appended. That a lowest id exists in a
non-empty finite set comes from well-founded induction in its theorem form
(`WFMin`). `ReportHidesNoChange` rests on `AuditInv`, which relates the counter to
the stored rows one by one. `QuestionsAreReal` rests on `DisagreementInv`: every
recorded conflict was made from rows of different meaning, which for a unit needs
the lemma that rows of equal meaning have units of equal meaning.

The second half of the module goes on from there to the bytes of the rows. First, without
any behaviour: the units of a row share no byte (`UnitKinds` and the lemmas
after it; a field is in one group, an item is one index of a group's arrays), so
that splicing a set of units changes exactly these, in any order. Then `RowsInv`, which
is inductive together with the invariants above: the recorded conflicts are those of the
comparison, all of them once the analysis is over, and the choices of a build are
acceptable (`PlanInv`); each stored row is what plan and choices say (`StoredInv`);
and the counts at the end of the build agree (`CountInv`). `BuildNeverFails` is
inductive only with these: an error of the build would need a donor or a unit that the
analysis did not see. The other four properties then speak of one state, in which what
is stored is a function of the plan.

**`OutputInstall_proofs`.** What others do to a launch's files depends on how far that
launch has come, so each property needs all of it. `OwnInv`: what a live process has
made is on its stack of things to drop, hence a return leaves nothing. `CleanInv` and
`JournalInv`: a cleaner holds the lock of the journal it reads, a finished journal of a
live copy is locked by its writer, and a journal is only removed after its sidecar, hence
no cleanup takes a copy that runs. `SidecarInv`: what is renamed is verified, hence the
output is whole. `ResultInv` ties the result to the rename, `ConfirmedInv` the captured
stamp to the file, but for the last window between check and rename, which the code
leaves open and `late` names. `ReplacementsAreConfirmed` and `NewOutputsAreNew` are
action properties from the same invariant. `DataIsAlwaysJournaled` is what makes
`KilledCopyIsRemoved` possible.

**`DecodeCache_proofs`.** The counters are sums over what the cells hold and the
workers decode. A worker has a stale value of a counter between its load and its
exchange; that does no harm, because the exchange succeeds only on the value it tested.
`HolderInv` (a worker finds its cell as it saw it) and `DecodedInv` give
`EntriesExpandedOnce`, `ReservationInv` (written and still reserved bytes make the size)
the equality of the counters. A sum is the cardinality of a set of pairs (`Weights`), so
that it changes by lemmas about finite sets: a fold would need induction over
its definition, which the prover cannot do.

**`AnalysisWorkers_proofs`.** A result is in one of five places; `ShareInv`, `OnceInv`
and `CoverInv` say that no unit is in two and none is lost, `FateInv` that its result is
its own, `OutputsInv` and `AloneInv` that the two ways of collecting agree.
`ThreadsImplementLoop` needs all of them: the abstract step that takes the results of all
units is made when the last slot is read. `ProgressInv` is the sum of the slices,
and that only a success fills a slice; the progress never falls because each slice only
grows.

**`GuiSession_proofs`.** That an archive on the screen is fresh depends on the numbers
that inspections carry: `JobInv` and `OnceInv` say that a number is given to one job, in
one place, `AnsweredInv` that an answered Pak awaits no more, `FreshInv` that the job a
Pak waits for opened it after it was asked for. `StopInv` says that a job is either told
to stop or belongs to an inspection that closing stops, hence `JoinedThreadsAreStopped`.
`PlanInv` adds to `PlanIsOfTheList` that an analysis under way is of the list. `UndoUnwinds`
is proved in the form in which it is stated: for each conflict the oldest command that has
it says what was there before, which is the value without a choice.

**`PakFile_proofs`.** `OpenedArchivesAreSound` is about any file, not one of a list. The
invariant is only that a file that is there was not changed since it was opened; the
argument is in what `Opens` checks. That the game's hashes and the folders lead to one
record follows from counting: as many different keys as there are files, so no two files
have one (`KeysDiffer`), and each hash is that of the file with the same record. The plans
of the two decoders agree because what the opening checks of a direct plan (a block size
and as many blocks as the size needs; no list of blocks before version 3) is what the
second decoder assumes when it divides the entry (`PlansAgree`).
`UntouchedOutputVerifies` relates the writer to `verify`: what is reopened after writing
is the file whose inventory is kept.

`WritesAreHonest` is about the files of the writer, damaged as often as one likes. Its
invariant, `WriterInv`, follows the file of a call. While entries are written the file is
`Built`: the entries of the paths so far, one behind the other, each as the call wants it
(`BeginKeeps`, `WriteKeeps`). With its index it is `Pristine` (`IndexKeeps`), and any damage
leaves it `Worn` (`DamagedIsWorn`): its pieces lie where they lay, a header or a payload may
have lost a field or a byte, an index may be anything, but the footer, which can name
another place for the index, still has the digest of the index that was written. The rest is
about such a file and has no steps. A worn file that opens is `Whole` (`WornOpens`): the
footer's digest pins the index, the index pins the place and the fields of every header,
and the header the digest of its payload. A whole file reads as it was asked for
(`WholeReads`): the compact record of an entry decodes to the header that was encoded
(`EncodedIs`), both decoders cut the entry where the writer did (`BlocksAre`), and the blocks
together are the content (`ChunksBack`). A pristine file opens (`PristineOpens`). What is
a fold there, the bytes of all blocks and the sum of their sizes, is proved
by a smallest counterexample: the numbers for which the fold says something else are a set
of naturals, which has a least element if it has one (`Smallest`).

**`CommandLine_proofs`.** A merge is two calls with the user and other programs between
them. The invariant follows a call: the Paks it holds open are still those on the disk
(`HeldInv`), the Paks it compares and the plan it makes are functions of what it holds,
the request and the registry (`OpenedInv`, `PlanInv`), a merge was given a plan that some
comparison made (`MergingInv`), and while it writes, its plan is that one, its choices fit
it, and what is written and what is still to be copied are together the files that follow
from the plan and the choices (`WritingInv`). Hence `OutputFollows`: the merged Pak is a
function of what was compared. That the ids of two comparisons agree is all that the code
compares; the proof shows that it is enough, because an id names the inputs by their
digests. The rest is about that function and has no steps. A unit of the plan becomes the
files of one Pak, the chosen one where there was a choice, or is merged row by row
(`OutcomeIs`, `CopiedUnit`, `MergedUnit`); a file that is copied is found again under its
own name in its Pak (`OwnBlob`); the game, which sees full paths in lower case, finds the
same units (`UnitsWritten`, `CopiedAsChosen`); and there is an audit for each merged
database that is a list (`AuditsOf`), so that `verify` accepts the report exactly when no
table was merged (`ReportOf`). `BreaksTold` follows the two checks of references and shows
that a reference is told or kept, whichever Pak its row came from.

`TablesRead` is the last part: a merged data table reads as it should. Its difficulty is
that three things move at once. Names are appended, so a reference of a copied field is
written as the place where its text is found in the longer list, and every text that is
asked for has to be there (`NamesAppended`); a field that is copied then fits the types the
reader expects and means what it meant in its own package (`CopyFits`,
`FieldRetargeted`). The header grows by the lengths of these names, which are sums of lists
one after the other; a sum of sizes is the cardinality of the squares under a chart of
them, so that two lists add up and a part is no longer than the whole (`TotalIs`). Hence
every section moves by one and the same length and is found where the summary has it, an
absent one stays absent, and the row count and the export's sizes are those of the rows
that are written (`HeaderGrows`). Rows come in two kinds: those of the base, of which
fields are replaced at their places, and those added, which are one Pak's as a whole
(`MergedRows`, `MergedReads`). The build is given its choices by the plan, and they fit the
tables that the plan compared (`SelectedIsGiven`, `TableGiven`); the game finds the two
halves of the table under the names it looks for (`TableSeen`).

### Only model-checked

* Liveness under fairness is out of the prover's reach: `WriteEnds`,
  `KilledCopyIsRemoved`, `RequestsEnd`, `IndependentAnalysed`, `ReturnsAfterDatabases`,
  `ClosingEnds`, `InspectionsAnswered`, and the fair part of `IsSequential` and
  `ImplementsSequential`.
* `CommandLine`: `ChoicesDecideRows` needs which rule a fold over the rules of a profile
  keeps (`Highest`) and what the detection of a game makes of every spelling of a path. It
  has no step in it that the proofs do not cover: it is about what one call computes from
  the files it holds.
* What disagrees with the code's own words is a counterexample, not a theorem.

## Plan

All parts of the plan are modelled, and all safety properties but those named above are
theorems. What stays open is `ChoicesDecideRows`; the lemmas about folds of
`PakFile_proofs` and of `CommandLine_proofs` show how its fold can be unfolded without an
induction theorem that takes a predicate.

## Not modelled

The parsers of MessagePack and of the encodings inside a Pak or a package, and the
compression codecs, are sequential byte processing: their results are modelled, their
bytes are not. The tables of names and the lists of rules of the built-in profiles are
data without decisions, and constants here. The 24-hour cleanup of
unmarked directories and decoded files needs a clock. The Oodle loader loads a foreign
library once per process behind a `OnceLock`. Drawing, wording and translations, the
settings, commands that only print, build scripts and test support are left out, as
`PROJECT.json` says part by part.
