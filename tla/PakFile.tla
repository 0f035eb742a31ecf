------------------------------- MODULE PakFile -------------------------------
(***************************************************************************)
(* One Pak on a disk: it is written by Pak Merger, or was left there by      *)
(* another tool; a disk or a program may damage it; it is opened and         *)
(* verified.  The writer is                                                  *)
(* write_pak_v11_from_data_provider_open_with_source_hashes: each call it    *)
(* makes to the provider is a step, so is the index, the reopening, and a    *)
(* cancellation before any of them.                                          *)
(***************************************************************************)
EXTENDS PakFormat

CONSTANTS
  Data,           \* what the provider returns for the paths
  Requests,       \* the lists of paths a caller asks to be written
  Hashed,         \* the lists of paths it wants source digests of
  Mounts,         \* the base folders it gives
  Foreign,        \* the files of other tools
  MaxDamage,      \* bound: damages
  None

\* What parses as a header or as a list of folders has the fields of one.
WellFormed(f) ==
  /\ DOMAIN f.at \subseteq Nat
  /\ \A o \in DOMAIN f.at :
       LET b == f.at[o].body IN
       /\ b.kind = "header" => /\ {b.stored, b.size, b.blockSize} \subseteq Nat
                               /\ b.blocks \in Seq([start : Nat, end : Nat])
       /\ b.kind = "directory" => b.files \in Seq([path : Path, record : Nat])
ASSUME ForeignAssumption == \A f \in Foreign : WellFormed(f)
\* A path of a request has contents, which are bytes.
ASSUME RequestsAssumption ==
  /\ \A paths \in Requests \cup Hashed : paths \in Seq(Path)
  /\ \A data \in Data, p \in Path : data[p] \in Seq(ToSet(data[p]))
  /\ \A mount \in Mounts : mount = [parts |-> mount.parts, slash |-> mount.slash]
ASSUME ResultAssumption ==
  None \notin {"written", "failed", "refused"} /\ None # TRUE /\ MaxDamage \in Nat

VARIABLES
  file,           \* the file at the output path, or None
  asked,          \* the call that is under way, or None
  position,       \* how many entries are written
  written,        \* the header of each written entry: PakWriter.pak.index
  sourceSha,      \* source_sha256
  result,         \* None, "written", "failed" or "refused"
  inventory,      \* of the archive that was opened, or None
  verdict,        \* what verifying the file said
  damage          \* how often the file was damaged

call == <<asked, position, written, sourceSha>>
vars == <<file, call, result, inventory, verdict, damage>>

Init ==
  /\ file \in {None} \cup Foreign
  /\ asked = None /\ position = 0 /\ written = << >> /\ sourceSha = << >>
  /\ result = None /\ inventory = None /\ verdict = None /\ damage = 0

-----------------------------------------------------------------------------
(* sort_and_validate_paths, sort_and_validate_selected_paths.               *)

\* Mutant: two spellings of one path are both taken.
PathsFitExactly(paths) ==
  /\ \A i \in DOMAIN paths : SafePath(paths[i])
  /\ \A i, j \in DOMAIN paths : i # j => paths[i] # paths[j]

PathsFit(paths) ==
  /\ \A i \in DOMAIN paths : SafePath(paths[i])
  /\ \A i, j \in DOMAIN paths : i # j => Fold[paths[i]] # Fold[paths[j]]
Sorted(paths) == InOrder(ToSet(paths), [p \in ToSet(paths) |-> KeyRank[Fold[p]]])
Folded(paths) == {Fold[p] : p \in ToSet(paths)}

RequestFits(paths, hashed, mount) ==
  /\ SafeMount(mount) /\ paths # << >> /\ PathsFit(paths) /\ PathsFit(hashed)
  /\ Folded(hashed) \subseteq Folded(paths)

\* The call is checked, then the output is created unless it is there.
Begin(paths, hashed, mount, codec, data) ==
  /\ result = None /\ asked = None
  /\ IF RequestFits(paths, hashed, mount) /\ file = None
     THEN /\ asked' = [paths |-> Sorted(paths), hashed |-> Folded(hashed), mount |-> NormalMount(mount),
                       codec |-> codec, data |-> data]
          /\ file' = EmptyFile /\ result' = result
     ELSE result' = "refused" /\ UNCHANGED <<asked, file>>
  /\ UNCHANGED <<position, written, sourceSha, inventory, verdict, damage>>

Writing == asked # None /\ result = None /\ file # None
Complete == file.footer # NoFooter

\* write_repak_entry_with_optional_source_sha256.
Collected(path, data) ==
  IF Fold[path] \in asked.hashed THEN With(sourceSha, path, Plain(data)) ELSE sourceSha

\* The provider is asked for the next entry; an empty one is never compressed.
WriteEntry ==
  /\ Writing /\ position < Len(asked.paths)
  /\ LET path == asked.paths[position + 1]
         data == asked.data[path]
     IN /\ Len(data) <= EntryLimit
        /\ file' = Appended(110, asked.codec, file, data)
        /\ written' = With(written, path, file.end)
        /\ sourceSha' = Collected(path, data)
  /\ position' = position + 1
  /\ UNCHANGED <<asked, result, inventory, verdict, damage>>

\* The provider fails, an entry is too large, the operation is cancelled, or
\* the disk is full: the file, which this call made, is removed.
Fail ==
  /\ Writing
  /\ result' = "failed" /\ file' = None
  /\ UNCHANGED <<call, inventory, verdict, damage>>

WriteIndex ==
  /\ Writing /\ position = Len(asked.paths) /\ ~Complete
  /\ file' = Indexed(110, file, written, asked.mount, SlotNamesFor(110, asked.codec))
  /\ UNCHANGED <<call, result, inventory, verdict, damage>>

\* The file is opened again and every entry decoded.  Mutant: the fast opening.
OpensFast(f) == Opens(f, FALSE)
OpensChecked(f) == Opens(f, TRUE)

Reopen ==
  /\ Writing /\ Complete
  /\ IF OpensChecked(file)
     THEN result' = "written" /\ inventory' = Inventory(file, TRUE) /\ file' = file
     ELSE result' = "failed" /\ inventory' = None /\ file' = None
  /\ UNCHANGED <<call, verdict, damage>>

-----------------------------------------------------------------------------
(* A file that is there.                                                    *)

\* PakArchive::open_fast of an input.
OpenInput ==
  /\ asked = None /\ result = None /\ file # None /\ inventory = None
  /\ IF Opens(file, FALSE) THEN inventory' = Inventory(file, FALSE) /\ result' = result
     ELSE result' = "refused" /\ inventory' = inventory
  /\ UNCHANGED <<file, call, verdict, damage>>

\* verify_pak_v11 with the inventory of the written archive.
Verify ==
  /\ result = "written" /\ verdict = None
  /\ verdict' = VerifyPak(file, inventory)
  /\ UNCHANGED <<file, call, result, inventory, damage>>

-----------------------------------------------------------------------------
(* One field of a file changes, digests and all that depends on it do not.   *)

Swapped(bytes) ==
  [bytes EXCEPT ![1] = [@ EXCEPT !.plain = IF @ = <<1>> THEN <<2>> ELSE <<1>>]]
BodyDamaged(b) ==
  CASE b.kind = "payload" -> IF b.bytes = << >> THEN {} ELSE {[b EXCEPT !.bytes = Swapped(@)]}
    [] b.kind = "header" -> {[b EXCEPT !.size = @ + 1], [b EXCEPT !.stored = @ + 1],
                             [b EXCEPT !.flags = 1], [b EXCEPT !.blockSize = @ + 1],
                             [b EXCEPT !.method = 1 - @], [b EXCEPT !.sha = Append(@, Noise)]}
    [] b.kind = "modern" -> {[b EXCEPT !.seed = 1], [b EXCEPT !.count = @ + 1], [b EXCEPT !.extra = 1],
                             [b EXCEPT !.hashes = << >>],
                             [b EXCEPT !.records[0].size = @ + 1],
                             [b EXCEPT !.records[0].at = b.records[b.space - 1].at]}
    [] b.kind = "hashes" -> {[b EXCEPT !.entries[1].record = Len(b.entries) - 1],
                             [b EXCEPT !.entries[1].hash = b.entries[Len(b.entries)].hash],
                             [b EXCEPT !.entries = Reverse(@), !.trailing = 1]}
    [] b.kind = "directory" -> {[b EXCEPT !.files[1].path = q] : q \in Path \ {b.files[1].path}}
                               \cup {[b EXCEPT !.files[1].record = Len(b.files) - 1]}
    [] b.kind = "legacy" -> {[b EXCEPT !.entries[1].path = q] : q \in Path \ {b.entries[1].path}}
                            \cup {[b EXCEPT !.entries[1].header = b.entries[Len(b.entries)].header],
                                  [b EXCEPT !.entries[1].header.size = @ + 1]}
FooterDamaged(f) ==
  {[f EXCEPT !.footer.version = 10], [f EXCEPT !.footer.encrypted = 1],
   [f EXCEPT !.footer.index.offset = @ + 1]}
  \cup IF f.footer.names = << >> THEN {}
       ELSE {[f EXCEPT !.footer.names[1] = "dirty"], [f EXCEPT !.footer.names[1] = "LZ4"]}
Damaged(f) ==
  (UNION {{[f EXCEPT !.at[o].body = b] : b \in BodyDamaged(f.at[o].body)} : o \in DOMAIN f.at})
  \cup FooterDamaged(f)

Damage ==
  /\ asked # None /\ file # None /\ damage < MaxDamage /\ verdict = None
  /\ result \in {None, "written"} /\ Complete
  /\ file' \in Damaged(file) /\ damage' = damage + 1
  /\ UNCHANGED <<call, result, inventory, verdict>>

Next ==
  \/ \E paths \in Requests, hashed \in Hashed, mount \in Mounts, codec \in {"none", "Oodle"}, data \in Data :
       Begin(paths, hashed, mount, codec, data)
  \/ WriteEntry \/ Fail \/ WriteIndex \/ Reopen
  \/ OpenInput \/ Verify \/ Damage

Spec == Init /\ [][Next]_vars

-----------------------------------------------------------------------------
(* Properties.                                                              *)

\* The entries are the ones asked for, and reading them gives their bytes.
AskedIsThere(f) ==
  /\ {Fold[e.path] : e \in Entries(f)} = {Fold[p] : p \in ToSet(asked.paths)}
  /\ \A p \in ToSet(asked.paths) :
       /\ Logical(f, EntryOf(f, p)) = asked.data[p]
       /\ EntryOf(f, p).header.method # 0 => Decodes(f, EntryOf(f, p))

\* What the writer says of its output is so (pak.rs:1618).  A write that
\* succeeds has left exactly the entries it was asked for, with their bytes,
\* however the file was damaged before it was opened again; the digests it
\* returns are those of the paths they were wanted of; a write that is not
\* refused and not cancelled fails only for a damage, or for more entries than
\* a reader takes.  A write that fails leaves nothing.  And a file that verifies
\* against the inventory later still has those bytes, whatever happened to it
\* in between.
WriteIsHonest ==
  /\ result = "written" /\ verdict = None /\ damage = 0 => AskedIsThere(file)
  /\ result = "written" => {Fold[p] : p \in DOMAIN sourceSha} = asked.hashed
  /\ Writing /\ Complete /\ OpensChecked(file) => AskedIsThere(file)
  /\ Writing /\ Complete /\ damage = 0 /\ Len(asked.paths) <= EntryCountLimit => OpensChecked(file)
  /\ verdict = TRUE => AskedIsThere(file)
  /\ result = "written" /\ damage = 0 /\ verdict # None => verdict = TRUE
  /\ asked # None /\ result = "failed" => file = None

\* An archive that opens means one thing (pak.rs:2354, 2852, 3507).  The game
\* finds an entry by the hash of its path, Pak Merger by the list of folders:
\* both reach the same record.  An entry with a payload lies before the index
\* and shares no byte with another.  Its bytes are the ones its header has the
\* digest of, but for the .uexp of a v3 package.  Both decoders, wherever the
\* thresholds put the line between them, read the same bytes of the file into
\* the same places.
GameFinds(f, p) ==
  LET h == Region(f, Primary(f).hashes[1]).entries
  IN {Primary(f).records[h[i].record].at : i \in {j \in DOMAIN h : h[j].hash = PathHash(p, Seed(f))}}
OpenedIsSound ==
  asked = None /\ inventory # None =>
    /\ IsModern(file) => \A e \in Entries(file) : GameFinds(file, e.path) = {e.at}
    /\ \A e \in Entries(file) :
         /\ PayloadEnd(file, e) <= file.footer.index.offset
         /\ \A d \in Entries(file) \ {e} : e.at..(PayloadEnd(file, e) - 1) \cap d.at..(PayloadEnd(file, d) - 1) = {}
         /\ PayloadSound(file, e) \/ (Extension[e.path] = "uexp" /\ DetectedLayout(file) = 30)
         /\ UsesDirectPlan(file, e) => /\ RepakBlocksFit(e)
                                       /\ DecodePlan(file, e) = RepakBlocks(file, e)
=============================================================================
