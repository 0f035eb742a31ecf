---------------------------- MODULE PakFile_proofs ----------------------------
(***************************************************************************)
(* Proofs about archives that open.  For any file of any tool: what the    *)
(* opening checks is enough for the file to have one reading.  For the     *)
(* files of the writer, damaged afterwards or not: what is written reads   *)
(* back, and a damaged file that still opens reads as it was written.      *)
(***************************************************************************)
EXTENDS PakFile, FiniteSetTheorems, SequenceTheorems, WellFoundedInduction, NaturalsInduction, TLAPS

-----------------------------------------------------------------------------
(***************************************************************************)
(* The entries of a file that opens                                        *)
(***************************************************************************)
\* A footer that fits is of one layout.
LEMMA LayoutFound ==
  ASSUME NEW f, FooterFits(f)
  PROVE  DetectedLayout(f) \in Layout
<1>1. Recognized(f) # {}
  BY FS_EmptySet DEF FooterFits
<1> QED
  BY <1>1 DEF DetectedLayout, Recognized

\* A version is a number.
LEMMA MajorType ==
  ASSUME NEW l \in Layout
  PROVE  Major(l) \in Nat
BY DEF Layout, Major

\* A header has a length.
LEMMA HeaderSizeType ==
  ASSUME NEW l \in Layout, NEW method, NEW n \in Nat
  PROVE  HeaderSize(l, method, n) \in Nat
<1> DEFINE first == IF l = 80 THEN 1 ELSE 4
           time == IF Major(l) = 1 THEN 8 ELSE 0
           blocks == IF Major(l) >= 3 /\ method # 0 THEN 4 + 16 * n ELSE 0
           flags == IF Major(l) >= 3 THEN 5 ELSE 0
<1>1. first \in Nat /\ time \in Nat /\ blocks \in Nat /\ flags \in Nat
  OBVIOUS
<1>2. HeaderSize(l, method, n) = 24 + first + time + 20 + blocks + flags
  BY DEF HeaderSize
<1> HIDE DEF first, time, blocks, flags
<1> QED
  BY <1>1, <1>2

\* Each entry of an index that fits has a header at its place.
LEMMA EntryHasHeader ==
  ASSUME NEW f, IndexFits(f), NEW e \in Entries(f)
  PROVE  /\ e.at \in DOMAIN f.at
         /\ e.header = f.at[e.at].body /\ e.header.kind = "header"
<1>1. CASE IsModern(f)
  <2> DEFINE files == Region(f, Primary(f).directory[1]).files
             records == Primary(f).records
  <2>1. PICK i \in DOMAIN files :
          e = [path |-> files[i].path, at |-> records[files[i].record].at,
               header |-> f.at[records[files[i].record].at].body]
    BY <1>1 DEF Entries, ModernEntries
  <2>2. LocalFits(f, records[files[i].record])
    BY <1>1 DEF IndexFits, RecordsFit
  <2> QED
    BY <2>1, <2>2 DEF LocalFits, Holds
<1>2. CASE ~IsModern(f)
  <2> DEFINE entries == Primary(f).entries
  <2>1. PICK i \in DOMAIN entries :
          e = [path |-> entries[i].path, at |-> entries[i].header.offset,
               header |-> f.at[entries[i].header.offset].body]
    BY <1>2 DEF Entries, LegacyEntries
  <2>2. \E size : Holds(f, entries[i].header.offset, size, "header")
    BY <1>2 DEF IndexFits, LegacyFits
  <2> QED
    BY <2>1, <2>2 DEF Holds
<1> QED
  BY <1>1, <1>2

\* The place of an entry, its sizes and its blocks are numbers.
LEMMA EntryType ==
  ASSUME NEW f, WellFormed(f), FooterFits(f), IndexFits(f), NEW e \in Entries(f)
  PROVE  /\ e.at \in Nat
         /\ {e.header.stored, e.header.size, e.header.blockSize} \subseteq Nat
         /\ e.header.blocks \in Seq([start : Nat, end : Nat])
         /\ PayloadStart(f, e) \in Nat /\ PayloadEnd(f, e) \in Nat
<1>1. e.at \in DOMAIN f.at /\ e.header = f.at[e.at].body /\ e.header.kind = "header"
  BY EntryHasHeader
<1>2. /\ e.at \in Nat
      /\ {e.header.stored, e.header.size, e.header.blockSize} \subseteq Nat
      /\ e.header.blocks \in Seq([start : Nat, end : Nat])
  BY <1>1 DEF WellFormed
<1>3. Len(e.header.blocks) \in Nat
  BY <1>2
<1>4. EntryHeaderSize(f, e) \in Nat
  BY <1>3, LayoutFound, HeaderSizeType DEF EntryHeaderSize
<1>5. PayloadStart(f, e) \in Nat
  BY <1>2, <1>4 DEF PayloadStart
<1>6. PayloadEnd(f, e) \in Nat
  BY <1>2, <1>5 DEF PayloadEnd
<1> QED
  BY <1>2, <1>5, <1>6

-----------------------------------------------------------------------------
(***************************************************************************)
(* One reading                                                             *)
(***************************************************************************)
\* There are n numbers up to n.
LEMMA UpTo ==
  ASSUME NEW n \in Nat
  PROVE  IsFiniteSet(1..n) /\ Cardinality(1..n) = n
<1>1. IsFiniteSet(1..n) /\ Cardinality(1..n) = IF 1 > n THEN 0 ELSE n - 1 + 1
  BY FS_Interval
<1> QED
  BY <1>1

\* As many keys as there are files: no two files have one.
LEMMA KeysDiffer ==
  ASSUME NEW files, NEW S, files \in Seq(S),
         Cardinality({Fold[files[i].path] : i \in DOMAIN files}) = Len(files),
         NEW i \in DOMAIN files, NEW k \in DOMAIN files,
         Fold[files[i].path] = Fold[files[k].path]
  PROVE  i = k
<1> DEFINE keys == {Fold[files[j].path] : j \in DOMAIN files}
           key == [j \in 1..Len(files) |-> Fold[files[j].path]]
<1>1. DOMAIN files = 1..Len(files) /\ Len(files) \in Nat
  OBVIOUS
<1>2. IsFiniteSet(1..Len(files)) /\ Cardinality(1..Len(files)) = Len(files)
  BY <1>1, UpTo
<1>3. key \in Surjection(1..Len(files), keys)
  BY <1>1 DEF Surjection
<1>4. key \in Injection(1..Len(files), keys)
  BY <1>2, <1>3, FS_Surjection
<1> QED
  BY <1>1, <1>4 DEF Injection, IsInjective

\* The game's way to an entry and the folders' way lead to one record.
LEMMA LookupsAgree ==
  ASSUME NEW f, WellFormed(f), IndexFits(f), IsModern(f), NEW e \in Entries(f)
  PROVE  GameFinds(f, e.path) = {e.at}
<1> DEFINE files == Region(f, Primary(f).directory[1]).files
           hashes == Region(f, Primary(f).hashes[1]).entries
           records == Primary(f).records
           seed == Primary(f).seed
<1>1. PICK i \in DOMAIN files :
        e = [path |-> files[i].path, at |-> records[files[i].record].at,
             header |-> f.at[records[files[i].record].at].body]
  BY DEF Entries, ModernEntries
<1>2. files \in Seq([path : Path, record : Nat])
  BY DEF IndexFits, ModernRegionsFit, RegionFits, Holds, WellFormed, Region
<1>3. /\ {files[k].record : k \in DOMAIN files} = {hashes[j].record : j \in DOMAIN hashes}
      /\ Cardinality({Fold[files[k].path] : k \in DOMAIN files}) = Len(files)
      /\ \A k \in DOMAIN files, j \in DOMAIN hashes :
           files[k].record = hashes[j].record => hashes[j].hash = PathHash(files[k].path, seed)
  BY DEF IndexFits, LookupsFit
<1>4. Seed(f) = seed
  BY DEF Seed
<1> HIDE DEF files, hashes, records, seed
<1>5. PICK j \in DOMAIN hashes : hashes[j].record = files[i].record
  BY <1>1, <1>3
<1>6. hashes[j].hash = PathHash(e.path, Seed(f))
  BY <1>1, <1>3, <1>4, <1>5
<1>7. ASSUME NEW m \in DOMAIN hashes, hashes[m].hash = PathHash(e.path, Seed(f))
      PROVE  records[hashes[m].record].at = e.at
  <2>1. PICK k \in DOMAIN files : files[k].record = hashes[m].record
    BY <1>3
  <2>2. PathHash(files[k].path, seed) = PathHash(files[i].path, seed)
    BY <1>1, <1>3, <1>4, <1>7, <2>1
  <2>3. Fold[files[k].path] = Fold[files[i].path]
    BY <2>2 DEF PathHash
  <2>4. k = i
    BY <1>2, <1>3, <2>3, KeysDiffer
  <2> QED
    BY <1>1, <2>1, <2>4
<1> QED
  BY <1>1, <1>5, <1>6, <1>7 DEF GameFinds, files, hashes, records

\* No byte is of two payloads.
LEMMA PayloadsApart ==
  ASSUME NEW f, WellFormed(f), FooterFits(f), IndexFits(f),
         NEW e \in Entries(f), NEW d \in Entries(f), d # e
  PROVE  e.at..(PayloadEnd(f, e) - 1) \cap d.at..(PayloadEnd(f, d) - 1) = {}
<1>1. PayloadEnd(f, e) <= d.at \/ PayloadEnd(f, d) <= e.at
  BY DEF IndexFits
<1>2. e.at \in Nat /\ d.at \in Nat /\ PayloadEnd(f, e) \in Nat /\ PayloadEnd(f, d) \in Nat
  BY EntryType
<1> QED
  BY <1>1, <1>2

\* Where there is a direct plan, the second decoder takes the same blocks.
LEMMA PlansAgree ==
  ASSUME NEW f, WellFormed(f), FooterFits(f), IndexFits(f),
         NEW e \in Entries(f), UsesDirectPlan(f, e)
  PROVE  RepakBlocksFit(e) /\ DecodePlan(f, e) = RepakBlocks(f, e)
<1> DEFINE h == e.header
           start == PayloadStart(f, e)
           whole == <<[start |-> start, end |-> PayloadEnd(f, e), from |-> 0, to |-> h.size]>>
           each == [i \in DOMAIN h.blocks |->
                     [start |-> BlockStart(f, e.at, h.blocks[i]), end |-> BlockEnd(f, e.at, h.blocks[i]),
                      from |-> (i - 1) * h.blockSize, to |-> Least(i * h.blockSize, h.size)]]
           plan == IF Major(DetectedLayout(f)) >= 3 THEN each
                   ELSE IF h.size = 0 THEN << >> ELSE whole
<1>1. /\ MethodName(f, h.method) \in {"LZ4", "Oodle"}
      /\ DecodePlan(f, e) = plan /\ plan # << >> /\ \E i \in DOMAIN plan : TRUE
  BY DEF UsesDirectPlan, DecodePlan, DirectPlan, PayloadStart, PayloadEnd
<1>2. DirectFits(f, h, e.at, EntryHeaderSize(f, e))
  BY DEF IndexFits
<1>3. h.size \in Nat /\ h.blockSize \in Nat /\ h.blocks \in Seq([start : Nat, end : Nat])
  BY EntryType
<1>4. CASE Major(DetectedLayout(f)) < 3
  <2>1. h.blocks = << >> /\ h.size # 0
    BY <1>1, <1>2, <1>4, LayoutFound, MajorType DEF DirectFits
  <2>2. plan = whole
    BY <1>4, <2>1, LayoutFound, MajorType
  <2> QED
    BY <1>1, <2>1, <2>2 DEF RepakBlocksFit, RepakBlocks
<1>5. CASE ~(Major(DetectedLayout(f)) < 3)
  <2>1. /\ h.size > 0 /\ h.blockSize > 0
        /\ Len(h.blocks) = CeilDiv(h.size, h.blockSize)
    BY <1>1, <1>2, <1>5 DEF DirectFits
  <2>2. plan = each
    BY <1>5, LayoutFound, MajorType
  <2>3. h.blocks # << >>
    BY <1>1, <2>2
  <2> QED
    BY <1>1, <1>3, <2>1, <2>2, <2>3 DEF RepakBlocksFit, RepakBlocks
<1> QED
  BY <1>4, <1>5

\* An archive that opens has one reading.
LEMMA OpenMeansOne ==
  ASSUME WellFormed(file), Opens(file, FALSE)
  PROVE  OpenedIsSound
<1>1. FooterFits(file) /\ IndexFits(file) /\ PayloadsFit(file)
  BY DEF Opens
<1>2. IsModern(file) => \A e \in Entries(file) : GameFinds(file, e.path) = {e.at}
  BY <1>1, LookupsAgree
<1>3. ASSUME NEW e \in Entries(file)
      PROVE  /\ PayloadEnd(file, e) <= file.footer.index.offset
             /\ \A d \in Entries(file) \ {e} :
                  e.at..(PayloadEnd(file, e) - 1) \cap d.at..(PayloadEnd(file, d) - 1) = {}
             /\ PayloadSound(file, e) \/ (Extension[e.path] = "uexp" /\ DetectedLayout(file) = 30)
             /\ UsesDirectPlan(file, e) => /\ RepakBlocksFit(e)
                                           /\ DecodePlan(file, e) = RepakBlocks(file, e)
  <2>1. PayloadEnd(file, e) <= file.footer.index.offset
    BY <1>1 DEF IndexFits
  <2>2. \A d \in Entries(file) \ {e} :
          e.at..(PayloadEnd(file, e) - 1) \cap d.at..(PayloadEnd(file, d) - 1) = {}
    BY <1>1, PayloadsApart
  <2>3. PayloadSound(file, e) \/ (Extension[e.path] = "uexp" /\ DetectedLayout(file) = 30)
    BY <1>1 DEF PayloadsFit, StaleUexp
  <2>4. UsesDirectPlan(file, e) => RepakBlocksFit(e) /\ DecodePlan(file, e) = RepakBlocks(file, e)
    BY <1>1, PlansAgree
  <2> QED
    BY <2>1, <2>2, <2>3, <2>4
<1> QED
  BY <1>2, <1>3 DEF OpenedIsSound

-----------------------------------------------------------------------------
(***************************************************************************)
(* The steps                                                               *)
(***************************************************************************)
\* A file that this program has not begun is as it was found, and was opened
\* when it has an inventory.
IInv ==
  asked = None =>
    /\ file # None => WellFormed(file)
    /\ inventory # None => file # None /\ Opens(file, FALSE)

\* A file that is there at first is another tool's.
LEMMA Initially == Init => IInv
BY ForeignAssumption DEF Init, IInv

\* What an empty file has is well-formed.
LEMMA EmptyWellFormed == WellFormed(EmptyFile)
BY DEF WellFormed, EmptyFile

\* A file that is there is not changed but by the call that made it.
LEMMA Invariance == IInv /\ [Next]_vars => IInv'
<1> SUFFICES ASSUME IInv, [Next]_vars PROVE IInv'
  OBVIOUS
<1>1. ASSUME NEW paths, NEW hashed, NEW mount, NEW codec, NEW data,
             Begin(paths, hashed, mount, codec, data)
      PROVE  IInv'
  BY <1>1, EmptyWellFormed DEF Begin, IInv
<1>2. CASE OpenInput
  BY <1>2 DEF OpenInput, IInv, call
<1>3. CASE WriteEntry \/ Fail \/ WriteIndex \/ Reopen
  BY <1>3 DEF WriteEntry, Fail, WriteIndex, Reopen, Writing, IInv, call
<1>4. CASE Verify \/ Damage
  BY <1>4 DEF Verify, Damage, IInv, call
<1>5. CASE UNCHANGED vars
  BY <1>5 DEF IInv, vars, call
<1> QED
  BY <1>1, <1>2, <1>3, <1>4, <1>5 DEF Next

\* An archive that opens means one thing, whatever tool made the file: the game
\* and Pak Merger find the same record, payloads lie apart and before the index,
\* and both decoders read the same bytes (pak.rs:2354, 2852, 3507).
THEOREM OpenedArchivesAreSound == Spec => []OpenedIsSound
<1>1. IInv => OpenedIsSound
  <2>1. CASE asked = None /\ inventory # None
    BY <2>1, OpenMeansOne DEF IInv
  <2>2. CASE ~(asked = None /\ inventory # None)
    BY <2>2 DEF OpenedIsSound
  <2> QED
    BY <2>1, <2>2
<1> QED
  BY <1>1, Initially, Invariance, PTL DEF Spec

-----------------------------------------------------------------------------
(***************************************************************************)
(* What was written and not touched                                        *)
(***************************************************************************)
\* Under way a file has no footer or one of version 11; an output that nothing
\* touched is still the one of its inventory.
Untouched ==
  /\ damage \in Nat
  /\ result # "written" => verdict = None
  /\ Writing /\ damage = 0 =>
       /\ file = [at |-> file.at, end |-> file.end, footer |-> file.footer]
       /\ Complete => file.footer.version = 11
  /\ result = "written" /\ damage = 0 =>
       /\ Opens(file, TRUE) /\ file.footer.version = 11 /\ inventory = Inventory(file, TRUE)
       /\ verdict # None => verdict = TRUE

\* An entry is written in front of the place of the footer.
LEMMA AppendedKeepsFooter ==
  ASSUME NEW l, NEW codec, NEW f, NEW data, f = [at |-> f.at, end |-> f.end, footer |-> f.footer],
         NEW g, g = Appended(l, codec, f, data)
  PROVE  g = [at |-> g.at, end |-> g.end, footer |-> g.footer] /\ g.footer = f.footer
BY DEF Appended

\* The index of a write lies behind the payloads, in three parts.
LEMMA IndexedIs ==
  ASSUME NEW f, NEW index, NEW mount, NEW names
  PROVE  LET paths == InOrder(DOMAIN index, PathRank)
             hashes == PathHashIndex(paths)
             directory == DirectoryIndex(paths)
             region(offset, body) == [offset |-> offset, size |-> 1, sha |-> body]
             modern == [kind |-> "modern", mount |-> mount, count |-> Len(paths), seed |-> 0,
                        hashes |-> <<region(f.end + 1, hashes)>>,
                        directory |-> <<region(f.end + 2, directory)>>,
                        space |-> Len(paths), extra |-> 0,
                        records |-> [o \in 0..(Len(paths) - 1) |->
                                       Encoded(index[paths[o + 1]], f.at[index[paths[o + 1]]].body)]]
         IN Indexed(110, f, index, mount, names) =
              [at |-> Place(Place(Place(f.at, f.end, 1, modern), f.end + 1, 1, hashes),
                            f.end + 2, 1, directory),
               end |-> f.end + 3,
               footer |-> Footer(110, names, region(f.end, modern))]
<1>1. (110 < 100) = FALSE
  OBVIOUS
<1> QED
  BY <1>1, Zenon DEF Indexed

\* The index of a write is followed by a footer of version 11.
LEMMA IndexedHasFooter ==
  ASSUME NEW f, NEW index, NEW mount, NEW names, NEW g, g = Indexed(110, f, index, mount, names)
  PROVE  g = [at |-> g.at, end |-> g.end, footer |-> g.footer] /\ g.footer.version = 11
<1>1. Major(110) = 11
  BY DEF Major
<1> DEFINE paths == InOrder(DOMAIN index, PathRank)
           hashes == PathHashIndex(paths)
           directory == DirectoryIndex(paths)
           region(offset, body) == [offset |-> offset, size |-> 1, sha |-> body]
           modern == [kind |-> "modern", mount |-> mount, count |-> Len(paths), seed |-> 0,
                      hashes |-> <<region(f.end + 1, hashes)>>,
                      directory |-> <<region(f.end + 2, directory)>>,
                      space |-> Len(paths), extra |-> 0,
                      records |-> [o \in 0..(Len(paths) - 1) |->
                                     Encoded(index[paths[o + 1]], f.at[index[paths[o + 1]]].body)]]
           at == Place(Place(Place(f.at, f.end, 1, modern), f.end + 1, 1, hashes), f.end + 2, 1, directory)
           end == f.end + 3
           last == region(f.end, modern)
<1>2. g = [at |-> at, end |-> end, footer |-> Footer(110, names, last)]
  BY IndexedIs, Zenon
<1> HIDE DEF at, end, last
<1>3. \A r : Footer(110, names, r).version = 11
  BY <1>1 DEF Footer
<1> QED
  BY <1>2, <1>3

\* No step of the writer, of the reader or of a damage breaks that.
LEMMA UntouchedStep == Untouched /\ [Next]_vars => Untouched'
<1> SUFFICES ASSUME Untouched, [Next]_vars PROVE Untouched'
  OBVIOUS
<1> USE ResultAssumption
<1>1. ASSUME NEW paths, NEW hashed, NEW mount, NEW codec, NEW data,
             Begin(paths, hashed, mount, codec, data)
      PROVE  Untouched'
  <2>1. /\ result = None /\ result' # "written"
        /\ damage' = damage /\ verdict' = verdict
    BY <1>1 DEF Begin
  <2>2. Writing' => file' = EmptyFile
    <3>1. CASE file' = EmptyFile
      BY <3>1
    <3>2. CASE file' # EmptyFile
      BY <1>1, <3>2 DEF Begin, Writing
    <3> QED
      BY <3>1, <3>2
  <2>3. Writing' => /\ file' = [at |-> file'.at, end |-> file'.end, footer |-> file'.footer]
                    /\ ~Complete'
    BY <2>2 DEF EmptyFile, Complete
  <2> QED
    BY <2>1, <2>3 DEF Untouched
<1>2. CASE WriteEntry
  <2>1. /\ Writing /\ result' = result /\ damage' = damage /\ verdict' = verdict
        /\ \E data : file' = Appended(110, asked.codec, file, data)
    BY <1>2 DEF WriteEntry
  <2>2. damage = 0 => /\ file' = [at |-> file'.at, end |-> file'.end, footer |-> file'.footer]
                      /\ file'.footer = file.footer
    BY <2>1, AppendedKeepsFooter DEF Untouched
  <2> QED
    BY <2>1, <2>2 DEF Untouched, Writing, Complete
<1>3. CASE WriteIndex
  <2>1. /\ Writing /\ result' = result /\ damage' = damage /\ verdict' = verdict
        /\ file' = Indexed(110, file, written, asked.mount, SlotNamesFor(110, asked.codec))
    BY <1>3 DEF WriteIndex
  <2>2. /\ file' = [at |-> file'.at, end |-> file'.end, footer |-> file'.footer]
        /\ file'.footer.version = 11
    BY <2>1, IndexedHasFooter
  <2> QED
    BY <2>1, <2>2 DEF Untouched, Writing
<1>4. CASE Fail
  BY <1>4 DEF Fail, Untouched, Writing
<1>5. CASE Reopen
  BY <1>5 DEF Reopen, Untouched, Writing, Complete, OpensChecked
<1>6. CASE OpenInput
  BY <1>6 DEF OpenInput, Untouched, Writing, call
<1>7. CASE Verify
  <2>1. damage = 0 => VerifyPak(file, inventory)
    BY <1>7 DEF Verify, Untouched, VerifyPak
  <2>2. VerifyPak(file, inventory) \in BOOLEAN
    BY DEF VerifyPak
  <2> QED
    BY <1>7, <2>1, <2>2 DEF Verify, Untouched, Writing, call
<1>8. CASE Damage
  <2>1. damage \in Nat /\ damage' = damage + 1
    BY <1>8 DEF Damage, Untouched
  <2>2. damage' \in Nat /\ damage' # 0
    BY <2>1
  <2> QED
    BY <1>8, <2>2 DEF Damage, Untouched
<1>9. CASE UNCHANGED vars
  BY <1>9 DEF Untouched, Writing, Complete, vars, call
<1> QED
  BY <1>1, <1>2, <1>3, <1>4, <1>5, <1>6, <1>7, <1>8, <1>9 DEF Next

\* A Pak that was written verifies against its own inventory for as long as
\* nothing changed it, whatever was asked to be written (pak.rs:1618, 3507).
THEOREM UntouchedOutputVerifies ==
  Spec => [](result = "written" /\ damage = 0 => verdict \in {None, TRUE})
<1>1. Init => Untouched
  <2> SUFFICES ASSUME Init PROVE Untouched
    OBVIOUS
  <2>1. damage = 0 /\ verdict = None /\ asked = None /\ result = None
    BY DEF Init
  <2>2. result # "written" /\ ~Writing
    BY <2>1, ResultAssumption DEF Writing
  <2> QED
    BY <2>1, <2>2 DEF Untouched
<1>2. Untouched => (result = "written" /\ damage = 0 => verdict \in {None, TRUE})
  BY DEF Untouched
<1> QED
  BY <1>1, <1>2, UntouchedStep, PTL DEF Spec

-----------------------------------------------------------------------------
(***************************************************************************)
(* What a call has written: the invariant                                  *)
(***************************************************************************)
\* What the caller is known to have asked for.
CallFits(a) ==
  /\ a.paths \in Seq(Path) /\ a.paths # << >> /\ PathsFit(a.paths)
  /\ SafeMount(a.mount) /\ NormalMount(a.mount) = a.mount
  /\ a.codec \in {"none", "Oodle"}
  /\ \A p \in Path : a.data[p] \in Seq(ToSet(a.data[p]))
  /\ a.hashed \subseteq Folded(a.paths)

\* What is written of a path, where "index" has its header, and where it ends.
Made(a, index, p) == WrittenEntry(110, a.codec, index[p], a.data[p])
PayloadAt(a, index, p) == index[p] + Made(a, index, p).headerSize
EndOf(a, index, p) == PayloadAt(a, index, p) + Len(Made(a, index, p).payload)
\* The entries lie one behind the other.
Apart(a, index, end) ==
  /\ DOMAIN index \subseteq Path
  /\ \A p \in DOMAIN index : index[p] \in Nat /\ EndOf(a, index, p) <= end
  /\ \A p, q \in DOMAIN index :
       p # q => EndOf(a, index, p) <= index[q] \/ EndOf(a, index, q) <= index[p]

\* The index that is made of them, behind the last.
OrderOf(index) == InOrder(DOMAIN index, PathRank)
RegionAt(offset, body) == [offset |-> offset, size |-> 1, sha |-> body]
ModernIndex(a, index, end) ==
  LET paths == OrderOf(index) IN
  [kind |-> "modern", mount |-> a.mount, count |-> Len(paths), seed |-> 0,
   hashes |-> <<RegionAt(end + 1, PathHashIndex(paths))>>,
   directory |-> <<RegionAt(end + 2, DirectoryIndex(paths))>>,
   space |-> Len(paths), extra |-> 0,
   records |-> [o \in 0..(Len(paths) - 1) |->
                  Encoded(index[paths[o + 1]], Made(a, index, paths[o + 1]).header)]]

\* Every payload of a file is one of them; only an empty one may be missing.
PayloadsKnown(a, index, f) ==
  \A o \in DOMAIN f.at : f.at[o].body.kind = "payload" =>
    \E p \in DOMAIN index :
      o = PayloadAt(a, index, p) /\ f.at[o].size = Len(Made(a, index, p).payload)
KindsKnown(f) ==
  \A o \in DOMAIN f.at :
    /\ f.at[o] = [size |-> f.at[o].size, body |-> f.at[o].body]
    /\ "kind" \in DOMAIN f.at[o].body
    /\ f.at[o].body.kind \in {"header", "payload", "modern", "hashes", "directory"}
\* A file has what was written of a path, as it was written.
HasEntry(a, index, f, p) ==
  LET m == Made(a, index, p)
      o == PayloadAt(a, index, p)
  IN /\ index[p] \in DOMAIN f.at
     /\ f.at[index[p]] = [size |-> m.headerSize, body |-> m.header]
     /\ m.payload # << >> =>
          o \in DOMAIN f.at /\ f.at[o] = [size |-> Len(m.payload), body |-> [kind |-> "payload", bytes |-> m.payload]]
IsFile(f) == f = [at |-> f.at, end |-> f.end, footer |-> f.footer]
\* A file under way, before its index.
Built(a, index, f) ==
  /\ IsFile(f) /\ f.footer = NoFooter /\ f.end \in Nat
  /\ Apart(a, index, f.end) /\ PayloadsKnown(a, index, f) /\ KindsKnown(f)
  /\ \A p \in DOMAIN index : HasEntry(a, index, f, p)

\* A file with its index, which lies at the three places before its end.
IndexAt(f) == f.end - 3
HasIndex(f, bodies) ==
  \A k \in 1..3 : /\ IndexAt(f) + k - 1 \in DOMAIN f.at
                  /\ f.at[IndexAt(f) + k - 1] = [size |-> 1, body |-> bodies[k]]
Laid(a, index, f) ==
  /\ IsFile(f) /\ f.footer # NoFooter /\ f.end \in Nat /\ IndexAt(f) \in Nat
  /\ Apart(a, index, IndexAt(f)) /\ PayloadsKnown(a, index, f) /\ KindsKnown(f)
  /\ DOMAIN index = ToSet(a.paths)
IndexBodies(a, index, end) ==
  <<ModernIndex(a, index, end), PathHashIndex(OrderOf(index)), DirectoryIndex(OrderOf(index))>>
\* As it was written, but for what its footer says besides the index.
Whole(a, index, f) ==
  /\ Laid(a, index, f)
  /\ \A p \in DOMAIN index : HasEntry(a, index, f, p)
  /\ HasIndex(f, IndexBodies(a, index, IndexAt(f)))
  /\ f.footer.index = RegionAt(IndexAt(f), ModernIndex(a, index, IndexAt(f)))
\* As it was written.
Pristine(a, index, f) ==
  /\ Whole(a, index, f)
  /\ f.footer = Footer(110, SlotNamesFor(110, a.codec), f.footer.index)

\* What damages can make of a header and of a payload.
Listed(s) == Len(s) \in Nat /\ s = [i \in 1..Len(s) |-> s[i]]
HeaderFrom(b, h) ==
  /\ b = [kind |-> "header", offset |-> 0, stored |-> b.stored, size |-> b.size, method |-> b.method,
          time |-> 0, sha |-> b.sha, blocks |-> h.blocks, flags |-> b.flags, blockSize |-> b.blockSize]
  /\ Listed(b.sha) /\ (b.sha = h.sha \/ Len(b.sha) > Len(h.sha))
PayloadFrom(b, bytes) ==
  /\ b = [kind |-> "payload", bytes |-> b.bytes]
  /\ b.bytes = [i \in DOMAIN bytes |-> b.bytes[i]]
WornEntry(a, index, f, p) ==
  LET m == Made(a, index, p)
      o == PayloadAt(a, index, p)
  IN /\ index[p] \in DOMAIN f.at
     /\ f.at[index[p]].size = m.headerSize /\ HeaderFrom(f.at[index[p]].body, m.header)
     /\ m.payload # << >> =>
          o \in DOMAIN f.at /\ f.at[o].size = Len(m.payload) /\ PayloadFrom(f.at[o].body, m.payload)
\* A file that was written and then damaged, however often: an index may be
\* anything, but the footer has its digest.
Worn(a, index, f) ==
  /\ Laid(a, index, f)
  /\ \A p \in DOMAIN index : WornEntry(a, index, f, p)
  /\ \A k \in 1..3 : /\ IndexAt(f) + k - 1 \in DOMAIN f.at
                     /\ f.at[IndexAt(f) + k - 1].size = 1
                     /\ f.at[IndexAt(f) + k - 1].body.kind = <<"modern", "hashes", "directory">>[k]
  /\ f.footer = [shape |-> FooterShape(110), version |-> f.footer.version, encrypted |-> f.footer.encrypted,
                 frozen |-> 0, names |-> f.footer.names, index |-> f.footer.index]
  /\ f.footer.version \in {10, 11}
  /\ f.footer.index.offset \in Nat /\ f.footer.index.offset >= IndexAt(f)
  /\ f.footer.index = RegionAt(f.footer.index.offset, ModernIndex(a, index, IndexAt(f)))

\* There is a file of the call: under way, or when it has succeeded.
There == file # None \/ result = "written"
\* A call under way has written the first of its entries, and collected the
\* digests that were wanted of them.
WrittenInv ==
  /\ CallFits(asked)
  /\ position \in 0..Len(asked.paths)
  /\ DOMAIN written = {asked.paths[i] : i \in 1..position}
  /\ {Fold[p] : p \in DOMAIN sourceSha} = {Fold[p] : p \in DOMAIN written} \cap asked.hashed
  /\ There /\ ~Complete => result = None /\ Built(asked, written, file)
  /\ There /\ Complete => position = Len(asked.paths) /\ Worn(asked, written, file)
  /\ There /\ Complete /\ damage = 0 => Pristine(asked, written, file)
EndedInv ==
  /\ result = "failed" => file = None
  /\ result = "written" => Complete
  /\ verdict # None => result = "written"
  /\ verdict = TRUE => OpensChecked(file)
WriterInv ==
  /\ Untouched
  /\ asked = None => /\ result # "written" /\ verdict = None
                     /\ position = 0 /\ written = << >> /\ sourceSha = << >>
  /\ asked # None => WrittenInv /\ EndedInv

-----------------------------------------------------------------------------
(***************************************************************************)
(* Sequences that are flattened, sizes that are added up                   *)
(***************************************************************************)
\* A set of numbers has a least one.
LEMMA Smallest ==
  ASSUME NEW S \in SUBSET Nat, S # {}
  PROVE  \E m \in S : \A n \in S : m <= n
<1>1. PICK m \in S : \A n \in S : ~(<<n, m>> \in OpToRel(<, Nat))
  BY NatLessThanWellFounded, WFMin, Zenon
<1>2. \A n \in S : ~(n < m)
  BY <1>1 DEF OpToRel
<1> QED
  BY <1>2

\* What a flattened list is, when the flattened beginnings are known.
LEMMA FlattenIs ==
  ASSUME NEW seqs, NEW n \in Nat, n >= 1, Len(seqs) = n,
         NEW F, F[1] = seqs[1], \A i \in 2..n : F[i] = F[i - 1] \o seqs[i]
  PROVE  FlattenSeq(seqs) = F[n]
<1> DEFINE Is(g) == g = [i \in 1..n |-> IF i = 1 THEN seqs[i] ELSE g[i - 1] \o seqs[i]]
           flatten == CHOOSE g : Is(g)
           G == [i \in 1..n |-> F[i]]
           wrong == {i \in 1..n : flatten[i] # F[i]}
<1>1. FlattenSeq(seqs) = flatten[n]
  BY DEF FlattenSeq
<1>2. Is(G)
  <2>1. \A i \in 1..n : i # 1 => i - 1 \in 1..n /\ i \in 2..n
    OBVIOUS
  <2>2. \A i \in 1..n : G[i] = IF i = 1 THEN seqs[i] ELSE G[i - 1] \o seqs[i]
    BY <2>1
  <2> QED
    BY <2>2
<1> HIDE DEF G
<1>3. Is(flatten)
  BY <1>2
<1> HIDE DEF flatten
<1>4. wrong = {}
  <2> SUFFICES ASSUME wrong # {} PROVE FALSE
    OBVIOUS
  <2>0. wrong \in SUBSET Nat
    OBVIOUS
  <2>1. PICK m \in wrong : \A k \in wrong : m <= k
    BY <2>0, Smallest, Zenon
  <2>2. m # 1
    BY <1>3, <2>1
  <2>3. m - 1 \in 1..n /\ m \in 2..n /\ ~(m <= m - 1)
    BY <2>1, <2>2
  <2>4. flatten[m - 1] = F[m - 1]
    BY <2>1, <2>3
  <2>5. flatten[m] = flatten[m - 1] \o seqs[m]
    BY <1>3, <2>2, <2>3
  <2> QED
    BY <2>1, <2>3, <2>4, <2>5
<1> QED
  BY <1>1, <1>4

\* The beginning of a list grows by a piece.
LEMMA BeginningGrows ==
  ASSUME NEW S, NEW s \in Seq(S), NEW i \in Nat, NEW j \in Nat, i <= j, j <= Len(s)
  PROVE  SubSeq(s, 1, i) \o SubSeq(s, i + 1, j) = SubSeq(s, 1, j)
OBVIOUS

\* One piece of a list.
LEMMA PieceOf ==
  ASSUME NEW S, NEW s \in Seq(S), NEW i \in 1..Len(s)
  PROVE  SubSeq(s, i, i) = <<s[i]>>
<1>1. SubSeq(s, i, i) = [k \in 1..1 |-> s[i]]
  OBVIOUS
<1>2. <<s[i]>> = [k \in 1..1 |-> s[i]]
  OBVIOUS
<1> QED
  BY <1>1, <1>2

\* A flattened list of one list, and of none.
LEMMA FlattenFew ==
  ASSUME NEW s
  PROVE  FlattenSeq(<< >>) = << >> /\ FlattenSeq(<<s>>) = s
<1>1. FlattenSeq(<< >>) = << >>
  BY DEF FlattenSeq
<1> DEFINE seqs == <<s>>
           F == <<s>>
<1>2. Len(seqs) = 1 /\ F[1] = seqs[1] /\ \A i \in 2..1 : F[i] = F[i - 1] \o seqs[i]
  OBVIOUS
<1>3. F[1] = s
  OBVIOUS
<1> HIDE DEF F, seqs
<1>4. 1 \in Nat /\ 1 >= 1
  OBVIOUS
<1>5. FlattenSeq(seqs) = F[1]
  BY <1>2, <1>4, FlattenIs, ZenonT(60)
<1> QED
  BY <1>1, <1>3, <1>5 DEF seqs

\* A payload that was stored has the bytes of the contents.
LEMMA PlainBytesBack ==
  ASSUME NEW S, NEW data \in Seq(S)
  PROVE  PlainBytes(Plain(data)) = data
<1> DEFINE n == Len(data)
           seqs == [i \in 1..n |-> <<data[i]>>]
           F == [i \in 1..n |-> SubSeq(data, 1, i)]
<1>1. n \in Nat /\ DOMAIN data = 1..n
  OBVIOUS
<1>2. PlainBytes(Plain(data)) = FlattenSeq(seqs)
  BY <1>1 DEF PlainBytes, Plain
<1>3. CASE n = 0
  <2>1. seqs = << >> /\ data = << >>
    BY <1>3
  <2> QED
    BY <1>2, <2>1, FlattenFew
<1>4. CASE n # 0
  <2>1. F[1] = seqs[1]
    <3>1. 1 \in 1..n
      BY <1>1, <1>4
    <3>2. SubSeq(data, 1, 1) = <<data[1]>>
      BY <3>1, PieceOf
    <3> QED
      BY <3>1, <3>2, Zenon
  <2>2. ASSUME NEW i \in 2..n
        PROVE  F[i] = F[i - 1] \o seqs[i]
    <3>1. i - 1 \in Nat /\ i \in Nat /\ i - 1 <= i /\ i <= Len(data) /\ i - 1 \in 1..n /\ i \in 1..n
      BY <1>1
    <3>2. SubSeq(data, 1, i - 1) \o SubSeq(data, (i - 1) + 1, i) = SubSeq(data, 1, i)
      BY <3>1, BeginningGrows
    <3>3. SubSeq(data, (i - 1) + 1, i) = <<data[i]>>
      <4>1. (i - 1) + 1 = i
        BY <3>1
      <4> QED
        BY <3>1, <4>1, PieceOf
    <3>4. F[i] = SubSeq(data, 1, i) /\ F[i - 1] = SubSeq(data, 1, i - 1) /\ seqs[i] = <<data[i]>>
      BY <3>1, Zenon
    <3> HIDE DEF F, seqs
    <3> QED
      BY <3>2, <3>3, <3>4, Zenon
  <2>3. Len(seqs) = n
    BY <1>1
  <2>4. F[n] = data
    BY <1>1, <1>4
  <2>5. n \in Nat /\ n >= 1
    BY <1>1, <1>4
  <2> HIDE DEF F, seqs, n
  <2>6. FlattenSeq(seqs) = F[n]
    <3>1. \A i \in 2..n : F[i] = F[i - 1] \o seqs[i]
      BY <2>2, Zenon
    <3>2. n \in Nat /\ n >= 1 /\ Len(seqs) = n /\ F[1] = seqs[1]
      BY <2>1, <2>3, <2>5, Zenon
    <3> QED
      BY <3>1, <3>2, FlattenIs, ZenonT(30)
  <2> QED
    BY <1>2, <2>4, <2>6, Zenon
<1> QED
  BY <1>3, <1>4

\* A quotient that is rounded up.
LEMMA CeilDivIs ==
  ASSUME NEW a \in Nat, NEW n \in Nat, n >= 1
  PROVE  /\ CeilDiv(a, n) \in Nat
         /\ CeilDiv(a, n) * n >= a
         /\ a >= 1 => CeilDiv(a, n) >= 1 /\ (CeilDiv(a, n) - 1) * n < a
         /\ a = 0 => CeilDiv(a, n) = 0
<1> DEFINE q == (a + n - 1) \div n
<1>1. q \in Int /\ q * n <= a + n - 1 /\ a + n - 1 < q * n + n
  OBVIOUS
<1>2. (q - 1) * n = q * n - n
  BY <1>1
<1>3. CeilDiv(a, n) = q
  BY DEF CeilDiv
<1> HIDE DEF q
<1>4. q >= 0
  <2> SUFFICES ASSUME q < 0 PROVE FALSE
    BY <1>1
  <2>1. q <= -1 
    BY <1>1
  <2>2. q * n <= (-1) * n
    BY <1>1, <2>1
  <2> QED
    BY <1>1, <2>2
<1>5. a >= 1 => q >= 1
  <2> SUFFICES ASSUME a >= 1, q = 0 PROVE FALSE
    BY <1>1, <1>4
  <2> QED
    BY <1>1
<1>6. a = 0 => q = 0
  <2> SUFFICES ASSUME a = 0, q >= 1 PROVE FALSE
    BY <1>1, <1>4
  <2>1. q * n >= n
    BY <1>1
  <2> QED
    BY <1>1, <2>1
<1> QED
  BY <1>1, <1>2, <1>3, <1>4, <1>5, <1>6

\* A smaller multiple.
LEMMA TimesGrows ==
  ASSUME NEW i \in Nat, NEW j \in Nat, NEW n \in Nat, i <= j
  PROVE  i * n <= j * n /\ i * n \in Nat /\ j * n \in Nat
OBVIOUS

\* The least of two numbers.
LEMMA LeastIs ==
  ASSUME NEW a \in Nat, NEW b \in Nat
  PROVE  /\ Least(a, b) \in Nat /\ Least(a, b) <= a /\ Least(a, b) <= b
         /\ a <= b => Least(a, b) = a
         /\ b <= a => Least(a, b) = b
BY DEF Least

\* Contents that were cut into blocks: where each begins and ends.
LEMMA ChunkIs ==
  ASSUME NEW S, NEW data \in Seq(S), NEW n \in Nat, n >= 1, NEW c, c = CeilDiv(Len(data), n),
         NEW i \in 1..c
  PROVE  /\ c \in Nat /\ i \in Nat /\ i - 1 \in Nat
         /\ (i - 1) * n \in Nat /\ i * n \in Nat /\ (i - 1) * n + n = i * n
         /\ (i - 1) * n < Len(data) /\ (i - 1) * n < Least(i * n, Len(data))
         /\ Least(i * n, Len(data)) \in Nat /\ Least(i * n, Len(data)) <= Len(data)
         /\ i < c => Least(i * n, Len(data)) = i * n
         /\ i = c => Least(i * n, Len(data)) = Len(data)
         /\ Chunks(data, n)[i] = SubSeq(data, (i - 1) * n + 1, Least(i * n, Len(data)))
<1> DEFINE size == Len(data)
<1>1. size \in Nat
  OBVIOUS
<1>2. Chunks(data, n)[i] = SubSeq(data, (i - 1) * n + 1, Least(i * n, Len(data)))
  BY DEF Chunks
<1> HIDE DEF size
<1>3. c = CeilDiv(size, n)
  BY DEF size
<1>4. c \in Nat /\ c * n >= size /\ (size >= 1 => (c - 1) * n < size) /\ (size = 0 => c = 0)
  BY <1>1, <1>3, CeilDivIs
<1>5. c \in Nat /\ i \in Nat /\ i - 1 \in Nat /\ i >= 1 /\ i <= c /\ c >= 1 /\ c - 1 \in Nat /\ i - 1 <= c - 1
  BY <1>4
<1>6. size >= 1 /\ (c - 1) * n < size
  BY <1>1, <1>4, <1>5
<1>7. /\ (i - 1) * n <= (c - 1) * n /\ (i - 1) * n \in Nat /\ (c - 1) * n \in Nat
      /\ i * n <= c * n /\ i * n \in Nat /\ c * n \in Nat
  <2>1. (i - 1) * n <= (c - 1) * n /\ (i - 1) * n \in Nat /\ (c - 1) * n \in Nat
    BY <1>5, TimesGrows, Zenon
  <2>2. i * n <= c * n /\ i * n \in Nat /\ c * n \in Nat
    BY <1>5, TimesGrows, Zenon
  <2> QED
    BY <2>1, <2>2
<1>8. (i - 1) * n + n = i * n
  BY <1>5
<1>9. i < c => i * n <= (c - 1) * n
  <2> SUFFICES ASSUME i < c PROVE i * n <= (c - 1) * n
    OBVIOUS
  <2>1. i <= c - 1
    BY <1>5
  <2> QED
    BY <1>5, <2>1, TimesGrows
<1>10. i = c => i * n = c * n
  OBVIOUS
<1>11. (i - 1) * n < size
  BY <1>1, <1>6, <1>7
<1> DEFINE from == (i - 1) * n
           to == i * n
           last == (c - 1) * n
           over == c * n
<1>12. /\ from \in Nat /\ to \in Nat /\ last \in Nat /\ over \in Nat /\ from < size /\ from + n = to
       /\ last < size /\ over >= size /\ (i < c => to <= last) /\ (i = c => to = over)
  BY <1>4, <1>6, <1>7, <1>8, <1>9, <1>10, <1>11
<1> HIDE DEF from, to, last, over
<1>13. /\ from < Least(to, size) /\ Least(to, size) \in Nat /\ Least(to, size) <= size
       /\ i < c => Least(to, size) = to
       /\ i = c => Least(to, size) = size
  BY <1>1, <1>12 DEF Least
<1> QED
  BY <1>2, <1>5, <1>12, <1>13 DEF from, to, size

\* The blocks of the contents, one behind the other, are the contents.
LEMMA ChunksBack ==
  ASSUME NEW S, NEW data \in Seq(S), data # << >>, NEW n \in Nat, n >= 1
  PROVE  FlattenSeq(Chunks(data, n)) = data
<1> DEFINE c == CeilDiv(Len(data), n)
           to(i) == Least(i * n, Len(data))
           pieces == Chunks(data, n)
           begun == [i \in 1..c |-> SubSeq(data, 1, to(i))]
<1>1. Len(data) \in Nat /\ Len(data) >= 1
  OBVIOUS
<1>2. c \in Nat /\ c >= 1 /\ Len(pieces) = c
  <2>1. c \in Nat /\ c >= 1
    BY <1>1, CeilDivIs
  <2>2. pieces = [i \in 1..c |-> SubSeq(data, (i - 1) * n + 1, to(i))]
    BY DEF Chunks
  <2> HIDE DEF pieces, c, to
  <2> QED
    BY <2>1, <2>2
<1> HIDE DEF c, pieces
<1>3. ASSUME NEW i \in 1..c
      PROVE  /\ i - 1 \in Nat /\ (i - 1) * n \in Nat /\ (i - 1) * n <= to(i) /\ to(i) \in Nat /\ to(i) <= Len(data)
             /\ pieces[i] = SubSeq(data, (i - 1) * n + 1, to(i))
             /\ i < c => to(i) = i * n
             /\ i = c => to(i) = Len(data)
  <2> USE DEF c, pieces
  <2>1. /\ i - 1 \in Nat /\ (i - 1) * n \in Nat /\ i * n \in Nat /\ (i - 1) * n < to(i) /\ to(i) \in Nat
        /\ to(i) <= Len(data)
    BY ChunkIs
  <2>2. pieces[i] = SubSeq(data, (i - 1) * n + 1, to(i))
    BY ChunkIs
  <2>3. (i < c => to(i) = i * n) /\ (i = c => to(i) = Len(data))
    BY ChunkIs
  <2> HIDE DEF c, pieces, to
  <2> QED
    BY <2>1, <2>2, <2>3
<1> HIDE DEF to
<1>4. begun[1] = pieces[1]
  <2>1. (1 - 1) * n + 1 = 1 /\ 1 \in 1..c
    BY <1>2
  <2>2. pieces[1] = SubSeq(data, 1, to(1))
    BY <1>3, <2>1
  <2> QED
    BY <2>1, <2>2
<1>5. ASSUME NEW i \in 2..c
      PROVE  begun[i] = begun[i - 1] \o pieces[i]
  <2>1. i \in 1..c /\ i - 1 \in 1..c /\ i - 1 < c
    BY <1>2
  <2>2. to(i - 1) = (i - 1) * n
    BY <1>3, <2>1
  <2>3. SubSeq(data, 1, to(i - 1)) \o SubSeq(data, to(i - 1) + 1, to(i)) = SubSeq(data, 1, to(i))
    BY <1>3, <2>1, <2>2, BeginningGrows
  <2>4. pieces[i] = SubSeq(data, to(i - 1) + 1, to(i))
    BY <1>3, <2>1, <2>2
  <2>5. begun[i] = SubSeq(data, 1, to(i)) /\ begun[i - 1] = SubSeq(data, 1, to(i - 1))
    BY <2>1, Zenon
  <2> HIDE DEF begun
  <2> QED
    BY <2>3, <2>4, <2>5, Zenon
<1>6. begun[c] = data
  <2>1. c \in 1..c
    BY <1>2
  <2>2. begun[c] = SubSeq(data, 1, Len(data))
    BY <1>3, <2>1
  <2>3. SubSeq(data, 1, Len(data)) = data
    BY SubSeqFull
  <2> QED
    BY <2>2, <2>3, Zenon
<1> HIDE DEF begun
<1>7. \A i \in 2..c : begun[i] = begun[i - 1] \o pieces[i]
  BY <1>5, Zenon
<1>8. FlattenSeq(pieces) = begun[c]
  BY <1>2, <1>4, <1>7, FlattenIs, ZenonT(30)
<1> QED
  BY <1>6, <1>8, Zenon DEF pieces

\* The sum of ones is how many there are.
LEMMA TotalOfOnes ==
  ASSUME NEW s, NEW n \in Nat, s = [i \in 1..n |-> 1]
  PROVE  Total(s) = n
<1> DEFINE D == 1..n
           some(d) == CHOOSE x \in d : TRUE
           Is(g) == g = [d \in SUBSET D |-> IF d = {} THEN 0 ELSE s[some(d)] + g[d \ {some(d)}]]
           iter == CHOOSE g : Is(g)
           G == [d \in SUBSET D |-> Cardinality(d)]
           wrong == {Cardinality(d) : d \in {d \in SUBSET D : iter[d] # Cardinality(d)}}
<1>1. DOMAIN s = D
  OBVIOUS
<1>2. Total(s) = iter[D]
  BY <1>1 DEF Total, FoldSeq, FoldFunction, FoldFunctionOnSet, MapThenFoldSet
<1>3. IsFiniteSet(D) /\ Cardinality(D) = n
  BY UpTo
<1>4. ASSUME NEW d \in SUBSET D
      PROVE  /\ IsFiniteSet(d) /\ Cardinality(d) \in Nat
             /\ d = {} => Cardinality(d) = 0
             /\ d # {} => /\ some(d) \in D /\ s[some(d)] = 1 /\ d \ {some(d)} \in SUBSET D
                          /\ Cardinality(d \ {some(d)}) = Cardinality(d) - 1
  <2>1. IsFiniteSet(d)
    BY <1>3, FS_Subset
  <2>2. Cardinality(d) \in Nat
    BY <2>1, FS_CardinalityType
  <2>3. d = {} => Cardinality(d) = 0
    BY FS_EmptySet
  <2>4. ASSUME d # {}
        PROVE  some(d) \in d
    BY <2>4
  <2>5. d # {} => some(d) \in D /\ s[some(d)] = 1 /\ d \ {some(d)} \in SUBSET D
    BY <2>4
  <2> HIDE DEF some
  <2>6. d # {} => Cardinality(d \ {some(d)}) = Cardinality(d) - 1
    BY <2>1, <2>4, FS_RemoveElement
  <2> QED
    BY <2>1, <2>2, <2>3, <2>5, <2>6
<1> HIDE DEF D, some
<1>5. Is(G)
  <2>1. ASSUME NEW d \in SUBSET D
        PROVE  G[d] = IF d = {} THEN 0 ELSE s[some(d)] + G[d \ {some(d)}]
    <3>1. CASE d = {}
      BY <1>4, <3>1
    <3>2. CASE d # {}
      <4>1. G[d \ {some(d)}] = Cardinality(d) - 1 /\ s[some(d)] = 1 /\ Cardinality(d) \in Nat
        BY <1>4, <3>2
      <4> QED
        BY <3>2, <4>1
    <3> QED
      BY <3>1, <3>2
  <2> QED
    BY <2>1
<1> HIDE DEF G
<1>6. Is(iter)
  BY <1>5
<1> HIDE DEF iter
<1>7. wrong = {}
  <2> SUFFICES ASSUME wrong # {} PROVE FALSE
    OBVIOUS
  <2>1. wrong \in SUBSET Nat
    BY <1>4
  <2>2. PICK m \in wrong : \A k \in wrong : m <= k
    BY <2>1, Smallest, Zenon
  <2>3. PICK d \in SUBSET D : iter[d] # Cardinality(d) /\ m = Cardinality(d)
    BY <2>2
  <2>4. d # {}
    BY <1>4, <1>6, <2>3
  <2>5. iter[d] = s[some(d)] + iter[d \ {some(d)}]
    BY <1>6, <2>4
  <2>6. /\ s[some(d)] = 1 /\ Cardinality(d \ {some(d)}) = Cardinality(d) - 1
        /\ d \ {some(d)} \in SUBSET D /\ Cardinality(d) \in Nat
    BY <1>4, <2>4
  <2>7. ~(m <= Cardinality(d) - 1)
    BY <2>3, <2>6
  <2>8. iter[d \ {some(d)}] = Cardinality(d) - 1
    <3> SUFFICES ASSUME iter[d \ {some(d)}] # Cardinality(d \ {some(d)}) PROVE FALSE
      BY <2>6
    <3>1. Cardinality(d \ {some(d)}) \in wrong
      BY <2>6
    <3> QED
      BY <2>2, <2>6, <2>7, <3>1
  <2> QED
    BY <2>3, <2>5, <2>6, <2>8
<1>8. iter[D] = Cardinality(D)
  BY <1>7
<1> QED
  BY <1>2, <1>3, <1>8

-----------------------------------------------------------------------------
(***************************************************************************)
(* What is in a set, in order                                              *)
(***************************************************************************)
\* Where each of them has a rank of its own, there is one order of them.
LEMMA InOrderIs ==
  ASSUME NEW S, IsFiniteSet(S), NEW rank, \A x \in S : rank[x] \in Nat,
         \A x, y \in S : rank[x] = rank[y] => x = y
  PROVE  /\ Cardinality(S) \in Nat
         /\ InOrder(S, rank) \in Bijection(1..Cardinality(S), S)
<1> DEFINE n == Cardinality(S)
           upTo(x) == {y \in S : rank[y] <= rank[x]}
           place == [x \in S |-> Cardinality(upTo(x))]
           at(i) == CHOOSE x \in S : place[x] = i
           order == [i \in 1..n |-> at(i)]
<1>1. n \in Nat
  BY FS_CardinalityType
<1>2. ASSUME NEW x \in S
      PROVE  /\ upTo(x) \in SUBSET S /\ IsFiniteSet(upTo(x)) /\ x \in upTo(x)
             /\ place[x] = Cardinality(upTo(x)) /\ place[x] \in 1..n
  <2>1. upTo(x) \in SUBSET S /\ x \in upTo(x)
    OBVIOUS
  <2> HIDE DEF upTo
  <2>2. IsFiniteSet(upTo(x)) /\ Cardinality(upTo(x)) <= n /\ Cardinality(upTo(x)) \in Nat
    BY <2>1, FS_Subset, FS_CardinalityType
  <2>3. Cardinality(upTo(x)) # 0
    BY <2>1, <2>2, FS_EmptySet
  <2> QED
    BY <1>1, <2>1, <2>2, <2>3
<1>3. ASSUME NEW x \in S, NEW y \in S, rank[x] < rank[y]
      PROVE  place[x] < place[y]
  <2>1. upTo(x) \in SUBSET upTo(y) /\ y \in upTo(y) /\ y \notin upTo(x)
    BY <1>3
  <2>2. upTo(x) # upTo(y)
    BY <2>1
  <2> HIDE DEF upTo
  <2>3. /\ Cardinality(upTo(x)) <= Cardinality(upTo(y))
        /\ Cardinality(upTo(x)) # Cardinality(upTo(y))
    BY <1>2, <2>1, <2>2, FS_Subset
  <2> QED
    BY <1>2, <2>3
<1> HIDE DEF upTo, n, place
<1>4. place \in Injection(S, 1..n)
  <2>1. ASSUME NEW x \in S, NEW y \in S, place[x] = place[y]
        PROVE  x = y
    <3>1. rank[x] \in Nat /\ rank[y] \in Nat /\ place[x] \in Nat /\ place[y] \in Nat
      BY <1>2
    <3>2. ~(rank[x] < rank[y]) /\ ~(rank[y] < rank[x])
      BY <1>3, <2>1, <3>1
    <3>3. rank[x] = rank[y]
      BY <3>1, <3>2
    <3> QED
      BY <3>3
  <2>2. place \in [S -> 1..n]
    BY <1>2 DEF place
  <2> QED
    BY <2>1, <2>2 DEF Injection, IsInjective
<1>5. IsFiniteSet(1..n) /\ Cardinality(1..n) = n
  BY <1>1, UpTo
<1>6. place \in Surjection(S, 1..n)
  <2>1. Cardinality(S) = Cardinality(1..n)
    BY <1>5 DEF n
  <2> QED
    BY <1>4, <1>5, <2>1, FS_Injection
<1>7. ASSUME NEW i \in 1..n
      PROVE  at(i) \in S /\ place[at(i)] = i
  <2>1. \E x \in S : place[x] = i
    BY <1>6 DEF Surjection
  <2> QED
    BY <2>1
<1>8. ASSUME NEW x \in S
      PROVE  place[x] \in 1..n /\ at(place[x]) = x
  <2>1. place[x] \in 1..n
    BY <1>2
  <2>2. at(place[x]) \in S /\ place[at(place[x])] = place[x]
    BY <1>7, <2>1
  <2> QED
    BY <1>4, <2>1, <2>2 DEF Injection, IsInjective
<1> HIDE DEF at
<1>9. order \in Bijection(1..n, S)
  <2>1. order \in [1..n -> S]
    BY <1>7
  <2>2. \A i, j \in 1..n : order[i] = order[j] => i = j
    BY <1>7
  <2>3. \A x \in S : \E i \in 1..n : order[i] = x
    BY <1>8
  <2> HIDE DEF order
  <2> QED
    BY <2>1, <2>2, <2>3 DEF Bijection, Injection, Surjection, IsInjective
<1>10. \A i, j \in 1..n : i < j => rank[order[i]] <= rank[order[j]]
  <2> SUFFICES ASSUME NEW i \in 1..n, NEW j \in 1..n, i < j
               PROVE  rank[at(i)] <= rank[at(j)]
    OBVIOUS
  <2>1. rank[at(i)] \in Nat /\ rank[at(j)] \in Nat /\ place[at(i)] = i /\ place[at(j)] = j
    BY <1>7
  <2>2. ~(rank[at(j)] < rank[at(i)])
    BY <1>3, <1>7, <2>1
  <2> QED
    BY <2>1, <2>2
<1> HIDE DEF order
<1>11. \E s \in Bijection(1..n, S) : \A i, j \in 1..n : i < j => rank[s[i]] <= rank[s[j]]
  BY <1>9, <1>10
<1> QED
  BY <1>1, <1>11 DEF InOrder, n

\* The order as a list.
LEMMA OrderIs ==
  ASSUME NEW S, IsFiniteSet(S), NEW rank, \A x \in S : rank[x] \in Nat,
         \A x, y \in S : rank[x] = rank[y] => x = y,
         NEW o, o = InOrder(S, rank)
  PROVE  /\ o \in Seq(S) /\ Len(o) = Cardinality(S) /\ Len(o) \in Nat /\ DOMAIN o = 1..Len(o)
         /\ ToSet(o) = S /\ \A i \in DOMAIN o : o[i] \in S
         /\ \A i, j \in DOMAIN o : o[i] = o[j] => i = j
<1>1. Cardinality(S) \in Nat /\ o \in Bijection(1..Cardinality(S), S)
  BY InOrderIs
<1> DEFINE n == Cardinality(S)
<1> HIDE DEF n
<1>2. /\ n \in Nat /\ o \in [1..n -> S] /\ \A x \in S : \E i \in 1..n : o[i] = x
      /\ \A i, j \in 1..n : o[i] = o[j] => i = j
  BY <1>1 DEF n, Bijection, Injection, Surjection, IsInjective
<1>3. o \in Seq(S) /\ Len(o) = n
  BY <1>2
<1>4. ToSet(o) = S
  BY <1>2 DEF ToSet
<1> QED
  BY <1>2, <1>3, <1>4 DEF n

-----------------------------------------------------------------------------
(***************************************************************************)
(* The entry that is written of some contents                              *)
(***************************************************************************)
\* A block has a size.
LEMMA BlockSizeIs ==
  ASSUME NEW size \in Nat
  PROVE  BlockSizeFor(size) \in Nat /\ BlockSizeFor(size) >= 1
<1> USE PakAssumption
<1>1. CASE size = 0
  BY <1>1 DEF BlockSizeFor
<1>2. CASE size # 0
  <2> DEFINE atLeast == CeilDiv(size, BlockLimit)
             block == Greatest(atLeast, DefaultBlock)
             units == CeilDiv(block, Align)
  <2>1. BlockLimit \in Nat /\ BlockLimit >= 1 /\ DefaultBlock \in Nat /\ DefaultBlock >= 1 /\ Align \in Nat /\ Align >= 1
    OBVIOUS
  <2>2. atLeast \in Nat
    BY <2>1, CeilDivIs
  <2> HIDE DEF atLeast
  <2>3. block \in Nat /\ block >= 1
    BY <2>1, <2>2 DEF Greatest
  <2> HIDE DEF block
  <2>4. units \in Nat /\ units >= 1
    BY <2>1, <2>3, CeilDivIs
  <2>5. BlockSizeFor(size) = units * Align
    BY <1>2 DEF BlockSizeFor, units, block, atLeast
  <2> HIDE DEF units
  <2>6. units * Align \in Nat /\ units * Align >= 1
    <3>1. 1 * Align <= units * Align
      BY <2>1, <2>4, TimesGrows
    <3> QED
      BY <2>1, <2>4, <3>1
  <2> QED
    BY <2>5, <2>6
<1> QED
  BY <1>1, <1>2

\* Headers of versions 10 and 11 are of one size.
LEMMA ModernHeaderSize ==
  ASSUME NEW l \in {100, 110}, NEW method, NEW n \in Nat
  PROVE  HeaderSize(l, method, n) = IF method = 0 THEN 53 ELSE 57 + 16 * n
<1>1. Major(l) \in {10, 11} /\ l # 80
  BY DEF Major
<1> QED
  BY <1>1 DEF HeaderSize

\* An entry that is stored.
LEMMA StoredEntry ==
  ASSUME NEW codec, NEW at, NEW data, codec = "none" \/ data = << >>,
         NEW m, m = WrittenEntry(110, codec, at, data)
  PROVE  /\ m.payload = Plain(data) /\ m.headerSize = 53
         /\ m.header = [kind |-> "header", offset |-> 0, stored |-> Len(Plain(data)), size |-> Len(data),
                        method |-> 0, time |-> 0, sha |-> Plain(data), blocks |-> << >>,
                        flags |-> 0, blockSize |-> 0]
<1>1. \A n : HeaderSize(110, 0, n) = 53
  <2>1. Major(110) = 11 /\ 110 # 80
    BY DEF Major
  <2> QED
    BY <2>1 DEF HeaderSize
<1> DEFINE plain == codec = "none" \/ data = << >>
<1>2. plain = TRUE
  OBVIOUS
<1>3. m = [payload |-> Plain(data), headerSize |-> HeaderSize(110, 0, Len(Plain(data))),
           header |-> [kind |-> "header", offset |-> 0, stored |-> Len(Plain(data)), size |-> Len(data),
                        method |-> 0, time |-> 0, sha |-> Plain(data), blocks |-> << >>,
                        flags |-> 0, blockSize |-> 0]]
  BY <1>2, Zenon DEF WrittenEntry
<1> QED
  BY <1>1, <1>3

\* An entry that is compressed.
LEMMA PackedEntry ==
  ASSUME NEW S, NEW data \in Seq(S), data # << >>, NEW at,
         NEW m, m = WrittenEntry(110, "Oodle", at, data),
         NEW n, n = BlockSizeFor(Len(data)), NEW c, c = CeilDiv(Len(data), n)
  PROVE  /\ n \in Nat /\ n >= 1 /\ c \in Nat /\ c >= 1
         /\ m.payload = [i \in 1..c |-> Packed("Oodle", Chunks(data, n)[i])]
         /\ m.headerSize = 57 + 16 * c
         /\ m.header = [kind |-> "header", offset |-> 0, stored |-> c, size |-> Len(data),
                        method |-> 1, time |-> 0, sha |-> m.payload,
                        blocks |-> [i \in 1..c |-> [start |-> m.headerSize + i - 1, end |-> m.headerSize + i]],
                        flags |-> 0, blockSize |-> IF c = 1 THEN Len(data) ELSE n]
<1>1. Len(data) \in Nat /\ Len(data) >= 1
  OBVIOUS
<1>2. n \in Nat /\ n >= 1 /\ c \in Nat /\ c >= 1
  BY <1>1, BlockSizeIs, CeilDivIs
<1> DEFINE block == BlockSizeFor(Len(data))
           chunks == Chunks(data, block)
           payload == [i \in DOMAIN chunks |-> Packed("Oodle", chunks[i])]
           hs == HeaderSize(110, 1, Len(payload))
           plain == "Oodle" = "none" \/ data = << >>
           older == Major(110) < 3
           absolute == Major(110) < 5
           slot == SlotFor(110, "Oodle")
<1>3. DOMAIN chunks = 1..c /\ chunks = Chunks(data, n)
  BY DEF Chunks
<1>4. payload = [i \in 1..c |-> Packed("Oodle", chunks[i])] /\ Len(payload) = c /\ DOMAIN payload = 1..c
  BY <1>2, <1>3
<1>5. hs = 57 + 16 * c
  BY <1>2, <1>4, ModernHeaderSize
<1>6. plain = FALSE /\ older = FALSE /\ absolute = FALSE
  BY DEF Major
<1>7. slot = 1
  <2>1. ("Oodle" = "none") = FALSE /\ (110 >= 80) = TRUE
    OBVIOUS
  <2> QED
    BY <2>1, Zenon DEF SlotFor
<1> DEFINE method == IF plain THEN 0 ELSE slot
           bytes == IF plain THEN Plain(data) ELSE payload
           size == HeaderSize(110, method, Len(bytes))
           first == IF absolute THEN at + size ELSE size
           blocks == IF plain \/ older THEN << >>
                     ELSE [i \in DOMAIN bytes |-> [start |-> first + i - 1, end |-> first + i]]
           blockSize == IF plain \/ older THEN 0 ELSE IF Len(bytes) = 1 THEN Len(data) ELSE block
<1>8. m = [payload |-> bytes, headerSize |-> size,
           header |-> [kind |-> "header", offset |-> 0, stored |-> Len(bytes), size |-> Len(data),
                       method |-> method, time |-> 0, sha |-> bytes, blocks |-> blocks,
                       flags |-> 0, blockSize |-> blockSize]]
  BY Zenon DEF WrittenEntry
<1> HIDE DEF plain, older, absolute, slot, payload, hs, chunks, block
<1>9. method = 1 /\ bytes = payload
  BY <1>6, <1>7, Zenon
<1> HIDE DEF method, bytes
<1>10. size = hs
  BY <1>9, Zenon DEF hs
<1> HIDE DEF size
<1>11. first = hs
  BY <1>6, <1>10, Zenon
<1> HIDE DEF first
<1>12. blocks = [i \in 1..c |-> [start |-> hs + i - 1, end |-> hs + i]]
  BY <1>4, <1>6, <1>9, <1>11
<1>13. blockSize = IF c = 1 THEN Len(data) ELSE n
  BY <1>4, <1>6, <1>9 DEF block
<1>14. Len(bytes) = c
  BY <1>4, <1>9
<1> HIDE DEF blocks, blockSize
<1>15. /\ m.payload = payload /\ m.headerSize = hs
       /\ m.header = [kind |-> "header", offset |-> 0, stored |-> c, size |-> Len(data),
                      method |-> 1, time |-> 0, sha |-> payload, blocks |-> blocks,
                      flags |-> 0, blockSize |-> blockSize]
  BY <1>8, <1>9, <1>10, <1>14
<1>16. payload = [i \in 1..c |-> Packed("Oodle", Chunks(data, n)[i])]
  BY <1>3, <1>4, Zenon
<1> QED
  BY <1>2, <1>5, <1>12, <1>13, <1>15, <1>16, Zenon

\* What is known of every entry that is written of contents of a size.
EntryKnown(m, size) ==
  /\ m.headerSize \in Nat /\ m.headerSize >= 53
  /\ Len(m.payload) \in Nat /\ m.payload = [i \in 1..Len(m.payload) |-> m.payload[i]]
  /\ m.payload = << >> <=> Len(m.payload) = 0
  /\ m.header = [kind |-> "header", offset |-> 0, stored |-> Len(m.payload), size |-> size,
                 method |-> m.header.method, time |-> 0, sha |-> m.payload,
                 blocks |-> m.header.blocks, flags |-> 0, blockSize |-> m.header.blockSize]
  /\ m.header.method \in {0, 1} /\ Len(m.header.blocks) \in Nat
  /\ \A l \in {100, 110} : m.headerSize = HeaderSize(l, m.header.method, Len(m.header.blocks))

LEMMA EntryIs ==
  ASSUME NEW S, NEW data \in Seq(S), NEW codec \in {"none", "Oodle"}, NEW at,
         NEW m, m = WrittenEntry(110, codec, at, data)
  PROVE  EntryKnown(m, Len(data))
<1>0. Len(m.payload) = 0 /\ m.payload = [i \in 1..Len(m.payload) |-> m.payload[i]] => m.payload = << >>
  <2>1. ASSUME m.payload = [i \in 1..0 |-> m.payload[i]]
        PROVE  m.payload = << >>
    BY <2>1
  <2> QED
    BY <2>1, Zenon
<1>1. CASE codec = "none" \/ data = << >>
  <2>1. /\ m.payload = Plain(data) /\ m.headerSize = 53
        /\ m.header = [kind |-> "header", offset |-> 0, stored |-> Len(Plain(data)), size |-> Len(data),
                       method |-> 0, time |-> 0, sha |-> Plain(data), blocks |-> << >>,
                       flags |-> 0, blockSize |-> 0]
    BY <1>1, StoredEntry
  <2>2. Plain(data) = [i \in 1..Len(data) |-> Plain(data)[i]] /\ Len(data) \in Nat /\ Len(Plain(data)) = Len(data)
    BY DEF Plain
  <2>3. m.header.method = 0 /\ m.header.blocks = << >> /\ m.header.blockSize = 0
    BY <2>1
  <2>4. \A l \in {100, 110} : m.headerSize = HeaderSize(l, m.header.method, Len(m.header.blocks))
    <3>1. \A l \in {100, 110} : HeaderSize(l, 0, 0) = 53
      BY ModernHeaderSize
    <3> QED
      BY <2>1, <2>3, <3>1
  <2>5. Len(m.header.blocks) \in Nat
    BY <2>3
  <2>6. m.header = [kind |-> "header", offset |-> 0, stored |-> Len(m.payload), size |-> Len(data),
                    method |-> m.header.method, time |-> 0, sha |-> m.payload, blocks |-> m.header.blocks,
                    flags |-> 0, blockSize |-> m.header.blockSize]
    BY <2>1, <2>3, Zenon
  <2>7. Len(m.payload) \in Nat /\ m.payload = [i \in 1..Len(m.payload) |-> m.payload[i]]
    BY <2>1, <2>2, Zenon
  <2>8. m.payload = << >> <=> Len(m.payload) = 0
    BY <1>0, <2>7
  <2>9. m.headerSize \in Nat /\ m.headerSize >= 53 /\ m.header.method \in {0, 1}
    BY <2>1, <2>3
  <2> QED
    BY <2>4, <2>5, <2>6, <2>7, <2>8, <2>9, Zenon DEF EntryKnown
<1>2. CASE codec = "Oodle" /\ data # << >>
  <2> DEFINE n == BlockSizeFor(Len(data))
             c == CeilDiv(Len(data), n)
             chunks == Chunks(data, n)
             blocks == [i \in 1..c |-> [start |-> m.headerSize + i - 1, end |-> m.headerSize + i]]
  <2>1. /\ n \in Nat /\ n >= 1 /\ c \in Nat /\ c >= 1
        /\ m.payload = [i \in 1..c |-> Packed("Oodle", chunks[i])]
        /\ m.headerSize = 57 + 16 * c
        /\ m.header = [kind |-> "header", offset |-> 0, stored |-> c, size |-> Len(data),
                       method |-> 1, time |-> 0, sha |-> m.payload, blocks |-> blocks,
                       flags |-> 0, blockSize |-> IF c = 1 THEN Len(data) ELSE n]
    BY <1>2, PackedEntry
  <2> HIDE DEF n, c, chunks
  <2>2. Len(m.payload) = c /\ m.payload = [i \in 1..c |-> m.payload[i]]
    BY <2>1
  <2>3. Len(blocks) = c
    BY <2>1
  <2> HIDE DEF blocks
  <2>4. m.header.method = 1 /\ m.header.blocks = blocks
    BY <2>1
  <2>5. m.header.blockSize = IF c = 1 THEN Len(data) ELSE n
    BY <2>1
  <2>6. \A l \in {100, 110} : m.headerSize = HeaderSize(l, m.header.method, Len(m.header.blocks))
    <3>1. \A l \in {100, 110} : HeaderSize(l, 1, c) = 57 + 16 * c
      <4> TAKE l \in {100, 110}
      <4>1. HeaderSize(l, 1, c) = IF 1 = 0 THEN 53 ELSE 57 + 16 * c
        BY <2>1, ModernHeaderSize
      <4> QED
        BY <4>1
    <3> QED
      BY <2>1, <2>3, <2>4, <3>1
  <2>7. m.headerSize \in Nat /\ m.headerSize >= 53 /\ m.header.method \in {0, 1}
    BY <2>1, <2>4
  <2>8. m.header = [kind |-> "header", offset |-> 0, stored |-> Len(m.payload), size |-> Len(data),
                    method |-> m.header.method, time |-> 0, sha |-> m.payload, blocks |-> m.header.blocks,
                    flags |-> 0, blockSize |-> m.header.blockSize]
    BY <2>1, <2>2, <2>4, <2>5, Zenon
  <2>9. Len(m.payload) \in Nat /\ m.payload = [i \in 1..Len(m.payload) |-> m.payload[i]] /\ Len(m.header.blocks) \in Nat
    BY <2>1, <2>2, <2>3, <2>4, ZenonT(60)
  <2>10. m.payload = << >> <=> Len(m.payload) = 0
    BY <1>0, <2>9
  <2> QED
    BY <2>6, <2>7, <2>8, <2>9, <2>10, Zenon DEF EntryKnown
<1> QED
  BY <1>1, <1>2

\* What is written of a path of a call.
LEMMA MadeIs ==
  ASSUME NEW a, CallFits(a), NEW index, NEW p \in Path
  PROVE  EntryKnown(Made(a, index, p), Len(a.data[p]))
<1>1. a.data[p] \in Seq(ToSet(a.data[p])) /\ a.codec \in {"none", "Oodle"}
  BY Zenon DEF CallFits
<1> QED
  BY <1>1, EntryIs, Zenon DEF Made

\* Where the parts of an entry are.
LEMMA PlacesAre ==
  ASSUME NEW a, CallFits(a), NEW index, NEW p \in Path, index[p] \in Nat
  PROVE  /\ PayloadAt(a, index, p) = index[p] + Made(a, index, p).headerSize /\ PayloadAt(a, index, p) \in Nat
         /\ EndOf(a, index, p) = PayloadAt(a, index, p) + Len(Made(a, index, p).payload) /\ EndOf(a, index, p) \in Nat
         /\ index[p] < PayloadAt(a, index, p) /\ PayloadAt(a, index, p) <= EndOf(a, index, p)
         /\ Made(a, index, p).payload # << >> => PayloadAt(a, index, p) < EndOf(a, index, p)
<1> DEFINE m == Made(a, index, p)
<1>1. /\ m.headerSize \in Nat /\ m.headerSize >= 53 /\ Len(m.payload) \in Nat
      /\ (m.payload = << >> <=> Len(m.payload) = 0)
  <2>1. EntryKnown(m, Len(a.data[p]))
    BY MadeIs, Zenon
  <2> QED
    BY <2>1, Zenon DEF EntryKnown
<1>2. PayloadAt(a, index, p) = index[p] + m.headerSize /\ EndOf(a, index, p) = PayloadAt(a, index, p) + Len(m.payload)
  BY Zenon DEF PayloadAt, EndOf
<1> HIDE DEF m
<1>3. /\ PayloadAt(a, index, p) \in Nat /\ EndOf(a, index, p) \in Nat
      /\ index[p] < PayloadAt(a, index, p) /\ PayloadAt(a, index, p) <= EndOf(a, index, p)
      /\ m.payload # << >> => PayloadAt(a, index, p) < EndOf(a, index, p)
  BY <1>1, <1>2
<1> QED
  BY <1>2, <1>3, Zenon DEF m

\* An index says where an entry is, and no other entry's place matters.
LEMMA SameMade ==
  ASSUME NEW a, NEW index, NEW other, NEW p, index[p] = other[p]
  PROVE  /\ Made(a, index, p) = Made(a, other, p) /\ PayloadAt(a, index, p) = PayloadAt(a, other, p)
         /\ EndOf(a, index, p) = EndOf(a, other, p)
BY Zenon DEF Made, PayloadAt, EndOf

-----------------------------------------------------------------------------
(***************************************************************************)
(* Writing                                                                 *)
(***************************************************************************)
\* What is in a file "g" after the entry of a path was appended to "f".
EntryAdded(a, f, p, i, g) ==
  LET m == Made(a, i, p)
      o == PayloadAt(a, i, p)
  IN /\ IsFile(g) /\ g.footer = f.footer /\ i[p] = f.end
     /\ g.end = EndOf(a, i, p) /\ g.end \in Nat /\ o \in Nat /\ f.end < o /\ o <= g.end
     /\ DOMAIN g.at = DOMAIN f.at \cup {f.end, o}
     /\ g.at[f.end] = [size |-> m.headerSize, body |-> m.header]
     /\ g.at[o] = [size |-> Len(m.payload), body |-> [kind |-> "payload", bytes |-> m.payload]]
     /\ \A x \in DOMAIN f.at : x # f.end /\ x # o => g.at[x] = f.at[x]

LEMMA AppendedIs ==
  ASSUME NEW a, CallFits(a), NEW index, NEW f, IsFile(f), f.end \in Nat, NEW p \in Path
  PROVE  EntryAdded(a, f, p, With(index, p, f.end), Appended(110, a.codec, f, a.data[p]))
<1> DEFINE i == With(index, p, f.end)
           g == Appended(110, a.codec, f, a.data[p])
           m == Made(a, i, p)
<1>1. i[p] = f.end
  BY DEF With
<1>2. m = WrittenEntry(110, a.codec, f.end, a.data[p])
  BY <1>1, Zenon DEF Made
<1> DEFINE header == Place(f.at, f.end, m.headerSize, m.header)
           payload == f.end + m.headerSize
           at == Place(header, payload, Len(m.payload), [kind |-> "payload", bytes |-> m.payload])
           end == f.end + m.headerSize + Len(m.payload)
<1> HIDE DEF i
<1>3. g = [f EXCEPT !.at = at, !.end = end]
  <2> HIDE DEF m
  <2> QED
    BY <1>2, Zenon DEF Appended
<1> HIDE DEF at, end, g, m
<1>4. g = [at |-> at, end |-> end, footer |-> f.footer]
  BY <1>3 DEF IsFile
<1>5. g.at = at /\ g.end = end /\ g.footer = f.footer /\ IsFile(g)
  BY <1>4 DEF IsFile
<1>6. /\ PayloadAt(a, i, p) = payload /\ EndOf(a, i, p) = payload + Len(m.payload)
      /\ payload \in Nat /\ f.end < payload /\ payload <= EndOf(a, i, p) /\ EndOf(a, i, p) \in Nat
      /\ m.headerSize \in Nat /\ Len(m.payload) \in Nat
  <2>1. i[p] \in Nat
    BY <1>1
  <2>2. /\ PayloadAt(a, i, p) = i[p] + m.headerSize /\ PayloadAt(a, i, p) \in Nat
        /\ EndOf(a, i, p) = PayloadAt(a, i, p) + Len(m.payload) /\ EndOf(a, i, p) \in Nat
        /\ i[p] < PayloadAt(a, i, p) /\ PayloadAt(a, i, p) <= EndOf(a, i, p)
    BY <2>1, PlacesAre, Zenon DEF m
  <2>3. EntryKnown(m, Len(a.data[p]))
    BY MadeIs, Zenon DEF m
  <2> QED
    BY <1>1, <2>2, <2>3, Zenon DEF EntryKnown
<1>7. end = EndOf(a, i, p)
  BY <1>6 DEF end
<1> HIDE DEF payload, header
<1>8. /\ DOMAIN header = DOMAIN f.at \cup {f.end} /\ header[f.end] = [size |-> m.headerSize, body |-> m.header]
      /\ \A o \in DOMAIN f.at : o # f.end => header[o] = f.at[o]
  BY DEF header, Place, With
<1>9. /\ DOMAIN at = DOMAIN header \cup {payload}
      /\ at[payload] = [size |-> Len(m.payload), body |-> [kind |-> "payload", bytes |-> m.payload]]
      /\ \A o \in DOMAIN header : o # payload => at[o] = header[o]
  BY DEF at, Place, With
<1>10. f.end # payload
  BY <1>6
<1>11. DOMAIN at = DOMAIN f.at \cup {f.end, payload}
  BY <1>8, <1>9
<1>12. at[f.end] = [size |-> m.headerSize, body |-> m.header]
  BY <1>8, <1>9, <1>10, Zenon
<1>13. \A o \in DOMAIN f.at : o # f.end /\ o # payload => at[o] = f.at[o]
  BY <1>8, <1>9, Zenon
<1> QED
  BY <1>1, <1>5, <1>6, <1>7, <1>9, <1>11, <1>12, <1>13, ZenonT(60) DEF EntryAdded, i, g, m

\* An entry keeps what it is where the other entries come behind it.
LEMMA KeptEntry ==
  ASSUME NEW a, NEW index, NEW other, NEW p, index[p] = other[p]
  PROVE  \A f : HasEntry(a, index, f, p) <=> HasEntry(a, other, f, p)
<1>1. Made(a, index, p) = Made(a, other, p) /\ PayloadAt(a, index, p) = PayloadAt(a, other, p)
  BY SameMade, Zenon
<1> QED
  BY <1>1, Zenon DEF HasEntry

\* A file under way that gets an entry is under way.
LEMMA AppendedIsBuilt ==
  ASSUME NEW a, CallFits(a), NEW index, NEW f, Built(a, index, f),
         NEW p \in Path, p \notin DOMAIN index, NEW i, i = With(index, p, f.end),
         NEW g, g = Appended(110, a.codec, f, a.data[p])
  PROVE  Built(a, i, g)
<1> DEFINE m == Made(a, i, p)
           o == PayloadAt(a, i, p)
<1>1. /\ DOMAIN i = DOMAIN index \cup {p} /\ \A q \in DOMAIN index : i[q] = index[q] /\ q # p
  <2>1. /\ DOMAIN With(index, p, f.end) = DOMAIN index \cup {p}
        /\ \A q \in DOMAIN index : q # p => With(index, p, f.end)[q] = index[q]
    BY DEF With
  <2> QED
    BY <2>1
<1>2. IsFile(f) /\ f.end \in Nat /\ f.footer = NoFooter /\ Apart(a, index, f.end) /\ PayloadsKnown(a, index, f) /\ KindsKnown(f)
  BY Zenon DEF Built
<1>3. /\ IsFile(g) /\ g.footer = NoFooter /\ i[p] = f.end
      /\ g.end = EndOf(a, i, p) /\ g.end \in Nat /\ o \in Nat /\ f.end < o /\ o <= g.end
      /\ DOMAIN g.at = DOMAIN f.at \cup {f.end, o}
      /\ g.at[f.end] = [size |-> m.headerSize, body |-> m.header]
      /\ g.at[o] = [size |-> Len(m.payload), body |-> [kind |-> "payload", bytes |-> m.payload]]
      /\ \A x \in DOMAIN f.at : x # f.end /\ x # o => g.at[x] = f.at[x]
  <2>1. EntryAdded(a, f, p, With(index, p, f.end), Appended(110, a.codec, f, a.data[p]))
    BY <1>2, AppendedIs, Zenon
  <2>2. EntryAdded(a, f, p, i, g)
    BY <2>1
  <2> QED
    BY <1>2, <2>2, Zenon DEF EntryAdded
<1>4. EntryKnown(m, Len(a.data[p]))
  BY MadeIs, Zenon
<1>5. /\ m.header = [kind |-> "header", offset |-> 0, stored |-> Len(m.payload), size |-> Len(a.data[p]),
                     method |-> m.header.method, time |-> 0, sha |-> m.payload, blocks |-> m.header.blocks,
                     flags |-> 0, blockSize |-> m.header.blockSize]
      /\ Len(m.payload) \in Nat
  BY <1>4, Zenon DEF EntryKnown
<1> HIDE DEF m, o
<1>6. o \in Nat
  BY <1>3
<1>7. ASSUME NEW q \in DOMAIN index
      PROVE  /\ q \in Path /\ q # p /\ i[q] = index[q] /\ i[q] \in Nat
             /\ Made(a, i, q) = Made(a, index, q) /\ PayloadAt(a, i, q) = PayloadAt(a, index, q)
             /\ EndOf(a, i, q) = EndOf(a, index, q)
             /\ EndOf(a, i, q) \in Nat /\ EndOf(a, i, q) <= f.end
             /\ i[q] < f.end /\ PayloadAt(a, i, q) \in Nat
             /\ Made(a, i, q).payload # << >> => PayloadAt(a, i, q) < f.end
  <2>1. q \in Path /\ q # p /\ i[q] = index[q] /\ index[q] \in Nat /\ EndOf(a, index, q) <= f.end
    BY <1>1, <1>2, Zenon DEF Apart
  <2>2. /\ Made(a, i, q) = Made(a, index, q) /\ PayloadAt(a, i, q) = PayloadAt(a, index, q)
        /\ EndOf(a, i, q) = EndOf(a, index, q)
    BY <2>1, SameMade, Zenon
  <2>3. /\ PayloadAt(a, i, q) \in Nat /\ EndOf(a, i, q) \in Nat
        /\ i[q] < PayloadAt(a, i, q) /\ PayloadAt(a, i, q) <= EndOf(a, i, q)
        /\ Made(a, i, q).payload # << >> => PayloadAt(a, i, q) < EndOf(a, i, q)
    <3>1. i[q] \in Nat
      BY <2>1
    <3> QED
      BY <2>1, <3>1, PlacesAre, Zenon
  <2>4. i[q] < f.end /\ (Made(a, i, q).payload # << >> => PayloadAt(a, i, q) < f.end)
    BY <1>2, <2>1, <2>2, <2>3
  <2> QED
    BY <2>1, <2>2, <2>3, <2>4, Zenon
<1>8. Apart(a, i, g.end)
  <2>1. DOMAIN i \subseteq Path
    BY <1>1, <1>7
  <2>2. ASSUME NEW q \in DOMAIN i
        PROVE  i[q] \in Nat /\ EndOf(a, i, q) <= g.end
    <3>1. CASE q = p
      BY <1>2, <1>3, <3>1
    <3>2. CASE q # p
      <4>1. q \in DOMAIN index
        BY <1>1, <3>2
      <4>2. i[q] \in Nat /\ EndOf(a, i, q) \in Nat /\ EndOf(a, i, q) <= f.end
        BY <1>7, <4>1
      <4> QED
        BY <1>2, <1>3, <1>6, <4>2
    <3> QED
      BY <3>1, <3>2
  <2>3. ASSUME NEW q \in DOMAIN i, NEW r \in DOMAIN i, q # r
        PROVE  EndOf(a, i, q) <= i[r] \/ EndOf(a, i, r) <= i[q]
    <3>1. CASE q = p
      <4>1. r \in DOMAIN index
        BY <1>1, <2>3, <3>1
      <4>2. EndOf(a, i, r) <= f.end
        BY <1>7, <4>1
      <4> QED
        BY <1>3, <3>1, <4>2
    <3>2. CASE r = p
      <4>1. q \in DOMAIN index
        BY <1>1, <2>3, <3>2
      <4>2. EndOf(a, i, q) <= f.end
        BY <1>7, <4>1
      <4> QED
        BY <1>3, <3>2, <4>2
    <3>3. CASE q # p /\ r # p
      <4>1. q \in DOMAIN index /\ r \in DOMAIN index
        BY <1>1, <3>3
      <4>2. EndOf(a, index, q) <= index[r] \/ EndOf(a, index, r) <= index[q]
        BY <1>2, <2>3, <4>1, Zenon DEF Apart
      <4> QED
        BY <1>7, <4>1, <4>2, Zenon
    <3> QED
      BY <3>1, <3>2, <3>3
  <2> QED
    BY <2>1, <2>2, <2>3, Zenon DEF Apart
<1>9. PayloadsKnown(a, i, g)
  <2> SUFFICES ASSUME NEW x \in DOMAIN g.at, g.at[x].body.kind = "payload"
               PROVE  \E q \in DOMAIN i : x = PayloadAt(a, i, q) /\ g.at[x].size = Len(Made(a, i, q).payload)
    BY Zenon DEF PayloadsKnown
  <2>1. CASE x = o
    <3>1. g.at[x].size = Len(m.payload)
      BY <1>3, <2>1
    <3>2. p \in DOMAIN i
      BY <1>1
    <3> QED
      BY <2>1, <3>1, <3>2, Zenon DEF o, m
  <2>2. CASE x = f.end
    <3>1. g.at[x].body.kind = "header"
      BY <1>3, <1>5, <2>2
    <3> QED
      BY <2>2, <3>1
  <2>3. CASE x # o /\ x # f.end
    <3>1. x \in DOMAIN f.at /\ g.at[x] = f.at[x]
      BY <1>3, <2>3
    <3>2. PICK q \in DOMAIN index : x = PayloadAt(a, index, q) /\ f.at[x].size = Len(Made(a, index, q).payload)
      BY <1>2, <3>1, Zenon DEF PayloadsKnown
    <3>3. q \in DOMAIN i
      BY <1>1
    <3> QED
      BY <1>7, <3>1, <3>2, <3>3, Zenon
  <2> QED
    BY <2>1, <2>2, <2>3
<1>10. KindsKnown(g)
  <2> SUFFICES ASSUME NEW x \in DOMAIN g.at
               PROVE  /\ g.at[x] = [size |-> g.at[x].size, body |-> g.at[x].body]
                      /\ "kind" \in DOMAIN g.at[x].body
                      /\ g.at[x].body.kind \in {"header", "payload", "modern", "hashes", "directory"}
    BY Zenon DEF KindsKnown
  <2>1. CASE x = o
    BY <1>3, <2>1
  <2>2. CASE x = f.end
    <3>1. m.header.kind = "header" /\ "kind" \in DOMAIN m.header
      BY <1>5
    <3> QED
      BY <1>3, <2>2, <3>1
  <2>3. CASE x # o /\ x # f.end
    <3>1. x \in DOMAIN f.at /\ g.at[x] = f.at[x]
      BY <1>3, <2>3
    <3> QED
      BY <1>2, <3>1, Zenon DEF KindsKnown
  <2> QED
    BY <2>1, <2>2, <2>3
<1>11. ASSUME NEW q \in DOMAIN i
       PROVE  HasEntry(a, i, g, q)
  <2>1. CASE q = p
    <3>1. i[p] \in DOMAIN g.at /\ g.at[i[p]] = [size |-> m.headerSize, body |-> m.header]
      BY <1>3
    <3>2. o \in DOMAIN g.at
      BY <1>3
    <3> QED
      BY <1>3, <2>1, <3>1, <3>2, Zenon DEF HasEntry, m, o
  <2>2. CASE q # p
    <3>1. q \in DOMAIN index
      BY <1>1, <2>2
    <3>2. HasEntry(a, i, f, q)
      BY <1>7, <3>1, KeptEntry, Zenon DEF Built
    <3> DEFINE k == Made(a, i, q)
               at == PayloadAt(a, i, q)
    <3>3. /\ i[q] \in Nat /\ i[q] < f.end /\ at \in Nat
          /\ k.payload # << >> => at < f.end
      BY <1>7, <3>1, Zenon
    <3>4. /\ i[q] \in DOMAIN f.at /\ f.at[i[q]] = [size |-> k.headerSize, body |-> k.header]
          /\ k.payload # << >> =>
               at \in DOMAIN f.at /\ f.at[at] = [size |-> Len(k.payload), body |-> [kind |-> "payload", bytes |-> k.payload]]
      BY <3>2, Zenon DEF HasEntry
    <3> HIDE DEF k, at
    <3>5. i[q] # f.end /\ i[q] # o
      BY <1>2, <1>3, <1>6, <1>7, <3>1
    <3>6. ASSUME k.payload # << >>
          PROVE  at # f.end /\ at # o
      <4>1. at \in Nat /\ at < f.end
        BY <3>3, <3>6, Zenon
      <4>2. f.end \in Nat /\ o \in Nat /\ f.end < o
        BY <1>2, <1>3, Zenon
      <4> QED
        BY <4>1, <4>2
    <3>7. i[q] \in DOMAIN g.at /\ g.at[i[q]] = f.at[i[q]]
      BY <1>3, <3>4, <3>5
    <3>8. ASSUME k.payload # << >>
          PROVE  at \in DOMAIN g.at /\ g.at[at] = f.at[at]
      BY <1>3, <3>4, <3>6, <3>8
    <3> QED
      BY <3>4, <3>7, <3>8, Zenon DEF HasEntry, k, at
  <2> QED
    BY <2>1, <2>2
<1> QED
  BY <1>3, <1>8, <1>9, <1>10, <1>11, Zenon DEF Built

\* The members of a list are finitely many.
LEMMA MembersFinite ==
  ASSUME NEW S, NEW s \in Seq(S)
  PROVE  IsFiniteSet(ToSet(s)) /\ ToSet(s) \subseteq S
<1>1. DOMAIN s = 1..Len(s) /\ Len(s) \in Nat /\ \A i \in DOMAIN s : s[i] \in S
  OBVIOUS
<1>2. IsFiniteSet(1..Len(s))
  BY <1>1, UpTo
<1> DEFINE n == Len(s)
           f == [i \in 1..n |-> s[i]]
           T == ToSet(s)
<1>3. T = {f[i] : i \in 1..n}
  BY <1>1 DEF ToSet
<1>4. f \in Surjection(1..n, T)
  BY <1>3 DEF Surjection
<1> HIDE DEF f
<1>5. IsFiniteSet(T)
  BY <1>2, <1>4, FS_Surjection
<1>6. T \subseteq S
  BY <1>1 DEF ToSet
<1> QED
  BY <1>5, <1>6

\* The order of the paths of an index.
OrderKnown(index, o) ==
  /\ o \in Seq(DOMAIN index) /\ Len(o) \in Nat /\ Len(o) = Cardinality(DOMAIN index) /\ DOMAIN o = 1..Len(o)
  /\ ToSet(o) = DOMAIN index /\ \A i \in DOMAIN o : o[i] \in DOMAIN index
  /\ \A i, j \in DOMAIN o : o[i] = o[j] => i = j

LEMMA OrderOfIs ==
  ASSUME NEW index, IsFiniteSet(DOMAIN index), DOMAIN index \subseteq Path
  PROVE  OrderKnown(index, OrderOf(index))
<1> DEFINE S == DOMAIN index
<1>1. /\ \A x \in S : PathRank[x] \in Nat
      /\ \A x, y \in S : PathRank[x] = PathRank[y] => x = y
  BY PakAssumption
<1> HIDE DEF S
<1>2. IsFiniteSet(S)
  BY DEF S
<1> DEFINE o == InOrder(S, PathRank)
<1>3. /\ o \in Seq(S) /\ Len(o) = Cardinality(S) /\ Len(o) \in Nat /\ DOMAIN o = 1..Len(o)
      /\ ToSet(o) = S /\ \A i \in DOMAIN o : o[i] \in S
      /\ \A i, j \in DOMAIN o : o[i] = o[j] => i = j
  BY <1>1, <1>2, OrderIs
<1>4. o = OrderOf(index)
  BY Zenon DEF OrderOf, S
<1> HIDE DEF o
<1> QED
  BY <1>3, <1>4, Zenon DEF OrderKnown, S

\* The index of the entries is the one the writer makes.
LEMMA ModernIndexIs ==
  ASSUME NEW a, NEW index, NEW f, OrderKnown(index, OrderOf(index)),
         \A p \in DOMAIN index : HasEntry(a, index, f, p)
  PROVE  Indexed(110, f, index, a.mount, SlotNamesFor(110, a.codec)) =
           [at |-> Place(Place(Place(f.at, f.end, 1, ModernIndex(a, index, f.end)),
                               f.end + 1, 1, PathHashIndex(OrderOf(index))),
                         f.end + 2, 1, DirectoryIndex(OrderOf(index))),
            end |-> f.end + 3,
            footer |-> Footer(110, SlotNamesFor(110, a.codec), RegionAt(f.end, ModernIndex(a, index, f.end)))]
<1> DEFINE paths == InOrder(DOMAIN index, PathRank)
           hashes == PathHashIndex(paths)
           directory == DirectoryIndex(paths)
           region(offset, body) == [offset |-> offset, size |-> 1, sha |-> body]
           known == [o \in 0..(Len(paths) - 1) |-> Encoded(index[paths[o + 1]], Made(a, index, paths[o + 1]).header)]
           found == [o \in 0..(Len(paths) - 1) |-> Encoded(index[paths[o + 1]], f.at[index[paths[o + 1]]].body)]
           modern(records) ==
             [kind |-> "modern", mount |-> a.mount, count |-> Len(paths), seed |-> 0,
              hashes |-> <<region(f.end + 1, hashes)>>, directory |-> <<region(f.end + 2, directory)>>,
              space |-> Len(paths), extra |-> 0, records |-> records]
<1>1. paths = OrderOf(index)
  BY Zenon DEF OrderOf
<1>2. known = found
  <2>1. ASSUME NEW o \in 0..(Len(paths) - 1)
        PROVE  f.at[index[paths[o + 1]]].body = Made(a, index, paths[o + 1]).header
    <3>1. Len(paths) \in Nat /\ DOMAIN paths = 1..Len(paths) /\ \A i \in DOMAIN paths : paths[i] \in DOMAIN index
      BY <1>1, Zenon DEF OrderKnown
    <3> HIDE DEF paths
    <3>2. o + 1 \in DOMAIN paths
      BY <3>1
    <3>3. HasEntry(a, index, f, paths[o + 1])
      BY <3>1, <3>2
    <3>4. f.at[index[paths[o + 1]]] =
            [size |-> Made(a, index, paths[o + 1]).headerSize, body |-> Made(a, index, paths[o + 1]).header]
      BY <3>3, Zenon DEF HasEntry
    <3> QED
      BY <3>4
  <2> HIDE DEF paths
  <2> QED
    BY <2>1
<1>3. ModernIndex(a, index, f.end) = modern(known)
  BY Zenon DEF ModernIndex, OrderOf, RegionAt
<1> HIDE DEF known, found
<1>4. Indexed(110, f, index, a.mount, SlotNamesFor(110, a.codec)) =
        [at |-> Place(Place(Place(f.at, f.end, 1, modern(found)), f.end + 1, 1, hashes), f.end + 2, 1, directory),
         end |-> f.end + 3,
         footer |-> Footer(110, SlotNamesFor(110, a.codec), region(f.end, modern(found)))]
  BY IndexedIs, Zenon DEF found
<1> QED
  BY <1>1, <1>2, <1>3, <1>4, Zenon DEF RegionAt

\* A file under way that gets its index is as it was written.
LEMMA IndexedIsPristine ==
  ASSUME NEW a, CallFits(a), NEW index, NEW f, Built(a, index, f), DOMAIN index = ToSet(a.paths),
         NEW g, g = Indexed(110, f, index, a.mount, SlotNamesFor(110, a.codec))
  PROVE  Pristine(a, index, g)
<1> DEFINE primary == ModernIndex(a, index, f.end)
           hashes == PathHashIndex(OrderOf(index))
           directory == DirectoryIndex(OrderOf(index))
           names == SlotNamesFor(110, a.codec)
           region == RegionAt(f.end, primary)
           first == Place(f.at, f.end, 1, primary)
           second == Place(first, f.end + 1, 1, hashes)
           at == Place(second, f.end + 2, 1, directory)
<1>1. /\ IsFile(f) /\ f.end \in Nat /\ Apart(a, index, f.end) /\ PayloadsKnown(a, index, f) /\ KindsKnown(f)
      /\ \A p \in DOMAIN index : HasEntry(a, index, f, p)
  BY Zenon DEF Built
<1>2. OrderKnown(index, OrderOf(index))
  <2>1. a.paths \in Seq(Path)
    BY Zenon DEF CallFits
  <2>2. IsFiniteSet(DOMAIN index) /\ DOMAIN index \subseteq Path
    BY <2>1, MembersFinite
  <2> QED
    BY <2>2, OrderOfIs, Zenon
<1>3. g = [at |-> at, end |-> f.end + 3, footer |-> Footer(110, names, region)]
  <2>1. Indexed(110, f, index, a.mount, names) = [at |-> at, end |-> f.end + 3, footer |-> Footer(110, names, region)]
    <3>1. \A p \in DOMAIN index : HasEntry(a, index, f, p)
      BY <1>1, Zenon
    <3> QED
      BY <1>2, <3>1, ModernIndexIs
  <2>2. g = Indexed(110, f, index, a.mount, names)
    OBVIOUS
  <2> HIDE DEF at, names, region
  <2> QED
    BY <2>1, <2>2, Zenon
<1>4. primary.kind = "modern" /\ "kind" \in DOMAIN primary
  <2>1. \E mount, count, h, d, space, records :
          primary = [kind |-> "modern", mount |-> mount, count |-> count, seed |-> 0, hashes |-> h,
                     directory |-> d, space |-> space, extra |-> 0, records |-> records]
    BY Zenon DEF ModernIndex
  <2> QED
    BY <2>1
<1>5. hashes.kind = "hashes" /\ "kind" \in DOMAIN hashes /\ directory.kind = "directory" /\ "kind" \in DOMAIN directory
  BY DEF PathHashIndex, DirectoryIndex
<1> HIDE DEF primary, hashes, directory, names, region
<1>6. /\ DOMAIN first = DOMAIN f.at \cup {f.end} /\ first[f.end] = [size |-> 1, body |-> primary]
      /\ \A x \in DOMAIN f.at : x # f.end => first[x] = f.at[x]
  BY DEF Place, With
<1> HIDE DEF first
<1>7. /\ DOMAIN second = DOMAIN first \cup {f.end + 1} /\ second[f.end + 1] = [size |-> 1, body |-> hashes]
      /\ \A x \in DOMAIN first : x # f.end + 1 => second[x] = first[x]
  BY DEF Place, With
<1> HIDE DEF second
<1>8. /\ DOMAIN at = DOMAIN second \cup {f.end + 2} /\ at[f.end + 2] = [size |-> 1, body |-> directory]
      /\ \A x \in DOMAIN second : x # f.end + 2 => at[x] = second[x]
  BY DEF Place, With
<1> HIDE DEF at
<1>9. f.end # f.end + 1 /\ f.end # f.end + 2 /\ f.end + 1 # f.end + 2 /\ f.end + 1 \in Nat /\ f.end + 2 \in Nat
  BY <1>1
<1>10. /\ DOMAIN at = DOMAIN f.at \cup {f.end, f.end + 1, f.end + 2}
       /\ at[f.end] = [size |-> 1, body |-> primary] /\ at[f.end + 1] = [size |-> 1, body |-> hashes]
       /\ at[f.end + 2] = [size |-> 1, body |-> directory]
       /\ \A x \in DOMAIN f.at : x \notin {f.end, f.end + 1, f.end + 2} => at[x] = f.at[x]
  BY <1>6, <1>7, <1>8, <1>9
<1>11. g.at = at /\ g.end = f.end + 3 /\ g.footer = Footer(110, names, region) /\ IsFile(g)
  BY <1>3 DEF IsFile
<1>12. IndexAt(g) = f.end /\ g.end \in Nat
  BY <1>1, <1>11 DEF IndexAt
<1>13. g.footer.index = region /\ g.footer # NoFooter
  <2>1. g.footer.index = region /\ g.footer.version = 11
    BY <1>11 DEF Footer, Major
  <2>2. NoFooter.version = -1
    BY DEF NoFooter
  <2> QED
    BY <2>1, <2>2
<1>14. PayloadsKnown(a, index, g)
  <2> SUFFICES ASSUME NEW x \in DOMAIN g.at, g.at[x].body.kind = "payload"
               PROVE  \E q \in DOMAIN index : x = PayloadAt(a, index, q) /\ g.at[x].size = Len(Made(a, index, q).payload)
    BY Zenon DEF PayloadsKnown
  <2>1. x \notin {f.end, f.end + 1, f.end + 2}
    BY <1>4, <1>5, <1>10, <1>11
  <2>2. x \in DOMAIN f.at /\ g.at[x] = f.at[x]
    BY <1>10, <1>11, <2>1
  <2> QED
    BY <1>1, <2>2, Zenon DEF PayloadsKnown
<1>15. KindsKnown(g)
  <2> SUFFICES ASSUME NEW x \in DOMAIN g.at
               PROVE  /\ g.at[x] = [size |-> g.at[x].size, body |-> g.at[x].body]
                      /\ "kind" \in DOMAIN g.at[x].body
                      /\ g.at[x].body.kind \in {"header", "payload", "modern", "hashes", "directory"}
    BY Zenon DEF KindsKnown
  <2>1. CASE x \in {f.end, f.end + 1, f.end + 2}
    BY <1>4, <1>5, <1>10, <1>11, <2>1
  <2>2. CASE x \notin {f.end, f.end + 1, f.end + 2}
    <3>1. x \in DOMAIN f.at /\ g.at[x] = f.at[x]
      BY <1>10, <1>11, <2>2
    <3> QED
      BY <1>1, <3>1, ZenonT(60) DEF KindsKnown
  <2> QED
    BY <2>1, <2>2
<1>16. ASSUME NEW q \in DOMAIN index
       PROVE  HasEntry(a, index, g, q)
  <2> DEFINE k == Made(a, index, q)
             o == PayloadAt(a, index, q)
  <2>1. /\ index[q] \in DOMAIN f.at /\ f.at[index[q]] = [size |-> k.headerSize, body |-> k.header]
        /\ k.payload # << >> =>
             o \in DOMAIN f.at /\ f.at[o] = [size |-> Len(k.payload), body |-> [kind |-> "payload", bytes |-> k.payload]]
    BY <1>1, Zenon DEF HasEntry
  <2>2. q \in Path /\ index[q] \in Nat /\ EndOf(a, index, q) <= f.end
    BY <1>1, Zenon DEF Apart
  <2>3. /\ o \in Nat /\ EndOf(a, index, q) \in Nat /\ index[q] < o /\ o <= EndOf(a, index, q)
        /\ k.payload # << >> => o < EndOf(a, index, q)
    BY <2>2, PlacesAre, Zenon
  <2> HIDE DEF k, o
  <2>4. index[q] < f.end /\ (k.payload # << >> => o < f.end)
    BY <1>1, <2>2, <2>3
  <2>5. index[q] \notin {f.end, f.end + 1, f.end + 2}
    BY <1>1, <2>2, <2>4
  <2>6. index[q] \in DOMAIN g.at /\ g.at[index[q]] = f.at[index[q]]
    BY <1>10, <1>11, <2>1, <2>5
  <2>7. ASSUME k.payload # << >>
        PROVE  o \in DOMAIN g.at /\ g.at[o] = f.at[o]
    <3>1. o \notin {f.end, f.end + 1, f.end + 2}
      BY <1>1, <2>3, <2>4, <2>7
    <3> QED
      BY <1>10, <1>11, <2>1, <2>7, <3>1
  <2> QED
    BY <2>1, <2>6, <2>7, Zenon DEF HasEntry, k, o
<1>17. HasIndex(g, <<primary, hashes, directory>>)
  <2> DEFINE bodies == <<primary, hashes, directory>>
  <2>1. bodies[1] = primary /\ bodies[2] = hashes /\ bodies[3] = directory
    OBVIOUS
  <2> HIDE DEF bodies
  <2>2. f.end + 1 - 1 = f.end /\ f.end + 2 - 1 = f.end + 1 /\ f.end + 3 - 1 = f.end + 2
    BY <1>1
  <2>3. ASSUME NEW k \in 1..3
        PROVE  f.end + k - 1 \in DOMAIN g.at /\ g.at[f.end + k - 1] = [size |-> 1, body |-> bodies[k]]
    <3>1. k = 1 \/ k = 2 \/ k = 3
      OBVIOUS
    <3> QED
      BY <1>10, <1>11, <2>1, <2>2, <3>1
  <2> QED
    BY <1>12, <2>3, ZenonT(60) DEF HasIndex, bodies
<1>18. Laid(a, index, g)
  <2>1. IndexAt(g) \in Nat
    BY <1>1, <1>12
  <2>2. Apart(a, index, IndexAt(g))
    BY <1>1, <1>12, Zenon
  <2> QED
    BY <1>11, <1>12, <1>13, <1>14, <1>15, <2>1, <2>2, Zenon DEF Laid
<1>19. Whole(a, index, g)
  <2>1. HasIndex(g, IndexBodies(a, index, IndexAt(g)))
    BY <1>12, <1>17, Zenon DEF IndexBodies, primary, hashes, directory
  <2>2. g.footer.index = RegionAt(IndexAt(g), ModernIndex(a, index, IndexAt(g)))
    BY <1>12, <1>13, Zenon DEF region, primary
  <2> QED
    BY <1>16, <1>18, <2>1, <2>2, Zenon DEF Whole
<1> QED
  BY <1>11, <1>13, <1>19, Zenon DEF Pristine, names

-----------------------------------------------------------------------------
(***************************************************************************)
(* Damages                                                                 *)
(***************************************************************************)
\* A list that gets one more.
LEMMA AppendedList ==
  ASSUME NEW s, Listed(s), NEW x
  PROVE  Listed(Append(s, x)) /\ Len(Append(s, x)) = Len(s) + 1
<1> DEFINE n == Len(s)
           S == {s[i] : i \in 1..n}
<1>1. n \in Nat /\ s = [i \in 1..n |-> s[i]]
  BY DEF Listed
<1> HIDE DEF n
<1>2. s \in [1..n -> S]
  BY <1>1
<1> HIDE DEF S
<1>3. s \in Seq(S) /\ Len(s) = n
  BY <1>1, <1>2
<1> DEFINE T == S \cup {x}
<1>4. s \in Seq(T) /\ x \in T
  BY <1>3
<1> HIDE DEF T
<1> DEFINE t == Append(s, x)
<1>5. t \in Seq(T) /\ Len(t) = n + 1
  BY <1>3, <1>4
<1> HIDE DEF t
<1>6. t = [i \in 1..Len(t) |-> t[i]] /\ Len(t) \in Nat
  BY <1>5
<1> QED
  BY <1>3, <1>5, <1>6, Zenon DEF t, Listed

\* What was written is what no damage made of it.
LEMMA PristineIsWorn ==
  ASSUME NEW a, CallFits(a), NEW index, NEW f, Pristine(a, index, f)
  PROVE  Worn(a, index, f)
<1>1. /\ Laid(a, index, f) /\ \A p \in DOMAIN index : HasEntry(a, index, f, p)
      /\ HasIndex(f, IndexBodies(a, index, IndexAt(f)))
      /\ f.footer.index = RegionAt(IndexAt(f), ModernIndex(a, index, IndexAt(f)))
      /\ f.footer = Footer(110, SlotNamesFor(110, a.codec), f.footer.index)
  BY Zenon DEF Pristine, Whole
<1>2. ASSUME NEW p \in DOMAIN index
      PROVE  WornEntry(a, index, f, p)
  <2> DEFINE m == Made(a, index, p)
             o == PayloadAt(a, index, p)
  <2>1. p \in Path
    BY <1>1 DEF Laid, Apart
  <2>2. EntryKnown(m, Len(a.data[p]))
    BY <2>1, MadeIs, Zenon
  <2>3. /\ index[p] \in DOMAIN f.at /\ f.at[index[p]] = [size |-> m.headerSize, body |-> m.header]
        /\ m.payload # << >> =>
             o \in DOMAIN f.at /\ f.at[o] = [size |-> Len(m.payload), body |-> [kind |-> "payload", bytes |-> m.payload]]
    BY <1>1, Zenon DEF HasEntry
  <2> HIDE DEF m, o
  <2>4. HeaderFrom(m.header, m.header)
    <3>1. /\ m.header = [kind |-> "header", offset |-> 0, stored |-> Len(m.payload), size |-> Len(a.data[p]),
                         method |-> m.header.method, time |-> 0, sha |-> m.payload, blocks |-> m.header.blocks,
                         flags |-> 0, blockSize |-> m.header.blockSize]
          /\ Len(m.payload) \in Nat /\ m.payload = [i \in 1..Len(m.payload) |-> m.payload[i]]
      BY <2>2, Zenon DEF EntryKnown
    <3>2. m.header.sha = m.payload
      BY <3>1
    <3>3. m.header = [kind |-> "header", offset |-> 0, stored |-> m.header.stored, size |-> m.header.size,
                      method |-> m.header.method, time |-> 0, sha |-> m.header.sha, blocks |-> m.header.blocks,
                      flags |-> m.header.flags, blockSize |-> m.header.blockSize]
      BY <3>1
    <3> QED
      BY <3>1, <3>2, <3>3, Zenon DEF HeaderFrom, Listed
  <2>5. PayloadFrom([kind |-> "payload", bytes |-> m.payload], m.payload)
    <3> DEFINE n == Len(m.payload)
    <3>1. n \in Nat /\ m.payload = [i \in 1..n |-> m.payload[i]]
      BY <2>2, Zenon DEF EntryKnown
    <3> HIDE DEF n
    <3>2. DOMAIN m.payload = 1..n
      BY <3>1
    <3>3. m.payload = [i \in DOMAIN m.payload |-> m.payload[i]]
      BY <3>1, <3>2
    <3> QED
      BY <3>3 DEF PayloadFrom
  <2>6. f.at[index[p]].size = m.headerSize /\ HeaderFrom(f.at[index[p]].body, m.header)
    BY <2>3, <2>4
  <2>7. ASSUME m.payload # << >>
        PROVE  o \in DOMAIN f.at /\ f.at[o].size = Len(m.payload) /\ PayloadFrom(f.at[o].body, m.payload)
    BY <2>3, <2>5, <2>7
  <2> QED
    BY <2>3, <2>6, <2>7, Zenon DEF WornEntry, m, o
<1>3. ASSUME NEW k \in 1..3
      PROVE  /\ IndexAt(f) + k - 1 \in DOMAIN f.at
             /\ f.at[IndexAt(f) + k - 1].size = 1
             /\ f.at[IndexAt(f) + k - 1].body.kind = <<"modern", "hashes", "directory">>[k]
  <2> DEFINE bodies == IndexBodies(a, index, IndexAt(f))
             place == f.at[IndexAt(f) + k - 1]
  <2>1. IndexAt(f) + k - 1 \in DOMAIN f.at /\ place = [size |-> 1, body |-> bodies[k]]
    BY <1>1, Zenon DEF HasIndex
  <2>2. bodies[k].kind = <<"modern", "hashes", "directory">>[k]
    <3>1. bodies[1].kind = "modern"
      <4>1. \E mount, count, h, d, space, records :
              ModernIndex(a, index, IndexAt(f)) =
                [kind |-> "modern", mount |-> mount, count |-> count, seed |-> 0, hashes |-> h,
                 directory |-> d, space |-> space, extra |-> 0, records |-> records]
        BY Zenon DEF ModernIndex
      <4>2. ModernIndex(a, index, IndexAt(f)).kind = "modern"
        BY <4>1
      <4> QED
        BY <4>2 DEF IndexBodies
    <3>2. bodies[2].kind = "hashes" /\ bodies[3].kind = "directory"
      BY DEF IndexBodies, PathHashIndex, DirectoryIndex
    <3>3. k = 1 \/ k = 2 \/ k = 3
      OBVIOUS
    <3> HIDE DEF bodies
    <3> QED
      BY <3>1, <3>2, <3>3
  <2> HIDE DEF bodies, place
  <2>3. place.size = 1 /\ place.body.kind = <<"modern", "hashes", "directory">>[k]
    BY <2>1, <2>2
  <2> QED
    BY <2>1, <2>3, Zenon DEF place
<1>4. /\ f.footer = [shape |-> FooterShape(110), version |-> f.footer.version, encrypted |-> f.footer.encrypted,
                     frozen |-> 0, names |-> f.footer.names, index |-> f.footer.index]
      /\ f.footer.version \in {10, 11}
  <2>1. /\ f.footer = [shape |-> FooterShape(110), version |-> Major(110), encrypted |-> 0, frozen |-> 0,
                       names |-> SlotNamesFor(110, a.codec), index |-> f.footer.index]
        /\ Major(110) = 11
    BY <1>1 DEF Footer, Major
  <2> QED
    BY <2>1
<1>5. /\ f.footer.index.offset \in Nat /\ f.footer.index.offset >= IndexAt(f)
      /\ f.footer.index = RegionAt(f.footer.index.offset, ModernIndex(a, index, IndexAt(f)))
  <2>1. IndexAt(f) \in Nat
    BY <1>1 DEF Laid
  <2>2. f.footer.index.offset = IndexAt(f)
    BY <1>1 DEF RegionAt
  <2> QED
    BY <1>1, <2>1, <2>2
<1> QED
  BY <1>1, <1>2, <1>3, <1>4, <1>5, Zenon DEF Worn

\* A thing that is damaged is still of its kind.
LEMMA DamagedKind ==
  ASSUME NEW c, "kind" \in DOMAIN c, c.kind \in {"header", "payload", "modern", "hashes", "directory"},
         NEW b \in BodyDamaged(c)
  PROVE  DOMAIN b = DOMAIN c /\ b.kind = c.kind
<1>1. CASE c.kind = "header"
  <2>1. b \in {[c EXCEPT !.size = @ + 1], [c EXCEPT !.stored = @ + 1],
               [c EXCEPT !.flags = 1], [c EXCEPT !.blockSize = @ + 1],
               [c EXCEPT !.method = 1 - @], [c EXCEPT !.sha = Append(@, Noise)]}
    BY <1>1 DEF BodyDamaged
  <2> QED
    BY <2>1
<1>2. CASE c.kind = "payload"
  <2>1. b = [c EXCEPT !.bytes = Swapped(@)]
    BY <1>2 DEF BodyDamaged
  <2> QED
    BY <2>1
<1>3. CASE c.kind = "modern"
  <2>1. b \in {[c EXCEPT !.seed = 1], [c EXCEPT !.count = @ + 1], [c EXCEPT !.extra = 1],
               [c EXCEPT !.hashes = << >>], [c EXCEPT !.records[0].size = @ + 1],
               [c EXCEPT !.records[0].at = c.records[c.space - 1].at]}
    BY <1>3 DEF BodyDamaged
  <2> QED
    BY <2>1
<1>4. CASE c.kind = "hashes"
  <2>1. b \in {[c EXCEPT !.entries[1].record = Len(c.entries) - 1],
               [c EXCEPT !.entries[1].hash = c.entries[Len(c.entries)].hash],
               [c EXCEPT !.entries = Reverse(@), !.trailing = 1]}
    BY <1>4 DEF BodyDamaged
  <2> QED
    BY <2>1
<1>5. CASE c.kind = "directory"
  <2>1. b \in {[c EXCEPT !.files[1].path = q] : q \in Path \ {c.files[1].path}}
              \cup {[c EXCEPT !.files[1].record = Len(c.files) - 1]}
    BY <1>5 DEF BodyDamaged
  <2>2. (\E q \in Path : b = [c EXCEPT !.files[1].path = q]) \/ b = [c EXCEPT !.files[1].record = Len(c.files) - 1]
    BY <2>1
  <2> QED
    BY <2>2
<1> QED
  BY <1>1, <1>2, <1>3, <1>4, <1>5

\* A header that is damaged again is still made of the same one.
LEMMA DamagedHeader ==
  ASSUME NEW h, NEW c, HeaderFrom(c, h), Len(h.sha) \in Nat, NEW b \in BodyDamaged(c)
  PROVE  HeaderFrom(b, h)
<1>1. /\ c = [kind |-> "header", offset |-> 0, stored |-> c.stored, size |-> c.size, method |-> c.method,
              time |-> 0, sha |-> c.sha, blocks |-> h.blocks, flags |-> c.flags, blockSize |-> c.blockSize]
      /\ Listed(c.sha) /\ (c.sha = h.sha \/ Len(c.sha) > Len(h.sha))
  BY Zenon DEF HeaderFrom
<1>2. c.kind = "header"
  BY <1>1
<1>3. \/ b = [c EXCEPT !.size = @ + 1] \/ b = [c EXCEPT !.stored = @ + 1]
      \/ b = [c EXCEPT !.flags = 1] \/ b = [c EXCEPT !.blockSize = @ + 1]
      \/ b = [c EXCEPT !.method = 1 - @] \/ b = [c EXCEPT !.sha = Append(@, Noise)]
  BY <1>2 DEF BodyDamaged
<1>4. b = [kind |-> "header", offset |-> 0, stored |-> b.stored, size |-> b.size, method |-> b.method,
           time |-> 0, sha |-> b.sha, blocks |-> h.blocks, flags |-> b.flags, blockSize |-> b.blockSize]
  BY <1>1, <1>3
<1>5. b.sha = c.sha \/ b.sha = Append(c.sha, Noise)
  <2>1. CASE b = [c EXCEPT !.sha = Append(@, Noise)]
    BY <1>1, <2>1
  <2>2. CASE b # [c EXCEPT !.sha = Append(@, Noise)]
    BY <1>1, <1>3, <2>2
  <2> QED
    BY <2>1, <2>2
<1> DEFINE longer == Append(c.sha, Noise)
<1>6. Listed(longer) /\ Len(longer) = Len(c.sha) + 1
  BY <1>1, AppendedList
<1> HIDE DEF longer
<1>7. Len(c.sha) \in Nat
  BY <1>1 DEF Listed
<1>8. Listed(b.sha) /\ (b.sha = h.sha \/ Len(b.sha) > Len(h.sha))
  <2>1. CASE b.sha = c.sha
    BY <1>1, <2>1
  <2>2. CASE b.sha = longer
    <3>1. Len(longer) > Len(h.sha)
      BY <1>1, <1>6, <1>7
    <3> QED
      BY <1>6, <2>2, <3>1
  <2> QED
    BY <1>5, <2>1, <2>2 DEF longer
<1> QED
  BY <1>4, <1>8, Zenon DEF HeaderFrom

\* A payload that is damaged again is as long as it was.
LEMMA DamagedPayload ==
  ASSUME NEW bytes, NEW c, PayloadFrom(c, bytes), NEW b \in BodyDamaged(c)
  PROVE  PayloadFrom(b, bytes)
<1>1. c = [kind |-> "payload", bytes |-> c.bytes] /\ c.bytes = [i \in DOMAIN bytes |-> c.bytes[i]]
  BY DEF PayloadFrom
<1>2. c.kind = "payload"
  BY <1>1
<1>3. b = [c EXCEPT !.bytes = Swapped(@)]
  BY <1>2 DEF BodyDamaged
<1>4. b = [kind |-> "payload", bytes |-> Swapped(c.bytes)]
  BY <1>1, <1>3
<1>5. Swapped(c.bytes) = [i \in DOMAIN bytes |-> Swapped(c.bytes)[i]]
  <2>1. \E x : Swapped(c.bytes) = [c.bytes EXCEPT ![1] = x]
    BY DEF Swapped
  <2> QED
    BY <1>1, <2>1
<1> QED
  BY <1>4, <1>5 DEF PayloadFrom

\* What a damage leaves of a file.
LEMMA DamagedIs ==
  ASSUME NEW f, IsFile(f), NEW g \in Damaged(f)
  PROVE  \/ \E o \in DOMAIN f.at : \E b \in BodyDamaged(f.at[o].body) :
              g = [at |-> [f.at EXCEPT ![o].body = b], end |-> f.end, footer |-> f.footer]
         \/ \E footer : /\ g = [at |-> f.at, end |-> f.end, footer |-> footer]
                        /\ \/ footer = [f.footer EXCEPT !.version = 10]
                           \/ footer = [f.footer EXCEPT !.encrypted = 1]
                           \/ footer = [f.footer EXCEPT !.index.offset = @ + 1]
                           \/ \E names : footer = [f.footer EXCEPT !.names = names]
<1>0. f = [at |-> f.at, end |-> f.end, footer |-> f.footer]
  BY DEF IsFile
<1>1. CASE g \in UNION {{[f EXCEPT !.at[o].body = b] : b \in BodyDamaged(f.at[o].body)} : o \in DOMAIN f.at}
  <2>1. PICK o \in DOMAIN f.at : g \in {[f EXCEPT !.at[o].body = b] : b \in BodyDamaged(f.at[o].body)}
    BY <1>1
  <2>2. PICK b \in BodyDamaged(f.at[o].body) : g = [f EXCEPT !.at[o].body = b]
    BY <2>1
  <2>3. g = [at |-> [f.at EXCEPT ![o].body = b], end |-> f.end, footer |-> f.footer]
    BY <1>0, <2>2
  <2> QED
    BY <2>3
<1>2. CASE g \in FooterDamaged(f)
  <2>1. \/ g = [f EXCEPT !.footer.version = 10] \/ g = [f EXCEPT !.footer.encrypted = 1]
        \/ g = [f EXCEPT !.footer.index.offset = @ + 1]
        \/ g = [f EXCEPT !.footer.names[1] = "dirty"] \/ g = [f EXCEPT !.footer.names[1] = "LZ4"]
    BY <1>2 DEF FooterDamaged
  <2>2. CASE g = [f EXCEPT !.footer.version = 10]
    <3>1. g = [at |-> f.at, end |-> f.end, footer |-> [f.footer EXCEPT !.version = 10]]
      BY <1>0, <2>2
    <3> QED
      BY <3>1
  <2>3. CASE g = [f EXCEPT !.footer.encrypted = 1]
    <3>1. g = [at |-> f.at, end |-> f.end, footer |-> [f.footer EXCEPT !.encrypted = 1]]
      BY <1>0, <2>3
    <3> QED
      BY <3>1
  <2>4. CASE g = [f EXCEPT !.footer.index.offset = @ + 1]
    <3>1. g = [at |-> f.at, end |-> f.end, footer |-> [f.footer EXCEPT !.index.offset = @ + 1]]
      BY <1>0, <2>4
    <3> QED
      BY <3>1
  <2>5. CASE g = [f EXCEPT !.footer.names[1] = "dirty"] \/ g = [f EXCEPT !.footer.names[1] = "LZ4"]
    <3>1. \E names : g = [at |-> f.at, end |-> f.end, footer |-> [f.footer EXCEPT !.names = names]]
      BY <1>0, <2>5
    <3> QED
      BY <3>1
  <2> QED
    BY <2>1, <2>2, <2>3, <2>4, <2>5
<1> QED
  BY <1>1, <1>2 DEF Damaged

\* A damage leaves a file that was written and damaged.
LEMMA DamagedIsWorn ==
  ASSUME NEW a, CallFits(a), NEW index, NEW f, Worn(a, index, f), NEW g \in Damaged(f)
  PROVE  Worn(a, index, g)
<1> DEFINE third(k) == IndexAt(f) + k - 1
           kinds == <<"modern", "hashes", "directory">>
<1>1. /\ Laid(a, index, f) /\ \A p \in DOMAIN index : WornEntry(a, index, f, p)
      /\ \A k \in 1..3 : /\ third(k) \in DOMAIN f.at /\ f.at[third(k)].size = 1
                         /\ f.at[third(k)].body.kind = kinds[k]
      /\ f.footer = [shape |-> FooterShape(110), version |-> f.footer.version, encrypted |-> f.footer.encrypted,
                     frozen |-> 0, names |-> f.footer.names, index |-> f.footer.index]
      /\ f.footer.version \in {10, 11}
      /\ f.footer.index.offset \in Nat /\ f.footer.index.offset >= IndexAt(f)
      /\ f.footer.index = RegionAt(f.footer.index.offset, ModernIndex(a, index, IndexAt(f)))
  BY Zenon DEF Worn
<1> HIDE DEF third, kinds
<1>2. /\ IsFile(f) /\ f.footer # NoFooter /\ f.end \in Nat /\ IndexAt(f) \in Nat
      /\ Apart(a, index, IndexAt(f)) /\ PayloadsKnown(a, index, f) /\ KindsKnown(f)
      /\ DOMAIN index = ToSet(a.paths)
  BY <1>1, Zenon DEF Laid
<1>3. ASSUME NEW o \in DOMAIN f.at, NEW b \in BodyDamaged(f.at[o].body),
             g = [at |-> [f.at EXCEPT ![o].body = b], end |-> f.end, footer |-> f.footer]
      PROVE  Worn(a, index, g)
  <2> DEFINE c == f.at[o].body
  <2>1. /\ f.at[o] = [size |-> f.at[o].size, body |-> c] /\ "kind" \in DOMAIN c
        /\ c.kind \in {"header", "payload", "modern", "hashes", "directory"}
    BY <1>2, Zenon DEF KindsKnown
  <2>2. DOMAIN b = DOMAIN c /\ b.kind = c.kind
    BY <2>1, DamagedKind, Zenon
  <2>3. IsFile(g) /\ g.footer = f.footer /\ g.end = f.end /\ IndexAt(g) = IndexAt(f)
    BY <1>3 DEF IsFile, IndexAt
  <2>4. g.at = [f.at EXCEPT ![o] = [size |-> f.at[o].size, body |-> b]]
    BY <1>3, <2>1
  <2> HIDE DEF c
  <2>5. /\ DOMAIN g.at = DOMAIN f.at /\ g.at[o] = [size |-> f.at[o].size, body |-> b]
        /\ \A x \in DOMAIN f.at : x # o => g.at[x] = f.at[x]
    BY <2>4
  <2>6. \A x \in DOMAIN f.at : g.at[x].size = f.at[x].size /\ g.at[x].body.kind = f.at[x].body.kind
    BY <2>2, <2>5 DEF c
  <2>7. PayloadsKnown(a, index, g)
    BY <1>2, <2>5, <2>6, Zenon DEF PayloadsKnown
  <2>8. KindsKnown(g)
    <3> SUFFICES ASSUME NEW x \in DOMAIN g.at
                 PROVE  /\ g.at[x] = [size |-> g.at[x].size, body |-> g.at[x].body]
                        /\ "kind" \in DOMAIN g.at[x].body
                        /\ g.at[x].body.kind \in {"header", "payload", "modern", "hashes", "directory"}
      BY Zenon DEF KindsKnown
    <3>1. CASE x = o
      BY <2>1, <2>2, <2>5, <3>1
    <3>2. CASE x # o
      BY <1>2, <2>5, <3>2, Zenon DEF KindsKnown
    <3> QED
      BY <3>1, <3>2
  <2>9. Laid(a, index, g)
    BY <1>2, <2>3, <2>7, <2>8, Zenon DEF Laid
  <2>10. ASSUME NEW p \in DOMAIN index
         PROVE  WornEntry(a, index, g, p)
    <3> DEFINE m == Made(a, index, p)
               at == PayloadAt(a, index, p)
    <3>1. /\ index[p] \in DOMAIN f.at
          /\ f.at[index[p]].size = m.headerSize /\ HeaderFrom(f.at[index[p]].body, m.header)
          /\ m.payload # << >> =>
               at \in DOMAIN f.at /\ f.at[at].size = Len(m.payload) /\ PayloadFrom(f.at[at].body, m.payload)
      BY <1>1, Zenon DEF WornEntry
    <3>2. Len(m.header.sha) \in Nat
      <4>1. EntryKnown(m, Len(a.data[p]))
        BY <1>2, MadeIs DEF Apart
      <4>2. /\ Len(m.payload) \in Nat
            /\ m.header = [kind |-> "header", offset |-> 0, stored |-> Len(m.payload), size |-> Len(a.data[p]),
                           method |-> m.header.method, time |-> 0, sha |-> m.payload, blocks |-> m.header.blocks,
                           flags |-> 0, blockSize |-> m.header.blockSize]
        BY <4>1, Zenon DEF EntryKnown
      <4> HIDE DEF m
      <4> QED
        BY <4>2
    <3> HIDE DEF m, at
    <3>3. HeaderFrom(g.at[index[p]].body, m.header)
      <4>1. CASE index[p] = o
        <5>1. HeaderFrom(b, m.header)
          BY <3>1, <3>2, <4>1, DamagedHeader
        <5> QED
          BY <2>5, <4>1, <5>1
      <4>2. CASE index[p] # o
        BY <2>5, <3>1, <4>2
      <4> QED
        BY <4>1, <4>2
    <3>4. ASSUME m.payload # << >>
          PROVE  at \in DOMAIN g.at /\ g.at[at].size = Len(m.payload) /\ PayloadFrom(g.at[at].body, m.payload)
      <4>1. at \in DOMAIN f.at /\ f.at[at].size = Len(m.payload) /\ PayloadFrom(f.at[at].body, m.payload)
        BY <3>1, <3>4
      <4>2. PayloadFrom(g.at[at].body, m.payload)
        <5>1. CASE at = o
          <6>1. PayloadFrom(b, m.payload)
            BY <4>1, <5>1, DamagedPayload
          <6> QED
            BY <2>5, <5>1, <6>1
        <5>2. CASE at # o
          BY <2>5, <4>1, <5>2
        <5> QED
          BY <5>1, <5>2
      <4> QED
        BY <2>5, <2>6, <4>1, <4>2
    <3>5. index[p] \in DOMAIN g.at /\ g.at[index[p]].size = m.headerSize
      BY <2>5, <2>6, <3>1
    <3> QED
      BY <3>3, <3>4, <3>5, Zenon DEF WornEntry, m, at
  <2>11. \A k \in 1..3 : /\ third(k) \in DOMAIN g.at /\ g.at[third(k)].size = 1
                         /\ g.at[third(k)].body.kind = kinds[k]
    BY <1>1, <2>5, <2>6, ZenonT(60)
  <2> QED
    BY <1>1, <2>3, <2>9, <2>10, <2>11, Zenon DEF Worn, third, kinds
<1>4. ASSUME NEW footer, g = [at |-> f.at, end |-> f.end, footer |-> footer],
             \/ footer = [f.footer EXCEPT !.version = 10]
             \/ footer = [f.footer EXCEPT !.encrypted = 1]
             \/ footer = [f.footer EXCEPT !.index.offset = @ + 1]
             \/ \E names : footer = [f.footer EXCEPT !.names = names]
      PROVE  Worn(a, index, g)
  <2> DEFINE body == ModernIndex(a, index, IndexAt(f))
             start == f.footer.index.offset
             shape == FooterShape(110)
  <2>1. IsFile(g) /\ g.at = f.at /\ g.footer = footer /\ g.end = f.end /\ IndexAt(g) = IndexAt(f)
    BY <1>4 DEF IsFile, IndexAt
  <2>2. start \in Nat /\ start >= IndexAt(f) /\ f.footer.index = [offset |-> start, size |-> 1, sha |-> body]
    BY <1>1 DEF RegionAt
  <2>3. f.footer = [shape |-> shape, version |-> f.footer.version, encrypted |-> f.footer.encrypted,
                    frozen |-> 0, names |-> f.footer.names, index |-> [offset |-> start, size |-> 1, sha |-> body]]
    BY <1>1, <2>2
  <2> HIDE DEF body, start, shape
  <2>4. /\ footer = [shape |-> shape, version |-> footer.version, encrypted |-> footer.encrypted,
                     frozen |-> 0, names |-> footer.names, index |-> footer.index]
        /\ footer.version \in {10, f.footer.version}
        /\ footer.index \in {[offset |-> start, size |-> 1, sha |-> body], [offset |-> start + 1, size |-> 1, sha |-> body]}
    BY <1>4, <2>3
  <2>5. footer.version \in {10, 11}
    BY <1>1, <2>4
  <2>6. footer # NoFooter
    <3>1. NoFooter.version = -1
      BY DEF NoFooter
    <3> QED
      BY <2>5, <3>1
  <2>7. /\ footer.index.offset \in Nat /\ footer.index.offset >= IndexAt(f)
        /\ footer.index = RegionAt(footer.index.offset, body)
    <3>1. CASE footer.index = [offset |-> start, size |-> 1, sha |-> body]
      BY <2>2, <3>1 DEF RegionAt
    <3>2. CASE footer.index = [offset |-> start + 1, size |-> 1, sha |-> body]
      <4>1. footer.index.offset = start + 1
        BY <3>2
      <4>2. start + 1 \in Nat /\ start + 1 >= IndexAt(f)
        BY <1>2, <2>2
      <4> QED
        BY <3>2, <4>1, <4>2 DEF RegionAt
    <3> QED
      BY <2>4, <3>1, <3>2
  <2>8. PayloadsKnown(a, index, g) /\ KindsKnown(g)
    BY <1>2, <2>1, Zenon DEF PayloadsKnown, KindsKnown
  <2>9. Laid(a, index, g)
    BY <1>2, <2>1, <2>6, <2>8, Zenon DEF Laid
  <2>10. \A p \in DOMAIN index : WornEntry(a, index, g, p)
    BY <1>1, <2>1, Zenon DEF WornEntry
  <2>11. \A k \in 1..3 : /\ third(k) \in DOMAIN g.at /\ g.at[third(k)].size = 1
                         /\ g.at[third(k)].body.kind = kinds[k]
    BY <1>1, <2>1, Zenon
  <2> QED
    BY <2>1, <2>4, <2>5, <2>7, <2>9, <2>10, <2>11, ZenonT(60) DEF Worn, body, shape, third, kinds
<1> QED
  BY <1>2, <1>3, <1>4, DamagedIs

-----------------------------------------------------------------------------
(***************************************************************************)
(* Compact records                                                         *)
(***************************************************************************)
\* The blocks of an entry: none, or as many of one piece each as its contents
\* are cut into.
BlocksKnown(m, size) ==
  LET h == m.header
      n == Len(m.payload)
  IN /\ h.method = 0 => n = size /\ h.blocks = << >> /\ h.blockSize = 0
     /\ h.method # 0 =>
          /\ h.method = 1 /\ n \in Nat /\ n >= 1 /\ size \in Nat /\ size >= 1
          /\ h.blocks = [i \in 1..n |-> [start |-> m.headerSize + i - 1, end |-> m.headerSize + i]]
          /\ h.blockSize \in Nat /\ h.blockSize >= 1 /\ CeilDiv(size, h.blockSize) = n

LEMMA EntryBlocks ==
  ASSUME NEW S, NEW data \in Seq(S), NEW codec \in {"none", "Oodle"}, NEW at
  PROVE  BlocksKnown(WrittenEntry(110, codec, at, data), Len(data))
<1> DEFINE m == WrittenEntry(110, codec, at, data)
<1>1. CASE codec = "none" \/ data = << >>
  <2>1. /\ m.payload = Plain(data)
        /\ m.header = [kind |-> "header", offset |-> 0, stored |-> Len(Plain(data)), size |-> Len(data),
                       method |-> 0, time |-> 0, sha |-> Plain(data), blocks |-> << >>,
                       flags |-> 0, blockSize |-> 0]
    BY <1>1, StoredEntry
  <2>2. Len(Plain(data)) = Len(data)
    BY DEF Plain
  <2> HIDE DEF m
  <2>3. m.header.method = 0 /\ m.header.blocks = << >> /\ m.header.blockSize = 0
    BY <2>1
  <2> QED
    BY <2>1, <2>2, <2>3 DEF BlocksKnown, m
<1>2. CASE codec = "Oodle" /\ data # << >>
  <2> DEFINE n == BlockSizeFor(Len(data))
             c == CeilDiv(Len(data), n)
             chunks == Chunks(data, n)
             blocks == [i \in 1..c |-> [start |-> m.headerSize + i - 1, end |-> m.headerSize + i]]
             size == Len(data)
  <2>0. m = WrittenEntry(110, "Oodle", at, data)
    BY <1>2
  <2> HIDE DEF m
  <2>1. /\ n \in Nat /\ n >= 1 /\ c \in Nat /\ c >= 1
        /\ m.payload = [i \in 1..c |-> Packed("Oodle", chunks[i])]
        /\ m.header = [kind |-> "header", offset |-> 0, stored |-> c, size |-> size,
                       method |-> 1, time |-> 0, sha |-> m.payload, blocks |-> blocks,
                       flags |-> 0, blockSize |-> IF c = 1 THEN size ELSE n]
    BY <1>2, <2>0, PackedEntry
  <2>2. size \in Nat /\ size >= 1 /\ c = CeilDiv(size, n)
    BY <1>2
  <2> HIDE DEF n, c, chunks, size
  <2>3. Len(m.payload) = c
    BY <2>1
  <2> HIDE DEF blocks
  <2>4. m.header.method = 1 /\ m.header.blocks = blocks /\ m.header.blockSize = IF c = 1 THEN size ELSE n
    BY <2>1
  <2>5. c = 1 => CeilDiv(size, size) = 1
    BY <2>2 DEF CeilDiv
  <2>6. /\ m.header.blockSize \in Nat /\ m.header.blockSize >= 1
        /\ CeilDiv(size, m.header.blockSize) = c
    <3>1. CASE c = 1
      BY <2>2, <2>4, <2>5, <3>1
    <3>2. CASE c # 1
      BY <2>1, <2>2, <2>4, <3>2
    <3> QED
      BY <3>1, <3>2
  <2>7. m.header.method # 0
    BY <2>4
  <2> QED
    BY <2>1, <2>2, <2>3, <2>4, <2>6, <2>7, Zenon DEF BlocksKnown, m, blocks, size
<1> QED
  BY <1>1, <1>2

LEMMA MadeBlocks ==
  ASSUME NEW a, CallFits(a), NEW index, NEW p \in Path
  PROVE  BlocksKnown(Made(a, index, p), Len(a.data[p]))
<1>1. a.data[p] \in Seq(ToSet(a.data[p])) /\ a.codec \in {"none", "Oodle"}
  BY Zenon DEF CallFits
<1> QED
  BY <1>1, EntryBlocks, Zenon DEF Made

\* The code of a block size gives it back.
LEMMA CodeBack ==
  ASSUME NEW n \in Nat
  PROVE  SizeOfCode(SizeCode(n)) = n
<1> DEFINE code == (n \div Align) % Codes
<1>1. CASE code * Align = n /\ code # Codes - 1
  <2>1. SizeCode(n) = <<code>>
    BY <1>1 DEF SizeCode
  <2> HIDE DEF code
  <2>2. Len(<<code>>) = 1 /\ <<code>>[1] = code
    OBVIOUS
  <2> QED
    BY <1>1, <2>1, <2>2 DEF SizeOfCode
<1>2. CASE ~(code * Align = n /\ code # Codes - 1)
  <2>1. SizeCode(n) = <<Codes - 1, n>>
    BY <1>2 DEF SizeCode
  <2>2. Len(<<Codes - 1, n>>) = 2 /\ <<Codes - 1, n>>[2] = n
    OBVIOUS
  <2> QED
    BY <2>1, <2>2 DEF SizeOfCode
<1> QED
  BY <1>1, <1>2

\* What a reader makes of the record of an entry.
RecordKnown(r, at, h) ==
  /\ r.at = at /\ r.size = h.size /\ r.method = h.method /\ r.encrypted = FALSE
  /\ StoredOf(r) = h.stored /\ RecordSizes(r) = BlockSizes(h) /\ RecordBlockSize(r) = h.blockSize
  /\ Len(BlockSizes(h)) = Len(h.blocks) /\ RecordFits(r)

LEMMA EncodedIs ==
  ASSUME NEW m, NEW size, EntryKnown(m, size), BlocksKnown(m, size), NEW at
  PROVE  RecordKnown(Encoded(at, m.header), at, m.header)
<1> DEFINE h == m.header
           n == Len(m.payload)
           r == Encoded(at, h)
<1>1. /\ n \in Nat /\ h.method \in {0, 1} /\ h.stored = n /\ h.size = size
  <2>1. /\ n \in Nat /\ h.method \in {0, 1}
        /\ h = [kind |-> "header", offset |-> 0, stored |-> n, size |-> size, method |-> h.method, time |-> 0,
                sha |-> m.payload, blocks |-> h.blocks, flags |-> 0, blockSize |-> h.blockSize]
    BY Zenon DEF EntryKnown
  <2> HIDE DEF h, n
  <2> QED
    BY <2>1
<1>2. /\ h.method = 0 => n = size /\ h.blocks = << >> /\ h.blockSize = 0
      /\ h.method # 0 =>
          /\ n >= 1 /\ h.blocks = [i \in 1..n |-> [start |-> m.headerSize + i - 1, end |-> m.headerSize + i]]
          /\ h.blockSize \in Nat /\ h.blockSize >= 1
  BY Zenon DEF BlocksKnown
<1>3. m.headerSize \in Nat
  BY DEF EntryKnown
<1> HIDE DEF h, n
<1> DEFINE sizes == BlockSizes(h)
           size1 == SizeOfCode(SizeCode(h.blockSize))
<1>4. /\ r.at = at /\ r.size = h.size /\ r.method = h.method /\ r.encrypted = FALSE /\ r.stored = h.stored
      /\ r.count = Len(h.blocks) /\ SizeOfCode(r.code) = size1
      /\ r.sizes = IF Len(h.blocks) > 1 THEN sizes ELSE << >>
  BY DEF Encoded
<1>5. h.blockSize \in Nat /\ size1 = h.blockSize
  <2>1. h.blockSize \in Nat
    BY <1>1, <1>2
  <2> QED
    BY <2>1, CodeBack
<1> HIDE DEF r, size1
<1>6. CASE h.method = 0
  <2>1. h.blocks = << >> /\ Len(h.blocks) = 0 /\ sizes = << >>
    BY <1>2, <1>6 DEF BlockSizes
  <2>2. RecordSizes(r) = << >>
    BY <1>4, <1>6 DEF RecordSizes
  <2>3. Total(<< >>) = 0
    <3>1. << >> = [i \in 1..0 |-> 1] /\ 0 \in Nat
      OBVIOUS
    <3> QED
      BY <3>1, TotalOfOnes
  <2>4. StoredOf(r) = h.stored /\ RecordBlockSize(r) = h.blockSize
    BY <1>1, <1>2, <1>4, <1>5, <1>6 DEF StoredOf, RecordBlockSize
  <2>5. RecordFits(r)
    BY <1>2, <1>4, <1>5, <1>6, <2>1, <2>2, <2>3 DEF RecordFits
  <2> QED
    BY <1>4, <2>1, <2>2, <2>4, <2>5 DEF RecordKnown, r, h
<1>7. CASE h.method # 0
  <2>1. Len(h.blocks) = n /\ DOMAIN h.blocks = 1..n
    BY <1>1, <1>2, <1>7
  <2>2. sizes = [i \in 1..n |-> 1]
    <3>1. \A i \in 1..n : h.blocks[i].end - h.blocks[i].start = 1
      BY <1>1, <1>2, <1>3, <1>7
    <3> QED
      BY <2>1, <3>1 DEF BlockSizes
  <2> HIDE DEF sizes
  <2>3. Len(sizes) = n
    BY <1>1, <2>2
  <2>4. RecordSizes(r) = sizes
    <3>1. CASE n = 1
      <4>1. RecordSizes(r) = <<1>>
        BY <1>1, <1>4, <1>7, <2>1, <3>1 DEF RecordSizes
      <4>2. <<1>> = [i \in 1..1 |-> 1]
        OBVIOUS
      <4> QED
        BY <2>2, <3>1, <4>1, <4>2
    <3>2. CASE n # 1
      <4>1. n > 1
        BY <1>1, <1>2, <1>7, <3>2
      <4> QED
        BY <1>4, <1>7, <2>1, <3>2, <4>1 DEF RecordSizes
    <3> QED
      BY <3>1, <3>2
  <2>5. Total(sizes) = n
    BY <1>1, <2>2, TotalOfOnes
  <2>6. StoredOf(r) = h.stored
    BY <1>4, <1>7 DEF StoredOf
  <2>7. RecordBlockSize(r) = h.blockSize
    BY <1>2, <1>4, <1>5, <1>7 DEF RecordBlockSize
  <2>8. RecordFits(r)
    BY <1>1, <1>2, <1>4, <1>7, <2>1, <2>3, <2>4, <2>5 DEF RecordFits
  <2> QED
    BY <1>4, <2>1, <2>3, <2>4, <2>6, <2>7, <2>8, Zenon DEF RecordKnown, r, h, sizes
<1> QED
  BY <1>6, <1>7

-----------------------------------------------------------------------------
(***************************************************************************)
(* What is read back of it                                                 *)
(***************************************************************************)
\* A stretch that one thing holds is read from that.
LEMMA BytesFrom ==
  ASSUME NEW f, NEW start, NEW stop, NEW o \in DOMAIN f.at, f.at[o].body.kind = "payload",
         o <= start, stop <= o + f.at[o].size,
         \A x \in DOMAIN f.at : f.at[x].body.kind = "payload" /\ x <= start /\ stop <= x + f.at[x].size => x = o
  PROVE  Bytes(f, start, stop) = SubSeq(f.at[o].body.bytes, start - o + 1, stop - o)
<1> DEFINE around == {x \in DOMAIN f.at : /\ f.at[x].body.kind = "payload"
                                          /\ x <= start /\ stop <= x + f.at[x].size}
           found == CHOOSE x \in around : TRUE
<1>1. o \in around /\ \A x \in around : x = o
  OBVIOUS
<1>2. Bytes(f, start, stop) = IF around = {} THEN [i \in 1..(stop - start) |-> Noise]
                              ELSE SubSeq(f.at[found].body.bytes, start - found + 1, stop - found)
  BY Zenon DEF Bytes
<1> HIDE DEF around
<1>3. around # {} /\ found = o
  BY <1>1
<1> QED
  BY <1>2, <1>3, Zenon

\* A stretch of a payload is read from that payload, for no two share a byte.
LEMMA BytesOf ==
  ASSUME NEW a, CallFits(a), NEW index, NEW f, NEW end, Apart(a, index, end), PayloadsKnown(a, index, f),
         NEW p \in DOMAIN index, NEW o, o = PayloadAt(a, index, p), o \in DOMAIN f.at,
         f.at[o].size = Len(Made(a, index, p).payload), f.at[o].body.kind = "payload",
         NEW start \in Nat, NEW stop \in Nat, o <= start, start < stop, stop <= EndOf(a, index, p)
  PROVE  Bytes(f, start, stop) = SubSeq(f.at[o].body.bytes, start - o + 1, stop - o)
<1> DEFINE around == {x \in DOMAIN f.at : /\ f.at[x].body.kind = "payload"
                                          /\ x <= start /\ stop <= x + f.at[x].size}
<1>1. DOMAIN index \subseteq Path /\ \A q \in DOMAIN index : index[q] \in Nat
  BY Zenon DEF Apart
<1>2. \A q \in DOMAIN index :
        /\ PayloadAt(a, index, q) \in Nat /\ EndOf(a, index, q) \in Nat
        /\ EndOf(a, index, q) = PayloadAt(a, index, q) + Len(Made(a, index, q).payload)
        /\ index[q] < PayloadAt(a, index, q) /\ index[q] \in Nat
  BY <1>1, PlacesAre, Zenon
<1>3. o \in Nat /\ EndOf(a, index, p) = o + Len(Made(a, index, p).payload) /\ index[p] < o /\ index[p] \in Nat
      /\ EndOf(a, index, p) \in Nat
  BY <1>2, Zenon
<1>4. Len(Made(a, index, p).payload) \in Nat
  BY <1>1, MadeIs, Zenon DEF EntryKnown
<1>5. o \in around
  BY <1>3, <1>4
<1>6. ASSUME NEW x \in around
      PROVE  x = o
  <2>1. PICK q \in DOMAIN index : x = PayloadAt(a, index, q) /\ f.at[x].size = Len(Made(a, index, q).payload)
    BY <1>6, Zenon DEF PayloadsKnown
  <2>2. x \in Nat /\ EndOf(a, index, q) = x + f.at[x].size /\ index[q] < x /\ index[q] \in Nat
        /\ EndOf(a, index, q) \in Nat
    BY <1>2, <2>1, Zenon
  <2>3. x <= start /\ stop <= x + f.at[x].size
    BY <1>6
  <2>4. q # p => EndOf(a, index, q) <= index[p] \/ EndOf(a, index, p) <= index[q]
    BY Zenon DEF Apart
  <2>5. q = p
    <3> SUFFICES ASSUME q # p PROVE FALSE
      OBVIOUS
    <3>1. CASE EndOf(a, index, q) <= index[p]
      BY <1>3, <2>2, <2>3, <3>1
    <3>2. CASE EndOf(a, index, p) <= index[q]
      BY <1>3, <1>4, <2>2, <2>3, <3>2
    <3> QED
      BY <2>4, <3>1, <3>2
  <2> QED
    BY <2>1, <2>5
<1>7. \A x \in DOMAIN f.at :
        f.at[x].body.kind = "payload" /\ x <= start /\ stop <= x + f.at[x].size => x = o
  BY <1>6
<1>8. o <= start /\ stop <= o + f.at[o].size
  BY <1>5
<1> QED
  BY <1>7, <1>8, BytesFrom

\* An empty stretch has no bytes.
LEMMA BytesNone ==
  ASSUME NEW a, CallFits(a), NEW index, NEW f, NEW end, Apart(a, index, end), PayloadsKnown(a, index, f), NEW s \in Nat
  PROVE  Bytes(f, s, s) = << >>
<1> DEFINE around == {x \in DOMAIN f.at : /\ f.at[x].body.kind = "payload"
                                          /\ x <= s /\ s <= x + f.at[x].size}
           o == CHOOSE x \in around : TRUE
<1>1. CASE around = {}
  <2>1. Bytes(f, s, s) = [i \in 1..(s - s) |-> Noise]
    BY <1>1, Zenon DEF Bytes
  <2>2. s - s = 0 /\ 1..0 = {}
    OBVIOUS
  <2> QED
    BY <2>1, <2>2
<1>2. CASE around # {}
  <2>1. o \in around
    BY <1>2
  <2>2. PICK q \in DOMAIN index : o = PayloadAt(a, index, q)
    BY <2>1, Zenon DEF PayloadsKnown
  <2>3. o \in Nat
    <3>1. q \in Path /\ index[q] \in Nat
      BY Zenon DEF Apart
    <3> QED
      BY <2>2, <3>1, PlacesAre, Zenon
  <2>4. Bytes(f, s, s) = SubSeq(f.at[o].body.bytes, s - o + 1, s - o)
    BY <1>2, Zenon DEF Bytes
  <2> HIDE DEF o
  <2>5. s - o + 1 \in Int /\ s - o \in Int /\ s - o < s - o + 1
    BY <2>3
  <2> QED
    BY <2>4, <2>5, SubSeqEmpty
<1> QED
  BY <1>1, <1>2

\* What a reader finds in the index of a file that is as it was written.
IndexKnown(a, index, f) ==
  /\ IsModern(f) /\ Primary(f) = ModernIndex(a, index, IndexAt(f))
  /\ Region(f, Primary(f).hashes[1]) = PathHashIndex(OrderOf(index))
  /\ Region(f, Primary(f).directory[1]) = DirectoryIndex(OrderOf(index))
  /\ OrderKnown(index, OrderOf(index))
  /\ Entries(f) = {[path |-> p, at |-> index[p], header |-> Made(a, index, p).header] : p \in DOMAIN index}

LEMMA IndexRead ==
  ASSUME NEW a, CallFits(a), NEW index, NEW f, Whole(a, index, f), DetectedLayout(f) \in {100, 110}
  PROVE  IndexKnown(a, index, f)
<1> DEFINE paths == OrderOf(index)
           modern == ModernIndex(a, index, IndexAt(f))
<1>1. IsModern(f)
  BY DEF IsModern, Major
<1>2. /\ Laid(a, index, f) /\ HasIndex(f, IndexBodies(a, index, IndexAt(f)))
      /\ \A p \in DOMAIN index : HasEntry(a, index, f, p)
      /\ f.footer.index = RegionAt(IndexAt(f), modern)
  BY Zenon DEF Whole
<1>3. IndexAt(f) \in Nat /\ Apart(a, index, IndexAt(f)) /\ DOMAIN index = ToSet(a.paths)
  BY <1>2, Zenon DEF Laid
<1>4. OrderKnown(index, paths)
  <2>1. a.paths \in Seq(Path)
    BY Zenon DEF CallFits
  <2>2. IsFiniteSet(DOMAIN index) /\ DOMAIN index \subseteq Path
    BY <1>3, <2>1, MembersFinite
  <2> QED
    BY <2>2, OrderOfIs, Zenon
<1>5. /\ f.at[IndexAt(f)].body = modern /\ f.at[IndexAt(f) + 1].body = PathHashIndex(paths)
      /\ f.at[IndexAt(f) + 2].body = DirectoryIndex(paths)
  <2> DEFINE bodies == <<modern, PathHashIndex(paths), DirectoryIndex(paths)>>
  <2>1. \A k \in 1..3 : f.at[IndexAt(f) + k - 1] = [size |-> 1, body |-> bodies[k]]
    BY <1>2, Zenon DEF HasIndex, IndexBodies
  <2>2. IndexAt(f) + 1 - 1 = IndexAt(f) /\ IndexAt(f) + 2 - 1 = IndexAt(f) + 1 /\ IndexAt(f) + 3 - 1 = IndexAt(f) + 2
    BY <1>3
  <2>3. bodies[1] = modern /\ bodies[2] = PathHashIndex(paths) /\ bodies[3] = DirectoryIndex(paths)
    OBVIOUS
  <2> HIDE DEF bodies, modern, paths
  <2> QED
    BY <2>1, <2>2, <2>3
<1>6. Primary(f) = modern
  BY <1>2, <1>5 DEF Primary, Region, RegionAt
<1>7. /\ modern.hashes[1].offset = IndexAt(f) + 1 /\ modern.directory[1].offset = IndexAt(f) + 2
      /\ modern.records = [o \in 0..(Len(paths) - 1) |->
                             Encoded(index[paths[o + 1]], Made(a, index, paths[o + 1]).header)]
  BY DEF ModernIndex, RegionAt
<1> HIDE DEF modern
<1>8. Region(f, Primary(f).hashes[1]) = PathHashIndex(paths) /\ Region(f, Primary(f).directory[1]) = DirectoryIndex(paths)
  BY <1>5, <1>6, <1>7 DEF Region
<1>9. Entries(f) = {[path |-> p, at |-> index[p], header |-> Made(a, index, p).header] : p \in DOMAIN index}
  <2> DEFINE files == DirectoryIndex(paths).files
             entry(i) == [path |-> files[i].path, at |-> modern.records[files[i].record].at,
                          header |-> f.at[modern.records[files[i].record].at].body]
             made(p) == [path |-> p, at |-> index[p], header |-> Made(a, index, p).header]
  <2>1. Entries(f) = {entry(i) : i \in DOMAIN files}
    BY <1>1, <1>6, <1>8, ZenonT(60) DEF Entries, ModernEntries
  <2>2. files = [i \in DOMAIN paths |-> [path |-> paths[i], record |-> i - 1]]
    BY DEF DirectoryIndex
  <2> HIDE DEF files, paths
  <2>3. ASSUME NEW i \in DOMAIN paths
        PROVE  entry(i) = made(paths[i])
    <3>1. files[i].path = paths[i] /\ files[i].record = i - 1
      BY <2>2
    <3>2. DOMAIN paths = 1..Len(paths) /\ Len(paths) \in Nat /\ paths[i] \in DOMAIN index
      BY <1>4, Zenon DEF OrderKnown
    <3>3. i - 1 \in 0..(Len(paths) - 1) /\ (i - 1) + 1 = i
      BY <3>2
    <3>4. modern.records[i - 1] = Encoded(index[paths[i]], Made(a, index, paths[i]).header)
      BY <1>7, <3>3
    <3>5. modern.records[i - 1].at = index[paths[i]]
      BY <3>4 DEF Encoded
    <3>6. f.at[index[paths[i]]].body = Made(a, index, paths[i]).header
      <4>1. f.at[index[paths[i]]] = [size |-> Made(a, index, paths[i]).headerSize, body |-> Made(a, index, paths[i]).header]
        BY <1>2, <3>2, Zenon DEF HasEntry
      <4> QED
        BY <4>1
    <3> QED
      BY <3>1, <3>5, <3>6, Zenon
  <2>4. DOMAIN files = DOMAIN paths
    BY <2>2
  <2>5. ToSet(paths) = DOMAIN index /\ ToSet(paths) = {paths[i] : i \in DOMAIN paths}
    BY <1>4, Zenon DEF OrderKnown, ToSet
  <2> HIDE DEF entry, made
  <2>6. Entries(f) = {made(p) : p \in DOMAIN index}
    BY <2>1, <2>3, <2>4, <2>5
  <2> QED
    BY <2>6, Zenon DEF made
<1> QED
  BY <1>1, <1>4, <1>6, <1>8, <1>9, Zenon DEF IndexKnown, paths, modern

-----------------------------------------------------------------------------
(***************************************************************************)
(* A damaged file that opens is as it was written                          *)
(***************************************************************************)
\* Its footer is of one of the two versions that are as long.
LEMMA WornLayout ==
  ASSUME NEW a, NEW index, NEW f, Worn(a, index, f), FooterFits(f)
  PROVE  DetectedLayout(f) \in {100, 110} /\ DetectedLayout(f) \in Recognized(f)
<1>1. Recognized(f) # {}
  BY FS_EmptySet DEF FooterFits
<1>2. DetectedLayout(f) \in Recognized(f)
  BY <1>1 DEF DetectedLayout
<1>3. f.footer.version \in {10, 11}
  BY Zenon DEF Worn
<1>4. ASSUME NEW l \in Layout, Major(l) \in {10, 11}
      PROVE  l \in {100, 110}
  BY <1>4 DEF Layout, Major
<1>5. Recognized(f) \subseteq {100, 110}
  BY <1>3, <1>4 DEF Recognized
<1> QED
  BY <1>2, <1>5

\* The digest in the footer is of the index alone, and the index has those of
\* the two lists.
LEMMA WornIndex ==
  ASSUME NEW a, NEW index, NEW f, Worn(a, index, f), FooterFits(f), IndexFits(f)
  PROVE  /\ HasIndex(f, IndexBodies(a, index, IndexAt(f)))
         /\ f.footer.index = RegionAt(IndexAt(f), ModernIndex(a, index, IndexAt(f)))
<1> DEFINE modern == ModernIndex(a, index, IndexAt(f))
           hashes == PathHashIndex(OrderOf(index))
           directory == DirectoryIndex(OrderOf(index))
           at == IndexAt(f)
           kinds == <<"modern", "hashes", "directory">>
           bodies == <<modern, hashes, directory>>
<1>1. DetectedLayout(f) \in {100, 110} /\ IsModern(f)
  <2>1. DetectedLayout(f) \in {100, 110}
    BY WornLayout
  <2> QED
    BY <2>1 DEF IsModern, Major
<1>2. /\ \A k \in 1..3 : at + k - 1 \in DOMAIN f.at /\ f.at[at + k - 1].size = 1 /\ f.at[at + k - 1].body.kind = kinds[k]
      /\ f.footer.index.offset \in Nat /\ f.footer.index.offset >= at
      /\ f.footer.index = RegionAt(f.footer.index.offset, modern)
      /\ at \in Nat /\ f.end \in Nat /\ KindsKnown(f)
  BY Zenon DEF Worn, Laid
<1>3. at + 3 = f.end
  BY <1>2 DEF IndexAt
<1>4. ModernRegionsFit(f)
  BY <1>1 DEF IndexFits
<1>5. \A k \in 1..3 : f.at[at + k - 1] = [size |-> 1, body |-> f.at[at + k - 1].body]
  BY <1>2 DEF KindsKnown
<1>6. /\ modern.hashes = <<RegionAt(at + 1, hashes)>> /\ modern.directory = <<RegionAt(at + 2, directory)>>
      /\ modern.hashes[1] = RegionAt(at + 1, hashes) /\ modern.directory[1] = RegionAt(at + 2, directory)
  BY DEF ModernIndex
<1> HIDE DEF modern, hashes, directory, at
<1>7. /\ f.footer.index.size = 1 /\ f.footer.index.sha = modern
  BY <1>2 DEF RegionAt
<1>8. /\ f.footer.index.offset + 1 <= f.end
      /\ f.at[f.footer.index.offset].body.kind = "modern"
      /\ f.at[f.footer.index.offset].body = modern
  BY <1>4, <1>7 DEF ModernRegionsFit, RegionFits, Holds
<1>9. f.footer.index.offset = at
  <2>1. \E k \in 1..3 : f.footer.index.offset = at + k - 1
    BY <1>2, <1>3, <1>8
  <2>2. PICK k \in 1..3 : f.footer.index.offset = at + k - 1
    BY <2>1
  <2>3. kinds[k] = "modern"
    BY <1>2, <1>8, <2>2
  <2>4. k = 1
    BY <2>3
  <2> QED
    BY <1>2, <2>2, <2>4
<1>10. f.at[at].body = modern
  BY <1>8, <1>9
<1>11. RegionFits(f, modern.hashes[1], "hashes") /\ RegionFits(f, modern.directory[1], "directory")
  BY <1>4, <1>8 DEF ModernRegionsFit, Primary, Region
<1>12. f.at[at + 1].body = hashes /\ f.at[at + 2].body = directory
  BY <1>6, <1>11 DEF RegionFits, RegionAt
<1>13. \A k \in 1..3 : f.at[at + k - 1].body = bodies[k]
  <2>1. at + 1 - 1 = at /\ at + 2 - 1 = at + 1 /\ at + 3 - 1 = at + 2
    BY <1>2
  <2> QED
    BY <1>10, <1>12, <2>1
<1> HIDE DEF bodies
<1>14. HasIndex(f, bodies)
  BY <1>2, <1>5, <1>13, Zenon DEF HasIndex, at
<1>15. bodies = IndexBodies(a, index, at)
  BY Zenon DEF bodies, IndexBodies, modern, hashes, directory, at
<1> QED
  BY <1>2, <1>9, <1>14, <1>15, Zenon DEF modern, at

\* The record of each entry is the one that was written of it.
LEMMA WornRecord ==
  ASSUME NEW a, CallFits(a), NEW index, NEW f, Worn(a, index, f), FooterFits(f), IndexFits(f), NEW p \in DOMAIN index
  PROVE  /\ LocalFits(f, Encoded(index[p], Made(a, index, p).header))
         /\ [path |-> p, at |-> index[p], header |-> f.at[index[p]].body] \in Entries(f)
<1> DEFINE paths == OrderOf(index)
           modern == ModernIndex(a, index, IndexAt(f))
           r == Encoded(index[p], Made(a, index, p).header)
<1>1. OrderKnown(index, paths)
  <2>1. a.paths \in Seq(Path) /\ DOMAIN index = ToSet(a.paths)
    BY Zenon DEF CallFits, Worn, Laid
  <2>2. IsFiniteSet(DOMAIN index) /\ DOMAIN index \subseteq Path
    BY <2>1, MembersFinite
  <2> QED
    BY <2>2, OrderOfIs, Zenon
<1>2. IsModern(f)
  <2>1. DetectedLayout(f) \in {100, 110}
    BY WornLayout
  <2> QED
    BY <2>1 DEF IsModern, Major
<1>3. RecordsFit(f)
  BY <1>2 DEF IndexFits
<1>4. /\ HasIndex(f, IndexBodies(a, index, IndexAt(f)))
      /\ f.footer.index = RegionAt(IndexAt(f), modern)
  BY WornIndex, Zenon
<1>5. IndexAt(f) \in Nat
  BY Zenon DEF Worn, Laid
<1>6. f.at[IndexAt(f)].body = modern /\ f.at[IndexAt(f) + 2].body = DirectoryIndex(paths)
  <2> DEFINE bodies == <<modern, PathHashIndex(paths), DirectoryIndex(paths)>>
  <2>1. \A k \in 1..3 : f.at[IndexAt(f) + k - 1] = [size |-> 1, body |-> bodies[k]]
    BY <1>4, Zenon DEF HasIndex, IndexBodies
  <2>2. IndexAt(f) + 1 - 1 = IndexAt(f) /\ IndexAt(f) + 3 - 1 = IndexAt(f) + 2
    BY <1>5
  <2>3. bodies[1] = modern /\ bodies[3] = DirectoryIndex(paths)
    OBVIOUS
  <2> HIDE DEF bodies, modern, paths
  <2> QED
    BY <2>1, <2>2, <2>3
<1>7. Primary(f) = modern
  BY <1>4, <1>6 DEF Primary, Region, RegionAt
<1>8. /\ modern.directory[1].offset = IndexAt(f) + 2
      /\ modern.records = [o \in 0..(Len(paths) - 1) |->
                             Encoded(index[paths[o + 1]], Made(a, index, paths[o + 1]).header)]
  BY DEF ModernIndex, RegionAt
<1> HIDE DEF modern
<1>9. Region(f, Primary(f).directory[1]) = DirectoryIndex(paths)
  BY <1>6, <1>7, <1>8 DEF Region
<1> DEFINE files == DirectoryIndex(paths).files
<1>10. files = [i \in DOMAIN paths |-> [path |-> paths[i], record |-> i - 1]]
  BY DEF DirectoryIndex
<1> HIDE DEF files, paths
<1>11. PICK i \in DOMAIN paths : paths[i] = p
  <2>1. p \in ToSet(paths)
    BY <1>1, Zenon DEF OrderKnown
  <2> QED
    BY <2>1 DEF ToSet
<1>12. DOMAIN paths = 1..Len(paths) /\ Len(paths) \in Nat
  BY <1>1, Zenon DEF OrderKnown
<1>13. i \in DOMAIN files /\ files[i].path = p /\ files[i].record = i - 1
  BY <1>10, <1>11
<1>14. modern.records[i - 1] = r
  <2>1. i - 1 \in 0..(Len(paths) - 1) /\ (i - 1) + 1 = i
    BY <1>12
  <2> QED
    BY <1>8, <1>11, <2>1
<1>15. Region(f, Primary(f).directory[1]).files = files /\ Primary(f).records = modern.records
  BY <1>7, <1>9 DEF files
<1>16. LocalFits(f, r)
  BY <1>3, <1>13, <1>14, <1>15, Zenon DEF RecordsFit
<1>17. r.at = index[p]
  BY DEF Encoded
<1> HIDE DEF r
<1>18. [path |-> p, at |-> index[p], header |-> f.at[index[p]].body] \in ModernEntries(f)
  <2> DEFINE entry(j) == [path |-> files[j].path, at |-> modern.records[files[j].record].at,
                          header |-> f.at[modern.records[files[j].record].at].body]
  <2>1. ModernEntries(f) = {entry(j) : j \in DOMAIN files}
    BY <1>15, Zenon DEF ModernEntries
  <2>2. entry(i) = [path |-> p, at |-> index[p], header |-> f.at[index[p]].body]
    BY <1>13, <1>14, <1>17
  <2> HIDE DEF entry
  <2> QED
    BY <1>13, <2>1, <2>2
<1> QED
  BY <1>2, <1>16, <1>18, Zenon DEF Entries, r

\* Its headers are as they were written, but for their digests.
LocalKnown(b, h) ==
  /\ b.stored = h.stored /\ b.size = h.size /\ b.method = h.method /\ b.blocks = h.blocks
  /\ b.flags = 0 /\ b.blockSize = h.blockSize
LEMMA WornHeader ==
  ASSUME NEW a, CallFits(a), NEW index, NEW f, Worn(a, index, f), FooterFits(f), IndexFits(f), NEW p \in DOMAIN index
  PROVE  LocalKnown(f.at[index[p]].body, Made(a, index, p).header)
<1> DEFINE m == Made(a, index, p)
           h == m.header
           b == f.at[index[p]].body
           r == Encoded(index[p], h)
<1>1. DetectedLayout(f) \in {100, 110}
  BY WornLayout
<1>2. LocalFits(f, r)
  BY WornRecord, Zenon
<1>3. RecordKnown(r, index[p], h)
  <2>1. p \in Path
    BY Zenon DEF Worn, Laid, Apart
  <2>2. EntryKnown(m, Len(a.data[p])) /\ BlocksKnown(m, Len(a.data[p]))
    BY <2>1, MadeIs, MadeBlocks, Zenon
  <2> QED
    BY <2>2, EncodedIs, Zenon
<1>4. WornEntry(a, index, f, p)
  BY Zenon DEF Worn
<1>5. HeaderFrom(b, h)
  BY <1>4, Zenon DEF WornEntry
<1>6. b.blocks = h.blocks
  <2>1. b = [kind |-> "header", offset |-> 0, stored |-> b.stored, size |-> b.size, method |-> b.method,
             time |-> 0, sha |-> b.sha, blocks |-> h.blocks, flags |-> b.flags, blockSize |-> b.blockSize]
    BY <1>5, Zenon DEF HeaderFrom
  <2> HIDE DEF b, h
  <2> QED
    BY <2>1
<1>7. r.at = index[p]
  BY <1>3, Zenon DEF RecordKnown
<1>8. /\ b.flags = 0 /\ b.stored = StoredOf(r) /\ b.size = r.size /\ b.method = r.method
      /\ b.blockSize = RecordBlockSize(r)
  BY <1>2, <1>7, Zenon DEF LocalFits
<1>9. StoredOf(r) = h.stored /\ r.size = h.size /\ r.method = h.method /\ RecordBlockSize(r) = h.blockSize
  BY <1>3, Zenon DEF RecordKnown
<1> QED
  BY <1>6, <1>8, <1>9, Zenon DEF LocalKnown

\* An entry is where its header says, when the header is as it was written.
LiesThere(a, index, f, p, e) ==
  /\ EntryHeaderSize(f, e) = Made(a, index, p).headerSize
  /\ PayloadStart(f, e) = PayloadAt(a, index, p) /\ PayloadEnd(f, e) = EndOf(a, index, p)
LEMMA WhereItIs ==
  ASSUME NEW a, CallFits(a), NEW index, NEW f, DetectedLayout(f) \in {100, 110}, NEW p \in Path, index[p] \in Nat,
         NEW e, e.at = index[p], e.header.stored = Made(a, index, p).header.stored,
         e.header.method = Made(a, index, p).header.method, e.header.blocks = Made(a, index, p).header.blocks
  PROVE  LiesThere(a, index, f, p, e)
<1> DEFINE m == Made(a, index, p)
<1>1. /\ \A l \in {100, 110} : m.headerSize = HeaderSize(l, m.header.method, Len(m.header.blocks))
      /\ m.header.stored = Len(m.payload)
  <2>1. EntryKnown(m, Len(a.data[p]))
    BY MadeIs, Zenon
  <2>2. /\ \A l \in {100, 110} : m.headerSize = HeaderSize(l, m.header.method, Len(m.header.blocks))
        /\ m.header = [kind |-> "header", offset |-> 0, stored |-> Len(m.payload), size |-> Len(a.data[p]),
                       method |-> m.header.method, time |-> 0, sha |-> m.payload,
                       blocks |-> m.header.blocks, flags |-> 0, blockSize |-> m.header.blockSize]
    BY <2>1, Zenon DEF EntryKnown
  <2> HIDE DEF m
  <2> QED
    BY <2>2
<1>2. PayloadAt(a, index, p) = index[p] + m.headerSize /\ EndOf(a, index, p) = PayloadAt(a, index, p) + Len(m.payload)
  BY Zenon DEF PayloadAt, EndOf
<1>3. EntryHeaderSize(f, e) = m.headerSize
  BY <1>1 DEF EntryHeaderSize
<1>4. PayloadStart(f, e) = PayloadAt(a, index, p)
  BY <1>2, <1>3, Zenon DEF PayloadStart
<1>5. PayloadEnd(f, e) = EndOf(a, index, p)
  BY <1>1, <1>2, <1>4, Zenon DEF PayloadEnd
<1> QED
  BY <1>3, <1>4, <1>5, Zenon DEF LiesThere

\* Its payloads are the ones that were written, for no damage makes one of the
\* length of the digest that is in front of it.
LEMMA WornPayload ==
  ASSUME NEW a, CallFits(a), NEW index, NEW f, Worn(a, index, f), FooterFits(f), IndexFits(f), PayloadsFit(f),
         NEW p \in DOMAIN index
  PROVE  HasEntry(a, index, f, p)
<1> DEFINE m == Made(a, index, p)
           h == m.header
           x == index[p]
           b == f.at[x].body
           o == PayloadAt(a, index, p)
           e == [path |-> p, at |-> x, header |-> b]
           n == Len(m.payload)
<1>1. DetectedLayout(f) \in {100, 110} /\ DetectedLayout(f) # 30
  BY WornLayout
<1>2. LocalKnown(b, h) /\ e \in Entries(f)
  BY WornHeader, WornRecord, Zenon
<1>3. WornEntry(a, index, f, p) /\ Laid(a, index, f)
  BY Zenon DEF Worn
<1>4. /\ Apart(a, index, IndexAt(f)) /\ PayloadsKnown(a, index, f) /\ KindsKnown(f)
      /\ p \in Path /\ x \in Nat
  BY <1>3, Zenon DEF Laid, Apart
<1>5. EntryKnown(m, Len(a.data[p]))
  BY <1>4, MadeIs, Zenon
<1>6. PayloadStart(f, e) = o /\ PayloadEnd(f, e) = EndOf(a, index, p)
  <2>1. e.at = x /\ e.header = b
    OBVIOUS
  <2> HIDE DEF e
  <2>2. e.header.stored = h.stored /\ e.header.method = h.method /\ e.header.blocks = h.blocks
    BY <1>2, <2>1, Zenon DEF LocalKnown
  <2>3. LiesThere(a, index, f, p, e)
    BY <1>1, <1>4, <2>1, <2>2, WhereItIs
  <2> QED
    BY <2>3, Zenon DEF LiesThere
<1>7. Bytes(f, o, EndOf(a, index, p)) = b.sha
  <2>1. PayloadSound(f, e)
    BY <1>1, <1>2, Zenon DEF PayloadsFit
  <2>2. e.header = b
    OBVIOUS
  <2> HIDE DEF e
  <2> QED
    BY <1>6, <2>1, <2>2, Zenon DEF PayloadSound, Payload
<1>8. /\ o \in Nat /\ EndOf(a, index, p) \in Nat /\ EndOf(a, index, p) = o + n
      /\ m.payload # << >> => o < EndOf(a, index, p)
      /\ n \in Nat /\ (m.payload = << >> <=> n = 0) /\ m.payload = [i \in 1..n |-> m.payload[i]]
  BY <1>4, <1>5, PlacesAre, ZenonT(60) DEF EntryKnown
<1>9. /\ h = [kind |-> "header", offset |-> 0, stored |-> n, size |-> Len(a.data[p]),
             method |-> h.method, time |-> 0, sha |-> m.payload,
             blocks |-> h.blocks, flags |-> 0, blockSize |-> h.blockSize]
      /\ h.sha = m.payload
  <2>1. h = [kind |-> "header", offset |-> 0, stored |-> n, size |-> Len(a.data[p]),
             method |-> h.method, time |-> 0, sha |-> m.payload,
             blocks |-> h.blocks, flags |-> 0, blockSize |-> h.blockSize]
    BY <1>5, Zenon DEF EntryKnown
  <2> HIDE DEF h, m
  <2> QED
    BY <2>1
<1>10. /\ x \in DOMAIN f.at /\ f.at[x].size = m.headerSize /\ HeaderFrom(b, h)
       /\ m.payload # << >> => o \in DOMAIN f.at /\ f.at[o].size = n /\ PayloadFrom(f.at[o].body, m.payload)
  BY <1>3, Zenon DEF WornEntry
<1>11. /\ b = [kind |-> "header", offset |-> 0, stored |-> b.stored, size |-> b.size, method |-> b.method,
               time |-> 0, sha |-> b.sha, blocks |-> h.blocks, flags |-> b.flags, blockSize |-> b.blockSize]
       /\ (b.sha = h.sha \/ Len(b.sha) > Len(h.sha))
  BY <1>10, Zenon DEF HeaderFrom
<1> HIDE DEF m, h, n, x, b, o, e
<1>12. ASSUME m.payload = << >>
       PROVE  b.sha = m.payload
  <2>1. EndOf(a, index, p) = o
    BY <1>8, <1>12
  <2>2. Bytes(f, o, o) = << >>
    BY <1>4, <1>8, BytesNone
  <2> QED
    BY <1>7, <1>12, <2>1, <2>2
<1>13. ASSUME m.payload # << >>
       PROVE  b.sha = m.payload /\ f.at[o].body = [kind |-> "payload", bytes |-> m.payload] /\ o \in DOMAIN f.at
              /\ f.at[o].size = n
  <2> DEFINE c == f.at[o].body
  <2>1. o \in DOMAIN f.at /\ f.at[o].size = n /\ PayloadFrom(c, m.payload)
    BY <1>10, <1>13
  <2>2. /\ c = [kind |-> "payload", bytes |-> c.bytes] /\ c.kind = "payload"
        /\ c.bytes = [i \in 1..n |-> c.bytes[i]]
    <3>1. c = [kind |-> "payload", bytes |-> c.bytes] /\ c.bytes = [i \in DOMAIN m.payload |-> c.bytes[i]]
      BY <2>1, Zenon DEF PayloadFrom
    <3>2. DOMAIN m.payload = 1..n
      BY <1>8
    <3> HIDE DEF c
    <3> QED
      BY <3>1, <3>2
  <2> HIDE DEF c
  <2>3. Bytes(f, o, EndOf(a, index, p)) = SubSeq(c.bytes, o - o + 1, EndOf(a, index, p) - o)
    <3>1. o <= o /\ o < EndOf(a, index, p) /\ EndOf(a, index, p) <= EndOf(a, index, p)
      BY <1>8, <1>13
    <3> QED
      BY <1>4, <1>8, <2>1, <2>2, <3>1, BytesOf DEF n, m, c, o
  <2>4. o - o + 1 = 1 /\ EndOf(a, index, p) - o = n
    BY <1>8
  <2>5. SubSeq(c.bytes, 1, n) = c.bytes /\ Len(c.bytes) = n
    <3> DEFINE T == {c.bytes[i] : i \in 1..n}
    <3>1. c.bytes \in Seq(T) /\ Len(c.bytes) = n
      <4>1. \A i \in 1..n : c.bytes[i] \in T
        OBVIOUS
      <4> HIDE DEF T
      <4> QED
        BY <1>8, <2>2, <4>1, SMTT(60)
    <3> QED
      BY <1>8, <3>1
  <2>6. b.sha = c.bytes
    BY <1>7, <2>3, <2>4, <2>5
  <2>7. b.sha = m.payload
    BY <1>9, <1>11, <2>5, <2>6, <1>8 DEF n
  <2> QED
    BY <2>1, <2>2, <2>6, <2>7 DEF c
<1>14. b = h
  <2>1. b.sha = m.payload
    BY <1>12, <1>13
  <2>2. b.stored = h.stored /\ b.size = h.size /\ b.method = h.method /\ b.flags = 0 /\ b.blockSize = h.blockSize
    BY <1>2, Zenon DEF LocalKnown
  <2>3. b = [kind |-> "header", offset |-> 0, stored |-> h.stored, size |-> h.size, method |-> h.method,
             time |-> 0, sha |-> m.payload, blocks |-> h.blocks, flags |-> 0, blockSize |-> h.blockSize]
    BY <1>11, <2>1, <2>2, Zenon
  <2>4. h = [kind |-> "header", offset |-> 0, stored |-> h.stored, size |-> h.size, method |-> h.method,
             time |-> 0, sha |-> m.payload, blocks |-> h.blocks, flags |-> 0, blockSize |-> h.blockSize]
    <3>1. h.stored = n /\ h.size = Len(a.data[p])
      BY <1>9
    <3> QED
      BY <1>9, <3>1, Zenon
  <2> QED
    BY <2>3, <2>4, Zenon
<1>15. f.at[x] = [size |-> m.headerSize, body |-> h]
  <2>1. f.at[x] = [size |-> f.at[x].size, body |-> f.at[x].body]
    BY <1>4, <1>10, Zenon DEF KindsKnown
  <2> QED
    BY <1>10, <1>14, <2>1, Zenon DEF b
<1>16. m.payload # << >> => o \in DOMAIN f.at /\ f.at[o] = [size |-> n, body |-> [kind |-> "payload", bytes |-> m.payload]]
  <2> SUFFICES ASSUME m.payload # << >>
               PROVE  o \in DOMAIN f.at /\ f.at[o] = [size |-> n, body |-> [kind |-> "payload", bytes |-> m.payload]]
    OBVIOUS
  <2>1. f.at[o] = [size |-> f.at[o].size, body |-> f.at[o].body]
    BY <1>4, <1>13, Zenon DEF KindsKnown
  <2> QED
    BY <1>13, <2>1, Zenon
<1> QED
  BY <1>10, <1>15, <1>16, Zenon DEF HasEntry, m, h, x, o, n

\* What opens has what was written in it.
LEMMA WornOpens ==
  ASSUME NEW a, CallFits(a), NEW index, NEW f, Worn(a, index, f), FooterFits(f), IndexFits(f), PayloadsFit(f)
  PROVE  Whole(a, index, f) /\ DetectedLayout(f) \in {100, 110}
<1>1. \A p \in DOMAIN index : HasEntry(a, index, f, p)
  BY WornPayload, Zenon
<1>2. HasIndex(f, IndexBodies(a, index, IndexAt(f))) /\ f.footer.index = RegionAt(IndexAt(f), ModernIndex(a, index, IndexAt(f)))
  BY WornIndex, Zenon
<1>3. DetectedLayout(f) \in {100, 110}
  BY WornLayout, Zenon
<1> QED
  BY <1>1, <1>2, <1>3, Zenon DEF Worn, Whole

-----------------------------------------------------------------------------
(***************************************************************************)
(* The bytes that are read back                                            *)
(***************************************************************************)
\* The payload of an entry is read as it was written.
LEMMA WholePayload ==
  ASSUME NEW a, CallFits(a), NEW index, NEW f, Whole(a, index, f), NEW p \in DOMAIN index
  PROVE  Bytes(f, PayloadAt(a, index, p), EndOf(a, index, p)) = Made(a, index, p).payload
<1> DEFINE m == Made(a, index, p)
           o == PayloadAt(a, index, p)
           end == EndOf(a, index, p)
           n == Len(m.payload)
<1>1. /\ Laid(a, index, f) /\ HasEntry(a, index, f, p)
  BY Zenon DEF Whole
<1>2. /\ Apart(a, index, IndexAt(f)) /\ PayloadsKnown(a, index, f) /\ p \in Path /\ index[p] \in Nat
  BY <1>1, Zenon DEF Laid, Apart
<1>3. /\ o \in Nat /\ end \in Nat /\ end = o + n
      /\ m.payload # << >> => o < end
      /\ n \in Nat /\ (m.payload = << >> <=> n = 0) /\ m.payload = [i \in 1..n |-> m.payload[i]]
  <2>1. EntryKnown(m, Len(a.data[p]))
    BY <1>2, MadeIs, Zenon
  <2>2. n \in Nat /\ (m.payload = << >> <=> n = 0) /\ m.payload = [i \in 1..n |-> m.payload[i]]
    BY <2>1, Zenon DEF EntryKnown
  <2> QED
    BY <1>2, <2>2, PlacesAre, Zenon
<1>4. m.payload # << >> => o \in DOMAIN f.at /\ f.at[o] = [size |-> n, body |-> [kind |-> "payload", bytes |-> m.payload]]
  BY <1>1, Zenon DEF HasEntry
<1> HIDE DEF m, o, end, n
<1>5. CASE m.payload = << >>
  <2>1. end = o
    BY <1>3, <1>5
  <2>2. Bytes(f, o, o) = << >>
    BY <1>2, <1>3, BytesNone
  <2> QED
    BY <1>5, <2>1, <2>2 DEF m, o, end
<1>6. CASE m.payload # << >>
  <2>1. o \in DOMAIN f.at /\ f.at[o].size = n /\ f.at[o].body.kind = "payload" /\ f.at[o].body.bytes = m.payload
    BY <1>4, <1>6
  <2>2. o <= o /\ o < end /\ end <= end
    BY <1>3, <1>6
  <2>3. Bytes(f, o, end) = SubSeq(f.at[o].body.bytes, o - o + 1, end - o)
    BY <1>2, <1>3, <2>1, <2>2, BytesOf DEF n, m, end, o
  <2>4. o - o + 1 = 1 /\ end - o = n
    BY <1>3
  <2>5. SubSeq(m.payload, 1, n) = m.payload
    <3> DEFINE T == {m.payload[i] : i \in 1..n}
    <3>1. \A i \in 1..n : m.payload[i] \in T
      OBVIOUS
    <3> HIDE DEF T
    <3>2. m.payload \in Seq(T) /\ Len(m.payload) = n
      BY <1>3, <3>1 DEF n
    <3> QED
      BY <1>3, <3>2
  <2> QED
    BY <2>1, <2>3, <2>4, <2>5 DEF m, o, end
<1> QED
  BY <1>5, <1>6

\* So is each byte of it.
LEMMA WholeByte ==
  ASSUME NEW a, CallFits(a), NEW index, NEW f, Whole(a, index, f), NEW p \in DOMAIN index,
         NEW i \in 1..Len(Made(a, index, p).payload),
         NEW start, start = PayloadAt(a, index, p) + i - 1, NEW stop, stop = PayloadAt(a, index, p) + i
  PROVE  Bytes(f, start, stop) = <<Made(a, index, p).payload[i]>>
<1> DEFINE m == Made(a, index, p)
           o == PayloadAt(a, index, p)
           end == EndOf(a, index, p)
           n == Len(m.payload)
<1>1. /\ Laid(a, index, f) /\ HasEntry(a, index, f, p)
  BY Zenon DEF Whole
<1>2. /\ Apart(a, index, IndexAt(f)) /\ PayloadsKnown(a, index, f) /\ p \in Path /\ index[p] \in Nat
  BY <1>1, Zenon DEF Laid, Apart
<1>3. /\ o \in Nat /\ end \in Nat /\ end = o + n
      /\ n \in Nat /\ (m.payload = << >> <=> n = 0) /\ m.payload = [j \in 1..n |-> m.payload[j]]
  <2>1. EntryKnown(m, Len(a.data[p]))
    BY <1>2, MadeIs, Zenon
  <2>2. n \in Nat /\ (m.payload = << >> <=> n = 0) /\ m.payload = [j \in 1..n |-> m.payload[j]]
    BY <2>1, Zenon DEF EntryKnown
  <2> QED
    BY <1>2, <2>2, PlacesAre, Zenon
<1>4. m.payload # << >> => o \in DOMAIN f.at /\ f.at[o] = [size |-> n, body |-> [kind |-> "payload", bytes |-> m.payload]]
  BY <1>1, Zenon DEF HasEntry
<1>5. i \in 1..n /\ start = o + i - 1 /\ stop = o + i
  OBVIOUS
<1> HIDE DEF m, o, end, n
<1>6. m.payload # << >>
  BY <1>3, <1>5
<1>7. o \in DOMAIN f.at /\ f.at[o].size = n /\ f.at[o].body.kind = "payload" /\ f.at[o].body.bytes = m.payload
  BY <1>4, <1>6
<1>8. start \in Nat /\ stop \in Nat /\ o <= start /\ start < stop /\ stop <= end
  BY <1>3, <1>5
<1>9. Bytes(f, start, stop) = SubSeq(f.at[o].body.bytes, start - o + 1, stop - o)
  BY <1>2, <1>7, <1>8, BytesOf DEF n, m, end, o
<1>10. start - o + 1 = i /\ stop - o = i
  BY <1>3, <1>5
<1>11. SubSeq(m.payload, i, i) = <<m.payload[i]>>
  <2> DEFINE T == {m.payload[j] : j \in 1..n}
  <2>1. \A j \in 1..n : m.payload[j] \in T
    OBVIOUS
  <2> HIDE DEF T
  <2>2. m.payload \in Seq(T) /\ Len(m.payload) = n
    BY <1>3, <2>1 DEF n
  <2> QED
    BY <1>5, <2>2, PieceOf
<1> QED
  BY <1>7, <1>9, <1>10, <1>11 DEF m

\* What a compressed entry is made of.
PackedKnown(m, data) ==
  LET n == BlockSizeFor(Len(data))
      c == CeilDiv(Len(data), n)
  IN /\ data # << >> /\ n \in Nat /\ n >= 1 /\ c \in Nat /\ c >= 1
     /\ m.payload = [i \in 1..c |-> Packed("Oodle", Chunks(data, n)[i])]
     /\ m.header.size = Len(data) /\ m.header.blockSize = IF c = 1 THEN Len(data) ELSE n
     /\ m.header.blocks = [i \in 1..c |-> [start |-> m.headerSize + i - 1, end |-> m.headerSize + i]]
LEMMA PackedIs ==
  ASSUME NEW a, CallFits(a), NEW index, NEW p \in Path, Made(a, index, p).header.method # 0
  PROVE  PackedKnown(Made(a, index, p), a.data[p]) /\ a.codec = "Oodle"
<1> DEFINE data == a.data[p]
           m == Made(a, index, p)
           n == BlockSizeFor(Len(data))
           c == CeilDiv(Len(data), n)
           blocks == [i \in 1..c |-> [start |-> m.headerSize + i - 1, end |-> m.headerSize + i]]
<1>1. data \in Seq(ToSet(data)) /\ a.codec \in {"none", "Oodle"}
  BY Zenon DEF CallFits
<1>2. m = WrittenEntry(110, a.codec, index[p], data)
  BY Zenon DEF Made
<1> HIDE DEF m, data
<1>3. ~(a.codec = "none" \/ data = << >>)
  <2> SUFFICES ASSUME a.codec = "none" \/ data = << >> PROVE m.header.method = 0
    BY DEF m
  <2>1. m.header = [kind |-> "header", offset |-> 0, stored |-> Len(Plain(data)), size |-> Len(data),
                    method |-> 0, time |-> 0, sha |-> Plain(data), blocks |-> << >>,
                    flags |-> 0, blockSize |-> 0]
    BY <1>2, StoredEntry
  <2> QED
    BY <2>1
<1>4. a.codec = "Oodle" /\ data # << >>
  BY <1>1, <1>3
<1>5. /\ n \in Nat /\ n >= 1 /\ c \in Nat /\ c >= 1
      /\ m.payload = [i \in 1..c |-> Packed("Oodle", Chunks(data, n)[i])]
      /\ m.header = [kind |-> "header", offset |-> 0, stored |-> c, size |-> Len(data),
                     method |-> 1, time |-> 0, sha |-> m.payload, blocks |-> blocks,
                     flags |-> 0, blockSize |-> IF c = 1 THEN Len(data) ELSE n]
  BY <1>1, <1>2, <1>4, PackedEntry
<1> HIDE DEF blocks, n, c
<1>6. m.header.size = Len(data) /\ m.header.blocks = blocks /\ m.header.blockSize = IF c = 1 THEN Len(data) ELSE n
  BY <1>5
<1>7. PackedKnown(m, data)
  BY <1>4, <1>5, <1>6, Zenon DEF PackedKnown, n, c, blocks
<1> QED
  BY <1>4, <1>7 DEF m, data

\* The blocks of a compressed entry, whichever decoder takes them.
PieceAt(m, o, i) ==
  [start |-> o + i - 1, end |-> o + i, from |-> (i - 1) * m.header.blockSize,
   to |-> Least(i * m.header.blockSize, m.header.size)]
LEMMA BlocksAre ==
  ASSUME NEW a, CallFits(a), NEW index, NEW f, DetectedLayout(f) \in {100, 110}, NEW p \in Path, index[p] \in Nat,
         Made(a, index, p).header.method # 0,
         NEW e, e.at = index[p], e.header = Made(a, index, p).header
  PROVE  BlocksOf(f, e) = [i \in 1..Len(Made(a, index, p).payload) |->
                             PieceAt(Made(a, index, p), PayloadAt(a, index, p), i)]
<1> DEFINE m == Made(a, index, p)
           h == m.header
           o == PayloadAt(a, index, p)
           n == Len(m.payload)
           each == [i \in DOMAIN h.blocks |->
                     [start |-> BlockStart(f, e.at, h.blocks[i]), end |-> BlockEnd(f, e.at, h.blocks[i]),
                      from |-> (i - 1) * h.blockSize, to |-> Least(i * h.blockSize, h.size)]]
<1>1. Major(DetectedLayout(f)) >= 5
  BY DEF Major
<1>2. /\ n \in Nat /\ n >= 1 /\ h.blocks = [i \in 1..n |-> [start |-> m.headerSize + i - 1, end |-> m.headerSize + i]]
      /\ o = index[p] + m.headerSize /\ m.headerSize \in Nat
  <2>1. BlocksKnown(m, Len(a.data[p])) /\ EntryKnown(m, Len(a.data[p]))
    BY MadeBlocks, MadeIs, Zenon
  <2>2. n \in Nat /\ n >= 1 /\ h.blocks = [i \in 1..n |-> [start |-> m.headerSize + i - 1, end |-> m.headerSize + i]]
    BY <2>1, Zenon DEF BlocksKnown
  <2>3. m.headerSize \in Nat
    BY <2>1, Zenon DEF EntryKnown
  <2>4. o = index[p] + m.headerSize
    BY Zenon DEF PayloadAt
  <2> QED
    BY <2>2, <2>3, <2>4, Zenon
<1>3. h.size # 0
  <2>1. PackedKnown(m, a.data[p])
    BY PackedIs, Zenon
  <2>2. h.size = Len(a.data[p]) /\ a.data[p] # << >>
    BY <2>1, Zenon DEF PackedKnown
  <2>3. a.data[p] \in Seq(ToSet(a.data[p]))
    BY Zenon DEF CallFits
  <2> QED
    BY <2>2, <2>3
<1>4. BlocksOf(f, e) = each
  <2>1. h.blocks # << >>
    BY <1>2
  <2>2. RepakBlocks(f, e) = each
    BY <1>3, <2>1, Zenon DEF RepakBlocks
  <2>3. DecodePlan(f, e) # << >> => DecodePlan(f, e) = each
    <3>1. e.header = h
      OBVIOUS
    <3> DEFINE start == e.at + EntryHeaderSize(f, e)
               whole == <<[start |-> start, end |-> start + h.stored, from |-> 0, to |-> h.size]>>
               plan == IF Major(DetectedLayout(f)) >= 3 THEN each
                       ELSE IF h.size = 0 THEN << >> ELSE whole
    <3> HIDE DEF h
    <3>2. DecodePlan(f, e) \in {plan, << >>}
      BY <3>1 DEF DecodePlan, DirectPlan
    <3> HIDE DEF each
    <3>3. Major(DetectedLayout(f)) >= 3
      BY DEF Major
    <3> QED
      BY <3>2, <3>3
  <2> HIDE DEF each
  <2> QED
    BY <2>2, <2>3, Zenon DEF BlocksOf, UsesDirectPlan
<1> HIDE DEF m, h, o, n
<1>5. each = [i \in 1..n |-> [start |-> o + i - 1, end |-> o + i, from |-> (i - 1) * h.blockSize,
                              to |-> Least(i * h.blockSize, h.size)]]
  <2>1. DOMAIN h.blocks = 1..n
    BY <1>2
  <2>2. ASSUME NEW i \in 1..n
        PROVE  BlockStart(f, e.at, h.blocks[i]) = o + i - 1 /\ BlockEnd(f, e.at, h.blocks[i]) = o + i
    <3>1. h.blocks[i].start = m.headerSize + i - 1 /\ h.blocks[i].end = m.headerSize + i
      BY <1>2
    <3>2. BlockStart(f, e.at, h.blocks[i]) = e.at + h.blocks[i].start /\ BlockEnd(f, e.at, h.blocks[i]) = e.at + h.blocks[i].end
      BY <1>1, Zenon DEF BlockStart, BlockEnd
    <3>3. i \in Nat /\ e.at \in Nat
      BY <1>2
    <3> QED
      BY <1>2, <3>1, <3>2, <3>3, SMTT(60)
  <2> QED
    BY <2>1, <2>2
<1>6. each = [i \in 1..n |-> PieceAt(m, o, i)]
  BY <1>5, Zenon DEF PieceAt, h
<1> QED
  BY <1>4, <1>6, Zenon DEF m, o, n

\* What was cut out of contents, and from where.
ChunkLies(data, n, i) ==
  /\ i \in Nat /\ i - 1 \in Nat
  /\ (i - 1) * n \in Nat /\ i * n \in Nat
  /\ (i - 1) * n < Least(i * n, Len(data))
  /\ Least(i * n, Len(data)) \in Nat /\ Least(i * n, Len(data)) <= Len(data)
  /\ i = CeilDiv(Len(data), n) => Least(i * n, Len(data)) = Len(data)
  /\ Chunks(data, n)[i] = SubSeq(data, (i - 1) * n + 1, Least(i * n, Len(data)))
LEMMA ChunkPlace ==
  ASSUME NEW S, NEW data \in Seq(S), NEW n \in Nat, n >= 1, NEW i \in 1..CeilDiv(Len(data), n)
  PROVE  ChunkLies(data, n, i)
<1> DEFINE c == CeilDiv(Len(data), n)
           to == Least(i * n, Len(data))
<1>1. /\ i \in Nat /\ i - 1 \in Nat /\ (i - 1) * n \in Nat /\ i * n \in Nat
      /\ (i - 1) * n < to /\ to \in Nat /\ to <= Len(data)
  BY ChunkIs
<1>2. Chunks(data, n)[i] = SubSeq(data, (i - 1) * n + 1, to)
  BY ChunkIs
<1>3. i = c => to = Len(data)
  BY ChunkIs
<1> QED
  BY <1>1, <1>2, <1>3, Zenon DEF ChunkLies

\* A block is read as the contents were cut, and is as long as it says.
LEMMA PieceRead ==
  ASSUME NEW a, CallFits(a), NEW index, NEW f, Whole(a, index, f), NEW p \in DOMAIN index,
         Made(a, index, p).header.method # 0,
         NEW n, n = BlockSizeFor(Len(a.data[p])), NEW i \in 1..Len(Made(a, index, p).payload),
         NEW b, b = PieceAt(Made(a, index, p), PayloadAt(a, index, p), i)
  PROVE  /\ Bytes(f, b.start, b.end) = <<Packed("Oodle", Chunks(a.data[p], n)[i])>>
         /\ Len(Chunks(a.data[p], n)[i]) = b.to - b.from
<1> DEFINE m == Made(a, index, p)
           data == a.data[p]
           o == PayloadAt(a, index, p)
           c == CeilDiv(Len(data), n)
           size == Len(data)
           chunk == Chunks(data, n)[i]
<1>1. p \in Path
  BY Zenon DEF Whole, Laid, Apart
<1>2. PackedKnown(m, data) /\ data \in Seq(ToSet(data))
  BY <1>1, PackedIs, Zenon DEF CallFits
<1>3. /\ data # << >> /\ n \in Nat /\ n >= 1 /\ c \in Nat /\ c >= 1
      /\ m.payload = [j \in 1..c |-> Packed("Oodle", Chunks(data, n)[j])]
      /\ m.header.size = size /\ m.header.blockSize = IF c = 1 THEN size ELSE n
  BY <1>2 DEF PackedKnown
<1>4. b.start = o + i - 1 /\ b.end = o + i /\ b.from = (i - 1) * m.header.blockSize
      /\ b.to = Least(i * m.header.blockSize, m.header.size)
  BY DEF PieceAt
<1>5. Bytes(f, b.start, b.end) = <<m.payload[i]>>
  BY <1>4, WholeByte
<1>6. i \in 1..c /\ size \in Nat /\ size >= 1
  BY <1>2, <1>3
<1> HIDE DEF m, o
<1>7. m.payload[i] = Packed("Oodle", chunk)
  BY <1>3, <1>6
<1>8. /\ i \in Nat /\ i - 1 \in Nat
      /\ (i - 1) * n \in Nat /\ i * n \in Nat
      /\ (i - 1) * n < Least(i * n, size)
      /\ Least(i * n, size) \in Nat /\ Least(i * n, size) <= size
      /\ i = c => Least(i * n, size) = size
      /\ chunk = SubSeq(data, (i - 1) * n + 1, Least(i * n, size))
  <2>1. ChunkLies(data, n, i)
    BY <1>2, <1>3, <1>6, ChunkPlace
  <2> QED
    BY <2>1, Zenon DEF ChunkLies
<1>9. Len(chunk) = Least(i * n, size) - (i - 1) * n
  <2> DEFINE from == (i - 1) * n
             to == Least(i * n, size)
  <2>1. chunk = SubSeq(data, from + 1, to) /\ from \in Nat /\ to \in Nat /\ from < to /\ to <= Len(data)
    BY <1>8
  <2> HIDE DEF from, to, chunk
  <2>2. Len(chunk) = to - from
    BY <1>2, <2>1
  <2> QED
    BY <2>2 DEF from, to
<1>10. b.to - b.from = Least(i * n, size) - (i - 1) * n
  <2>1. CASE c = 1
    <3>1. i = 1 /\ m.header.blockSize = size /\ m.header.size = size
      BY <1>3, <1>6, <2>1
    <3>2. Least(1 * size, size) = size /\ (1 - 1) * size = 0
      BY <1>6 DEF Least
    <3>3. b.to = size /\ b.from = 0
      BY <1>4, <3>1, <3>2
    <3>4. Least(i * n, size) = size /\ (i - 1) * n = 0
      BY <1>3, <1>8, <2>1, <3>1
    <3> QED
      BY <3>3, <3>4
  <2>2. CASE c # 1
    BY <1>3, <1>4, <2>2
  <2> QED
    BY <2>1, <2>2
<1> QED
  BY <1>5, <1>7, <1>9, <1>10

\* An entry that is not compressed has its contents as they are.
LEMMA PlainEntry ==
  ASSUME NEW S, NEW data \in Seq(S), NEW codec \in {"none", "Oodle"}, NEW at,
         NEW m, m = WrittenEntry(110, codec, at, data), m.header.method = 0
  PROVE  m.payload = Plain(data)
<1> DEFINE n == BlockSizeFor(Len(data))
           c == CeilDiv(Len(data), n)
           blocks == [i \in 1..c |-> [start |-> m.headerSize + i - 1, end |-> m.headerSize + i]]
<1>1. CASE codec = "none" \/ data = << >>
  <2>1. /\ m.payload = Plain(data) /\ m.headerSize = 53
        /\ m.header = [kind |-> "header", offset |-> 0, stored |-> Len(Plain(data)), size |-> Len(data),
                       method |-> 0, time |-> 0, sha |-> Plain(data), blocks |-> << >>,
                       flags |-> 0, blockSize |-> 0]
    BY <1>1, StoredEntry
  <2> QED
    BY <2>1
<1>2. CASE codec = "Oodle" /\ data # << >>
  <2>1. m = WrittenEntry(110, "Oodle", at, data)
    BY <1>2
  <2>2. /\ n \in Nat /\ n >= 1 /\ c \in Nat /\ c >= 1
        /\ m.payload = [i \in 1..c |-> Packed("Oodle", Chunks(data, n)[i])]
        /\ m.header = [kind |-> "header", offset |-> 0, stored |-> c, size |-> Len(data),
                       method |-> 1, time |-> 0, sha |-> m.payload, blocks |-> blocks,
                       flags |-> 0, blockSize |-> IF c = 1 THEN Len(data) ELSE n]
    BY <1>2, <2>1, PackedEntry
  <2> HIDE DEF n, c, blocks
  <2>3. m.header.method = 1
    BY <2>2
  <2> QED
    BY <2>3
<1> QED
  BY <1>1, <1>2

\* An entry is read as what it was written of.
LEMMA EntryReads ==
  ASSUME NEW a, CallFits(a), NEW index, NEW f, Whole(a, index, f), DetectedLayout(f) \in {100, 110},
         NEW p \in DOMAIN index,
         NEW e, e.at = index[p], e.header = Made(a, index, p).header
  PROVE  Logical(f, e) = a.data[p]
<1> DEFINE m == Made(a, index, p)
           data == a.data[p]
           o == PayloadAt(a, index, p)
           n == BlockSizeFor(Len(data))
           c == CeilDiv(Len(data), n)
           k == Len(m.payload)
           chunks == Chunks(data, n)
<1>1. p \in Path /\ index[p] \in Nat
  BY Zenon DEF Whole, Laid, Apart
<1>2. data \in Seq(ToSet(data))
  BY <1>1, Zenon DEF CallFits
<1>3. CASE m.header.method = 0
  <2>1. /\ e.header.stored = m.header.stored /\ e.header.method = m.header.method /\ e.header.blocks = m.header.blocks
    OBVIOUS
  <2>2. LiesThere(a, index, f, p, e)
    BY <1>1, <2>1, WhereItIs
  <2>3. PayloadStart(f, e) = o
    BY <2>2, Zenon DEF LiesThere
  <2>4. EntryKnown(m, Len(data)) /\ BlocksKnown(m, Len(data))
    BY <1>1, MadeIs, MadeBlocks, ZenonT(60)
  <2>5. m.header = [kind |-> "header", offset |-> 0, stored |-> k, size |-> Len(data),
                 method |-> m.header.method, time |-> 0, sha |-> m.payload,
                 blocks |-> m.header.blocks, flags |-> 0, blockSize |-> m.header.blockSize]
        /\ k = Len(data)
    BY <1>3, <2>4, Zenon DEF EntryKnown, BlocksKnown
  <2>6. EndOf(a, index, p) = o + k
    BY Zenon DEF EndOf
  <2>7. m.payload = Plain(data)
    <3>1. a.codec \in {"none", "Oodle"}
      BY Zenon DEF CallFits
    <3>2. m = WrittenEntry(110, a.codec, index[p], data)
      BY Zenon DEF Made
    <3> HIDE DEF m, data
    <3> QED
      BY <1>2, <1>3, <3>1, <3>2, PlainEntry
  <2> HIDE DEF m, o, k
  <2>8. e.header.method = 0 /\ e.header.size = k
    BY <1>3, <2>1, <2>5 DEF m
  <2>9. Logical(f, e) = PlainBytes(Bytes(f, o, EndOf(a, index, p)))
    BY <2>3, <2>6, <2>8, Zenon DEF Logical
  <2>10. Bytes(f, o, EndOf(a, index, p)) = m.payload
    BY WholePayload DEF m, o
  <2>11. PlainBytes(Plain(data)) = data
    BY <1>2, PlainBytesBack
  <2> QED
    BY <2>7, <2>9, <2>10, <2>11, Zenon
<1>4. CASE m.header.method # 0
  <2> DEFINE piece(i) == PieceAt(m, o, i)
             blocks == [i \in 1..k |-> piece(i)]
             parts == [i \in DOMAIN blocks |-> PlainBytes(Bytes(f, blocks[i].start, blocks[i].end))]
  <2>1. BlocksOf(f, e) = blocks
    BY <1>1, <1>4, BlocksAre
  <2>2. PackedKnown(m, data)
    BY <1>1, <1>4, PackedIs, Zenon
  <2>3. /\ data # << >> /\ n \in Nat /\ n >= 1 /\ c \in Nat /\ c >= 1
        /\ m.payload = [i \in 1..c |-> Packed("Oodle", chunks[i])]
    BY <2>2, Zenon DEF PackedKnown
  <2>4. \A i \in 1..k : Bytes(f, piece(i).start, piece(i).end) = <<Packed("Oodle", chunks[i])>>
    BY <1>4, PieceRead
  <2> HIDE DEF piece
  <2>5. e.header.method # 0
    BY <1>4
  <2>6. Logical(f, e) = FlattenSeq(parts)
    BY <2>1, <2>5, Zenon DEF Logical, DecodedBy
  <2> HIDE DEF m, chunks, n, c
  <2>7. k = c
    BY <2>3
  <2>8. chunks = [i \in 1..c |-> chunks[i]]
    BY DEF chunks, Chunks, c
  <2>9. ASSUME NEW i \in 1..k
        PROVE  PlainBytes(Bytes(f, blocks[i].start, blocks[i].end)) = chunks[i]
    <3>1. blocks[i] = piece(i)
      OBVIOUS
    <3>2. Bytes(f, blocks[i].start, blocks[i].end) = <<Packed("Oodle", chunks[i])>>
      BY <2>4, <3>1, Zenon
    <3> DEFINE stored == <<Packed("Oodle", chunks[i])>>
    <3>3. [j \in DOMAIN stored |-> stored[j].plain] = <<chunks[i]>>
      BY DEF Packed
    <3>4. PlainBytes(stored) = FlattenSeq(<<chunks[i]>>)
      BY <3>3, Zenon DEF PlainBytes
    <3> HIDE DEF stored
    <3>5. PlainBytes(stored) = chunks[i]
      BY <3>4, FlattenFew, Zenon
    <3> QED
      BY <3>2, <3>5, Zenon DEF stored
  <2>10. DOMAIN blocks = 1..k
    OBVIOUS
  <2> HIDE DEF blocks, k
  <2>11. parts = chunks
    BY <2>7, <2>8, <2>9, <2>10
  <2>12. FlattenSeq(chunks) = data
    BY <1>2, <2>3, ChunksBack, ZenonT(60) DEF chunks
  <2> QED
    BY <2>6, <2>11, <2>12, Zenon
<1> QED
  BY <1>3, <1>4

\* The entries are the ones that were asked for, and have their bytes.
Reads(a, f) ==
  /\ {Fold[e.path] : e \in Entries(f)} = {Fold[p] : p \in ToSet(a.paths)}
  /\ \A p \in ToSet(a.paths) :
       /\ Logical(f, EntryOf(f, p)) = a.data[p]
       /\ EntryOf(f, p).header.method # 0 => Decodes(f, EntryOf(f, p))
LEMMA WholeReads ==
  ASSUME NEW a, CallFits(a), NEW index, NEW f, Whole(a, index, f), DetectedLayout(f) \in {100, 110},
         \A e \in Entries(f) : e.header.method # 0 => Decodes(f, e)
  PROVE  Reads(a, f)
<1> DEFINE made(p) == [path |-> p, at |-> index[p], header |-> Made(a, index, p).header]
<1>1. IndexKnown(a, index, f)
  BY IndexRead, Zenon
<1>2. Entries(f) = {made(p) : p \in DOMAIN index}
  BY <1>1, Zenon DEF IndexKnown
<1>3. DOMAIN index = ToSet(a.paths)
  BY Zenon DEF Whole, Laid
<1>4. ASSUME NEW p \in DOMAIN index
      PROVE  made(p).path = p /\ made(p).at = index[p] /\ made(p).header = Made(a, index, p).header
  OBVIOUS
<1>5. ASSUME NEW p \in DOMAIN index, NEW q \in DOMAIN index, Fold[p] = Fold[q]
      PROVE  p = q
  <2>1. PICK i \in DOMAIN a.paths, j \in DOMAIN a.paths : p = a.paths[i] /\ q = a.paths[j]
    BY <1>3 DEF ToSet
  <2>2. i # j => Fold[a.paths[i]] # Fold[a.paths[j]]
    BY Zenon DEF CallFits, PathsFit
  <2> QED
    BY <1>5, <2>1, <2>2, Zenon
<1> HIDE DEF made
<1>6. ASSUME NEW p \in DOMAIN index
      PROVE  EntryOf(f, p) = made(p)
  <2>1. made(p) \in Entries(f) /\ Fold[made(p).path] = Fold[p]
    BY <1>2, <1>4
  <2>2. ASSUME NEW e \in Entries(f), Fold[e.path] = Fold[p]
        PROVE  e = made(p)
    BY <1>2, <1>4, <1>5, <2>2
  <2> QED
    BY <2>1, <2>2 DEF EntryOf
<1>7. \A p \in DOMAIN index : Logical(f, made(p)) = a.data[p]
  BY <1>4, EntryReads
<1>8. \A p \in DOMAIN index : made(p) \in Entries(f)
  BY <1>2
<1>9. {Fold[e.path] : e \in Entries(f)} = {Fold[p] : p \in ToSet(a.paths)}
  BY <1>2, <1>3, <1>4
<1>10. ASSUME NEW p \in ToSet(a.paths)
       PROVE  /\ Logical(f, EntryOf(f, p)) = a.data[p]
              /\ EntryOf(f, p).header.method # 0 => Decodes(f, EntryOf(f, p))
  <2>1. p \in DOMAIN index /\ EntryOf(f, p) = made(p) /\ made(p) \in Entries(f)
    BY <1>3, <1>6, <1>8
  <2> QED
    BY <1>7, <2>1
<1> QED
  BY <1>9, <1>10, Zenon DEF Reads

-----------------------------------------------------------------------------
(***************************************************************************)
(* What was written opens                                                  *)
(***************************************************************************)
\* Its footer is of the layout that is written.
LayoutKnown(a, f) == DetectedLayout(f) = 110 /\ SlotNames(f) = SlotNamesFor(110, a.codec)
LEMMA PristineFooter ==
  ASSUME NEW a, CallFits(a), NEW index, NEW f, Pristine(a, index, f)
  PROVE  FooterFits(f) /\ LayoutKnown(a, f)
<1> DEFINE names == SlotNamesFor(110, a.codec)
           modern == ModernIndex(a, index, IndexAt(f))
<1>1. /\ f.footer = Footer(110, names, f.footer.index)
      /\ f.footer.index = RegionAt(IndexAt(f), modern)
      /\ IndexAt(f) \in Nat /\ f.end \in Nat
  BY Zenon DEF Pristine, Whole, Laid
<1>2. names = [i \in 1..5 |-> IF i = 1 /\ a.codec # "none" THEN a.codec ELSE ""]
  BY DEF SlotNamesFor, SlotCount
<1>3. a.codec \in {"none", "Oodle"}
  BY Zenon DEF CallFits
<1>4. \A i \in DOMAIN names : names[i] # "dirty"
  BY <1>2, <1>3
<1> HIDE DEF names, modern
<1>5. f.footer.index.size = 1 /\ f.footer.index.offset = IndexAt(f)
  BY <1>1 DEF RegionAt
<1>6. /\ f.footer.shape = FooterShape(110) /\ f.footer.version = Major(110) /\ f.footer.encrypted = 0
      /\ f.footer.frozen = 0 /\ f.footer.names = names
  BY <1>1 DEF Footer
<1>7. Recognized(f) = {110}
  <2>1. ASSUME NEW l \in Layout, Major(l) = Major(110)
        PROVE  l = 110
    BY <2>1 DEF Layout, Major
  <2>2. 110 \in Layout
    BY DEF Layout
  <2> QED
    BY <1>6, <2>1, <2>2 DEF Recognized
<1>8. Cardinality(Recognized(f)) = 1
  BY <1>7, FS_Singleton
<1>9. DetectedLayout(f) = 110
  BY <1>7 DEF DetectedLayout
<1>10. f.footer.index.offset + f.footer.index.size <= f.end /\ f.footer.index.size > 0
  BY <1>1, <1>5 DEF IndexAt
<1>11. FooterFits(f)
  BY <1>4, <1>6, <1>8, <1>10, Zenon DEF FooterFits
<1>12. SlotNames(f) = names
  BY <1>6, <1>9 DEF SlotNames
<1> QED
  BY <1>9, <1>11, <1>12, Zenon DEF LayoutKnown, names

\* Its index is where the footer says, and its lists are where the index says.
LEMMA PristineRegions ==
  ASSUME NEW a, CallFits(a), NEW index, NEW f, Pristine(a, index, f)
  PROVE  ModernRegionsFit(f)
<1> DEFINE modern == ModernIndex(a, index, IndexAt(f))
           hashes == PathHashIndex(OrderOf(index))
           directory == DirectoryIndex(OrderOf(index))
           at == IndexAt(f)
           bodies == <<modern, hashes, directory>>
<1>1. /\ f.footer.index = RegionAt(at, modern) /\ HasIndex(f, IndexBodies(a, index, at))
      /\ at \in Nat /\ f.end \in Nat /\ SafeMount(a.mount)
  BY Zenon DEF Pristine, Whole, Laid, CallFits
<1>2. at + 3 = f.end
  BY <1>1 DEF IndexAt
<1>3. \A k \in 1..3 : at + k - 1 \in DOMAIN f.at /\ f.at[at + k - 1] = [size |-> 1, body |-> bodies[k]]
  BY <1>1, Zenon DEF HasIndex, IndexBodies
<1>4. /\ modern.kind = "modern" /\ modern.mount = a.mount /\ modern.extra = 0
      /\ modern.hashes = <<RegionAt(at + 1, hashes)>> /\ modern.directory = <<RegionAt(at + 2, directory)>>
      /\ hashes.kind = "hashes" /\ directory.kind = "directory"
  BY DEF ModernIndex, PathHashIndex, DirectoryIndex
<1> HIDE DEF modern, hashes, directory, at
<1>5. /\ at \in DOMAIN f.at /\ f.at[at] = [size |-> 1, body |-> modern]
      /\ at + 1 \in DOMAIN f.at /\ f.at[at + 1] = [size |-> 1, body |-> hashes]
      /\ at + 2 \in DOMAIN f.at /\ f.at[at + 2] = [size |-> 1, body |-> directory]
  <2>1. at + 1 - 1 = at /\ at + 2 - 1 = at + 1 /\ at + 3 - 1 = at + 2
    BY <1>1
  <2>2. bodies[1] = modern /\ bodies[2] = hashes /\ bodies[3] = directory
    OBVIOUS
  <2> HIDE DEF bodies
  <2> QED
    BY <1>3, <2>1, <2>2
<1>6. /\ RegionFits(f, RegionAt(at, modern), "modern")
      /\ RegionFits(f, RegionAt(at + 1, hashes), "hashes")
      /\ RegionFits(f, RegionAt(at + 2, directory), "directory")
  BY <1>1, <1>2, <1>4, <1>5 DEF RegionFits, RegionAt, Holds
<1>7. Primary(f) = modern
  BY <1>1, <1>5 DEF Primary, Region, RegionAt
<1>8. /\ Len(modern.hashes) = 1 /\ modern.hashes[1] = RegionAt(at + 1, hashes)
      /\ Len(modern.directory) = 1 /\ modern.directory[1] = RegionAt(at + 2, directory)
  BY <1>4
<1>9. /\ f.footer.index.offset + f.footer.index.size = at + 1
      /\ modern.hashes[1].offset = at + 1 /\ modern.hashes[1].size = 1 /\ modern.directory[1].offset = at + 2
  BY <1>1, <1>8 DEF RegionAt
<1>10. at + 1 >= at + 1 /\ at + 2 >= at + 1 /\ at + 1 + 1 <= at + 2
  BY <1>1
<1> QED
  BY <1>1, <1>4, <1>6, <1>7, <1>8, <1>9, <1>10 DEF ModernRegionsFit

\* As many paths as were asked for are in the order of the index.
LEMMA OrderCount ==
  ASSUME NEW a, CallFits(a), NEW index, DOMAIN index = ToSet(a.paths)
  PROVE  OrderKnown(index, OrderOf(index)) /\ Len(OrderOf(index)) <= Len(a.paths)
<1>1. a.paths \in Seq(Path)
  BY Zenon DEF CallFits
<1>2. IsFiniteSet(DOMAIN index) /\ DOMAIN index \subseteq Path
  BY <1>1, MembersFinite
<1>3. OrderKnown(index, OrderOf(index))
  BY <1>2, OrderOfIs, Zenon
<1> DEFINE n == Len(a.paths)
           S == ToSet(a.paths)
           s == [i \in 1..n |-> a.paths[i]]
<1>4. n \in Nat /\ DOMAIN a.paths = 1..n
  BY <1>1
<1>5. s \in Surjection(1..n, S)
  BY <1>4 DEF Surjection, ToSet
<1>6. IsFiniteSet(1..n) /\ Cardinality(1..n) = n
  BY <1>4, UpTo
<1>7. Cardinality(S) <= Cardinality(1..n)
  BY <1>5, <1>6, FS_Surjection
<1>8. Len(OrderOf(index)) = Cardinality(DOMAIN index)
  BY <1>3, Zenon DEF OrderKnown
<1> QED
  BY <1>3, <1>6, <1>7, <1>8

\* Its two lists are of the same records, and no two paths have one hash.
LEMMA PristineLookups ==
  ASSUME NEW a, CallFits(a), NEW index, NEW f, Pristine(a, index, f), Len(a.paths) <= EntryCountLimit
  PROVE  LookupsFit(f)
<1> DEFINE modern == Primary(f)
           paths == OrderOf(index)
           n == Len(paths)
           list == Region(f, modern.hashes[1])
           hashes == list.entries
           files == Region(f, modern.directory[1]).files
           keys == {Fold[files[i].path] : i \in DOMAIN files}
           key == [i \in 1..n |-> Fold[paths[i]]]
           offsets(s) == {s[i].record : i \in DOMAIN s}
<1>1. IndexKnown(a, index, f) /\ DOMAIN index = ToSet(a.paths) /\ PathsFit(a.paths)
  <2>1. Whole(a, index, f) /\ DetectedLayout(f) = 110
    BY PristineFooter, ZenonT(60) DEF Pristine, LayoutKnown
  <2>2. DetectedLayout(f) \in {100, 110}
    BY <2>1
  <2>3. IndexKnown(a, index, f)
    BY <2>1, <2>2, IndexRead, Zenon
  <2> QED
    BY <2>1, <2>3, Zenon DEF Whole, Laid, CallFits
<1>2. OrderKnown(index, paths) /\ n <= Len(a.paths)
  BY <1>1, OrderCount, Zenon
<1>3. /\ n \in Nat /\ DOMAIN paths = 1..n /\ \A i \in DOMAIN paths : paths[i] \in DOMAIN index
      /\ \A i, j \in DOMAIN paths : paths[i] = paths[j] => i = j
  BY <1>2, Zenon DEF OrderKnown
<1>4. /\ modern = ModernIndex(a, index, IndexAt(f)) /\ list = PathHashIndex(paths)
      /\ Region(f, modern.directory[1]) = DirectoryIndex(paths)
  BY <1>1, Zenon DEF IndexKnown
<1> HIDE DEF modern, list
<1>5. modern.count = n /\ modern.space = n /\ modern.seed = 0
  BY <1>4 DEF ModernIndex
<1>6. /\ hashes = [i \in 1..n |-> [hash |-> PathHash(paths[i], 0), record |-> i - 1]]
      /\ files = [i \in 1..n |-> [path |-> paths[i], record |-> i - 1]]
      /\ list.trailing = 0
  BY <1>3, <1>4 DEF PathHashIndex, DirectoryIndex
<1> HIDE DEF paths, n, hashes, files
<1>7. Len(hashes) = n /\ Len(files) = n /\ DOMAIN hashes = 1..n /\ DOMAIN files = 1..n
  BY <1>3, <1>6
<1>8. \A i \in 1..n : hashes[i].record = i - 1 /\ hashes[i].hash = PathHash(paths[i], 0)
                      /\ files[i].record = i - 1 /\ files[i].path = paths[i]
  BY <1>6
<1>9. offsets(hashes) = offsets(files) /\ offsets(hashes) \subseteq 0..(n - 1)
  BY <1>3, <1>7, <1>8
<1>10. Cardinality(offsets(hashes)) = n
  <2> DEFINE place == [i \in 1..n |-> i - 1]
  <2>1. place \in Bijection(1..n, offsets(hashes))
    <3>1. place \in [1..n -> offsets(hashes)]
      BY <1>7, <1>8
    <3>2. \A i, j \in 1..n : place[i] = place[j] => i = j
      BY <1>3
    <3>3. \A x \in offsets(hashes) : \E i \in 1..n : place[i] = x
      BY <1>7, <1>8
    <3> HIDE DEF place, offsets
    <3> QED
      BY <3>1, <3>2, <3>3 DEF Bijection, Injection, Surjection, IsInjective
  <2> HIDE DEF place, offsets
  <2>2. IsFiniteSet(1..n) /\ Cardinality(1..n) = n
    BY <1>3, UpTo
  <2>3. ExistsBijection(1..n, offsets(hashes))
    BY <2>1 DEF ExistsBijection
  <2> QED
    BY <2>2, <2>3, FS_Bijection
<1>11. ASSUME NEW p \in DOMAIN index, NEW q \in DOMAIN index
       PROVE  SafePath(p) /\ (Fold[p] = Fold[q] => p = q)
  <2>1. PICK i \in DOMAIN a.paths, j \in DOMAIN a.paths : p = a.paths[i] /\ q = a.paths[j]
    BY <1>1 DEF ToSet
  <2>2. i # j => Fold[a.paths[i]] # Fold[a.paths[j]]
    BY <1>1, Zenon DEF PathsFit
  <2>3. SafePath(a.paths[i])
    BY <1>1, Zenon DEF PathsFit
  <2> QED
    BY <2>1, <2>2, <2>3, Zenon
<1>12. \A i \in DOMAIN files : SafePath(files[i].path)
  BY <1>3, <1>7, <1>8, <1>11
<1>13. Cardinality(keys) = n
  <2>1. key \in Bijection(1..n, keys)
    <3>1. key \in [1..n -> keys]
      BY <1>7, <1>8
    <3>2. \A i, j \in 1..n : key[i] = key[j] => i = j
      BY <1>3, <1>11
    <3>3. \A x \in keys : \E i \in 1..n : key[i] = x
      BY <1>7, <1>8
    <3> HIDE DEF key, keys
    <3> QED
      BY <3>1, <3>2, <3>3 DEF Bijection, Injection, Surjection, IsInjective
  <2> HIDE DEF key, keys
  <2>2. IsFiniteSet(1..n) /\ Cardinality(1..n) = n
    BY <1>3, UpTo
  <2>3. ExistsBijection(1..n, keys)
    BY <2>1 DEF ExistsBijection
  <2> QED
    BY <2>2, <2>3, FS_Bijection
<1>14. \A i \in DOMAIN files, j \in DOMAIN hashes :
         files[i].record = hashes[j].record => hashes[j].hash = PathHash(files[i].path, modern.seed)
  <2> SUFFICES ASSUME NEW i \in DOMAIN files, NEW j \in DOMAIN hashes, files[i].record = hashes[j].record
               PROVE  hashes[j].hash = PathHash(files[i].path, modern.seed)
    OBVIOUS
  <2>1. i = j
    BY <1>3, <1>7, <1>8
  <2> QED
    BY <1>5, <1>7, <1>8, <2>1
<1>15. n <= EntryCountLimit
  <2>1. a.paths \in Seq(Path)
    BY Zenon DEF CallFits
  <2>2. Len(a.paths) \in Nat /\ EntryCountLimit \in Nat
    BY <2>1, PakAssumption
  <2> QED
    BY <1>2, <1>3, <2>2 DEF n
<1> QED
  BY <1>5, <1>6, <1>7, <1>9, <1>10, <1>12, <1>13, <1>14, <1>15, Zenon DEF LookupsFit, modern, list, hashes, files

\* What the checks of an entry look at, when it is as it was written.
EntrySound(f, m, x) ==
  LET h == m.header IN
  /\ MethodKnown(f, h.method) /\ (h.method # 0 => MethodName(f, h.method) = "Oodle")
  /\ HeaderFits(f, h) /\ BlocksFit(f, h, x, m.headerSize) /\ DirectFits(f, h, x, m.headerSize)
LEMMA MadeSound ==
  ASSUME NEW a, CallFits(a), NEW index, NEW f, LayoutKnown(a, f),
         NEW p \in Path, index[p] \in Nat
  PROVE  EntrySound(f, Made(a, index, p), index[p])
<1> DEFINE m == Made(a, index, p)
           h == m.header
           x == index[p]
           n == Len(m.payload)
           size == Len(a.data[p])
           hs == m.headerSize
<1>1. EntryKnown(m, size) /\ BlocksKnown(m, size)
  BY MadeIs, MadeBlocks, Zenon
<1>2. /\ hs \in Nat /\ n \in Nat /\ h.method \in {0, 1}
      /\ h = [kind |-> "header", offset |-> 0, stored |-> n, size |-> size,
              method |-> h.method, time |-> 0, sha |-> m.payload,
              blocks |-> h.blocks, flags |-> 0, blockSize |-> h.blockSize]
  BY <1>1, Zenon DEF EntryKnown
<1>3. h.method = 0 => n = size /\ h.blocks = << >> /\ h.blockSize = 0
  BY <1>1, Zenon DEF BlocksKnown
<1>4. h.method # 0 =>
        /\ n >= 1 /\ size \in Nat /\ size >= 1
        /\ h.blocks = [i \in 1..n |-> [start |-> hs + i - 1, end |-> hs + i]]
        /\ h.blockSize \in Nat /\ h.blockSize >= 1 /\ CeilDiv(size, h.blockSize) = n
  BY <1>1, Zenon DEF BlocksKnown
<1>5. h.method # 0 => a.codec = "Oodle"
  BY PackedIs, Zenon
<1> HIDE DEF m, n, size, x
<1> HIDE DEF h, hs
<1>6. h.stored = n /\ h.size = size /\ h.flags = 0
  BY <1>2
<1>7. Major(DetectedLayout(f)) = 11
  BY DEF LayoutKnown, Major
<1>8. /\ MethodKnown(f, h.method)
      /\ h.method # 0 => MethodName(f, h.method) = "Oodle"
      /\ h.method = 0 => MethodName(f, h.method) = "none"
  <2>1. SlotNamesFor(110, a.codec) = [i \in 1..5 |-> IF i = 1 /\ a.codec # "none" THEN a.codec ELSE ""]
    BY DEF SlotNamesFor, SlotCount
  <2>4. SlotNames(f) = SlotNamesFor(110, a.codec)
    BY Zenon DEF LayoutKnown
  <2>2. CASE h.method = 0
    BY <2>2 DEF MethodKnown, MethodName
  <2>3. CASE h.method # 0
    <3>1. h.method = 1
      BY <1>2, <2>3
    <3>2. 1 \in DOMAIN SlotNames(f) /\ SlotNames(f)[1] = "Oodle"
      <4>1. a.codec = "Oodle" /\ "Oodle" # "none" /\ 1 \in 1..5
        BY <1>5, <2>3
      <4> DEFINE names == [i \in 1..5 |-> IF i = 1 /\ a.codec # "none" THEN a.codec ELSE ""]
      <4>2. 1 \in DOMAIN names /\ names[1] = "Oodle"
        BY <4>1
      <4> QED
        BY <2>1, <2>4, <4>2, Zenon
    <3>3. "Oodle" \in Codec
      BY DEF Codec
    <3> QED
      BY <3>1, <3>2, <3>3 DEF MethodKnown, MethodName
  <2> QED
    BY <2>2, <2>3
<1>9. HeaderFits(f, h)
  <2>1. h.method = 0 => h.stored = h.size /\ h.blockSize = 0
    BY <1>3, <1>6
  <2>2. h.method # 0 => h.blockSize # 0
    BY <1>4
  <2> QED
    BY <1>6, <1>8, <2>1, <2>2, Zenon DEF HeaderFits
<1>10. BlocksFit(f, h, x, hs)
  <2>1. CASE h.method = 0
    BY <1>3, <1>6, <2>1, Zenon DEF BlocksFit
  <2>2. CASE h.method # 0
    <3>1. /\ Len(h.blocks) = n /\ DOMAIN h.blocks = 1..n /\ h.blocks # << >>
          /\ \A i \in 1..n : h.blocks[i].start = hs + i - 1 /\ h.blocks[i].end = hs + i
      BY <1>2, <1>4, <2>2
    <3>2. ASSUME NEW i \in DOMAIN h.blocks
          PROVE  /\ h.blocks[i].start = IF i = 1 THEN hs ELSE h.blocks[i - 1].end
                 /\ h.blocks[i].end >= h.blocks[i].start
      <4>1. i \in 1..n /\ h.blocks[i].start = hs + i - 1 /\ h.blocks[i].end = hs + i
        BY <3>1
      <4>2. n \in Nat /\ hs \in Nat
        BY <1>2
      <4>3. i # 1 => i - 1 \in 1..n
        BY <4>1, <4>2
      <4>4. i # 1 => h.blocks[i - 1].end = hs + (i - 1)
        BY <3>1, <4>3
      <4> QED
        BY <4>1, <4>2, <4>4
    <3>3. h.blocks[Len(h.blocks)].end - hs = h.stored
      BY <1>2, <1>4, <1>6, <2>2, <3>1
    <3>4. Major(DetectedLayout(f)) >= 5 /\ ~(Major(DetectedLayout(f)) < 3)
      BY <1>7
    <3> QED
      BY <2>2, <3>1, <3>2, <3>3, <3>4 DEF BlocksFit
  <2> QED
    BY <2>1, <2>2
<1>11. DirectFits(f, h, x, hs)
  <2>1. CASE h.method = 0
    BY <1>8, <2>1 DEF DirectFits
  <2>2. CASE h.method # 0
    <3>1. /\ Len(h.blocks) = n /\ DOMAIN h.blocks = 1..n
          /\ \A i \in 1..n : h.blocks[i].start = hs + i - 1 /\ h.blocks[i].end = hs + i
      BY <1>2, <1>4, <2>2
    <3>2. x \in Nat
      BY DEF x
    <3>3. ASSUME NEW i \in DOMAIN h.blocks
          PROVE  /\ BlockStart(f, x, h.blocks[i]) >= x + hs
                 /\ BlockEnd(f, x, h.blocks[i]) <= x + hs + h.stored
      <4>1. i \in 1..n /\ h.blocks[i].start = hs + i - 1 /\ h.blocks[i].end = hs + i
        BY <3>1
      <4>2. Major(DetectedLayout(f)) >= 5
        BY <1>7
      <4>3. BlockStart(f, x, h.blocks[i]) = x + h.blocks[i].start /\ BlockEnd(f, x, h.blocks[i]) = x + h.blocks[i].end
        BY <4>2, Zenon DEF BlockStart, BlockEnd
      <4> QED
        BY <1>2, <1>6, <3>2, <4>1, <4>3
    <3>4. h.size > 0 /\ h.blockSize > 0 /\ Len(h.blocks) = CeilDiv(h.size, h.blockSize)
      BY <1>4, <1>6, <2>2, <3>1
    <3>5. ~(Major(DetectedLayout(f)) < 3)
      BY <1>7
    <3> QED
      BY <3>3, <3>4, <3>5, Zenon DEF DirectFits
  <2> QED
    BY <2>1, <2>2
<1> QED
  BY <1>8, <1>9, <1>10, <1>11, Zenon DEF EntrySound, h, m, x, hs

\* The checks of its records pass.
LEMMA PristineRecords ==
  ASSUME NEW a, CallFits(a), NEW index, NEW f, Pristine(a, index, f)
  PROVE  RecordsFit(f)
<1> DEFINE modern == ModernIndex(a, index, IndexAt(f))
           paths == OrderOf(index)
           files == DirectoryIndex(paths).files
<1>1. LayoutKnown(a, f) /\ DetectedLayout(f) = 110 /\ Whole(a, index, f)
  <2>1. LayoutKnown(a, f)
    BY PristineFooter, Zenon
  <2> QED
    BY <2>1, Zenon DEF LayoutKnown, Pristine
<1>2. IndexKnown(a, index, f)
  <2>1. DetectedLayout(f) \in {100, 110}
    BY <1>1
  <2> QED
    BY <1>1, <2>1, IndexRead, Zenon
<1>3. /\ Primary(f) = modern /\ Region(f, Primary(f).directory[1]) = DirectoryIndex(paths)
      /\ OrderKnown(index, paths)
  BY <1>2, Zenon DEF IndexKnown
<1>4. DOMAIN paths = 1..Len(paths) /\ Len(paths) \in Nat /\ \A i \in DOMAIN paths : paths[i] \in DOMAIN index
  BY <1>3, Zenon DEF OrderKnown
<1>5. files = [i \in DOMAIN paths |-> [path |-> paths[i], record |-> i - 1]]
  BY DEF DirectoryIndex
<1>6. modern.records = [o \in 0..(Len(paths) - 1) |->
                          Encoded(index[paths[o + 1]], Made(a, index, paths[o + 1]).header)]
  BY DEF ModernIndex
<1>7. Apart(a, index, IndexAt(f)) /\ \A p \in DOMAIN index : HasEntry(a, index, f, p)
  BY <1>1, Zenon DEF Whole, Laid
<1> HIDE DEF modern, paths, files
<1>8. ASSUME NEW p \in DOMAIN index, NEW r, r = Encoded(index[p], Made(a, index, p).header)
      PROVE  RecordFits(r) /\ MethodKnown(f, r.method) /\ LocalFits(f, r)
  <2> DEFINE m == Made(a, index, p)
             h == m.header
             hs == HeaderSize(DetectedLayout(f), r.method, Len(RecordSizes(r)))
  <2>1. p \in Path /\ index[p] \in Nat
    BY <1>7, Zenon DEF Apart
  <2>a. EntryKnown(m, Len(a.data[p])) /\ BlocksKnown(m, Len(a.data[p]))
    BY <2>1, MadeIs, MadeBlocks, Zenon
  <2>b. EntrySound(f, m, index[p])
    BY <1>1, <2>1, MadeSound
  <2>2. EntryKnown(m, Len(a.data[p])) /\ BlocksKnown(m, Len(a.data[p])) /\ EntrySound(f, m, index[p])
    BY <2>a, <2>b, Zenon
  <2>3. RecordKnown(r, index[p], h)
    BY <1>8, <2>2, EncodedIs
  <2>4. /\ r.at = index[p] /\ r.size = h.size /\ r.method = h.method
        /\ StoredOf(r) = h.stored /\ RecordSizes(r) = BlockSizes(h) /\ RecordBlockSize(r) = h.blockSize
        /\ Len(BlockSizes(h)) = Len(h.blocks) /\ RecordFits(r)
    BY <2>3, Zenon DEF RecordKnown
  <2>5. /\ \A l \in {100, 110} : m.headerSize = HeaderSize(l, h.method, Len(h.blocks))
        /\ h = [kind |-> "header", offset |-> 0, stored |-> Len(m.payload), size |-> Len(a.data[p]),
              method |-> h.method, time |-> 0, sha |-> m.payload,
              blocks |-> h.blocks, flags |-> 0, blockSize |-> h.blockSize]
    BY <2>2, Zenon DEF EntryKnown
  <2>6. f.at[index[p]] = [size |-> m.headerSize, body |-> h] /\ index[p] \in DOMAIN f.at
    BY <1>7, Zenon DEF HasEntry
  <2>7. MethodKnown(f, h.method) /\ HeaderFits(f, h) /\ BlocksFit(f, h, index[p], m.headerSize)
    BY <2>2, Zenon DEF EntrySound
  <2> HIDE DEF m, h
  <2>8. hs = m.headerSize
    BY <1>1, <2>4, <2>5
  <2>9. h.kind = "header" /\ h.offset = 0 /\ h.flags = 0
    BY <2>5
  <2>10. f.at[r.at].size = hs /\ f.at[r.at].body = h /\ r.at \in DOMAIN f.at
    BY <2>4, <2>6, <2>8
  <2>11. LocalFits(f, r)
    BY <2>4, <2>7, <2>8, <2>9, <2>10, Zenon DEF LocalFits, Holds
  <2> QED
    BY <2>4, <2>7, <2>11
<1>9. ASSUME NEW i \in DOMAIN paths
      PROVE  /\ files[i].record = i - 1 /\ i - 1 \in DOMAIN modern.records
             /\ modern.records[i - 1] = Encoded(index[paths[i]], Made(a, index, paths[i]).header)
  <2>1. i - 1 \in 0..(Len(paths) - 1) /\ (i - 1) + 1 = i
    BY <1>4
  <2> QED
    BY <1>5, <1>6, <2>1
<1>10. DOMAIN files = DOMAIN paths
  BY <1>5
<1>11. ASSUME NEW i \in DOMAIN files
       PROVE  LET o == files[i].record
              IN /\ o \in DOMAIN modern.records /\ RecordFits(modern.records[o])
                 /\ MethodKnown(f, modern.records[o].method) /\ LocalFits(f, modern.records[o])
  <2>1. paths[i] \in DOMAIN index
    BY <1>4, <1>10
  <2> DEFINE r == modern.records[i - 1]
  <2>2. r = Encoded(index[paths[i]], Made(a, index, paths[i]).header) /\ files[i].record = i - 1 /\ i - 1 \in DOMAIN modern.records
    BY <1>9, <1>10
  <2> HIDE DEF r
  <2>3. RecordFits(r) /\ MethodKnown(f, r.method) /\ LocalFits(f, r)
    BY <1>8, <2>1, <2>2
  <2> QED
    BY <2>2, <2>3, Zenon DEF r
<1> QED
  BY <1>3, <1>11, Zenon DEF RecordsFit, files

\* Its payloads lie apart before the index, and can be decoded.
LEMMA PristineOpens ==
  ASSUME NEW a, CallFits(a), NEW index, NEW f, Pristine(a, index, f), Len(a.paths) <= EntryCountLimit
  PROVE  Opens(f, TRUE)
<1> DEFINE modern == ModernIndex(a, index, IndexAt(f))
           paths == OrderOf(index)
           made(p) == [path |-> p, at |-> index[p], header |-> Made(a, index, p).header]
<1>1. LayoutKnown(a, f) /\ FooterFits(f)
  BY PristineFooter, Zenon
<1>2. DetectedLayout(f) = 110 /\ Whole(a, index, f) /\ DetectedLayout(f) \in {100, 110}
  <2>1. DetectedLayout(f) = 110
    BY <1>1, Zenon DEF LayoutKnown
  <2> QED
    BY <2>1, Zenon DEF Pristine
<1>3. IndexKnown(a, index, f)
  BY <1>2, IndexRead, Zenon
<1>4. /\ Primary(f) = modern /\ Region(f, Primary(f).directory[1]) = DirectoryIndex(paths)
      /\ OrderKnown(index, paths) /\ IsModern(f)
  BY <1>3, Zenon DEF IndexKnown
<1>5. Entries(f) = {made(p) : p \in DOMAIN index}
  BY <1>3, Zenon DEF IndexKnown
<1>6. Apart(a, index, IndexAt(f)) /\ f.footer.index = RegionAt(IndexAt(f), modern)
  BY <1>2, Zenon DEF Whole, Laid
<1>7. f.footer.index.offset = IndexAt(f)
  BY <1>6 DEF RegionAt
<1>8. \A p \in DOMAIN index : made(p).path = p /\ made(p).at = index[p] /\ made(p).header = Made(a, index, p).header
  OBVIOUS
<1> HIDE DEF modern, paths, made
<1>9. ASSUME NEW e \in Entries(f)
      PROVE  \E p \in DOMAIN index :
               /\ e.path = p /\ e.at = index[p] /\ e.header = Made(a, index, p).header
               /\ p \in Path /\ index[p] \in Nat /\ e = made(p)
  <2>1. PICK p \in DOMAIN index : e = made(p)
    BY <1>5
  <2>2. p \in Path /\ index[p] \in Nat
    BY <1>6, Zenon DEF Apart
  <2> QED
    BY <1>8, <2>1, <2>2
<1>10. ASSUME NEW e \in Entries(f), NEW p \in DOMAIN index, e.at = index[p], e.header = Made(a, index, p).header,
             p \in Path, index[p] \in Nat
       PROVE  LiesThere(a, index, f, p, e) /\ EntrySound(f, Made(a, index, p), index[p])
  <2>1. /\ e.header.stored = Made(a, index, p).header.stored
        /\ e.header.method = Made(a, index, p).header.method /\ e.header.blocks = Made(a, index, p).header.blocks
    BY <1>10
  <2>2. LiesThere(a, index, f, p, e)
    BY <1>2, <1>10, <2>1, WhereItIs
  <2>3. EntrySound(f, Made(a, index, p), index[p])
    BY <1>1, <1>10, MadeSound
  <2> QED
    BY <2>2, <2>3
<1>11. ASSUME NEW e \in Entries(f)
       PROVE  /\ PayloadEnd(f, e) <= f.footer.index.offset
              /\ DirectFits(f, e.header, e.at, EntryHeaderSize(f, e))
              /\ PayloadSound(f, e)
  <2>1. PICK p \in DOMAIN index :
          /\ e.at = index[p] /\ e.header = Made(a, index, p).header
          /\ p \in Path /\ index[p] \in Nat
    BY <1>9
  <2>2. LiesThere(a, index, f, p, e) /\ EntrySound(f, Made(a, index, p), index[p])
    BY <1>10, <2>1
  <2>3. /\ EntryHeaderSize(f, e) = Made(a, index, p).headerSize
        /\ PayloadStart(f, e) = PayloadAt(a, index, p) /\ PayloadEnd(f, e) = EndOf(a, index, p)
    BY <2>2, Zenon DEF LiesThere
  <2>4. EndOf(a, index, p) <= IndexAt(f)
    BY <1>6, Zenon DEF Apart
  <2>5. DirectFits(f, e.header, e.at, EntryHeaderSize(f, e))
    <3>1. DirectFits(f, Made(a, index, p).header, index[p], Made(a, index, p).headerSize)
      BY <2>2, Zenon DEF EntrySound
    <3> QED
      BY <2>1, <2>3, <3>1
  <2>6. PayloadSound(f, e)
    <3>1. Bytes(f, PayloadAt(a, index, p), EndOf(a, index, p)) = Made(a, index, p).payload
      BY <1>2, WholePayload
    <3>2. Made(a, index, p).header.sha = Made(a, index, p).payload
      <4> DEFINE m == Made(a, index, p)
      <4>1. EntryKnown(m, Len(a.data[p]))
        BY <2>1, MadeIs
      <4>2. m.header = [kind |-> "header", offset |-> 0, stored |-> Len(m.payload), size |-> Len(a.data[p]),
                 method |-> m.header.method, time |-> 0, sha |-> m.payload,
                 blocks |-> m.header.blocks, flags |-> 0, blockSize |-> m.header.blockSize]
        BY <4>1, Zenon DEF EntryKnown
      <4> HIDE DEF m
      <4>3. m.header.sha = m.payload
        BY <4>2
      <4> QED
        BY <4>3 DEF m
    <3> QED
      BY <2>1, <2>3, <3>1, <3>2 DEF PayloadSound, Payload
  <2> QED
    BY <1>7, <2>3, <2>4, <2>5, <2>6
<1>12. ASSUME NEW e \in Entries(f), NEW d \in Entries(f), e # d
       PROVE  PayloadEnd(f, e) <= d.at \/ PayloadEnd(f, d) <= e.at
  <2>1. PICK p \in DOMAIN index :
          /\ e.at = index[p] /\ e.header = Made(a, index, p).header
          /\ p \in Path /\ index[p] \in Nat /\ e = made(p)
    BY <1>9
  <2>2. PICK q \in DOMAIN index :
          /\ d.at = index[q] /\ d.header = Made(a, index, q).header
          /\ q \in Path /\ index[q] \in Nat /\ d = made(q)
    BY <1>9
  <2>3. LiesThere(a, index, f, p, e) /\ LiesThere(a, index, f, q, d)
    BY <1>10, <2>1, <2>2
  <2>4. PayloadEnd(f, e) = EndOf(a, index, p) /\ PayloadEnd(f, d) = EndOf(a, index, q)
    BY <2>3, Zenon DEF LiesThere
  <2>5. p # q
    BY <1>12, <2>1, <2>2
  <2>6. EndOf(a, index, p) <= index[q] \/ EndOf(a, index, q) <= index[p]
    BY <1>6, <2>5, Zenon DEF Apart
  <2> QED
    BY <2>1, <2>2, <2>4, <2>6
<1>13. IndexFits(f)
  <2>1. ModernRegionsFit(f) /\ LookupsFit(f) /\ RecordsFit(f)
    BY PristineRegions, PristineLookups, PristineRecords, Zenon
  <2> QED
    BY <1>4, <1>11, <1>12, <2>1, Zenon DEF IndexFits
<1>14. PayloadsFit(f)
  BY <1>11, Zenon DEF PayloadsFit
<1>15. /\ RepakRead(f).mount = NormalMount(Primary(f).mount) /\ RepakRead(f).seed = Seed(f)
       /\ RepakRead(f).files = {e.path : e \in Entries(f)}
  <2> DEFINE files == DirectoryIndex(paths).files
  <2>1. RepakRead(f) = [mount |-> Primary(f).mount, seed |-> Primary(f).seed, files |-> {x.path : x \in ToSet(files)}]
    BY <1>4, Zenon DEF RepakRead
  <2>2. Primary(f).mount = a.mount /\ NormalMount(a.mount) = a.mount
    <3>1. modern.mount = a.mount
      BY DEF modern, ModernIndex
    <3> QED
      BY <1>4, <3>1, Zenon DEF CallFits
  <2>3. Seed(f) = Primary(f).seed
    BY <1>4, Zenon DEF Seed
  <2>4. {x.path : x \in ToSet(files)} = DOMAIN index
    <3>1. files = [i \in DOMAIN paths |-> [path |-> paths[i], record |-> i - 1]]
      BY DEF DirectoryIndex
    <3> HIDE DEF files
    <3>2. ToSet(files) = {files[i] : i \in DOMAIN paths}
      BY <3>1 DEF ToSet
    <3>3. ToSet(paths) = DOMAIN index /\ ToSet(paths) = {paths[i] : i \in DOMAIN paths}
      BY <1>4, Zenon DEF OrderKnown, ToSet
    <3>4. \A i \in DOMAIN paths : files[i].path = paths[i]
      BY <3>1
    <3> QED
      BY <3>2, <3>3, <3>4
  <2>5. {e.path : e \in Entries(f)} = DOMAIN index
    <3>1. \A p \in DOMAIN index : made(p) \in Entries(f) /\ made(p).path = p
      BY <1>5, <1>8
    <3>2. \A e \in Entries(f) : e.path \in DOMAIN index
      BY <1>9
    <3> QED
      BY <3>1, <3>2
  <2> HIDE DEF files
  <2>6. RepakRead(f).mount = Primary(f).mount /\ RepakRead(f).seed = Primary(f).seed
        /\ RepakRead(f).files = {x.path : x \in ToSet(files)}
    BY <2>1
  <2> QED
    BY <2>2, <2>3, <2>4, <2>5, <2>6
<1>16. ASSUME NEW e \in Entries(f), e.header.method # 0
       PROVE  Decodes(f, e)
  <2>1. PICK p \in DOMAIN index :
          /\ e.at = index[p] /\ e.header = Made(a, index, p).header
          /\ p \in Path /\ index[p] \in Nat
    BY <1>9
  <2> DEFINE m == Made(a, index, p)
             o == PayloadAt(a, index, p)
             n == Len(m.payload)
             piece(i) == PieceAt(m, o, i)
             chunks == Chunks(a.data[p], BlockSizeFor(Len(a.data[p])))
  <2>2. BlocksOf(f, e) = [i \in 1..n |-> piece(i)]
    BY <1>2, <1>16, <2>1, BlocksAre
  <2>3. ASSUME NEW i \in 1..n
        PROVE  /\ Bytes(f, piece(i).start, piece(i).end) = <<Packed("Oodle", chunks[i])>>
               /\ Len(chunks[i]) = piece(i).to - piece(i).from
    BY <1>2, <1>16, <2>1, PieceRead
  <2>4. MethodName(f, e.header.method) = "Oodle"
    <3>1. EntrySound(f, m, index[p])
      BY <1>10, <2>1
    <3>2. m.header.method # 0 => MethodName(f, m.header.method) = "Oodle"
      BY <3>1, Zenon DEF EntrySound
    <3> QED
      BY <1>16, <2>1, <3>2
  <2>5. RepakBlocksFit(e)
    <3> DEFINE h == m.header
               size == Len(a.data[p])
    <3>1. EntryKnown(m, size) /\ BlocksKnown(m, size)
      BY <2>1, MadeIs, MadeBlocks, Zenon
    <3>2. h = [kind |-> "header", offset |-> 0, stored |-> n, size |-> size,
              method |-> h.method, time |-> 0, sha |-> m.payload,
              blocks |-> h.blocks, flags |-> 0, blockSize |-> h.blockSize]
      BY <3>1, Zenon DEF EntryKnown
    <3>3. h.method # 0
      BY <1>16, <2>1
    <3>4. /\ n \in Nat /\ n >= 1 /\ size \in Nat /\ size >= 1
          /\ h.blocks = [i \in 1..n |-> [start |-> m.headerSize + i - 1, end |-> m.headerSize + i]]
          /\ h.blockSize \in Nat /\ h.blockSize >= 1 /\ CeilDiv(size, h.blockSize) = n
      BY <3>1, <3>3, Zenon DEF BlocksKnown
    <3>5. e.header = h
      BY <2>1
    <3> HIDE DEF m, h, n, size
    <3>6. h.size = size
      BY <3>2
    <3>7. Len(h.blocks) = n
      BY <3>4
    <3>8. h.size # 0 /\ h.blockSize > 0 /\ Len(h.blocks) = CeilDiv(h.size, h.blockSize)
      BY <3>4, <3>6, <3>7
    <3> QED
      BY <3>5, <3>8, Zenon DEF RepakBlocksFit
  <2> HIDE DEF piece, chunks, n
  <2>6. ASSUME NEW i \in DOMAIN BlocksOf(f, e)
        PROVE  BlockDecodes(f, MethodName(f, e.header.method), BlocksOf(f, e)[i])
    <3>1. i \in 1..n /\ BlocksOf(f, e)[i] = piece(i)
      BY <2>2
    <3> DEFINE stored == <<Packed("Oodle", chunks[i])>>
    <3>2. Len(stored) = 1 /\ stored[1].codec = "Oodle" /\ stored[1].plain = chunks[i]
      BY DEF Packed
    <3>3. Bytes(f, piece(i).start, piece(i).end) = stored /\ Len(chunks[i]) = piece(i).to - piece(i).from
      BY <2>3, <3>1
    <3> HIDE DEF stored
    <3> QED
      BY <2>4, <3>1, <3>2, <3>3 DEF BlockDecodes
  <2> QED
    BY <2>5, <2>6, Zenon DEF Decodes
<1> QED
  BY <1>1, <1>13, <1>14, <1>15, <1>16, Zenon DEF Opens

-----------------------------------------------------------------------------
(***************************************************************************)
(* The steps of a call keep the invariant                                  *)
(***************************************************************************)
\* The paths of a request are sorted into the same paths.
LEMMA SortedIs ==
  ASSUME NEW paths \in Seq(Path), paths # << >>, PathsFit(paths)
  PROVE  /\ Sorted(paths) \in Seq(Path) /\ Sorted(paths) # << >> /\ PathsFit(Sorted(paths))
         /\ ToSet(Sorted(paths)) = ToSet(paths)
<1> DEFINE S == ToSet(paths)
           rank == [p \in S |-> KeyRank[Fold[p]]]
           o == InOrder(S, rank)
<1>1. IsFiniteSet(S) /\ S \subseteq Path
  BY MembersFinite
<1>2. ASSUME NEW p \in S, NEW q \in S
      PROVE  SafePath(p) /\ (Fold[p] = Fold[q] => p = q)
  <2>1. PICK i \in DOMAIN paths, j \in DOMAIN paths : p = paths[i] /\ q = paths[j]
    BY DEF ToSet
  <2>2. i # j => Fold[paths[i]] # Fold[paths[j]]
    BY Zenon DEF PathsFit
  <2>3. SafePath(paths[i])
    BY Zenon DEF PathsFit
  <2> QED
    BY <2>1, <2>2, <2>3, Zenon
<1>3. \A p \in S : Fold[p] \in Key /\ KeyRank[Fold[p]] \in Nat
  BY <1>1, PakAssumption
<1>4. \A p \in S : rank[p] \in Nat
  BY <1>3
<1>5. \A p, q \in S : rank[p] = rank[q] => p = q
  <2>1. ASSUME NEW p \in S, NEW q \in S, rank[p] = rank[q]
        PROVE  p = q
    <3>1. KeyRank[Fold[p]] = KeyRank[Fold[q]]
      BY <2>1
    <3>2. Fold[p] = Fold[q]
      BY <1>3, <3>1, PakAssumption
    <3> QED
      BY <1>2, <3>2
  <2> QED
    BY <2>1
<1> HIDE DEF rank, S
<1>6. /\ o \in Seq(S) /\ ToSet(o) = S /\ \A i \in DOMAIN o : o[i] \in S
      /\ \A i, j \in DOMAIN o : o[i] = o[j] => i = j
  BY <1>1, <1>4, <1>5, OrderIs
<1>7. Sorted(paths) = o
  BY Zenon DEF Sorted, S, rank
<1> HIDE DEF o
<1>8. o \in Seq(Path)
  BY <1>1, <1>6
<1>9. o # << >>
  <2>1. paths[1] \in S
    BY DEF S, ToSet
  <2>2. ToSet(o) # {}
    BY <1>6, <2>1
  <2>3. DOMAIN << >> = {}
    OBVIOUS
  <2> QED
    BY <2>2, <2>3 DEF ToSet
<1>10. PathsFit(o)
  <2>1. \A i \in DOMAIN o : SafePath(o[i])
    BY <1>2, <1>6
  <2>2. \A i, j \in DOMAIN o : i # j => Fold[o[i]] # Fold[o[j]]
    BY <1>2, <1>6
  <2> QED
    BY <2>1, <2>2, Zenon DEF PathsFit
<1> QED
  BY <1>6, <1>7, <1>8, <1>9, <1>10, Zenon DEF S

\* The mount point of a request ends in a slash once it is normalised.
LEMMA MountNormal ==
  ASSUME NEW m, NEW x, NEW y, m = [parts |-> x, slash |-> y],
         NEW n, n = [m EXCEPT !.slash = TRUE],
         NEW o, o = [parts |-> x, slash |-> TRUE]
  PROVE  n = o
<1>1. DOMAIN m = {"parts", "slash"}
  OBVIOUS
<1>2. DOMAIN n = {"parts", "slash"}
  BY <1>1
<1>3. DOMAIN o = {"parts", "slash"}
  OBVIOUS
<1>4. n["parts"] = x /\ n["slash"] = TRUE
  BY <1>1
<1>5. o["parts"] = x /\ o["slash"] = TRUE
  OBVIOUS
<1> QED
  BY <1>2, <1>3, <1>4, <1>5

\* A call that is taken fits, and its file is under way.
LEMMA BegunFits ==
  ASSUME NEW paths \in Requests, NEW hashed \in Hashed, NEW mount \in Mounts, NEW codec \in {"none", "Oodle"},
         NEW data \in Data, RequestFits(paths, hashed, mount),
         NEW a, a = [paths |-> Sorted(paths), hashed |-> Folded(hashed), mount |-> NormalMount(mount),
                     codec |-> codec, data |-> data]
  PROVE  CallFits(a)
<1>1. /\ paths \in Seq(Path) /\ \A p \in Path : data[p] \in Seq(ToSet(data[p]))
      /\ mount = [parts |-> mount.parts, slash |-> mount.slash]
  BY RequestsAssumption
<1>2. /\ SafeMount(mount) /\ paths # << >> /\ PathsFit(paths) /\ Folded(hashed) \subseteq Folded(paths)
  BY Zenon DEF RequestFits
<1>3. /\ Sorted(paths) \in Seq(Path) /\ Sorted(paths) # << >> /\ PathsFit(Sorted(paths))
      /\ ToSet(Sorted(paths)) = ToSet(paths)
  BY <1>1, <1>2, SortedIs
<1>4. /\ a.paths = Sorted(paths) /\ a.hashed = Folded(hashed) /\ a.mount = NormalMount(mount)
      /\ a.codec = codec /\ a.data = data
  OBVIOUS
<1>5. NormalMount(mount) = [parts |-> mount.parts, slash |-> TRUE]
  <2>1. \E x, y : mount = [parts |-> x, slash |-> y]
    BY <1>1, Zenon
  <2>2. PICK x, y : mount = [parts |-> x, slash |-> y]
    BY <2>1, Zenon
  <2>3. mount.parts = x
    BY <2>2
  <2>4. NormalMount(mount) = [mount EXCEPT !.slash = TRUE]
    BY Zenon DEF NormalMount
  <2>5. [mount EXCEPT !.slash = TRUE] = [parts |-> x, slash |-> TRUE]
    BY <2>2, MountNormal
  <2> QED
    BY <2>3, <2>4, <2>5, Zenon
<1>6. SafeMount(a.mount) /\ NormalMount(a.mount) = a.mount
  <2>1. a.mount = [parts |-> mount.parts, slash |-> TRUE]
    BY <1>4, <1>5
  <2>2. a.mount.parts = mount.parts
    BY <2>1
  <2>3. SafeMount(a.mount)
    BY <1>2, <2>2 DEF SafeMount
  <2>4. NormalMount(a.mount) = a.mount
    BY <2>1 DEF NormalMount
  <2> QED
    BY <2>3, <2>4
<1>7. a.hashed \subseteq Folded(a.paths)
  BY <1>2, <1>3, <1>4 DEF Folded
<1> QED
  BY <1>1, <1>3, <1>4, <1>6, <1>7 DEF CallFits

LEMMA EmptyIsBuilt ==
  ASSUME NEW a
  PROVE  Built(a, << >>, EmptyFile) /\ ~(EmptyFile.footer # NoFooter)
<1>1. IsFile(EmptyFile) /\ EmptyFile.footer = NoFooter /\ EmptyFile.end \in Nat /\ EmptyFile.at = << >>
  BY DEF IsFile, EmptyFile
<1>2. DOMAIN << >> = {}
  OBVIOUS
<1>3. Apart(a, << >>, EmptyFile.end)
  BY <1>2 DEF Apart
<1>4. PayloadsKnown(a, << >>, EmptyFile) /\ KindsKnown(EmptyFile)
  BY <1>1, <1>2 DEF PayloadsKnown, KindsKnown
<1> QED
  BY <1>1, <1>2, <1>3, <1>4 DEF Built

LEMMA BeginKeeps ==
  ASSUME WriterInv, Untouched',
         NEW paths \in Requests, NEW hashed \in Hashed, NEW mount \in Mounts, NEW codec \in {"none", "Oodle"},
         NEW data \in Data, Begin(paths, hashed, mount, codec, data)
  PROVE  WriterInv'
<1>1. /\ asked = None /\ result = None /\ verdict = None /\ position = 0 /\ written = << >> /\ sourceSha = << >>
  BY Zenon DEF Begin, WriterInv
<1>2. position' = 0 /\ written' = << >> /\ sourceSha' = << >> /\ verdict' = None
  BY <1>1 DEF Begin
<1>3. None # "written" /\ None # "failed" /\ None # TRUE
  BY ResultAssumption
<1>4. result' # "written"
  BY <1>1, <1>3 DEF Begin
<1>5. ASSUME asked' # None
      PROVE  WrittenInv' /\ EndedInv'
  <2>1. RequestFits(paths, hashed, mount) /\ file = None
    BY <1>1, <1>5 DEF Begin
  <2>2. /\ asked' = [paths |-> Sorted(paths), hashed |-> Folded(hashed), mount |-> NormalMount(mount),
                     codec |-> codec, data |-> data]
        /\ file' = EmptyFile /\ result' = None
    BY <1>1, <2>1 DEF Begin
  <2>3. CallFits(asked')
    BY <2>1, <2>2, BegunFits
  <2>4. Built(asked', written', file') /\ file'.footer = NoFooter
    BY <1>2, <2>2, EmptyIsBuilt
  <2>5. Len(asked'.paths) \in Nat
    <3>1. asked'.paths \in Seq(Path)
      BY <2>3, Zenon DEF CallFits
    <3> QED
      BY <3>1
  <2>6. DOMAIN written' = {} /\ DOMAIN sourceSha' = {} /\ 1..position' = {} /\ position' \in 0..Len(asked'.paths)
    BY <1>2, <2>5
  <2>7. DOMAIN written' = {asked'.paths[i] : i \in 1..position'}
    BY <2>6
  <2>8. {Fold[p] : p \in DOMAIN sourceSha'} = {Fold[p] : p \in DOMAIN written'} \cap asked'.hashed
    BY <2>6
  <2>9. WrittenInv'
    BY <2>2, <2>3, <2>4, <2>6, <2>7, <2>8 DEF WrittenInv, There, Complete
  <2>10. EndedInv'
    BY <1>2, <1>3, <1>4, <2>2 DEF EndedInv
  <2> QED
    BY <2>9, <2>10
<1> QED
  BY <1>2, <1>4, <1>5 DEF WriterInv

\* The next entry is one that is not written yet.
LEMMA WriteKeeps ==
  ASSUME WriterInv, Untouched', WriteEntry
  PROVE  WriterInv'
<1> DEFINE path == asked.paths[position + 1]
           paths == asked.paths
<1>1. /\ asked # None /\ file # None /\ result = None /\ position < Len(paths)
      /\ file' = Appended(110, asked.codec, file, asked.data[path])
      /\ written' = With(written, path, file.end) /\ sourceSha' = Collected(path, asked.data[path])
      /\ position' = position + 1 /\ asked' = asked /\ result' = result /\ verdict' = verdict
  BY Zenon DEF WriteEntry, Writing
<1>2. WrittenInv /\ EndedInv
  BY <1>1, Zenon DEF WriterInv
<1>3. /\ CallFits(asked) /\ position \in 0..Len(paths)
      /\ DOMAIN written = {paths[i] : i \in 1..position}
      /\ {Fold[p] : p \in DOMAIN sourceSha} = {Fold[p] : p \in DOMAIN written} \cap asked.hashed
      /\ There
  BY <1>1, <1>2, Zenon DEF WrittenInv, There
<1>4. paths \in Seq(Path) /\ PathsFit(paths)
  BY <1>3, Zenon DEF CallFits
<1>5. Len(paths) \in Nat /\ position \in Nat /\ position + 1 \in DOMAIN paths /\ DOMAIN paths = 1..Len(paths)
  BY <1>1, <1>3, <1>4
<1>6. ~Complete
  <2>1. Complete => position = Len(paths)
    BY <1>2, <1>3, Zenon DEF WrittenInv
  <2> QED
    BY <1>1, <1>5, <2>1
<1>7. Built(asked, written, file)
  BY <1>2, <1>3, <1>6, Zenon DEF WrittenInv
<1>8. path \in Path /\ path \notin DOMAIN written
  <2>1. path \in Path
    BY <1>4, <1>5
  <2>2. ASSUME NEW i \in 1..position
        PROVE  paths[i] # path
    <3>1. i \in DOMAIN paths /\ i # position + 1
      BY <1>3, <1>5
    <3>2. Fold[paths[i]] # Fold[path]
      BY <1>4, <1>5, <3>1, Zenon DEF PathsFit
    <3> QED
      BY <3>2
  <2> QED
    BY <1>3, <2>1, <2>2
<1>9. Built(asked, written', file')
  BY <1>1, <1>3, <1>7, <1>8, AppendedIsBuilt
<1> HIDE DEF path
<1>10. DOMAIN written' = DOMAIN written \cup {path}
  BY <1>1 DEF With
<1>11. DOMAIN written' = {paths[i] : i \in 1..position'}
  <2>1. 1..position' = 1..position \cup {position + 1}
    BY <1>1, <1>5
  <2>2. path = paths[position + 1]
    BY DEF path
  <2> HIDE DEF paths
  <2> QED
    BY <1>3, <1>10, <2>1, <2>2
<1>12. position' \in 0..Len(paths)
  BY <1>1, <1>5
<1>13. {Fold[p] : p \in DOMAIN sourceSha'} = {Fold[p] : p \in DOMAIN written'} \cap asked.hashed
  <2>1. CASE Fold[path] \in asked.hashed
    <3>1. DOMAIN sourceSha' = DOMAIN sourceSha \cup {path}
      BY <1>1, <2>1 DEF Collected, With
    <3> QED
      BY <1>3, <1>10, <2>1, <3>1
  <2>2. CASE Fold[path] \notin asked.hashed
    <3>1. sourceSha' = sourceSha
      BY <1>1, <2>2 DEF Collected
    <3> QED
      BY <1>3, <1>10, <2>2, <3>1
  <2> QED
    BY <2>1, <2>2
<1>14. ~Complete'
  BY <1>9 DEF Built, Complete
<1>15. WrittenInv'
  BY <1>1, <1>3, <1>9, <1>11, <1>12, <1>13, <1>14 DEF WrittenInv
<1>16. EndedInv'
  <2>1. verdict = None
    BY <1>1, ResultAssumption DEF WriterInv, Untouched
  <2> QED
    BY <1>1, <2>1, ResultAssumption DEF EndedInv
<1> QED
  BY <1>1, <1>15, <1>16 DEF WriterInv

\* With its index a file is as it was written.
LEMMA IndexKeeps ==
  ASSUME WriterInv, Untouched', WriteIndex
  PROVE  WriterInv'
<1>1. /\ asked # None /\ file # None /\ result = None /\ position = Len(asked.paths) /\ ~Complete
      /\ file' = Indexed(110, file, written, asked.mount, SlotNamesFor(110, asked.codec))
      /\ UNCHANGED <<asked, position, written, sourceSha, result, verdict>>
  BY DEF WriteIndex, Writing, call
<1>2. WrittenInv /\ EndedInv
  BY <1>1, Zenon DEF WriterInv
<1>3. /\ CallFits(asked) /\ position \in 0..Len(asked.paths)
      /\ DOMAIN written = {asked.paths[i] : i \in 1..position}
      /\ {Fold[p] : p \in DOMAIN sourceSha} = {Fold[p] : p \in DOMAIN written} \cap asked.hashed
      /\ Built(asked, written, file)
  BY <1>1, <1>2, Zenon DEF WrittenInv, There
<1>4. DOMAIN written = ToSet(asked.paths)
  <2>1. asked.paths \in Seq(Path)
    BY <1>3, Zenon DEF CallFits
  <2>2. DOMAIN asked.paths = 1..position
    BY <1>1, <2>1
  <2> QED
    BY <1>3, <2>2, Zenon DEF ToSet
<1>5. Pristine(asked, written, file')
  BY <1>1, <1>3, <1>4, IndexedIsPristine
<1>6. Worn(asked, written, file')
  BY <1>3, <1>5, PristineIsWorn
<1>7. Complete'
  <2>1. file'.footer # NoFooter
    BY <1>6, Zenon DEF Worn, Laid
  <2> QED
    BY <2>1 DEF Complete
<1>8. WrittenInv'
  BY <1>1, <1>3, <1>5, <1>6, <1>7 DEF WrittenInv
<1>9. verdict = None
  BY <1>1, ResultAssumption DEF WriterInv, Untouched
<1>10. EndedInv'
  BY <1>1, <1>9, ResultAssumption DEF EndedInv
<1> QED
  BY <1>1, <1>8, <1>10 DEF WriterInv

\* A call ends with its file, or without one.
LEMMA EndKeeps ==
  ASSUME WriterInv, Untouched', Fail \/ Reopen
  PROVE  WriterInv'
<1>1. /\ asked # None /\ file # None /\ result = None
      /\ UNCHANGED <<asked, position, written, sourceSha, verdict, damage>>
  BY DEF Fail, Reopen, Writing, call
<1>2. WrittenInv /\ EndedInv
  BY <1>1, Zenon DEF WriterInv
<1>3. verdict = None
  BY <1>1, ResultAssumption DEF WriterInv, Untouched
<1>4. CASE file' = None /\ result' = "failed"
  <2>1. ~There'
    BY <1>4 DEF There
  <2>2. WrittenInv'
    BY <1>1, <1>2, <2>1 DEF WrittenInv
  <2>3. EndedInv'
    BY <1>1, <1>3, <1>4, ResultAssumption DEF EndedInv
  <2> QED
    BY <1>1, <2>2, <2>3 DEF WriterInv
<1>5. CASE Complete /\ file' = file /\ result' = "written"
  <2>1. Complete' /\ There /\ There'
    BY <1>1, <1>5 DEF Complete, There
  <2>2. WrittenInv'
    BY <1>1, <1>2, <1>5, <2>1 DEF WrittenInv
  <2>3. EndedInv'
    BY <1>1, <1>3, <1>5, <2>1, ResultAssumption DEF EndedInv
  <2> QED
    BY <1>1, <2>2, <2>3 DEF WriterInv
<1> QED
  BY <1>4, <1>5 DEF Fail, Reopen

\* What becomes of a file that is there.
LEMMA LookKeeps ==
  ASSUME WriterInv, Untouched', OpenInput \/ Verify \/ Damage \/ UNCHANGED vars
  PROVE  WriterInv'
<1>1. UNCHANGED <<asked, position, written, sourceSha>>
  BY DEF OpenInput, Verify, Damage, call, vars
<1>2. CASE OpenInput
  <2>1. asked = None /\ (result' = result \/ result' = "refused") /\ verdict' = verdict
    BY <1>2 DEF OpenInput
  <2>2. result' # "written"
    BY <2>1 DEF WriterInv
  <2> QED
    BY <1>1, <2>1, <2>2 DEF WriterInv
<1>3. CASE Verify
  <2>1. /\ result = "written" /\ verdict' = VerifyPak(file, inventory) /\ verdict = None
        /\ file' = file /\ result' = result /\ damage' = damage
    BY <1>3 DEF Verify
  <2>2. asked # None /\ WrittenInv /\ EndedInv
    BY <2>1, Zenon DEF WriterInv
  <2>3. WrittenInv'
    BY <1>1, <2>1, <2>2 DEF WrittenInv, There, Complete
  <2>4. verdict' = TRUE => OpensChecked(file)
    BY <2>1 DEF VerifyPak, OpensChecked
  <2>5. EndedInv'
    BY <2>1, <2>2, <2>4 DEF EndedInv, Complete
  <2> QED
    BY <1>1, <2>2, <2>3, <2>5 DEF WriterInv
<1>4. CASE Damage
  <2>1. /\ asked # None /\ file # None /\ verdict = None /\ Complete /\ result \in {None, "written"}
        /\ file' \in Damaged(file) /\ damage' = damage + 1 /\ result' = result /\ verdict' = verdict
    BY <1>4 DEF Damage
  <2>2. WrittenInv /\ EndedInv
    BY <2>1, Zenon DEF WriterInv
  <2>3. CallFits(asked) /\ Worn(asked, written, file) /\ position = Len(asked.paths)
    BY <2>1, <2>2 DEF WrittenInv, There
  <2>4. Worn(asked, written, file')
    BY <2>1, <2>3, DamagedIsWorn
  <2>5. Complete'
    <3>1. file'.footer # NoFooter
      BY <2>4, Zenon DEF Worn, Laid
    <3> QED
      BY <3>1 DEF Complete
  <2>6. damage' # 0
    BY <2>1 DEF WriterInv, Untouched
  <2>7. WrittenInv'
    BY <1>1, <2>2, <2>3, <2>4, <2>5, <2>6 DEF WrittenInv
  <2>8. EndedInv'
    BY <2>1, <2>2, <2>5, ResultAssumption DEF EndedInv
  <2> QED
    BY <1>1, <2>1, <2>7, <2>8 DEF WriterInv
<1>5. CASE UNCHANGED vars
  BY <1>1, <1>5 DEF WriterInv, WrittenInv, EndedInv, There, Complete, vars, call
<1> QED
  BY <1>2, <1>3, <1>4, <1>5

LEMMA WriterStep == WriterInv /\ [Next]_vars => WriterInv'
<1> SUFFICES ASSUME WriterInv, [Next]_vars PROVE WriterInv'
  OBVIOUS
<1>1. Untouched'
  <2>1. Untouched
    BY Zenon DEF WriterInv
  <2> QED
    BY <2>1, UntouchedStep
<1>2. ASSUME NEW paths \in Requests, NEW hashed \in Hashed, NEW mount \in Mounts, NEW codec \in {"none", "Oodle"},
             NEW data \in Data, Begin(paths, hashed, mount, codec, data)
      PROVE  WriterInv'
  BY <1>1, <1>2, BeginKeeps
<1>3. CASE WriteEntry
  BY <1>1, <1>3, WriteKeeps
<1>4. CASE WriteIndex
  BY <1>1, <1>4, IndexKeeps
<1>5. CASE Fail \/ Reopen
  BY <1>1, <1>5, EndKeeps
<1>6. CASE OpenInput \/ Verify \/ Damage \/ UNCHANGED vars
  BY <1>1, <1>6, LookKeeps
<1> QED
  BY <1>2, <1>3, <1>4, <1>5, <1>6 DEF Next

\* The invariant says what is promised.
LEMMA WriterHonest ==
  ASSUME WriterInv
  PROVE  WriteIsHonest
<1>1. ASSUME asked # None, There, Complete, OpensChecked(file)
      PROVE  AskedIsThere(file)
  <2>1. CallFits(asked) /\ Worn(asked, written, file)
    BY <1>1, Zenon DEF WriterInv, WrittenInv
  <2>2. FooterFits(file) /\ IndexFits(file) /\ PayloadsFit(file)
        /\ \A e \in Entries(file) : e.header.method # 0 => Decodes(file, e)
    BY <1>1, Zenon DEF OpensChecked, Opens
  <2>3. Whole(asked, written, file) /\ DetectedLayout(file) \in {100, 110}
    BY <2>1, <2>2, WornOpens
  <2>4. Reads(asked, file)
    BY <2>1, <2>2, <2>3, WholeReads
  <2> QED
    BY <2>4, Zenon DEF Reads, AskedIsThere
<1>2. None # TRUE /\ None # "written"
  BY ResultAssumption
<1>3. result = "written" => asked # None /\ There /\ Complete
  BY DEF WriterInv, EndedInv, There
<1>4. result = "written" /\ verdict = None /\ damage = 0 => AskedIsThere(file)
  <2> SUFFICES ASSUME result = "written", damage = 0 PROVE AskedIsThere(file)
    OBVIOUS
  <2>1. OpensChecked(file)
    BY DEF WriterInv, Untouched, OpensChecked
  <2> QED
    BY <1>1, <1>3, <2>1
<1>5. result = "written" => {Fold[p] : p \in DOMAIN sourceSha} = asked.hashed
  <2> SUFFICES ASSUME result = "written"
               PROVE  {Fold[p] : p \in DOMAIN sourceSha} = asked.hashed
    OBVIOUS
  <2>1. WrittenInv
    BY <1>3, Zenon DEF WriterInv
  <2>2. /\ CallFits(asked) /\ position = Len(asked.paths)
        /\ DOMAIN written = {asked.paths[i] : i \in 1..position}
        /\ {Fold[p] : p \in DOMAIN sourceSha} = {Fold[p] : p \in DOMAIN written} \cap asked.hashed
    BY <1>3, <2>1, Zenon DEF WrittenInv
  <2>3. asked.paths \in Seq(Path) /\ asked.hashed \subseteq Folded(asked.paths)
    BY <2>2, Zenon DEF CallFits
  <2>4. DOMAIN asked.paths = 1..position
    BY <2>2, <2>3
  <2>5. {Fold[p] : p \in DOMAIN written} = Folded(asked.paths)
    BY <2>2, <2>4 DEF Folded, ToSet
  <2> QED
    BY <2>2, <2>3, <2>5
<1>6. Writing /\ Complete /\ OpensChecked(file) => AskedIsThere(file)
  BY <1>1 DEF Writing, There
<1>7. Writing /\ Complete /\ damage = 0 /\ Len(asked.paths) <= EntryCountLimit => OpensChecked(file)
  <2> SUFFICES ASSUME Writing, Complete, damage = 0, Len(asked.paths) <= EntryCountLimit
               PROVE  OpensChecked(file)
    OBVIOUS
  <2>1. CallFits(asked) /\ Pristine(asked, written, file)
    BY Zenon DEF WriterInv, WrittenInv, Writing, There
  <2>2. Opens(file, TRUE)
    BY <2>1, PristineOpens
  <2> QED
    BY <2>2 DEF OpensChecked
<1>8. verdict = TRUE => AskedIsThere(file)
  <2> SUFFICES ASSUME verdict = TRUE PROVE AskedIsThere(file)
    OBVIOUS
  <2>1. asked # None
    BY <1>2 DEF WriterInv
  <2>2. result = "written" /\ OpensChecked(file)
    BY <1>2, <2>1 DEF WriterInv, EndedInv
  <2> QED
    BY <1>1, <1>3, <2>2
<1>9. result = "written" /\ damage = 0 /\ verdict # None => verdict = TRUE
  BY DEF WriterInv, Untouched
<1>10. asked # None /\ result = "failed" => file = None
  BY DEF WriterInv, EndedInv
<1> QED
  BY <1>4, <1>5, <1>6, <1>7, <1>8, <1>9, <1>10, Zenon DEF WriteIsHonest

\* What the writer says of its output is so, whatever it was asked to write and
\* however often the file was damaged (pak.rs:1618): what a call that succeeds
\* has left, and what a file that verifies later still has, are the entries it
\* was asked for with their bytes, and the digests it returns are those of the
\* paths they were wanted of.  A file that nothing touched opens again.
THEOREM WritesAreHonest == Spec => []WriteIsHonest
<1>1. Init => WriterInv
  <2> SUFFICES ASSUME Init PROVE WriterInv
    OBVIOUS
  <2>1. /\ damage = 0 /\ verdict = None /\ asked = None /\ result = None /\ position = 0
        /\ written = << >> /\ sourceSha = << >>
    BY DEF Init
  <2>2. result # "written" /\ ~Writing
    BY <2>1, ResultAssumption DEF Writing
  <2>3. Untouched
    BY <2>1, <2>2 DEF Untouched
  <2> QED
    BY <2>1, <2>2, <2>3 DEF WriterInv
<1>2. WriterInv => WriteIsHonest
  BY WriterHonest
<1> QED
  BY <1>1, <1>2, WriterStep, PTL DEF Spec
=============================================================================
