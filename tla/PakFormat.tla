------------------------------ MODULE PakFormat ------------------------------
(***************************************************************************)
(* Pak archives as Pak Merger reads and writes them: the strict reader of    *)
(* src/src/pak.rs, the second reader, the writer and the decoders of the     *)
(* vendored repak, as operators on a file.                                   *)
(*                                                                           *)
(* A file is [at, end, footer].  "at" says what starts at an offset, with    *)
(* its size; a read that does not meet a thing at its own offset and size    *)
(* reads bytes that parse as nothing.  "end" is where the footer starts.     *)
(* The digest of something is the thing itself: SHA-1, SHA-256 and the path  *)
(* hash are taken to be injective.  Errors are not told apart: a file opens  *)
(* or it does not.  The index regions are one unit long.                     *)
(***************************************************************************)
EXTENDS Integers, Sequences, FiniteSets, SequencesExt

CONSTANTS
  Path,              \* the entry paths, as they may be written in an archive
  Parts,             \* a path's components: "name", or a kind that is refused
  Key,               \* a path in lower case
  Fold,              \* the key of a path
  PathRank, KeyRank, \* the byte order of paths, and of keys
  Base, Extension,   \* the package a path belongs to, and its extension
  BinaryAssets,      \* contents that are a well-formed BinaryAsset
  TaggedHeaders,     \* contents that start with the Unreal package tag
  Align, Codes,      \* 2 KiB and 64: the unit and the codes of a block size
  DefaultBlock,      \* COMPRESSION_BLOCK_SIZE
  BlockLimit,        \* MAX_COMPRESSION_BLOCKS of the writer
  EntryLimit,        \* the largest entry that is written
  EntryCountLimit,   \* MAX_ENTRY_COUNT
  LogicalThreshold, StoredThreshold  \* above them a block is decoded directly

ASSUME PakAssumption ==
  /\ Fold \in [Path -> Key] /\ Base \in [Path -> Key]
  /\ PathRank \in [Path -> Nat] /\ KeyRank \in [Key -> Nat]
  /\ \A p, q \in Path : PathRank[p] = PathRank[q] => p = q
  /\ \A k, l \in Key : KeyRank[k] = KeyRank[l] => k = l
  /\ Align \in Nat \ {0} /\ Codes \in Nat \ {0}
  /\ {DefaultBlock, BlockLimit} \subseteq Nat \ {0} /\ DefaultBlock % Align = 0
  /\ EntryCountLimit \in Nat

-----------------------------------------------------------------------------
(* Names.                                                                   *)

\* normalize_entry_path: refused when empty, absolute or with a component
\* that is empty, a dot, or holds a backslash, a colon or a control character.
SafePath(p) == Parts[p] # << >> /\ \A i \in DOMAIN Parts[p] : Parts[p][i] = "name"

\* normalize_mount_point: ".." may stand in it; a final slash is added.
SafeMount(m) ==
  /\ m.parts # << >> /\ m.parts[1] # "device"
  /\ \A i \in DOMAIN m.parts : m.parts[i] \notin {"empty", "bad"}
NormalMount(m) == [m EXCEPT !.slash = TRUE]

\* fnv64_path: over the path in lower case, with the seed of the archive.
PathHash(p, seed) == <<Fold[p], seed>>

\* PackageComponent::from_path.
PackageExtensions == {"uasset", "uexp", "ubulk", "uptnl"}
\* group_packages: the packages of a list of paths; the other entries are loose.
Grouped(paths) ==
  LET inPackage == {p \in paths : Extension[p] \in PackageExtensions}
  IN [packages |-> {[base |-> b, paths |-> {p \in inPackage : Base[p] = b},
                     complete |-> \E p \in inPackage : Base[p] = b /\ Extension[p] = "uasset"]
                     : b \in {Base[p] : p \in inPackage}},
      loose |-> paths \ inPackage]

-----------------------------------------------------------------------------
(* Layouts: the version times ten; 80 and 85 are the two forms of version 8. *)

Layout == {0, 10, 20, 30, 40, 50, 60, 70, 80, 85, 90, 100, 110}
Major(l) == l \div 10
SlotCount(l) == IF l < 80 THEN 0 ELSE IF l < 85 THEN 4 ELSE 5
\* What a footer holds besides the index region, and so how long it is.
FooterShape(l) == <<Major(l) >= 7, Major(l) >= 4, Major(l) = 9, SlotCount(l)>>

Codec == {"Zlib", "Gzip", "Zstd", "LZ4", "Oodle"}
\* read_footer: the layouts whose magic is where the file has it and whose
\* version is the one it records.
Recognized(f) ==
  {l \in Layout : FooterShape(l) = f.footer.shape /\ Major(l) = f.footer.version}
DetectedLayout(f) == CHOOSE l \in Recognized(f) : TRUE

\* parse_footer.  A name that goes on after its end is "dirty".
FooterFits(f) ==
  /\ Cardinality(Recognized(f)) = 1
  /\ f.footer.encrypted = 0 /\ f.footer.frozen = 0
  /\ \A i \in DOMAIN f.footer.names : f.footer.names[i] # "dirty"
  /\ f.footer.index.size > 0
  /\ f.footer.index.offset + f.footer.index.size <= f.end
SlotNames(f) ==
  IF DetectedLayout(f) < 80 THEN <<"Zlib", "Gzip", "Oodle">> ELSE f.footer.names

\* validate_compression_method, compression_method_name.  Method 0 is stored.
MethodKnown(f, method) ==
  method = 0 \/ (method \in DOMAIN SlotNames(f) /\ SlotNames(f)[method] \in Codec)
MethodName(f, method) == IF method = 0 THEN "none" ELSE SlotNames(f)[method]

-----------------------------------------------------------------------------
(* What is at an offset.                                                    *)

With(f, x, value) == [y \in DOMAIN f \cup {x} |-> IF y = x THEN value ELSE f[y]]
Place(at, offset, size, body) == With(at, offset, [size |-> size, body |-> body])
Holds(f, offset, size, kind) ==
  /\ offset \in DOMAIN f.at
  /\ f.at[offset].size = size /\ f.at[offset].body.kind = kind
\* read_region_verified.
RegionFits(f, region, kind) ==
  /\ region.size > 0 /\ region.offset + region.size <= f.end
  /\ Holds(f, region.offset, region.size, kind)
  /\ f.at[region.offset].body = region.sha
Region(f, region) == f.at[region.offset].body

\* A byte of a payload: a plain one, or a compressed block in one piece.
Plain(data) == [i \in DOMAIN data |-> [codec |-> "none", plain |-> <<data[i]>>]]
Packed(codec, chunk) == [codec |-> codec, plain |-> chunk]
Noise == [codec |-> "noise", plain |-> << >>]
Bytes(f, start, stop) ==
  LET around == {o \in DOMAIN f.at : /\ f.at[o].body.kind = "payload"
                                     /\ o <= start /\ stop <= o + f.at[o].size}
  IN IF around = {} THEN [i \in 1..(stop - start) |-> Noise]
     ELSE LET o == CHOOSE o \in around : TRUE
          IN SubSeq(f.at[o].body.bytes, start - o + 1, stop - o)

CeilDiv(a, b) == (a + b - 1) \div b
Least(a, b) == IF a < b THEN a ELSE b
Greatest(a, b) == IF a > b THEN a ELSE b
Total(sizes) == FoldSeq(+, 0, sizes)

-----------------------------------------------------------------------------
(* Entry headers, in front of each payload and in the index before v10:      *)
(* [offset, stored, size, method, time, sha, blocks, flags, blockSize].      *)

\* serialized_entry_header_size.
HeaderSize(l, method, blocks) ==
  24 + (IF l = 80 THEN 1 ELSE 4) + (IF Major(l) = 1 THEN 8 ELSE 0) + 20
     + (IF Major(l) >= 3 /\ method # 0 THEN 4 + 16 * blocks ELSE 0)
     + (IF Major(l) >= 3 THEN 5 ELSE 0)

\* parse_legacy_entry.  Flag 1 is encryption, 2 a delete record.
HeaderFits(f, h) ==
  LET major == Major(DetectedLayout(f))
  IN /\ MethodKnown(f, h.method)
     /\ h.method = 0 => h.stored = h.size
     /\ major >= 3 => /\ h.flags = 0
                      /\ h.method = 0 => h.blockSize = 0
                      /\ h.method # 0 /\ Len(h.blocks) > 1 => h.blockSize # 0

\* validate_compression_blocks.
BlocksFit(f, h, at, headerSize) ==
  LET major == Major(DetectedLayout(f))
      first == IF major >= 5 THEN headerSize ELSE at + headerSize
  IN IF h.method = 0 THEN h.blocks = << >> /\ h.stored = h.size
     ELSE IF major < 3 THEN h.blocks = << >>
     ELSE /\ h.blocks # << >>
          /\ \A i \in DOMAIN h.blocks :
               /\ h.blocks[i].start = IF i = 1 THEN first ELSE h.blocks[i - 1].end
               /\ h.blocks[i].end >= h.blocks[i].start
          /\ h.blocks[Len(h.blocks)].end - first = h.stored
BlockSizes(h) == [i \in DOMAIN h.blocks |-> h.blocks[i].end - h.blocks[i].start]

\* Where a block is in the file.
BlockStart(f, at, block) ==
  IF Major(DetectedLayout(f)) >= 5 THEN at + block.start ELSE block.start
BlockEnd(f, at, block) ==
  IF Major(DetectedLayout(f)) >= 5 THEN at + block.end ELSE block.end

-----------------------------------------------------------------------------
(* build_direct_decode_plan: whether its checks pass, and the blocks that    *)
(* are decoded from the mapping, none when the other decoder takes them.     *)

DirectFits(f, h, at, headerSize) ==
  LET start == at + headerSize
  IN MethodName(f, h.method) \in {"LZ4", "Oodle"} =>
       IF Major(DetectedLayout(f)) < 3
       THEN h.blocks = << >> /\ (h.size = 0 => h.stored = 0)
       ELSE /\ h.size > 0 /\ h.blockSize > 0
            /\ Len(h.blocks) = CeilDiv(h.size, h.blockSize)
            /\ \A i \in DOMAIN h.blocks :
                 /\ BlockStart(f, at, h.blocks[i]) >= start
                 /\ BlockEnd(f, at, h.blocks[i]) <= start + h.stored

DirectPlan(f, h, at, headerSize) ==
  LET start == at + headerSize
      whole == <<[start |-> start, end |-> start + h.stored, from |-> 0, to |-> h.size]>>
      each == [i \in DOMAIN h.blocks |->
                [start |-> BlockStart(f, at, h.blocks[i]), end |-> BlockEnd(f, at, h.blocks[i]),
                 from |-> (i - 1) * h.blockSize, to |-> Least(i * h.blockSize, h.size)]]
      plan == IF Major(DetectedLayout(f)) >= 3 THEN each
              ELSE IF h.size = 0 THEN << >> ELSE whole
  IN IF /\ MethodName(f, h.method) \in {"LZ4", "Oodle"}
        /\ \E i \in DOMAIN plan : \/ plan[i].to - plan[i].from > LogicalThreshold
                                  \/ plan[i].end - plan[i].start > StoredThreshold
     THEN plan ELSE << >>

-----------------------------------------------------------------------------
(* Compact records of the index from v10 on:                                *)
(* [at, size, stored, method, encrypted, count, code, sizes].               *)

\* The block size is a code of six bits, or the last code and the number.
SizeCode(n) == LET code == (n \div Align) % Codes
               IN IF code * Align = n /\ code # Codes - 1 THEN <<code>> ELSE <<Codes - 1, n>>
SizeOfCode(c) == IF Len(c) = 2 THEN c[2] ELSE c[1] * Align

\* parse_encoded_entry: its checks, and what it makes of a record.
StoredOf(r) == IF r.method = 0 THEN r.size ELSE r.stored
RecordSizes(r) ==
  IF r.method = 0 THEN << >>
  ELSE IF r.count = 1 /\ ~r.encrypted THEN <<r.stored>> ELSE r.sizes
RecordBlockSize(r) ==
  IF r.method # 0 /\ SizeOfCode(r.code) = 0 /\ r.count = 1 THEN r.size ELSE SizeOfCode(r.code)
RecordFits(r) ==
  /\ r.method = 0 => r.count = 0 /\ SizeOfCode(r.code) = 0
  /\ r.method # 0 => r.count > 0 /\ Len(RecordSizes(r)) = r.count
  /\ ~r.encrypted /\ Total(RecordSizes(r)) = IF r.method = 0 THEN 0 ELSE r.stored

\* validate_local_entry_header.
LocalFits(f, r) ==
  LET hs == HeaderSize(DetectedLayout(f), r.method, Len(RecordSizes(r)))
  IN /\ Holds(f, r.at, hs, "header")
     /\ LET h == f.at[r.at].body
        IN /\ HeaderFits(f, h) /\ BlocksFit(f, h, r.at, hs)
           /\ h.offset = 0 /\ h.flags = 0
           /\ h.stored = StoredOf(r) /\ h.size = r.size /\ h.method = r.method
           /\ BlockSizes(h) = RecordSizes(r) /\ h.blockSize = RecordBlockSize(r)

-----------------------------------------------------------------------------
(* The index.  Both forms give entries [path, at, header]; "header" is the   *)
(* one in front of the payload.                                             *)

Primary(f) == Region(f, f.footer.index)
EntryHeaderSize(f, e) == HeaderSize(DetectedLayout(f), e.header.method, Len(e.header.blocks))
PayloadStart(f, e) == e.at + EntryHeaderSize(f, e)
PayloadEnd(f, e) == PayloadStart(f, e) + e.header.stored

\* Mutant: the hashes of the paths are not compared.
LookupsFitUnhashed(f) ==
  LET p == Primary(f)
      hashes == Region(f, p.hashes[1])
      dir == Region(f, p.directory[1])
      offsets(s) == {s[i].record : i \in DOMAIN s}
  IN /\ p.count = Len(hashes.entries) /\ p.count = Len(dir.files)
     /\ Cardinality(offsets(hashes.entries)) = p.count /\ offsets(dir.files) = offsets(hashes.entries)
     /\ \A i \in DOMAIN dir.files : SafePath(dir.files[i].path)
     /\ Cardinality({Fold[dir.files[i].path] : i \in DOMAIN dir.files}) = p.count

\* parse_path_hash_index, parse_full_directory_index, validate_path_hashes.
LookupsFit(f) ==
  LET p == Primary(f)
      hashes == Region(f, p.hashes[1])
      dir == Region(f, p.directory[1])
      offsets(s) == {s[i].record : i \in DOMAIN s}
  IN /\ p.count = Len(hashes.entries) /\ hashes.trailing = 0
     /\ offsets(hashes.entries) \subseteq 0..(p.space - 1)
     /\ Cardinality(offsets(hashes.entries)) = p.count
     /\ p.count = Len(dir.files) /\ p.count <= EntryCountLimit
     /\ \A i \in DOMAIN dir.files : SafePath(dir.files[i].path)
     /\ Cardinality({Fold[dir.files[i].path] : i \in DOMAIN dir.files}) = p.count
     /\ offsets(dir.files) = offsets(hashes.entries)
     /\ \A i \in DOMAIN dir.files, j \in DOMAIN hashes.entries :
          dir.files[i].record = hashes.entries[j].record =>
            hashes.entries[j].hash = PathHash(dir.files[i].path, p.seed)

\* parse_and_validate_modern_indexes, up to the entries.  A region that the
\* primary index says is absent is the empty sequence.
ModernRegionsFit(f) ==
  /\ RegionFits(f, f.footer.index, "modern")
  /\ LET p == Primary(f)
         primaryEnd == f.footer.index.offset + f.footer.index.size
     IN /\ SafeMount(p.mount) /\ p.extra = 0
        /\ Len(p.hashes) = 1 /\ Len(p.directory) = 1
        /\ p.hashes[1].offset >= primaryEnd /\ p.directory[1].offset >= primaryEnd
        /\ \/ p.hashes[1].offset + p.hashes[1].size <= p.directory[1].offset
           \/ p.directory[1].offset + p.directory[1].size <= p.hashes[1].offset
        /\ RegionFits(f, p.hashes[1], "hashes") /\ RegionFits(f, p.directory[1], "directory")
RecordsFit(f) ==
  \A i \in DOMAIN Region(f, Primary(f).directory[1]).files :
    LET o == Region(f, Primary(f).directory[1]).files[i].record
    IN /\ o \in DOMAIN Primary(f).records /\ RecordFits(Primary(f).records[o])
       /\ MethodKnown(f, Primary(f).records[o].method) /\ LocalFits(f, Primary(f).records[o])
ModernEntries(f) ==
  LET files == Region(f, Primary(f).directory[1]).files
      record(i) == Primary(f).records[files[i].record]
  IN {[path |-> files[i].path, at |-> record(i).at, header |-> f.at[record(i).at].body] : i \in DOMAIN files}

\* parse_and_validate_legacy_index.
LegacyFits(f) ==
  /\ RegionFits(f, f.footer.index, "legacy")
  /\ LET p == Primary(f)
         hs(h) == HeaderSize(DetectedLayout(f), h.method, Len(h.blocks))
     IN /\ SafeMount(p.mount) /\ p.count = Len(p.entries) /\ p.count <= EntryCountLimit
        /\ \A i \in DOMAIN p.entries :
             LET h == p.entries[i].header
             IN /\ SafePath(p.entries[i].path)
                /\ HeaderFits(f, h) /\ BlocksFit(f, h, h.offset, hs(h))
                /\ Holds(f, h.offset, hs(h), "header")
                /\ f.at[h.offset].body = [h EXCEPT !.offset = 0]
        /\ Cardinality({Fold[p.entries[i].path] : i \in DOMAIN p.entries}) = p.count
LegacyEntries(f) ==
  LET p == Primary(f)
  IN {[path |-> p.entries[i].path, at |-> p.entries[i].header.offset,
       header |-> f.at[p.entries[i].header.offset].body] : i \in DOMAIN p.entries}

IsModern(f) == Major(DetectedLayout(f)) >= 10
Entries(f) == IF IsModern(f) THEN ModernEntries(f) ELSE LegacyEntries(f)
\* parse_and_validate_indexes: then each payload ends before the index, no two
\* overlap, and the direct plan of each can be made.
IndexFits(f) ==
  /\ IF IsModern(f) THEN ModernRegionsFit(f) /\ LookupsFit(f) /\ RecordsFit(f)
     ELSE LegacyFits(f)
  /\ \A e \in Entries(f) : /\ PayloadEnd(f, e) <= f.footer.index.offset
                           /\ DirectFits(f, e.header, e.at, EntryHeaderSize(f, e))
  /\ \A e, d \in Entries(f) :
       e # d => PayloadEnd(f, e) <= d.at \/ PayloadEnd(f, d) <= e.at
Seed(f) == IF IsModern(f) THEN Primary(f).seed ELSE 0

\* Pak::read of repak, the second reader: what its index says of a path.  It
\* keeps the base folder as it is written.
RepakRead(f) ==
  IF IsModern(f)
  THEN [mount |-> Primary(f).mount, seed |-> Primary(f).seed,
        files |-> {x.path : x \in ToSet(Region(f, Primary(f).directory[1]).files)}]
  ELSE [mount |-> Primary(f).mount, seed |-> 0,
        files |-> {x.path : x \in ToSet(Primary(f).entries)}]

-----------------------------------------------------------------------------
(* Payloads.                                                                *)

Payload(f, e) == Bytes(f, PayloadStart(f, e), PayloadEnd(f, e))
PayloadSound(f, e) == Payload(f, e) = e.header.sha
PlainBytes(payload) == FlattenSeq([i \in DOMAIN payload |-> payload[i].plain])

\* validate_v3_stale_binary_asset_uexp.
StaleUexp(f, e) ==
  /\ e.header.method = 0 /\ Extension[e.path] = "uexp"
  /\ PlainBytes(Payload(f, e)) \in BinaryAssets
  /\ \E d \in Entries(f) : /\ Base[d.path] = Base[e.path] /\ Extension[d.path] = "uasset"
                           /\ d.header.method = 0 /\ PayloadSound(f, d)
                           /\ PlainBytes(Payload(f, d)) \in TaggedHeaders

\* A block decodes when its codec gives exactly the bytes it declares.
BlockDecodes(f, codec, b) ==
  LET stored == Bytes(f, b.start, b.end)
  IN /\ Len(stored) = 1 /\ stored[1].codec = codec
     /\ Len(stored[1].plain) = b.to - b.from
\* Entry::compressed_blocks of repak, for the index entry it keeps: the blocks
\* of one without a list are its whole payload.
RepakBlocksFit(e) ==
  LET h == e.header
  IN IF h.size = 0 THEN h.stored = 0 /\ h.blocks = << >>
     ELSE h.blocks # << >> => /\ h.blockSize > 0
                              /\ Len(h.blocks) = CeilDiv(h.size, h.blockSize)
RepakBlocks(f, e) ==
  LET h == e.header
  IN IF h.size = 0 THEN << >>
     ELSE IF h.blocks = << >>
     THEN <<[start |-> PayloadStart(f, e), end |-> PayloadEnd(f, e), from |-> 0, to |-> h.size]>>
     ELSE [i \in DOMAIN h.blocks |->
            [start |-> BlockStart(f, e.at, h.blocks[i]), end |-> BlockEnd(f, e.at, h.blocks[i]),
             from |-> (i - 1) * h.blockSize, to |-> Least(i * h.blockSize, h.size)]]
\* decode_entry_with_progress: the direct plan where there is one.
DecodePlan(f, e) == DirectPlan(f, e.header, e.at, EntryHeaderSize(f, e))
UsesDirectPlan(f, e) == DecodePlan(f, e) # << >>
BlocksOf(f, e) == IF UsesDirectPlan(f, e) THEN DecodePlan(f, e) ELSE RepakBlocks(f, e)
Decodes(f, e) ==
  /\ UsesDirectPlan(f, e) \/ RepakBlocksFit(e)
  /\ \A i \in DOMAIN BlocksOf(f, e) :
       BlockDecodes(f, MethodName(f, e.header.method), BlocksOf(f, e)[i])
DecodedBy(f, blocks) ==
  FlattenSeq([i \in DOMAIN blocks |-> PlainBytes(Bytes(f, blocks[i].start, blocks[i].end))])

\* read_entry_to_with_options, map_entry_with_options: the bytes of an entry.
Logical(f, e) ==
  IF e.header.method = 0 THEN PlainBytes(Bytes(f, PayloadStart(f, e), PayloadStart(f, e) + e.header.size))
  ELSE DecodedBy(f, BlocksOf(f, e))

\* logical_sha256_with_options: asked for after the opening.
LogicalSha256(f, e) == IF e.header.method = 0 THEN Payload(f, e) ELSE Plain(Logical(f, e))

-----------------------------------------------------------------------------
(* open_internal_with_policy.  "strict" decodes every compressed entry.      *)

\* Mismatched payloads are let through in v3 only.
PayloadsFit(f) ==
  \A e \in Entries(f) : PayloadSound(f, e) \/ (DetectedLayout(f) = 30 /\ StaleUexp(f, e))
Opens(f, strict) ==
  /\ FooterFits(f) /\ IndexFits(f)
  /\ LET second == RepakRead(f)
     IN /\ second.mount = NormalMount(Primary(f).mount) /\ second.seed = Seed(f)
        /\ second.files = {e.path : e \in Entries(f)}
  /\ PayloadsFit(f)
  /\ strict => \A e \in Entries(f) : e.header.method # 0 => Decodes(f, e)

\* The inventory.  The digest of an entry is over its own bytes when it is
\* stored or was decoded, else over the stored ones.
Inventory(f, strict) ==
  [mount |-> NormalMount(Primary(f).mount),
   slots |-> SelectSeq(SlotNames(f), LAMBDA n : n # ""),
   entries |-> {[path |-> e.path, size |-> e.header.size, stored |-> e.header.stored,
                 compressed |-> e.header.method # 0,
                 sha256 |-> IF strict THEN LogicalSha256(f, e) ELSE Payload(f, e),
                 logical |-> e.header.method = 0 \/ strict,
                 matches |-> PayloadSound(f, e)] : e \in Entries(f)},
   packages |-> Grouped({e.path : e \in Entries(f)})]

\* contains, entry_size: an entry is found by the key of a path.
ContainsEntry(f, p) == SafePath(p) /\ \E e \in Entries(f) : Fold[e.path] = Fold[p]
EntryOf(f, p) == CHOOSE e \in Entries(f) : Fold[e.path] = Fold[p]

\* verify_pak_v11 against an inventory: its digests, sizes and base folder.
VerifyPak(f, expected) ==
  /\ Opens(f, TRUE) /\ f.footer.version = 11
  /\ LET compared(inv) ==
           <<inv.mount, inv.slots,
             {<<e.path, e.size, e.stored, e.compressed, e.sha256>> : e \in inv.entries}>>
     IN compared(Inventory(f, TRUE)) = compared(expected)

-----------------------------------------------------------------------------
(* The writer of repak.                                                     *)

\* compression_block_layout: whether there is one, and its block size.
BlockSizeFor(size) ==
  IF size = 0 THEN DefaultBlock
  ELSE CeilDiv(Greatest(CeilDiv(size, BlockLimit), DefaultBlock), Align) * Align
Chunks(data, n) ==
  [i \in 1..CeilDiv(Len(data), n) |-> SubSeq(data, (i - 1) * n + 1, Least(i * n, Len(data)))]

\* get_compression_slot for a writer with one codec: before v8 the slots are
\* fixed, from then on the codec takes the first.
SlotFor(l, codec) ==
  IF codec = "none" THEN 0
  ELSE IF l >= 80 THEN 1
  ELSE CHOOSE i \in 1..3 : <<"Zlib", "Gzip", "Oodle">>[i] = codec

\* write_compressed_file, write_uncompressed_file: the header and the payload
\* of one entry, at an offset.  The header is written twice; the second time
\* it has the sizes and the digest.
WrittenEntry(l, codec, at, data) ==
  LET n == BlockSizeFor(Len(data))
      chunks == Chunks(data, n)
      plain == codec = "none" \/ data = << >>
      payload == IF plain THEN Plain(data) ELSE [i \in DOMAIN chunks |-> Packed(codec, chunks[i])]
      method == IF plain THEN 0 ELSE SlotFor(l, codec)
      hs == HeaderSize(l, method, Len(payload))
      first == IF Major(l) < 5 THEN at + hs ELSE hs
  IN [payload |-> payload, headerSize |-> hs,
      header |-> [kind |-> "header", offset |-> 0, stored |-> Len(payload), size |-> Len(data),
                  method |-> method, time |-> 0, sha |-> payload,
                  blocks |-> IF plain \/ Major(l) < 3 THEN << >>
                             ELSE [i \in DOMAIN payload |-> [start |-> first + i - 1, end |-> first + i]],
                  flags |-> 0,
                  blockSize |-> IF plain \/ Major(l) < 3 THEN 0
                                ELSE IF Len(payload) = 1 THEN Len(data) ELSE n]]
Appended(l, codec, f, data) ==
  LET w == WrittenEntry(l, codec, f.end, data)
  IN [f EXCEPT !.at = Place(Place(@, f.end, w.headerSize, w.header),
                            f.end + w.headerSize, Len(w.payload),
                            [kind |-> "payload", bytes |-> w.payload]),
               !.end = @ + w.headerSize + Len(w.payload)]

\* Entry::write_encoded.
Encoded(at, h) ==
  [at |-> at, size |-> h.size, stored |-> h.stored, method |-> h.method, encrypted |-> FALSE,
   count |-> Len(h.blocks), code |-> SizeCode(h.blockSize),
   sizes |-> IF Len(h.blocks) > 1 THEN BlockSizes(h) ELSE << >>]

\* generate_path_hash_index, generate_full_directory_index: of the paths in
\* their order; the record of the i-th is the i-th.
PathHashIndex(paths) ==
  [kind |-> "hashes", trailing |-> 0,
   entries |-> [i \in DOMAIN paths |-> [hash |-> PathHash(paths[i], 0), record |-> i - 1]]]
DirectoryIndex(paths) ==
  [kind |-> "directory", files |-> [i \in DOMAIN paths |-> [path |-> paths[i], record |-> i - 1]]]

\* Footer::write.
Footer(l, names, region) ==
  [shape |-> FooterShape(l), version |-> Major(l), encrypted |-> 0, frozen |-> 0,
   names |-> names, index |-> region]

\* What is in a set, in the order of its ranks: a BTreeMap of repak, a sort.
InOrder(S, rank) ==
  CHOOSE s \in Bijection(1..Cardinality(S), S) :
    \A i, j \in 1..Cardinality(S) : i < j => rank[s[i]] <= rank[s[j]]
\* Pak::write: the index after the last payload, then the footer.  "index"
\* maps each path to where its header is.
Indexed(l, f, index, mount, names) ==
  LET paths == InOrder(DOMAIN index, PathRank)
      header(p) == f.at[index[p]].body
      region(offset, body) == [offset |-> offset, size |-> 1, sha |-> body]
      legacy == [kind |-> "legacy", mount |-> mount, count |-> Len(paths),
                 entries |-> [i \in DOMAIN paths |->
                   [path |-> paths[i], header |-> [header(paths[i]) EXCEPT !.offset = index[paths[i]]]]]]
      modern == [kind |-> "modern", mount |-> mount, count |-> Len(paths), seed |-> 0,
                 hashes |-> <<region(f.end + 1, PathHashIndex(paths))>>,
                 directory |-> <<region(f.end + 2, DirectoryIndex(paths))>>,
                 space |-> Len(paths), extra |-> 0,
                 records |-> [o \in 0..(Len(paths) - 1) |-> Encoded(index[paths[o + 1]], header(paths[o + 1]))]]
      primary == IF l < 100 THEN legacy ELSE modern
      placed == Place(f.at, f.end, 1, primary)
  IN [at |-> IF l < 100 THEN placed
             ELSE Place(Place(placed, f.end + 1, 1, PathHashIndex(paths)), f.end + 2, 1, DirectoryIndex(paths)),
      end |-> f.end + IF l < 100 THEN 1 ELSE 3,
      footer |-> Footer(l, names, region(f.end, primary))]

NoFooter == [shape |-> <<FALSE, FALSE, FALSE, 0>>, version |-> -1, encrypted |-> 0,
             frozen |-> 0, names |-> << >>, index |-> [offset |-> 0, size |-> 0]]
EmptyFile == [at |-> << >>, end |-> 0, footer |-> NoFooter]
SlotNamesFor(l, codec) ==
  [i \in 1..SlotCount(l) |-> IF i = 1 /\ codec # "none" THEN codec ELSE ""]
=============================================================================
