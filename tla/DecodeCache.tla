----------------------------- MODULE DecodeCache -----------------------------
(***************************************************************************)
(* The decoded-entry cache of the opened Paks and the two process-wide     *)
(* counters behind it: decoded RAM, and temporary disk space that workers  *)
(* reserved and have not written yet.                                      *)
(*                                                                         *)
(* Every compressed entry has a cell with a mutex of its own, which a      *)
(* worker holds for the whole decoding.  A worker decodes to RAM when the  *)
(* entry is small and the counter admits it, and to a temporary file       *)
(* otherwise.  Each load and each compare-exchange of a counter is a step. *)
(* External: free is what the file system reports as available space.      *)
(***************************************************************************)
EXTENDS Weights

CONSTANTS
  Worker,
  Entry,
  Size,         \* logical size of each entry
  NoOne,        \* the holder of a free mutex
  Threshold,    \* memory_entry_threshold_bytes
  MemoryLimit,  \* decoded_memory_cache_limit_bytes
  Headroom,     \* minimum_disk_headroom_bytes
  DiskSpace,    \* available space at the start
  MaxRequests   \* bound on the entries a worker asks for

ASSUME CacheAssumption ==
  /\ NoOne \notin Worker /\ IsFiniteSet(Worker) /\ IsFiniteSet(Entry)
  /\ Size \in [Entry -> Nat \ {0}]
  /\ {Threshold, MemoryLimit, Headroom, DiskSpace, MaxRequests} \subseteq Nat

VARIABLES
  cell,      \* decoded_entries: where the cached bytes of an entry are
  mutex,     \* holder of the cell's lock
  memory,    \* DECODED_CACHE_BYTES
  pending,   \* PENDING_TEMPORARY_DISK_BYTES
  free,      \* available space of the cache directory
  pc,        \* where each worker stands
  entry,     \* the entry it was asked for
  current,   \* the counter value its compare-exchange expects
  available, \* the available space it read
  remaining, \* ByteReservation.remaining of its disk reservation
  written,   \* bytes in its temporary file
  asked,     \* requests it has made
  decoded    \* history: decodings of each entry since its cell was emptied

cells == <<cell, mutex>>
counters == <<memory, pending>>
local == <<pc, entry, current, available, remaining, written, asked>>
vars == <<cells, counters, free, local, decoded>>

Goto(w, place) == pc' = [pc EXCEPT ![w] = place]
SizeOf(w) == Size[entry[w]]

Unlock(w) == mutex' = [mutex EXCEPT ![entry[w]] = NoOne]
Store(w, where) ==
  /\ cell' = [cell EXCEPT ![entry[w]] = where]
  /\ decoded' = [decoded EXCEPT ![entry[w]] = @ + 1]
-----------------------------------------------------------------------------
(***************************************************************************)
(* cached_compressed_entry                                                 *)
(***************************************************************************)
Ask(w) ==
  /\ pc[w] = "idle" /\ asked[w] < MaxRequests
  /\ asked' = [asked EXCEPT ![w] = @ + 1]
  /\ \E e \in Entry : entry' = [entry EXCEPT ![w] = e]
  /\ Goto(w, "lock")
  /\ UNCHANGED <<cells, counters, free, current, available, remaining, written, decoded>>

\* Mutant: only entries in RAM count as cached.
CachedIgnored(e) == cell[e] = "memory"
Cached(e) == cell[e] # "empty"

\* Mutant: a hit keeps the lock.
LockKeeping(w) ==
  /\ pc[w] = "lock" /\ mutex[entry[w]] = NoOne
  /\ mutex' = [mutex EXCEPT ![entry[w]] = w]
  /\ Goto(w, IF Cached(entry[w]) THEN "idle"
             ELSE IF SizeOf(w) <= Threshold THEN "memoryLoad" ELSE "diskProbe")
  /\ UNCHANGED <<cell, counters, free, entry, current, available, remaining, written,
                 asked, decoded>>

Lock(w) ==
  /\ pc[w] = "lock" /\ mutex[entry[w]] = NoOne
  /\ IF Cached(entry[w])
     THEN Goto(w, "idle") /\ UNCHANGED mutex
     ELSE /\ mutex' = [mutex EXCEPT ![entry[w]] = w]
          /\ Goto(w, IF SizeOf(w) <= Threshold THEN "memoryLoad" ELSE "diskProbe")
  /\ UNCHANGED <<cell, counters, free, entry, current, available, remaining, written,
                 asked, decoded>>

\* A cancelled or failed call before anything is reserved.
GiveUp(w) ==
  /\ pc[w] \in {"memoryLoad", "diskProbe"}
  /\ Unlock(w) /\ Goto(w, "idle")
  /\ UNCHANGED <<cell, counters, free, entry, current, available, remaining, written,
                 asked, decoded>>
-----------------------------------------------------------------------------
(***************************************************************************)
(* Decoding to RAM: try_reserve_decoded_memory                             *)
(***************************************************************************)
MemoryLoad(w) ==
  /\ pc[w] = "memoryLoad"
  /\ current' = [current EXCEPT ![w] = memory]
  /\ Goto(w, "memoryExchange")
  /\ UNCHANGED <<cells, counters, free, entry, available, remaining, written, asked, decoded>>

\* Mutant: the limit is compared with the value before the addition.
MemoryFitsBefore(w) == current[w] <= MemoryLimit
MemoryFits(w) == current[w] + SizeOf(w) <= MemoryLimit

MemoryExchange(w) ==
  /\ pc[w] = "memoryExchange"
  /\ IF ~MemoryFits(w)
     THEN Goto(w, "diskProbe") /\ UNCHANGED <<memory, current>>
     ELSE IF memory = current[w]
     THEN memory' = current[w] + SizeOf(w) /\ Goto(w, "memoryDecode") /\ UNCHANGED current
     ELSE current' = [current EXCEPT ![w] = memory] /\ UNCHANGED <<memory, pc>>
  /\ UNCHANGED <<cells, pending, free, entry, available, remaining, written, asked, decoded>>

\* The cached bytes keep the reservation.
MemoryDecoded(w) ==
  /\ pc[w] = "memoryDecode"
  /\ Store(w, "memory") /\ Unlock(w) /\ Goto(w, "idle")
  /\ UNCHANGED <<counters, free, entry, current, available, remaining, written, asked>>

\* A cancelled or failed decoding drops its reservation.
MemoryFailed(w) ==
  /\ pc[w] = "memoryDecode"
  /\ memory' = memory - SizeOf(w)
  /\ Unlock(w) /\ Goto(w, "idle")
  /\ UNCHANGED <<cell, pending, free, entry, current, available, remaining, written,
                 asked, decoded>>

\* Mutant: the fall-through to disk keeps the RAM reservation.
MemoryUnavailableKeeping(w) ==
  /\ pc[w] = "memoryDecode"
  /\ Goto(w, "diskProbe")
  /\ UNCHANGED <<cells, counters, free, entry, current, available, remaining, written,
                 asked, decoded>>

\* The allocator refuses: the entry falls through to a temporary file.
MemoryUnavailable(w) ==
  /\ pc[w] = "memoryDecode"
  /\ memory' = memory - SizeOf(w)
  /\ Goto(w, "diskProbe")
  /\ UNCHANGED <<cells, pending, free, entry, current, available, remaining, written,
                 asked, decoded>>
-----------------------------------------------------------------------------
(***************************************************************************)
(* Decoding to a temporary file: reserve_temporary_disk                    *)
(***************************************************************************)
DiskProbe(w) ==
  /\ pc[w] = "diskProbe"
  /\ available' = [available EXCEPT ![w] = free]
  /\ Goto(w, "diskLoad")
  /\ UNCHANGED <<cells, counters, free, entry, current, remaining, written, asked, decoded>>

DiskLoad(w) ==
  /\ pc[w] = "diskLoad"
  /\ current' = [current EXCEPT ![w] = pending]
  /\ Goto(w, "diskExchange")
  /\ UNCHANGED <<cells, counters, free, entry, available, remaining, written, asked, decoded>>

\* saturating_sub
Effective(w) == IF available[w] >= current[w] THEN available[w] - current[w] ELSE 0

\* A shortage is an error of the call.
DiskExchange(w) ==
  /\ pc[w] = "diskExchange"
  /\ IF Effective(w) < SizeOf(w) + Headroom
     THEN Unlock(w) /\ Goto(w, "idle") /\ UNCHANGED <<pending, current, remaining>>
     ELSE IF pending = current[w]
     THEN /\ pending' = current[w] + SizeOf(w)
          /\ remaining' = [remaining EXCEPT ![w] = SizeOf(w)]
          /\ Goto(w, "write")
          /\ UNCHANGED <<mutex, current>>
     ELSE current' = [current EXCEPT ![w] = pending] /\ UNCHANGED <<mutex, pending, pc, remaining>>
  /\ UNCHANGED <<cell, memory, free, entry, available, written, asked, decoded>>

\* One unit of the file reaches the disk, and then leaves the reservation.
WriteBytes(w) ==
  /\ pc[w] = "write" /\ written[w] < SizeOf(w) /\ free > 0
  /\ free' = free - 1
  /\ written' = [written EXCEPT ![w] = @ + 1]
  /\ Goto(w, "record")
  /\ UNCHANGED <<cells, counters, entry, current, available, remaining, asked, decoded>>

RecordMaterialized(w) ==
  /\ pc[w] = "record"
  /\ pending' = pending - 1
  /\ remaining' = [remaining EXCEPT ![w] = @ - 1]
  /\ Goto(w, "write")
  /\ UNCHANGED <<cells, memory, free, entry, current, available, written, asked, decoded>>

DiskDecoded(w) ==
  /\ pc[w] = "write" /\ written[w] = SizeOf(w)
  /\ Store(w, "disk") /\ Unlock(w) /\ Goto(w, "idle")
  /\ written' = [written EXCEPT ![w] = 0]
  /\ UNCHANGED <<counters, free, entry, current, available, remaining, asked>>

\* Mutant: the whole reservation is given back, recorded bytes included.
ReleasedWhole(w) == SizeOf(w)
Released(w) == remaining[w]

\* Cancelled, corrupt, or no space left: the file and the rest of its
\* reservation are dropped.
DiskFailed(w) ==
  /\ pc[w] \in {"write", "record"}
  /\ pending' = pending - Released(w)
  /\ remaining' = [remaining EXCEPT ![w] = 0]
  /\ free' = free + written[w]
  /\ written' = [written EXCEPT ![w] = 0]
  /\ Unlock(w) /\ Goto(w, "idle")
  /\ UNCHANGED <<cell, memory, entry, current, available, asked, decoded>>
-----------------------------------------------------------------------------
\* release_decoded_cache, one cell at a time: a merge has been installed.
ReleaseCell(e) ==
  /\ mutex[e] = NoOne /\ Cached(e)
  /\ cell' = [cell EXCEPT ![e] = "empty"]
  /\ memory' = IF cell[e] = "memory" THEN memory - Size[e] ELSE memory
  /\ free' = IF cell[e] = "disk" THEN free + Size[e] ELSE free
  /\ decoded' = [decoded EXCEPT ![e] = 0]
  /\ UNCHANGED <<mutex, pending, local>>

Init ==
  /\ cell = [e \in Entry |-> "empty"]
  /\ mutex = [e \in Entry |-> NoOne]
  /\ memory = 0 /\ pending = 0 /\ free = DiskSpace
  /\ pc = [w \in Worker |-> "idle"]
  /\ entry \in [Worker -> Entry]
  /\ current = [w \in Worker |-> 0]
  /\ available = [w \in Worker |-> 0]
  /\ remaining = [w \in Worker |-> 0]
  /\ written = [w \in Worker |-> 0]
  /\ asked = [w \in Worker |-> 0]
  /\ decoded = [e \in Entry |-> 0]

Step(w) ==
  \/ Lock(w)
  \/ GiveUp(w)
  \/ MemoryLoad(w)
  \/ MemoryExchange(w)
  \/ MemoryDecoded(w)
  \/ MemoryFailed(w)
  \/ MemoryUnavailable(w)
  \/ DiskProbe(w)
  \/ DiskLoad(w)
  \/ DiskExchange(w)
  \/ WriteBytes(w)
  \/ RecordMaterialized(w)
  \/ DiskDecoded(w)
  \/ DiskFailed(w)

Next ==
  \/ \E w \in Worker : Ask(w) \/ Step(w)
  \/ \E e \in Entry : ReleaseCell(e)

Spec == Init /\ [][Next]_vars

\* Threads run.  The mutex need not be fair: requests are finite in number.
FairSpec == Spec /\ \A w \in Worker : WF_vars(Step(w))
-----------------------------------------------------------------------------
(***************************************************************************)
(* Properties                                                              *)
(***************************************************************************)
Places == {"idle", "lock", "memoryLoad", "memoryExchange", "memoryDecode", "diskProbe",
           "diskLoad", "diskExchange", "write", "record"}

\* Type invariant; a counter below zero would be a wrapped u64.
TypeOK ==
  /\ cell \in [Entry -> {"empty", "memory", "disk"}]
  /\ mutex \in [Entry -> Worker \cup {NoOne}]
  /\ memory \in Nat /\ pending \in Nat /\ free \in Nat
  /\ pc \in [Worker -> Places]
  /\ entry \in [Worker -> Entry]
  /\ current \in [Worker -> Nat]
  /\ available \in [Worker -> Nat]
  /\ remaining \in [Worker -> Nat]
  /\ written \in [Worker -> Nat]
  /\ asked \in [Worker -> 0..MaxRequests]
  /\ decoded \in [Entry -> Nat]

\* The RAM of cached entries stays within its budget, however the loads and
\* exchanges of the workers interleave.
MemoryWithinLimit == memory <= MemoryLimit

InRam == {e \in Entry : cell[e] = "memory"}
DecodingToRam == {w \in Worker : pc[w] = "memoryDecode"}
Writing == {w \in Worker : pc[w] \in {"write", "record"}}

\* No reservation is lost or dropped twice: each counter is the sum of what is
\* reserved by the cached entries and by the decodings under way.
CountersMatchReservations ==
  /\ memory = Weight(Size, InRam) + Weight([w \in Worker |-> SizeOf(w)], DecodingToRam)
  /\ pending = Weight(remaining, Worker)

\* "The same file is guaranteed to be expanded only once": until its cell is
\* emptied, an entry is decoded at most once.
ExpandedOnce == \A e \in Entry : decoded[e] <= 1

\* Every request is answered: no worker waits for a cell for ever.
RequestsEnd == \A w \in Worker : pc[w] = "lock" ~> pc[w] = "idle"

\* "Capacity held until a decoded temporary file reaches the filesystem": what
\* the workers have reserved and not written yet is still free.
ReservedSpaceIsFree ==
  Weight([w \in Worker |-> SizeOf(w) - written[w]], Writing) <= free
=============================================================================
