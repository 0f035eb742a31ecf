--------------------------- MODULE OutputInstall ---------------------------
(***************************************************************************)
(* How a merge reaches its output path: the temporary job directory of a   *)
(* write, the verified partial Pak in it, its installation by one rename,  *)
(* or by a journaled sidecar copy when the output is on another volume,    *)
(* and the cleanup with which every process starts.                        *)
(*                                                                         *)
(* A launch is the life of one process, which makes one write.  Launches   *)
(* share the temporary directory and the output path; any of them may be   *)
(* killed at any step, and another program may touch the output.           *)
(* External: the file system, file locks and the names made by tempfile,   *)
(* which are never used twice.  Renames are those of the Windows build.    *)
(***************************************************************************)
EXTENDS Naturals, Sequences, FiniteSets

CONSTANTS
  Launch,      \* process lives
  NoOne,       \* the holder of a free lock
  MaxEdits,    \* bound on what another program does to the output
  MaxCrashes   \* bound on killed processes

ASSUME InstallAssumption ==
  NoOne \notin Launch /\ MaxEdits \in Nat /\ MaxCrashes \in Nat

VARIABLES
  pc,          \* where each launch stands
  owned,       \* what a write drops when it returns, oldest first
  target,      \* the file at the output path
  stamp,       \* existing_output: the OutputTargetStamp each write captured
  direct,      \* direct_output_install: one volume holds both paths
  dir,         \* job directory of each launch
  partial,     \* a verified partial Pak is in the job directory
  marker,      \* holder of the lock on the directory's ownership file
  sidecar,     \* the copy beside the output
  journal,     \* its install journal in the temporary directory
  jlock,       \* holder of the lock on the journal
  todo,        \* directory entries the cleanup has still to visit
  at,          \* the entry it is removing
  result,      \* what the write returned
  installed,   \* history: launches whose rename succeeded
  late,        \* history: launches whose target changed after their last check
  edits, crashes

job == <<dir, partial, marker>>
copy == <<sidecar, journal, jlock>>
cleanup == <<todo, at>>
history == <<installed, late>>
bounds == <<edits, crashes>>
vars == <<pc, owned, target, stamp, direct, job, copy, cleanup, result, history, bounds>>

\* len, modified and readonly of a file: every write to a file changes them.
NoFile == [kind |-> "none", tag |-> 0]
UserFile(n) == [kind |-> "user", tag |-> n]
Merged(l) == [kind |-> "merged", tag |-> l]
Broken(l) == [kind |-> "broken", tag |-> l]

Goto(l, place) == pc' = [pc EXCEPT ![l] = place]
\* Mutant: the journal is no temporary file.
OwnNoJournal(l, things) ==
  owned' = [owned EXCEPT ![l] = IF things = <<"journal">> THEN @ ELSE @ \o things]
Own(l, things) == owned' = [owned EXCEPT ![l] = @ \o things]

\* The call returns r: what it owns is dropped next.
Return(l, r) ==
  /\ Goto(l, "unwind")
  /\ result' = [result EXCEPT ![l] = r]

\* A change of the output is late for the launches that are past their check.
AtRename == {"rename", "renameSidecar"}
Touch(file, who) ==
  /\ target' = file
  /\ late' = late \cup {l \in Launch \ who : pc[l] \in AtRename}
-----------------------------------------------------------------------------
(***************************************************************************)
(* Start of a write, and the cleanup of the first runtime_temp_directory   *)
(***************************************************************************)
\* capture_output_target: an existing output needs overwrite_existing.
CaptureTarget(l) ==
  /\ pc[l] = "off"
  /\ \E overwrite \in BOOLEAN :
       IF target # NoFile /\ ~overwrite
       THEN Return(l, "error") /\ UNCHANGED stamp
       ELSE /\ Goto(l, "scan")
            /\ stamp' = [stamp EXCEPT ![l] = target]
            /\ UNCHANGED result
  /\ UNCHANGED <<owned, target, direct, job, copy, cleanup, history, bounds>>

\* Mutant: install journals are not visited.
EntriesJobsOnly == {"job"} \X {m \in Launch : dir[m] # "absent"}

Entries == ({"job"} \X {m \in Launch : dir[m] # "absent"})
           \cup ({"journal"} \X {m \in Launch : journal[m] # "absent"})

\* read_dir of cleanup_stale_runtime_artifacts
Scan(l) ==
  /\ pc[l] = "scan"
  /\ todo' = [todo EXCEPT ![l] = Entries]
  /\ Goto(l, "clean")
  /\ UNCHANGED <<owned, target, stamp, direct, job, copy, at, result, history, bounds>>

\* Mutant: the entry is taken for its path.
VisitEntry(l, e, place) ==
  /\ pc[l] = "clean" /\ e \in todo[l]
  /\ todo' = [todo EXCEPT ![l] = @ \ {e}]
  /\ at' = [at EXCEPT ![l] = IF place = "clean" THEN NoOne ELSE e]
  /\ Goto(l, place)

Visit(l, e, place) ==
  /\ pc[l] = "clean" /\ e \in todo[l]
  /\ todo' = [todo EXCEPT ![l] = @ \ {e}]
  /\ at' = [at EXCEPT ![l] = IF place = "clean" THEN NoOne ELSE e[2]]
  /\ Goto(l, place)

Abandoned(m) == dir[m] = "marked" /\ marker[m] = NoOne

\* cleanup_abandoned_job_directory: a marker that can be locked has no owner.
ProbeJob(l, m) ==
  /\ Visit(l, <<"job", m>>, IF Abandoned(m) THEN "releaseJob" ELSE "clean")
  /\ marker' = IF Abandoned(m) THEN [marker EXCEPT ![m] = l] ELSE marker
  /\ UNCHANGED <<owned, target, stamp, direct, dir, partial, copy, result, history, bounds>>

\* The probe's lock is given back before the directory is removed.
ReleaseJob(l) ==
  /\ pc[l] = "releaseJob"
  /\ marker' = [marker EXCEPT ![at[l]] = NoOne]
  /\ Goto(l, "removeJob")
  /\ UNCHANGED <<owned, target, stamp, direct, dir, partial, copy, cleanup, result, history, bounds>>

RemoveJob(l) ==
  /\ pc[l] = "removeJob"
  /\ dir' = [dir EXCEPT ![at[l]] = "absent"]
  /\ partial' = [partial EXCEPT ![at[l]] = FALSE]
  /\ at' = [at EXCEPT ![l] = NoOne]
  /\ Goto(l, "clean")
  /\ UNCHANGED <<owned, target, stamp, direct, marker, copy, todo, result, history, bounds>>

\* Mutant: the journal's lock is not tried.
UnlockedAny(m) == journal[m] # "absent"
Unlocked(m) == journal[m] # "absent" /\ jlock[m] = NoOne

\* cleanup_abandoned_install_journal
ProbeJournal(l, m) ==
  /\ Visit(l, <<"journal", m>>, IF Unlocked(m) THEN "readJournal" ELSE "clean")
  /\ jlock' = IF Unlocked(m) THEN [jlock EXCEPT ![m] = l] ELSE jlock
  /\ UNCHANGED <<owned, target, stamp, direct, job, sidecar, journal, result, history, bounds>>

\* Mutant: the early return keeps the lock.
ReadJournalKeepingLock(l) ==
  /\ pc[l] = "readJournal"
  /\ IF journal[at[l]] = "named"
     THEN /\ sidecar' = [sidecar EXCEPT ![at[l]] = "absent"]
          /\ jlock' = [jlock EXCEPT ![at[l]] = NoOne]
          /\ Goto(l, "removeJournal") /\ UNCHANGED at
     ELSE /\ at' = [at EXCEPT ![l] = NoOne]
          /\ Goto(l, "clean") /\ UNCHANGED <<sidecar, jlock>>
  /\ UNCHANGED <<owned, target, stamp, direct, job, journal, todo, result, history, bounds>>

\* An unfinished record is left where it is.
ReadJournal(l) ==
  /\ pc[l] = "readJournal"
  /\ jlock' = [jlock EXCEPT ![at[l]] = NoOne]
  /\ IF journal[at[l]] = "named"
     THEN /\ sidecar' = [sidecar EXCEPT ![at[l]] = "absent"]
          /\ Goto(l, "removeJournal") /\ UNCHANGED at
     ELSE /\ at' = [at EXCEPT ![l] = NoOne]
          /\ Goto(l, "clean") /\ UNCHANGED sidecar
  /\ UNCHANGED <<owned, target, stamp, direct, job, journal, todo, result, history, bounds>>

RemoveJournal(l) ==
  /\ pc[l] = "removeJournal"
  /\ journal' = [journal EXCEPT ![at[l]] = "absent"]
  /\ at' = [at EXCEPT ![l] = NoOne]
  /\ Goto(l, "clean")
  /\ UNCHANGED <<owned, target, stamp, direct, job, sidecar, jlock, todo, result, history, bounds>>

FinishCleanup(l) ==
  /\ pc[l] = "clean" /\ todo[l] = {}
  /\ Goto(l, "makeDir")
  /\ UNCHANGED <<owned, target, stamp, direct, job, copy, cleanup, result, history, bounds>>
-----------------------------------------------------------------------------
(***************************************************************************)
(* The job directory and the partial Pak: write_opened_with_progress       *)
(***************************************************************************)
MakeDir(l) ==
  /\ pc[l] = "makeDir"
  /\ dir' = [dir EXCEPT ![l] = "unmarked"]
  /\ Own(l, <<"dir">>)
  /\ Goto(l, "createMarker")
  /\ UNCHANGED <<target, stamp, direct, partial, marker, copy, cleanup, result, history, bounds>>

\* lock_runtime_job_directory: create_new, and then lock_exclusive
CreateMarker(l) ==
  /\ pc[l] = "createMarker"
  /\ dir' = [dir EXCEPT ![l] = "marked"]
  /\ Goto(l, "lockMarker")
  /\ UNCHANGED <<owned, target, stamp, direct, partial, marker, copy, cleanup, result, history, bounds>>

\* lock_exclusive waits for the lock, whatever the token says.
Waiting(l) == \/ pc[l] = "lockMarker" /\ marker[l] # NoOne
              \/ pc[l] = "writeJournal" /\ jlock[l] # NoOne

LockMarker(l) ==
  /\ pc[l] = "lockMarker" /\ ~Waiting(l)
  /\ marker' = [marker EXCEPT ![l] = l]
  /\ Own(l, <<"lock">>)
  /\ Goto(l, "build")
  /\ UNCHANGED <<target, stamp, direct, dir, partial, copy, cleanup, result, history, bounds>>

\* The staged databases, the Pak writer and its verification need the directory.
BuildPartial(l) ==
  /\ pc[l] = "build" /\ dir[l] # "absent"
  /\ partial' = [partial EXCEPT ![l] = TRUE]
  /\ Own(l, <<"partial">>)
  /\ Goto(l, "install")
  /\ UNCHANGED <<target, stamp, direct, dir, marker, copy, cleanup, result, history, bounds>>

\* ensure_output_target_unchanged of install_verified_output
CheckTarget(l) ==
  /\ pc[l] = "install"
  /\ IF target # stamp[l] THEN Return(l, "error")
     ELSE Goto(l, IF direct THEN "rename" ELSE "createSidecar") /\ UNCHANGED result
  /\ UNCHANGED <<owned, target, stamp, direct, job, copy, cleanup, history, bounds>>

\* MoveFileExW gets MOVEFILE_REPLACE_EXISTING only for a confirmed output.
\* Mutant: it always does.
MayMoveAlways(l) == TRUE
MayMove(l) == target # NoFile => stamp[l] # NoFile

RenamePartial(l) ==
  /\ pc[l] = "rename"
  /\ IF partial[l] /\ MayMove(l)
     THEN /\ Touch(Merged(l), {l})
          /\ partial' = [partial EXCEPT ![l] = FALSE]
          /\ installed' = installed \cup {l}
          /\ Return(l, "ok")
     ELSE Return(l, "error") /\ UNCHANGED <<target, partial, history>>
  /\ UNCHANGED <<owned, stamp, direct, dir, marker, copy, cleanup, bounds>>
-----------------------------------------------------------------------------
(***************************************************************************)
(* Another volume: copy_verified_output_to_sidecar                         *)
(***************************************************************************)
CreateSidecar(l) ==
  /\ pc[l] = "createSidecar"
  /\ sidecar' = [sidecar EXCEPT ![l] = "empty"]
  /\ Own(l, <<"sidecar">>)
  /\ Goto(l, "createJournal")
  /\ UNCHANGED <<target, stamp, direct, job, journal, jlock, cleanup, result, history, bounds>>

\* register_install_sidecar
CreateJournal(l) ==
  /\ pc[l] = "createJournal"
  /\ journal' = [journal EXCEPT ![l] = "empty"]
  /\ Own(l, <<"journal">>)
  /\ Goto(l, "writeJournal")
  /\ UNCHANGED <<target, stamp, direct, job, sidecar, jlock, cleanup, result, history, bounds>>

WriteJournal(l) ==
  /\ pc[l] = "writeJournal" /\ ~Waiting(l)
  /\ jlock' = [jlock EXCEPT ![l] = l]
  /\ journal' = [journal EXCEPT ![l] = "named"]
  /\ Goto(l, "openPartial")
  /\ UNCHANGED <<owned, target, stamp, direct, job, sidecar, cleanup, result, history, bounds>>

OpenPartial(l) ==
  /\ pc[l] = "openPartial" /\ partial[l]
  /\ sidecar' = [sidecar EXCEPT ![l] = "part"]
  /\ Goto(l, "copy")
  /\ UNCHANGED <<owned, target, stamp, direct, job, journal, jlock, cleanup, result, history, bounds>>

\* The last buffer; what was read may not be what was verified.
FinishCopy(l) ==
  /\ pc[l] = "copy"
  /\ \E got \in {"whole", "bad"} : sidecar' = [sidecar EXCEPT ![l] = got]
  /\ Goto(l, "checkCopy")
  /\ UNCHANGED <<owned, target, stamp, direct, job, journal, jlock, cleanup, result, history, bounds>>

\* Size, SHA-256, and the output once more.
\* Mutants: without the hash; without the second look at the output.
CopyAcceptedUnhashed(l) == target = stamp[l]
CopyAcceptedUnchecked(l) == sidecar[l] = "whole"
CopyAccepted(l) == sidecar[l] = "whole" /\ target = stamp[l]

\* into_temp_path moves the sidecar behind the journal in the order of drops.
CheckCopy(l) ==
  /\ pc[l] = "checkCopy"
  /\ IF CopyAccepted(l)
     THEN /\ owned' = [owned EXCEPT ![l] = <<"dir", "lock", "partial", "journal", "sidecar">>]
          /\ Goto(l, "renameSidecar")
          /\ UNCHANGED result
     ELSE Return(l, "error") /\ UNCHANGED owned
  /\ UNCHANGED <<target, stamp, direct, job, copy, cleanup, history, bounds>>

RenameSidecar(l) ==
  /\ pc[l] = "renameSidecar"
  /\ IF sidecar[l] # "absent" /\ MayMove(l)
     THEN /\ Touch(IF sidecar[l] = "whole" THEN Merged(l) ELSE Broken(l), {l})
          /\ sidecar' = [sidecar EXCEPT ![l] = "absent"]
          /\ installed' = installed \cup {l}
          /\ Return(l, "ok")
     ELSE Return(l, "error") /\ UNCHANGED <<target, sidecar, history>>
  /\ UNCHANGED <<owned, stamp, direct, job, journal, jlock, cleanup, bounds>>
-----------------------------------------------------------------------------
\* check_cancel, or an I/O call that fails, before the output is renamed.
\* Mutant: the token is looked at once more after the installation.
StoppableLate == {"makeDir", "createMarker", "lockMarker", "build", "install", "rename",
  "createSidecar", "createJournal", "writeJournal", "openPartial", "copy", "checkCopy", "unwind"}
Stoppable == {"makeDir", "createMarker", "lockMarker", "build", "install", "rename",
  "createSidecar", "createJournal", "writeJournal", "openPartial", "copy", "checkCopy"}

Stop(l) ==
  /\ pc[l] \in Stoppable /\ ~Waiting(l)
  /\ \E r \in {"error", "cancelled"} : Return(l, r)
  /\ UNCHANGED <<owned, target, stamp, direct, job, copy, cleanup, history, bounds>>

Freed(lock, l) == [m \in Launch |-> IF lock[m] = l THEN NoOne ELSE lock[m]]
Youngest(l) == owned[l][Len(owned[l])]

\* The values of the returning functions are dropped, the youngest first.
Unwind(l) ==
  /\ pc[l] = "unwind" /\ owned[l] # << >>
  /\ owned' = [owned EXCEPT ![l] = SubSeq(@, 1, Len(@) - 1)]
  /\ dir' = IF Youngest(l) = "dir" THEN [dir EXCEPT ![l] = "absent"] ELSE dir
  /\ partial' = IF Youngest(l) \in {"dir", "partial"}
                THEN [partial EXCEPT ![l] = FALSE] ELSE partial
  /\ marker' = IF Youngest(l) = "lock" THEN Freed(marker, l) ELSE marker
  /\ sidecar' = IF Youngest(l) = "sidecar" THEN [sidecar EXCEPT ![l] = "absent"] ELSE sidecar
  /\ journal' = IF Youngest(l) = "journal" THEN [journal EXCEPT ![l] = "absent"] ELSE journal
  /\ jlock' = IF Youngest(l) = "journal" THEN Freed(jlock, l) ELSE jlock
  /\ UNCHANGED <<pc, target, stamp, direct, cleanup, result, history, bounds>>

End(l) ==
  /\ pc[l] = "unwind" /\ owned[l] = << >>
  /\ Goto(l, "end")
  /\ UNCHANGED <<owned, target, stamp, direct, job, copy, cleanup, result, history, bounds>>

\* A killed process: the system releases its locks, its files stay.
Crash(l) ==
  /\ pc[l] \notin {"off", "end", "dead"} /\ crashes < MaxCrashes
  /\ crashes' = crashes + 1
  /\ Goto(l, "dead")
  /\ marker' = Freed(marker, l)
  /\ jlock' = Freed(jlock, l)
  /\ owned' = [owned EXCEPT ![l] = << >>]
  /\ todo' = [todo EXCEPT ![l] = {}]
  /\ at' = [at EXCEPT ![l] = NoOne]
  /\ UNCHANGED <<target, stamp, direct, dir, partial, sidecar, journal, result, history, edits>>

\* Another program writes, replaces or deletes the file at the output path.
EditTarget ==
  /\ edits < MaxEdits
  /\ edits' = edits + 1
  /\ \E file \in {NoFile, UserFile(edits + 1)} : file # target /\ Touch(file, {})
  /\ UNCHANGED <<pc, owned, stamp, direct, job, copy, cleanup, result, installed, crashes>>
-----------------------------------------------------------------------------
Init ==
  /\ pc = [l \in Launch |-> "off"]
  /\ owned = [l \in Launch |-> << >>]
  /\ target = NoFile
  /\ stamp = [l \in Launch |-> NoFile]
  /\ direct \in BOOLEAN
  /\ dir = [l \in Launch |-> "absent"]
  /\ partial = [l \in Launch |-> FALSE]
  /\ marker = [l \in Launch |-> NoOne]
  /\ sidecar = [l \in Launch |-> "absent"]
  /\ journal = [l \in Launch |-> "absent"]
  /\ jlock = [l \in Launch |-> NoOne]
  /\ todo = [l \in Launch |-> {}]
  /\ at = [l \in Launch |-> NoOne]
  /\ result = [l \in Launch |-> "none"]
  /\ installed = {} /\ late = {}
  /\ edits = 0 /\ crashes = 0

Step(l) ==
  \/ Scan(l)
  \/ \E m \in Launch : ProbeJob(l, m)
  \/ ReleaseJob(l)
  \/ RemoveJob(l)
  \/ \E m \in Launch : ProbeJournal(l, m)
  \/ ReadJournal(l)
  \/ RemoveJournal(l)
  \/ FinishCleanup(l)
  \/ MakeDir(l)
  \/ CreateMarker(l)
  \/ LockMarker(l)
  \/ BuildPartial(l)
  \/ CheckTarget(l)
  \/ RenamePartial(l)
  \/ CreateSidecar(l)
  \/ CreateJournal(l)
  \/ WriteJournal(l)
  \/ OpenPartial(l)
  \/ FinishCopy(l)
  \/ CheckCopy(l)
  \/ RenameSidecar(l)
  \/ Stop(l)
  \/ Unwind(l)
  \/ End(l)

Next ==
  \/ \E l \in Launch : CaptureTarget(l) \/ Step(l) \/ Crash(l)
  \/ EditTarget

Spec == Init /\ [][Next]_vars

\* A running process keeps running; nothing makes the user start one.
FairSpec == Spec /\ \A l \in Launch : WF_vars(Step(l))
-----------------------------------------------------------------------------
(***************************************************************************)
(* Properties                                                              *)
(***************************************************************************)
Places == Stoppable \cup AtRename \cup
  {"off", "scan", "clean", "releaseJob", "removeJob", "readJournal", "removeJournal",
   "unwind", "end", "dead"}
Things == {"dir", "lock", "partial", "sidecar", "journal"}
Files == [kind : {"none", "user", "merged", "broken"}, tag : Launch \cup 0..MaxEdits]

\* Type invariant of the temporary directory, the output and its writers.
TypeOK ==
  /\ pc \in [Launch -> Places]
  /\ owned \in [Launch -> Seq(Things)]
  /\ target \in Files
  /\ stamp \in [Launch -> Files]
  /\ direct \in BOOLEAN
  /\ dir \in [Launch -> {"absent", "unmarked", "marked"}]
  /\ partial \in [Launch -> BOOLEAN]
  /\ marker \in [Launch -> Launch \cup {NoOne}]
  /\ sidecar \in [Launch -> {"absent", "empty", "part", "whole", "bad"}]
  /\ journal \in [Launch -> {"absent", "empty", "named"}]
  /\ jlock \in [Launch -> Launch \cup {NoOne}]
  /\ todo \in [Launch -> SUBSET ({"job", "journal"} \X Launch)]
  /\ at \in [Launch -> Launch \cup {NoOne}]
  /\ result \in [Launch -> {"none", "ok", "error", "cancelled"}]
  /\ installed \in SUBSET Launch /\ late \in SUBSET Launch
  /\ edits \in 0..MaxEdits /\ crashes \in 0..MaxCrashes

\* The output path never shows half a Pak: whatever is killed, cancelled or
\* damaged on the way, the file there is another program's or a complete,
\* verified merge.
OutputIsWhole == target.kind \in {"none", "user", "merged"}

\* "New outputs never replace a file that appears after the last target check":
\* a write that found no output file may only create one.
NewOutputsReplaceNothing ==
  [][\A l \in Launch : target' = Merged(l) /\ target # Merged(l) /\ stamp[l] = NoFile
        => target = NoFile]_vars

\* A write replaces the file that the user confirmed and no other, unless the
\* file changed between the last check and the rename.
ReplacedWasConfirmed ==
  [][\A l \in Launch : target' = Merged(l) /\ target # Merged(l)
        => target = stamp[l] \/ l \in late]_vars

\* A report is returned exactly for an installed output; an error or a
\* cancellation means that this write never touched the output path.
ResultTellsInstall ==
  \A l \in Launch : /\ result[l] = "ok" => l \in installed
                    /\ result[l] \in {"error", "cancelled"} => l \notin installed
                    /\ l \in installed => result[l] = "ok"

\* "Cancel operation stops the job and removes temporary files": a write that
\* returned, with whatever result, leaves no directory, sidecar or journal.
NothingLeftBehind ==
  \A l \in Launch : pc[l] = "end" =>
    dir[l] = "absent" /\ sidecar[l] = "absent" /\ journal[l] = "absent"

\* The cleanup of another process never takes the sidecar or the journal of a
\* copy that is still running.
LiveCopyKept ==
  \A l \in Launch : pc[l] \in {"openPartial", "copy", "checkCopy", "renameSidecar"} =>
    sidecar[l] # "absent" /\ journal[l] = "named"

\* The copy of a write that was killed before it returned can be found again:
\* as long as its sidecar has data, its journal names it.
DataIsJournaled ==
  \A l \in Launch :
    sidecar[l] \in {"part", "whole", "bad"} /\ result[l] = "none" => journal[l] = "named"

\* "The open, exclusively locked marker lets a later launch distinguish an
\* abandoned directory from a merge that is still running": a directory whose
\* marker is locked is not removed under its running write.
LiveJobKept ==
  \A l \in Launch : marker[l] = l => dir[l] # "absent"

\* Every started write returns, or its process is killed: no lock is waited
\* for in vain.
WriteEnds == \A l \in Launch : pc[l] = "scan" ~> pc[l] \in {"end", "dead"}

\* "After a process kill, the next launch can remove" what it left: a launch
\* that starts after the kill removes the journaled sidecar, if no further
\* process is killed.
KilledCopyIsRemoved ==
  \A l, m \in Launch :
    pc[l] = "scan" /\ pc[m] = "dead" /\ journal[m] = "named" ~>
      \/ sidecar[m] = "absent"
      \/ \E k \in Launch \ {m} : pc[k] = "dead"
=============================================================================
