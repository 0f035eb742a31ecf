------------------------ MODULE OutputInstall_proofs ------------------------
(***************************************************************************)
(* Proofs about the installation of an output, for any number of launches, *)
(* of kills and of edits by other programs: no half Pak reaches the output *)
(* path, a copy that is still running is never taken away, a killed copy   *)
(* stays journaled, and a write that returns leaves nothing behind.        *)
(***************************************************************************)
EXTENDS OutputInstall, TLAPS

Copying == {"openPartial", "copy", "checkCopy", "renameSidecar"}
Returning == {"unwind", "end"}

Holds(s, thing) == \E i \in 1..Len(s) : s[i] = thing

\* What a live process has made is what it drops when it returns.
OwnInv ==
  \A l \in Launch :
    /\ pc[l] # "dead" =>
         /\ dir[l] # "absent" => Holds(owned[l], "dir")
         /\ sidecar[l] # "absent" => Holds(owned[l], "sidecar")
         /\ journal[l] # "absent" => Holds(owned[l], "journal")
    /\ pc[l] = "createMarker" => Holds(owned[l], "dir")
    /\ pc[l] = "writeJournal" => Holds(owned[l], "journal")
    /\ pc[l] \in {"off", "scan", "end"} => owned[l] = << >>

\* A cleaner never visits its own entries; it reads a journal whose lock it
\* holds, and removes the journal of a dead process after that one's sidecar.
CleanInv ==
  \A l \in Launch :
    /\ \A e \in todo[l] : e[2] # l
    /\ at[l] # l
    /\ pc[l] \in {"releaseJob", "removeJob", "readJournal", "removeJournal"} => at[l] \in Launch
    /\ pc[l] = "readJournal" => jlock[at[l]] = l
    /\ pc[l] = "removeJournal" => pc[at[l]] = "dead" /\ sidecar[at[l]] = "absent"

\* A finished journal is its writer's, and locked, until the writer is killed.
JournalInv ==
  \A l \in Launch :
    /\ pc[l] \in Copying => jlock[l] = l
    /\ journal[l] = "named" => pc[l] \in Copying \cup {"unwind", "dead"}
    /\ journal[l] = "named" /\ pc[l] = "unwind" => jlock[l] = l

\* A sidecar is there from its creation on, and verified when it is renamed.
SidecarInv ==
  \A l \in Launch :
    /\ pc[l] \in {"createJournal", "writeJournal"} => sidecar[l] = "empty"
    /\ pc[l] = "renameSidecar" => sidecar[l] = "whole"

\* A write has a result from its return on, and "ok" only when it installed.
ResultInv ==
  \A l \in Launch :
    /\ pc[l] \notin Returning \cup {"dead"} => result[l] = "none"
    /\ pc[l] \in Returning => result[l] # "none"
    /\ result[l] = "ok" <=> l \in installed

\* Past its check, a write knows the output, or the output changed too late.
ConfirmedInv ==
  \A l \in Launch : pc[l] \in AtRename => target = stamp[l] \/ l \in late

IInv ==
  /\ TypeOK /\ OwnInv /\ CleanInv /\ JournalInv /\ LiveCopyKept /\ DataIsJournaled
  /\ SidecarInv /\ ResultInv /\ ConfirmedInv /\ OutputIsWhole
-----------------------------------------------------------------------------
USE InstallAssumption DEF job, copy, cleanup, history, bounds, Goto

\* A live process that owns nothing has made nothing.
LEMMA NothingMade ==
  ASSUME OwnInv, NEW l \in Launch, owned[l] = << >>, pc[l] # "dead"
  PROVE  dir[l] = "absent" /\ sidecar[l] = "absent" /\ journal[l] = "absent"
<1>1. Len(owned[l]) = 0
  OBVIOUS
<1>2. \A thing : ~Holds(owned[l], thing)
  BY <1>1 DEF Holds
<1> QED
  BY <1>2 DEF OwnInv

\* A pop takes the youngest entry and no other one.
LEMMA Popped ==
  ASSUME NEW s \in Seq(Things), s # << >>, NEW k, k = Len(s) - 1
  PROVE  /\ SubSeq(s, 1, k) \in Seq(Things)
         /\ \A thing : Holds(s, thing) => thing = s[Len(s)] \/ Holds(SubSeq(s, 1, k), thing)
<1>1. Len(s) \in Nat /\ Len(s) >= 1 /\ k \in Nat
  OBVIOUS
<1>2. \A i \in 1..k : s[i] \in Things
  BY <1>1
<1>3. SubSeq(s, 1, k) \in Seq(Things)
  BY <1>1, <1>2
<1>4. Len(SubSeq(s, 1, k)) = k /\ \A i \in 1..k : SubSeq(s, 1, k)[i] = s[i]
  BY <1>1, <1>2
<1>5. ASSUME NEW thing, Holds(s, thing), thing # s[Len(s)] PROVE Holds(SubSeq(s, 1, k), thing)
  <2>1. PICK i \in 1..Len(s) : s[i] = thing
    BY <1>5 DEF Holds
  <2>2. i \in 1..k
    BY <1>1, <1>5, <2>1
  <2> QED
    BY <1>4, <2>1, <2>2 DEF Holds
<1> QED
  BY <1>3, <1>5

\* Who only moves on, or drops what is already gone, keeps owning the rest.
LEMMA OwnFrame ==
  ASSUME OwnInv, NEW l \in Launch, pc[l] # "dead",
         pc'[l] \notin {"createMarker", "writeJournal", "off", "scan", "end"},
         \A m \in Launch \ {l} : pc'[m] = pc[m],
         owned' = owned, dir' = dir, journal' = journal,
         \A m \in Launch : sidecar'[m] \in {sidecar[m], "absent"}
  PROVE  OwnInv'
BY DEF OwnInv

\* An update keeps the range of a function.
LEMMA UpdateType ==
  ASSUME NEW S, NEW T, NEW f \in [S -> T], NEW x, NEW v \in T
  PROVE  [f EXCEPT ![x] = v] \in [S -> T]
OBVIOUS

\* A write that is stopped only begins to unwind.
LEMMA Stopped ==
  ASSUME TypeOK, NEW l \in Launch, Stop(l)
  PROVE  /\ pc[l] \in Stoppable /\ pc' = [pc EXCEPT ![l] = "unwind"] /\ pc'[l] = "unwind"
         /\ \A m \in Launch \ {l} : pc'[m] = pc[m]
         /\ UNCHANGED <<owned, target, stamp, direct, dir, partial, marker, sidecar, journal,
                         jlock, todo, at, installed, late, edits, crashes>>
<1>1. pc[l] \in Stoppable /\ pc' = [pc EXCEPT ![l] = "unwind"]
  BY DEF Stop, Return
<1>2. UNCHANGED <<owned, target, stamp, direct, dir, partial, marker, sidecar, journal,
                  jlock, todo, at, installed, late, edits, crashes>>
  BY DEF Stop
<1>3. pc \in [Launch -> Places]
  BY DEF TypeOK
<1> QED
  BY <1>1, <1>2, <1>3

\* Every step keeps the types.
LEMMA TypeStep == IInv /\ Next => TypeOK'
<1> SUFFICES ASSUME IInv, Next PROVE TypeOK'
  OBVIOUS
<1>0. /\ pc \in [Launch -> Places] /\ owned \in [Launch -> Seq(Things)]
      /\ result \in [Launch -> {"none", "ok", "error", "cancelled"}]
      /\ jlock \in [Launch -> Launch \cup {NoOne}] /\ at \in [Launch -> Launch \cup {NoOne}]
      /\ sidecar \in [Launch -> {"absent", "empty", "part", "whole", "bad"}]
      /\ {"unwind", "rename", "renameSidecar", "createSidecar", "clean", "removeJournal"} \subseteq Places
  BY DEF IInv, TypeOK, Places, Stoppable, AtRename
<1> USE DEF IInv, TypeOK, Places, Stoppable, AtRename, Things, Files, NoFile, UserFile,
     Merged, Broken
<1>1. ASSUME NEW l \in Launch, CaptureTarget(l) \/ Step(l) \/ Crash(l) PROVE TypeOK'
  <2>1. CASE Scan(l)
    BY <2>1 DEF Scan, Entries
  <2>2. CASE ReleaseJob(l)
    BY <2>2 DEF ReleaseJob
  <2>3. CASE RemoveJob(l)
    BY <2>3 DEF RemoveJob
  <2>4. CASE ReadJournal(l)
    <3>1. UNCHANGED <<owned, target, stamp, direct, dir, partial, marker, journal, todo, result,
                      installed, late, edits, crashes>>
      BY <2>4 DEF ReadJournal
    <3>2. /\ \E p \in {"removeJournal", "clean"} : pc' = [pc EXCEPT ![l] = p]
          /\ at' = at \/ at' = [at EXCEPT ![l] = NoOne]
          /\ jlock' = [jlock EXCEPT ![at[l]] = NoOne]
          /\ sidecar' = sidecar \/ sidecar' = [sidecar EXCEPT ![at[l]] = "absent"]
      BY <2>4 DEF ReadJournal
    <3>3. pc' \in [Launch -> Places] /\ at' \in [Launch -> Launch \cup {NoOne}]
      BY ONLY <1>0, <3>2, UpdateType
    <3>4. jlock' \in [Launch -> Launch \cup {NoOne}]
      BY ONLY <1>0, <3>2, UpdateType
    <3>5. sidecar' \in [Launch -> {"absent", "empty", "part", "whole", "bad"}]
      BY ONLY <1>0, <3>2, UpdateType
    <3> QED
      BY <3>1, <3>3, <3>4, <3>5
  <2>5. CASE RemoveJournal(l)
    BY <2>5 DEF RemoveJournal
  <2>6. CASE FinishCleanup(l)
    BY <2>6 DEF FinishCleanup
  <2>7. ASSUME NEW m \in Launch, ProbeJob(l, m)
        PROVE  TypeOK'
    BY <2>7 DEF ProbeJob, Visit, Abandoned
  <2>8. ASSUME NEW m \in Launch, ProbeJournal(l, m)
        PROVE  TypeOK'
    BY <2>8 DEF ProbeJournal, Visit, Unlocked
  <2>9. CASE MakeDir(l)
    BY <2>9 DEF MakeDir, Own
  <2>10. CASE CreateMarker(l)
    BY <2>10 DEF CreateMarker
  <2>11. CASE LockMarker(l)
    BY <2>11 DEF LockMarker, Own, Waiting
  <2>12. CASE BuildPartial(l)
    BY <2>12 DEF BuildPartial, Own
  <2>13. CASE CheckTarget(l)
    <3>1. UNCHANGED <<owned, target, stamp, direct, dir, partial, marker, sidecar, journal, jlock,
                      todo, at, installed, late, edits, crashes>>
      BY <2>13 DEF CheckTarget
    <3>2. /\ \E p \in {"unwind", "rename", "createSidecar"} : pc' = [pc EXCEPT ![l] = p]
          /\ result' = result \/ result' = [result EXCEPT ![l] = "error"]
      BY <2>13 DEF CheckTarget, Return
    <3>3. pc' \in [Launch -> Places]
      BY ONLY <1>0, <3>2, UpdateType
    <3>4. result' \in [Launch -> {"none", "ok", "error", "cancelled"}]
      BY ONLY <1>0, <3>2, UpdateType
    <3> QED
      BY <3>1, <3>3, <3>4
  <2>14. CASE RenamePartial(l)
    <3>1. UNCHANGED <<owned, stamp, direct, dir, marker, sidecar, journal, jlock, todo, at, edits,
                      crashes>>
      BY <2>14 DEF RenamePartial
    <3>2. pc' = [pc EXCEPT ![l] = "unwind"] /\ \E r \in {"ok", "error"} : result' = [result EXCEPT ![l] = r]
      BY <2>14 DEF RenamePartial, Return
    <3>3. target' \in Files /\ late' \in SUBSET Launch /\ installed' \in SUBSET Launch
      BY <2>14 DEF RenamePartial, Touch
    <3>4. partial' \in [Launch -> BOOLEAN]
      BY <2>14 DEF RenamePartial
    <3>5. pc' \in [Launch -> Places] /\ result' \in [Launch -> {"none", "ok", "error", "cancelled"}]
      BY ONLY <1>0, <3>2, UpdateType
    <3> QED
      BY <3>1, <3>3, <3>4, <3>5
  <2>15. CASE CreateSidecar(l)
    BY <2>15 DEF CreateSidecar, Own
  <2>16. CASE CreateJournal(l)
    BY <2>16 DEF CreateJournal, Own
  <2>17. CASE WriteJournal(l)
    BY <2>17 DEF WriteJournal, Waiting
  <2>18. CASE OpenPartial(l)
    BY <2>18 DEF OpenPartial
  <2>19. CASE FinishCopy(l)
    BY <2>19 DEF FinishCopy
  <2>20. CASE CheckCopy(l)
    <3>1. UNCHANGED <<target, stamp, direct, dir, partial, marker, sidecar, journal, jlock,
                      todo, at, installed, late, edits, crashes>>
      BY <2>20 DEF CheckCopy
    <3>2. <<"dir", "lock", "partial", "journal", "sidecar">> \in Seq(Things)
      OBVIOUS
    <3>3. \E p \in {"renameSidecar", "unwind"} : pc' = [pc EXCEPT ![l] = p]
      BY <2>20 DEF CheckCopy, Return
    <3>4. result' = result \/ result' = [result EXCEPT ![l] = "error"]
      BY <2>20 DEF CheckCopy, Return
    <3>5. \/ owned' = owned
          \/ owned' = [owned EXCEPT ![l] = <<"dir", "lock", "partial", "journal", "sidecar">>]
      BY <2>20 DEF CheckCopy
    <3>6. pc' \in [Launch -> Places]
      BY ONLY <1>0, <3>3, UpdateType
    <3>7. result' \in [Launch -> {"none", "ok", "error", "cancelled"}]
      BY ONLY <1>0, <3>4, UpdateType
    <3>8. PICK five \in Seq(Things) : five = <<"dir", "lock", "partial", "journal", "sidecar">>
      BY <3>2
    <3>9. owned' = owned \/ owned' = [owned EXCEPT ![l] = five]
      BY <3>5, <3>8
    <3>10. owned' \in [Launch -> Seq(Things)]
      BY ONLY <1>0, <3>8, <3>9, UpdateType
    <3> QED
      BY <3>1, <3>6, <3>7, <3>10
  <2>21. CASE RenameSidecar(l)
    <3>1. UNCHANGED <<owned, stamp, direct, dir, marker, partial, journal, jlock, todo, at, edits,
                      crashes>>
      BY <2>21 DEF RenameSidecar
    <3>2. /\ pc' = [pc EXCEPT ![l] = "unwind"]
          /\ \E r \in {"ok", "error"} : result' = [result EXCEPT ![l] = r]
          /\ sidecar' = sidecar \/ sidecar' = [sidecar EXCEPT ![l] = "absent"]
      BY <2>21 DEF RenameSidecar, Return
    <3>3. target' \in Files /\ late' \in SUBSET Launch /\ installed' \in SUBSET Launch
      BY <2>21 DEF RenameSidecar, Touch
    <3>4. pc' \in [Launch -> Places] /\ result' \in [Launch -> {"none", "ok", "error", "cancelled"}]
      BY ONLY <1>0, <3>2, UpdateType
    <3>5. sidecar' \in [Launch -> {"absent", "empty", "part", "whole", "bad"}]
      BY ONLY <1>0, <3>2, UpdateType
    <3> QED
      BY <3>1, <3>3, <3>4, <3>5
  <2>22. CASE Stop(l)
    BY <2>22 DEF Stop, Return
  <2>23. CASE Unwind(l)
    <3>1. SubSeq(owned[l], 1, Len(owned[l]) - 1) \in Seq(Things)
      BY <2>23, Popped DEF Unwind
    <3> QED
      BY <2>23, <3>1 DEF Unwind, Freed
  <2>24. CASE End(l)
    BY <2>24 DEF End
  <2>25. CASE Crash(l)
    BY <2>25 DEF Crash, Freed
  <2>26. CASE CaptureTarget(l)
    <3>1. UNCHANGED <<owned, target, direct, dir, partial, marker, sidecar, journal, jlock,
                      todo, at, installed, late, edits, crashes>>
      BY <2>26 DEF CaptureTarget
    <3>2. \/ Return(l, "error") /\ UNCHANGED stamp
          \/ Goto(l, "scan") /\ stamp' = [stamp EXCEPT ![l] = target] /\ UNCHANGED result
      BY <2>26 DEF CaptureTarget
    <3>3. CASE Return(l, "error") /\ UNCHANGED stamp
      BY <3>1, <3>3 DEF Return
    <3>4. CASE Goto(l, "scan") /\ stamp' = [stamp EXCEPT ![l] = target] /\ UNCHANGED result
      BY <3>1, <3>4
    <3> QED
      BY <3>2, <3>3, <3>4
  <2> QED
    BY <1>1, <2>1, <2>2, <2>3, <2>4, <2>5, <2>6, <2>7, <2>8, <2>9, <2>10,
     <2>11, <2>12, <2>13, <2>14, <2>15, <2>16, <2>17, <2>18, <2>19, <2>20, <2>21,
     <2>22, <2>23, <2>24, <2>25, <2>26 DEF Step
<1>2. CASE EditTarget
  BY <1>2 DEF EditTarget, Touch
<1> QED
  BY <1>1, <1>2 DEF Next

\* What a step makes it owns, and what a return drops is gone.
LEMMA OwnStep == IInv /\ Next => OwnInv'
<1> SUFFICES ASSUME IInv, Next PROVE OwnInv'
  OBVIOUS
<1> USE DEF IInv, TypeOK, OwnInv, Holds
<1>1. ASSUME NEW l \in Launch, CaptureTarget(l) \/ Step(l) \/ Crash(l) PROVE OwnInv'
  <2>1. CASE Scan(l)
    BY <2>1 DEF Scan, Entries
  <2>2. CASE ReleaseJob(l)
    BY <2>2 DEF ReleaseJob
  <2>3. CASE RemoveJob(l)
    BY <2>3 DEF RemoveJob
  <2>4. CASE RemoveJournal(l)
    BY <2>4 DEF RemoveJournal
  <2>5. CASE FinishCleanup(l)
    BY <2>5 DEF FinishCleanup
  <2>6. CASE ReadJournal(l)
    <3>1. pc[l] # "dead" /\ \A m \in Launch \ {l} : pc'[m] = pc[m]
      BY <2>6 DEF ReadJournal
    <3>2. pc'[l] \notin {"createMarker", "writeJournal", "off", "scan", "end"}
      BY <2>6 DEF ReadJournal
    <3>3. owned' = owned /\ dir' = dir /\ journal' = journal
      BY <2>6 DEF ReadJournal
    <3>4. \A m \in Launch : sidecar'[m] \in {sidecar[m], "absent"}
      BY <2>6 DEF ReadJournal
    <3> QED
      BY <3>1, <3>2, <3>3, <3>4, OwnFrame
  <2>7. ASSUME NEW m \in Launch, ProbeJob(l, m)
        PROVE  OwnInv'
    BY <2>7 DEF ProbeJob, Visit, Abandoned
  <2>8. ASSUME NEW m \in Launch, ProbeJournal(l, m)
        PROVE  OwnInv'
    BY <2>8 DEF ProbeJournal, Visit, Unlocked
  <2>9. CASE MakeDir(l)
    BY <2>9 DEF MakeDir, Own
  <2>10. CASE CreateMarker(l)
    BY <2>10 DEF CreateMarker
  <2>11. CASE LockMarker(l)
    BY <2>11 DEF LockMarker, Own, Waiting
  <2>12. CASE BuildPartial(l)
    BY <2>12 DEF BuildPartial, Own
  <2>13. CASE CheckTarget(l)
    <3>1. pc[l] # "dead" /\ \A m \in Launch \ {l} : pc'[m] = pc[m]
      BY <2>13 DEF CheckTarget, Return
    <3>2. pc'[l] \notin {"createMarker", "writeJournal", "off", "scan", "end"}
      BY <2>13 DEF CheckTarget, Return
    <3>3. owned' = owned /\ dir' = dir /\ journal' = journal
      BY <2>13 DEF CheckTarget
    <3>4. \A m \in Launch : sidecar'[m] \in {sidecar[m], "absent"}
      BY <2>13 DEF CheckTarget
    <3> QED
      BY <3>1, <3>2, <3>3, <3>4, OwnFrame
  <2>14. CASE RenamePartial(l)
    <3>1. pc[l] # "dead" /\ \A m \in Launch \ {l} : pc'[m] = pc[m]
      BY <2>14 DEF RenamePartial, Return
    <3>2. pc'[l] \notin {"createMarker", "writeJournal", "off", "scan", "end"}
      BY <2>14 DEF RenamePartial, Return
    <3>3. owned' = owned /\ dir' = dir /\ journal' = journal
      BY <2>14 DEF RenamePartial
    <3>4. \A m \in Launch : sidecar'[m] \in {sidecar[m], "absent"}
      BY <2>14 DEF RenamePartial
    <3> QED
      BY <3>1, <3>2, <3>3, <3>4, OwnFrame
  <2>15. CASE CreateSidecar(l)
    BY <2>15 DEF CreateSidecar, Own
  <2>16. CASE CreateJournal(l)
    BY <2>16 DEF CreateJournal, Own
  <2>17. CASE WriteJournal(l)
    BY <2>17 DEF WriteJournal, Waiting
  <2>18. CASE OpenPartial(l)
    BY <2>18 DEF OpenPartial, LiveCopyKept
  <2>19. CASE FinishCopy(l)
    BY <2>19 DEF FinishCopy, LiveCopyKept
  <2>20. CASE CheckCopy(l)
    <3>1. /\ Holds(<<"dir", "lock", "partial", "journal", "sidecar">>, "dir")
          /\ Holds(<<"dir", "lock", "partial", "journal", "sidecar">>, "sidecar")
          /\ Holds(<<"dir", "lock", "partial", "journal", "sidecar">>, "journal")
      OBVIOUS
    <3>2. pc[l] = "checkCopy" /\ pc'[l] \in {"renameSidecar", "unwind"}
      BY <2>20 DEF CheckCopy, Return
    <3>3. owned'[l] \in {owned[l], <<"dir", "lock", "partial", "journal", "sidecar">>}
      BY <2>20 DEF CheckCopy
    <3>4. \A m \in Launch \ {l} : pc'[m] = pc[m] /\ owned'[m] = owned[m]
      BY <2>20 DEF CheckCopy, Return
    <3>5. UNCHANGED <<dir, sidecar, journal>>
      BY <2>20 DEF CheckCopy
    <3> HIDE DEF Holds
    <3> QED
      BY <3>1, <3>2, <3>3, <3>4, <3>5
  <2>21. CASE RenameSidecar(l)
    <3>1. pc[l] # "dead" /\ \A m \in Launch \ {l} : pc'[m] = pc[m]
      BY <2>21 DEF RenameSidecar, Return
    <3>2. pc'[l] \notin {"createMarker", "writeJournal", "off", "scan", "end"}
      BY <2>21 DEF RenameSidecar, Return
    <3>3. owned' = owned /\ dir' = dir /\ journal' = journal
      BY <2>21 DEF RenameSidecar
    <3>4. \A m \in Launch : sidecar'[m] \in {sidecar[m], "absent"}
      BY <2>21 DEF RenameSidecar
    <3> QED
      BY <3>1, <3>2, <3>3, <3>4, OwnFrame
  <2>22. CASE Stop(l)
    <3>1. /\ pc[l] # "dead" /\ pc'[l] = "unwind" /\ \A m \in Launch \ {l} : pc'[m] = pc[m]
          /\ UNCHANGED <<owned, dir, journal, sidecar>>
      BY <2>22, Stopped DEF Stoppable
    <3> QED
      BY <3>1, OwnFrame
  <2>23. CASE End(l)
    <3>1. /\ pc[l] = "unwind" /\ owned[l] = << >> /\ pc'[l] = "end"
          /\ \A m \in Launch \ {l} : pc'[m] = pc[m]
      BY <2>23 DEF End
    <3>2. UNCHANGED <<owned, dir, sidecar, journal>>
      BY <2>23 DEF End
    <3> HIDE DEF Holds
    <3>3. \A m \in Launch : pc'[m] = pc[m] \/ (m = l /\ owned[m] = << >>)
      BY <3>1
    <3> QED
      BY <3>1, <3>2, <3>3
  <2>24. CASE Unwind(l)
    <3> HIDE DEF Holds
    <3>1. owned[l] \in Seq(Things) /\ owned[l] # << >> /\ pc' = pc /\ pc[l] = "unwind"
      BY <2>24 DEF Unwind
    <3>2. owned'[l] = SubSeq(owned[l], 1, Len(owned[l]) - 1)
      BY <2>24 DEF Unwind
    <3>3. \A thing : Holds(owned[l], thing) => thing = Youngest(l) \/ Holds(owned'[l], thing)
      BY <3>1, <3>2, Popped DEF Youngest
    <3>4. /\ dir'[l] # "absent" => dir[l] # "absent" /\ Youngest(l) # "dir"
          /\ sidecar'[l] # "absent" => sidecar[l] # "absent" /\ Youngest(l) # "sidecar"
          /\ journal'[l] # "absent" => journal[l] # "absent" /\ Youngest(l) # "journal"
      BY <2>24 DEF Unwind
    <3>5. \A m \in Launch \ {l} : /\ dir'[m] = dir[m] /\ sidecar'[m] = sidecar[m]
                                  /\ journal'[m] = journal[m] /\ owned'[m] = owned[m]
      BY <2>24 DEF Unwind
    <3> QED
      BY <3>1, <3>3, <3>4, <3>5
  <2>25. CASE CaptureTarget(l)
    <3>1. /\ pc[l] = "off" /\ pc'[l] \in {"scan", "unwind"}
          /\ \A m \in Launch \ {l} : pc'[m] = pc[m]
      BY <2>25 DEF CaptureTarget, Return
    <3>2. UNCHANGED <<owned, dir, sidecar, journal>>
      BY <2>25 DEF CaptureTarget
    <3> HIDE DEF Holds
    <3> QED
      BY <3>1, <3>2
  <2>26. CASE Crash(l)
    BY <2>26 DEF Crash, Freed
  <2> QED
    BY <1>1, <2>1, <2>2, <2>3, <2>4, <2>5, <2>6, <2>7, <2>8, <2>9, <2>10,
     <2>11, <2>12, <2>13, <2>14, <2>15, <2>16, <2>17, <2>18, <2>19, <2>20, <2>21,
     <2>22, <2>23, <2>24, <2>25, <2>26 DEF Step
<1>2. CASE EditTarget
  BY <1>2 DEF EditTarget, Touch
<1> QED
  BY <1>1, <1>2 DEF Next

\* A cleaner keeps to the entries of other processes, and to dead writers.
LEMMA CleanStep == IInv /\ Next => CleanInv'
<1> SUFFICES ASSUME IInv, Next PROVE CleanInv'
  OBVIOUS
<1> USE DEF IInv, TypeOK, CleanInv, Copying
<1>1. ASSUME NEW l \in Launch, CaptureTarget(l) \/ Step(l) \/ Crash(l) PROVE CleanInv'
  <2>1. CASE ReleaseJob(l) \/ RemoveJob(l) \/ RemoveJournal(l) \/ FinishCleanup(l)
    BY <2>1 DEF ReleaseJob, RemoveJob, RemoveJournal, FinishCleanup
  <2>2. CASE ReadJournal(l)
    BY <2>2 DEF ReadJournal, JournalInv
  <2>3. CASE Scan(l)
    <3>1. owned[l] = << >> /\ pc[l] = "scan"
      BY <2>3 DEF Scan, OwnInv
    <3>2. dir[l] = "absent" /\ journal[l] = "absent"
      BY <3>1, NothingMade
    <3>3. \A e \in Entries : e[2] # l
      BY <3>2 DEF Entries
    <3> QED
      BY <2>3, <3>3 DEF Scan
  <2>4. ASSUME NEW m \in Launch, ProbeJob(l, m)
        PROVE  CleanInv'
    BY <2>4 DEF ProbeJob, Visit, Abandoned
  <2>5. ASSUME NEW m \in Launch, ProbeJournal(l, m)
        PROVE  CleanInv'
    BY <2>5 DEF ProbeJournal, Visit, Unlocked
  <2>6. CASE MakeDir(l) \/ CreateMarker(l) \/ LockMarker(l) \/ BuildPartial(l)
    BY <2>6 DEF MakeDir, CreateMarker, LockMarker, BuildPartial, Own, Waiting
  <2>7. CASE CheckTarget(l) \/ RenamePartial(l)
    BY <2>7 DEF CheckTarget, RenamePartial, Return, Touch
  <2>8. CASE CreateSidecar(l) \/ CreateJournal(l) \/ WriteJournal(l) \/
            OpenPartial(l) \/ FinishCopy(l) \/ CheckCopy(l) \/ RenameSidecar(l)
    BY <2>8 DEF CreateSidecar, CreateJournal, WriteJournal, OpenPartial, FinishCopy,
       CheckCopy, RenameSidecar, Own, Waiting, Return, CopyAccepted, Touch
  <2>9. CASE Stop(l) \/ Unwind(l) \/ End(l)
    <3>1. CASE Stop(l)
      <4>1. /\ pc[l] \in Stoppable /\ pc'[l] = "unwind" /\ \A m \in Launch \ {l} : pc'[m] = pc[m]
            /\ UNCHANGED <<todo, at, jlock, sidecar>>
        BY <3>1, Stopped
      <4>2. \A m \in Launch : pc[m] = "dead" => pc'[m] = "dead"
        BY <4>1 DEF Stoppable
      <4> QED
        BY <4>1, <4>2
    <3>2. CASE Unwind(l)
      <4>1. UNCHANGED <<pc, todo, at>> /\ pc[l] = "unwind"
        BY <3>2 DEF Unwind
      <4>2. \A m \in Launch : sidecar[m] = "absent" => sidecar'[m] = "absent"
        BY <3>2 DEF Unwind
      <4>3. \A m, k \in Launch : jlock[m] = k /\ k # l => jlock'[m] = k
        BY <3>2 DEF Unwind, Freed
      <4> QED
        BY <4>1, <4>2, <4>3
    <3>3. CASE End(l)
      BY <3>3 DEF End
    <3> QED
      BY <2>9, <3>1, <3>2, <3>3
  <2>10. CASE CaptureTarget(l)
    BY <2>10 DEF CaptureTarget, Return
  <2>11. CASE Crash(l)
    BY <2>11 DEF Crash, Freed
  <2> QED
    BY <1>1, <2>1, <2>2, <2>3, <2>4, <2>5, <2>6, <2>7, <2>8, <2>9, <2>10,
     <2>11 DEF Step
<1>2. CASE EditTarget
  BY <1>2 DEF EditTarget, Touch
<1> QED
  BY <1>1, <1>2 DEF Next

\* The lock on a finished journal stays with its writer until it is killed.
LEMMA JournalStep == IInv /\ Next => JournalInv'
<1> SUFFICES ASSUME IInv, Next PROVE JournalInv'
  OBVIOUS
<1> USE DEF IInv, TypeOK, JournalInv, Copying
<1>1. ASSUME NEW l \in Launch, CaptureTarget(l) \/ Step(l) \/ Crash(l) PROVE JournalInv'
  <2>1. CASE Scan(l) \/ ReleaseJob(l) \/ RemoveJob(l) \/ RemoveJournal(l) \/
            FinishCleanup(l)
    BY <2>1 DEF Scan, ReleaseJob, RemoveJob, RemoveJournal, FinishCleanup, Entries
  <2>2. CASE ReadJournal(l)
    BY <2>2 DEF ReadJournal, CleanInv
  <2>3. ASSUME NEW m \in Launch, ProbeJob(l, m) \/ ProbeJournal(l, m)
        PROVE  JournalInv'
    BY <2>3 DEF ProbeJob, ProbeJournal, Visit, Abandoned, Unlocked
  <2>4. CASE MakeDir(l) \/ CreateMarker(l) \/ LockMarker(l) \/ BuildPartial(l)
    BY <2>4 DEF MakeDir, CreateMarker, LockMarker, BuildPartial, Own, Waiting
  <2>5. CASE CheckTarget(l)
    BY <2>5 DEF CheckTarget, Return
  <2>6. CASE RenamePartial(l)
    BY <2>6 DEF RenamePartial, Return, Touch
  <2>7. CASE CreateSidecar(l) \/ CreateJournal(l) \/ WriteJournal(l) \/
            OpenPartial(l) \/ FinishCopy(l) \/ CheckCopy(l) \/ RenameSidecar(l)
    BY <2>7 DEF CreateSidecar, CreateJournal, WriteJournal, OpenPartial, FinishCopy,
       CheckCopy, RenameSidecar, Own, Waiting, Return, CopyAccepted, Touch
  <2>8. CASE Stop(l) \/ Unwind(l)
    <3>1. CASE Stop(l)
      BY <3>1, Stopped DEF Stoppable
    <3>2. CASE Unwind(l)
      BY <3>2 DEF Unwind, Freed, Youngest
    <3> QED
      BY <2>8, <3>1, <3>2
  <2>9. CASE End(l)
    <3>1. owned[l] = << >> /\ pc[l] = "unwind"
      BY <2>9 DEF End
    <3>2. journal[l] = "absent"
      BY <3>1, NothingMade
    <3> QED
      BY <2>9, <3>2 DEF End
  <2>10. CASE CaptureTarget(l)
    BY <2>10 DEF CaptureTarget, Return
  <2>11. CASE Crash(l)
    BY <2>11 DEF Crash, Freed
  <2> QED
    BY <1>1, <2>1, <2>2, <2>3, <2>4, <2>5, <2>6, <2>7, <2>8, <2>9, <2>10,
     <2>11 DEF Step
<1>2. CASE EditTarget
  BY <1>2 DEF EditTarget, Touch
<1> QED
  BY <1>1, <1>2 DEF Next

\* No step takes the sidecar or the journal of a running copy.
LEMMA LiveCopyStep == IInv /\ Next => LiveCopyKept'
<1> SUFFICES ASSUME IInv, Next PROVE LiveCopyKept'
  OBVIOUS
<1> USE DEF IInv, TypeOK, LiveCopyKept, Copying
<1>1. ASSUME NEW l \in Launch, CaptureTarget(l) \/ Step(l) \/ Crash(l) PROVE LiveCopyKept'
  <2>1. CASE Scan(l) \/ ReleaseJob(l) \/ RemoveJob(l) \/ FinishCleanup(l)
    BY <2>1 DEF Scan, ReleaseJob, RemoveJob, FinishCleanup, Entries
  <2>2. CASE ReadJournal(l) \/ RemoveJournal(l)
    BY <2>2 DEF ReadJournal, RemoveJournal, CleanInv, JournalInv
  <2>3. ASSUME NEW m \in Launch, ProbeJob(l, m) \/ ProbeJournal(l, m)
        PROVE  LiveCopyKept'
    BY <2>3 DEF ProbeJob, ProbeJournal, Visit, Abandoned, Unlocked
  <2>4. CASE MakeDir(l) \/ CreateMarker(l) \/ LockMarker(l) \/ BuildPartial(l)
    BY <2>4 DEF MakeDir, CreateMarker, LockMarker, BuildPartial, Own, Waiting
  <2>5. CASE CheckTarget(l) \/ RenamePartial(l)
    BY <2>5 DEF CheckTarget, RenamePartial, Return, Touch
  <2>6. CASE CreateSidecar(l) \/ CreateJournal(l) \/ OpenPartial(l) \/ FinishCopy(l) \/
            CheckCopy(l) \/ RenameSidecar(l)
    BY <2>6 DEF CreateSidecar, CreateJournal, OpenPartial, FinishCopy, CheckCopy,
       RenameSidecar, Own, Return, CopyAccepted, Touch
  <2>7. CASE WriteJournal(l)
    BY <2>7 DEF WriteJournal, Waiting, SidecarInv
  <2>8. CASE Stop(l) \/ Unwind(l) \/ End(l)
    BY <2>8 DEF Stop, Unwind, End, Return, Stoppable, Freed, Youngest
  <2>9. CASE CaptureTarget(l) \/ Crash(l)
    BY <2>9 DEF CaptureTarget, Crash, Return, Freed
  <2> QED
    BY <1>1, <2>1, <2>2, <2>3, <2>4, <2>5, <2>6, <2>7, <2>8, <2>9 DEF Step
<1>2. CASE EditTarget
  BY <1>2 DEF EditTarget, Touch
<1> QED
  BY <1>1, <1>2 DEF Next

\* Data gets into a sidecar, and a journal is removed, only in the safe order.
LEMMA JournaledStep == IInv /\ Next => DataIsJournaled'
<1> SUFFICES ASSUME IInv, Next PROVE DataIsJournaled'
  OBVIOUS
<1> USE DEF IInv, TypeOK, DataIsJournaled, Copying
<1>1. ASSUME NEW l \in Launch, CaptureTarget(l) \/ Step(l) \/ Crash(l) PROVE DataIsJournaled'
  <2>1. CASE Scan(l) \/ ReleaseJob(l) \/ RemoveJob(l) \/ ReadJournal(l) \/
            FinishCleanup(l)
    BY <2>1 DEF Scan, ReleaseJob, RemoveJob, ReadJournal, FinishCleanup, Entries
  <2>2. CASE RemoveJournal(l)
    BY <2>2 DEF RemoveJournal, CleanInv
  <2>3. ASSUME NEW m \in Launch, ProbeJob(l, m) \/ ProbeJournal(l, m)
        PROVE  DataIsJournaled'
    BY <2>3 DEF ProbeJob, ProbeJournal, Visit, Abandoned, Unlocked
  <2>4. CASE MakeDir(l) \/ CreateMarker(l) \/ LockMarker(l) \/ BuildPartial(l)
    BY <2>4 DEF MakeDir, CreateMarker, LockMarker, BuildPartial, Own, Waiting
  <2>5. CASE CheckTarget(l) \/ RenamePartial(l)
    BY <2>5 DEF CheckTarget, RenamePartial, Return, Touch
  <2>6. CASE CreateSidecar(l) \/ WriteJournal(l) \/ CheckCopy(l)
    BY <2>6 DEF CreateSidecar, WriteJournal, CheckCopy, Own, Waiting, Return,
       CopyAccepted
  <2>7. CASE CreateJournal(l)
    BY <2>7 DEF CreateJournal, Own, JournalInv
  <2>8. CASE OpenPartial(l) \/ FinishCopy(l) \/ RenameSidecar(l)
    BY <2>8 DEF OpenPartial, FinishCopy, RenameSidecar, Return, Touch, LiveCopyKept
  <2>9. CASE Stop(l) \/ End(l)
    BY <2>9 DEF Stop, End, Return, Stoppable
  <2>10. CASE Unwind(l)
    BY <2>10 DEF Unwind, Freed, Youngest, ResultInv, Returning
  <2>11. CASE CaptureTarget(l) \/ Crash(l)
    BY <2>11 DEF CaptureTarget, Crash, Return, Freed
  <2> QED
    BY <1>1, <2>1, <2>2, <2>3, <2>4, <2>5, <2>6, <2>7, <2>8, <2>9, <2>10,
     <2>11 DEF Step
<1>2. CASE EditTarget
  BY <1>2 DEF EditTarget, Touch
<1> QED
  BY <1>1, <1>2 DEF Next

\* Only the writer itself changes the sidecar of a live process.
LEMMA SidecarStep == IInv /\ Next => SidecarInv'
<1> SUFFICES ASSUME IInv, Next PROVE SidecarInv'
  OBVIOUS
<1> USE DEF IInv, TypeOK, SidecarInv
<1>1. ASSUME NEW l \in Launch, CaptureTarget(l) \/ Step(l) \/ Crash(l) PROVE SidecarInv'
  <2>1. CASE Scan(l) \/ ReleaseJob(l) \/ RemoveJob(l) \/ RemoveJournal(l) \/
            FinishCleanup(l)
    BY <2>1 DEF Scan, ReleaseJob, RemoveJob, RemoveJournal, FinishCleanup, Entries
  <2>2. CASE ReadJournal(l)
    <3>1. at[l] \in Launch /\ at[l] # l /\ jlock[at[l]] = l
      BY <2>2 DEF ReadJournal, CleanInv
    <3>2. sidecar' # sidecar => journal[at[l]] = "named" /\ sidecar' = [sidecar EXCEPT ![at[l]] = "absent"]
      BY <2>2 DEF ReadJournal
    <3>3. journal[at[l]] = "named" => pc[at[l]] = "dead"
      BY <3>1 DEF JournalInv
    <3>4. \A m \in Launch \ {l} : pc'[m] = pc[m]
      BY <2>2 DEF ReadJournal
    <3>5. pc'[l] \in {"clean", "removeJournal"}
      BY <2>2 DEF ReadJournal
    <3> QED
      BY <3>1, <3>2, <3>3, <3>4, <3>5
  <2>3. ASSUME NEW m \in Launch, ProbeJob(l, m) \/ ProbeJournal(l, m)
        PROVE  SidecarInv'
    BY <2>3 DEF ProbeJob, ProbeJournal, Visit, Abandoned, Unlocked
  <2>4. CASE MakeDir(l) \/ CreateMarker(l) \/ LockMarker(l) \/ BuildPartial(l)
    BY <2>4 DEF MakeDir, CreateMarker, LockMarker, BuildPartial, Own, Waiting
  <2>5. CASE CheckTarget(l) \/ RenamePartial(l)
    BY <2>5 DEF CheckTarget, RenamePartial, Return, Touch
  <2>6. CASE CreateSidecar(l) \/ CreateJournal(l) \/ WriteJournal(l) \/
            OpenPartial(l) \/ FinishCopy(l) \/ CheckCopy(l)
    BY <2>6 DEF CreateSidecar, CreateJournal, WriteJournal, OpenPartial, FinishCopy,
       CheckCopy, Own, Waiting, Return, CopyAccepted
  <2>7. CASE RenameSidecar(l)
    <3>1. pc'[l] = "unwind" /\ \A m \in Launch \ {l} : pc'[m] = pc[m]
      BY <2>7 DEF RenameSidecar, Return
    <3>2. \A m \in Launch \ {l} : sidecar'[m] = sidecar[m]
      BY <2>7 DEF RenameSidecar
    <3> QED
      BY <3>1, <3>2
  <2>8. CASE Stop(l) \/ Unwind(l) \/ End(l)
    BY <2>8 DEF Stop, Unwind, End, Return, Stoppable, Freed, Youngest
  <2>9. CASE CaptureTarget(l) \/ Crash(l)
    BY <2>9 DEF CaptureTarget, Crash, Return, Freed
  <2> QED
    BY <1>1, <2>1, <2>2, <2>3, <2>4, <2>5, <2>6, <2>7, <2>8, <2>9 DEF Step
<1>2. CASE EditTarget
  BY <1>2 DEF EditTarget, Touch
<1> QED
  BY <1>1, <1>2 DEF Next

\* A result is set once, and with the installation.
LEMMA ResultStep == IInv /\ Next => ResultInv'
<1> SUFFICES ASSUME IInv, Next PROVE ResultInv'
  OBVIOUS
<1> USE DEF IInv, TypeOK, ResultInv, Returning
<1>1. ASSUME NEW l \in Launch, CaptureTarget(l) \/ Step(l) \/ Crash(l) PROVE ResultInv'
  <2>1. CASE Scan(l) \/ ReleaseJob(l) \/ RemoveJob(l) \/ RemoveJournal(l) \/
            FinishCleanup(l)
    BY <2>1 DEF Scan, ReleaseJob, RemoveJob, RemoveJournal, FinishCleanup, Entries
  <2>2. CASE ReadJournal(l)
    BY <2>2 DEF ReadJournal
  <2>3. ASSUME NEW m \in Launch, ProbeJob(l, m) \/ ProbeJournal(l, m)
        PROVE  ResultInv'
    BY <2>3 DEF ProbeJob, ProbeJournal, Visit, Abandoned, Unlocked
  <2>4. CASE MakeDir(l)
    BY <2>4 DEF MakeDir, Own
  <2>5. CASE CreateMarker(l)
    BY <2>5 DEF CreateMarker
  <2>6. CASE LockMarker(l)
    BY <2>6 DEF LockMarker, Own, Waiting
  <2>7. CASE BuildPartial(l)
    BY <2>7 DEF BuildPartial, Own
  <2>8. CASE CheckTarget(l)
    BY <2>8 DEF CheckTarget, Return
  <2>9. CASE RenamePartial(l)
    BY <2>9 DEF RenamePartial, Return, Touch
  <2>10. CASE CreateSidecar(l) \/ CreateJournal(l) \/ WriteJournal(l) \/
            OpenPartial(l) \/ FinishCopy(l) \/ CheckCopy(l) \/ RenameSidecar(l)
    BY <2>10 DEF CreateSidecar, CreateJournal, WriteJournal, OpenPartial, FinishCopy,
       CheckCopy, RenameSidecar, Own, Waiting, Return, CopyAccepted, Touch
  <2>11. CASE Stop(l) \/ Unwind(l) \/ End(l)
    BY <2>11 DEF Stop, Unwind, End, Return, Stoppable, Freed, Youngest
  <2>12. CASE Crash(l)
    BY <2>12 DEF Crash, Freed
  <2>13. CASE CaptureTarget(l)
    <3>1. pc[l] = "off" /\ installed' = installed
      BY <2>13 DEF CaptureTarget
    <3>2. CASE Return(l, "error")
      BY <3>1, <3>2 DEF Return
    <3>3. CASE Goto(l, "scan") /\ UNCHANGED result
      BY <3>1, <3>3
    <3> QED
      BY <2>13, <3>2, <3>3 DEF CaptureTarget
  <2> QED
    BY <1>1, <2>1, <2>2, <2>3, <2>4, <2>5, <2>6, <2>7, <2>8, <2>9, <2>10,
     <2>11, <2>12, <2>13 DEF Step
<1>2. CASE EditTarget
  BY <1>2 DEF EditTarget, Touch
<1> QED
  BY <1>1, <1>2 DEF Next

\* After the check, a changed output is noticed as late.
LEMMA ConfirmedStep == IInv /\ Next => ConfirmedInv'
<1> SUFFICES ASSUME IInv, Next PROVE ConfirmedInv'
  OBVIOUS
<1> USE DEF IInv, TypeOK, ConfirmedInv, AtRename
<1>1. ASSUME NEW l \in Launch, CaptureTarget(l) \/ Step(l) \/ Crash(l) PROVE ConfirmedInv'
  <2>1. CASE Scan(l) \/ ReleaseJob(l) \/ RemoveJob(l) \/ ReadJournal(l) \/
            RemoveJournal(l) \/ FinishCleanup(l)
    BY <2>1 DEF Scan, ReleaseJob, RemoveJob, ReadJournal, RemoveJournal, FinishCleanup,
       Entries
  <2>2. ASSUME NEW m \in Launch, ProbeJob(l, m) \/ ProbeJournal(l, m)
        PROVE  ConfirmedInv'
    BY <2>2 DEF ProbeJob, ProbeJournal, Visit, Abandoned, Unlocked
  <2>3. CASE MakeDir(l) \/ CreateMarker(l) \/ LockMarker(l) \/ BuildPartial(l)
    BY <2>3 DEF MakeDir, CreateMarker, LockMarker, BuildPartial, Own, Waiting
  <2>4. CASE CheckTarget(l)
    BY <2>4 DEF CheckTarget, Return
  <2>5. CASE RenamePartial(l)
    <3>1. stamp' = stamp /\ pc'[l] = "unwind" /\ \A m \in Launch \ {l} : pc'[m] = pc[m]
      BY <2>5 DEF RenamePartial, Return
    <3>2. \/ UNCHANGED <<target, late>>
          \/ \A m \in Launch \ {l} : pc[m] \in AtRename => m \in late'
      BY <2>5 DEF RenamePartial, Touch
    <3> QED
      BY <3>1, <3>2
  <2>6. CASE CreateSidecar(l) \/ CreateJournal(l) \/ WriteJournal(l) \/
            OpenPartial(l) \/ FinishCopy(l) \/ CheckCopy(l)
    BY <2>6 DEF CreateSidecar, CreateJournal, WriteJournal, OpenPartial, FinishCopy,
       CheckCopy, Own, Waiting, Return, CopyAccepted
  <2>7. CASE RenameSidecar(l)
    <3>1. stamp' = stamp /\ pc'[l] = "unwind" /\ \A m \in Launch \ {l} : pc'[m] = pc[m]
      BY <2>7 DEF RenameSidecar, Return
    <3>2. \/ UNCHANGED <<target, late>>
          \/ \A m \in Launch \ {l} : pc[m] \in AtRename => m \in late'
      BY <2>7 DEF RenameSidecar, Touch
    <3> QED
      BY <3>1, <3>2
  <2>8. CASE Stop(l) \/ Unwind(l) \/ End(l)
    BY <2>8 DEF Stop, Unwind, End, Return, Stoppable, Freed, Youngest
  <2>9. CASE CaptureTarget(l) \/ Crash(l)
    BY <2>9 DEF CaptureTarget, Crash, Return, Freed
  <2> QED
    BY <1>1, <2>1, <2>2, <2>3, <2>4, <2>5, <2>6, <2>7, <2>8, <2>9 DEF Step
<1>2. CASE EditTarget
  BY <1>2 DEF EditTarget, Touch
<1> QED
  BY <1>1, <1>2 DEF Next

\* Only a verified file is renamed over the output.
LEMMA WholeStep == IInv /\ Next => OutputIsWhole'
<1> SUFFICES ASSUME IInv, Next PROVE OutputIsWhole'
  OBVIOUS
<1> USE DEF IInv, TypeOK, OutputIsWhole, NoFile, UserFile, Merged
<1>1. ASSUME NEW l \in Launch, CaptureTarget(l) \/ Step(l) \/ Crash(l) PROVE OutputIsWhole'
  <2>1. CASE Scan(l) \/ ReleaseJob(l) \/ RemoveJob(l) \/ ReadJournal(l) \/
            RemoveJournal(l) \/ FinishCleanup(l)
    BY <2>1 DEF Scan, ReleaseJob, RemoveJob, ReadJournal, RemoveJournal, FinishCleanup,
       Entries
  <2>2. ASSUME NEW m \in Launch, ProbeJob(l, m) \/ ProbeJournal(l, m)
        PROVE  OutputIsWhole'
    BY <2>2 DEF ProbeJob, ProbeJournal, Visit, Abandoned, Unlocked
  <2>3. CASE MakeDir(l) \/ CreateMarker(l) \/ LockMarker(l) \/ BuildPartial(l)
    BY <2>3 DEF MakeDir, CreateMarker, LockMarker, BuildPartial, Own, Waiting
  <2>4. CASE CheckTarget(l) \/ RenamePartial(l)
    BY <2>4 DEF CheckTarget, RenamePartial, Return, Touch
  <2>5. CASE CreateSidecar(l) \/ CreateJournal(l) \/ WriteJournal(l) \/
            OpenPartial(l) \/ FinishCopy(l) \/ CheckCopy(l)
    BY <2>5 DEF CreateSidecar, CreateJournal, WriteJournal, OpenPartial, FinishCopy,
       CheckCopy, Own, Waiting, Return, CopyAccepted
  <2>6. CASE RenameSidecar(l)
    BY <2>6 DEF RenameSidecar, Return, Touch, SidecarInv
  <2>7. CASE Stop(l) \/ Unwind(l) \/ End(l)
    BY <2>7 DEF Stop, Unwind, End, Return, Stoppable, Freed, Youngest
  <2>8. CASE CaptureTarget(l) \/ Crash(l)
    BY <2>8 DEF CaptureTarget, Crash, Return, Freed
  <2> QED
    BY <1>1, <2>1, <2>2, <2>3, <2>4, <2>5, <2>6, <2>7, <2>8 DEF Step
<1>2. CASE EditTarget
  BY <1>2 DEF EditTarget, Touch
<1> QED
  BY <1>1, <1>2 DEF Next

-----------------------------------------------------------------------------
\* No launch has begun, and nothing is on the disk.
LEMMA InitIInv == Init => IInv
<1> SUFFICES ASSUME Init PROVE IInv
  OBVIOUS
<1>1. TypeOK
  <2>1. << >> \in Seq(Things)
    OBVIOUS
  <2> QED
    BY <2>1 DEF Init, TypeOK, Places, Files, NoFile
<1>2. OwnInv /\ CleanInv
  BY DEF Init, OwnInv, CleanInv
<1>3. JournalInv /\ LiveCopyKept /\ DataIsJournaled /\ SidecarInv
  BY DEF Init, JournalInv, LiveCopyKept, DataIsJournaled, SidecarInv, Copying
<1>4. ResultInv /\ ConfirmedInv /\ OutputIsWhole
  BY DEF Init, ResultInv, ConfirmedInv, OutputIsWhole, Returning, AtRename, NoFile
<1> QED
  BY <1>1, <1>2, <1>3, <1>4 DEF IInv

\* No step, and no stuttering, leaves the inductive invariant.
LEMMA NextKeepsIInv == IInv /\ [Next]_vars => IInv'
<1>1. ASSUME IInv, Next PROVE IInv'
  BY <1>1, TypeStep, OwnStep, CleanStep, JournalStep, LiveCopyStep, JournaledStep,
     SidecarStep, ResultStep, ConfirmedStep, WholeStep DEF IInv
<1>2. ASSUME IInv, UNCHANGED vars PROVE IInv'
  BY <1>2 DEF vars, IInv, TypeOK, OwnInv, CleanInv, JournalInv, LiveCopyKept, DataIsJournaled,
     SidecarInv, ResultInv, ConfirmedInv, OutputIsWhole
<1> QED
  BY <1>1, <1>2

LEMMA Invariance == Spec => []IInv
BY InitIInv, NextKeepsIInv, PTL DEF Spec
-----------------------------------------------------------------------------
(***************************************************************************)
(* The properties the runs check                                           *)
(***************************************************************************)
\* The variables keep their types.
THEOREM TypeCorrect == Spec => []TypeOK
<1>1. IInv => TypeOK
  BY DEF IInv
<1> QED
  BY <1>1, Invariance, PTL

\* The output path never shows half a Pak: install_verified_output renames only
\* a file whose size and hash were compared.
THEOREM OutputIsAlwaysWhole == Spec => []OutputIsWhole
<1>1. IInv => OutputIsWhole
  BY DEF IInv
<1> QED
  BY <1>1, Invariance, PTL

\* An error or a cancellation means that this write never touched the output.
THEOREM ResultsAreHonest == Spec => []ResultTellsInstall
<1>1. IInv => ResultTellsInstall
  BY DEF IInv, ResultInv, ResultTellsInstall
<1> QED
  BY <1>1, Invariance, PTL

\* A write that returned has dropped its directory, its sidecar and its journal.
THEOREM ReturnsLeaveNothing == Spec => []NothingLeftBehind
<1>1. ASSUME IInv, NEW l \in Launch, pc[l] = "end"
      PROVE  dir[l] = "absent" /\ sidecar[l] = "absent" /\ journal[l] = "absent"
  <2>1. OwnInv /\ owned[l] = << >> /\ pc[l] # "dead"
    BY <1>1 DEF IInv, OwnInv
  <2> QED
    BY <2>1, NothingMade
<1>2. IInv => NothingLeftBehind
  BY <1>1 DEF NothingLeftBehind
<1> QED
  BY <1>2, Invariance, PTL

\* cleanup_abandoned_install_journal never takes a copy that is still running.
THEOREM LiveCopiesAreKept == Spec => []LiveCopyKept
<1>1. IInv => LiveCopyKept
  BY DEF IInv
<1> QED
  BY <1>1, Invariance, PTL

\* However many processes are killed, a sidecar with data can be found again.
THEOREM DataIsAlwaysJournaled == Spec => []DataIsJournaled
<1>1. IInv => DataIsJournaled
  BY DEF IInv
<1> QED
  BY <1>1, Invariance, PTL

\* Only the rename of a write puts its own merge at the output path.
LEMMA WhoMerges ==
  ASSUME IInv, [Next]_vars, NEW l \in Launch, target' = Merged(l), target # Merged(l)
  PROVE  (RenamePartial(l) \/ RenameSidecar(l)) /\ MayMove(l)
<1>1. Next
  BY DEF vars
<1>2. ~EditTarget
  BY DEF EditTarget, Touch, Merged, UserFile, NoFile
<1>3. PICK k \in Launch : CaptureTarget(k) \/ Step(k) \/ Crash(k)
  BY <1>1, <1>2 DEF Next
<1>4. RenamePartial(k) \/ RenameSidecar(k)
  BY <1>3 DEF Step, CaptureTarget, Crash, Scan, ProbeJob, ReleaseJob, RemoveJob, ProbeJournal,
     ReadJournal, RemoveJournal, FinishCleanup, MakeDir, CreateMarker, LockMarker, BuildPartial,
     CheckTarget, CreateSidecar, CreateJournal, WriteJournal, OpenPartial, FinishCopy, CheckCopy,
     Stop, Unwind, End
<1>5. CASE RenamePartial(k)
  <2>1. MayMove(k) /\ target' = Merged(k)
    BY <1>5 DEF RenamePartial, Touch
  <2> QED
    BY <1>5, <2>1 DEF Merged
<1>6. CASE RenameSidecar(k)
  <2>1. sidecar[k] = "whole"
    BY <1>6 DEF RenameSidecar, IInv, SidecarInv
  <2>2. MayMove(k) /\ target' = Merged(k)
    BY <1>6, <2>1 DEF RenameSidecar, Touch
  <2> QED
    BY <1>6, <2>2 DEF Merged
<1> QED
  BY <1>4, <1>5, <1>6

\* A write that found no output never replaces a file that appeared since.
THEOREM NewOutputsAreNew == Spec => NewOutputsReplaceNothing
<1>1. ASSUME IInv, [Next]_vars
      PROVE  \A l \in Launch :
               target' = Merged(l) /\ target # Merged(l) /\ stamp[l] = NoFile => target = NoFile
  BY <1>1, WhoMerges DEF MayMove
<1> QED
  BY <1>1, Invariance, PTL DEF Spec, NewOutputsReplaceNothing

\* A write replaces what was confirmed, or what changed after its last check.
THEOREM ReplacementsAreConfirmed == Spec => ReplacedWasConfirmed
<1>1. ASSUME IInv, [Next]_vars, NEW l \in Launch, target' = Merged(l), target # Merged(l)
      PROVE  target = stamp[l] \/ l \in late
  <2>1. pc[l] \in AtRename
    BY <1>1, WhoMerges DEF RenamePartial, RenameSidecar, AtRename
  <2> QED
    BY <1>1, <2>1 DEF IInv, ConfirmedInv
<1>2. ASSUME IInv, [Next]_vars
      PROVE  \A l \in Launch :
               target' = Merged(l) /\ target # Merged(l) => target = stamp[l] \/ l \in late
  BY <1>1, <1>2
<1> QED
  BY <1>2, Invariance, PTL DEF Spec, ReplacedWasConfirmed
=============================================================================
