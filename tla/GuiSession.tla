----------------------------- MODULE GuiSession -----------------------------
(***************************************************************************)
(* The window: the list of Paks and the base Pak, the inspection of each   *)
(* Pak by a pool of threads, one analysis or merge at a time on a thread   *)
(* of its own, the choices and their undo stack, and the end of it all.    *)
(*                                                                         *)
(* Every action of the user, and the handling of one message, is one step  *)
(* of the interface thread: a frame does several in a row.  What is drawn  *)
(* is left out; a button that is drawn disabled is a guard.                *)
(***************************************************************************)
EXTENDS Integers, SequencesExt

CONSTANTS
  Pak,             \* the files a user may add
  MaxPaks,         \* MAX_SUPPORTED_PAKS
  Inspector,       \* the threads of inspection_worker
  Conflict,        \* the conflicts an analysis finds,
  Informational,   \* those of them that block nothing,
  Visible,         \* and those that the search text shows
  Variants,        \* the Paks that hold a variant of each conflict
  MaxAdds,         \* bound: inspections asked for by adding a Pak
  Changing,        \* bound: the files that another program changes, once
  MaxUndo,         \* bound: length of the undo stack
  None             \* no choice, archive, session, operation or result

ASSUME GuiAssumption ==
  /\ IsFiniteSet(Pak) /\ IsFiniteSet(Inspector) /\ Inspector # {} /\ None \notin Pak
  /\ Informational \subseteq Conflict /\ Visible \subseteq Conflict
  /\ Variants \in [Conflict -> SUBSET Pak]
  /\ MaxPaks \in Nat /\ MaxAdds \in Nat /\ Changing \subseteq Pak /\ MaxUndo \in Nat

VARIABLES
  \* the world
  disk,            \* the version of each file
  accepted,        \* has_valid_consent: a record of these terms is on disk
  \* the Pak list
  paks, carrier,   \* pak_paths, carrier_index
  \* inspections
  inspections,     \* the cached inspection of each Pak, or Absent
  nextGeneration,  \* next_inspection_generation
  stopped,         \* the generations whose token is cancelled
  requests,        \* jobs sent and not taken
  open,            \* inspection_requests is still held
  inspector,       \* the job of each thread, Waiting or Gone
  results,         \* results sent and not polled
  \* analysis and merge
  session,         \* analysis_session and plan
  choices, undo,   \* resolutions and the undo stack
  pendingOverwrite,
  worker,          \* the operation under way
  workerStopped,   \* cancel_signal
  \* the window
  consentValid,    \* consent_valid: the terms are not shown
  phase            \* open, closing, closed

list == <<paks, carrier>>
pool == <<inspections, nextGeneration, stopped, requests, open, inspector, results>>
plan == <<session, choices, undo, pendingOverwrite>>
operation == <<worker, workerStopped>>
window == <<consentValid, phase>>
vars == <<disk, accepted, list, pool, plan, operation, window>>

Absent == [status |-> "absent"]
Waiting == [generation |-> 0]
Gone == [generation |-> -1]

Min2(a, b) == IF a <= b THEN a ELSE b
Max2(a, b) == IF a >= b THEN a ELSE b

IsBusy == worker # None

\* The interface thread takes part in nothing but the terms while they are shown.
Ready == phase = "open" /\ consentValid
-----------------------------------------------------------------------------
\* Inspections.

Cached(p) == inspections[p].status # "absent"
Inspection(status, generation, archive, since) ==
  [status |-> status, generation |-> generation, archive |-> archive, since |-> since]

\* The state of the pool once inspections of the Paks in ps are asked for, in
\* this order, after those of Paks in gone were dropped and cancelled.
Pool(ps, gone, cancelled) ==
  LET generation(p) == nextGeneration + SelectInSeq(ps, LAMBDA q : q = p) - 1
  IN /\ inspections' =
          [p \in Pak |->
             IF p \in ToSet(ps) THEN Inspection("pending", generation(p), None, disk[p])
             ELSE IF p \in gone THEN Absent ELSE inspections[p]]
     /\ nextGeneration' = nextGeneration + Len(ps)
     /\ stopped' = stopped \cup cancelled
     /\ requests' = requests \o [i \in 1..Len(ps) |-> [pak |-> ps[i], generation |-> generation(ps[i])]]
     /\ UNCHANGED <<open, inspector, results>>

\* Mutant: a dropped inspection goes on.
QueuedNotCancelling(ps, gone) == Pool(ps, gone, {})
Queued(ps, gone) == Pool(ps, gone, {inspections[p].generation : p \in {q \in gone : Cached(q)}})

HasArchive(p) == Cached(p) /\ inspections[p].archive # None
-----------------------------------------------------------------------------
\* Choices.  A choice names the Pak whose variant is taken; a command on the
\* undo stack holds what each conflict it changed had before.

NoChoices == [c \in Conflict |-> None]
Unresolved == {c \in Conflict \ Informational : choices[c] = None}

\* ResolutionUndo::restore.
\* Mutant: one choice of a batch is put back.
RestoredFirst(command) ==
  LET told == CHOOSE k \in DOMAIN command : TRUE IN [choices EXCEPT ![told] = command[told]]
Restored(command) ==
  [c \in Conflict |-> IF c \in DOMAIN command THEN command[c] ELSE choices[c]]

\* collect_bulk_updates: one Pak for the shown conflicts that need a choice.
BulkUpdates(p) == {c \in Unresolved \cap Visible : p \in Variants[c]}

\* apply_bulk_updates and choose_variant: what already has the value is no change.
Applied(cs, p) ==
  LET changed == {c \in cs : choices[c] # p}
  IN  /\ choices' = [c \in Conflict |-> IF c \in changed THEN p ELSE choices[c]]
      /\ undo' = IF changed = {} THEN undo ELSE Append(undo, [c \in changed |-> choices[c]])

\* invalidate_analysis.
\* Mutant: the question about the output stays.
InvalidatedKeepingQuestion ==
  /\ session' = None /\ choices' = NoChoices /\ undo' = <<>>
  /\ UNCHANGED pendingOverwrite

Invalidated ==
  /\ session' = None /\ choices' = NoChoices /\ undo' = <<>>
  /\ pendingOverwrite' = FALSE
-----------------------------------------------------------------------------
Init ==
  /\ disk = [p \in Pak |-> 0] /\ accepted \in BOOLEAN
  /\ paks = <<>> /\ carrier = 0
  /\ inspections = [p \in Pak |-> Absent] /\ nextGeneration = 1 /\ stopped = {}
  /\ requests = <<>> /\ open = TRUE
  /\ inspector = [i \in Inspector |-> Waiting] /\ results = <<>>
  /\ session = None /\ choices = NoChoices /\ undo = <<>>
  /\ pendingOverwrite = FALSE
  /\ worker = None /\ workerStopped = FALSE
  /\ consentValid = accepted /\ phase = "open"

\* Another program changes an input.
FileChanges ==
  /\ phase = "open"
  /\ \E p \in Changing : disk[p] = 0 /\ disk' = [disk EXCEPT ![p] = 1]
  /\ UNCHANGED <<accepted, list, pool, plan, operation, window>>

\* The command line withdraws the acceptance.
Withdraw ==
  /\ phase = "open" /\ accepted
  /\ accepted' = FALSE
  /\ UNCHANGED <<disk, list, pool, plan, operation, window>>

\* Once a second, and before each operation, the record is read again.
LooksAtConsent ==
  /\ Ready /\ ~accepted
  /\ consentValid' = FALSE
  /\ UNCHANGED <<disk, accepted, list, pool, plan, operation, phase>>

\* The user accepts the terms that are shown.  Writing the record may fail,
\* before it is in place or when its directory is synced.
Accept ==
  /\ phase = "open" /\ ~consentValid
  /\ \/ accepted' = TRUE /\ consentValid' = TRUE
     \/ accepted' \in {accepted, TRUE} /\ UNCHANGED consentValid
  /\ UNCHANGED <<disk, list, pool, plan, operation, phase>>
-----------------------------------------------------------------------------
\* The list.

\* add_path: also for files dropped on the window while it asks a question.
AddPak(p) ==
  /\ Ready /\ ~IsBusy
  /\ p \notin ToSet(paks) /\ Len(paks) < MaxPaks /\ nextGeneration <= MaxAdds
  /\ paks' = Append(paks, p)
  /\ carrier' = IF carrier >= Len(paks') THEN 0 ELSE carrier
  /\ Queued(<<p>>, {}) /\ Invalidated
  /\ UNCHANGED <<disk, accepted, operation, window>>

\* The base Pak stays the base Pak unless it is the one removed.
\* Mutant: the index stays as it is.
CarrierUnmoved(i) == Min2(carrier, Max2(Len(paks) - 2, 0))

CarrierAfter(i) ==
  IF Len(paks) = 1 THEN 0
  ELSE IF i < carrier THEN carrier - 1 ELSE Min2(carrier, Len(paks) - 2)

RemovePak(i) ==
  /\ Ready /\ ~IsBusy /\ ~pendingOverwrite
  /\ paks' = RemoveAt(paks, i + 1)
  /\ carrier' = CarrierAfter(i)
  /\ Queued(<<>>, {paks[i + 1]}) /\ Invalidated
  /\ UNCHANGED <<disk, accepted, operation, window>>

SetCarrier(i) ==
  /\ Ready /\ ~IsBusy /\ ~pendingOverwrite /\ i # carrier
  /\ carrier' = i
  /\ Invalidated
  /\ UNCHANGED <<disk, accepted, paks, pool, operation, window>>
-----------------------------------------------------------------------------
\* inspection_worker: a thread takes a job, opens the Pak, and sends the result.
\* The job holds the version it opened.

Take(i) ==
  /\ inspector[i] = Waiting /\ requests # <<>>
  /\ requests' = Tail(requests)
  /\ LET job == Head(requests)
     IN  inspector' = [inspector EXCEPT ![i] = [pak |-> job.pak, generation |-> job.generation,
                                                version |-> disk[job.pak]]]
  /\ UNCHANGED <<inspections, nextGeneration, stopped, open, results>>

Busy(i) == inspector[i] \notin {Waiting, Gone}

\* Mutant: a panic is not caught.
SendOrPanic(i) ==
  /\ Busy(i)
  /\ results' \in {results, Append(results, [pak |-> inspector[i].pak,
                                            generation |-> inspector[i].generation,
                                            archive |-> inspector[i].version])}
  /\ inspector' = [inspector EXCEPT ![i] = IF results' = results THEN Gone ELSE Waiting]
  /\ UNCHANGED <<inspections, nextGeneration, stopped, requests, open>>

\* A cancelled inspection ends with an error or, if it was about to end, well;
\* one that is not may fail at any time, or panic, which is caught.
Send(i) ==
  /\ Busy(i)
  /\ \E archive \in {inspector[i].version, None} :
       results' = Append(results, [pak |-> inspector[i].pak,
                                   generation |-> inspector[i].generation,
                                   archive |-> archive])
  /\ inspector' = [inspector EXCEPT ![i] = Waiting]
  /\ UNCHANGED <<inspections, nextGeneration, stopped, requests, open>>

\* The sender is dropped and no job is left: the thread ends.
Leave(i) ==
  /\ inspector[i] = Waiting /\ requests = <<>> /\ ~open
  /\ inspector' = [inspector EXCEPT ![i] = Gone]
  /\ UNCHANGED <<inspections, nextGeneration, stopped, requests, open, results>>

Inspect(i) ==
  /\ Take(i) \/ Send(i) \/ Leave(i)
  /\ UNCHANGED <<disk, accepted, list, plan, operation, window>>

\* apply_inspection_result.
\* Mutant: a result is for whatever inspection its Pak has now.
IsAwaitedByPath(m) == Cached(m.pak)
IsAwaited(m) == Cached(m.pak) /\ inspections[m.pak].generation = m.generation

PollInspections ==
  /\ Ready /\ results # <<>>
  /\ results' = Tail(results)
  /\ LET m == Head(results)
     IN  inspections' =
           IF ~IsAwaited(m) THEN inspections
           ELSE [inspections EXCEPT ![m.pak] =
                   Inspection(IF m.archive = None THEN "failed" ELSE "supported",
                              m.generation, m.archive, inspections[m.pak].since)]
  /\ UNCHANGED <<disk, accepted, list, nextGeneration, stopped, requests, open, inspector,
                 plan, operation, window>>
-----------------------------------------------------------------------------
\* Analysis and merge.

Inputs == [paks |-> paks, carrier |-> paks[carrier + 1],
           archives |-> [p \in ToSet(paks) |-> inspections[p].archive]]

Operation(kind, inputs, overwrite) ==
  [kind |-> kind, inputs |-> inputs, overwrite |-> overwrite, result |-> None]

Start(op) == worker' = op /\ workerStopped' = FALSE

StartAnalysis ==
  /\ Ready /\ ~IsBusy /\ ~pendingOverwrite /\ accepted
  /\ Len(paks) >= 2 /\ \A p \in ToSet(paks) : HasArchive(p)
  /\ Start(Operation("analysis", Inputs, FALSE))
  /\ Invalidated
  /\ UNCHANGED <<disk, accepted, list, pool, window>>

CanMerge == ~IsBusy /\ session # None /\ Unresolved = {}

\* request_merge_output: a file that is there is asked about.  Any program may
\* create or remove a file at the output path, so each look at it goes either way.
AskOverwrite ==
  /\ Ready /\ ~pendingOverwrite /\ CanMerge
  /\ pendingOverwrite' = TRUE
  /\ UNCHANGED <<disk, accepted, list, pool, session, choices, undo, operation, window>>

StartMerge(overwrite) ==
  /\ Start(Operation("merge", session, overwrite))
  /\ UNCHANGED <<session, choices, undo>>

MergeToNew ==
  /\ Ready /\ ~pendingOverwrite /\ CanMerge /\ accepted
  /\ StartMerge(FALSE)
  /\ UNCHANGED <<disk, accepted, list, pool, pendingOverwrite, window>>

Replace ==
  /\ Ready /\ pendingOverwrite
  /\ pendingOverwrite' = FALSE
  /\ \/ accepted /\ StartMerge(TRUE) /\ UNCHANGED consentValid
     \/ ~accepted /\ consentValid' = FALSE
        /\ UNCHANGED <<operation, session, choices, undo>>
  /\ UNCHANGED <<disk, accepted, list, pool, phase>>

KeepExisting ==
  /\ Ready /\ pendingOverwrite
  /\ pendingOverwrite' = FALSE
  /\ UNCHANGED <<disk, accepted, list, pool, session, choices, undo, operation, window>>

CancelOperation ==
  /\ Ready /\ IsBusy /\ ~workerStopped
  /\ workerStopped' = TRUE
  /\ UNCHANGED <<disk, accepted, list, pool, plan, worker, window>>

\* The thread of the operation looks at the stamps of its inputs, and a merge at
\* its output before that, and goes no further when one has changed.
Verify ==
  /\ IsBusy /\ worker.result = None
  /\ \E r \in {"failed", "changed", "verified"} :
       /\ r = "failed" \/ (~workerStopped /\
            (r = "changed") = (\E p \in ToSet(worker.inputs.paks) : worker.inputs.archives[p] # disk[p]))
       /\ r = "failed" => workerStopped \/ (worker.kind = "merge" /\ ~worker.overwrite)
       /\ worker' = [worker EXCEPT !.result = r]
  /\ UNCHANGED <<disk, accepted, list, pool, plan, workerStopped, window>>

\* Then it ends well, or with an error: cancellation, a panic that is caught, or
\* any other.
Finish ==
  /\ IsBusy /\ worker.result = "verified"
  /\ \E r \in {"done", "failed"} : worker' = [worker EXCEPT !.result = r]
  /\ UNCHANGED <<disk, accepted, list, pool, plan, workerStopped, window>>

WorkerThread == Verify \/ Finish
Ended == IsBusy /\ worker.result \in {"done", "changed", "failed"}

\* poll_worker; the thread that has sent its result is joined.
PollWorker ==
  /\ Ready /\ Ended
  /\ worker' = None /\ workerStopped' = FALSE
  /\ \/ /\ worker.result = "done" /\ worker.kind = "analysis"
        /\ session' = worker.inputs /\ choices' = NoChoices /\ undo' = <<>>
        /\ UNCHANGED <<pendingOverwrite, pool>>
     \/ /\ worker.result = "changed"
        /\ Invalidated /\ Queued(paks, ToSet(paks))
     \/ /\ worker.result = "failed" \/ (worker.result = "done" /\ worker.kind = "merge")
        /\ UNCHANGED <<plan, pool>>
  /\ UNCHANGED <<disk, accepted, list, window>>
-----------------------------------------------------------------------------
\* The choices; a merge under way has its own copy of them.

MayChoose == Ready /\ ~pendingOverwrite /\ session # None
Rest == <<disk, accepted, list, pool, session, pendingOverwrite, operation, window>>

ChooseVariant(c, p) ==
  /\ MayChoose /\ c \in Visible \ Informational /\ p \in Variants[c] \cap ToSet(session.paks)
  /\ choices[c] # p /\ Len(undo) < MaxUndo
  /\ Applied({c}, p)
  /\ UNCHANGED Rest

ApplyBulk(p) ==
  /\ MayChoose /\ p \in ToSet(session.paks) /\ BulkUpdates(p) # {} /\ Len(undo) < MaxUndo
  /\ Applied(BulkUpdates(p), p)
  /\ UNCHANGED Rest

UndoLast ==
  /\ MayChoose /\ undo # <<>>
  /\ choices' = Restored(Last(undo)) /\ undo' = Front(undo)
  /\ UNCHANGED Rest
-----------------------------------------------------------------------------
\* shutdown_background_work: everything is told to stop before it is joined.

\* Mutant: only the operation is told.
StopOperationOnly == workerStopped' = IsBusy /\ UNCHANGED stopped
StopAll ==
  /\ workerStopped' = IsBusy
  /\ stopped' = stopped \cup {inspections[p].generation : p \in {q \in Pak : Cached(q)}}

\* Mutant: the sender is dropped with the window, after its threads are joined.
RequestsStayOpen == UNCHANGED open
RequestsClose == open' = FALSE

Close ==
  /\ phase = "open"
  /\ phase' = "closing" /\ RequestsClose
  /\ StopAll
  /\ UNCHANGED <<disk, accepted, list, inspections, nextGeneration, requests, inspector, results,
                 plan, worker, consentValid>>

Closed ==
  /\ phase = "closing"
  /\ Ended \/ ~IsBusy
  /\ \A i \in Inspector : inspector[i] = Gone
  /\ phase' = "closed" /\ worker' = None /\ workerStopped' = FALSE
  /\ UNCHANGED <<disk, accepted, list, pool, plan, consentValid>>

Index == 0..Len(paks) - 1

Next ==
  \/ FileChanges \/ Withdraw \/ LooksAtConsent \/ Accept
  \/ \E p \in Pak : AddPak(p) \/ ApplyBulk(p) \/ \E c \in Conflict : ChooseVariant(c, p)
  \/ \E i \in Index : RemovePak(i) \/ SetCarrier(i)
  \/ \E i \in Inspector : Inspect(i)
  \/ PollInspections \/ PollWorker \/ WorkerThread
  \/ StartAnalysis \/ AskOverwrite \/ MergeToNew \/ Replace \/ KeepExisting
  \/ CancelOperation \/ UndoLast \/ Close \/ Closed

Spec == Init /\ [][Next]_vars

\* Threads run, and frames are drawn, whatever the user does.
FairSpec ==
  /\ Spec
  /\ \A i \in Inspector : WF_vars(Inspect(i))
  /\ WF_vars(WorkerThread) /\ WF_vars(PollInspections) /\ WF_vars(PollWorker) /\ WF_vars(Closed)
-----------------------------------------------------------------------------
\* What is on the screen is of the Paks in the list: the plan was made from the
\* archives that are shown and the base Pak that is marked, and a question about
\* the output is asked for a plan with every choice made (gui.rs:750).
PlanIsOfTheList ==
  /\ session # None => paks # <<>> /\ session = Inputs
  /\ pendingOverwrite => session # None /\ Unresolved = {} /\ ~IsBusy

\* An archive was opened no earlier than its Pak was added, or found changed: a
\* result that answers an earlier inspection of the path is dropped (gui.rs:868).
ArchivesAreFresh ==
  \A p \in Pak : HasArchive(p) => inspections[p].archive >= inspections[p].since

\* Undoing everything leads back to no choice at all, through single choices,
\* batches and choices changed twice: a conflict that no command tells of has no
\* choice, and the oldest command that tells of it, undone last, puts back none
\* (gui.rs:1211).
UndoUnwinds ==
  \A c \in Conflict :
    /\ (\A k \in DOMAIN undo : c \notin DOMAIN undo[k]) => choices[c] = None
    /\ \A k \in DOMAIN undo :
         c \in DOMAIN undo[k] /\ (\A j \in 1..k - 1 : c \notin DOMAIN undo[j])
           => undo[k][c] = None

\* The window joins its threads only after each of their jobs, the queued and
\* the dropped ones too, has had its token cancelled (gui.rs:1203).
StoppedBeforeJoin ==
  phase = "closing" =>
    /\ \A i \in 1..Len(requests) : requests[i].generation \in stopped
    /\ \A i \in Inspector : Busy(i) => inspector[i].generation \in stopped
    /\ IsBusy => workerStopped

\* The base Pak is the same file after a Pak is added or removed, as long as it
\* is in the list (gui.rs:785).
BasePakStays ==
  [][\A p \in Pak :
       (paks # <<>> /\ paks' # paks /\ p = paks[carrier + 1] /\ p \in ToSet(paks'))
         => p = paks'[carrier' + 1]]_vars

\* Closing ends: no thread waits for another (gui.rs:1193).
ClosingEnds == (phase = "closing") ~> (phase = "closed")

\* An inspection that is shown as pending is answered, whatever was dropped or
\* cancelled before it: once the user adds no more, nothing is pending
\* (gui.rs:894).
InspectionsAnswered ==
  []<>(~Ready \/ \A p \in Pak : inspections[p].status # "pending")
=============================================================================
