---------------------------- MODULE SessionTask ----------------------------
(***************************************************************************)
(* SessionTaskCoordinator (lib/session-task.js): the immutable association *)
(* of one session with a task that Core manages, in one runtime beside     *)
(* others that share the stored record.  The record is created once and    *)
(* never replaced.  The runtime runs one operation at a time (serial), but *)
(* between an operation's loads, its questions to Core and its save the    *)
(* store, Core and the other runtimes move on.                             *)
(*                                                                         *)
(* A record is the task together with the terms Core stated for it (scope  *)
(* hash, members and their tools).  Of the failure codes only TASK_STORE_* *)
(* is told apart, the rest is "other"; of the task states only "active".   *)
(* The session's scope is a locked business scope, whose checks may fail   *)
(* wherever they are made.                                                 *)
(***************************************************************************)
EXTENDS Naturals

CONSTANTS
  Task,            \* tasks a user may associate with the session
  Terms,           \* what Core may state about a task
  NoTask, NoRecord, NoAnswer,
  MaxChanges,      \* bound: how often Core's answers change
  MaxRemovals,     \* bound: how often the record file is removed
  MaxRestarts      \* bound: how often this runtime restarts

Record == [task : Task, terms : Terms]
Core == [mode : {"optional", "required"}, active : SUBSET Task, terms : Terms]

ASSUME TaskAbsent == NoTask \notin Task
ASSUME RecordAbsent == NoRecord \notin Record
ASSUME AnswerAbsent == NoAnswer \notin Record \cup {NoRecord} \cup Core
ASSUME Bounds == {MaxChanges, MaxRemovals, MaxRestarts} \subseteq Nat

VARIABLES
  stored,      \* the durable record
  core,        \* external: what Core says when it is asked
  entry,       \* what the runtime keeps of the association
  op,          \* the operation under way
  answer,      \* what binding({dispatch: true}) just allowed to dispatch with
  held,        \* history: the first record this runtime learned of
  unsaved,     \* history: a save failed and no restore succeeded since
  during,      \* history: what Core would have said since the operation began
  changes, removals, restarts

counters == <<changes, removals, restarts>>
history == <<held, unsaved, during>>
bindingVars == <<stored, core, entry, op, answer, history, counters>>

Entry == [record : Record \cup {NoRecord}, pending : Record \cup {NoRecord},
          intended : Task \cup {NoTask}, failure : {"none", "store", "other"}, active : BOOLEAN]
Kind == {"set", "refresh", "restore", "dispatch", "coordinates"}
Operation == [kind : Kind, pc : {"idle", "read", "verify", "confirm", "save", "again"},
              task : Task \cup {NoTask}, said : Core \cup {NoAnswer}]

TaskTypeOK ==
  /\ stored \in Record \cup {NoRecord}
  /\ core \in Core
  /\ entry \in Entry
  /\ op \in Operation
  /\ answer \in Record \cup {NoRecord, NoAnswer}
  /\ held \in Record \cup {NoRecord}
  /\ unsaved \in BOOLEAN
  /\ during \subseteq Core
  /\ changes \in 0..MaxChanges
  /\ removals \in 0..MaxRemovals /\ restarts \in 0..MaxRestarts
  /\ op.pc \in {"confirm", "save"} => op.said # NoAnswer
  /\ op.pc = "save" => entry.pending # NoRecord

NewEntry == [record |-> NoRecord, pending |-> NoRecord, intended |-> NoTask,
             failure |-> "none", active |-> FALSE]

NoOperation == [kind |-> "refresh", pc |-> "idle", task |-> NoTask, said |-> NoAnswer]

TaskInit ==
  /\ stored = NoRecord
  /\ core \in Core
  /\ entry = NewEntry
  /\ op = NoOperation
  /\ answer = NoAnswer
  /\ held = NoRecord
  /\ unsaved = FALSE
  /\ during = {}
  /\ changes = 0 /\ removals = 0 /\ restarts = 0

Goto(pc) == op' = [op EXCEPT !.pc = pc]
Return == op' = NoOperation /\ during' = {}

\* fail: a store failure stays until a restore succeeds.
Failed(e, code) == [e EXCEPT !.failure = IF @ = "store" THEN "store" ELSE code]

\* The operation throws.  coordinates reports its errors and keeps none.
Throws(e, code) ==
  /\ entry' = IF op.kind = "coordinates" THEN e ELSE Failed(e, code)
  /\ unsaved' = (unsaved \/ op.pc = "save")
  /\ Return

-----------------------------------------------------------------------------
(* calls *)

BeginOperation(kind, t) ==
  /\ op' = [NoOperation EXCEPT !.kind = kind, !.pc = "read", !.task = t]
  /\ during' = {core}

StoreFailed == entry.failure = "store"

SetRefused(t) == entry.intended \notin {NoTask, t}

\* A call that waits in the queue is one made when its turn comes.
SetStart(t) ==
  /\ op.pc = "idle"
  /\ answer' = NoAnswer
  /\ entry' = IF SetRefused(t) THEN Failed(entry, "other") ELSE [entry EXCEPT !.intended = t]
  /\ IF SetRefused(t) \/ StoreFailed THEN UNCHANGED <<op, during>> ELSE BeginOperation("set", t)
  /\ UNCHANGED <<stored, core, held, unsaved, counters>>

\* refresh, binding and coordinates end at once while a store failure stands.
Start(kind) ==
  /\ op.pc = "idle"
  /\ kind = "restore" \/ ~ StoreFailed
  /\ answer' = NoAnswer
  /\ BeginOperation(kind, NoTask)
  /\ UNCHANGED <<stored, core, entry, held, unsaved, counters>>

-----------------------------------------------------------------------------
(* the steps of an operation *)

MissingIsFine ==                 \* a faulty StillOriginal
  stored # NoRecord => {entry.record, entry.pending} \subseteq {NoRecord, stored}

\* read: a record that was there is there and the same, and while one is
\* unsaved no other may appear.
StillOriginal ==
  /\ entry.record # NoRecord => stored = entry.record
  /\ stored # NoRecord /\ entry.pending # NoRecord => stored = entry.pending

\* restore saves the pending record when there is none.
Restores(r) == op.kind = "restore" /\ entry.pending # NoRecord /\ r = NoRecord

\* A record is missing, or another task's, or not settled, once r was read.
Refused(r) ==
  CASE op.kind = "set" -> \E known \in {r, entry.pending} : known # NoRecord /\ known.task # op.task
    [] op.kind = "coordinates" -> entry.pending # NoRecord \/ (r = NoRecord /\ entry.intended # NoTask)
    [] OTHER -> r = NoRecord /\ entry.intended # NoTask /\ ~ Restores(r)

\* The task Core is asked about, if any.
TaskOf(r) ==
  IF op.kind = "set" THEN op.task
  ELSE IF r # NoRecord THEN r.task
  ELSE IF Restores(r) THEN entry.pending.task ELSE NoTask

Learned(r) == held' = IF held = NoRecord THEN r ELSE held

Read ==
  /\ op.pc = "read"
  /\ LET e == [entry EXCEPT !.record = stored] IN
       IF ~ StillOriginal THEN Throws(entry, "other") /\ UNCHANGED held
       ELSE /\ Learned(stored)
            /\ IF Refused(stored) THEN Throws(e, "other")
               ELSE /\ entry' = e
                    /\ op' = [op EXCEPT !.pc = "verify", !.task = TaskOf(stored)]
                    /\ UNCHANGED <<unsaved, during>>
  /\ UNCHANGED <<stored, core, answer, counters>>

\* The store cannot be read, or holds a record that is not well-formed.
ReadFailed ==
  /\ op.pc \in {"read", "again"}
  /\ \E code \in {"store", "other"} : Throws(entry, code)
  /\ UNCHANGED <<stored, core, answer, held, counters>>

\* verify: Core is asked for the task, or whether a task is required.
Verify ==
  /\ op.pc = "verify"
  /\ op' = [op EXCEPT !.pc = "confirm", !.said = core]
  /\ UNCHANGED <<stored, core, entry, answer, history, counters>>

\* No answer, an answer that does not match, or a scope that is not usable.
VerifyFailed ==
  /\ op.pc \in {"verify", "confirm"}
  /\ Throws(entry, "other")
  /\ UNCHANGED <<stored, core, answer, held, counters>>

\* The record that what Core said makes.
Stated == [task |-> op.task, terms |-> op.said.terms]

OnceActive == entry.active \/ op.task \in op.said.active      \* a faulty TaskIsActive
TaskIsActive == op.task \in op.said.active
TaskRequired(r) == r = NoRecord /\ op.said.mode = "required"

\* How an operation leaves the entry when nothing is wrong.
Settled(e) ==
  CASE op.kind = "coordinates" -> e
    [] op.kind = "set" -> [e EXCEPT !.active = TaskIsActive, !.failure = "none"]
    [] OTHER -> [e EXCEPT !.active = IF e.record = NoRecord THEN @ ELSE TaskIsActive,
                          !.pending = IF e.record = NoRecord THEN @ ELSE NoRecord,
                          !.failure = IF TaskRequired(e.record) THEN "other" ELSE "none"]

Succeeds(e) ==
  /\ entry' = Settled(e)
  /\ unsaved' = (unsaved /\ op.kind # "restore")
  /\ Return

\* A dispatch goes ahead with the record, or without a task.
Allows(e) ==
  /\ op.kind = "dispatch" /\ e.failure = "none"
  /\ e.record = NoRecord \/ e.active

\* A record has to be saved: a new one by set, the pending one by restore.
MustSave == entry.record = NoRecord /\ (op.kind = "set" \/ Restores(NoRecord))

\* The record is not what Core says now.
Differs == entry.record # NoRecord /\ entry.record # Stated

Confirmed ==
  /\ op.pc = "confirm"
  /\ IF MustSave
       THEN /\ entry' = [entry EXCEPT !.pending = IF op.kind = "set" THEN Stated ELSE @]
            /\ Goto("save")
            /\ UNCHANGED <<answer, unsaved, during>>
     ELSE IF Differs THEN Throws(entry, "other") /\ UNCHANGED answer
     ELSE IF op.kind = "coordinates" THEN Goto("again") /\ UNCHANGED <<entry, answer, unsaved, during>>
     ELSE /\ Succeeds(entry)
          /\ answer' = IF Allows(Settled(entry)) THEN entry.record ELSE NoAnswer
  /\ UNCHANGED <<stored, core, held, counters>>

SavesOver == TRUE                \* a faulty CanCreate

\* save(..., null) creates the record or conflicts.
CanCreate == stored = NoRecord

Saved ==
  /\ op.pc = "save"
  /\ CanCreate
  /\ stored' = entry.pending
  /\ LET e == [entry EXCEPT !.record = entry.pending, !.pending = NoRecord] IN
       /\ Learned(e.record)
       /\ IF e.record = Stated THEN Succeeds(e)
          ELSE entry' = Failed(e, "other") /\ Return /\ UNCHANGED unsaved
  /\ UNCHANGED <<core, answer, counters>>

\* Refused, or failed, or created without an answer: the record stays pending.
NotSaved ==
  /\ op.pc = "save"
  /\ UNCHANGED stored \/ (CanCreate /\ stored' = entry.pending)
  /\ Throws(entry, "store")
  /\ UNCHANGED <<core, answer, held, counters>>

\* The second read of coordinates, which catches a concurrent binding.
ReadAgain ==
  /\ op.pc = "again"
  /\ IF StillOriginal
       THEN entry' = [entry EXCEPT !.record = stored] /\ Learned(stored)
       ELSE UNCHANGED <<entry, held>>
  /\ Return
  /\ UNCHANGED <<stored, core, answer, unsaved, counters>>

-----------------------------------------------------------------------------
(* the environment *)

\* External.  A task is paused or resumed, a task becomes required, or the
\* terms change.
CoreChanges ==
  /\ changes < MaxChanges
  /\ changes' = changes + 1
  /\ core' \in Core \ {core}
  /\ during' = IF op.pc = "idle" THEN {} ELSE during \cup {core'}
  /\ UNCHANGED <<stored, entry, op, answer, held, unsaved, removals, restarts>>

\* Another runtime creates the record, with any task of its user's.
OtherSaves ==
  /\ stored = NoRecord
  /\ stored' \in Record
  /\ UNCHANGED <<core, entry, op, answer, history, counters>>

\* Somebody removes the record file while runtimes use it.
Remove ==
  /\ removals < MaxRemovals
  /\ stored # NoRecord
  /\ stored' = NoRecord
  /\ removals' = removals + 1
  /\ UNCHANGED <<core, entry, op, answer, history, changes, restarts>>

Restart ==
  /\ restarts < MaxRestarts
  /\ restarts' = restarts + 1
  /\ stored' \in {stored} \cup IF op.pc = "save" /\ CanCreate THEN {entry.pending} ELSE {}
  /\ entry' = NewEntry
  /\ answer' = NoAnswer
  /\ held' = NoRecord /\ unsaved' = FALSE
  /\ Return
  /\ UNCHANGED <<core, changes, removals>>

-----------------------------------------------------------------------------
Step ==
  \/ Read \/ ReadFailed \/ Verify \/ VerifyFailed \/ Confirmed
  \/ Saved \/ NotSaved \/ ReadAgain

TaskNext ==
  \/ \E t \in Task : SetStart(t)
  \/ \E kind \in Kind \ {"set"} : Start(kind)
  \/ Step
  \/ CoreChanges \/ OtherSaves \/ Remove \/ Restart

TaskSpec == TaskInit /\ [][TaskNext]_bindingVars
-----------------------------------------------------------------------------
(* Properties *)

\* The durable association is never switched: whichever runtime selects
\* whatever task, whatever answers get lost, the first record stays.
BindingNeverChanges == [][stored # NoRecord => stored' = stored \/ Remove]_bindingVars

\* A runtime that once learned of the association never dispatches without it
\* or with another, and one that was asked for one never without any, even when
\* the file disappears: nothing falls back to an unmanaged call.
OriginalBindingOnly ==
  answer # NoAnswer =>
    /\ held # NoRecord => answer = held
    /\ entry.intended # NoTask => answer # NoRecord

\* After a save that failed or lost its answer nothing is dispatched until a
\* restore succeeds, whatever refreshes and other selections come between.
BlockedWhileUnsaved == unsaved => answer = NoAnswer

\* Dispatch rests on what Core says during this very operation: an active task
\* with the recorded terms, or that no task is required.
FreshPermission ==
  [][answer = NoAnswer /\ answer' # NoAnswer =>
       \E said \in during :
         IF answer' = NoRecord THEN said.mode = "optional"
         ELSE answer'.task \in said.active /\ answer'.terms = said.terms]_bindingVars

\* An association that is not saved is given up only for the record itself: a
\* restore saves the original one, and no later selection replaces it.
PendingIsSavedAsItWas ==
  [][entry.pending # NoRecord /\ entry'.pending # entry.pending
       => entry'.record = entry.pending \/ Restart]_bindingVars

\* An association is for good, on disk and while it waits to be saved.
AssociationIsKept == BindingNeverChanges /\ PendingIsSavedAsItWas

=============================================================================
