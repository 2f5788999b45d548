----------------------- MODULE RuntimeAndTaskProofs -----------------------
(***************************************************************************)
(* Proofs about the task of a session (SessionTask) and about the turns of *)
(* the runtime (TurnRuntime), which share no state.  Whatever they promise *)
(* holds for every set of tasks, terms and assemblies, any number of turns *)
(* and messages, however requests fail, files vanish and runtimes restart. *)
(***************************************************************************)
EXTENDS TurnRuntime, SessionTask, WellFoundedInduction, TLAPS

-----------------------------------------------------------------------------
(* The task of a session *)


Busy == op.pc # "idle"

\* Where an operation may be, and what it has found out by then.
OpInv ==
  /\ Busy => answer = NoAnswer
  /\ Busy => core \in during
  /\ Busy /\ op.kind = "set" => op.task \in Task
  /\ op.pc \in {"confirm", "save"} => op.said \in during
  /\ op.pc = "save" => op.kind \in {"set", "restore"} /\ entry.record = NoRecord
  /\ Busy /\ op.kind # "restore" => entry.failure # "store"
  /\ op.pc \in {"verify", "confirm"} /\ op.kind \in {"dispatch", "refresh"}
       => entry.record # NoRecord \/ entry.intended = NoTask

\* What the entry remembers: an unsaved record blocks the session, unless it
\* is being saved right now.
MemoryInv ==
  /\ held = entry.record
  /\ unsaved => entry.failure = "store"
  /\ entry.pending # NoRecord /\ op.pc # "save" => entry.failure = "store"
  /\ entry.pending # NoRecord /\ entry.record # NoRecord => entry.record = entry.pending

AnswerInv ==
  answer # NoAnswer =>
    /\ ~ unsaved
    /\ answer = entry.record
    /\ entry.intended # NoTask => answer # NoRecord

TaskInv == TaskTypeOK /\ OpInv /\ MemoryInv /\ AnswerInv

\* The values a runtime starts with are well-typed.
LEMMA FreshValues == NewEntry \in Entry /\ NoOperation \in Operation
  BY DEF NewEntry, Entry, NoOperation, Operation, Kind

\* The initial states satisfy the inductive invariant.
LEMMA InitTask == TaskInit => TaskInv
  <1> SUFFICES ASSUME TaskInit PROVE TaskInv
    OBVIOUS
  <1>1. op.pc = "idle" /\ entry.pending = NoRecord /\ entry.record = NoRecord
    BY DEF TaskInit, NoOperation, NewEntry
  <1>2. entry \in Entry /\ op \in Operation /\ op.pc \notin {"confirm", "save"}
    BY FreshValues, <1>1 DEF TaskInit
  <1>3. changes \in 0..MaxChanges /\ removals \in 0..MaxRemovals /\ restarts \in 0..MaxRestarts
    BY Bounds DEF TaskInit
  <1>4. TaskTypeOK
    BY <1>2, <1>3 DEF TaskInit, TaskTypeOK
  <1>5. OpInv /\ MemoryInv /\ AnswerInv
    BY <1>1 DEF TaskInit, OpInv, MemoryInv, AnswerInv, Busy
  <1> QED
    BY <1>4, <1>5 DEF TaskInv

\* fail changes the failure and nothing else of an entry.
LEMMA FailedKeeps ==
  ASSUME NEW e \in Entry, NEW code \in {"store", "other"}
  PROVE  /\ Failed(e, code) \in Entry
         /\ Failed(e, code).record = e.record
         /\ Failed(e, code).pending = e.pending
         /\ Failed(e, code).intended = e.intended
         /\ e.failure = "store" \/ code = "store" => Failed(e, code).failure = "store"
  BY DEF Failed, Entry

\* A well-ended operation keeps what the entry knows of the association.
LEMMA SettledKeeps ==
  ASSUME NEW e \in Entry
  PROVE  /\ Settled(e) \in Entry
         /\ Settled(e).record = e.record
         /\ Settled(e).intended = e.intended
         /\ Settled(e).pending \in {e.pending, NoRecord}
         /\ op.kind \in {"refresh", "restore", "dispatch"} /\ e.record # NoRecord
              => Settled(e).pending = NoRecord
         /\ op.kind = "coordinates" => Settled(e) = e
  <1>1. TaskIsActive \in BOOLEAN
    BY DEF TaskIsActive
  <1>2. CASE op.kind = "coordinates"
    BY <1>2 DEF Settled
  <1>3. CASE op.kind = "set"
    BY <1>1, <1>3 DEF Settled, Entry
  <1>4. CASE op.kind \notin {"coordinates", "set"}
    <2> DEFINE active == IF e.record = NoRecord THEN e.active ELSE TaskIsActive
    <2> DEFINE pending == IF e.record = NoRecord THEN e.pending ELSE NoRecord
    <2> DEFINE failure == IF TaskRequired(e.record) THEN "other" ELSE "none"
    <2>1. Settled(e) = [e EXCEPT !.active = active, !.pending = pending, !.failure = failure]
      BY <1>4 DEF Settled
    <2>2. active \in BOOLEAN /\ pending \in {e.pending, NoRecord} /\ failure \in {"none", "other"}
      BY <1>1 DEF Entry
    <2>3. e.record # NoRecord => pending = NoRecord
      OBVIOUS
    <2> HIDE DEF active, pending, failure
    <2> QED
      BY <1>4, <2>1, <2>2, <2>3 DEF Entry
  <1> QED
    BY <1>2, <1>3, <1>4

\* No step of the runtime, of Core or of another runtime breaks it.
LEMMA TaskStep == TaskInv /\ [TaskNext]_bindingVars => TaskInv'
  <1> SUFFICES ASSUME TaskInv, [TaskNext]_bindingVars PROVE TaskInv'
    OBVIOUS
  <1> USE RecordAbsent, TaskAbsent, AnswerAbsent, Bounds
          DEF TaskInv, TaskTypeOK, Busy, Entry, Operation, Kind, counters, history
  <1>1. ASSUME NEW t \in Task, SetStart(t) PROVE TaskInv'
    <2>1. TaskTypeOK'
      <3>1. entry' \in Entry
        BY <1>1, FailedKeeps DEF SetStart
      <3>2. op' \in Operation /\ op'.pc \notin {"confirm", "save"}
        BY <1>1 DEF SetStart, BeginOperation, NoOperation
      <3> QED
        BY <1>1, <3>1, <3>2 DEF SetStart, BeginOperation
    <2>2. OpInv'
      BY <1>1, FailedKeeps DEF SetStart, SetRefused, StoreFailed, BeginOperation, NoOperation, OpInv
    <2>3. MemoryInv'
      BY <1>1, FailedKeeps DEF SetStart, SetRefused, StoreFailed, BeginOperation, NoOperation, OpInv, MemoryInv
    <2>4. AnswerInv'
      BY <1>1, FailedKeeps DEF SetStart, SetRefused, StoreFailed, BeginOperation, NoOperation, OpInv, MemoryInv, AnswerInv
    <2> QED
      BY <2>1, <2>2, <2>3, <2>4
  <1>2. ASSUME NEW kind \in Kind \ {"set"}, Start(kind) PROVE TaskInv'
    <2>1. TaskTypeOK'
      BY <1>2 DEF Start, StoreFailed, BeginOperation, NoOperation
    <2>2. OpInv'
      BY <1>2 DEF Start, StoreFailed, BeginOperation, NoOperation, OpInv
    <2>3. MemoryInv'
      BY <1>2 DEF Start, StoreFailed, BeginOperation, NoOperation, OpInv, MemoryInv
    <2>4. AnswerInv'
      BY <1>2 DEF Start, StoreFailed, BeginOperation, NoOperation, OpInv, MemoryInv, AnswerInv
    <2> QED
      BY <2>1, <2>2, <2>3, <2>4
  <1>3. ASSUME Read PROVE TaskInv'
    <2> DEFINE e == [entry EXCEPT !.record = stored]
    <2>a. e \in Entry /\ e.record = stored /\ e.intended = entry.intended
          /\ e.failure = entry.failure /\ e.pending = entry.pending
      OBVIOUS
    <2>b. \/ Throws(entry, "other") \/ Throws(e, "other")
          \/ /\ ~ Refused(stored) /\ entry' = e /\ UNCHANGED <<unsaved, during>>
             /\ op' = [op EXCEPT !.pc = "verify", !.task = TaskOf(stored)]
      BY <1>3 DEF Read
    <2>1. TaskTypeOK'
      <3>1. entry' \in Entry
        BY <2>a, <2>b, FailedKeeps DEF Throws
      <3>2. TaskOf(stored) \in Task \cup {NoTask}
        BY DEF TaskOf, Restores, Record
      <3>3. op' \in Operation /\ op'.pc \in {"idle", "verify"}
        <4>1. CASE op' = NoOperation
          BY <4>1, FreshValues DEF NoOperation
        <4>2. CASE op' = [op EXCEPT !.pc = "verify", !.task = TaskOf(stored)]
          <5> DEFINE t == TaskOf(stored)
          <5> HIDE DEF t
          <5> QED
            BY <3>2, <4>2 DEF t
        <4> QED
          BY <2>b, <4>1, <4>2 DEF Throws, Return
      <3>4. held' \in Record \cup {NoRecord} /\ unsaved' \in BOOLEAN /\ during' \subseteq Core
        BY <1>3, <2>b DEF Read, Learned, Throws, Return
      <3> QED
        BY <1>3, <3>1, <3>3, <3>4 DEF Read
    <2>2. OpInv'
      <3>1. CASE Throws(entry, "other") \/ Throws(e, "other")
        BY <3>1 DEF Throws, Return, NoOperation, OpInv
      <3>2. CASE ~ Refused(stored) /\ entry' = e /\ op' = [op EXCEPT !.pc = "verify", !.task = TaskOf(stored)]
                 /\ UNCHANGED during
        <4>1. op'.pc = "verify" /\ op'.kind = op.kind /\ op'.task = TaskOf(stored)
          BY <3>2
        <4>2. op.kind = "set" => TaskOf(stored) \in Task
          BY <1>3 DEF TaskOf, OpInv, Read
        <4>3. op.kind \in {"dispatch", "refresh"} => stored # NoRecord \/ entry.intended = NoTask
          BY <3>2 DEF Refused, Restores
        <4> QED
          BY <1>3, <2>a, <3>2, <4>1, <4>2, <4>3 DEF OpInv, Read
      <3> QED
        BY <2>b, <3>1, <3>2
    <2>3. MemoryInv'
      BY <1>3, FailedKeeps DEF Read, Throws, Return, NoOperation, Learned, StillOriginal, Refused, TaskOf, Restores, OpInv, MemoryInv
    <2>4. AnswerInv'
      BY <1>3, FailedKeeps DEF Read, Throws, Return, NoOperation, Learned, StillOriginal, Refused, TaskOf, Restores, OpInv, MemoryInv, AnswerInv
    <2> QED
      BY <2>1, <2>2, <2>3, <2>4
  <1>4. ASSUME ReadFailed PROVE TaskInv'
    <2>1. TaskTypeOK'
      BY <1>4, FailedKeeps DEF ReadFailed, Throws, Return, NoOperation
    <2>2. OpInv'
      BY <1>4, FailedKeeps DEF ReadFailed, Throws, Return, NoOperation, OpInv
    <2>3. MemoryInv'
      BY <1>4, FailedKeeps DEF ReadFailed, Throws, Return, NoOperation, OpInv, MemoryInv
    <2>4. AnswerInv'
      BY <1>4, FailedKeeps DEF ReadFailed, Throws, Return, NoOperation, OpInv, MemoryInv, AnswerInv
    <2> QED
      BY <2>1, <2>2, <2>3, <2>4
  <1>5. ASSUME Verify PROVE TaskInv'
    <2>1. TaskTypeOK'
      BY <1>5 DEF Verify
    <2>2. OpInv'
      BY <1>5 DEF Verify, OpInv
    <2>3. MemoryInv'
      BY <1>5 DEF Verify, OpInv, MemoryInv
    <2>4. AnswerInv'
      BY <1>5 DEF Verify, OpInv, MemoryInv, AnswerInv
    <2> QED
      BY <2>1, <2>2, <2>3, <2>4
  <1>6. ASSUME VerifyFailed PROVE TaskInv'
    <2>1. TaskTypeOK'
      BY <1>6, FailedKeeps DEF VerifyFailed, Throws, Return, NoOperation
    <2>2. OpInv'
      BY <1>6, FailedKeeps DEF VerifyFailed, Throws, Return, NoOperation, OpInv
    <2>3. MemoryInv'
      BY <1>6, FailedKeeps DEF VerifyFailed, Throws, Return, NoOperation, OpInv, MemoryInv
    <2>4. AnswerInv'
      BY <1>6, FailedKeeps DEF VerifyFailed, Throws, Return, NoOperation, OpInv, MemoryInv, AnswerInv
    <2> QED
      BY <2>1, <2>2, <2>3, <2>4
  <1>7. ASSUME Confirmed PROVE TaskInv'
    <2> DEFINE e == [entry EXCEPT !.pending = IF op.kind = "set" THEN Stated ELSE @]
    <2>a. op.said \in Core /\ op.said.terms \in Terms
      BY <1>7 DEF Confirmed, Core
    <2>b. \/ /\ MustSave
             /\ entry' = [entry EXCEPT !.pending = IF op.kind = "set" THEN Stated ELSE @]
             /\ op' = [op EXCEPT !.pc = "save"]
             /\ UNCHANGED <<answer, unsaved, during>>
          \/ Throws(entry, "other") /\ UNCHANGED answer
          \/ op' = [op EXCEPT !.pc = "again"] /\ UNCHANGED <<entry, answer, unsaved, during>>
          \/ /\ ~ MustSave /\ op.kind # "coordinates"
             /\ Succeeds(entry)
             /\ answer' = IF Allows(Settled(entry)) THEN entry.record ELSE NoAnswer
      BY <1>7 DEF Confirmed, Goto
    <2>c. op.pc = "confirm" /\ UNCHANGED <<stored, core, held, counters>>
      BY <1>7 DEF Confirmed
    <2>1. CASE /\ MustSave
               /\ entry' = [entry EXCEPT !.pending = IF op.kind = "set" THEN Stated ELSE @]
               /\ op' = [op EXCEPT !.pc = "save"]
               /\ UNCHANGED <<answer, unsaved, during>>
      <3> DEFINE p == IF op.kind = "set" THEN Stated ELSE entry.pending
      <3>1. p \in Record
        BY <2>1, <2>a, <2>c DEF MustSave, Restores, OpInv, Stated, Record
      <3>2. entry' = [entry EXCEPT !.pending = p]
        BY <2>1
      <3>3. entry.record = NoRecord /\ op.kind \in {"set", "restore"}
        BY <2>1 DEF MustSave, Restores
      <3> HIDE DEF p
      <3>4. entry' \in Entry /\ entry'.pending = p /\ entry'.record = entry.record
            /\ entry'.failure = entry.failure /\ entry'.intended = entry.intended
        BY <3>1, <3>2
      <3>5. op' \in Operation /\ op'.pc = "save" /\ op'.said = op.said /\ op'.kind = op.kind /\ op'.task = op.task
        BY <2>1
      <3>6. TaskTypeOK'
        BY <2>1, <2>c, <3>1, <3>4, <3>5
      <3>7. OpInv'
        BY <2>1, <2>c, <3>3, <3>4, <3>5 DEF OpInv
      <3>8. MemoryInv'
        BY <2>1, <2>c, <3>3, <3>4, <3>5 DEF MemoryInv
      <3>9. AnswerInv'
        BY <2>1, <2>c, <3>4 DEF AnswerInv, OpInv
      <3> QED
        BY <3>6, <3>7, <3>8, <3>9
    <2>2. CASE Throws(entry, "other") /\ UNCHANGED answer
      <3>1. op' = NoOperation /\ op' \in Operation /\ during' = {} /\ answer' = NoAnswer /\ unsaved' = unsaved
        BY <2>2, <2>c, FreshValues DEF Throws, Return, OpInv
      <3>2. entry' \in {entry, Failed(entry, "other")}
        BY <2>2 DEF Throws
      <3>3. TaskTypeOK'
        BY <2>c, <3>1, <3>2, FailedKeeps DEF NoOperation
      <3>4. OpInv'
        BY <3>1 DEF OpInv, NoOperation
      <3>5. MemoryInv'
        BY <2>c, <3>1, <3>2, FailedKeeps DEF MemoryInv
      <3> QED
        BY <3>1, <3>3, <3>4, <3>5 DEF AnswerInv
    <2>3. CASE op' = [op EXCEPT !.pc = "again"] /\ UNCHANGED <<entry, answer, unsaved, during>>
      <3>1. op' \in Operation /\ op'.pc = "again" /\ op'.kind = op.kind /\ op'.task = op.task
        BY <2>3
      <3>2. TaskTypeOK'
        BY <2>3, <2>c, <3>1
      <3>3. OpInv'
        BY <2>3, <2>c, <3>1 DEF OpInv
      <3> QED
        BY <2>3, <2>c, <3>1, <3>2, <3>3 DEF MemoryInv, AnswerInv
    <2>4. CASE /\ ~ MustSave /\ op.kind # "coordinates"
               /\ Succeeds(entry)
               /\ answer' = IF Allows(Settled(entry)) THEN entry.record ELSE NoAnswer
      <3>1. op' = NoOperation /\ op' \in Operation /\ during' = {} /\ entry' = Settled(entry)
            /\ unsaved' = (unsaved /\ op.kind # "restore")
        BY <2>4, FreshValues DEF Succeeds, Return
      <3>2. /\ entry' \in Entry /\ entry'.record = entry.record /\ entry'.intended = entry.intended
            /\ entry'.pending \in {entry.pending, NoRecord}
            /\ op.kind \in {"refresh", "restore", "dispatch"} /\ entry.record # NoRecord => entry'.pending = NoRecord
        BY <3>1, SettledKeeps
      <3>3. unsaved' = FALSE
        BY <2>c, <3>1 DEF OpInv, MemoryInv
      <3>4. entry'.pending = NoRecord
        BY <2>4, <2>c, <3>2 DEF OpInv, MemoryInv, MustSave, Restores
      <3>5. TaskTypeOK'
        BY <2>4, <2>c, <3>1, <3>2, <3>3 DEF NoOperation
      <3>6. OpInv'
        BY <3>1 DEF OpInv, NoOperation
      <3>7. MemoryInv'
        BY <2>c, <3>2, <3>3, <3>4 DEF MemoryInv
      <3>8. answer' # NoAnswer => op.kind = "dispatch" /\ answer' = entry.record
        BY <2>4 DEF Allows
      <3>9. AnswerInv'
        BY <2>c, <3>2, <3>3, <3>8 DEF AnswerInv, OpInv
      <3> QED
        BY <3>5, <3>6, <3>7, <3>9
    <2> QED
      BY <2>b, <2>1, <2>2, <2>3, <2>4
  <1>8. ASSUME Saved PROVE TaskInv'
    <2> DEFINE e == [entry EXCEPT !.record = entry.pending, !.pending = NoRecord]
    <2>a. e \in Entry /\ e.record = entry.pending /\ e.pending = NoRecord /\ e.record \in Record
          /\ e.failure = entry.failure
      BY <1>8 DEF Saved
    <2>b. entry' \in {Settled(e), Failed(e, "other")}
      BY <1>8 DEF Saved, Succeeds
    <2>d. /\ op' = NoOperation /\ during' = {}
          /\ held' = IF held = NoRecord THEN e.record ELSE held
          /\ \/ unsaved' = (unsaved /\ op.kind # "restore")
             \/ entry' = Failed(e, "other") /\ unsaved' = unsaved
      BY <1>8 DEF Saved, Learned, Succeeds, Return
    <2> HIDE DEF e
    <2>c. entry' \in Entry /\ entry'.record = e.record /\ entry'.pending = NoRecord
      BY <2>a, <2>b, FailedKeeps, SettledKeeps
    <2>1. TaskTypeOK'
      <3>1. op' = NoOperation /\ op' \in Operation /\ op'.pc = "idle"
        BY <2>d, FreshValues DEF NoOperation
      <3>2. held' \in Record \cup {NoRecord} /\ unsaved' \in BOOLEAN /\ stored' \in Record
        BY <1>8, <2>a, <2>d DEF Saved
      <3> QED
        BY <1>8, <2>c, <2>d, <3>1, <3>2 DEF Saved
    <2>2. OpInv'
      BY <1>8 DEF Saved, CanCreate, Learned, Stated, Succeeds, Settled, TaskIsActive, TaskRequired, Return, NoOperation, OpInv
    <2>3. MemoryInv'
      <3>1. held' = entry'.record
        BY <1>8, <2>a, <2>c, <2>d DEF Saved, OpInv, MemoryInv
      <3>2. unsaved' => entry'.failure = "store"
        <4>1. unsaved => op.kind = "restore" /\ entry.failure = "store"
          BY <1>8 DEF Saved, OpInv, MemoryInv
        <4>2. CASE unsaved' = (unsaved /\ op.kind # "restore")
          BY <4>1, <4>2
        <4>3. CASE entry' = Failed(e, "other") /\ unsaved' = unsaved
          <5>1. unsaved => Failed(e, "other").failure = "store"
            BY <2>a, <4>1, FailedKeeps
          <5> QED
            BY <4>3, <5>1
        <4> QED
          BY <2>d, <4>2, <4>3
      <3> QED
        BY <2>c, <3>1, <3>2 DEF MemoryInv
    <2>4. AnswerInv'
      BY <1>8 DEF Saved, CanCreate, Learned, Stated, Succeeds, Settled, TaskIsActive, TaskRequired, Return, NoOperation, OpInv, MemoryInv, AnswerInv
    <2> QED
      BY <2>1, <2>2, <2>3, <2>4
  <1>9. ASSUME NotSaved PROVE TaskInv'
    <2>1. TaskTypeOK'
      BY <1>9, FailedKeeps DEF NotSaved, CanCreate, Throws, Return, NoOperation
    <2>2. OpInv'
      BY <1>9, FailedKeeps DEF NotSaved, CanCreate, Throws, Return, NoOperation, OpInv
    <2>3. MemoryInv'
      BY <1>9, FailedKeeps DEF NotSaved, CanCreate, Throws, Return, NoOperation, OpInv, MemoryInv
    <2>4. AnswerInv'
      BY <1>9, FailedKeeps DEF NotSaved, CanCreate, Throws, Return, NoOperation, OpInv, MemoryInv, AnswerInv
    <2> QED
      BY <2>1, <2>2, <2>3, <2>4
  <1>10. ASSUME ReadAgain PROVE TaskInv'
    <2>1. TaskTypeOK'
      BY <1>10 DEF ReadAgain, StillOriginal, Learned, Return, NoOperation
    <2>2. OpInv'
      BY <1>10 DEF ReadAgain, StillOriginal, Learned, Return, NoOperation, OpInv
    <2>3. MemoryInv'
      BY <1>10 DEF ReadAgain, StillOriginal, Learned, Return, NoOperation, OpInv, MemoryInv
    <2>4. AnswerInv'
      BY <1>10 DEF ReadAgain, StillOriginal, Learned, Return, NoOperation, OpInv, MemoryInv, AnswerInv
    <2> QED
      BY <2>1, <2>2, <2>3, <2>4
  <1>11. ASSUME CoreChanges PROVE TaskInv'
    <2>1. TaskTypeOK'
      BY <1>11 DEF CoreChanges
    <2>2. OpInv'
      BY <1>11 DEF CoreChanges, OpInv
    <2>3. MemoryInv'
      BY <1>11 DEF CoreChanges, OpInv, MemoryInv
    <2>4. AnswerInv'
      BY <1>11 DEF CoreChanges, OpInv, MemoryInv, AnswerInv
    <2> QED
      BY <2>1, <2>2, <2>3, <2>4
  <1>12. ASSUME OtherSaves PROVE TaskInv'
    <2>1. TaskTypeOK'
      BY <1>12 DEF OtherSaves
    <2>2. OpInv'
      BY <1>12 DEF OtherSaves, OpInv
    <2>3. MemoryInv'
      BY <1>12 DEF OtherSaves, OpInv, MemoryInv
    <2>4. AnswerInv'
      BY <1>12 DEF OtherSaves, OpInv, MemoryInv, AnswerInv
    <2> QED
      BY <2>1, <2>2, <2>3, <2>4
  <1>13. ASSUME Remove PROVE TaskInv'
    <2>1. TaskTypeOK'
      BY <1>13 DEF Remove
    <2>2. OpInv'
      BY <1>13 DEF Remove, OpInv
    <2>3. MemoryInv'
      BY <1>13 DEF Remove, OpInv, MemoryInv
    <2>4. AnswerInv'
      BY <1>13 DEF Remove, OpInv, MemoryInv, AnswerInv
    <2> QED
      BY <2>1, <2>2, <2>3, <2>4
  <1>14. ASSUME Restart PROVE TaskInv'
    <2>1. TaskTypeOK'
      <3>1. entry' \in Entry /\ op' \in Operation /\ op'.pc = "idle"
        BY <1>14, FreshValues DEF Restart, Return, NoOperation
      <3>2. stored' \in Record \cup {NoRecord}
        BY <1>14 DEF Restart
      <3>3. restarts' \in 0..MaxRestarts
        BY <1>14 DEF Restart
      <3> QED
        BY <1>14, <3>1, <3>2, <3>3 DEF Restart, Return
    <2>2. OpInv'
      BY <1>14 DEF Restart, CanCreate, NewEntry, Return, NoOperation, OpInv
    <2>3. MemoryInv'
      BY <1>14 DEF Restart, CanCreate, NewEntry, Return, NoOperation, OpInv, MemoryInv
    <2>4. AnswerInv'
      BY <1>14 DEF Restart, CanCreate, NewEntry, Return, NoOperation, OpInv, MemoryInv, AnswerInv
    <2> QED
      BY <2>1, <2>2, <2>3, <2>4
  <1>15. CASE UNCHANGED bindingVars
    BY <1>15 DEF bindingVars, OpInv, MemoryInv, AnswerInv
  <1> QED
    BY <1>1, <1>2, <1>3, <1>4, <1>5, <1>6, <1>7, <1>8, <1>9, <1>10, <1>11, <1>12, <1>13, <1>14, <1>15 DEF TaskNext, Step

-----------------------------------------------------------------------------
\* The inductive invariant holds in every reachable state.
LEMMA TaskInvariance == TaskSpec => []TaskInv
  BY InitTask, TaskStep, PTL DEF TaskSpec

\* The coordinator keeps well-typed records, whatever its operations meet.
THEOREM TaskTypeCorrect == TaskSpec => []TaskTypeOK
  <1>1. TaskInv => TaskTypeOK
    BY DEF TaskInv
  <1> QED
    BY TaskInvariance, <1>1, PTL

\* What is dispatched is dispatched with the association the runtime learned of
\* first: read and save of session-task.js never fall back to none or another.
THEOREM OriginalBindingHolds == TaskSpec => []OriginalBindingOnly
  <1>1. TaskInv => OriginalBindingOnly
    BY DEF TaskInv, AnswerInv, MemoryInv, OriginalBindingOnly
  <1> QED
    BY TaskInvariance, <1>1, PTL

\* The failure that a lost save leaves behind (fail, refresh) blocks every
\* dispatch until a restore succeeds.
THEOREM BlockedHolds == TaskSpec => []BlockedWhileUnsaved
  <1>1. TaskInv => BlockedWhileUnsaved
    BY DEF TaskInv, AnswerInv, BlockedWhileUnsaved
  <1> QED
    BY TaskInvariance, <1>1, PTL

\* No save of any runtime replaces a stored record: save creates it or conflicts.
THEOREM BindingIsImmutable == TaskSpec => BindingNeverChanges
  <1>1. [TaskNext]_bindingVars => [stored # NoRecord => stored' = stored \/ Remove]_bindingVars
    BY DEF TaskNext, Step, bindingVars, SetStart, Start, Read, ReadFailed, Verify, VerifyFailed, Confirmed,
           Saved, NotSaved, CanCreate, ReadAgain, CoreChanges, OtherSaves, Restart
  <1> QED
    BY <1>1, PTL DEF TaskSpec, BindingNeverChanges

\* binding({dispatch: true}) answers from what Core said during the same call.
THEOREM PermissionIsFresh == TaskSpec => FreshPermission
  <1> DEFINE Fresh ==
        answer = NoAnswer /\ answer' # NoAnswer =>
          \E said \in during :
            IF answer' = NoRecord THEN said.mode = "optional"
            ELSE answer'.task \in said.active /\ answer'.terms = said.terms
  <1>1. TaskInv /\ [TaskNext]_bindingVars => [Fresh]_bindingVars
    <2> SUFFICES ASSUME TaskInv, TaskNext, answer = NoAnswer, answer' # NoAnswer PROVE Fresh
      BY DEF bindingVars
    <2>1. Confirmed
      BY DEF TaskNext, Step, SetStart, Start, Read, ReadFailed, Verify, VerifyFailed,
             Saved, NotSaved, ReadAgain, CoreChanges, OtherSaves, Remove, Restart
    <2>2. /\ ~ MustSave /\ ~ Differs
          /\ Allows(Settled(entry)) /\ answer' = entry.record /\ op.kind = "dispatch"
      BY <2>1 DEF Confirmed, Throws, Allows
    <2>3. op.said \in during /\ op.said \in Core
      BY <2>1 DEF Confirmed, TaskInv, OpInv, TaskTypeOK, Core
    <2>4. CASE entry.record = NoRecord
      BY <2>2, <2>3, <2>4 DEF Allows, Settled, TaskRequired, Core, TaskInv, TaskTypeOK, Entry
    <2>5. CASE entry.record # NoRecord
      <3>1. entry \in Entry
        BY DEF TaskInv, TaskTypeOK
      <3>2. answer'.task = op.task /\ answer'.terms = op.said.terms
        BY <2>2, <2>5 DEF Differs, Stated
      <3>3. Settled(entry).record # NoRecord
        BY <2>5, <3>1, SettledKeeps
      <3>4. Settled(entry).active
        BY <2>2, <3>3 DEF Allows
      <3>5. op.task \in op.said.active
        BY <2>2, <2>5, <3>1, <3>4 DEF Settled, TaskIsActive, Entry
      <3>6. answer' # NoRecord
        BY <2>2, <2>5
      <3> QED
        BY <2>3, <3>2, <3>5, <3>6
    <2> QED
      BY <2>4, <2>5
  <1> QED
    BY TaskInvariance, <1>1, PTL DEF TaskSpec, FreshPermission

\* A pending record leaves the entry only as the saved record itself.
THEOREM PendingHolds == TaskSpec => PendingIsSavedAsItWas
  <1>1. TaskInv /\ [TaskNext]_bindingVars =>
          [entry.pending # NoRecord /\ entry'.pending # entry.pending
             => entry'.record = entry.pending \/ Restart]_bindingVars
    <2> SUFFICES ASSUME TaskInv, TaskNext, entry.pending # NoRecord, entry'.pending # entry.pending, ~ Restart
                 PROVE entry'.record = entry.pending
      BY DEF bindingVars
    <2>1. entry \in Entry
      BY DEF TaskInv, TaskTypeOK
    <2>2. Confirmed \/ Saved
      <3>1. ASSUME NEW t \in Task, SetStart(t) PROVE FALSE
        BY <3>1, <2>1, FailedKeeps DEF SetStart, Entry
      <3>2. ASSUME NEW code \in {"store", "other"}, Throws(entry, code) PROVE FALSE
        BY <3>2, <2>1, FailedKeeps DEF Throws
      <3>3. ASSUME Read PROVE FALSE
        <4> DEFINE e == [entry EXCEPT !.record = stored]
        <4>1. e \in Entry /\ e.pending = entry.pending
          BY <2>1 DEF Entry, TaskInv, TaskTypeOK
        <4>2. entry' \in {e, entry, Failed(e, "other"), Failed(entry, "other")}
          BY <3>3 DEF Read, Throws
        <4> HIDE DEF e
        <4> QED
          BY <2>1, <4>1, <4>2, FailedKeeps
      <3>4. ASSUME ReadAgain PROVE FALSE
        BY <3>4, <2>1 DEF ReadAgain, Entry
      <3> QED
        BY <3>1, <3>2, <3>3, <3>4 DEF TaskNext, Step, Start, ReadFailed, Verify, VerifyFailed, NotSaved,
           CoreChanges, OtherSaves, Remove
    <2>3. CASE Confirmed
      <3>1. ~ MustSave \/ op.kind = "set"
        BY <2>1, <2>3 DEF Confirmed, Entry
      <3>2. ~ MustSave
        BY <2>3, <3>1 DEF TaskInv, OpInv, MemoryInv, Busy, Confirmed, MustSave
      <3>3. entry' \in {entry, Failed(entry, "other"), Settled(entry)}
        BY <2>3, <3>2 DEF Confirmed, Throws, Succeeds
      <3>4. entry' = Settled(entry) /\ Settled(entry).pending # entry.pending
        BY <2>1, <3>3, FailedKeeps
      <3>5. entry.record # NoRecord
        BY <2>1, <3>4 DEF Settled, Entry
      <3> QED
        BY <2>1, <3>4, <3>5, SettledKeeps DEF TaskInv, MemoryInv
    <2>4. CASE Saved
      <3> DEFINE e == [entry EXCEPT !.record = entry.pending, !.pending = NoRecord]
      <3>1. e \in Entry /\ e.record = entry.pending
        BY <2>1 DEF Entry
      <3>2. entry' \in {Settled(e), Failed(e, "other")}
        BY <2>4 DEF Saved, Succeeds
      <3> HIDE DEF e
      <3> QED
        BY <3>1, <3>2, FailedKeeps, SettledKeeps
    <2> QED
      BY <2>2, <2>3, <2>4
  <1> QED
    BY TaskInvariance, <1>1, PTL DEF TaskSpec, PendingIsSavedAsItWas

\* Neither on disk nor while it waits to be saved is an association replaced.
THEOREM AssociationHolds == TaskSpec => AssociationIsKept
  BY BindingIsImmutable, PendingHolds DEF AssociationIsKept

-----------------------------------------------------------------------------
(* The turns of the runtime *)


\* Only the last turn may still be going on, and nothing is ahead of it.
TurnInv ==
  /\ ended \subseteq 1..turn /\ claims \subseteq 1..turn
  /\ \A t \in Turn : t < turn => t \in ended
  /\ current <= turn /\ info <= turn
  /\ \A t \in Turn : start[t] # "none" => t <= turn
  /\ \A a \in Assembly : asm[a].turn <= turn

\* A begin under way has somebody who waits for it.
BeginInv == scope.phase # "none" => scope.waiters # <<>>

\* What a start under way says about its turn.
StartInv ==
  /\ \A t \in Turn : start[t] = "load" => t <= info
  /\ \A t \in Turn : start[t] \in Dispatching => tools # t

\* Only a turn that ended is completed, and a batch of attempts is bounded.
CompletionInv ==
  \A t \in Turn : /\ completion[t].state # "none" => t \in ended
                  /\ completion[t].state \in {"none", "syncing"} => completion[t].attempts <= 2

IInv == /\ TypeOK /\ TurnInv /\ BeginInv /\ StartInv /\ CompletionInv
        /\ ToolsBelongToLiveRun /\ RunEndsWithTurn /\ NoTurnIsSkipped

CompletionState == [state : {"none", "pending", "syncing", "synced"}, attempts : 0..3]
Statuses == {"none"} \cup OfRun \cup NotOfRun
Places == [pc : {"idle", "begin", "refresh", "start", "usable"}, turn : 0..MaxTurn]

USE MaxTurnIsNat, MaxFollowUpsIsNat

\* The initial states satisfy the inductive invariant.
LEMMA InitInv == Init => IInv
  <1> SUFFICES ASSUME Init PROVE IInv
    OBVIOUS
  <1>1. TypeOK
    <2>1. scope \in [phase : {"none", "loading", "validating"}, waiters : Seq(Assembly)]
      BY DEF Init, NotBegun
    <2>2. asm \in [Assembly -> Places] /\ start \in [Turn -> StartPc] /\ runs \in [Turn -> Statuses]
      BY DEF Init, Idle, None, Places, StartPc, Statuses
    <2>3. completion \in [Turn -> [state : {"none", "pending", "syncing", "synced"}, attempts : 0..3]]
      BY DEF Init, NoCompletion
    <2>4. queue \in Seq(Ticket)
      BY DEF Init
    <2> QED
      <3>1. 0 \in 0..MaxTurn /\ 0 \in 0..MaxFollowUps
        OBVIOUS
      <3>2. turn \in 0..MaxTurn /\ followUps \in 0..MaxFollowUps /\ claims \subseteq Turn /\ ended \subseteq Turn
        BY <3>1 DEF Init, None
      <3>3. current \in 0..MaxTurn /\ tools \in 0..MaxTurn /\ info \in 0..MaxTurn /\ reply \subseteq Turn /\ disposed \in BOOLEAN
        BY <3>1 DEF Init, None
      <3> QED
        BY <2>1, <2>2, <2>3, <2>4, <3>2, <3>3 DEF TypeOK, Places, Statuses
  <1>2. TurnInv /\ BeginInv
    BY DEF Init, TurnInv, BeginInv, NotBegun, Idle, None, Turn
  <1>3. StartInv /\ CompletionInv
    BY DEF Init, StartInv, CompletionInv, NoCompletion, Dispatching
  <1>4. ToolsBelongToLiveRun /\ RunEndsWithTurn /\ NoTurnIsSkipped
    BY DEF Init, ToolsBelongToLiveRun, RunEndsWithTurn, NoTurnIsSkipped, None, Turn
  <1> QED
    BY <1>1, <1>2, <1>3, <1>4 DEF IInv

\* The end of a start, with one status set or none, keeps the types.
LEMMA EndStartTypes ==
  ASSUME TypeOK, NEW t \in Turn, NEW r \in [Turn -> Statuses], NEW c \in 0..MaxTurn,
         EndStart(t, r, c)
  PROVE  /\ runs' \in [Turn -> Statuses] /\ current' \in 0..MaxTurn
         /\ start' \in [Turn -> StartPc] /\ start'[t] = "none"
         /\ \A u \in Turn : u # t => start'[u] = start[u]
         /\ claims' \subseteq Turn
         /\ asm' \in [Assembly -> Places]
         /\ \A a \in Assembly : asm'[a].turn \in {asm[a].turn, None}
  <1>1. asm \in [Assembly -> Places]
    BY DEF TypeOK, Places
  <1>2. asm' \in [Assembly -> Places] /\ \A a \in Assembly : asm'[a].turn \in {asm[a].turn, None}
    BY <1>1 DEF EndStart, Places, Idle, None
  <1> QED
    BY <1>2 DEF EndStart, Remaining, TypeOK, Turn, StartPc


\* Among claimed turns there is a latest one.
LEMMA LatestIsClaimed ==
  ASSUME claims \subseteq 1..MaxTurn, claims # {}
  PROVE  Latest(claims) \in claims
  <1> DEFINE back == {MaxTurn - u : u \in claims}
  <1>1. \A u \in claims : u \in Int /\ MaxTurn - u \in Nat
    OBVIOUS
  <1>2. back \subseteq Nat /\ back # {}
    BY <1>1
  <1>3. PICK n \in back : \A m \in back : ~ (<<m, n>> \in OpToRel(<, Nat))
    BY <1>2, NatLessThanWellFounded, WFMin
  <1>4. \A m \in back : ~ (m < n)
    BY <1>2, <1>3 DEF OpToRel
  <1>5. PICK t \in claims : n = MaxTurn - t
    OBVIOUS
  <1>6. ASSUME NEW u \in claims PROVE u <= t
    <2>1. MaxTurn - u \in back
      OBVIOUS
    <2>2. ~ (MaxTurn - u < MaxTurn - t)
      BY <2>1, <1>4, <1>5
    <2> QED
      BY <2>2, <1>1
  <1> QED
    BY <1>6 DEF Latest

\* Every step keeps the types.
LEMMA TypeStep ==
  ASSUME TypeOK, BeginInv, CompletionInv, [Next]_vars
  PROVE  TypeOK'
  <1> USE DEF None
  <1>asm. /\ asm \in [Assembly -> Places] /\ runs \in [Turn -> Statuses]
          /\ completion \in [Turn -> CompletionState]
    BY DEF TypeOK, Places, Statuses, CompletionState
  <1>end. ASSUME NEW t \in Turn, NEW r \in [Turn -> Statuses], NEW c \in 0..MaxTurn, EndStart(t, r, c)
          PROVE  /\ claims' \subseteq Turn /\ asm' \in [Assembly -> Places]
                 /\ start' \in [Turn -> StartPc] /\ runs' \in [Turn -> Statuses] /\ current' \in 0..MaxTurn
    BY <1>end, EndStartTypes
  <1>with. ASSUME NEW t \in Turn, NEW status \in Statuses
           PROVE  With(t, status) \in [Turn -> Statuses] /\ t \in 0..MaxTurn
    BY <1>asm DEF With, Turn
  <1>record. ASSUME NEW t \in Turn, RecordEndedRun(t)
             PROVE  /\ claims' \subseteq Turn /\ asm' \in [Assembly -> Places]
                    /\ start' \in [Turn -> StartPc] /\ runs' \in [Turn -> Statuses] /\ current' \in 0..MaxTurn
    <2>1. "ended" \in Statuses /\ (IF current <= t THEN t ELSE current) \in 0..MaxTurn
      BY DEF Statuses, NotOfRun, Turn, TypeOK
    <2> QED
      BY <2>1, <1>with, <1>end, <1>record DEF RecordEndedRun
  <1>endwith. ASSUME NEW t \in Turn, NEW status \in {"scope_inactive", "degraded", "active"}, EndWith(t, status)
              PROVE  /\ claims' \subseteq Turn /\ asm' \in [Assembly -> Places]
                     /\ start' \in [Turn -> StartPc] /\ runs' \in [Turn -> Statuses] /\ current' \in 0..MaxTurn
    <2>1. status \in Statuses
      BY DEF Statuses, NotOfRun, OfRun
    <2> QED
      BY <2>1, <1>with, <1>end, <1>endwith DEF EndWith
  <1>1. CASE Claim
    BY <1>1 DEF Claim, TypeOK, Turn
  <1>2. CASE FollowUp
    BY <1>2 DEF FollowUp, Running, TypeOK, Turn
  <1>3. CASE Reply
    BY <1>3 DEF Reply, Running, TypeOK, Turn
  <1>4. CASE TurnEnd
    <2>1. turn \in Turn /\ Closing(turn) \in Statuses
      BY <1>4 DEF TurnEnd, Running, TypeOK, Turn, Closing, Statuses, OfRun
    <2>2. runs' \in [Turn -> Statuses]
      BY <1>4, <1>asm, <2>1 DEF TurnEnd
    <2>3. completion' \in [Turn -> CompletionState]
      BY <1>4, <1>asm, <2>1 DEF TurnEnd, CompletionState
    <2> QED
      BY <1>4, <2>1, <2>2, <2>3 DEF TurnEnd, TypeOK, Statuses, CompletionState
  <1>5. CASE Dispose
    BY <1>5 DEF Dispose, TypeOK
  <1>6. ASSUME NEW a \in Assembly, Assemble(a) PROVE TypeOK'
    <2>1. claims # {} => Latest(claims) \in 0..MaxTurn
      <3> SUFFICES ASSUME claims # {} PROVE Latest(claims) \in 0..MaxTurn
        OBVIOUS
      <3>1. claims \subseteq 1..MaxTurn
        BY DEF TypeOK, Turn
      <3>2. Latest(claims) \in claims
        BY <3>1, LatestIsClaimed
      <3>3. Latest(claims) \in 1..MaxTurn
        BY <3>1, <3>2
      <3> QED
        BY <3>3
    <2>2. scope' \in [phase : {"none", "loading", "validating"}, waiters : Seq(Assembly)]
      <3>1. Append(scope.waiters, a) \in Seq(Assembly)
        BY DEF TypeOK
      <3>2. scope' = scope \/ scope' = [phase |-> IF scope.phase = "none" THEN "loading" ELSE scope.phase,
                                        waiters |-> Append(scope.waiters, a)]
        BY <1>6 DEF Assemble
      <3>3. scope \in [phase : {"none", "loading", "validating"}, waiters : Seq(Assembly)]
        BY DEF TypeOK
      <3>4. (IF scope.phase = "none" THEN "loading" ELSE scope.phase) \in {"none", "loading", "validating"}
        BY <3>3
      <3> QED
        BY <3>1, <3>2, <3>3, <3>4
    <2>3. asm' \in [Assembly -> Places]
      <3>1. turn \in 0..MaxTurn
        BY DEF TypeOK
      <3>2. \E place \in Places : asm' = [asm EXCEPT ![a] = place]
        <4>1. CASE claims # {} /\ NeedsStart(Latest(claims))
          <5>1. [pc |-> "begin", turn |-> Latest(claims)] \in Places
            BY <2>1, <4>1 DEF Places
          <5> QED
            BY <1>6, <4>1, <5>1 DEF Assemble
        <4>2. CASE ~ (claims # {} /\ NeedsStart(Latest(claims)))
          <5>1. [pc |-> "usable", turn |-> turn] \in Places
            BY <3>1 DEF Places
          <5> QED
            BY <1>6, <4>2, <5>1 DEF Assemble
        <4> QED
          BY <4>1, <4>2
      <3> QED
        BY <3>2, <1>asm
    <2> QED
      BY <1>6, <2>2, <2>3 DEF Assemble, TypeOK, Places, host
  <1>7. CASE BeginValidates
    BY <1>7 DEF BeginValidates, TypeOK, host
  <1>8. CASE BeginOpens
    <2>1. scope' \in [phase : {"none", "loading", "validating"}, waiters : Seq(Assembly)]
      BY <1>8 DEF BeginOpens, NotBegun
    <2>2. asm' \in [Assembly -> Places]
      BY <1>8, <1>asm DEF BeginOpens, Places
    <2>3. queue' \in Seq(Ticket)
      <3>1. scope.waiters \in Seq(Assembly) /\ queue \in Seq(Ticket)
        BY DEF TypeOK
      <3>2. \A a \in Assembly : Refresh(a) \in Ticket
        BY DEF Refresh, Ticket
      <3>3. [i \in DOMAIN scope.waiters |-> Refresh(scope.waiters[i])] \in Seq(Ticket)
        BY <3>1, <3>2
      <3> QED
        BY <1>8, <3>1, <3>3 DEF BeginOpens
    <2> QED
      BY <1>8, <2>1, <2>2, <2>3 DEF BeginOpens, TypeOK, Places, host
  <1>9. CASE BeginBlocks
    <2>1. scope.waiters[Len(scope.waiters)] \in Assembly
      BY <1>9 DEF BeginBlocks, BeginInv, TypeOK
    <2>2. scope' \in [phase : {"none", "loading", "validating"}, waiters : Seq(Assembly)]
      BY <1>9 DEF BeginBlocks, NotBegun
    <2>3. asm' \in [Assembly -> Places]
      BY <1>9, <1>asm DEF BeginBlocks, Places, Idle
    <2>4. runs' \in [Turn -> Statuses]
      BY <1>9, <1>asm DEF BeginBlocks, Statuses, NotOfRun
    <2>5. current' \in 0..MaxTurn /\ claims' \subseteq Turn /\ tools' \in 0..MaxTurn
      BY <1>9, <1>asm, <2>1 DEF BeginBlocks, Places, TypeOK
    <2> QED
      BY <1>9, <2>2, <2>3, <2>4, <2>5 DEF BeginBlocks, TypeOK, Places, Statuses, host
  <1>tail. ASSUME queue # <<>> PROVE Tail(queue) \in Seq(Ticket)
    BY <1>tail DEF TypeOK
  <1>10. ASSUME NEW a \in Assembly, Refreshed(a) PROVE TypeOK'
    <2>1. queue' \in Seq(Ticket)
      BY <1>10, <1>tail DEF Refreshed, AtHead
    <2>2. asm' \in [Assembly -> Places]
      BY <1>10, <1>asm DEF Refreshed, Places
    <2>3. start' \in [Turn -> StartPc]
      BY <1>10 DEF Refreshed, TypeOK, StartPc
    <2> QED
      BY <1>10, <2>1, <2>2, <2>3 DEF Refreshed, TypeOK, Places, host
  <1>11. ASSUME NEW t \in Turn, LoadBegins(t) PROVE TypeOK'
    BY <1>11 DEF LoadBegins, TypeOK, StartPc, Turn, host
  <1>12. ASSUME NEW t \in Turn, LoadEnds(t) PROVE TypeOK'
    <2>1. CASE t \in claims
      <3>1. start' = [start EXCEPT ![t] = "authorize"] /\ tools' = 0 /\ tools' \in 0..MaxTurn
        BY <1>12, <2>1 DEF LoadEnds
      <3>2. UNCHANGED <<claims, scope, queue, asm, runs, current, info, completion, host>>
        BY <1>12, <2>1 DEF LoadEnds
      <3> QED
        BY <3>1, <3>2 DEF TypeOK, StartPc, host
    <2>2. CASE t \notin claims
      <3>1. EndStart(t, runs, current) /\ current \in 0..MaxTurn /\ tools' = 0 /\ tools' \in 0..MaxTurn
        BY <1>12, <2>2 DEF LoadEnds, TypeOK
      <3>2. UNCHANGED <<scope, queue, info, completion, host>>
        BY <1>12 DEF LoadEnds
      <3>3. /\ claims' \subseteq Turn /\ asm' \in [Assembly -> Places]
            /\ start' \in [Turn -> StartPc] /\ runs' \in [Turn -> Statuses] /\ current' \in 0..MaxTurn
        BY <1>asm, <1>end, <3>1
      <3> QED
        BY <3>1, <3>2, <3>3 DEF TypeOK, Places, Statuses, host
    <2> QED
      BY <2>1, <2>2
  <1>13. ASSUME NEW t \in Turn, LoadFails(t) PROVE TypeOK'
    BY <1>13, <1>record, <1>endwith DEF LoadFails, TypeOK, Places, Statuses, host
  <1>14. ASSUME NEW t \in Turn, Authorized(t) PROVE TypeOK'
    <2>1. Append(queue, Binding(t)) \in Seq(Ticket)
      BY DEF Binding, Ticket, TypeOK
    <2> QED
      BY <1>14, <1>record, <2>1 DEF Authorized, TypeOK, Places, Statuses, StartPc, host
  <1>15. ASSUME NEW t \in Turn, Bound(t) PROVE TypeOK'
    <2>1. queue' \in Seq(Ticket)
      BY <1>15, <1>tail DEF Bound, AtHead, AfterFailure
    <2> QED
      BY <1>15, <1>record, <1>endwith, <2>1 DEF Bound, TypeOK, Places, Statuses, StartPc, host
  <1>16. ASSUME NEW t \in Turn, Negotiated(t) PROVE TypeOK'
    BY <1>16, <1>record DEF Negotiated, TypeOK, Places, Statuses, StartPc, host
  <1>17. ASSUME NEW t \in Turn, Started(t) PROVE TypeOK'
    BY <1>17, <1>record DEF Started, TypeOK, Places, Statuses, StartPc, host
  <1>18. ASSUME NEW t \in Turn, Activate(t) PROVE TypeOK'
    BY <1>18, <1>record, <1>endwith DEF Activate, TypeOK, Places, Statuses, Turn, host
  <1>19. ASSUME NEW t \in Turn, StartFails(t) PROVE TypeOK'
    BY <1>19, <1>record, <1>endwith DEF StartFails, TypeOK, Places, Statuses, host
  <1>20. ASSUME NEW a \in Assembly, Check(a) PROVE TypeOK'
    <2>1. asm' \in [Assembly -> Places]
      BY <1>20, <1>asm DEF Check, Usable, Unusable, Places, Idle
    <2>2. runs' \in [Turn -> Statuses]
      BY <1>20, <1>asm DEF Check, Usable, Unusable, With, Degraded, Statuses, OfRun, NotOfRun
    <2> QED
      BY <1>20, <2>1, <2>2 DEF Check, Usable, Unusable, TypeOK, Places, Statuses, host
  <1>21. ASSUME NEW t \in Turn, Completion(t) \/ SyncPending(t) PROVE TypeOK'
    <2>1. runs' \in [Turn -> Statuses]
      BY <1>21, <1>asm DEF Completion, Completed, CompletionFails, SyncPending, SetRun, With, Statuses, OfRun
    <2>2. completion' \in [Turn -> CompletionState]
      <3>1. completion[t] \in CompletionState
        BY <1>asm
      <3>2. \E c \in CompletionState : completion' = [completion EXCEPT ![t] = c]
        <4>0. /\ completion[t].attempts \in 0..3
              /\ completion[t] = [state |-> completion[t].state, attempts |-> completion[t].attempts]
          BY <3>1 DEF CompletionState
        <4>1. CASE Completed(t)
          <5>1. [state |-> "synced", attempts |-> completion[t].attempts + 1] \in CompletionState
            BY <4>0, <4>1 DEF Completed, CompletionInv, CompletionState
          <5> QED
            BY <4>1, <5>1 DEF Completed
        <4>2. CASE CompletionFails(t)
          <5>1. [state |-> IF IsLast(t) THEN "pending" ELSE "syncing", attempts |-> completion[t].attempts + 1]
                  \in CompletionState
            BY <4>0, <4>2 DEF CompletionFails, CompletionInv, CompletionState
          <5> QED
            BY <4>2, <5>1 DEF CompletionFails
        <4>3. CASE SyncPending(t)
          <5>1. [state |-> "syncing", attempts |-> 0] \in CompletionState
            BY DEF CompletionState
          <5> QED
            BY <4>3, <5>1 DEF SyncPending
        <4> QED
          BY <1>21, <4>1, <4>2, <4>3 DEF Completion
      <3> QED
        BY <3>2, <1>asm
    <2> QED
      BY <1>21, <2>1, <2>2 DEF CompletionState, Completion, Completed, CompletionFails, SyncPending, TypeOK, Statuses, host
  <1>22. CASE UNCHANGED vars
    BY <1>22 DEF vars, TypeOK
  <1> QED
    BY <1>1, <1>2, <1>3, <1>4, <1>5, <1>6, <1>7, <1>8, <1>9, <1>10, <1>11, <1>12, <1>13, <1>14,
       <1>15, <1>16, <1>17, <1>18, <1>19, <1>20, <1>21, <1>22
       DEF Next, Host, Begin, StartStep

\* What any end of a start does to claims and turns, whatever it records.
LEMMA EndStartTurns ==
  ASSUME TypeOK, TurnInv, NEW t \in Turn, NEW r \in [Turn -> Statuses], NEW c \in 0..MaxTurn,
         c <= turn, EndStart(t, r, c)
  PROVE  /\ claims' \subseteq 1..turn /\ current' <= turn
         /\ \A u \in Turn : start'[u] # "none" => u <= turn
         /\ \A a \in Assembly : asm'[a].turn <= turn
  <1>1. turn \in 0..MaxTurn /\ current' = c /\ claims' \subseteq claims /\ claims \subseteq 1..turn
    BY DEF EndStart, Remaining, TypeOK, TurnInv
  <1>2. \A u \in Turn : start'[u] # "none" => start[u] # "none"
    BY EndStartTypes DEF TypeOK
  <1>3. \A a \in Assembly : asm'[a].turn \in {asm[a].turn, 0} /\ asm[a].turn <= turn
    BY EndStartTypes DEF None, TurnInv
  <1> QED
    BY <1>1, <1>2, <1>3 DEF TurnInv

\* Every step keeps turns in order.
LEMMA TurnStep ==
  ASSUME TypeOK, BeginInv, TurnInv, [Next]_vars
  PROVE  TurnInv'
  <1> USE DEF None
  <1>asm. /\ asm \in [Assembly -> Places] /\ runs \in [Turn -> Statuses] /\ start \in [Turn -> StartPc]
          /\ turn \in 0..MaxTurn /\ current \in 0..MaxTurn /\ info \in 0..MaxTurn
    BY DEF TypeOK, Places, Statuses
  <1>same. ASSUME UNCHANGED <<turn, ended, claims, current, info, start, asm>> PROVE TurnInv'
    BY <1>same DEF TurnInv
  <1>end. ASSUME NEW t \in Turn, t <= turn, RecordEndedRun(t) \/ EndStart(t, runs, current)
                   \/ \E status \in {"scope_inactive", "degraded", "active"} : EndWith(t, status),
                 UNCHANGED <<turn, ended, info>>
          PROVE  TurnInv'
    <2>1. \A status \in {"ended", "scope_inactive", "degraded", "active"} : With(t, status) \in [Turn -> Statuses]
      BY <1>asm DEF With, Statuses, OfRun, NotOfRun
    <2>2. \E r \in [Turn -> Statuses], c \in 0..MaxTurn : c <= turn /\ EndStart(t, r, c)
      <3>1. CASE RecordEndedRun(t)
        BY <1>asm, <1>end, <2>1, <3>1 DEF RecordEndedRun, Turn, TurnInv
      <3>2. CASE EndStart(t, runs, current)
        BY <1>asm, <3>2 DEF TurnInv
      <3>3. CASE \E status \in {"scope_inactive", "degraded", "active"} : EndWith(t, status)
        BY <1>end, <2>1, <3>3 DEF EndWith, Turn
      <3> QED
        BY <1>end, <3>1, <3>2, <3>3
    <2>3. /\ claims' \subseteq 1..turn /\ current' <= turn
          /\ \A u \in Turn : start'[u] # "none" => u <= turn
          /\ \A a \in Assembly : asm'[a].turn <= turn
      BY <2>2, EndStartTurns
    <2> QED
      BY <1>end, <2>3 DEF TurnInv
  <1>moves. ASSUME NEW t \in Turn, start[t] # "none", NEW pc \in StartPc, start' = [start EXCEPT ![t] = pc],
                   UNCHANGED <<turn, ended, claims, current, asm>>, info' <= turn
            PROVE  TurnInv'
    BY <1>asm, <1>moves DEF TurnInv
  <1>1. CASE Claim
    <2>1. \A t \in Turn : t < turn' => t \in ended
      BY <1>1, <1>asm DEF Claim, TurnInv, Turn
    <2>2. ended' \subseteq 1..turn' /\ claims' \subseteq 1..turn'
      BY <1>1, <1>asm DEF Claim, TurnInv
    <2>3. current' <= turn' /\ info' <= turn' /\ \A t \in Turn : start'[t] # "none" => t <= turn'
      BY <1>1, <1>asm DEF Claim, TurnInv, Turn
    <2>4. \A a \in Assembly : asm'[a].turn <= turn'
      BY <1>1, <1>asm DEF Claim, TurnInv, Places
    <2> QED
      BY <1>1, <2>1, <2>2, <2>3, <2>4 DEF Claim, TurnInv
  <1>2. CASE FollowUp
    BY <1>2, <1>asm DEF FollowUp, Running, TurnInv
  <1>3. CASE Reply
    BY <1>3, <1>same DEF Reply
  <1>4. CASE TurnEnd
    BY <1>4, <1>asm DEF TurnEnd, Running, TurnInv
  <1>5. CASE Dispose
    BY <1>5, <1>same DEF Dispose
  <1>6. ASSUME NEW a \in Assembly, Assemble(a) PROVE TurnInv'
    <2>1. claims # {} => Latest(claims) \in claims
      BY LatestIsClaimed DEF TypeOK, Turn
    <2>2. \A b \in Assembly : asm'[b].turn <= turn
      <3>1. claims # {} => Latest(claims) <= turn
        <4> SUFFICES ASSUME claims # {} PROVE Latest(claims) <= turn
          OBVIOUS
        <4>1. Latest(claims) \in 1..turn
          BY <2>1 DEF TurnInv
        <4> QED
          BY <4>1, <1>asm
      <3> QED
        BY <1>6, <1>asm, <3>1 DEF Assemble, TurnInv, Places
    <2> QED
      BY <1>6, <2>2 DEF Assemble, TurnInv, host
  <1>7. CASE BeginValidates
    BY <1>7, <1>same DEF BeginValidates, host
  <1>8. CASE BeginOpens
    <2>1. \A a \in Assembly : asm'[a].turn = asm[a].turn
      BY <1>8, <1>asm DEF BeginOpens, Places
    <2> QED
      BY <1>8, <2>1 DEF BeginOpens, TurnInv, host
  <1>9. CASE BeginBlocks
    <2>1. scope.waiters[Len(scope.waiters)] \in Assembly
      BY <1>9 DEF BeginBlocks, BeginInv, TypeOK
    <2>2. \A a \in Assembly : asm'[a].turn \in {asm[a].turn, 0}
      BY <1>9, <1>asm DEF BeginBlocks, Idle
    <2>3. current' <= turn
      BY <1>9, <2>1 DEF BeginBlocks, TurnInv
    <2>4. claims' \subseteq claims
      BY <1>9 DEF BeginBlocks
    <2>5. \A a \in Assembly : asm'[a].turn <= turn
      BY <1>asm, <2>2 DEF TurnInv
    <2> QED
      BY <1>9, <2>3, <2>4, <2>5 DEF BeginBlocks, TurnInv, host
  <1>10. ASSUME NEW a \in Assembly, Refreshed(a) PROVE TurnInv'
    <2>1. \A b \in Assembly : asm'[b].turn = asm[b].turn
      BY <1>10, <1>asm DEF Refreshed, Places
    <2>2. \A t \in Turn : start'[t] # "none" => start[t] # "none" \/ t = asm[a].turn
      BY <1>10, <1>asm DEF Refreshed
    <2> QED
      BY <1>10, <2>1, <2>2 DEF Refreshed, TurnInv, host
  <1>started. \A t \in Turn : start[t] # "none" => t <= turn
    BY DEF TurnInv
  <1>11. ASSUME NEW t \in Turn, LoadBegins(t) PROVE TurnInv'
    <2>1. info' <= turn
      BY <1>11, <1>started, <1>asm DEF LoadBegins, TurnInv
    <2> QED
      BY <1>11, <1>moves, <2>1 DEF LoadBegins, StartPc, host
  <1>12. ASSUME NEW t \in Turn, LoadEnds(t) PROVE TurnInv'
    <2>1. info' <= turn /\ t <= turn
      BY <1>12, <1>started DEF LoadEnds, TurnInv
    <2> QED
      BY <1>12, <1>moves, <1>end, <2>1 DEF LoadEnds, StartPc, host
  <1>13. ASSUME NEW t \in Turn, LoadFails(t) PROVE TurnInv'
    BY <1>13, <1>started, <1>end DEF LoadFails, host
  <1>14. ASSUME NEW t \in Turn, StartStep(t), start[t] \in Dispatching PROVE TurnInv'
    <2>1. UNCHANGED <<turn, ended, info>> /\ info' <= turn
      BY <1>14 DEF StartStep, LoadBegins, LoadEnds, LoadFails, Authorized, Bound, Negotiated, Started,
                   Activate, StartFails, Dispatching, TurnInv, host
    <2>2. \/ RecordEndedRun(t)
          \/ \E status \in {"scope_inactive", "degraded", "active"} : EndWith(t, status)
          \/ /\ \E pc \in StartPc : start' = [start EXCEPT ![t] = pc]
             /\ UNCHANGED <<claims, current, asm>>
      BY <1>14 DEF StartStep, LoadBegins, LoadEnds, LoadFails, Authorized, Bound, Negotiated, Started,
                   Activate, StartFails, Dispatching, StartPc
    <2>3. start[t] # "none"
      BY <1>14 DEF Dispatching
    <2> QED
      BY <1>end, <1>moves, <1>started, <2>1, <2>2, <2>3
  <1>15. ASSUME NEW a \in Assembly, Check(a) PROVE TurnInv'
    <2>1. \A b \in Assembly : asm'[b].turn \in {asm[b].turn, 0}
      BY <1>15, <1>asm DEF Check, Usable, Unusable, Idle
    <2>2. \A b \in Assembly : asm'[b].turn <= turn
      BY <1>asm, <2>1 DEF TurnInv
    <2> QED
      BY <1>15, <2>2 DEF Check, Usable, Unusable, TurnInv, host
  <1>16. ASSUME NEW t \in Turn, Completion(t) \/ SyncPending(t) PROVE TurnInv'
    BY <1>16, <1>same DEF Completion, Completed, CompletionFails, SyncPending, host
  <1>17. CASE UNCHANGED vars
    BY <1>17, <1>same DEF vars
  <1>18. ASSUME NEW t \in Turn, StartStep(t) PROVE TurnInv'
    <2>1. LoadBegins(t) \/ LoadEnds(t) \/ LoadFails(t) \/ start[t] \in Dispatching
      BY <1>18 DEF StartStep, Authorized, Bound, Negotiated, Started, Activate, StartFails, Dispatching
    <2> QED
      BY <1>11, <1>12, <1>13, <1>14, <1>18, <2>1
  <1> QED
    BY <1>1, <1>2, <1>3, <1>4, <1>5, <1>6, <1>7, <1>8, <1>9, <1>10, <1>15, <1>16, <1>17, <1>18
       DEF Next, Host, Begin

\* Every step keeps somebody waiting for a begin under way.
LEMMA BeginStep ==
  ASSUME TypeOK, BeginInv, [Next]_vars
  PROVE  BeginInv'
  <1>1. ASSUME NEW a \in Assembly, Assemble(a) PROVE BeginInv'
    <2>1. Append(scope.waiters, a) # <<>>
      <3>1. scope.waiters \in Seq(Assembly)
        BY DEF TypeOK
      <3> QED
        BY <3>1
    <2> QED
      BY <1>1, <2>1 DEF Assemble, BeginInv
  <1>2. CASE BeginValidates
    <2>1. scope'.phase = "validating" /\ scope'.waiters = scope.waiters
      BY <1>2 DEF BeginValidates, TypeOK
    <2> QED
      BY <1>2, <2>1 DEF BeginValidates, BeginInv
  <1>3. CASE BeginOpens \/ BeginBlocks
    BY <1>3 DEF BeginOpens, BeginBlocks, BeginInv, NotBegun
  <1>4. CASE UNCHANGED scope
    BY <1>4 DEF BeginInv
  <1>5. ASSUME NEW t \in Turn, StartStep(t) \/ Completion(t) \/ SyncPending(t) PROVE UNCHANGED scope
    BY <1>5 DEF StartStep, LoadBegins, LoadEnds, LoadFails, Authorized, Bound, Negotiated, Started, Activate,
       StartFails, Completion, Completed, CompletionFails, SyncPending
  <1>6. ASSUME NEW a \in Assembly, Refreshed(a) \/ Check(a) PROVE UNCHANGED scope
    BY <1>6 DEF Refreshed, Check, Usable, Unusable
  <1>7. CASE Host \/ UNCHANGED vars
    BY <1>4, <1>7 DEF Host, Claim, FollowUp, Reply, TurnEnd, Dispose, vars
  <1> QED
    BY <1>1, <1>2, <1>3, <1>4, <1>5, <1>6, <1>7 DEF Next, Begin

\* Every step keeps completions with ended turns and within their attempts.
LEMMA CompletionStep ==
  ASSUME TypeOK, CompletionInv, [Next]_vars
  PROVE  CompletionInv'
  <1>1. completion \in [Turn -> CompletionState]
    BY DEF TypeOK, CompletionState
  <1>same. ASSUME UNCHANGED completion, ended \subseteq ended' PROVE CompletionInv'
    BY <1>same DEF CompletionInv
  <1>2. CASE TurnEnd
    <2>1. completion' \in {completion, [completion EXCEPT ![turn].state = "syncing"]}
      BY <1>2 DEF TurnEnd
    <2>2. turn \in Turn /\ turn \notin ended /\ ended' = ended \cup {turn}
      BY <1>2 DEF TurnEnd, Running, TypeOK, Turn, None
    <2>3. completion[turn].attempts <= 2
      BY <2>2 DEF CompletionInv
    <2>4. \A t \in Turn : completion'[t] = completion[t]
                            \/ (t = turn /\ completion'[t].attempts = completion[t].attempts)
      BY <1>1, <2>1, <2>2 DEF CompletionState
    <2> QED
      BY <2>2, <2>3, <2>4 DEF CompletionInv
  <1>3. ASSUME NEW t \in Turn, Completion(t) \/ SyncPending(t) PROVE CompletionInv'
    <2>1. completion[t].attempts \in 0..3 /\ completion[t].state # "none"
      BY <1>1, <1>3 DEF CompletionState, Completion, Completed, CompletionFails, SyncPending, Found
    <2>2. \A u \in Turn : u # t => completion'[u] = completion[u]
      BY <1>1, <1>3 DEF Completion, Completed, CompletionFails, SyncPending
    <2>3. completion'[t].state \in {"none", "syncing"} => completion'[t].attempts <= 2
      <3>1. CASE Completed(t)
        BY <1>1, <3>1 DEF Completed
      <3>2. CASE CompletionFails(t)
        BY <1>1, <2>1, <3>2 DEF CompletionFails, CompletionInv, IsLast
      <3>3. CASE SyncPending(t)
        BY <1>1, <3>3 DEF SyncPending
      <3> QED
        BY <1>3, <3>1, <3>2, <3>3 DEF Completion
    <2>4. ended' = ended
      BY <1>3 DEF Completion, Completed, CompletionFails, SyncPending, host
    <2> QED
      BY <2>1, <2>2, <2>3, <2>4 DEF CompletionInv
  <1>4. CASE Claim \/ FollowUp \/ Reply \/ Dispose \/ Begin \/ UNCHANGED vars
    BY <1>4, <1>same DEF Claim, FollowUp, Reply, Dispose, Begin, BeginValidates, BeginOpens, BeginBlocks, host, vars
  <1>5. ASSUME NEW a \in Assembly, Assemble(a) \/ Refreshed(a) \/ Check(a) PROVE CompletionInv'
    BY <1>5, <1>same DEF Assemble, Refreshed, Check, Usable, Unusable, host
  <1>6. ASSUME NEW t \in Turn, StartStep(t) PROVE CompletionInv'
    BY <1>6, <1>same DEF StartStep, LoadBegins, LoadEnds, LoadFails, Authorized, Bound, Negotiated, Started,
       Activate, StartFails, host
  <1> QED
    BY <1>2, <1>3, <1>4, <1>5, <1>6 DEF Next, Host

\* A start that ends leaves the starts of other turns where they are.
LEMMA EndLeavesOthers ==
  ASSUME TypeOK, NEW t \in Turn,
         RecordEndedRun(t) \/ (\E r, c : EndStart(t, r, c)) \/ (\E status : EndWith(t, status))
  PROVE  start'[t] = "none" /\ \A u \in Turn : u # t => start'[u] = start[u]
  BY DEF RecordEndedRun, EndWith, EndStart, TypeOK

\* Every step keeps what a start under way says about its turn.
LEMMA StartStepInv ==
  ASSUME TypeOK, StartInv, [Next]_vars
  PROVE  StartInv'
  <1> USE DEF None
  <1>1. start \in [Turn -> StartPc] /\ info \in 0..MaxTurn
    BY DEF TypeOK
  <1>same. ASSUME UNCHANGED <<start, info>>, tools' \in {tools, None} PROVE StartInv'
    BY <1>same DEF StartInv, Turn
  <1>end. ASSUME NEW t \in Turn, start'[t] = "none", \A u \in Turn : u # t => start'[u] = start[u],
                 UNCHANGED info, tools' \in {tools, None, t}
          PROVE  StartInv'
    BY <1>end DEF StartInv, Turn, Dispatching
  <1>moves. ASSUME NEW t \in Turn, start[t] \in Dispatching, NEW pc \in Dispatching,
                   start' = [start EXCEPT ![t] = pc], UNCHANGED <<info, tools>>
            PROVE  StartInv'
    BY <1>1, <1>moves DEF StartInv, Dispatching
  <1>2. CASE Host \/ Begin \/ UNCHANGED vars
    BY <1>2, <1>same DEF Host, Claim, FollowUp, Reply, TurnEnd, Dispose, Begin, BeginValidates, BeginOpens,
       BeginBlocks, host, vars
  <1>3. ASSUME NEW a \in Assembly, Assemble(a) \/ Check(a) PROVE StartInv'
    BY <1>3, <1>same DEF Assemble, Check, Usable, Unusable, host
  <1>4. ASSUME NEW a \in Assembly, Refreshed(a) PROVE StartInv'
    BY <1>1, <1>4 DEF Refreshed, StartInv, Dispatching
  <1>5. ASSUME NEW t \in Turn, LoadBegins(t) PROVE StartInv'
    BY <1>1, <1>5 DEF LoadBegins, StartInv, Dispatching, Turn
  <1>6. ASSUME NEW t \in Turn, LoadEnds(t) PROVE StartInv'
    <2>1. \A u \in Turn : start'[u] = "load" => start[u] = "load"
      BY <1>1, <1>6, EndLeavesOthers DEF LoadEnds
    <2> QED
      BY <1>6, <2>1 DEF LoadEnds, StartInv, Turn
  <1>7. ASSUME NEW t \in Turn, LoadFails(t) PROVE StartInv'
    BY <1>7, <1>end, EndLeavesOthers DEF LoadFails
  <1>8. ASSUME NEW t \in Turn, StartStep(t), start[t] \in Dispatching PROVE StartInv'
    <2>1. \/ RecordEndedRun(t) \/ \E status : EndWith(t, status)
          \/ /\ \E pc \in Dispatching : start' = [start EXCEPT ![t] = pc]
             /\ UNCHANGED tools
      BY <1>8 DEF StartStep, LoadBegins, LoadEnds, LoadFails, Authorized, Bound, Negotiated, Started,
                  Activate, StartFails, Dispatching
    <2>2. UNCHANGED info /\ tools' \in {tools, None, t}
      BY <1>8 DEF StartStep, LoadBegins, LoadEnds, LoadFails, Authorized, Bound, Negotiated, Started,
                  Activate, StartFails, Dispatching
    <2> QED
      BY <1>8, <1>end, <1>moves, <2>1, <2>2, EndLeavesOthers
  <1>9. ASSUME NEW t \in Turn, StartStep(t) PROVE StartInv'
    <2>1. LoadBegins(t) \/ LoadEnds(t) \/ LoadFails(t) \/ start[t] \in Dispatching
      BY <1>9 DEF StartStep, Authorized, Bound, Negotiated, Started, Activate, StartFails, Dispatching
    <2> QED
      BY <1>5, <1>6, <1>7, <1>8, <1>9, <2>1
  <1>10. ASSUME NEW t \in Turn, Completion(t) \/ SyncPending(t) PROVE StartInv'
    BY <1>10, <1>same DEF Completion, Completed, CompletionFails, SyncPending
  <1> QED
    BY <1>2, <1>3, <1>4, <1>9, <1>10 DEF Next

\* Registered tools are those of the last turn, which is still going on.
LEMMA ToolsOfTurn ==
  ASSUME TypeOK, TurnInv, ToolsBelongToLiveRun, tools # None
  PROVE  tools = turn /\ tools \in Turn /\ current = tools
  BY DEF TypeOK, TurnInv, ToolsBelongToLiveRun, Turn, None

\* A turn whose start was ended or overtaken is not the one that has tools.
LEMMA EndedLeavesTools ==
  ASSUME TypeOK, TurnInv, ToolsBelongToLiveRun, NEW t \in Turn, t # tools, t <= turn,
         RecordEndedRun(t), UNCHANGED <<tools, ended, disposed>>
  PROVE  ToolsBelongToLiveRun'
  <1> SUFFICES ASSUME tools # None PROVE ToolsBelongToLiveRun'
    BY DEF ToolsBelongToLiveRun, None
  <1>1. tools = turn /\ tools \in Turn /\ current = tools
    BY ToolsOfTurn
  <1>2. t < tools
    BY <1>1 DEF Turn
  <1>3. current' = current /\ runs'[tools] = runs[tools]
    BY <1>1, <1>2 DEF RecordEndedRun, EndStart, With, TypeOK, Turn
  <1> QED
    BY <1>3 DEF ToolsBelongToLiveRun

\* Every step keeps the tools with the live run.
LEMMA ToolsStep ==
  ASSUME TypeOK, TurnInv, StartInv, CompletionInv, ToolsBelongToLiveRun, [Next]_vars
  PROVE  ToolsBelongToLiveRun'
  <1>1. runs \in [Turn -> Statuses] /\ turn \in 0..MaxTurn
    BY DEF TypeOK, Statuses
  <1>none. ASSUME tools' = None PROVE ToolsBelongToLiveRun'
    BY <1>none DEF ToolsBelongToLiveRun, None
  <1>same. ASSUME UNCHANGED <<tools, current, runs, ended, disposed>> PROVE ToolsBelongToLiveRun'
    BY <1>same DEF ToolsBelongToLiveRun
  <1>2. CASE Claim \/ FollowUp \/ Reply \/ BeginValidates \/ BeginOpens \/ UNCHANGED vars
    BY <1>2, <1>same DEF Claim, FollowUp, Reply, BeginValidates, BeginOpens, host, vars
  <1>3. CASE Dispose \/ BeginBlocks
    BY <1>3, <1>none DEF Dispose, BeginBlocks
  <1>4. CASE TurnEnd
    <2>1. CASE runs[turn] = "active"
      BY <1>4, <1>none, <2>1 DEF TurnEnd
    <2>2. CASE runs[turn] # "active"
      BY <1>4, <2>2 DEF TurnEnd, ToolsBelongToLiveRun
    <2> QED
      BY <2>1, <2>2
  <1>5. ASSUME NEW a \in Assembly, Assemble(a) \/ Refreshed(a) \/ Check(a) PROVE ToolsBelongToLiveRun'
    BY <1>5, <1>same, <1>none DEF Assemble, Refreshed, Check, Usable, Unusable, host
  <1>6. ASSUME NEW t \in Turn, LoadBegins(t) \/ LoadEnds(t) PROVE ToolsBelongToLiveRun'
    BY <1>6, <1>same, <1>none DEF LoadBegins, LoadEnds, host
  <1>7. ASSUME NEW t \in Turn, LoadFails(t) PROVE ToolsBelongToLiveRun'
    <2>1. CASE info = t
      BY <1>7, <1>none, <2>1 DEF LoadFails
    <2>2. CASE info # t
      <3>1. RecordEndedRun(t) /\ UNCHANGED <<tools, ended, disposed>>
        BY <1>7, <2>2 DEF LoadFails, IsCurrentLoad, host
      <3>2. t <= turn /\ t < info /\ info <= turn
        BY <1>7, <2>2 DEF LoadFails, TurnInv, StartInv, TypeOK, Turn
      <3>3. t # tools
        <4>1. t # turn /\ t # None
          BY <1>1, <3>2 DEF TypeOK, Turn, None
        <4> QED
          BY <4>1, ToolsOfTurn
      <3> QED
        BY <3>1, <3>2, <3>3, EndedLeavesTools
    <2> QED
      BY <2>1, <2>2
  <1>8. ASSUME NEW t \in Turn, StartStep(t), start[t] \in Dispatching PROVE ToolsBelongToLiveRun'
    <2>1. t # tools /\ t <= turn
      BY <1>8 DEF StartInv, TurnInv, Dispatching
    <2>2. UNCHANGED <<ended, disposed>>
      BY <1>8 DEF StartStep, LoadBegins, LoadEnds, LoadFails, Authorized, Bound, Negotiated, Started,
                  Activate, StartFails, host
    <2>3. \/ RecordEndedRun(t) /\ UNCHANGED tools
          \/ ~ StaleTurn(t) /\ EndWith(t, "degraded") /\ UNCHANGED tools
          \/ MayRegister(t) /\ EndWith(t, "active") /\ tools' = t
          \/ UNCHANGED <<tools, current, runs>>
      BY <1>8 DEF StartStep, LoadBegins, LoadEnds, LoadFails, Authorized, Bound, Negotiated, Started,
                  Activate, StartFails, Dispatching
    <2>4. CASE RecordEndedRun(t) /\ UNCHANGED tools
      BY <2>1, <2>2, <2>4, EndedLeavesTools
    <2>5. CASE ~ StaleTurn(t) /\ UNCHANGED tools
      <3>1. t = turn
        BY <1>1, <2>1, <2>5 DEF StaleTurn, TurnInv, Turn
      <3> QED
        BY <1>none, <2>1, <2>5, <3>1, ToolsOfTurn
    <2>6. CASE MayRegister(t) /\ EndWith(t, "active") /\ tools' = t
      BY <1>1, <2>2, <2>6 DEF MayRegister, EndWith, EndStart, With, ToolsBelongToLiveRun
    <2>7. CASE UNCHANGED <<tools, current, runs>>
      BY <1>same, <2>2, <2>7
    <2> QED
      BY <2>3, <2>4, <2>5, <2>6, <2>7
  <1>9. ASSUME NEW t \in Turn, StartStep(t) PROVE ToolsBelongToLiveRun'
    <2>1. LoadBegins(t) \/ LoadEnds(t) \/ LoadFails(t) \/ start[t] \in Dispatching
      BY <1>9 DEF StartStep, Authorized, Bound, Negotiated, Started, Activate, StartFails, Dispatching
    <2> QED
      BY <1>6, <1>7, <1>8, <1>9, <2>1
  <1>10. ASSUME NEW t \in Turn, Completion(t) \/ SyncPending(t) PROVE ToolsBelongToLiveRun'
    <2>1. UNCHANGED <<tools, current, ended, disposed>>
      BY <1>10 DEF Completion, Completed, CompletionFails, SyncPending, host
    <2>2. t \in ended
      BY <1>10 DEF Completion, Completed, CompletionFails, SyncPending, Found, CompletionInv
    <2>3. \A u \in Turn : u # t => runs'[u] = runs[u]
      BY <1>1, <1>10 DEF Completion, Completed, CompletionFails, SyncPending, SetRun, With
    <2> QED
      BY <2>1, <2>2, <2>3, ToolsOfTurn DEF ToolsBelongToLiveRun
  <1> QED
    BY <1>2, <1>3, <1>4, <1>5, <1>9, <1>10 DEF Next, Host, Begin

\* Every step ends a run with its turn.
LEMMA RunStep ==
  ASSUME TypeOK, RunEndsWithTurn, [Next]_vars
  PROVE  RunEndsWithTurn'
  <1>1. runs \in [Turn -> Statuses]
    BY DEF TypeOK, Statuses
  <1>same. ASSUME \A u \in Turn : runs'[u] = "active" => runs[u] = "active", UNCHANGED ended PROVE RunEndsWithTurn'
    BY <1>same DEF RunEndsWithTurn
  <1>with. ASSUME NEW t \in Turn, NEW status, status # "active"
           PROVE  \A u \in Turn : With(t, status)[u] = "active" => runs[u] = "active"
    BY <1>1, <1>with DEF With
  <1>2. CASE TurnEnd
    <2>1. \A u \in Turn : runs'[u] = "active" => runs[u] = "active" /\ u # turn
      BY <1>1, <1>2 DEF TurnEnd, Closing
    <2> QED
      BY <1>2, <2>1 DEF TurnEnd, RunEndsWithTurn
  <1>3. CASE Claim \/ FollowUp \/ Reply \/ Dispose \/ BeginValidates \/ BeginOpens \/ UNCHANGED vars
    BY <1>3, <1>same DEF Claim, FollowUp, Reply, Dispose, BeginValidates, BeginOpens, host, vars
  <1>4. CASE BeginBlocks
    BY <1>1, <1>4, <1>same DEF BeginBlocks, host
  <1>5. ASSUME NEW a \in Assembly, Assemble(a) \/ Refreshed(a) PROVE RunEndsWithTurn'
    BY <1>5, <1>same DEF Assemble, Refreshed, host
  <1>6. ASSUME NEW a \in Assembly, Check(a) PROVE RunEndsWithTurn'
    <2>1. \A u \in Turn : runs'[u] = "active" => runs[u] = "active"
      BY <1>1, <1>6 DEF Check, Usable, Unusable, With, Degraded
    <2> QED
      BY <1>6, <1>same, <2>1 DEF Check, Usable, Unusable, host
  <1>7. ASSUME NEW t \in Turn, StartStep(t) PROVE RunEndsWithTurn'
    <2>1. UNCHANGED ended
      BY <1>7 DEF StartStep, LoadBegins, LoadEnds, LoadFails, Authorized, Bound, Negotiated, Started,
                  Activate, StartFails, host
    <2>2. \/ RecordEndedRun(t) \/ EndWith(t, "scope_inactive") \/ EndWith(t, "degraded")
          \/ MayRegister(t) /\ EndWith(t, "active")
          \/ UNCHANGED runs
      BY <1>7 DEF StartStep, LoadBegins, LoadEnds, LoadFails, Authorized, Bound, Negotiated, Started,
                  Activate, StartFails, EndStart
    <2>3. CASE RecordEndedRun(t) \/ EndWith(t, "scope_inactive") \/ EndWith(t, "degraded")
      BY <1>same, <1>with, <2>1, <2>3 DEF RecordEndedRun, EndWith, EndStart
    <2>4. CASE MayRegister(t) /\ EndWith(t, "active")
      BY <1>1, <2>1, <2>4 DEF MayRegister, EndWith, EndStart, With, RunEndsWithTurn
    <2>5. CASE UNCHANGED runs
      BY <1>same, <2>1, <2>5
    <2> QED
      BY <2>2, <2>3, <2>4, <2>5
  <1>8. ASSUME NEW t \in Turn, Completion(t) \/ SyncPending(t) PROVE RunEndsWithTurn'
    <2>1. UNCHANGED ended
      BY <1>8 DEF Completion, Completed, CompletionFails, SyncPending, host
    <2> QED
      BY <1>8, <1>same, <1>with, <2>1 DEF Completion, Completed, CompletionFails, SyncPending, SetRun
  <1> QED
    BY <1>2, <1>3, <1>4, <1>5, <1>6, <1>7, <1>8 DEF Next, Host, Begin

\* The end of a start skips no turn: what it forgets belongs to turns that
\* are over, or to the one it has just recorded.
LEMMA EndSkipsNone ==
  ASSUME TypeOK, TurnInv, NoTurnIsSkipped, NEW t \in Turn, start[t] # "none", NEW r, NEW c,
         EndStart(t, r, c), UNCHANGED <<turn, ended>>,
         \A u \in Turn : r[u] = "none" => runs[u] = "none",
         r[t] = "none" => t \notin claims
  PROVE  NoTurnIsSkipped'
  <1> SUFFICES ASSUME NEW u \in 1..turn, u \notin ended, r[u] = "none" PROVE u \in claims'
    BY DEF NoTurnIsSkipped, EndStart
  <1>1. turn \in 0..MaxTurn
    BY DEF TypeOK
  <1>2. u \in Turn /\ u = turn
    BY <1>1 DEF TurnInv, Turn
  <1>3. u \in claims
    BY <1>2 DEF NoTurnIsSkipped
  <1>4. t # u /\ t <= turn
    BY <1>3 DEF TurnInv
  <1> QED
    BY <1>1, <1>2, <1>3, <1>4 DEF EndStart, Remaining, Turn

\* Every step keeps the messages of a turn that has no run yet.
LEMMA ClaimsStep ==
  ASSUME TypeOK, TurnInv, NoTurnIsSkipped, [Next]_vars
  PROVE  NoTurnIsSkipped'
  <1>1. runs \in [Turn -> Statuses] /\ turn \in 0..MaxTurn
    BY DEF TypeOK, Statuses
  <1>same. ASSUME UNCHANGED <<turn, ended, claims>>, \A u \in Turn : runs'[u] = "none" => runs[u] = "none"
           PROVE  NoTurnIsSkipped'
    BY <1>1, <1>same DEF NoTurnIsSkipped, Turn
  <1>with. ASSUME NEW t \in Turn, NEW status, status # "none"
           PROVE  With(t, status)[t] # "none" /\ \A u \in Turn : With(t, status)[u] = "none" => runs[u] = "none"
    BY <1>1, <1>with DEF With
  <1>2. CASE Claim
    BY <1>1, <1>2 DEF Claim, NoTurnIsSkipped, TurnInv, Turn
  <1>3. CASE FollowUp
    BY <1>3 DEF FollowUp, NoTurnIsSkipped
  <1>4. CASE TurnEnd
    <2>1. \A u \in Turn : runs'[u] = "none" => runs[u] = "none"
      BY <1>1, <1>4 DEF TurnEnd, Closing
    <2> QED
      BY <1>1, <1>4, <2>1 DEF TurnEnd, NoTurnIsSkipped, Turn
  <1>5. CASE Reply \/ Dispose \/ BeginValidates \/ BeginOpens \/ UNCHANGED vars
    BY <1>5, <1>same DEF Reply, Dispose, BeginValidates, BeginOpens, host, vars
  <1>6. CASE BeginBlocks
    BY <1>1, <1>6 DEF BeginBlocks, NoTurnIsSkipped, Turn, host
  <1>7. ASSUME NEW a \in Assembly, Assemble(a) \/ Refreshed(a) PROVE NoTurnIsSkipped'
    BY <1>7, <1>same DEF Assemble, Refreshed, host
  <1>8. ASSUME NEW a \in Assembly, Check(a) PROVE NoTurnIsSkipped'
    <2>1. \A u \in Turn : runs'[u] = "none" => runs[u] = "none"
      BY <1>1, <1>8 DEF Check, Usable, Unusable, With, Degraded
    <2> QED
      BY <1>8, <1>same, <2>1 DEF Check, Usable, Unusable, host
  <1>9. ASSUME NEW t \in Turn, StartStep(t) PROVE NoTurnIsSkipped'
    <2>1. UNCHANGED <<turn, ended>> /\ start[t] # "none"
      BY <1>9 DEF StartStep, LoadBegins, LoadEnds, LoadFails, Authorized, Bound, Negotiated, Started,
                  Activate, StartFails, Dispatching, host
    <2>2. \/ RecordEndedRun(t)
          \/ \E status \in {"scope_inactive", "degraded", "active"} : EndWith(t, status)
          \/ EndStart(t, runs, current) /\ t \notin claims
          \/ UNCHANGED <<runs, claims>>
      BY <1>9 DEF StartStep, LoadBegins, LoadEnds, LoadFails, Authorized, Bound, Negotiated, Started,
                  Activate, StartFails
    <2>3. CASE RecordEndedRun(t)
      BY <1>with, <2>1, <2>3, EndSkipsNone DEF RecordEndedRun
    <2>4. ASSUME NEW status \in {"scope_inactive", "degraded", "active"}, EndWith(t, status) PROVE NoTurnIsSkipped'
      <3>1. status # "none"
        OBVIOUS
      <3> QED
        BY <1>with, <2>1, <2>4, <3>1, EndSkipsNone DEF EndWith
    <2>5. CASE EndStart(t, runs, current) /\ t \notin claims
      BY <2>1, <2>5, EndSkipsNone
    <2>6. CASE UNCHANGED <<runs, claims>>
      BY <1>same, <2>1, <2>6
    <2> QED
      BY <2>2, <2>3, <2>4, <2>5, <2>6
  <1>10. ASSUME NEW t \in Turn, Completion(t) \/ SyncPending(t) PROVE NoTurnIsSkipped'
    <2>1. UNCHANGED <<turn, ended, claims>>
      BY <1>10 DEF Completion, Completed, CompletionFails, SyncPending, host
    <2>2. runs' = runs \/ \E status \in {"completed", "completion_pending"} : runs' = With(t, status)
      BY <1>10 DEF Completion, Completed, CompletionFails, SyncPending, SetRun
    <2> QED
      BY <1>same, <1>with, <2>1, <2>2
  <1> QED
    BY <1>2, <1>3, <1>4, <1>5, <1>6, <1>7, <1>8, <1>9, <1>10 DEF Next, Host, Begin

\* The invariant is inductive.
LEMMA StepInv == IInv /\ [Next]_vars => IInv'
  BY TypeStep, TurnStep, BeginStep, StartStepInv, CompletionStep, ToolsStep, RunStep, ClaimsStep DEF IInv

LEMMA Invariance == Spec => []IInv
  BY InitInv, StepInv, PTL DEF Spec

-----------------------------------------------------------------------------
\* Every variable keeps its type.
THEOREM TypeCorrect == Spec => []TypeOK
  BY Invariance, PTL DEF IInv

\* Tools are registered only for the active, current run of a turn that goes
\* on, however late the answers of its start and of other starts come.
THEOREM ToolsBelongHolds == Spec => []ToolsBelongToLiveRun
  BY Invariance, PTL DEF IInv

\* No run is active after its turn has ended.
THEOREM RunEndsHolds == Spec => []RunEndsWithTurn
  BY Invariance, PTL DEF IInv

\* Only a turn that goes on has an active run, and only its run has tools.
THEOREM OnlyTheLiveRunActsHolds == Spec => []OnlyTheLiveRunActs
  BY ToolsBelongHolds, RunEndsHolds, PTL DEF OnlyTheLiveRunActs

\* No turn that goes on loses its messages before it has a run.
THEOREM NoTurnIsSkippedHolds == Spec => []NoTurnIsSkipped
  BY Invariance, PTL DEF IInv

=============================================================================
