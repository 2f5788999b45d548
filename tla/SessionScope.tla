---------------------------- MODULE SessionScope ----------------------------
(***************************************************************************)
(* SessionScopeCoordinator (lib/session-scope.js): one session's entry in  *)
(* one runtime, beside the stored scope record that other runtimes write   *)
(* as well.  Code between two awaits is one action; a store or network     *)
(* call in flight is a variable of its own, so that every call of the      *)
(* coordinator interleaves with every other.                               *)
(*                                                                         *)
(* A selection is a model value, Chat the empty one.  entry.record is a    *)
(* new object per write, and so is its revision: comparing the records     *)
(* stands for comparing the objects.                                       *)
(***************************************************************************)
EXTENDS Naturals

CONSTANTS
  Selection,       \* the non-empty sets of authorizations a user may confirm
  Chat,            \* the empty selection
  NoRecord, NoCheck, NoSave,
  Proof,           \* what resolving the authorizations may say
  Faults,          \* whether the store may fail or lose an answer
  MaxGeneration,   \* bound: calls that raise the generation
  MaxRevision,     \* bound: revisions at which set still starts
  MaxOthers,       \* bound: writes by other runtimes
  MaxRestarts      \* bound: restarts of this runtime

ASSUME ChatIsEmpty == Chat \notin Selection
ASSUME FaultsIsFlag == Faults \in BOOLEAN
ASSUME ProofOutcomes == Proof \subseteq {"ok", "unverified", "lost"}

Scope == Selection \cup {Chat}
Record == [revision : Nat \ {0}, state : {"ready", "needs_selection"}, locked : BOOLEAN, scope : Scope]
Check == [record : Record, generation : Nat, same : BOOLEAN]
Validation == [record : Record, generation : Nat, phase : {"resolve", "check"},
               same : BOOLEAN, fresh : BOOLEAN]
Saving == [next : Record, status : {"issued", "done", "failed"}]
Loading == [state : {"no", "loading", "failed", "yes"}, read : Record \cup {NoRecord}]
SetCall == [pc : {"idle", "load", "tombstone", "resolve", "ready", "retract"},
            scope : Scope, generation : Nat]
Joined == [record : Record, generation : Nat]

ASSUME BoundsAreNat == MaxOthers \in Nat /\ MaxRestarts \in Nat

ASSUME AbsentValues == /\ NoRecord \notin Record
                       /\ NoCheck \notin Check
                       /\ NoSave \notin Saving

VARIABLES
  stored,        \* the durable record
  record,        \* entry.record
  loaded,        \* entry.loaded, and what a load in flight has read
  claimed, blocked, retryRequired, pending, generation, loadFailed,
  setting,       \* the set call: where it is, what it selects, its generation
  beginning,     \* where beginOnce is
  saving,        \* the save of write
  checks,        \* checkStored in flight, for a reader and for beginOnce
  validations,   \* validations in flight
  validation,    \* entry.validation: the one whose result others wait for
  started, restored,       \* the history holds a message; held one when attached
  intent,        \* history: what the user last asked set for
  proven, lost,  \* history: fresh proof, definitive loss
  others, restarts

memory == <<record, loaded, claimed, blocked, retryRequired, pending, generation, loadFailed,
            setting, beginning, checks, validations, validation, restored>>
history == <<intent, proven, lost>>
vars == <<stored, saving, memory, started, history, others, restarts>>

TypeOK ==
  /\ stored \in Record \cup {NoRecord}
  /\ record \in Record \cup {NoRecord}
  /\ loaded \in Loading
  /\ claimed \in BOOLEAN /\ blocked \in BOOLEAN /\ retryRequired \in BOOLEAN
  /\ pending \in BOOLEAN /\ loadFailed \in BOOLEAN
  /\ generation \in Nat
  /\ setting \in SetCall
  /\ beginning \in {"idle", "check", "lock", "validate"}
  /\ saving \in Saving \cup {NoSave}
  /\ checks \in [{"reader", "begin"} -> Check \cup {NoCheck}]
  /\ validations \in SUBSET Validation
  /\ validation \in Joined \cup {NoCheck}
  /\ started \in BOOLEAN /\ restored \in BOOLEAN
  /\ intent \in Scope
  /\ proven \in BOOLEAN /\ lost \in BOOLEAN
  /\ others \in 0..MaxOthers /\ restarts \in 0..MaxRestarts

Idle == [pc |-> "idle", scope |-> Chat, generation |-> 0]

Init ==
  /\ stored = NoRecord
  /\ record = NoRecord
  /\ loaded = [state |-> "no", read |-> NoRecord]
  /\ claimed = FALSE /\ blocked = FALSE /\ retryRequired = FALSE
  /\ pending = FALSE /\ loadFailed = FALSE
  /\ generation = 0
  /\ setting = Idle
  /\ beginning = "idle"
  /\ saving = NoSave
  /\ checks = [c \in {"reader", "begin"} |-> NoCheck]
  /\ validations = {}
  /\ validation = NoCheck
  /\ started = FALSE /\ restored = FALSE
  /\ intent = Chat
  /\ proven = FALSE /\ lost = FALSE
  /\ others = 0 /\ restarts = 0

Locked(r) == r # NoRecord /\ r.locked
Ready(r) == r # NoRecord /\ r.state = "ready"

IsValidating == validation = [record |-> record, generation |-> generation]

\* assertCurrent: the synchronous gate in front of every dispatch.
GateOpen ==
  /\ ~ pending /\ ~ blocked /\ ~ retryRequired /\ ~ IsValidating
  /\ Ready(record) /\ record.locked /\ record.scope # Chat

-----------------------------------------------------------------------------
(* load, write, checkStored and revalidate, shared by the calls *)

LoadRead ==
  /\ loaded.state = "no"
  /\ \/ loaded' = [state |-> "loading", read |-> stored]
     \/ Faults /\ loaded' = [state |-> "failed", read |-> NoRecord]
  /\ UNCHANGED <<stored, record, claimed, blocked, retryRequired, pending, generation, loadFailed,
                 setting, beginning, saving, checks, validations, validation, restored, started,
                 history, others, restarts>>

IsDraft(r) == r # NoRecord /\ ~ r.locked

LoadDone ==
  /\ loaded.state \in {"loading", "failed"}
  /\ loaded' = [state |-> "yes", read |-> NoRecord]
  /\ record' = loaded.read
  /\ blocked' = (blocked \/ loaded.state = "failed" \/ IsDraft(loaded.read))
  /\ retryRequired' = IF loaded.state = "failed" THEN retryRequired
                      ELSE loaded.read # NoRecord /\ loaded.read.scope # Chat
  /\ loadFailed' = (loaded.state = "failed")
  /\ UNCHANGED <<stored, claimed, pending, generation, setting, beginning, saving, checks,
                 validations, validation, restored, started, history, others, restarts>>

\* write: the next revision, over the one this entry holds
Save(state, locked, scope) ==
  saving' = [status |-> "issued",
             next |-> [revision |-> IF record = NoRecord THEN 1 ELSE record.revision + 1,
                       state |-> state, locked |-> locked, scope |-> scope]]

Tombstone(locked) == Save("needs_selection", locked, Chat)

\* store.save compares the expected revision with the stored one.
Replaces(next) == next.revision = IF stored = NoRecord THEN 1 ELSE stored.revision + 1

SaveEffect ==
  /\ saving # NoSave /\ saving.status = "issued"
  /\ \/ /\ Replaces(saving.next)
        /\ stored' = saving.next
        /\ \/ saving' = [saving EXCEPT !.status = "done"]
           \/ Faults /\ saving' = [saving EXCEPT !.status = "failed"]
     \/ /\ Faults \/ ~ Replaces(saving.next)
        /\ saving' = [saving EXCEPT !.status = "failed"]
        /\ UNCHANGED stored
  /\ UNCHANGED <<memory, started, history, others, restarts>>

Saved == saving # NoSave /\ saving.status = "done"
NotSaved == saving # NoSave /\ saving.status = "failed"

NewCheck == [record |-> record, generation |-> generation, same |-> stored = record]

\* The stored record was read at some moment between the call and now.
Mismatch(c) == (~ c.same \/ stored # c.record \/ Faults)
Match(c) == c.same \/ stored = c.record

\* a faulty Invalidate: treats every failed probe as a passing one
InvalidateForRetry(definitive) ==
  /\ generation' = generation + 1
  /\ retryRequired' = TRUE
  /\ proven' = FALSE
  /\ lost' = (lost \/ definitive)
  /\ UNCHANGED blocked

\* A mismatch closes the scope it was read for, and no later one.
StillChecked(c) == record = c.record /\ generation = c.generation

\* invalidate: whatever is in flight proves nothing any more.
Invalidate(definitive) ==
  /\ generation' = generation + 1
  /\ blocked' = (blocked \/ definitive)
  /\ retryRequired' = (retryRequired \/ ~ definitive)
  /\ proven' = FALSE
  /\ lost' = (lost \/ definitive)

Stale(set) == {[v EXCEPT !.fresh = FALSE] : v \in set}

\* revalidate: callers that find one under way for this very scope join it.
Revalidate ==
  IF IsValidating THEN UNCHANGED <<validations, validation, retryRequired>>
  ELSE /\ validations' = validations \cup
            {[record |-> record, generation |-> generation, phase |-> "resolve",
              same |-> FALSE, fresh |-> TRUE]}
       /\ validation' = [record |-> record, generation |-> generation]
       /\ retryRequired' = (record.scope # Chat)

-----------------------------------------------------------------------------
(* set *)

CanSet == ~ claimed /\ ~ Locked(record)

\* What is asked of a conversation that is frozen already does not count.
Asked(scope) == IF Locked(stored) THEN intent ELSE scope

\* A second set while one is under way defeats both.
SetCollides(scope) ==
  /\ CanSet /\ pending
  /\ generation < MaxGeneration
  /\ blocked' = TRUE
  /\ generation' = generation + 1
  /\ intent' = Asked(scope)
  /\ UNCHANGED <<stored, saving, record, loaded, claimed, retryRequired, pending, loadFailed,
                 setting, beginning, checks, validations, validation, restored, started,
                 proven, lost, others, restarts>>

SetStart(scope) ==
  /\ CanSet /\ ~ pending
  /\ generation < MaxGeneration
  /\ stored # NoRecord => stored.revision < MaxRevision
  /\ pending' = TRUE
  /\ generation' = generation + 1
  /\ setting' = [pc |-> "load", scope |-> scope, generation |-> generation + 1]
  /\ intent' = Asked(scope)
  /\ UNCHANGED <<stored, saving, record, loaded, claimed, blocked, retryRequired, loadFailed,
                 beginning, checks, validations, validation, restored, started, proven, lost,
                 others, restarts>>

SetEnds == pending' = FALSE /\ setting' = Idle

SetLocked ==
  /\ setting.pc = "load" /\ loaded.state = "yes"
  /\ ~ CanSet
  /\ SetEnds
  /\ UNCHANGED <<stored, saving, record, loaded, claimed, blocked, retryRequired, generation,
                 loadFailed, beginning, checks, validations, validation, restored, started,
                 history, others, restarts>>

\* The previous selection is withdrawn durably before the new one is proved.
SetWithdraws ==
  /\ setting.pc = "load" /\ loaded.state = "yes"
  /\ CanSet
  /\ blocked' = TRUE
  /\ Tombstone(FALSE)
  /\ setting' = [setting EXCEPT !.pc = "tombstone"]
  /\ UNCHANGED <<stored, record, loaded, claimed, retryRequired, pending, generation, loadFailed,
                 beginning, checks, validations, validation, restored, started, history,
                 others, restarts>>

\* Everything a set call awaits may fail, and leaves the scope blocked.
SetFails ==
  /\ \/ setting.pc \in {"tombstone", "ready", "retract"} /\ NotSaved
     \/ setting.pc = "resolve" /\ Proof # {"ok"}
  /\ saving' = NoSave
  /\ blocked' = TRUE
  /\ SetEnds
  /\ UNCHANGED <<stored, record, loaded, claimed, retryRequired, generation, loadFailed,
                 beginning, checks, validations, validation, restored, started, history,
                 others, restarts>>

\* The record was read without an error and the request is well-formed, or not.
SetWithdrawn ==
  /\ setting.pc = "tombstone" /\ Saved
  /\ saving' = NoSave
  /\ record' = saving.next
  /\ \/ /\ ~ loadFailed
        /\ setting' = [setting EXCEPT !.pc = "resolve"]
        /\ UNCHANGED pending
     \/ (loadFailed \/ Faults) /\ SetEnds
  /\ UNCHANGED <<stored, loaded, claimed, blocked, retryRequired, generation, loadFailed,
                 beginning, checks, validations, validation, restored, started, history,
                 others, restarts>>

\* No first message and no other set arrived meanwhile.
SetIsCurrent == ~ claimed /\ generation = setting.generation

SetResolved ==
  /\ setting.pc = "resolve"
  /\ IF SetIsCurrent
       THEN /\ Save("ready", FALSE, setting.scope)
            /\ setting' = [setting EXCEPT !.pc = "ready"]
            /\ UNCHANGED pending
       ELSE SetEnds /\ UNCHANGED saving
  /\ UNCHANGED <<stored, record, loaded, claimed, blocked, retryRequired, generation, loadFailed,
                 beginning, checks, validations, validation, restored, started, history,
                 others, restarts>>

SetConfirmed ==
  /\ setting.pc = "ready" /\ Saved
  /\ SetIsCurrent
  /\ saving' = NoSave
  /\ record' = saving.next
  /\ blocked' = FALSE
  /\ retryRequired' = FALSE
  /\ proven' = TRUE /\ lost' = FALSE
  /\ SetEnds
  /\ UNCHANGED <<stored, loaded, claimed, generation, loadFailed, beginning, checks,
                 validations, validation, restored, started, intent, others, restarts>>

SetRetracts ==
  /\ setting.pc = "ready" /\ Saved
  /\ ~ SetIsCurrent
  /\ record' = saving.next
  /\ saving' = [status |-> "issued",
                next |-> [revision |-> saving.next.revision + 1, state |-> "needs_selection",
                          locked |-> claimed, scope |-> Chat]]
  /\ setting' = [setting EXCEPT !.pc = "retract"]
  /\ UNCHANGED <<stored, loaded, claimed, blocked, retryRequired, pending, generation, loadFailed,
                 beginning, checks, validations, validation, restored, started, history,
                 others, restarts>>

SetRetracted ==
  /\ setting.pc = "retract" /\ Saved
  /\ saving' = NoSave
  /\ record' = saving.next
  /\ blocked' = TRUE
  /\ SetEnds
  /\ UNCHANGED <<stored, loaded, claimed, retryRequired, generation, loadFailed, beginning,
                 checks, validations, validation, restored, started, history, others, restarts>>

-----------------------------------------------------------------------------
(* markStarted, begin, get and restore *)

\* The first message claims the conversation.
MarkStarted ==
  /\ ~ claimed
  /\ started' = TRUE
  /\ claimed' = TRUE
  /\ blocked' = (blocked \/ pending)
  /\ generation' = IF pending THEN generation + 1 ELSE generation
  /\ UNCHANGED <<stored, saving, record, loaded, retryRequired, pending, loadFailed, setting,
                 beginning, checks, validations, validation, restored, history, others, restarts>>

BeginStart ==
  /\ claimed /\ beginning = "idle" /\ loaded.state = "yes"
  /\ generation < MaxGeneration
  /\ blocked' = (blocked \/ (restored /\ ~ Locked(record)))
  /\ IF pending \/ blocked' \/ (record # NoRecord /\ record.state = "needs_selection")
       THEN UNCHANGED <<beginning, checks, saving>>
       ELSE IF record = NoRecord
              THEN Save("ready", TRUE, Chat) /\ beginning' = "lock" /\ UNCHANGED checks
              ELSE /\ checks' = [checks EXCEPT !["begin"] = NewCheck]
                   /\ beginning' = "check"
                   /\ UNCHANGED saving
  /\ UNCHANGED <<stored, record, loaded, claimed, retryRequired, pending, generation, loadFailed,
                 setting, validations, validation, restored, started, history, others, restarts>>

BeginChecked ==
  /\ beginning = "check"
  /\ LET c == checks["begin"] IN
       \/ Match(c) /\ UNCHANGED blocked
       \/ Mismatch(c) /\ blocked' = (blocked \/ StillChecked(c))
  /\ checks' = [checks EXCEPT !["begin"] = NoCheck]
  /\ IF blocked' THEN beginning' = "idle" /\ UNCHANGED saving
     ELSE IF record.locked THEN beginning' = "validate" /\ UNCHANGED saving
     ELSE Save("ready", TRUE, record.scope) /\ beginning' = "lock"
  /\ UNCHANGED <<stored, record, loaded, claimed, retryRequired, pending, generation, loadFailed,
                 setting, validations, validation, restored, started, history, others, restarts>>

BeginLockedAnyway ==        \* a faulty BeginLocked: the record is set before it is saved
  /\ beginning = "lock"
  /\ Saved \/ NotSaved
  /\ record' = saving.next
  /\ saving' = NoSave
  /\ beginning' = "validate"
  /\ UNCHANGED <<stored, loaded, claimed, blocked, retryRequired, pending, generation, loadFailed,
                 setting, checks, validations, validation, restored, started, history,
                 others, restarts>>

BeginLocked ==
  /\ beginning = "lock"
  /\ \/ Saved /\ record' = saving.next /\ beginning' = "validate" /\ UNCHANGED blocked
     \/ NotSaved /\ blocked' = TRUE /\ beginning' = "idle" /\ UNCHANGED record
  /\ saving' = NoSave
  /\ UNCHANGED <<stored, loaded, claimed, retryRequired, pending, generation, loadFailed,
                 setting, checks, validations, validation, restored, started, history,
                 others, restarts>>

BeginValidates ==
  /\ beginning = "validate"
  /\ beginning' = "idle"
  /\ IF blocked \/ pending THEN UNCHANGED <<validations, validation, retryRequired>> ELSE Revalidate
  /\ UNCHANGED <<stored, saving, record, loaded, claimed, blocked, pending, generation, loadFailed,
                 setting, checks, restored, started, history, others, restarts>>

\* get and restore of a record that is there
Read ==
  /\ loaded.state = "yes" /\ checks["reader"] = NoCheck
  /\ generation < MaxGeneration
  /\ record # NoRecord /\ ~ pending /\ ~ blocked
  /\ checks' = [checks EXCEPT !["reader"] = NewCheck]
  /\ UNCHANGED <<stored, saving, record, loaded, claimed, blocked, retryRequired, pending,
                 generation, loadFailed, setting, beginning, validations, validation, restored,
                 started, history, others, restarts>>

ReadChecked ==
  /\ checks["reader"] # NoCheck
  /\ LET c == checks["reader"] IN
       \/ Match(c) /\ UNCHANGED blocked
       \/ Mismatch(c) /\ blocked' = (blocked \/ StillChecked(c))
  /\ checks' = [checks EXCEPT !["reader"] = NoCheck]
  /\ IF ~ blocked' /\ ~ pending /\ Ready(record) THEN Revalidate
     ELSE UNCHANGED <<validations, validation, retryRequired>>
  /\ UNCHANGED <<stored, saving, record, loaded, claimed, pending, generation, loadFailed,
                 setting, beginning, restored, started, history, others, restarts>>

\* restore of a pending selection, or of a conversation without a record
Restore ==
  /\ loaded.state = "yes"
  /\ pending \/ record = NoRecord
  /\ generation < MaxGeneration
  /\ blocked' = TRUE
  /\ generation' = IF pending THEN generation + 1 ELSE generation
  /\ claimed' \in IF record = NoRecord THEN {TRUE, claimed \/ started} ELSE {claimed}
  /\ UNCHANGED <<stored, saving, record, loaded, retryRequired, pending, loadFailed, setting,
                 beginning, checks, validations, validation, restored, started, history,
                 others, restarts>>

-----------------------------------------------------------------------------
(* the steps of a validation, and the authorization probes of the runtime *)

\* a faulty IsCurrent: forgets that an invalidation may have come in between
SameRecord(v) == record = v.record /\ ~ blocked /\ ~ pending

IsCurrent(v) == record = v.record /\ generation = v.generation /\ ~ blocked /\ ~ pending

Without(v) ==
  /\ validation' = IF validation = [record |-> v.record, generation |-> v.generation]
                   THEN NoCheck ELSE validation

ValidationResolved(v) ==
  /\ v.phase = "resolve" /\ "ok" \in Proof
  /\ IF IsCurrent(v)
       THEN /\ validations' = (validations \ {v}) \cup
                 {[v EXCEPT !.phase = "check", !.same = (stored = v.record)]}
            /\ UNCHANGED validation
       ELSE validations' = validations \ {v} /\ Without(v)
  /\ UNCHANGED <<stored, saving, record, loaded, claimed, blocked, retryRequired, pending,
                 generation, loadFailed, setting, beginning, checks, restored, started, history,
                 others, restarts>>

ValidationFailed(v) ==
  /\ v.phase = "resolve"
  /\ \E p \in Proof \ {"ok"} :
       IF IsCurrent(v)
         THEN Invalidate(p = "lost") /\ validations' = Stale(validations \ {v})
         ELSE /\ validations' = validations \ {v}
              /\ UNCHANGED <<generation, blocked, retryRequired, proven, lost>>
  /\ Without(v)
  /\ UNCHANGED <<stored, saving, record, loaded, claimed, pending, loadFailed, setting, beginning,
                 checks, restored, started, intent, others, restarts>>

ValidationChecked(v) ==
  /\ v.phase = "check"
  /\ \/ Match(v) /\ UNCHANGED blocked
     \/ Mismatch(v) /\ blocked' = (blocked \/ StillChecked(v))
  /\ IF IsCurrent(v) /\ ~ blocked'
       THEN retryRequired' = FALSE /\ proven' = v.fresh
       ELSE UNCHANGED <<retryRequired, proven>>
  /\ validations' = validations \ {v}
  /\ Without(v)
  /\ UNCHANGED <<stored, saving, record, loaded, claimed, pending, generation, loadFailed, setting,
                 beginning, checks, restored, started, intent, lost, others, restarts>>

\* A status request of the runtime found the authorization lost or unreachable.
ProbeFails ==
  /\ record # NoRecord /\ record.locked /\ record.scope # Chat
  /\ generation < MaxGeneration
  /\ \E p \in Proof \ {"ok"} : Invalidate(p = "lost")
  /\ validations' = Stale(validations)
  /\ UNCHANGED <<stored, saving, record, loaded, claimed, pending, loadFailed, setting, beginning,
                 checks, validation, restored, started, intent, others, restarts>>

-----------------------------------------------------------------------------
(* the environment *)

\* Another runtime confirms, replaces or locks a draft.
OtherWrites ==
  /\ others < MaxOthers
  /\ ~ Locked(stored)
  /\ others' = others + 1
  /\ \E next \in [revision : {IF stored = NoRecord THEN 1 ELSE stored.revision + 1},
                  state : {"ready", "needs_selection"}, locked : BOOLEAN, scope : Scope],
        asked \in Scope :
       /\ next.state = "needs_selection" => next.scope = Chat /\ ~ next.locked
       /\ next.locked => next.scope = IF Ready(stored) THEN stored.scope ELSE Chat
       /\ next.locked /\ stored # NoRecord => Ready(stored)
       /\ stored' = next
       \* Of two selections made at once, the one that ends last counts.
       /\ intent' = IF next.locked THEN next.scope
                    ELSE IF pending THEN intent
                    ELSE IF next.state = "ready" THEN next.scope ELSE asked
  /\ UNCHANGED <<saving, memory, started, proven, lost, restarts>>

\* The program stops and the session is opened again.
Restart ==
  /\ restarts < MaxRestarts
  /\ restarts' = restarts + 1
  /\ stored' \in {stored} \cup
       IF saving # NoSave /\ saving.status = "issued" /\ Replaces(saving.next)
       THEN {saving.next} ELSE {}
  /\ saving' = NoSave
  /\ record' = NoRecord
  /\ loaded' = [state |-> "no", read |-> NoRecord]
  /\ claimed' = FALSE /\ blocked' = FALSE /\ retryRequired' = FALSE
  /\ pending' = FALSE /\ loadFailed' = FALSE /\ generation' = 0
  /\ setting' = Idle /\ beginning' = "idle"
  /\ checks' = [c \in {"reader", "begin"} |-> NoCheck]
  /\ validations' = {} /\ validation' = NoCheck
  /\ restored' = started
  /\ proven' = FALSE /\ lost' = FALSE
  /\ UNCHANGED <<started, intent, others>>

-----------------------------------------------------------------------------
Set ==
  \/ \E scope \in Scope : SetCollides(scope) \/ SetStart(scope)
  \/ SetLocked \/ SetWithdraws \/ SetWithdrawn \/ SetResolved \/ SetConfirmed
  \/ SetRetracts \/ SetRetracted \/ SetFails

Begin == BeginStart \/ BeginChecked \/ BeginLocked \/ BeginValidates

Validate ==
  \E v \in validations : ValidationResolved(v) \/ ValidationFailed(v) \/ ValidationChecked(v)

Next ==
  \/ LoadRead \/ LoadDone \/ SaveEffect
  \/ Set \/ Begin \/ MarkStarted
  \/ Read \/ ReadChecked \/ Restore
  \/ Validate \/ ProbeFails
  \/ OtherWrites \/ Restart

Spec == Init /\ [][Next]_vars
-----------------------------------------------------------------------------
(* properties *)

\* Dispatch uses the frozen record on disk, whatever other runtimes wrote.
OpenScopeIsDurable == GateOpen => stored = record

\* Dispatch never uses a selection that the user has replaced since, even by
\* a replacement that failed, collided, or was cut short by a restart.
OpenScopeIsIntended == GateOpen => record.scope = intent

\* The scope that dispatch uses is the one on disk and the one the user means.
OpenScopeIsTheChosenOne == OpenScopeIsDurable /\ OpenScopeIsIntended

\* An answer to a question asked before the latest invalidation opens nothing.
OnlyFreshProofOpens == GateOpen => proven

\* A confirmed loss keeps a started conversation closed while the runtime lives.
LossIsFinal == lost => ~ GateOpen

\* With a healthy store, valid authorizations and no second set, only a set
\* call or opening a session closes the scope: "get reads the scope".
ReadsNeverClose == [][record # NoRecord /\ ~ pending /\ ~ blocked => ~ blocked']_vars
=============================================================================
