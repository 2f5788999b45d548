------------------------- MODULE InvocationJournal -------------------------
(***************************************************************************)
(* InvocationJournal (lib/invocation-journal.js): the durable record of    *)
(* business calls, written by several processes through one revisioned     *)
(* store.  Each process runs one journal operation at a time (serial), but *)
(* between an operation's read and its save other processes may save.      *)
(*                                                                         *)
(* store.save is the atomic compare-and-swap that SessionFileStore         *)
(* implements; its answer may be lost.                                     *)
(***************************************************************************)
EXTENDS Naturals, FiniteSets

CONSTANTS
  Process, Id, Binding, Outcome, Unknown, NoEntry,
  MaxRevision,   \* bound: the saves of one run, a removal counted as one
  MaxRemovals    \* bound: how often the record is removed behind the journal

ASSUME UnknownIsOutcome == Unknown \in Outcome

Entry == [binding : Binding, outcome : Outcome]
Unsaved == [entry : Entry, previous : Entry]
Operation == [id : Id, entry : Entry, previous : Entry]

ASSUME NoEntryIsNone == NoEntry \notin Entry /\ NoEntry \notin Unsaved /\ NoEntry \notin Operation
ASSUME BoundsAreNat == MaxRevision \in Nat /\ MaxRemovals \in Nat

VARIABLES
  store,      \* the durable record: its revision and entries
  removals,   \* how often the record was removed
  seen,       \* revisions: the highest revision each process has observed
  pending,    \* outcomes a process could not confirm as saved
  failed,     \* failures: whether the process's journal is marked as failed
  known,      \* record.journalEntry: the entry each caller took over
  pc, op,     \* the operation each process is in
  snap,       \* the record that operation read
  created,    \* history: how often a reserve of id in this record answered created: true
  mine        \* history: the identifiers a living process was told it created

vars == <<store, removals, seen, pending, failed, known, pc, op, snap, created, mine>>
told == <<created, mine>>

NoRecord == [revision |-> 0, entries |-> [id \in Id |-> NoEntry]]
JournalRecord == [revision : Nat, entries : [Id -> Entry \cup {NoEntry}]]

TypeOK ==
  /\ store \in JournalRecord
  /\ removals \in 0..MaxRemovals
  /\ seen \in [Process -> Nat]
  /\ pending \in [Process -> [Id -> Unsaved \cup {NoEntry}]]
  /\ failed \in [Process -> BOOLEAN]
  /\ known \in [Process -> [Id -> Entry \cup {NoEntry}]]
  /\ pc \in [Process -> {"idle", "reserveRead", "reserveWrite", "updateRead",
                         "updateWrite", "restore", "restoreWrite"}]
  /\ op \in [Process -> Operation \cup {NoEntry}]
  /\ snap \in [Process -> JournalRecord]
  /\ created \in [Id -> Nat]
  /\ mine \in [Process -> SUBSET Id]

Init ==
  /\ store = NoRecord
  /\ removals = 0
  /\ seen = [p \in Process |-> 0]
  /\ pending = [p \in Process |-> [id \in Id |-> NoEntry]]
  /\ failed = [p \in Process |-> FALSE]
  /\ known = [p \in Process |-> [id \in Id |-> NoEntry]]
  /\ pc = [p \in Process |-> "idle"]
  /\ op = [p \in Process |-> NoEntry]
  /\ snap = [p \in Process |-> NoRecord]
  /\ created = [id \in Id |-> 0]
  /\ mine = [p \in Process |-> {}]

UnsavedIds(p) == {id \in Id : pending[p][id] # NoEntry}

Goto(p, label) == pc' = [pc EXCEPT ![p] = label]

\* The operation is over: nothing of it stays in memory.
Return(p) ==
  /\ Goto(p, "idle")
  /\ op' = [op EXCEPT ![p] = NoEntry]
  /\ snap' = [snap EXCEPT ![p] = NoRecord]

Failure(p) == failed' = [failed EXCEPT ![p] = TRUE]

-----------------------------------------------------------------------------
(* read and write, shared by every operation *)

ReadableAnyway(p) == TRUE       \* a faulty Readable

\* The stored record is neither missing nor older than what this process saw.
Readable(p) == store.revision >= seen[p]

\* store.load succeeded and the record was accepted.
Read(p) ==
  /\ Readable(p)
  /\ seen' = [seen EXCEPT ![p] = store.revision]

\* save of the record read by p, with p's entry in place of the old one
NextRecord(p) ==
  [revision |-> snap[p].revision + 1,
   entries  |-> [snap[p].entries EXCEPT ![op[p].id] = op[p].entry]]

RevisionMatches(p) == store.revision = snap[p].revision

Saved(p) ==
  /\ RevisionMatches(p)
  /\ store' = NextRecord(p)
  /\ seen' = [seen EXCEPT ![p] = NextRecord(p).revision]

\* The save was refused, never happened, or happened without an answer.
NotConfirmed(p) ==
  /\ UNCHANGED seen
  /\ \/ UNCHANGED store
     \/ RevisionMatches(p) /\ store' = NextRecord(p)

-----------------------------------------------------------------------------
(* reserve *)

\* A journal with a failure or with unsaved outcomes reserves nothing.
BeginReserve(p, id, b) ==
  /\ pc[p] = "idle"
  /\ store.revision + removals < MaxRevision
  /\ ~ failed[p] /\ UnsavedIds(p) = {}
  /\ op' = [op EXCEPT ![p] =
       [id |-> id, entry |-> [binding |-> b, outcome |-> Unknown],
        previous |-> [binding |-> b, outcome |-> Unknown]]]
  /\ Goto(p, "reserveRead")
  /\ UNCHANGED <<store, removals, seen, pending, failed, known, snap, told>>

ReserveNew(p) ==
  /\ pc[p] = "reserveRead"
  /\ Read(p)
  /\ store.entries[op[p].id] = NoEntry
  /\ snap' = [snap EXCEPT ![p] = store]
  /\ Goto(p, "reserveWrite")
  /\ UNCHANGED <<store, removals, pending, failed, known, op, told>>

\* The identifier is there: the same call, to be recovered and not repeated.
ReserveExisting(p) ==
  /\ pc[p] = "reserveRead"
  /\ Read(p)
  /\ store.entries[op[p].id] # NoEntry
  /\ IF store.entries[op[p].id].binding = op[p].entry.binding
       THEN /\ known' = [known EXCEPT ![p][op[p].id] = store.entries[op[p].id]]
            /\ UNCHANGED failed
       ELSE UNCHANGED known /\ Failure(p)
  /\ Return(p)
  /\ UNCHANGED <<store, removals, pending, told>>

\* The caller hears created: true and will send the call.
Created(p) ==
  /\ created' = [created EXCEPT ![op[p].id] = @ + 1]
  /\ mine' = [mine EXCEPT ![p] = @ \cup {op[p].id}]

ReserveSaved(p) ==
  /\ pc[p] = "reserveWrite"
  /\ Saved(p)
  /\ Created(p)
  /\ known' = [known EXCEPT ![p][op[p].id] = op[p].entry]
  /\ failed' = [failed EXCEPT ![p] = FALSE]
  /\ Return(p)
  /\ UNCHANGED <<removals, pending>>

\* A save without an answer is no reservation, even if it took effect.
Unconfirmed(p) == UNCHANGED told

ReserveNotSaved(p) ==
  /\ pc[p] = "reserveWrite"
  /\ NotConfirmed(p)
  /\ Unconfirmed(p)
  /\ Failure(p)
  /\ Return(p)
  /\ UNCHANGED <<removals, pending, known>>

-----------------------------------------------------------------------------
(* update: the outcome of a call whose entry the caller holds *)

\* The runtime has at most one operation per identifier under way and starts
\* none while an earlier outcome of it is unsaved (verifyInvocationJournal).
BeginUpdate(p, id, o) ==
  /\ pc[p] = "idle"
  /\ store.revision + removals < MaxRevision
  /\ known[p][id] # NoEntry
  /\ pending[p][id] = NoEntry
  /\ LET entry == [known[p][id] EXCEPT !.outcome = o] IN
       /\ op' = [op EXCEPT ![p] = [id |-> id, entry |-> entry, previous |-> known[p][id]]]
       /\ pending' = [pending EXCEPT ![p][id] = [entry |-> entry, previous |-> known[p][id]]]
  /\ Goto(p, "updateRead")
  /\ UNCHANGED <<store, removals, seen, failed, known, snap, told>>

\* updateOnce found the entry the outcome was computed from.
StillPrevious(p) == store.entries[op[p].id] = op[p].previous

UpdateCurrent(p) ==
  /\ pc[p] = "updateRead"
  /\ Read(p)
  /\ store.entries[op[p].id] \notin {NoEntry, op[p].entry}
  /\ StillPrevious(p)
  /\ snap' = [snap EXCEPT ![p] = store]
  /\ Goto(p, "updateWrite")
  /\ UNCHANGED <<store, removals, pending, failed, known, op, told>>

\* pending.delete, and failures.delete once nothing is pending
Confirm(p) ==
  /\ pending' = [pending EXCEPT ![p][op[p].id] = NoEntry]
  /\ failed' = [failed EXCEPT ![p] = @ /\ UnsavedIds(p) # {op[p].id}]

\* An earlier save of this very entry did take effect.
UpdateAlreadySaved(p) ==
  /\ pc[p] = "updateRead"
  /\ Read(p)
  /\ store.entries[op[p].id] = op[p].entry
  /\ Confirm(p)
  /\ known' = [known EXCEPT ![p][op[p].id] = op[p].entry]
  /\ Return(p)
  /\ UNCHANGED <<store, removals, told>>

UpdateSaved(p) ==
  /\ pc[p] = "updateWrite"
  /\ Saved(p)
  /\ Confirm(p)
  /\ known' = [known EXCEPT ![p][op[p].id] = op[p].entry]
  /\ Return(p)
  /\ UNCHANGED <<removals, told>>

\* a faulty KeepPending
DropPending(p) == pending' = [pending EXCEPT ![p][op[p].id] = NoEntry]

\* What stays pending when a save is not confirmed: the outcome and the
\* entry it was computed from.
KeepPending(p) == UNCHANGED pending

UpdateNotSaved(p) ==
  /\ pc[p] = "updateWrite"
  /\ NotConfirmed(p)
  /\ KeepPending(p)
  /\ Failure(p)
  /\ Return(p)
  /\ UNCHANGED <<removals, known, told>>

\* Another process recorded a different outcome: it is not overwritten.
UpdateConflict(p) ==
  /\ pc[p] = "updateRead"
  /\ Read(p)
  /\ store.entries[op[p].id] # op[p].entry
  /\ ~ StillPrevious(p)
  /\ Failure(p)
  /\ Return(p)
  /\ UNCHANGED <<store, removals, pending, known, told>>

-----------------------------------------------------------------------------
(* status, find and restore *)

\* The load failed or the record was refused, in any operation that reads.
ReadFailed(p) ==
  /\ pc[p] \in {"idle", "reserveRead", "updateRead", "restore"}
  /\ ~ (pc[p] = "idle" /\ failed[p])
  /\ Failure(p)
  /\ Return(p)
  /\ UNCHANGED <<store, removals, seen, pending, known, told>>

\* verifyInvocationJournal: a journal that is ready hands out its entry.
Verify(p, id) ==
  /\ pc[p] = "idle"
  /\ ~ failed[p] /\ UnsavedIds(p) = {}
  /\ Read(p)
  /\ store.entries[id] # NoEntry
  /\ known' = [known EXCEPT ![p][id] = store.entries[id]]
  /\ UNCHANGED <<store, removals, pending, failed, pc, op, snap, told>>

BeginRestore(p) ==
  /\ pc[p] = "idle"
  /\ failed[p] \/ UnsavedIds(p) # {}
  /\ Goto(p, "restore")
  /\ UNCHANGED <<store, removals, seen, pending, failed, known, op, snap, told>>

RestoreEntry(p, id) ==
  /\ pc[p] = "restore"
  /\ pending[p][id] # NoEntry
  /\ Read(p)
  /\ LET unsaved == pending[p][id]
         stored  == store.entries[id] IN
       \/ /\ stored = unsaved.entry
          /\ pending' = [pending EXCEPT ![p][id] = NoEntry]
          /\ UNCHANGED <<failed, pc, op, snap>>
       \/ /\ stored # unsaved.entry
          /\ stored = unsaved.previous
          /\ store.revision + removals < MaxRevision
          /\ op' = [op EXCEPT ![p] = [id |-> id, entry |-> unsaved.entry, previous |-> unsaved.previous]]
          /\ snap' = [snap EXCEPT ![p] = store]
          /\ Goto(p, "restoreWrite")
          /\ UNCHANGED <<failed, pending>>
       \/ /\ stored \notin {unsaved.entry, unsaved.previous}
          /\ Failure(p)
          /\ Return(p)
          /\ UNCHANGED pending
  /\ UNCHANGED <<store, removals, known, told>>

RestoreSaved(p) ==
  /\ pc[p] = "restoreWrite"
  /\ Saved(p)
  /\ pending' = [pending EXCEPT ![p][op[p].id] = NoEntry]
  /\ op' = [op EXCEPT ![p] = NoEntry]
  /\ snap' = [snap EXCEPT ![p] = NoRecord]
  /\ Goto(p, "restore")
  /\ UNCHANGED <<removals, failed, known, told>>

RestoreNotSaved(p) ==
  /\ pc[p] = "restoreWrite"
  /\ NotConfirmed(p)
  /\ KeepPending(p)
  /\ Failure(p)
  /\ Return(p)
  /\ UNCHANGED <<removals, known, told>>

RestoreDone(p) ==
  /\ pc[p] = "restore"
  /\ UnsavedIds(p) = {}
  /\ Read(p)
  /\ failed' = [failed EXCEPT ![p] = FALSE]
  /\ Return(p)
  /\ UNCHANGED <<store, removals, pending, known, told>>

-----------------------------------------------------------------------------
(* the environment *)

Crash(p) ==
  /\ seen' = [seen EXCEPT ![p] = 0]
  /\ pending' = [pending EXCEPT ![p] = [id \in Id |-> NoEntry]]
  /\ failed' = [failed EXCEPT ![p] = FALSE]
  /\ known' = [known EXCEPT ![p] = [id \in Id |-> NoEntry]]
  /\ Return(p)
  /\ mine' = [mine EXCEPT ![p] = {}]
  /\ UNCHANGED <<store, removals, created>>

\* Somebody removes the record file while hosts run; what it held is gone.
\* Not between a process's read and its save: a compare-and-swap cannot tell
\* the record from one that another process rewrote up to the same revision.
Remove ==
  /\ removals < MaxRemovals
  /\ store # NoRecord
  /\ \A p \in Process : snap[p] = NoRecord
  /\ store' = NoRecord
  /\ removals' = removals + 1
  /\ created' = [id \in Id |-> 0]
  /\ UNCHANGED <<seen, pending, failed, known, pc, op, snap, mine>>

-----------------------------------------------------------------------------
Begin(p) ==
  \/ \E id \in Id, b \in Binding : BeginReserve(p, id, b)
  \/ \E id \in Id, o \in Outcome \ {Unknown} : BeginUpdate(p, id, o)
  \/ \E id \in Id : Verify(p, id)
  \/ BeginRestore(p)

Step(p) ==
  \/ ReserveNew(p) \/ ReserveExisting(p) \/ ReserveSaved(p) \/ ReserveNotSaved(p)
  \/ UpdateCurrent(p) \/ UpdateAlreadySaved(p) \/ UpdateConflict(p)
  \/ UpdateSaved(p) \/ UpdateNotSaved(p)
  \/ \E id \in Id : RestoreEntry(p, id)
  \/ RestoreSaved(p) \/ RestoreNotSaved(p) \/ RestoreDone(p)

Next ==
  \/ \E p \in Process : Begin(p) \/ Step(p) \/ ReadFailed(p) \/ Crash(p)
  \/ Remove

Spec == Init /\ [][Next]_vars
-----------------------------------------------------------------------------
(* Properties *)

\* For one identifier at most one reserve ever answers created: true, over
\* all processes, retries and lost answers.  Only that answer lets the
\* runtime send the original call; everybody else recovers it.
AtMostOneCreator == \A id \in Id : created[id] <= 1

\* A process that outlives its record does not start a new one, in which
\* nothing would be reserved and the calls it made could be made again.
StartedByNewcomers ==
  [][store = NoRecord /\ created' # created =>
       \E p \in Process : mine[p] = {} /\ mine'[p] # {}]_vars

\* A stored outcome is replaced only by an outcome computed from it: a stale
\* response never overwrites what another process recorded meanwhile.
OnlyReplacesWhatItSaw ==
  [][\A id \in Id :
       store.entries[id] # store'.entries[id] /\ NoEntry \notin {store.entries[id], store'.entries[id]}
         => \E p \in Process : /\ op[p] # NoEntry
                               /\ op[p].id = id
                               /\ op[p].previous = store.entries[id]
                               /\ op[p].entry = store'.entries[id]]_vars

\* A living process forgets an unsaved outcome only when the store holds it.
OutcomeKeptUntilSaved ==
  [][\A p \in Process, id \in Id :
       pending[p][id] # NoEntry /\ pending'[p][id] = NoEntry /\ ~ Crash(p)
         => store'.entries[id] = pending[p][id].entry]_vars

\* The journal is what the dispatching code relies on; in particular no process
\* that was told created: true sends a call the journal does not hold.
Promise == INSTANCE JournalPromise WITH entries <- store.entries, owned <- {id \in Id : created[id] > 0}
Implements == Promise!Spec
=============================================================================
