---------------------- MODULE InvocationJournalProofs ----------------------
(***************************************************************************)
(* What the invocation journal promises holds for any number of processes, *)
(* invocations and removals of the record.                                 *)
(***************************************************************************)
EXTENDS InvocationJournal, TLAPS

Reading  == {"reserveRead", "updateRead"}
Writing  == {"reserveWrite", "updateWrite", "restoreWrite"}
Changing == {"updateRead", "updateWrite", "restoreWrite"}

\* What an operation works on; an outcome is one of the call it was computed for.
OpInvOf(p) ==
  /\ pc[p] \in Reading \cup Writing => op[p] \in Operation
  /\ pc[p] \in {"reserveRead", "reserveWrite"} => op[p].entry.outcome = Unknown
  /\ pc[p] \in Changing => /\ op[p].entry.binding = op[p].previous.binding
                           /\ pending[p][op[p].id] # NoEntry
                           /\ pending[p][op[p].id].entry = op[p].entry
  /\ \A id \in Id : pending[p][id] # NoEntry =>
       pending[p][id].entry.binding = pending[p][id].previous.binding
OpInv == \A p \in Process : OpInvOf(p)

\* A record that was read and has the stored revision is the stored record: the
\* compare-and-swap compares revisions and stands for comparing records.
SnapInv ==
  /\ store.revision = 0 => store = NoRecord
  /\ \A p \in Process :
       /\ snap[p].revision <= store.revision
       /\ snap[p].revision = store.revision => snap[p] = store

\* What a save is about to replace.
WriteInvOf(p) ==
  /\ pc[p] = "reserveWrite" => snap[p].entries[op[p].id] = NoEntry
  /\ pc[p] \in {"updateWrite", "restoreWrite"} => snap[p].entries[op[p].id] = op[p].previous
WriteInv == \A p \in Process : WriteInvOf(p)

\* A process has observed the record that it is about to replace, and the one
\* that holds what it created.
SeenInvOf(p) ==
  /\ pc[p] \in Writing => seen[p] = snap[p].revision
  /\ mine[p] # {} => seen[p] > 0
SeenInv == \A p \in Process : SeenInvOf(p)

\* A creation that was reported is in the record.
CreatedInv == \A id \in Id : created[id] <= 1 /\ (created[id] > 0 => store.entries[id] # NoEntry)

IInv == TypeOK /\ OpInv /\ SnapInv /\ WriteInv /\ SeenInv /\ CreatedInv

\* The empty record.
LEMMA NoRecordIsRecord ==
  /\ NoRecord \in JournalRecord /\ NoRecord.revision = 0
  /\ \A id \in Id : NoRecord.entries[id] = NoEntry
  BY DEF NoRecord, JournalRecord

\* A save raises the revision and replaces the entry of its operation only.
LEMMA NextRecordIs ==
  ASSUME TypeOK, NEW p \in Process, op[p] \in Operation
  PROVE  /\ NextRecord(p) \in JournalRecord
         /\ NextRecord(p).revision = snap[p].revision + 1
         /\ NextRecord(p).entries = [snap[p].entries EXCEPT ![op[p].id] = op[p].entry]
  <1>1. snap[p] \in JournalRecord /\ op[p].id \in Id /\ op[p].entry \in Entry
    BY DEF TypeOK, Operation
  <1> QED
    BY <1>1 DEF JournalRecord, NextRecord

\* What an operation or an unsaved outcome is put together from.
LEMMA LiteralIs ==
  ASSUME NEW id \in Id, NEW e \in Entry, NEW f \in Entry
  PROVE  /\ [id |-> id, entry |-> e, previous |-> f] \in Operation
         /\ [entry |-> e, previous |-> f] \in Unsaved
  BY DEF Operation, Unsaved

\* The initial states satisfy the inductive invariant.
LEMMA InitInv == Init => IInv
  <1> SUFFICES ASSUME Init PROVE IInv
    OBVIOUS
  <1>1. TypeOK
    BY NoRecordIsRecord, BoundsAreNat DEF Init, TypeOK
  <1>2. OpInv /\ SnapInv /\ WriteInv /\ SeenInv /\ CreatedInv
    BY NoRecordIsRecord DEF Init, OpInv, OpInvOf, SnapInv, WriteInv, WriteInvOf, SeenInv, SeenInvOf, CreatedInv,
       Reading, Writing, Changing
  <1> QED
    BY <1>1, <1>2 DEF IInv

\* An operation that has something to save has it in op.
LEMMA OpIsOperation ==
  ASSUME IInv, NEW p \in Process, pc[p] \in Reading \cup Writing
  PROVE  op[p] \in Operation
  BY DEF IInv, OpInv, OpInvOf

\* An operation that ends leaves well-typed variables.
LEMMA ReturnKeepsTypes ==
  ASSUME TypeOK, NEW p \in Process, Return(p)
  PROVE  /\ pc' \in [Process -> {"idle", "reserveRead", "reserveWrite", "updateRead",
                                 "updateWrite", "restore", "restoreWrite"}]
         /\ op' \in [Process -> Operation \cup {NoEntry}]
         /\ snap' \in [Process -> JournalRecord]
  BY NoRecordIsRecord DEF TypeOK, Return, Goto

\* An accepted record raises what the process has seen.
LEMMA ReadKeepsTypes == ASSUME TypeOK, NEW p \in Process, Read(p) PROVE seen' \in [Process -> Nat]
  BY DEF TypeOK, Read, JournalRecord

\* A save, confirmed or not, leaves a record.
LEMMA SaveKeepsTypes ==
  ASSUME IInv, NEW p \in Process, pc[p] \in Writing, Saved(p) \/ NotConfirmed(p)
  PROVE  store' \in JournalRecord /\ seen' \in [Process -> Nat]
  <1>1. op[p] \in Operation /\ TypeOK
    BY OpIsOperation DEF IInv
  <1>2. NextRecord(p) \in JournalRecord /\ NextRecord(p).revision \in Nat
    BY <1>1, NextRecordIs DEF JournalRecord
  <1> QED
    BY <1>1, <1>2 DEF Saved, NotConfirmed, TypeOK

\* What a process holds of one invocation.
LEMMA HeldTypes ==
  ASSUME TypeOK, NEW p \in Process, NEW id \in Id
  PROVE  /\ pending[p][id] \in Unsaved \cup {NoEntry}
         /\ known[p][id] \in Entry \cup {NoEntry}
         /\ store.entries[id] \in Entry \cup {NoEntry}
         /\ \A e \in Entry : [known EXCEPT ![p][id] = e] \in [Process -> [Id -> Entry \cup {NoEntry}]]
         /\ \A u \in Unsaved \cup {NoEntry} :
              [pending EXCEPT ![p][id] = u] \in [Process -> [Id -> Unsaved \cup {NoEntry}]]
  <1>1. /\ pending[p] \in [Id -> Unsaved \cup {NoEntry}] /\ known[p] \in [Id -> Entry \cup {NoEntry}]
        /\ store.entries \in [Id -> Entry \cup {NoEntry}]
    BY DEF TypeOK, JournalRecord
  <1>2. ASSUME NEW e \in Entry PROVE [known EXCEPT ![p][id] = e] \in [Process -> [Id -> Entry \cup {NoEntry}]]
    BY <1>1 DEF TypeOK
  <1>3. ASSUME NEW u \in Unsaved \cup {NoEntry}
        PROVE  [pending EXCEPT ![p][id] = u] \in [Process -> [Id -> Unsaved \cup {NoEntry}]]
    BY <1>1 DEF TypeOK
  <1> QED
    BY <1>1, <1>2, <1>3

\* Every step keeps the types.
LEMMA TypeStep == IInv /\ [Next]_vars => TypeOK'
  <1> SUFFICES ASSUME IInv, [Next]_vars PROVE TypeOK'
    OBVIOUS
  <1>0. TypeOK
    BY DEF IInv
  <1> USE DEF told
  <1>1. CASE UNCHANGED vars
    BY <1>0, <1>1 DEF vars, TypeOK
  <1>2. ASSUME NEW p \in Process, Begin(p) PROVE TypeOK'
    <2> USE <1>0 DEF TypeOK, Goto
    <2>1. ASSUME NEW id \in Id, NEW b \in Binding, BeginReserve(p, id, b) PROVE TypeOK'
      <3>1. [id |-> id, entry |-> [binding |-> b, outcome |-> Unknown],
             previous |-> [binding |-> b, outcome |-> Unknown]] \in Operation
        BY UnknownIsOutcome DEF Operation, Entry
      <3> QED
        BY <2>1, <3>1 DEF BeginReserve
    <2>2. ASSUME NEW id \in Id, NEW o \in Outcome \ {Unknown}, BeginUpdate(p, id, o) PROVE TypeOK'
      <3> DEFINE e == [known[p][id] EXCEPT !.outcome = o]
      <3>1. known[p][id] \in Entry /\ e \in Entry
        <4>1. known[p][id] \in Entry
          BY <2>2, HeldTypes DEF BeginUpdate
        <4> QED
          BY <4>1 DEF Entry
      <3>2. [id |-> id, entry |-> e, previous |-> known[p][id]] \in Operation
            /\ [entry |-> e, previous |-> known[p][id]] \in Unsaved
        BY <3>1 DEF Operation, Unsaved
      <3> HIDE DEF e
      <3>3. /\ op' = [op EXCEPT ![p] = [id |-> id, entry |-> e, previous |-> known[p][id]]]
            /\ pending' = [pending EXCEPT ![p][id] = [entry |-> e, previous |-> known[p][id]]]
        BY <2>2 DEF BeginUpdate, e
      <3>4. pending' \in [Process -> [Id -> Unsaved \cup {NoEntry}]]
        BY <3>2, <3>3, HeldTypes
      <3>5. op' \in [Process -> Operation \cup {NoEntry}]
        BY <3>2, <3>3
      <3> HIDE <3>3
      <3> QED
        BY <2>2, <3>4, <3>5 DEF BeginUpdate
    <2>3. ASSUME NEW id \in Id, Verify(p, id) PROVE TypeOK'
      BY <2>3, ReadKeepsTypes DEF Verify, JournalRecord
    <2>4. CASE BeginRestore(p)
      BY <2>4 DEF BeginRestore
    <2> QED
      BY <1>2, <2>1, <2>2, <2>3, <2>4 DEF Begin
  <1>3. ASSUME NEW p \in Process, ReserveNew(p) \/ ReserveExisting(p) \/ ReserveSaved(p) \/ ReserveNotSaved(p)
        PROVE  TypeOK'
    <2>1. op[p] \in Operation /\ op[p].id \in Id /\ op[p].entry \in Entry
      <3>1. op[p] \in Operation
        BY <1>3, OpIsOperation DEF ReserveNew, ReserveExisting, ReserveSaved, ReserveNotSaved, Reading, Writing
      <3> QED
        BY <3>1 DEF Operation
    <2>2. CASE ReserveNew(p)
      BY <1>0, <2>2, ReadKeepsTypes DEF ReserveNew, TypeOK, Goto
    <2>3. CASE ReserveExisting(p)
      <3>1. store.entries[op[p].id] \in Entry
        BY <1>0, <2>1, <2>3, HeldTypes DEF ReserveExisting
      <3>2. known' \in [Process -> [Id -> Entry \cup {NoEntry}]] /\ failed' \in [Process -> BOOLEAN]
        <4>1. known' = known \/ known' = [known EXCEPT ![p][op[p].id] = store.entries[op[p].id]]
          BY <2>3 DEF ReserveExisting
        <4>2. failed' = failed \/ failed' = [failed EXCEPT ![p] = TRUE]
          BY <2>3 DEF ReserveExisting, Failure
        <4>3. known' \in [Process -> [Id -> Entry \cup {NoEntry}]]
          <5>1. known \in [Process -> [Id -> Entry \cup {NoEntry}]]
            BY <1>0 DEF TypeOK
          <5> QED
            BY <1>0, <2>1, <3>1, <4>1, <5>1, HeldTypes
        <4> QED
          BY <1>0, <4>2, <4>3 DEF TypeOK
      <3> QED
        BY <1>0, <2>3, <3>2, ReadKeepsTypes, ReturnKeepsTypes DEF ReserveExisting, TypeOK
    <2>4. CASE ReserveSaved(p)
      <3>1. store' \in JournalRecord /\ seen' \in [Process -> Nat]
        BY <2>4, SaveKeepsTypes DEF ReserveSaved, Writing
      <3>2. created' \in [Id -> Nat] /\ mine' \in [Process -> SUBSET Id]
        <4>1. created \in [Id -> Nat] /\ mine \in [Process -> SUBSET Id]
          BY <1>0 DEF TypeOK
        <4>2. created' = [created EXCEPT ![op[p].id] = created[op[p].id] + 1]
              /\ mine' = [mine EXCEPT ![p] = mine[p] \cup {op[p].id}]
          BY <2>4 DEF ReserveSaved, Created
        <4>3. created' \in [Id -> Nat]
          BY <2>1, <4>1, <4>2
        <4> QED
          BY <2>1, <4>1, <4>2, <4>3
      <3>3. known' \in [Process -> [Id -> Entry \cup {NoEntry}]] /\ failed' \in [Process -> BOOLEAN]
        BY <1>0, <2>1, <2>4, HeldTypes DEF ReserveSaved, TypeOK
      <3> QED
        BY <1>0, <2>4, <3>1, <3>2, <3>3, ReturnKeepsTypes DEF ReserveSaved, TypeOK
    <2>5. CASE ReserveNotSaved(p)
      BY <1>0, <2>5, SaveKeepsTypes, ReturnKeepsTypes DEF ReserveNotSaved, TypeOK, Unconfirmed, Failure, Writing
    <2> QED
      BY <1>3, <2>2, <2>3, <2>4, <2>5
  <1>4. ASSUME NEW p \in Process, UpdateCurrent(p) \/ UpdateAlreadySaved(p) \/ UpdateConflict(p)
                                    \/ UpdateSaved(p) \/ UpdateNotSaved(p)
        PROVE  TypeOK'
    <2>1. op[p] \in Operation /\ op[p].id \in Id /\ op[p].entry \in Entry
      <3>1. op[p] \in Operation
        BY <1>4, OpIsOperation DEF UpdateCurrent, UpdateAlreadySaved, UpdateConflict, UpdateSaved, UpdateNotSaved,
           Reading, Writing
      <3> QED
        BY <3>1 DEF Operation
    <2>2. CASE UpdateCurrent(p)
      BY <1>0, <2>2, ReadKeepsTypes DEF UpdateCurrent, TypeOK, Goto
    <2>3. CASE UpdateAlreadySaved(p)
      BY <1>0, <2>1, <2>3, ReadKeepsTypes, ReturnKeepsTypes DEF UpdateAlreadySaved, TypeOK, Confirm
    <2>4. CASE UpdateConflict(p)
      BY <1>0, <2>4, ReadKeepsTypes, ReturnKeepsTypes DEF UpdateConflict, TypeOK, Failure
    <2>5. CASE UpdateSaved(p)
      BY <1>0, <2>1, <2>5, SaveKeepsTypes, ReturnKeepsTypes DEF UpdateSaved, TypeOK, Confirm, Writing
    <2>6. CASE UpdateNotSaved(p)
      BY <1>0, <2>6, SaveKeepsTypes, ReturnKeepsTypes DEF UpdateNotSaved, TypeOK, KeepPending, Failure, Writing
    <2> QED
      BY <1>4, <2>2, <2>3, <2>4, <2>5, <2>6
  <1>5. ASSUME NEW p \in Process, NEW id \in Id, RestoreEntry(p, id) PROVE TypeOK'
    <2>1. pending[p][id] \in Unsaved
      BY <1>0, <1>5, HeldTypes DEF RestoreEntry
    <2>2. [id |-> id, entry |-> pending[p][id].entry, previous |-> pending[p][id].previous] \in Operation
      BY <2>1 DEF Operation, Unsaved
    <2>3. seen' \in [Process -> Nat]
      BY <1>0, <1>5, ReadKeepsTypes DEF RestoreEntry
    <2>4. pending' \in [Process -> [Id -> Unsaved \cup {NoEntry}]] /\ failed' \in [Process -> BOOLEAN]
      <3>1. pending' = pending \/ pending' = [pending EXCEPT ![p][id] = NoEntry]
        BY <1>5 DEF RestoreEntry
      <3>2. failed' = failed \/ failed' = [failed EXCEPT ![p] = TRUE]
        BY <1>5 DEF RestoreEntry, Failure
      <3>3. pending' \in [Process -> [Id -> Unsaved \cup {NoEntry}]]
        <4>1. pending \in [Process -> [Id -> Unsaved \cup {NoEntry}]]
          BY <1>0 DEF TypeOK
        <4> QED
          BY <1>0, <3>1, <4>1, HeldTypes
      <3> QED
        BY <1>0, <3>2, <3>3 DEF TypeOK
    <2>5. CASE UNCHANGED <<pc, op, snap>>
      BY <1>0, <1>5, <2>3, <2>4, <2>5 DEF RestoreEntry, TypeOK
    <2>6. CASE /\ op' = [op EXCEPT ![p] = [id |-> id, entry |-> pending[p][id].entry,
                                           previous |-> pending[p][id].previous]]
               /\ snap' = [snap EXCEPT ![p] = store] /\ Goto(p, "restoreWrite")
      BY <1>0, <1>5, <2>2, <2>3, <2>4, <2>6 DEF RestoreEntry, TypeOK, Goto
    <2>7. CASE Return(p)
      BY <1>0, <1>5, <2>3, <2>4, <2>7, ReturnKeepsTypes DEF RestoreEntry, TypeOK
    <2> QED
      BY <1>5, <2>5, <2>6, <2>7 DEF RestoreEntry
  <1>6. ASSUME NEW p \in Process, RestoreSaved(p) \/ RestoreNotSaved(p) \/ RestoreDone(p) PROVE TypeOK'
    <2>1. CASE RestoreSaved(p)
      <3>1. op[p].id \in Id
        BY <2>1, OpIsOperation DEF RestoreSaved, Writing, Operation
      <3> QED
        BY <1>0, <2>1, <3>1, SaveKeepsTypes, NoRecordIsRecord DEF RestoreSaved, TypeOK, Writing, Goto
    <2>2. CASE RestoreNotSaved(p)
      BY <1>0, <2>2, SaveKeepsTypes, ReturnKeepsTypes DEF RestoreNotSaved, TypeOK, KeepPending, Failure, Writing
    <2>3. CASE RestoreDone(p)
      BY <1>0, <2>3, ReadKeepsTypes, ReturnKeepsTypes DEF RestoreDone, TypeOK
    <2> QED
      BY <1>6, <2>1, <2>2, <2>3
  <1>7. ASSUME NEW p \in Process, ReadFailed(p) \/ Crash(p) PROVE TypeOK'
    <2>1. CASE ReadFailed(p)
      BY <1>0, <2>1, ReturnKeepsTypes DEF ReadFailed, TypeOK, Failure
    <2>2. CASE Crash(p)
      <3>1. /\ [id \in Id |-> NoEntry] \in [Id -> Unsaved \cup {NoEntry}]
            /\ [id \in Id |-> NoEntry] \in [Id -> Entry \cup {NoEntry}]
        OBVIOUS
      <3> QED
        BY <1>0, <2>2, <3>1, ReturnKeepsTypes DEF Crash, TypeOK
    <2> QED
      BY <1>7, <2>1, <2>2
  <1>8. CASE Remove
    <2>1. removals' \in 0..MaxRemovals
      <3>1. removals \in 0..MaxRemovals
        BY <1>0 DEF TypeOK
      <3> QED
        BY <1>8, <3>1, BoundsAreNat DEF Remove
    <2> QED
      BY <1>0, <1>8, <2>1, NoRecordIsRecord DEF Remove, TypeOK
  <1> QED
    BY <1>1, <1>2, <1>3, <1>4, <1>5, <1>6, <1>7, <1>8 DEF Next, Step

\* A save stores the next record of the process, over the record it has read.
LEMMA SaveReplaces ==
  ASSUME IInv, NEW p \in Process, pc[p] \in Writing, Saved(p) \/ NotConfirmed(p)
  PROVE  \/ UNCHANGED store
         \/ /\ snap[p] = store /\ op[p] \in Operation
            /\ store'.revision = store.revision + 1
            /\ store'.entries = [store.entries EXCEPT ![op[p].id] = op[p].entry]
  <1>1. TypeOK /\ SnapInv /\ op[p] \in Operation
    BY OpIsOperation DEF IInv
  <1>2. RevisionMatches(p) => snap[p] = store
    BY <1>1 DEF RevisionMatches, SnapInv
  <1> QED
    BY <1>1, <1>2, NextRecordIs DEF Saved, NotConfirmed

\* Which steps write the record.
LEMMA StoreSteps ==
  ASSUME IInv, [Next]_vars
  PROVE  \/ UNCHANGED store
         \/ Remove
         \/ \E p \in Process :
              /\ pc[p] \in Writing /\ snap[p] = store /\ op[p] \in Operation
              /\ store'.revision = store.revision + 1
              /\ store'.entries = [store.entries EXCEPT ![op[p].id] = op[p].entry]
              /\ \/ ReserveSaved(p)
                 \/ UNCHANGED told
  <1>1. CASE UNCHANGED vars
    BY <1>1 DEF vars
  <1>2. ASSUME NEW p \in Process, ReserveSaved(p) \/ ReserveNotSaved(p) \/ UpdateSaved(p) \/ UpdateNotSaved(p)
                                    \/ RestoreSaved(p) \/ RestoreNotSaved(p)
        PROVE  \/ UNCHANGED store
               \/ /\ pc[p] \in Writing /\ snap[p] = store /\ op[p] \in Operation
                  /\ store'.revision = store.revision + 1
                  /\ store'.entries = [store.entries EXCEPT ![op[p].id] = op[p].entry]
                  /\ ReserveSaved(p) \/ UNCHANGED told
    <2>1. pc[p] \in Writing /\ (Saved(p) \/ NotConfirmed(p))
      BY <1>2 DEF ReserveSaved, ReserveNotSaved, UpdateSaved, UpdateNotSaved, RestoreSaved, RestoreNotSaved, Writing
    <2>2. ReserveSaved(p) \/ UNCHANGED told
      BY <1>2 DEF ReserveNotSaved, Unconfirmed, UpdateSaved, UpdateNotSaved, RestoreSaved, RestoreNotSaved
    <2> QED
      BY <2>1, <2>2, SaveReplaces
  <1>3. ASSUME NEW p \in Process, Begin(p) \/ ReadFailed(p) \/ Crash(p) \/ ReserveNew(p) \/ ReserveExisting(p)
                 \/ UpdateCurrent(p) \/ UpdateAlreadySaved(p) \/ UpdateConflict(p) \/ RestoreDone(p)
        PROVE  UNCHANGED store
    BY <1>3 DEF Begin, BeginReserve, BeginUpdate, Verify, BeginRestore, ReadFailed, Crash, ReserveNew,
       ReserveExisting, UpdateCurrent, UpdateAlreadySaved, UpdateConflict, RestoreDone
  <1>4. ASSUME NEW p \in Process, NEW id \in Id, RestoreEntry(p, id) PROVE UNCHANGED store
    BY <1>4 DEF RestoreEntry
  <1> QED
    BY <1>1, <1>2, <1>3, <1>4 DEF Next, Step

\* What a process has read: nothing, what it had, or the record as it is.
LEMMA SnapSteps ==
  ASSUME IInv, [Next]_vars, NEW p \in Process
  PROVE  \/ snap'[p] = snap[p]
         \/ snap'[p] = NoRecord
         \/ snap'[p] = store /\ UNCHANGED store
  <1>1. snap \in [Process -> JournalRecord]
    BY DEF IInv, TypeOK
  <1>2. CASE UNCHANGED snap
    BY <1>2
  <1>3. CASE UNCHANGED vars \/ Remove
    BY <1>2, <1>3 DEF vars, Remove
  <1>4. ASSUME NEW q \in Process, Return(q) PROVE snap'[p] \in {snap[p], NoRecord}
    BY <1>1, <1>4 DEF Return
  <1>5. ASSUME NEW q \in Process, ReserveNew(q) \/ UpdateCurrent(q)
        PROVE  UNCHANGED store /\ snap'[p] \in {snap[p], store}
    BY <1>1, <1>5 DEF ReserveNew, UpdateCurrent
  <1>6. ASSUME NEW q \in Process, NEW id \in Id, RestoreEntry(q, id)
        PROVE  UNCHANGED snap \/ Return(q) \/ (UNCHANGED store /\ snap'[p] \in {snap[p], store})
    BY <1>1, <1>6 DEF RestoreEntry
  <1>7. ASSUME NEW q \in Process, RestoreSaved(q) PROVE snap'[p] \in {snap[p], NoRecord}
    BY <1>1, <1>7 DEF RestoreSaved
  <1>8. ASSUME NEW q \in Process, Begin(q) PROVE UNCHANGED snap
    BY <1>8 DEF Begin, BeginReserve, BeginUpdate, Verify, BeginRestore
  <1>9. ASSUME NEW q \in Process, ReserveExisting(q) \/ ReserveSaved(q) \/ ReserveNotSaved(q) \/ UpdateAlreadySaved(q)
                 \/ UpdateConflict(q) \/ UpdateSaved(q) \/ UpdateNotSaved(q) \/ RestoreNotSaved(q)
                 \/ RestoreDone(q) \/ ReadFailed(q) \/ Crash(q)
        PROVE  Return(q)
    BY <1>9 DEF ReserveExisting, ReserveSaved, ReserveNotSaved, UpdateAlreadySaved, UpdateConflict, UpdateSaved,
       UpdateNotSaved, RestoreNotSaved, RestoreDone, ReadFailed, Crash
  <1> QED
    BY <1>2, <1>3, <1>4, <1>5, <1>6, <1>7, <1>8, <1>9 DEF Next, Step

\* A save of one process makes what the others have read an older record.
LEMMA SnapStep == IInv /\ [Next]_vars => SnapInv'
  <1> SUFFICES ASSUME IInv, [Next]_vars PROVE SnapInv'
    OBVIOUS
  <1>1. TypeOK /\ SnapInv
    BY DEF IInv
  <1>2. store.revision \in Nat /\ \A p \in Process : snap[p].revision \in Nat
    BY <1>1 DEF TypeOK, JournalRecord
  <1>3. CASE UNCHANGED store
    <2>1. ASSUME NEW p \in Process
          PROVE  snap'[p].revision <= store.revision /\ (snap'[p].revision = store.revision => snap'[p] = store)
      BY <1>1, <1>2, SnapSteps, NoRecordIsRecord DEF SnapInv
    <2> QED
      BY <1>1, <1>3, <2>1 DEF SnapInv
  <1>4. CASE Remove
    BY <1>4, NoRecordIsRecord DEF Remove, SnapInv
  <1>5. CASE store'.revision = store.revision + 1
    <2>1. ASSUME NEW p \in Process PROVE snap'[p].revision <= store.revision
      BY <1>1, <1>2, SnapSteps, NoRecordIsRecord DEF SnapInv
    <2>2. \A p \in Process : snap'[p].revision \in Nat
      BY <1>2, SnapSteps, NoRecordIsRecord
    <2> QED
      BY <1>2, <1>5, <2>1, <2>2 DEF SnapInv
  <1> QED
    BY <1>3, <1>4, <1>5, StoreSteps

\* An operation touches nothing of the other processes' operations.
LEMMA OthersUntouched ==
  ASSUME TypeOK, NEW p \in Process, NEW q \in Process, p # q,
         Begin(q) \/ Step(q) \/ ReadFailed(q) \/ Crash(q)
  PROVE  /\ pc'[p] = pc[p] /\ op'[p] = op[p] /\ snap'[p] = snap[p] /\ pending'[p] = pending[p]
         /\ seen'[p] = seen[p] /\ mine'[p] = mine[p]
  <1> USE DEF Goto, Read, told
  <1>1. CASE Begin(q)
    BY <1>1 DEF Begin, BeginReserve, BeginUpdate, Verify, BeginRestore, TypeOK
  <1>2. CASE ReadFailed(q) \/ Crash(q)
    BY <1>2 DEF ReadFailed, Crash, Return, TypeOK
  <1>3. CASE ReserveNew(q) \/ ReserveExisting(q) \/ ReserveSaved(q) \/ ReserveNotSaved(q)
    BY <1>3 DEF ReserveNew, ReserveExisting, ReserveSaved, ReserveNotSaved, Return, TypeOK, Saved, NotConfirmed,
       Created, Unconfirmed
  <1>4. CASE UpdateCurrent(q) \/ UpdateAlreadySaved(q) \/ UpdateConflict(q) \/ UpdateSaved(q) \/ UpdateNotSaved(q)
    BY <1>4 DEF UpdateCurrent, UpdateAlreadySaved, UpdateConflict, UpdateSaved, UpdateNotSaved, Confirm,
       KeepPending, Return, TypeOK, Saved, NotConfirmed
  <1>5. ASSUME NEW id \in Id, RestoreEntry(q, id)
        PROVE  /\ pc'[p] = pc[p] /\ op'[p] = op[p] /\ snap'[p] = snap[p] /\ pending'[p] = pending[p]
               /\ seen'[p] = seen[p] /\ mine'[p] = mine[p]
    BY <1>5 DEF RestoreEntry, Return, TypeOK
  <1>6. CASE RestoreSaved(q) \/ RestoreNotSaved(q) \/ RestoreDone(q)
    BY <1>6 DEF RestoreSaved, RestoreNotSaved, RestoreDone, KeepPending, Return, TypeOK, Saved, NotConfirmed
  <1> QED
    BY <1>1, <1>2, <1>3, <1>4, <1>5, <1>6 DEF Step

\* What is saved, and what stays pending, is an outcome of the call it replaces.
LEMMA OpStep == IInv /\ [Next]_vars => OpInv'
  <1> SUFFICES ASSUME IInv, [Next]_vars, NEW p \in Process PROVE OpInvOf(p)'
    BY DEF OpInv
  <1>0. TypeOK /\ OpInvOf(p)
    BY DEF IInv, OpInv
  <1> USE DEF Goto, Reading, Writing, Changing
  <1>1. CASE UNCHANGED <<pc, op, pending>>
    BY <1>0, <1>1 DEF OpInvOf
  <1>2. ASSUME NEW q \in Process, q # p, Begin(q) \/ Step(q) \/ ReadFailed(q) \/ Crash(q) PROVE OpInvOf(p)'
    <2>1. pc'[p] = pc[p] /\ op'[p] = op[p] /\ pending'[p] = pending[p]
      BY <1>0, <1>2, OthersUntouched
    <2> QED
      BY <1>0, <2>1 DEF OpInvOf
  <1>3. ASSUME pc'[p] \in {"idle", "restore"},
               \A id \in Id : pending'[p][id] \in {pending[p][id], NoEntry}
        PROVE  OpInvOf(p)'
    BY <1>0, <1>3 DEF OpInvOf
  <1>4. Return(p) => pc'[p] = "idle"
    BY <1>0 DEF Return, TypeOK
  <1>5. ASSUME NEW id \in Id, NEW b \in Binding, BeginReserve(p, id, b) PROVE OpInvOf(p)'
    <2> DEFINE e == [binding |-> b, outcome |-> Unknown]
    <2>1. pc'[p] = "reserveRead" /\ op'[p] = [id |-> id, entry |-> e, previous |-> e] /\ UNCHANGED pending
      BY <1>0, <1>5 DEF BeginReserve, TypeOK
    <2>2. e \in Entry /\ e.outcome = Unknown
      BY UnknownIsOutcome DEF Entry
    <2> HIDE DEF e
    <2>3. op'[p] \in Operation
      BY <2>1, <2>2, LiteralIs
    <2>4. op'[p].entry = e /\ op'[p].previous = e
      BY <2>1
    <2> QED
      BY <1>0, <2>1, <2>2, <2>3, <2>4 DEF OpInvOf
  <1>6. ASSUME NEW id \in Id, NEW o \in Outcome \ {Unknown}, BeginUpdate(p, id, o) PROVE OpInvOf(p)'
    <2> DEFINE e == [known[p][id] EXCEPT !.outcome = o]
    <2>1. known[p][id] \in Entry
      BY <1>0, <1>6, HeldTypes DEF BeginUpdate
    <2>2. e \in Entry /\ e.binding = known[p][id].binding
      BY <2>1 DEF Entry
    <2>3. /\ op' = [op EXCEPT ![p] = [id |-> id, entry |-> e, previous |-> known[p][id]]]
          /\ pending' = [pending EXCEPT ![p][id] = [entry |-> e, previous |-> known[p][id]]]
          /\ pc' = [pc EXCEPT ![p] = "updateRead"]
      BY <1>6 DEF BeginUpdate
    <2> HIDE DEF e
    <2>4. op'[p] = [id |-> id, entry |-> e, previous |-> known[p][id]] /\ pc'[p] = "updateRead"
      BY <1>0, <2>3 DEF TypeOK
    <2>5. op'[p] \in Operation
      BY <2>1, <2>2, <2>4, LiteralIs
    <2>7. op'[p].entry = e /\ op'[p].previous = known[p][id]
      BY <2>4
    <2>6. \A i \in Id : pending'[p][i] = IF i = id THEN [entry |-> e, previous |-> known[p][id]] ELSE pending[p][i]
      BY <1>0, <2>3 DEF TypeOK
    <2>9. /\ op'[p].id = id
          /\ pending'[p][id] # NoEntry
          /\ pending'[p][id].entry = e
      <3>1. pending'[p][id] = [entry |-> e, previous |-> known[p][id]] /\ op'[p].id = id
        BY <2>4, <2>6
      <3>2. [entry |-> e, previous |-> known[p][id]] # NoEntry
        BY <2>1, <2>2, LiteralIs, NoEntryIsNone
      <3> QED
        BY <3>1, <3>2
    <2>8. ASSUME NEW i \in Id, pending'[p][i] # NoEntry
          PROVE  pending'[p][i].entry.binding = pending'[p][i].previous.binding
      <3>1. CASE i = id
        <4>1. pending'[p][i].entry = e /\ pending'[p][i].previous = known[p][id]
          BY <2>6, <3>1
        <4> QED
          BY <2>2, <4>1
      <3>2. CASE i # id
        BY <1>0, <2>6, <2>8, <3>2 DEF OpInvOf
      <3> QED
        BY <3>1, <3>2
    <2> QED
      BY <1>6, <2>2, <2>4, <2>5, <2>7, <2>8, <2>9 DEF OpInvOf
  <1>7. ASSUME NEW id \in Id, Verify(p, id) PROVE OpInvOf(p)'
    BY <1>1, <1>7 DEF Verify
  <1>8. CASE BeginRestore(p)
    BY <1>0, <1>3, <1>8 DEF BeginRestore, TypeOK
  <1>9. CASE ReserveNew(p) \/ UpdateCurrent(p)
    <2>1. pc'[p] = (IF pc[p] = "reserveRead" THEN "reserveWrite" ELSE "updateWrite")
          /\ pc[p] \in {"reserveRead", "updateRead"} /\ UNCHANGED <<op, pending>>
      BY <1>0, <1>9 DEF ReserveNew, UpdateCurrent, TypeOK
    <2> QED
      BY <1>0, <2>1 DEF OpInvOf
  <1>10. CASE ReserveExisting(p) \/ ReserveSaved(p) \/ ReserveNotSaved(p) \/ UpdateConflict(p) \/ UpdateNotSaved(p)
              \/ RestoreNotSaved(p) \/ RestoreDone(p) \/ ReadFailed(p)
    <2>1. Return(p) /\ UNCHANGED pending
      BY <1>10 DEF ReserveExisting, ReserveSaved, ReserveNotSaved, UpdateConflict, UpdateNotSaved, RestoreNotSaved,
         RestoreDone, ReadFailed, KeepPending
    <2> QED
      BY <1>3, <1>4, <2>1
  <1>11. CASE UpdateAlreadySaved(p) \/ UpdateSaved(p)
    <2>1. Return(p) /\ pending' = [pending EXCEPT ![p][op[p].id] = NoEntry]
      BY <1>11 DEF UpdateAlreadySaved, UpdateSaved, Confirm
    <2>2. \A id \in Id : pending'[p][id] \in {pending[p][id], NoEntry}
      BY <1>0, <2>1 DEF TypeOK
    <2> QED
      BY <1>3, <1>4, <2>1, <2>2
  <1>12. ASSUME NEW id \in Id, RestoreEntry(p, id) PROVE OpInvOf(p)'
    <2>1. pending[p][id] \in Unsaved /\ pending[p][id].entry.binding = pending[p][id].previous.binding
      BY <1>0, <1>12, HeldTypes DEF RestoreEntry, OpInvOf
    <2>2. CASE pending' = [pending EXCEPT ![p][id] = NoEntry] /\ UNCHANGED <<pc, op>>
      <3>1. \A i \in Id : pending'[p][i] \in {pending[p][i], NoEntry}
        BY <1>0, <2>2 DEF TypeOK
      <3>2. pc'[p] = "restore"
        BY <1>12, <2>2 DEF RestoreEntry
      <3> QED
        BY <1>3, <3>1, <3>2
    <2>3. CASE UNCHANGED pending /\ Goto(p, "restoreWrite")
                 /\ op' = [op EXCEPT ![p] = [id |-> id, entry |-> pending[p][id].entry,
                                             previous |-> pending[p][id].previous]]
      <3>1. op'[p] = [id |-> id, entry |-> pending[p][id].entry, previous |-> pending[p][id].previous]
            /\ pc'[p] = "restoreWrite"
        BY <1>0, <2>3 DEF TypeOK
      <3>2. pending[p][id].entry \in Entry /\ pending[p][id].previous \in Entry
        BY <2>1 DEF Unsaved
      <3>3. op'[p] \in Operation
        BY <3>1, <3>2, LiteralIs
      <3>4. op'[p].id = id /\ op'[p].entry = pending[p][id].entry /\ op'[p].previous = pending[p][id].previous
        BY <3>1
      <3>5. pending'[p] = pending[p] /\ pending[p][id] # NoEntry
        BY <1>12, <2>3 DEF RestoreEntry
      <3>6. \A i \in Id : pending'[p][i] # NoEntry => pending'[p][i].entry.binding = pending'[p][i].previous.binding
        BY <1>0, <3>5 DEF OpInvOf
      <3> QED
        BY <2>1, <3>1, <3>3, <3>4, <3>5, <3>6 DEF OpInvOf
    <2>4. CASE Return(p) /\ UNCHANGED pending
      BY <1>3, <1>4, <2>4
    <2> QED
      BY <1>12, <2>2, <2>3, <2>4 DEF RestoreEntry
  <1>13. CASE RestoreSaved(p)
    <2>1. pc'[p] = "restore" /\ pending' = [pending EXCEPT ![p][op[p].id] = NoEntry]
      BY <1>0, <1>13 DEF RestoreSaved, TypeOK
    <2>2. \A id \in Id : pending'[p][id] \in {pending[p][id], NoEntry}
      BY <1>0, <2>1 DEF TypeOK
    <2> QED
      BY <1>3, <2>1, <2>2
  <1>14. CASE Crash(p)
    <2>1. \A id \in Id : pending'[p][id] = NoEntry
      BY <1>0, <1>14 DEF Crash, TypeOK
    <2> QED
      BY <1>3, <1>4, <1>14, <2>1 DEF Crash
  <1>15. CASE UNCHANGED vars \/ Remove
    BY <1>1, <1>15 DEF vars, Remove
  <1> QED
    BY <1>2, <1>5, <1>6, <1>7, <1>8, <1>9, <1>10, <1>11, <1>12, <1>13, <1>14, <1>15 DEF Next, Begin, Step

\* The entry that a save replaces is the one its operation found.
LEMMA WriteStep == IInv /\ [Next]_vars => WriteInv'
  <1> SUFFICES ASSUME IInv, [Next]_vars, NEW p \in Process PROVE WriteInvOf(p)'
    BY DEF WriteInv
  <1>0. TypeOK /\ WriteInvOf(p)
    BY DEF IInv, WriteInv
  <1> USE DEF Goto
  <1>1. CASE UNCHANGED <<pc, op, snap>>
    BY <1>0, <1>1 DEF WriteInvOf
  <1>2. ASSUME NEW q \in Process, q # p, Begin(q) \/ Step(q) \/ ReadFailed(q) \/ Crash(q) PROVE WriteInvOf(p)'
    <2>1. pc'[p] = pc[p] /\ op'[p] = op[p] /\ snap'[p] = snap[p]
      BY <1>0, <1>2, OthersUntouched
    <2> QED
      BY <1>0, <2>1 DEF WriteInvOf
  <1>3. ASSUME pc'[p] \in {"idle", "restore", "reserveRead", "updateRead"} PROVE WriteInvOf(p)'
    BY <1>3 DEF WriteInvOf
  <1>4. CASE Begin(p)
    BY <1>0, <1>1, <1>3, <1>4 DEF Begin, BeginReserve, BeginUpdate, Verify, BeginRestore, TypeOK
  <1>5. CASE Return(p)
    BY <1>0, <1>3, <1>5 DEF Return, TypeOK
  <1>6. CASE ReserveNew(p)
    <2>1. pc'[p] = "reserveWrite" /\ snap'[p] = store /\ op'[p] = op[p] /\ store.entries[op[p].id] = NoEntry
      BY <1>0, <1>6 DEF ReserveNew, TypeOK
    <2> QED
      BY <2>1 DEF WriteInvOf
  <1>7. CASE UpdateCurrent(p)
    <2>1. pc'[p] = "updateWrite" /\ snap'[p] = store /\ op'[p] = op[p] /\ store.entries[op[p].id] = op[p].previous
      BY <1>0, <1>7 DEF UpdateCurrent, StillPrevious, TypeOK
    <2> QED
      BY <2>1 DEF WriteInvOf
  <1>8. ASSUME NEW id \in Id, RestoreEntry(p, id) PROVE WriteInvOf(p)'
    <2>1. CASE UNCHANGED <<pc, op, snap>>
      BY <1>1, <2>1
    <2>2. CASE /\ op' = [op EXCEPT ![p] = [id |-> id, entry |-> pending[p][id].entry,
                                           previous |-> pending[p][id].previous]]
               /\ snap' = [snap EXCEPT ![p] = store] /\ Goto(p, "restoreWrite")
               /\ store.entries[id] = pending[p][id].previous
      <3>1. pc'[p] = "restoreWrite" /\ snap'[p] = store
            /\ op'[p] = [id |-> id, entry |-> pending[p][id].entry, previous |-> pending[p][id].previous]
        BY <1>0, <2>2 DEF TypeOK
      <3>2. op'[p].id = id /\ op'[p].previous = pending[p][id].previous
        BY <3>1
      <3> QED
        BY <2>2, <3>1, <3>2 DEF WriteInvOf
    <2> QED
      BY <1>5, <1>8, <2>1, <2>2 DEF RestoreEntry
  <1>9. CASE RestoreSaved(p)
    BY <1>0, <1>3, <1>9 DEF RestoreSaved, TypeOK
  <1>10. CASE ReserveExisting(p) \/ ReserveSaved(p) \/ ReserveNotSaved(p) \/ UpdateAlreadySaved(p) \/ UpdateConflict(p)
              \/ UpdateSaved(p) \/ UpdateNotSaved(p) \/ RestoreNotSaved(p) \/ RestoreDone(p) \/ ReadFailed(p) \/ Crash(p)
    BY <1>5, <1>10 DEF ReserveExisting, ReserveSaved, ReserveNotSaved, UpdateAlreadySaved, UpdateConflict,
       UpdateSaved, UpdateNotSaved, RestoreNotSaved, RestoreDone, ReadFailed, Crash
  <1>11. CASE UNCHANGED vars \/ Remove
    BY <1>1, <1>11 DEF vars, Remove
  <1> QED
    BY <1>2, <1>4, <1>6, <1>7, <1>8, <1>9, <1>10, <1>11 DEF Next, Step

\* A process saves over the record it has seen, and what it sees only grows.
LEMMA SeenStep == IInv /\ [Next]_vars => SeenInv'
  <1> SUFFICES ASSUME IInv, [Next]_vars, NEW p \in Process PROVE SeenInvOf(p)'
    BY DEF SeenInv
  <1>0. TypeOK /\ SeenInvOf(p) /\ seen[p] \in Nat /\ store.revision \in Nat /\ snap[p].revision \in Nat
    BY DEF IInv, SeenInv, TypeOK, JournalRecord
  <1> USE DEF Goto, Writing, told
  <1>1. CASE UNCHANGED <<pc, snap, seen, mine>>
    BY <1>0, <1>1 DEF SeenInvOf
  <1>2. ASSUME NEW q \in Process, q # p, Begin(q) \/ Step(q) \/ ReadFailed(q) \/ Crash(q) PROVE SeenInvOf(p)'
    <2>1. pc'[p] = pc[p] /\ snap'[p] = snap[p] /\ seen'[p] = seen[p] /\ mine'[p] = mine[p]
      BY <1>0, <1>2, OthersUntouched
    <2> QED
      BY <1>0, <2>1 DEF SeenInvOf
  <1>3. ASSUME pc'[p] \notin Writing, seen'[p] \in Nat, seen'[p] >= seen[p], mine'[p] = mine[p] PROVE SeenInvOf(p)'
    BY <1>0, <1>3 DEF SeenInvOf
  <1>4. Return(p) => pc'[p] \notin Writing
    BY <1>0 DEF Return, TypeOK
  <1>5. Read(p) => seen'[p] = store.revision /\ seen'[p] >= seen[p]
    BY <1>0 DEF Read, Readable, TypeOK
  <1>6. Saved(p) => seen'[p] = snap[p].revision + 1
    BY <1>0 DEF Saved, NextRecord, TypeOK
  <1>7. pc[p] \in Writing => seen[p] = snap[p].revision
    BY <1>0 DEF SeenInvOf
  <1>8. CASE Begin(p)
    <2>1. ASSUME NEW id \in Id, Verify(p, id) PROVE SeenInvOf(p)'
      BY <1>0, <1>3, <1>5, <2>1 DEF Verify
    <2>2. CASE \/ \E id \in Id, b \in Binding : BeginReserve(p, id, b)
               \/ \E id \in Id, o \in Outcome \ {Unknown} : BeginUpdate(p, id, o)
               \/ BeginRestore(p)
      BY <1>0, <1>3, <2>2 DEF BeginReserve, BeginUpdate, BeginRestore, TypeOK
    <2> QED
      BY <1>8, <2>1, <2>2 DEF Begin
  <1>9. CASE ReserveNew(p) \/ UpdateCurrent(p)
    <2>1. Read(p) /\ snap'[p] = store /\ UNCHANGED mine
      BY <1>0, <1>9 DEF ReserveNew, UpdateCurrent, TypeOK
    <2> QED
      BY <1>0, <1>5, <2>1 DEF SeenInvOf
  <1>10. CASE ReserveExisting(p) \/ UpdateAlreadySaved(p) \/ UpdateConflict(p) \/ RestoreDone(p)
    <2>1. Read(p) /\ Return(p) /\ UNCHANGED mine
      BY <1>10 DEF ReserveExisting, UpdateAlreadySaved, UpdateConflict, RestoreDone
    <2> QED
      BY <1>0, <1>3, <1>4, <1>5, <2>1
  <1>11. CASE ReserveNotSaved(p) \/ UpdateNotSaved(p) \/ RestoreNotSaved(p) \/ ReadFailed(p)
    <2>1. UNCHANGED seen /\ Return(p) /\ UNCHANGED mine
      BY <1>11 DEF ReserveNotSaved, UpdateNotSaved, RestoreNotSaved, ReadFailed, NotConfirmed, Unconfirmed
    <2> QED
      BY <1>0, <1>3, <1>4, <2>1
  <1>12. CASE ReserveSaved(p)
    <2>1. Saved(p) /\ Return(p)
      BY <1>12 DEF ReserveSaved
    <2> QED
      BY <1>0, <1>4, <1>6, <2>1 DEF SeenInvOf
  <1>13. CASE UpdateSaved(p) \/ RestoreSaved(p)
    <2>1. Saved(p) /\ pc[p] \in Writing /\ pc'[p] \notin Writing /\ UNCHANGED mine
      BY <1>0, <1>4, <1>13 DEF UpdateSaved, RestoreSaved, TypeOK
    <2> QED
      BY <1>0, <1>3, <1>6, <1>7, <2>1
  <1>14. ASSUME NEW id \in Id, RestoreEntry(p, id) PROVE SeenInvOf(p)'
    <2>1. Read(p) /\ pc[p] = "restore" /\ UNCHANGED mine
      BY <1>14 DEF RestoreEntry
    <2>2. CASE UNCHANGED pc \/ Return(p)
      BY <1>0, <1>3, <1>4, <1>5, <2>1, <2>2
    <2>3. CASE snap' = [snap EXCEPT ![p] = store]
      BY <1>0, <1>5, <2>1, <2>3 DEF SeenInvOf, TypeOK
    <2> QED
      BY <1>14, <2>2, <2>3 DEF RestoreEntry
  <1>15. CASE Crash(p)
    <2>1. mine'[p] = {} /\ Return(p)
      BY <1>0, <1>15 DEF Crash, TypeOK
    <2> QED
      BY <1>4, <2>1 DEF SeenInvOf
  <1>16. CASE UNCHANGED vars \/ Remove
    BY <1>1, <1>16 DEF vars, Remove
  <1> QED
    BY <1>2, <1>8, <1>9, <1>10, <1>11, <1>12, <1>13, <1>14, <1>15, <1>16 DEF Next, Step

\* The history of creations changes only with the record.
LEMMA CreatedSteps ==
  ASSUME IInv, [Next]_vars
  PROVE  UNCHANGED created \/ Remove \/ \E p \in Process : ReserveSaved(p)
  <1>1. CASE UNCHANGED vars
    BY <1>1 DEF vars
  <1>2. ASSUME NEW p \in Process, Begin(p) \/ ReadFailed(p) \/ Crash(p) PROVE UNCHANGED created
    BY <1>2 DEF Begin, BeginReserve, BeginUpdate, Verify, BeginRestore, ReadFailed, Crash, told
  <1>3. ASSUME NEW p \in Process, Step(p) PROVE UNCHANGED created \/ ReserveSaved(p)
    BY <1>3 DEF Step, ReserveNew, ReserveExisting, ReserveNotSaved, Unconfirmed, UpdateCurrent, UpdateAlreadySaved,
       UpdateConflict, UpdateSaved, UpdateNotSaved, RestoreEntry, RestoreSaved, RestoreNotSaved, RestoreDone, told
  <1> QED
    BY <1>1, <1>2, <1>3 DEF Next

\* A creation writes an entry that was not there, so nobody was told of it before.
LEMMA CreationIsNew ==
  ASSUME IInv, NEW p \in Process, ReserveSaved(p)
  PROVE  /\ op[p] \in Operation /\ snap[p] = store
         /\ store.entries[op[p].id] = NoEntry
         /\ store' = NextRecord(p) /\ store'.entries = [store.entries EXCEPT ![op[p].id] = op[p].entry]
         /\ created' = [created EXCEPT ![op[p].id] = @ + 1]
         /\ created[op[p].id] = 0
  <1>1. pc[p] = "reserveWrite" /\ Saved(p) /\ Created(p)
    BY DEF ReserveSaved
  <1>2. op[p] \in Operation /\ op[p].id \in Id
    BY <1>1, OpIsOperation DEF Writing, Operation
  <1>3. snap[p] = store
    BY <1>1 DEF IInv, SnapInv, Saved, RevisionMatches
  <1>4. store.entries[op[p].id] = NoEntry
    BY <1>1, <1>3 DEF IInv, WriteInv, WriteInvOf
  <1>5. created[op[p].id] = 0
    <2>1. created[op[p].id] \in Nat /\ ~ created[op[p].id] > 0
      BY <1>2, <1>4 DEF IInv, CreatedInv, TypeOK
    <2> QED
      BY <2>1
  <1> QED
    BY <1>1, <1>2, <1>3, <1>4, <1>5, NextRecordIs DEF IInv, Saved, Created

\* At most one creation, and it is in the record.
LEMMA CreatedStep == IInv /\ [Next]_vars => CreatedInv'
  <1> SUFFICES ASSUME IInv, [Next]_vars, NEW id \in Id
               PROVE  (created[id] <= 1 /\ (created[id] > 0 => store.entries[id] # NoEntry))'
    BY DEF CreatedInv
  <1>0. TypeOK /\ created[id] <= 1 /\ (created[id] > 0 => store.entries[id] # NoEntry)
    BY DEF IInv, CreatedInv
  <1>1. CASE Remove
    <2>1. created'[id] = 0
      BY <1>1 DEF Remove
    <2> QED
      BY <2>1
  <1>2. ASSUME NEW p \in Process, ReserveSaved(p)
        PROVE  (created[id] <= 1 /\ (created[id] > 0 => store.entries[id] # NoEntry))'
    <2>1. op[p].id \in Id /\ op[p].entry \in Entry
      BY <1>2, CreationIsNew DEF Operation
    <2>2. store.entries \in [Id -> Entry \cup {NoEntry}] /\ created \in [Id -> Nat]
      BY <1>0 DEF TypeOK, JournalRecord
    <2>3. CASE id = op[p].id
      <3>1. created'[id] = created[id] + 1 /\ created[id] = 0
        BY <1>2, <2>2, <2>3, CreationIsNew
      <3>2. store'.entries[id] = op[p].entry
        BY <1>2, <2>1, <2>2, <2>3, CreationIsNew
      <3> QED
        BY <2>1, <3>1, <3>2, NoEntryIsNone
    <2>4. CASE id # op[p].id
      <3>1. created'[id] = created[id] /\ store'.entries[id] = store.entries[id]
        BY <1>2, <2>1, <2>2, <2>4, CreationIsNew
      <3> QED
        BY <1>0, <3>1
    <2> QED
      BY <2>3, <2>4
  <1>3. CASE UNCHANGED created /\ UNCHANGED store
    BY <1>0, <1>3
  <1>4. ASSUME UNCHANGED created, NEW p \in Process, op[p] \in Operation,
               store'.entries = [store.entries EXCEPT ![op[p].id] = op[p].entry]
        PROVE  (created[id] <= 1 /\ (created[id] > 0 => store.entries[id] # NoEntry))'
    <2>1. op[p].entry # NoEntry
      BY <1>4, NoEntryIsNone DEF Operation
    <2>2. store.entries \in [Id -> Entry \cup {NoEntry}]
      BY <1>0 DEF TypeOK, JournalRecord
    <2>3. store'.entries[id] \in {store.entries[id], op[p].entry}
      BY <1>4, <2>2
    <2> QED
      BY <1>0, <1>4, <2>1, <2>3
  <1> QED
    BY <1>1, <1>2, <1>3, <1>4, StoreSteps, CreatedSteps

\* The inductive invariant holds in every reachable state.
LEMMA Invariance == Spec => []IInv
  <1>1. IInv /\ [Next]_vars => IInv'
    BY TypeStep, OpStep, SnapStep, WriteStep, SeenStep, CreatedStep DEF IInv
  <1> QED
    BY <1>1, InitInv, PTL DEF Spec

\* The variables keep their types.
THEOREM TypeCorrect == Spec => []TypeOK
  <1>1. IInv => TypeOK
    BY DEF IInv
  <1> QED
    BY <1>1, Invariance, PTL

\* However many processes reserve an identifier, and whatever answers are lost,
\* at most one of them hears that the call is its own to send.
THEOREM AtMostOneCreatorHolds == Spec => []AtMostOneCreator
  <1>1. IInv => AtMostOneCreator
    BY DEF IInv, CreatedInv, AtMostOneCreator
  <1> QED
    BY <1>1, Invariance, PTL

\* Only a process that has not created anything starts a record anew.
THEOREM StartedByNewcomersHolds == Spec => StartedByNewcomers
  <1>1. ASSUME IInv, [Next]_vars, store = NoRecord, created' # created
        PROVE  \E p \in Process : mine[p] = {} /\ mine'[p] # {}
    <2>1. ~ Remove
      BY <1>1 DEF Remove
    <2>2. PICK p \in Process : ReserveSaved(p)
      BY <1>1, <2>1, CreatedSteps
    <2>3. pc[p] = "reserveWrite" /\ snap[p] = store /\ Created(p)
      BY <1>1, <2>2, CreationIsNew DEF ReserveSaved
    <2>4. seen[p] = 0
      BY <1>1, <2>3, NoRecordIsRecord DEF IInv, SeenInv, SeenInvOf, Writing
    <2>5. mine[p] = {}
      BY <1>1, <2>4 DEF IInv, SeenInv, SeenInvOf
    <2>6. op[p].id \in mine'[p]
      BY <1>1, <2>3 DEF Created, IInv, TypeOK
    <2> QED
      BY <2>5, <2>6
  <1> QED
    BY <1>1, Invariance, PTL DEF Spec, StartedByNewcomers

\* An outcome stays in memory until the record holds it.
THEOREM OutcomeKeptHolds == Spec => OutcomeKeptUntilSaved
  <1>1. ASSUME IInv, [Next]_vars, NEW p \in Process, NEW id \in Id,
               pending[p][id] # NoEntry, pending'[p][id] = NoEntry, ~ Crash(p)
        PROVE  store'.entries[id] = pending[p][id].entry
    <2>0. TypeOK /\ OpInvOf(p)
      BY <1>1 DEF IInv, OpInv
    <2>1. ~ UNCHANGED pending /\ pending'[p] # pending[p]
      BY <1>1
    <2>2. PICK q \in Process : Begin(q) \/ Step(q) \/ ReadFailed(q) \/ Crash(q)
      BY <1>1, <2>1 DEF Next, vars, Remove
    <2>3. q = p
      BY <2>0, <2>1, <2>2, OthersUntouched
    <2>4. ASSUME Confirm(p) \/ RestoreSaved(p) PROVE id = op[p].id
      BY <1>1, <2>0, <2>4 DEF Confirm, RestoreSaved, TypeOK
    <2>5. CASE UpdateAlreadySaved(p)
      BY <2>0, <2>4, <2>5 DEF UpdateAlreadySaved, OpInvOf, Changing
    <2>6. ASSUME Saved(p), pc[p] \in Writing \cap Changing, id = op[p].id PROVE store'.entries[id] = pending[p][id].entry
      <3>1. op[p] \in Operation /\ op[p].entry = pending[p][id].entry
        BY <1>1, <2>0, <2>6, OpIsOperation DEF OpInvOf, Changing
      <3>2. store'.entries = [snap[p].entries EXCEPT ![id] = op[p].entry]
        BY <2>0, <2>6, <3>1, NextRecordIs DEF Saved
      <3>3. snap[p].entries \in [Id -> Entry \cup {NoEntry}]
        BY <2>0 DEF TypeOK, JournalRecord
      <3> QED
        BY <3>1, <3>2, <3>3
    <2>7. CASE UpdateSaved(p) \/ RestoreSaved(p)
      BY <2>4, <2>6, <2>7 DEF UpdateSaved, RestoreSaved, Writing, Changing
    <2>8. ASSUME NEW i \in Id, RestoreEntry(p, i) PROVE store'.entries[id] = pending[p][id].entry
      BY <1>1, <2>0, <2>1, <2>8 DEF RestoreEntry, TypeOK
    <2>9. ASSUME NEW i \in Id, NEW o \in Outcome \ {Unknown}, BeginUpdate(p, i, o) PROVE FALSE
      BY <1>1, <2>0, <2>9 DEF BeginUpdate, TypeOK
    <2>10. CASE \/ \E i \in Id, b \in Binding : BeginReserve(p, i, b)
                \/ \E i \in Id : Verify(p, i)
                \/ BeginRestore(p)
      BY <2>1, <2>10 DEF BeginReserve, Verify, BeginRestore
    <2>11. CASE ReserveNew(p) \/ ReserveExisting(p) \/ ReserveSaved(p) \/ ReserveNotSaved(p) \/ UpdateCurrent(p)
                 \/ UpdateConflict(p) \/ UpdateNotSaved(p) \/ RestoreNotSaved(p) \/ RestoreDone(p) \/ ReadFailed(p)
      BY <2>1, <2>11 DEF ReserveNew, ReserveExisting, ReserveSaved, ReserveNotSaved, UpdateCurrent,
         UpdateConflict, UpdateNotSaved, RestoreNotSaved, RestoreDone, ReadFailed, KeepPending
    <2> QED
      BY <1>1, <2>2, <2>3, <2>5, <2>7, <2>8, <2>9, <2>10, <2>11 DEF Begin, Step
  <1>2. IInv /\ [Next]_vars =>
          [\A p \in Process, id \in Id :
             pending[p][id] # NoEntry /\ pending'[p][id] = NoEntry /\ ~ Crash(p)
               => store'.entries[id] = pending[p][id].entry]_vars
    BY <1>1
  <1> QED
    BY <1>2, Invariance, PTL DEF Spec, OutcomeKeptUntilSaved

-----------------------------------------------------------------------------
(* The journal implements its promise: each save is one Reserve or Record. *)

owned == {id \in Id : created[id] > 0}

\* A save of an entry that another one replaces is of the same call.
LEMMA SaveIsOne ==
  ASSUME IInv, NEW p \in Process, pc[p] \in Writing, snap[p] = store, op[p] \in Operation
  PROVE  \/ pc[p] = "reserveWrite" /\ store.entries[op[p].id] = NoEntry /\ op[p].entry.outcome = Unknown
         \/ store.entries[op[p].id] = op[p].previous /\ op[p].entry.binding = op[p].previous.binding
  BY DEF IInv, OpInv, OpInvOf, WriteInv, WriteInvOf, Writing, Changing

\* An entry is its binding and its outcome.
LEMMA EntryIs ==
  ASSUME NEW e \in Entry
  PROVE  e.binding \in Binding /\ e.outcome \in Outcome /\ e = [binding |-> e.binding, outcome |-> e.outcome]
  BY DEF Entry

LEMMA StepIsPromised ==
  ASSUME IInv, [Next]_vars
  PROVE  [Promise!Next]_<<store.entries, owned>>
  <1>0. TypeOK /\ CreatedInv /\ store.entries \in [Id -> Entry \cup {NoEntry}] /\ created \in [Id -> Nat]
    BY DEF IInv, TypeOK, JournalRecord
  <1>1. CASE Remove
    <2>1. store'.entries = [id \in Id |-> NoEntry]
      BY <1>1 DEF Remove, NoRecord
    <2>2. owned' = {}
      BY <1>1 DEF Remove, owned
    <2>3. Promise!Remove
      BY <2>1, <2>2 DEF Promise!Remove, owned
    <2> QED
      BY <2>3 DEF Promise!Next
  <1>2. ASSUME NEW p \in Process, ReserveSaved(p) PROVE Promise!Next
    <2>0. SUFFICES ASSUME NEW id \in Id, id = op[p].id PROVE Promise!Next
      BY <1>2, CreationIsNew DEF Operation
    <2>1. id \in Id /\ op[p].entry \in Entry /\ store.entries[id] = NoEntry
          /\ store'.entries = [store.entries EXCEPT ![id] = op[p].entry]
          /\ created' = [created EXCEPT ![id] = @ + 1] /\ created[id] = 0
      BY <1>2, <2>0, CreationIsNew DEF Operation
    <2>2. op[p].entry.outcome = Unknown
      BY <1>2 DEF ReserveSaved, IInv, OpInv, OpInvOf
    <2>3. op[p].entry.binding \in Binding
          /\ op[p].entry = [binding |-> op[p].entry.binding, outcome |-> Unknown]
      BY <2>1, <2>2, EntryIs
    <2>4. id \notin owned /\ owned' = owned \cup {id}
      BY <1>0, <2>1 DEF owned
    <2>5. Promise!Reserve(id)
      BY <2>1, <2>3, <2>4 DEF Promise!Reserve, owned
    <2> QED
      BY <2>1, <2>5 DEF Promise!Next
  <1>3. CASE UNCHANGED store /\ UNCHANGED created
    BY <1>3 DEF owned
  <1>4. ASSUME UNCHANGED created, NEW p \in Process, pc[p] \in Writing, snap[p] = store, op[p] \in Operation,
               store'.entries = [store.entries EXCEPT ![op[p].id] = op[p].entry]
        PROVE  Promise!Next
    <2>0. SUFFICES ASSUME NEW id \in Id, id = op[p].id PROVE Promise!Next
      BY <1>4 DEF Operation
    <2>1. id \in Id /\ op[p].entry \in Entry /\ op[p].previous \in Entry
      BY <1>4, <2>0 DEF Operation
    <2>2. op[p].entry.binding \in Binding /\ op[p].entry.outcome \in Outcome
          /\ op[p].entry = [binding |-> op[p].entry.binding, outcome |-> op[p].entry.outcome]
      BY <2>1, EntryIs
    <2>3. owned' = owned
      BY <1>4 DEF owned
    <2>4. CASE store.entries[id] = NoEntry /\ op[p].entry.outcome = Unknown
      <3>1. id \notin owned
        BY <1>0, <2>1, <2>4, <2>0 DEF owned, CreatedInv
      <3>2. store'.entries = [store.entries EXCEPT ![id] = [binding |-> op[p].entry.binding, outcome |-> Unknown]]
        BY <1>4, <2>0, <2>2, <2>4
      <3>3. Promise!Reserve(id)
        BY <2>2, <2>3, <2>4, <3>1, <3>2 DEF Promise!Reserve, owned
      <3> QED
        BY <2>1, <3>3 DEF Promise!Next
    <2>5. CASE store.entries[id] = op[p].previous /\ op[p].entry.binding = op[p].previous.binding
      <3>1. store.entries[id] # NoEntry
        BY <2>1, <2>5, NoEntryIsNone
      <3>2. store'.entries = [store.entries EXCEPT ![id] = [binding |-> store.entries[id].binding,
                                                            outcome |-> op[p].entry.outcome]]
        BY <1>4, <2>0, <2>2, <2>5
      <3>3. Promise!Record(id)
        BY <2>2, <2>3, <3>1, <3>2 DEF Promise!Record, owned
      <3> QED
        BY <2>1, <3>3 DEF Promise!Next
    <2> QED
      BY <1>4, <2>0, <2>4, <2>5, SaveIsOne
  <1> QED
    BY <1>1, <1>2, <1>3, <1>4, StoreSteps, CreatedSteps

\* What the dispatching code relies on holds of the journal that several
\* processes write, whatever answers are lost: every step is a promised one.
THEOREM JournalImplements == Spec => Implements
  <1>1. Init => Promise!Init
    BY NoRecordIsRecord DEF Init, NoRecord, Promise!Init
  <1>2. IInv /\ [Next]_vars => [Promise!Next]_<<store.entries, owned>>
    BY StepIsPromised
  <1> QED
    BY <1>1, <1>2, Invariance, PTL DEF Spec, Implements, Promise!Spec, owned

\* No process overwrites an outcome other than the one its own was computed from.
THEOREM OnlyReplacesHolds == Spec => OnlyReplacesWhatItSaw
  <1>1. ASSUME IInv, [Next]_vars, NEW id \in Id, store.entries[id] # store'.entries[id],
               NoEntry \notin {store.entries[id], store'.entries[id]}
        PROVE  \E p \in Process : /\ op[p] # NoEntry
                                  /\ op[p].id = id
                                  /\ op[p].previous = store.entries[id]
                                  /\ op[p].entry = store'.entries[id]
    <2>1. ~ UNCHANGED store /\ ~ Remove
      BY <1>1 DEF Remove, NoRecord
    <2>2. PICK p \in Process : /\ pc[p] \in Writing /\ snap[p] = store /\ op[p] \in Operation
                               /\ store'.entries = [store.entries EXCEPT ![op[p].id] = op[p].entry]
      BY <1>1, <2>1, StoreSteps
    <2>3. store.entries \in [Id -> Entry \cup {NoEntry}] /\ op[p].id \in Id
      BY <1>1, <2>2 DEF IInv, TypeOK, JournalRecord, Operation
    <2>4. op[p].id = id /\ store'.entries[id] = op[p].entry
      BY <1>1, <2>2, <2>3
    <2>5. op[p].previous = store.entries[id]
      BY <1>1, <2>2, <2>4, SaveIsOne
    <2> QED
      BY <2>2, <2>4, <2>5, NoEntryIsNone
  <1>2. IInv /\ [Next]_vars =>
          [\A id \in Id :
             store.entries[id] # store'.entries[id] /\ NoEntry \notin {store.entries[id], store'.entries[id]}
               => \E p \in Process : /\ op[p] # NoEntry
                                     /\ op[p].id = id
                                     /\ op[p].previous = store.entries[id]
                                     /\ op[p].entry = store'.entries[id]]_vars
    BY <1>1
  <1> QED
    BY <1>2, Invariance, PTL DEF Spec, OnlyReplacesWhatItSaw
=============================================================================
