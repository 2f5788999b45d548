-------------------------- MODULE ScopeAndToolsProofs --------------------------
(***************************************************************************)
(* What a session may act on.  The scope dispatches only on a fresh proof, *)
(* and never after a confirmed loss, for any selections and any number of  *)
(* calls, writes of other runtimes and restarts.  A business tool is       *)
(* dispatched only as the hub published it, whatever of the session's      *)
(* cache was evicted, contradicted or invalidated, for any catalogs,       *)
(* targets, calls and turns; a late rejection spares a newer revision if   *)
(* revisions never return.                                                 *)
(***************************************************************************)
EXTENDS SessionScope, SessionTools, WellFoundedInduction, SequenceTheorems, TLAPS

-----------------------------------------------------------------------------
(* The session scope                                                       *)

\* A set call under way is pending, and closes the scope before it writes.
SetInv ==
  /\ pending <=> setting.pc # "idle"
  /\ setting.pc \notin {"idle", "load"} => blocked

\* Begin runs after the load and the claim, which exclude every set call; it
\* locks the scope that is in the record.
BeginInv ==
  /\ beginning # "idle" => claimed /\ ~ pending /\ loaded.state = "yes"
  /\ beginning = "check" => Ready(record)
  /\ beginning = "validate" => record # NoRecord
  /\ beginning = "lock" =>
       /\ record # NoRecord => record.state = "ready"
       /\ saving # NoSave
       /\ saving.next.scope = IF record = NoRecord THEN Chat ELSE record.scope

\* A validation of the present generation was not overtaken by an invalidation.
FreshInv ==
  \A v \in validations : v.generation <= generation /\ (v.generation = generation => v.fresh)

\* A selection that is neither blocked nor to be checked again is proven.
ProvenInv ==
  Ready(record) /\ record.scope # Chat /\ ~ blocked /\ ~ retryRequired => proven

LostInv == lost => blocked

IInv == TypeOK /\ SetInv /\ BeginInv /\ FreshInv /\ ProvenInv /\ LostInv

LEMMA IdleIs == Idle \in SetCall /\ Idle.pc = "idle"
  BY DEF Idle, SetCall, Scope

\* What write saves.
LEMMA SaveIs ==
  ASSUME TypeOK, NEW state \in {"ready", "needs_selection"}, NEW locked \in BOOLEAN, NEW scope \in Scope,
         Save(state, locked, scope)
  PROVE  saving' \in Saving /\ saving' # NoSave /\ saving'.next.scope = scope
  <1> DEFINE next == [revision |-> IF record = NoRecord THEN 1 ELSE record.revision + 1,
                      state |-> state, locked |-> locked, scope |-> scope]
  <1>1. record # NoRecord => record.revision \in Nat
    BY DEF TypeOK, Record
  <1>2. next \in Record /\ next.scope = scope
    BY <1>1 DEF Record
  <1> HIDE DEF next
  <1>3. saving' = [status |-> "issued", next |-> next]
    BY DEF Save, next
  <1> QED
    BY <1>2, <1>3, AbsentValues DEF Saving

\* What a save that succeeded has stored.
LEMMA SavedIs ==
  ASSUME TypeOK, Saved \/ NotSaved
  PROVE  saving \in Saving /\ saving.next \in Record
  BY DEF TypeOK, Saved, NotSaved, Saving

\* A revalidation is added for the record as it is now.
LEMMA RevalidateIs ==
  ASSUME TypeOK, record # NoRecord, Revalidate
  PROVE  /\ validations' \in SUBSET Validation
         /\ validation' \in Joined \cup {NoCheck}
         /\ retryRequired' \in BOOLEAN
         /\ retryRequired' = retryRequired \/ retryRequired' = (record.scope # Chat)
         /\ \A v \in validations' : v \in validations \/ (v.generation = generation /\ v.fresh)
  <1>1. record \in Record /\ generation \in Nat /\ validations \in SUBSET Validation /\ retryRequired \in BOOLEAN
        /\ validation \in Joined \cup {NoCheck}
    BY DEF TypeOK
  <1> DEFINE w == [record |-> record, generation |-> generation, phase |-> "resolve", same |-> FALSE, fresh |-> TRUE]
  <1>2. w \in Validation /\ w.generation = generation /\ w.fresh
    BY <1>1 DEF Validation
  <1> HIDE DEF w
  <1>3. UNCHANGED <<validations, validation, retryRequired>>
        \/ (validations' = validations \cup {w} /\ validation' = [record |-> record, generation |-> generation]
             /\ retryRequired' = (record.scope # Chat))
    BY DEF Revalidate, w
  <1>4. [record |-> record, generation |-> generation] \in Joined
    BY <1>1 DEF Joined
  <1>5. (record.scope # Chat) \in BOOLEAN
    OBVIOUS
  <1>6. validations' \in SUBSET Validation /\ validation' \in Joined \cup {NoCheck}
    BY <1>1, <1>2, <1>3, <1>4
  <1>7. retryRequired' \in BOOLEAN /\ (retryRequired' = retryRequired \/ retryRequired' = (record.scope # Chat))
    BY <1>1, <1>3, <1>5
  <1>8. \A v \in validations' : v \in validations \/ (v.generation = generation /\ v.fresh)
    BY <1>2, <1>3
  <1> QED
    BY <1>6, <1>7, <1>8

LEMMA StaleIs ==
  ASSUME NEW set \in SUBSET Validation
  PROVE  Stale(set) \in SUBSET Validation /\ \A v \in Stale(set) : \E w \in set : v.generation = w.generation
  BY DEF Stale, Validation

LEMMA InitInv == Init => IInv
  <1> SUFFICES ASSUME Init PROVE IInv
    OBVIOUS
  <1>1. TypeOK
    <2>1. loaded \in Loading /\ checks \in [{"reader", "begin"} -> Check \cup {NoCheck}] /\ validations \in SUBSET Validation
      BY DEF Init, Loading
    <2>2. setting \in SetCall
      BY IdleIs DEF Init
    <2>3. others \in 0..MaxOthers /\ restarts \in 0..MaxRestarts /\ generation \in Nat
      BY BoundsAreNat DEF Init
    <2>4. intent \in Scope /\ validation = NoCheck /\ saving = NoSave /\ stored = NoRecord /\ record = NoRecord
      BY DEF Init, Scope
    <2>5. beginning \in {"idle", "check", "lock", "validate"}
      BY DEF Init
    <2> QED
      BY <2>1, <2>2, <2>3, <2>4, <2>5 DEF Init, TypeOK
  <1> QED
    BY <1>1 DEF Init, IInv, SetInv, BeginInv, FreshInv, ProvenInv, LostInv, Idle, Ready

-----------------------------------------------------------------------------
(* The steps keep the types.                                               *)

LEMMA LoadTypes == IInv /\ (LoadRead \/ LoadDone \/ SaveEffect) => TypeOK'
  <1> SUFFICES ASSUME TypeOK, LoadRead \/ LoadDone \/ SaveEffect PROVE TypeOK'
    BY DEF IInv
  <1> USE DEF memory, history
  <1>1. CASE LoadRead
    <2>1. loaded' \in Loading
      BY <1>1 DEF LoadRead, TypeOK, Loading
    <2> QED
      BY <1>1, <2>1 DEF LoadRead, TypeOK
  <1>2. CASE LoadDone
    <2>1. loaded' \in Loading /\ record' \in Record \cup {NoRecord}
      BY <1>2 DEF LoadDone, TypeOK, Loading
    <2>2. loadFailed' \in BOOLEAN /\ blocked' \in BOOLEAN
      BY <1>2 DEF LoadDone, IsDraft, TypeOK
    <2>3. retryRequired' \in BOOLEAN
      <3>1. retryRequired \in BOOLEAN /\ (loaded.read # NoRecord /\ loaded.read.scope # Chat) \in BOOLEAN
        BY DEF TypeOK
      <3> QED
        BY <1>2, <3>1 DEF LoadDone
    <2> QED
      BY <1>2, <2>1, <2>2, <2>3 DEF LoadDone, TypeOK
  <1>3. CASE SaveEffect
    <2>1. saving \in Saving /\ saving.next \in Record
      BY <1>3 DEF TypeOK, SaveEffect, Saving
    <2>2. saving' \in Saving /\ stored' \in Record \cup {NoRecord}
      BY <1>3, <2>1 DEF SaveEffect, Saving, TypeOK
    <2> QED
      BY <1>3, <2>2 DEF SaveEffect, TypeOK
  <1> QED
    BY <1>1, <1>2, <1>3

LEMMA SetTypes == IInv /\ Set => TypeOK'
  <1> SUFFICES ASSUME TypeOK, Set PROVE TypeOK'
    BY DEF IInv
  <1> USE DEF memory, history
  <1>0. SetEnds => pending' \in BOOLEAN /\ setting' \in SetCall
    BY IdleIs DEF SetEnds
  <1>1. ASSUME NEW scope \in Scope, SetCollides(scope) PROVE TypeOK'
    BY <1>1 DEF SetCollides, Asked, TypeOK
  <1>2. ASSUME NEW scope \in Scope, SetStart(scope) PROVE TypeOK'
    BY <1>2 DEF SetStart, Asked, TypeOK, SetCall
  <1>3. CASE SetLocked
    BY <1>0, <1>3 DEF SetLocked, TypeOK
  <1>4. CASE SetWithdraws
    <2>1. saving' \in Saving
      BY <1>4, SaveIs DEF SetWithdraws, Tombstone, Scope
    <2> QED
      BY <1>4, <2>1 DEF SetWithdraws, TypeOK, SetCall
  <1>5. CASE SetFails
    BY <1>0, <1>5 DEF SetFails, TypeOK
  <1>6. CASE SetWithdrawn
    BY <1>0, <1>6, SavedIs DEF SetWithdrawn, TypeOK, SetCall
  <1>7. CASE SetResolved
    <2>1. saving' \in Saving \cup {NoSave}
      <3>1. setting.scope \in Scope /\ saving \in Saving \cup {NoSave}
        BY DEF TypeOK, SetCall
      <3> QED
        BY <1>7, <3>1, SaveIs DEF SetResolved
    <2>2. pending' \in BOOLEAN /\ setting' \in SetCall
      BY <1>0, <1>7 DEF SetResolved, TypeOK, SetCall
    <2> QED
      BY <1>7, <2>1, <2>2 DEF SetResolved, TypeOK
  <1>8. CASE SetConfirmed
    <2>1. record' \in Record
      BY <1>8, SavedIs DEF SetConfirmed
    <2> QED
      BY <1>0, <1>8, <2>1 DEF SetConfirmed, TypeOK
  <1>9. CASE SetRetracts
    <2>1. saving.next \in Record /\ saving.next.revision \in Nat /\ claimed \in BOOLEAN
      BY <1>9, SavedIs DEF SetRetracts, Record, TypeOK
    <2>2. saving' \in Saving
      BY <1>9, <2>1 DEF SetRetracts, Saving, Record, Scope
    <2> QED
      BY <1>9, <2>1, <2>2 DEF SetRetracts, TypeOK, SetCall
  <1>10. CASE SetRetracted
    BY <1>0, <1>10, SavedIs DEF SetRetracted, TypeOK
  <1> QED
    BY <1>1, <1>2, <1>3, <1>4, <1>5, <1>6, <1>7, <1>8, <1>9, <1>10 DEF Set

LEMMA BeginTypes == IInv /\ (Begin \/ MarkStarted) => TypeOK'
  <1> SUFFICES ASSUME TypeOK, BeginInv, Begin \/ MarkStarted PROVE TypeOK'
    BY DEF IInv
  <1> USE DEF memory, history
  <1>0. record # NoRecord => NewCheck \in Check
    BY DEF NewCheck, Check, TypeOK
  <1>1. CASE MarkStarted
    BY <1>1 DEF MarkStarted, TypeOK
  <1>2. CASE BeginStart
    <2>1. saving' \in Saving \cup {NoSave}
      BY <1>2, SaveIs DEF BeginStart, TypeOK, Scope
    <2>2. checks' \in [{"reader", "begin"} -> Check \cup {NoCheck}]
      BY <1>0, <1>2 DEF BeginStart, TypeOK
    <2>3. blocked' \in BOOLEAN
      BY <1>2 DEF BeginStart, TypeOK
    <2>4. beginning' \in {"idle", "check", "lock", "validate"}
      BY <1>2 DEF BeginStart, TypeOK
    <2> QED
      BY <1>2, <2>1, <2>2, <2>3, <2>4 DEF BeginStart, TypeOK
  <1>3. CASE BeginChecked
    <2>1. record \in Record /\ record.scope \in Scope
      BY <1>3 DEF BeginChecked, BeginInv, Ready, TypeOK, Record
    <2>2. saving' \in Saving \cup {NoSave}
      BY <1>3, <2>1, SaveIs DEF BeginChecked, TypeOK
    <2>3. blocked' \in BOOLEAN /\ beginning' \in {"idle", "check", "lock", "validate"}
      BY <1>3 DEF BeginChecked, TypeOK, Match, Mismatch, StillChecked
    <2> QED
      BY <1>3, <2>2, <2>3 DEF BeginChecked, TypeOK
  <1>4. CASE BeginLocked
    <2>1. record' \in Record \cup {NoRecord}
      BY <1>4, SavedIs DEF BeginLocked, TypeOK
    <2>2. blocked' \in BOOLEAN /\ beginning' \in {"idle", "check", "lock", "validate"} /\ saving' = NoSave
      BY <1>4 DEF BeginLocked, TypeOK
    <2> QED
      BY <1>4, <2>1, <2>2 DEF BeginLocked, TypeOK
  <1>5. CASE BeginValidates
    BY <1>5, RevalidateIs DEF BeginValidates, TypeOK, BeginInv
  <1> QED
    BY <1>1, <1>2, <1>3, <1>4, <1>5 DEF Begin

LEMMA ReadTypes == IInv /\ (Read \/ ReadChecked \/ Restore) => TypeOK'
  <1> SUFFICES ASSUME TypeOK, Read \/ ReadChecked \/ Restore PROVE TypeOK'
    BY DEF IInv
  <1> USE DEF memory, history
  <1>1. CASE Read
    <2>1. NewCheck \in Check
      BY <1>1 DEF Read, NewCheck, Check, TypeOK
    <2> QED
      BY <1>1, <2>1 DEF Read, TypeOK
  <1>2. CASE ReadChecked
    <2>1. blocked' \in BOOLEAN
      BY <1>2 DEF ReadChecked, TypeOK, Match, Mismatch, StillChecked
    <2>2. /\ validations' \in SUBSET Validation
          /\ validation' \in Joined \cup {NoCheck}
          /\ retryRequired' \in BOOLEAN
      BY <1>2, RevalidateIs DEF ReadChecked, TypeOK, Ready
    <2> QED
      BY <1>2, <2>1, <2>2 DEF ReadChecked, TypeOK
  <1>3. CASE Restore
    <2>1. generation' \in Nat /\ blocked' \in BOOLEAN
      BY <1>3 DEF Restore, TypeOK
    <2>2. claimed' \in BOOLEAN
      BY <1>3 DEF Restore, TypeOK
    <2> QED
      BY <1>3, <2>1, <2>2 DEF Restore, TypeOK
  <1> QED
    BY <1>1, <1>2, <1>3

LEMMA ValidateTypes == IInv /\ (Validate \/ ProbeFails) => TypeOK'
  <1> SUFFICES ASSUME TypeOK, Validate \/ ProbeFails PROVE TypeOK'
    BY DEF IInv
  <1> USE DEF memory, history
  <1>0. ASSUME NEW d \in BOOLEAN, Invalidate(d)
        PROVE  /\ generation' \in Nat
               /\ blocked' \in BOOLEAN /\ retryRequired' \in BOOLEAN /\ proven' \in BOOLEAN /\ lost' \in BOOLEAN
    <2>1. generation \in Nat /\ blocked \in BOOLEAN /\ retryRequired \in BOOLEAN /\ lost \in BOOLEAN
      BY DEF TypeOK
    <2>2. generation' \in Nat
      BY <1>0, <2>1 DEF Invalidate
    <2>5. proven' \in BOOLEAN
      BY <1>0 DEF Invalidate
    <2>3. retryRequired' \in BOOLEAN /\ lost' \in BOOLEAN
      BY <1>0, <2>1 DEF Invalidate
    <2>4. blocked' \in BOOLEAN
      BY <1>0, <2>1 DEF Invalidate
    <2> QED
      BY <2>2, <2>3, <2>4, <2>5
  <1>1. ASSUME NEW v \in validations, ValidationResolved(v) PROVE TypeOK'
    <2>1. v \in Validation /\ validations \in SUBSET Validation
      BY <1>1 DEF TypeOK
    <2>2. [v EXCEPT !.phase = "check", !.same = (stored = v.record)] \in Validation
      BY <2>1 DEF Validation
    <2>3. validations' \in SUBSET Validation
      BY <1>1, <2>1, <2>2 DEF ValidationResolved
    <2> QED
      BY <1>1, <2>3 DEF ValidationResolved, Without, TypeOK
  <1>2. ASSUME NEW v \in validations, ValidationFailed(v) PROVE TypeOK'
    <2>1. validations \ {v} \in SUBSET Validation
      BY DEF TypeOK
    <2>2. validations' \in SUBSET Validation
      BY <1>2, <2>1, StaleIs DEF ValidationFailed
    <2>3. /\ generation' \in Nat
          /\ blocked' \in BOOLEAN /\ retryRequired' \in BOOLEAN /\ proven' \in BOOLEAN /\ lost' \in BOOLEAN
      BY <1>0, <1>2 DEF ValidationFailed, TypeOK
    <2> QED
      BY <1>2, <2>2, <2>3 DEF ValidationFailed, Without, TypeOK
  <1>3. ASSUME NEW v \in validations, ValidationChecked(v) PROVE TypeOK'
    <2>1. v.fresh \in BOOLEAN /\ validations' \in SUBSET Validation
      BY <1>3 DEF ValidationChecked, TypeOK, Validation
    <2>3. retryRequired' \in BOOLEAN /\ proven' \in BOOLEAN
      BY <1>3, <2>1 DEF ValidationChecked, TypeOK
    <2>4. validation' \in Joined \cup {NoCheck}
      BY <1>3 DEF ValidationChecked, Without, TypeOK
    <2>2. blocked' \in BOOLEAN
      BY <1>3 DEF ValidationChecked, TypeOK, Match, Mismatch, StillChecked
    <2> QED
      BY <1>3, <2>1, <2>2, <2>3, <2>4 DEF ValidationChecked, TypeOK
  <1>4. CASE ProbeFails
    <2>1. validations' \in SUBSET Validation
      BY <1>4, StaleIs DEF ProbeFails, TypeOK
    <2>2. /\ generation' \in Nat
          /\ blocked' \in BOOLEAN /\ retryRequired' \in BOOLEAN /\ proven' \in BOOLEAN /\ lost' \in BOOLEAN
      BY <1>0, <1>4 DEF ProbeFails
    <2> QED
      BY <1>4, <2>1, <2>2 DEF ProbeFails, TypeOK
  <1> QED
    BY <1>1, <1>2, <1>3, <1>4 DEF Validate

LEMMA OutsideTypes == IInv /\ (OtherWrites \/ Restart) => TypeOK'
  <1> SUFFICES ASSUME TypeOK, OtherWrites \/ Restart PROVE TypeOK'
    BY DEF IInv
  <1> USE DEF memory, history
  <1>1. CASE OtherWrites
    <2>1. others' \in 0..MaxOthers
      BY <1>1, BoundsAreNat DEF OtherWrites, TypeOK
    <2>2. stored' \in Record /\ intent' \in Scope
      <3>1. PICK next \in [revision : {IF stored = NoRecord THEN 1 ELSE stored.revision + 1},
                           state : {"ready", "needs_selection"}, locked : BOOLEAN, scope : Scope],
                 asked \in Scope :
                   stored' = next /\ intent' = IF next.locked THEN next.scope
                                               ELSE IF pending THEN intent
                                               ELSE IF next.state = "ready" THEN next.scope ELSE asked
        BY <1>1 DEF OtherWrites
      <3>2. stored # NoRecord => stored.revision \in Nat
        BY DEF TypeOK, Record
      <3>3. next \in Record /\ next.scope \in Scope /\ intent \in Scope
        BY <3>2 DEF Record, TypeOK
      <3> QED
        BY <3>1, <3>3
    <2> QED
      BY <1>1, <2>1, <2>2 DEF OtherWrites, TypeOK
  <1>2. CASE Restart
    <2>1. restarts' \in 0..MaxRestarts
      BY <1>2, BoundsAreNat DEF Restart, TypeOK
    <2>2. stored' \in Record \cup {NoRecord}
      BY <1>2 DEF Restart, TypeOK, Saving
    <2>3. setting' \in SetCall
      BY <1>2, IdleIs DEF Restart
    <2>4. loaded' \in Loading /\ checks' \in [{"reader", "begin"} -> Check \cup {NoCheck}]
      BY <1>2 DEF Restart, Loading
    <2>5. validations' \in SUBSET Validation /\ validation' \in Joined \cup {NoCheck}
      BY <1>2 DEF Restart
    <2> QED
      BY <1>2, <2>1, <2>2, <2>3, <2>4, <2>5 DEF Restart, TypeOK
  <1> QED
    BY <1>1, <1>2

LEMMA TypeStep == IInv /\ [Next]_vars => TypeOK'
  <1>1. IInv /\ UNCHANGED vars => TypeOK'
    BY DEF IInv, TypeOK, vars, memory, history
  <1> QED
    BY <1>1, LoadTypes, SetTypes, BeginTypes, ReadTypes, ValidateTypes, OutsideTypes DEF Next

-----------------------------------------------------------------------------
(* The steps keep the rest of the invariant.                               *)

Rest == SetInv /\ BeginInv /\ FreshInv /\ ProvenInv /\ LostInv

LEMMA LoadRest == IInv /\ (LoadRead \/ LoadDone \/ SaveEffect) => Rest'
  <1> SUFFICES ASSUME IInv, LoadRead \/ LoadDone \/ SaveEffect PROVE Rest'
    OBVIOUS
  <1> USE DEF memory, history
  <1>0. TypeOK /\ SetInv /\ BeginInv /\ FreshInv /\ ProvenInv /\ LostInv
    BY DEF IInv
  <1>1. CASE LoadRead
    <2>1. SetInv' /\ FreshInv' /\ ProvenInv' /\ LostInv'
      BY <1>0, <1>1 DEF LoadRead, SetInv, FreshInv, ProvenInv, LostInv
    <2>2. BeginInv'
      BY <1>0, <1>1 DEF LoadRead, BeginInv
    <2> QED
      BY <2>1, <2>2 DEF Rest
  <1>2. CASE LoadDone
    <2>1. SetInv' /\ FreshInv' /\ LostInv'
      BY <1>0, <1>2 DEF LoadDone, SetInv, FreshInv, LostInv
    <2>2. ProvenInv'
      BY <1>0, <1>2 DEF LoadDone, ProvenInv, Ready
    <2>3. BeginInv'
      BY <1>0, <1>2 DEF LoadDone, BeginInv
    <2> QED
      BY <2>1, <2>2, <2>3 DEF Rest
  <1>3. CASE SaveEffect
    <2>1. SetInv' /\ FreshInv' /\ ProvenInv' /\ LostInv'
      BY <1>0, <1>3 DEF SaveEffect, SetInv, FreshInv, ProvenInv, LostInv
    <2>2. saving' # NoSave /\ saving'.next.scope = saving.next.scope
      <3>1. saving' \in Saving /\ saving'.next = saving.next
        BY <1>0, <1>3 DEF SaveEffect, TypeOK, Saving
      <3> QED
        BY <3>1, AbsentValues
    <2>3. BeginInv'
      BY <1>0, <1>3, <2>2 DEF SaveEffect, BeginInv
    <2> QED
      BY <2>1, <2>3 DEF Rest
  <1> QED
    BY <1>1, <1>2, <1>3

LEMMA SetRest == IInv /\ Set => Rest'
  <1> SUFFICES ASSUME IInv, Set PROVE Rest'
    OBVIOUS
  <1> USE DEF memory, history
  <1>0. TypeOK /\ SetInv /\ BeginInv /\ FreshInv /\ ProvenInv /\ LostInv
    BY DEF IInv
  <1>1. beginning' = beginning /\ (beginning = "idle" => BeginInv')
    BY DEF Set, BeginInv, SetCollides, SetStart, SetLocked, SetWithdraws, SetFails, SetWithdrawn, SetResolved,
       SetConfirmed, SetRetracts, SetRetracted
  <1>2. ASSUME NEW scope \in Scope, SetCollides(scope) \/ SetStart(scope) PROVE Rest'
    <2>1. beginning = "idle"
      BY <1>0, <1>2 DEF SetCollides, SetStart, CanSet, BeginInv
    <2>2. generation \in Nat /\ generation' = generation + 1 /\ UNCHANGED validations
          /\ \A v \in validations : v.generation \in Nat
      BY <1>0, <1>2 DEF SetCollides, SetStart, TypeOK, Validation
    <2>3. FreshInv'
      BY <1>0, <2>2 DEF FreshInv
    <2>4. SetInv' /\ ProvenInv' /\ LostInv'
      BY <1>0, <1>2 DEF SetCollides, SetStart, SetInv, ProvenInv, LostInv
    <2> QED
      BY <1>1, <2>1, <2>3, <2>4 DEF Rest
  <1>3. ASSUME UNCHANGED <<validations, generation>>, setting.pc # "idle", SetInv', ProvenInv', LostInv' PROVE Rest'
    <2>1. FreshInv'
      BY <1>0, <1>3 DEF FreshInv
    <2>2. beginning = "idle"
      BY <1>0, <1>3 DEF BeginInv, SetInv
    <2> QED
      BY <1>1, <1>3, <2>1, <2>2 DEF Rest
  <1>4. setting.pc \notin {"idle", "load"} => blocked
    BY <1>0 DEF SetInv
  <1>5. SetEnds => pending' = FALSE /\ setting'.pc = "idle"
    BY IdleIs DEF SetEnds
  <1>6. CASE SetLocked
    <2>1. SetInv' /\ ProvenInv' /\ LostInv'
      BY <1>0, <1>5, <1>6 DEF SetLocked, SetInv, ProvenInv, LostInv
    <2> QED
      BY <1>3, <1>6, <2>1 DEF SetLocked
  <1>7. CASE SetWithdraws
    <2>1. setting'.pc = "tombstone" /\ pending
      BY <1>0, <1>7 DEF SetWithdraws, SetInv, TypeOK, SetCall
    <2>2. SetInv' /\ ProvenInv' /\ LostInv'
      BY <1>0, <1>7, <2>1 DEF SetWithdraws, SetInv, ProvenInv, LostInv
    <2> QED
      BY <1>3, <1>7, <2>2 DEF SetWithdraws
  <1>8. CASE SetFails
    <2>1. SetInv' /\ ProvenInv' /\ LostInv'
      BY <1>0, <1>5, <1>8 DEF SetFails, SetInv, ProvenInv, LostInv
    <2> QED
      BY <1>3, <1>8, <2>1 DEF SetFails
  <1>9. CASE SetWithdrawn
    <2>1. (setting'.pc = "resolve" /\ pending') \/ (setting'.pc = "idle" /\ ~ pending')
      <3>1. setting \in SetCall /\ pending
        BY <1>0, <1>9 DEF SetWithdrawn, SetInv, TypeOK
      <3>2. CASE setting' = [setting EXCEPT !.pc = "resolve"] /\ UNCHANGED pending
        BY <3>1, <3>2 DEF SetCall
      <3>3. CASE SetEnds
        BY <1>5, <3>3
      <3> QED
        BY <1>9, <3>2, <3>3 DEF SetWithdrawn
    <2>2. SetInv' /\ ProvenInv' /\ LostInv'
      BY <1>0, <1>4, <1>9, <2>1 DEF SetWithdrawn, SetInv, ProvenInv, LostInv
    <2> QED
      BY <1>3, <1>9, <2>2 DEF SetWithdrawn
  <1>10. CASE SetResolved
    <2>1. (setting'.pc = "ready" /\ pending') \/ (setting'.pc = "idle" /\ ~ pending')
      BY <1>0, <1>5, <1>10 DEF SetResolved, SetInv, TypeOK, SetCall
    <2>2. SetInv' /\ ProvenInv' /\ LostInv'
      BY <1>0, <1>4, <1>10, <2>1 DEF SetResolved, SetInv, ProvenInv, LostInv
    <2> QED
      BY <1>3, <1>10, <2>2 DEF SetResolved
  <1>11. CASE SetConfirmed
    <2>1. SetInv' /\ ProvenInv' /\ LostInv'
      BY <1>5, <1>11 DEF SetConfirmed, SetInv, ProvenInv, LostInv
    <2> QED
      BY <1>3, <1>11, <2>1 DEF SetConfirmed
  <1>12. CASE SetRetracts
    <2>1. setting'.pc = "retract" /\ pending
      BY <1>0, <1>12 DEF SetRetracts, SetInv, TypeOK, SetCall
    <2>2. SetInv' /\ ProvenInv' /\ LostInv'
      BY <1>0, <1>4, <1>12, <2>1 DEF SetRetracts, SetInv, ProvenInv, LostInv
    <2> QED
      BY <1>3, <1>12, <2>2 DEF SetRetracts
  <1>13. CASE SetRetracted
    <2>1. SetInv' /\ ProvenInv' /\ LostInv'
      BY <1>5, <1>13 DEF SetRetracted, SetInv, ProvenInv, LostInv
    <2> QED
      BY <1>3, <1>13, <2>1 DEF SetRetracted
  <1> QED
    BY <1>2, <1>6, <1>7, <1>8, <1>9, <1>10, <1>11, <1>12, <1>13 DEF Set

\* The answer of a check or of a write may block the scope, never open it.
LEMMA BeginRest == IInv /\ (Begin \/ MarkStarted) => Rest'
  <1> SUFFICES ASSUME IInv, Begin \/ MarkStarted PROVE Rest'
    OBVIOUS
  <1> USE DEF memory, history
  <1>0. TypeOK /\ SetInv /\ BeginInv /\ FreshInv /\ ProvenInv /\ LostInv
    BY DEF IInv
  <1>1. CASE MarkStarted
    <2>1. generation \in Nat /\ (\A v \in validations : v.generation \in Nat) /\ generation' \in {generation, generation + 1}
      BY <1>0, <1>1 DEF MarkStarted, TypeOK, Validation
    <2>2. FreshInv'
      BY <1>0, <1>1, <2>1 DEF MarkStarted, FreshInv
    <2>3. SetInv' /\ ProvenInv' /\ LostInv'
      BY <1>0, <1>1 DEF MarkStarted, SetInv, ProvenInv, LostInv
    <2>4. BeginInv'
      BY <1>0, <1>1 DEF MarkStarted, BeginInv
    <2> QED
      BY <2>2, <2>3, <2>4 DEF Rest
  <1>2. CASE BeginStart
    <2>1. SetInv' /\ FreshInv' /\ ProvenInv' /\ LostInv'
      BY <1>0, <1>2 DEF BeginStart, SetInv, FreshInv, ProvenInv, LostInv
    <2>2. CASE pending \/ blocked' \/ (record # NoRecord /\ record.state = "needs_selection")
      BY <1>0, <1>2, <2>1, <2>2 DEF BeginStart, BeginInv, Rest
    <2>3. CASE ~ pending /\ record = NoRecord /\ Save("ready", TRUE, Chat) /\ beginning' = "lock"
      <3>1. saving' # NoSave /\ saving'.next.scope = Chat
        BY <1>0, <2>3, SaveIs DEF Scope
      <3> QED
        BY <1>2, <2>1, <2>3, <3>1 DEF BeginStart, BeginInv, Rest
    <2>4. CASE ~ pending /\ record # NoRecord /\ record.state # "needs_selection" /\ beginning' = "check"
      <3>1. Ready(record)
        BY <1>0, <2>4 DEF TypeOK, Record, Ready
      <3> QED
        BY <1>2, <2>1, <2>4, <3>1 DEF BeginStart, BeginInv, Rest
    <2> QED
      BY <1>2, <2>2, <2>3, <2>4 DEF BeginStart
  <1>3. CASE BeginChecked
    <2>1. blocked => blocked'
      BY <1>0, <1>3 DEF BeginChecked
    <2>2. SetInv' /\ FreshInv' /\ ProvenInv' /\ LostInv'
      BY <1>0, <1>3, <2>1 DEF BeginChecked, SetInv, FreshInv, ProvenInv, LostInv
    <2>3. Ready(record) /\ claimed /\ ~ pending /\ loaded.state = "yes" /\ record.scope \in Scope
      BY <1>0, <1>3 DEF BeginChecked, BeginInv, TypeOK, Record, Ready
    <2>4. CASE beginning' # "lock"
      BY <1>3, <2>2, <2>3, <2>4 DEF BeginChecked, BeginInv, Rest, Ready
    <2>5. CASE Save("ready", TRUE, record.scope) /\ beginning' = "lock"
      <3>1. saving' # NoSave /\ saving'.next.scope = record.scope
        BY <1>0, <2>3, <2>5, SaveIs
      <3> QED
        BY <1>3, <2>2, <2>3, <2>5, <3>1 DEF BeginChecked, BeginInv, Rest, Ready
    <2> QED
      BY <1>3, <2>4, <2>5 DEF BeginChecked
  <1>4. CASE BeginLocked
    <2>1. claimed /\ ~ pending /\ loaded.state = "yes" /\ (record # NoRecord => record.state = "ready")
          /\ saving.next.scope = (IF record = NoRecord THEN Chat ELSE record.scope)
      BY <1>0, <1>4 DEF BeginLocked, BeginInv
    <2>2. SetInv' /\ FreshInv' /\ LostInv'
      BY <1>0, <1>4, <2>1 DEF BeginLocked, SetInv, FreshInv, LostInv
    <2>3. CASE Saved /\ record' = saving.next /\ beginning' = "validate" /\ UNCHANGED blocked
      <3>1. record' # NoRecord
        BY <1>0, <2>3, SavedIs, AbsentValues
      <3>2. BeginInv'
        BY <1>4, <2>1, <2>3, <3>1 DEF BeginLocked, BeginInv
      <3>3. ProvenInv'
        BY <1>0, <1>4, <2>1, <2>3 DEF BeginLocked, ProvenInv, Ready
      <3> QED
        BY <2>2, <3>2, <3>3 DEF Rest
    <2>4. CASE blocked' = TRUE /\ beginning' = "idle"
      BY <1>4, <2>1, <2>2, <2>4 DEF BeginLocked, BeginInv, ProvenInv, Rest
    <2> QED
      BY <1>4, <2>3, <2>4 DEF BeginLocked
  <1>5. CASE BeginValidates
    <2>1. record # NoRecord
      BY <1>0, <1>5 DEF BeginValidates, BeginInv
    <2>2. UNCHANGED <<validations, retryRequired>> \/ Revalidate
      BY <1>5 DEF BeginValidates
    <2>3. FreshInv'
      BY <1>0, <1>5, <2>1, <2>2, RevalidateIs DEF BeginValidates, FreshInv, TypeOK
    <2>4. ProvenInv'
      BY <1>0, <1>5, <2>1, <2>2, RevalidateIs DEF BeginValidates, ProvenInv
    <2>5. SetInv' /\ LostInv' /\ BeginInv'
      BY <1>0, <1>5 DEF BeginValidates, SetInv, LostInv, BeginInv
    <2> QED
      BY <2>3, <2>4, <2>5 DEF Rest
  <1> QED
    BY <1>1, <1>2, <1>3, <1>4, <1>5 DEF Begin

LEMMA ReadRest == IInv /\ (Read \/ ReadChecked \/ Restore) => Rest'
  <1> SUFFICES ASSUME IInv, Read \/ ReadChecked \/ Restore PROVE Rest'
    OBVIOUS
  <1> USE DEF memory, history
  <1>0. TypeOK /\ SetInv /\ BeginInv /\ FreshInv /\ ProvenInv /\ LostInv
    BY DEF IInv
  <1>1. CASE Read
    BY <1>0, <1>1 DEF Read, Rest, SetInv, BeginInv, FreshInv, ProvenInv, LostInv
  <1>2. CASE ReadChecked
    <2>1. blocked => blocked'
      BY <1>0, <1>2 DEF ReadChecked
    <2>2. UNCHANGED <<validations, retryRequired>> \/ (record # NoRecord /\ Revalidate)
      BY <1>2 DEF ReadChecked, Ready
    <2>3. FreshInv'
      BY <1>0, <1>2, <2>2, RevalidateIs DEF ReadChecked, FreshInv, TypeOK
    <2>4. ProvenInv'
      BY <1>0, <1>2, <2>1, <2>2, RevalidateIs DEF ReadChecked, ProvenInv
    <2>5. SetInv' /\ LostInv' /\ BeginInv'
      BY <1>0, <1>2, <2>1 DEF ReadChecked, SetInv, LostInv, BeginInv
    <2> QED
      BY <2>3, <2>4, <2>5 DEF Rest
  <1>3. CASE Restore
    <2>1. generation \in Nat /\ (\A v \in validations : v.generation \in Nat) /\ generation' \in {generation, generation + 1}
      BY <1>0, <1>3 DEF Restore, TypeOK, Validation
    <2>2. FreshInv'
      BY <1>0, <1>3, <2>1 DEF Restore, FreshInv
    <2>3. claimed => claimed'
      BY <1>3 DEF Restore
    <2>4. SetInv' /\ ProvenInv' /\ LostInv' /\ BeginInv'
      BY <1>0, <1>3, <2>3 DEF Restore, SetInv, ProvenInv, LostInv, BeginInv
    <2> QED
      BY <2>2, <2>4 DEF Rest
  <1> QED
    BY <1>1, <1>2, <1>3

\* An invalidation leaves no validation of the new generation.
LEMMA InvalidateRest ==
  ASSUME IInv, NEW d \in BOOLEAN, Invalidate(d),
         \A v \in validations' : \E w \in validations : v.generation = w.generation,
         UNCHANGED <<record, claimed, pending, loaded, setting, beginning, saving>>
  PROVE  Rest'
  <1>0. TypeOK /\ SetInv /\ BeginInv /\ FreshInv /\ ProvenInv /\ LostInv
    BY DEF IInv
  <1>1. generation \in Nat /\ generation' = generation + 1 /\ (\A v \in validations : v.generation \in Nat)
    BY <1>0 DEF Invalidate, TypeOK, Validation
  <1>2. FreshInv'
    BY <1>0, <1>1 DEF FreshInv
  <1>3. (blocked => blocked') /\ (~ blocked' => retryRequired')
    BY DEF Invalidate
  <1>4. SetInv' /\ ProvenInv' /\ BeginInv'
    BY <1>0, <1>3 DEF SetInv, ProvenInv, BeginInv
  <1>5. LostInv'
    BY <1>0 DEF Invalidate, LostInv
  <1> QED
    BY <1>2, <1>4, <1>5 DEF Rest

LEMMA ValidateRest == IInv /\ (Validate \/ ProbeFails) => Rest'
  <1> SUFFICES ASSUME IInv, Validate \/ ProbeFails PROVE Rest'
    OBVIOUS
  <1> USE DEF memory, history
  <1>0. TypeOK /\ SetInv /\ BeginInv /\ FreshInv /\ ProvenInv /\ LostInv
    BY DEF IInv
  <1>1. ASSUME NEW v \in validations, ValidationResolved(v) PROVE Rest'
    <2>1. v \in Validation
      BY <1>0, <1>1 DEF TypeOK
    <2>2. ASSUME NEW w \in validations'
          PROVE  w \in validations \/ (w.generation = v.generation /\ w.fresh = v.fresh)
      <3> DEFINE x == [v EXCEPT !.phase = "check", !.same = (stored = v.record)]
      <3>1. x.generation = v.generation /\ x.fresh = v.fresh
        BY <2>1 DEF Validation
      <3> HIDE DEF x
      <3>2. validations' = (validations \ {v}) \cup {x} \/ validations' = validations \ {v}
        BY <1>1 DEF ValidationResolved, x
      <3> QED
        BY <2>2, <3>1, <3>2
    <2>3. FreshInv'
      BY <1>0, <1>1, <2>2 DEF ValidationResolved, FreshInv
    <2>4. SetInv' /\ ProvenInv' /\ LostInv' /\ BeginInv'
      BY <1>0, <1>1 DEF ValidationResolved, SetInv, ProvenInv, LostInv, BeginInv
    <2> QED
      BY <2>3, <2>4 DEF Rest
  <1>2. ASSUME NEW v \in validations, ValidationFailed(v) PROVE Rest'
    <2>1. CASE validations' = validations \ {v} /\ UNCHANGED <<generation, blocked, retryRequired, proven, lost>>
      BY <1>0, <1>2, <2>1 DEF ValidationFailed, Rest, FreshInv, SetInv, ProvenInv, LostInv, BeginInv
    <2>2. ASSUME NEW p \in Proof, Invalidate(p = "lost"), validations' = Stale(validations \ {v}) PROVE Rest'
      <3>1. validations \ {v} \in SUBSET Validation
        BY <1>0 DEF TypeOK
      <3>2. \A x \in validations' : \E w \in validations : x.generation = w.generation
        BY <2>2, <3>1, StaleIs
      <3> QED
        BY <1>2, <2>2, <3>2, InvalidateRest DEF ValidationFailed
    <2> QED
      BY <1>2, <2>1, <2>2 DEF ValidationFailed
  <1>3. ASSUME NEW v \in validations, ValidationChecked(v) PROVE Rest'
    <2>1. blocked => blocked'
      BY <1>3 DEF ValidationChecked
    <2>2. FreshInv' /\ SetInv' /\ LostInv' /\ BeginInv'
      BY <1>0, <1>3, <2>1 DEF ValidationChecked, FreshInv, SetInv, LostInv, BeginInv
    <2>3. IsCurrent(v) => v.fresh
      BY <1>0, <1>3 DEF FreshInv, IsCurrent
    <2>4. ProvenInv'
      BY <1>0, <1>3, <2>1, <2>3 DEF ValidationChecked, ProvenInv
    <2> QED
      BY <2>2, <2>4 DEF Rest
  <1>4. CASE ProbeFails
    <2>1. PICK p \in Proof : Invalidate(p = "lost")
      BY <1>4 DEF ProbeFails
    <2>2. \A x \in validations' : \E w \in validations : x.generation = w.generation
      BY <1>0, <1>4, StaleIs DEF ProbeFails, TypeOK
    <2> QED
      BY <1>4, <2>1, <2>2, InvalidateRest DEF ProbeFails
  <1> QED
    BY <1>1, <1>2, <1>3, <1>4 DEF Validate

LEMMA OutsideRest == IInv /\ (OtherWrites \/ Restart) => Rest'
  <1> SUFFICES ASSUME IInv, OtherWrites \/ Restart PROVE Rest'
    OBVIOUS
  <1> USE DEF memory, history
  <1>1. CASE OtherWrites
    BY <1>1 DEF OtherWrites, IInv, Rest, SetInv, BeginInv, FreshInv, ProvenInv, LostInv
  <1>2. CASE Restart
    BY <1>2, IdleIs DEF Restart, Rest, SetInv, BeginInv, FreshInv, ProvenInv, LostInv, Ready
  <1> QED
    BY <1>1, <1>2

\* The inductive invariant holds in every reachable state.
LEMMA Invariance == Spec => []IInv
  <1>1. IInv /\ UNCHANGED vars => Rest'
    BY DEF IInv, Rest, SetInv, BeginInv, FreshInv, ProvenInv, LostInv, vars, memory, history
  <1>2. IInv /\ [Next]_vars => IInv'
    BY <1>1, TypeStep, LoadRest, SetRest, BeginRest, ReadRest, ValidateRest, OutsideRest DEF Next, IInv, Rest
  <1> QED
    BY <1>2, InitInv, PTL DEF Spec

\* The variables keep their types.
THEOREM TypeCorrect == Spec => []TypeOK
  <1>1. IInv => TypeOK
    BY DEF IInv
  <1> QED
    BY <1>1, Invariance, PTL

\* The gate is open only on an answer to a question asked after the latest
\* invalidation, however many validations are under way.
THEOREM OnlyFreshProofOpensHolds == Spec => []OnlyFreshProofOpens
  <1>1. IInv => OnlyFreshProofOpens
    BY DEF IInv, ProvenInv, OnlyFreshProofOpens, GateOpen
  <1> QED
    BY <1>1, Invariance, PTL

\* No answer that arrives after a confirmed loss opens the gate again.
THEOREM LossIsFinalHolds == Spec => []LossIsFinal
  <1>1. IInv => LossIsFinal
    BY DEF IInv, LostInv, LossIsFinal, GateOpen
  <1> QED
    BY <1>1, Invariance, PTL
-----------------------------------------------------------------------------
(* The scope dispatch uses is the one on disk and the one the user means.  *)

\* What a runtime holds is never ahead of the disk, and a frozen record on
\* disk is the last one.
Behind(r) ==
  r # NoRecord =>
    /\ stored # NoRecord
    /\ r.revision <= stored.revision
    /\ r.revision = stored.revision \/ r.locked => r = stored

BehindInv ==
  /\ Behind(record)
  /\ Behind(loaded.read)
  /\ Saved => Behind(saving.next)

\* A record is written only over an unfrozen one, by the call that waits for it.
SaveInv ==
  /\ loaded.state # "loading" => loaded.read = NoRecord
  /\ setting.pc \notin {"idle", "load"} => loaded.state = "yes" /\ ~ Locked(record)
  /\ saving # NoSave =>
       /\ ~ Locked(record) /\ loaded.state = "yes"
       /\ beginning = "lock" \/ setting.pc \in {"tombstone", "ready", "retract"}
       /\ saving.status = "issued" =>
            saving.next.revision = IF record = NoRecord THEN 1 ELSE record.revision + 1

\* What each of these calls writes: a frozen record with a selection is only
\* ever written by begin.
WriteInv ==
  /\ beginning = "lock" => saving.next.locked
  /\ setting.pc \in {"tombstone", "ready", "retract"} => saving # NoSave
  /\ setting.pc \in {"tombstone", "ready"} => ~ saving.next.locked
  /\ setting.pc \in {"tombstone", "retract"} => saving.next.scope = Chat
  /\ setting.pc = "ready" => saving.next.scope = setting.scope

\* A set call that nothing overtook selects what the user asked for last.
AskedInv ==
  pending =>
    /\ claimed => blocked
    /\ setting.generation <= generation
    /\ generation = setting.generation /\ ~ Locked(stored) => intent = setting.scope

\* A draft that is open, the write that freezes it, and the frozen record all
\* hold that selection, unless another runtime has replaced the draft.
DraftInv ==
  Ready(record) /\ ~ blocked /\ ~ pending /\ record.scope # Chat /\ record = stored =>
    record.scope = intent

LockInv ==
  beginning = "lock" /\ saving.status = "issued" /\ saving.next.scope # Chat /\ stored = record =>
    saving.next.scope = intent

FrozenInv == Locked(stored) /\ stored.scope # Chat => stored.scope = intent

ChosenInv ==
  BehindInv /\ SaveInv /\ WriteInv /\ AskedInv /\ DraftInv /\ LockInv /\ FrozenInv

\* A write that replaces the record on disk replaces the one this runtime
\* holds, and that one is not frozen.
LEMMA ReplacesIs ==
  ASSUME TypeOK, BehindInv, SaveInv, saving # NoSave, saving.status = "issued", Replaces(saving.next)
  PROVE  stored = record /\ ~ Locked(stored)
  <1>1. /\ saving.next.revision = IF record = NoRecord THEN 1 ELSE record.revision + 1
        /\ saving.next.revision = IF stored = NoRecord THEN 1 ELSE stored.revision + 1
        /\ ~ Locked(record)
    BY DEF SaveInv, Replaces
  <1>2. /\ record # NoRecord => record.revision \in Nat \ {0}
        /\ stored # NoRecord => stored.revision \in Nat \ {0}
    BY DEF TypeOK, Record
  <1>3. stored = record
    <2>1. CASE record = NoRecord
      BY <1>1, <1>2, <2>1
    <2>2. CASE record # NoRecord
      BY <1>1, <1>2, <2>2 DEF BehindInv, Behind
    <2> QED
      BY <2>1, <2>2
  <1> QED
    BY <1>1, <1>3

\* The write in flight is frozen only with what the user asked for.
LEMMA IssuedIs ==
  ASSUME IInv, ChosenInv, saving # NoSave, saving.status = "issued", Replaces(saving.next)
  PROVE  Locked(saving.next) /\ saving.next.scope # Chat => saving.next.scope = intent
  <1>1. stored = record
    BY ReplacesIs DEF IInv, ChosenInv
  <1> QED
    BY <1>1 DEF ChosenInv, SaveInv, WriteInv, LockInv, Locked

\* A later revision on disk leaves what is held behind it.
LEMMA StillBehind ==
  ASSUME TypeOK, NEW r \in Record \cup {NoRecord}, Behind(r), ~ Locked(stored),
         stored' \in Record, stored'.revision = IF stored = NoRecord THEN 1 ELSE stored.revision + 1
  PROVE  Behind(r)' /\ (r # NoRecord => r # stored')
  <1>1. /\ r # NoRecord => r.revision \in Nat \ {0}
        /\ stored # NoRecord => stored.revision \in Nat \ {0}
    BY DEF TypeOK, Record
  <1>2. stored' # NoRecord
    BY AbsentValues
  <1> QED
    BY <1>1, <1>2 DEF Behind, Locked

\* A step that writes nothing and only closes the scope keeps all of it.
LEMMA QuietChosen ==
  ASSUME IInv, ChosenInv,
         UNCHANGED <<stored, saving, record, loaded, setting, pending, intent>>,
         beginning = "lock" <=> beginning' = "lock",
         blocked => blocked', generation' \in Nat, generation <= generation',
         pending /\ claimed' => blocked'
  PROVE  ChosenInv'
  <1>1. BehindInv'
    BY DEF ChosenInv, BehindInv, Behind, Saved
  <1>2. SaveInv' /\ WriteInv'
    BY DEF ChosenInv, SaveInv, WriteInv, Locked
  <1>3. AskedInv'
    <2>1. generation \in Nat /\ setting.generation \in Nat
      BY DEF IInv, TypeOK, SetCall
    <2> QED
      BY <2>1 DEF ChosenInv, AskedInv, Locked
  <1>4. DraftInv' /\ LockInv' /\ FrozenInv'
    BY DEF ChosenInv, DraftInv, LockInv, FrozenInv, Ready, Locked
  <1> QED
    BY <1>1, <1>2, <1>3, <1>4 DEF ChosenInv

LEMMA InitChosen == Init => ChosenInv
  BY DEF Init, ChosenInv, BehindInv, Behind, Saved, SaveInv, WriteInv, AskedInv, DraftInv, LockInv,
     FrozenInv, Ready, Locked, Idle

LEMMA LoadChosen == IInv /\ ChosenInv /\ (LoadRead \/ LoadDone \/ SaveEffect) => ChosenInv'
  <1> SUFFICES ASSUME IInv, ChosenInv, LoadRead \/ LoadDone \/ SaveEffect PROVE ChosenInv'
    OBVIOUS
  <1> USE DEF memory, history
  <1>0. TypeOK /\ BehindInv /\ SaveInv /\ WriteInv /\ AskedInv /\ DraftInv /\ LockInv /\ FrozenInv
    BY DEF IInv, ChosenInv
  <1>1. CASE LoadRead
    <2>1. loaded' \in Loading /\ loaded'.state # "yes" /\ loaded'.read \in {stored, NoRecord}
          /\ (loaded'.state # "loading" => loaded'.read = NoRecord)
      BY <1>0, <1>1 DEF LoadRead, TypeOK, Loading
    <2>2. Behind(stored)
      BY <1>0 DEF Behind, TypeOK, Record
    <2>3. BehindInv'
      BY <1>0, <1>1, <2>1, <2>2 DEF LoadRead, BehindInv, Behind, Saved
    <2>4. saving = NoSave /\ setting.pc \in {"idle", "load"} /\ loaded.state # "yes"
      BY <1>0, <1>1 DEF LoadRead, SaveInv, TypeOK, SetCall
    <2>5. SaveInv' /\ WriteInv'
      BY <1>0, <1>1, <2>1, <2>4 DEF LoadRead, SaveInv, WriteInv
    <2>6. AskedInv' /\ DraftInv' /\ LockInv' /\ FrozenInv'
      BY <1>0, <1>1 DEF LoadRead, AskedInv, DraftInv, LockInv, FrozenInv, Ready, Locked
    <2> QED
      BY <2>3, <2>5, <2>6 DEF ChosenInv
  <1>2. CASE LoadDone
    <2>1. loaded' = [state |-> "yes", read |-> NoRecord] /\ record' = loaded.read
      BY <1>2 DEF LoadDone
    <2>2. saving = NoSave /\ setting.pc \in {"idle", "load"}
      BY <1>0, <1>2 DEF LoadDone, SaveInv, TypeOK, SetCall
    <2>3. BehindInv'
      BY <1>0, <1>2, <2>1 DEF LoadDone, BehindInv, Behind, Saved
    <2>4. SaveInv' /\ WriteInv'
      BY <1>0, <1>2, <2>1, <2>2 DEF LoadDone, SaveInv, WriteInv
    <2>5. DraftInv'
      BY <1>0, <1>2, <2>1 DEF LoadDone, DraftInv, FrozenInv, IsDraft, Locked, Ready
    <2>6. beginning # "lock"
      BY <1>2 DEF LoadDone, IInv, BeginInv
    <2>7. AskedInv' /\ LockInv' /\ FrozenInv'
      BY <1>0, <1>2, <2>6 DEF LoadDone, AskedInv, LockInv, FrozenInv, Locked
    <2> QED
      BY <2>3, <2>4, <2>5, <2>7 DEF ChosenInv
  <1>3. CASE SaveEffect
    <2>1. saving \in Saving /\ saving.next \in Record /\ saving # NoSave /\ saving.status = "issued"
      BY <1>0, <1>3 DEF TypeOK, SaveEffect, Saving
    <2>2. saving' \in Saving /\ saving' # NoSave /\ saving'.next = saving.next /\ saving'.status \in {"done", "failed"}
      BY <1>3, <2>1, AbsentValues DEF SaveEffect, Saving
    <2>3. SaveInv' /\ WriteInv'
      BY <1>0, <1>3, <2>1, <2>2 DEF SaveEffect, SaveInv, WriteInv
    <2>4. LockInv'
      BY <2>2 DEF LockInv
    <2>5. CASE UNCHANGED stored /\ saving'.status = "failed"
      <3>1. BehindInv'
        BY <1>0, <1>3, <2>5 DEF SaveEffect, BehindInv, Behind, Saved
      <3>2. AskedInv' /\ DraftInv' /\ FrozenInv'
        BY <1>0, <1>3, <2>5 DEF SaveEffect, AskedInv, DraftInv, FrozenInv
      <3> QED
        BY <2>3, <2>4, <3>1, <3>2 DEF ChosenInv
    <2>6. CASE Replaces(saving.next) /\ stored' = saving.next
      <3>1. stored = record /\ ~ Locked(stored)
        BY <1>0, <2>1, <2>6, ReplacesIs
      <3>2. stored' \in Record /\ stored'.revision = IF stored = NoRecord THEN 1 ELSE stored.revision + 1
        BY <2>1, <2>6 DEF Replaces
      <3>3. record \in Record \cup {NoRecord} /\ loaded.read \in Record \cup {NoRecord}
        BY <1>0 DEF TypeOK, Loading
      <3>4. Behind(record)' /\ Behind(loaded.read)' /\ (record # NoRecord => record # stored')
        BY <1>0, <1>3, <3>1, <3>2, <3>3, StillBehind DEF SaveEffect, BehindInv, Behind
      <3>5. Behind(saving.next)'
        BY <2>1, <2>2, <2>6, AbsentValues DEF Behind, Record
      <3>6. DraftInv'
        BY <1>3, <3>4 DEF SaveEffect, DraftInv, Ready
      <3>7. FrozenInv'
        BY <1>3, <2>1, <2>6, IssuedIs DEF SaveEffect, FrozenInv, Locked
      <3>8. AskedInv'
        BY <1>0, <1>3, <3>1 DEF SaveEffect, AskedInv
      <3> QED
        BY <2>3, <2>4, <3>4, <3>5, <3>6, <3>7, <3>8 DEF ChosenInv, BehindInv
    <2> QED
      BY <1>3, <2>1, <2>2, <2>5, <2>6 DEF SaveEffect, Saving
  <1> QED
    BY <1>1, <1>2, <1>3

LEMMA OutsideChosen == IInv /\ ChosenInv /\ (OtherWrites \/ Restart) => ChosenInv'
  <1> SUFFICES ASSUME IInv, ChosenInv, OtherWrites \/ Restart PROVE ChosenInv'
    OBVIOUS
  <1> USE DEF memory, history
  <1>0. TypeOK /\ BehindInv /\ SaveInv /\ WriteInv /\ AskedInv /\ DraftInv /\ LockInv /\ FrozenInv
    BY DEF IInv, ChosenInv
  <1>1. CASE OtherWrites
    <2>1. /\ stored' \in Record
          /\ stored'.revision = IF stored = NoRecord THEN 1 ELSE stored.revision + 1
          /\ Locked(stored') => intent' = stored'.scope
          /\ pending => intent' = intent \/ Locked(stored')
      <3>1. PICK next \in [revision : {IF stored = NoRecord THEN 1 ELSE stored.revision + 1},
                           state : {"ready", "needs_selection"}, locked : BOOLEAN, scope : Scope],
                 asked \in Scope :
                   stored' = next /\ intent' = IF next.locked THEN next.scope
                                               ELSE IF pending THEN intent
                                               ELSE IF next.state = "ready" THEN next.scope ELSE asked
        BY <1>1 DEF OtherWrites
      <3>2. stored # NoRecord => stored.revision \in Nat
        BY <1>0 DEF TypeOK, Record
      <3>3. next \in Record /\ next.revision = IF stored = NoRecord THEN 1 ELSE stored.revision + 1
        BY <3>2 DEF Record
      <3> QED
        BY <3>1, <3>3, AbsentValues DEF Locked
    <2>2. ~ Locked(stored)
      BY <1>1 DEF OtherWrites
    <2>3. record \in Record \cup {NoRecord} /\ loaded.read \in Record \cup {NoRecord}
          /\ (saving # NoSave => saving.next \in Record)
      BY <1>0 DEF TypeOK, Loading, Saving
    <2>4. Behind(record)' /\ Behind(loaded.read)' /\ (record # NoRecord => record # stored')
      BY <1>0, <1>1, <2>1, <2>2, <2>3, StillBehind DEF OtherWrites, BehindInv, Behind
    <2>5. Saved' => Behind(saving.next)'
      BY <1>0, <1>1, <2>1, <2>2, <2>3, StillBehind DEF OtherWrites, BehindInv, Behind, Saved
    <2>6. SaveInv' /\ WriteInv'
      BY <1>0, <1>1 DEF OtherWrites, SaveInv, WriteInv
    <2>7. AskedInv' /\ FrozenInv'
      BY <1>0, <1>1, <2>1, <2>2 DEF OtherWrites, AskedInv, FrozenInv
    <2>8. DraftInv' /\ LockInv'
      <3>1. stored' # record
        BY <2>1, <2>4, AbsentValues
      <3> QED
        BY <1>1, <3>1 DEF OtherWrites, DraftInv, LockInv
    <2> QED
      BY <2>4, <2>5, <2>6, <2>7, <2>8 DEF ChosenInv, BehindInv
  <1>2. CASE Restart
    <2>1. FrozenInv'
      <3>1. CASE stored' = stored
        BY <1>0, <1>2, <3>1 DEF Restart, FrozenInv, Locked
      <3>2. CASE saving # NoSave /\ saving.status = "issued" /\ Replaces(saving.next) /\ stored' = saving.next
        BY <1>2, <3>2, IssuedIs DEF Restart, FrozenInv, Locked
      <3> QED
        BY <1>2, <3>1, <3>2 DEF Restart
    <2>2. BehindInv' /\ SaveInv' /\ WriteInv' /\ AskedInv' /\ DraftInv' /\ LockInv'
      BY <1>2, IdleIs DEF Restart, BehindInv, Behind, Saved, SaveInv, WriteInv, AskedInv, DraftInv, LockInv, Ready
    <2> QED
      BY <2>1, <2>2 DEF ChosenInv
  <1> QED
    BY <1>1, <1>2

LEMMA BeginChosen == IInv /\ ChosenInv /\ (Begin \/ MarkStarted) => ChosenInv'
  <1> SUFFICES ASSUME IInv, ChosenInv, Begin \/ MarkStarted PROVE ChosenInv'
    OBVIOUS
  <1> USE DEF memory, history
  <1>0. /\ TypeOK /\ SetInv /\ BeginInv /\ generation \in Nat
        /\ BehindInv /\ SaveInv /\ WriteInv /\ AskedInv /\ DraftInv /\ LockInv /\ FrozenInv
    BY DEF IInv, ChosenInv, TypeOK
  <1>1. CASE MarkStarted
    <2>1. (pending /\ claimed' => blocked') /\ (blocked => blocked')
      BY <1>1 DEF MarkStarted
    <2>2. generation' = generation \/ generation' = generation + 1
      BY <1>1 DEF MarkStarted
    <2>3. generation' \in Nat /\ generation <= generation'
      BY <1>0, <2>2
    <2> QED
      BY <1>1, <2>1, <2>3, QuietChosen DEF MarkStarted
  <1>2. ASSUME NEW scope \in Scope, Save("ready", TRUE, scope), beginning # "lock", beginning' = "lock",
               record = NoRecord \/ Ready(record), claimed, ~ pending, loaded.state = "yes",
               ~ Locked(record), ~ blocked',
               UNCHANGED <<stored, record, loaded, generation, pending, setting, intent>>,
               blocked => blocked', scope = IF record = NoRecord THEN Chat ELSE record.scope
        PROVE  ChosenInv'
    <2>1. saving' # NoSave /\ saving'.next.scope = scope
      BY <1>0, <1>2, SaveIs
    <2>2. /\ saving'.status = "issued"
          /\ saving'.next.locked
          /\ saving'.next.revision = IF record = NoRecord THEN 1 ELSE record.revision + 1
      BY <1>2 DEF Save
    <2>3. setting.pc = "idle"
      BY <1>0, <1>2 DEF SetInv
    <2>4. SaveInv' /\ WriteInv'
      BY <1>0, <1>2, <2>1, <2>2, <2>3 DEF SaveInv, WriteInv, Locked
    <2>5. BehindInv'
      BY <1>0, <1>2, <2>2 DEF BehindInv, Behind, Saved
    <2>6. LockInv'
      BY <1>0, <1>2, <2>1 DEF LockInv, DraftInv
    <2>7. AskedInv' /\ DraftInv' /\ FrozenInv'
      BY <1>0, <1>2 DEF AskedInv, DraftInv, FrozenInv
    <2> QED
      BY <2>4, <2>5, <2>6, <2>7 DEF ChosenInv
  <1>3. CASE BeginStart
    <2>1. CASE UNCHANGED saving /\ beginning' # "lock"
      <3>1. blocked => blocked'
        BY <1>3 DEF BeginStart
      <3>2. pending /\ claimed' => blocked'
        BY <1>0, <1>3, <3>1 DEF BeginStart, AskedInv
      <3>3. beginning # "lock" /\ generation <= generation
        BY <1>0, <1>3 DEF BeginStart
      <3> QED
        BY <1>0, <1>3, <2>1, <3>1, <3>2, <3>3, QuietChosen DEF BeginStart
    <2>2. CASE ~ pending /\ ~ blocked' /\ record = NoRecord /\ Save("ready", TRUE, Chat) /\ beginning' = "lock"
      <3>1. Chat \in Scope /\ ~ Locked(record)
        BY <2>2 DEF Scope, Locked
      <3> QED
        BY <1>2, <1>3, <2>2, <3>1 DEF BeginStart
    <2> QED
      BY <1>3, <2>1, <2>2 DEF BeginStart
  <1>4. CASE BeginChecked
    <2>1. Ready(record) /\ claimed /\ ~ pending /\ loaded.state = "yes" /\ record.scope \in Scope /\ record # NoRecord
      BY <1>0, <1>4 DEF BeginChecked, BeginInv, TypeOK, Record, Ready
    <2>2. blocked => blocked'
      BY <1>4 DEF BeginChecked
    <2>3. CASE UNCHANGED saving /\ beginning' # "lock"
      BY <1>0, <1>4, <2>1, <2>2, <2>3, QuietChosen DEF BeginChecked
    <2>4. CASE ~ blocked' /\ ~ record.locked /\ Save("ready", TRUE, record.scope) /\ beginning' = "lock"
      <3>1. ~ Locked(record)
        BY <2>4 DEF Locked
      <3> QED
        BY <1>2, <1>4, <2>1, <2>2, <2>4, <3>1 DEF BeginChecked
    <2> QED
      BY <1>4, <2>3, <2>4 DEF BeginChecked
  <1>5. CASE BeginLocked
    <2>1. claimed /\ ~ pending /\ loaded.state = "yes" /\ saving.next.locked /\ saving # NoSave /\ setting.pc = "idle"
      BY <1>0, <1>5 DEF BeginLocked, BeginInv, WriteInv, SetInv
    <2>2. saving' = NoSave /\ beginning' # "lock" /\ UNCHANGED <<stored, loaded, setting, pending, generation, claimed, intent>>
      BY <1>5 DEF BeginLocked
    <2>3. SaveInv' /\ WriteInv' /\ AskedInv' /\ LockInv' /\ FrozenInv'
      BY <1>0, <2>1, <2>2 DEF SaveInv, WriteInv, AskedInv, LockInv, FrozenInv
    <2>4. CASE Saved /\ record' = saving.next
      <3>1. BehindInv'
        BY <1>0, <2>2, <2>4 DEF BehindInv, Behind, Saved
      <3>2. DraftInv'
        BY <1>0, <2>1, <2>2, <2>4 DEF DraftInv, FrozenInv, Locked, Ready
      <3> QED
        BY <2>3, <3>1, <3>2 DEF ChosenInv
    <2>5. CASE blocked' = TRUE /\ UNCHANGED record
      <3>1. BehindInv' /\ DraftInv'
        BY <1>0, <2>2, <2>5 DEF BehindInv, Behind, Saved, DraftInv
      <3> QED
        BY <2>3, <3>1 DEF ChosenInv
    <2> QED
      BY <1>5, <2>4, <2>5 DEF BeginLocked
  <1>6. CASE BeginValidates
    BY <1>0, <1>6, QuietChosen DEF BeginValidates, BeginInv
  <1> QED
    BY <1>1, <1>3, <1>4, <1>5, <1>6 DEF Begin

LEMMA ReadChosen == IInv /\ ChosenInv /\ (Read \/ ReadChecked \/ Restore) => ChosenInv'
  <1> SUFFICES ASSUME IInv, ChosenInv, Read \/ ReadChecked \/ Restore PROVE ChosenInv'
    OBVIOUS
  <1> USE DEF memory, history
  <1>0. generation \in Nat /\ generation <= generation /\ (pending /\ claimed => blocked)
    BY DEF IInv, TypeOK, ChosenInv, AskedInv
  <1>1. CASE Read
    BY <1>0, <1>1, QuietChosen DEF Read
  <1>2. CASE ReadChecked
    <2>1. blocked => blocked'
      BY <1>2 DEF ReadChecked
    <2> QED
      BY <1>0, <1>2, <2>1, QuietChosen DEF ReadChecked
  <1>3. CASE Restore
    <2>1. generation' = generation \/ generation' = generation + 1
      BY <1>3 DEF Restore
    <2>2. generation' \in Nat /\ generation <= generation'
      BY <1>0, <2>1
    <2> QED
      BY <1>3, <2>2, QuietChosen DEF Restore
  <1> QED
    BY <1>1, <1>2, <1>3

LEMMA ValidateChosen == IInv /\ ChosenInv /\ (Validate \/ ProbeFails) => ChosenInv'
  <1> SUFFICES ASSUME IInv, ChosenInv, Validate \/ ProbeFails PROVE ChosenInv'
    OBVIOUS
  <1> USE DEF memory, history
  <1>0. generation \in Nat /\ generation <= generation /\ (pending /\ claimed => blocked)
    BY DEF IInv, TypeOK, ChosenInv, AskedInv
  <1>1. ASSUME NEW d, Invalidate(d)
        PROVE  (blocked => blocked') /\ generation' \in Nat /\ generation <= generation'
    <2>1. generation' = generation + 1 /\ (blocked => blocked')
      BY <1>1 DEF Invalidate
    <2> QED
      BY <1>0, <2>1
  <1>2. ASSUME NEW v \in validations, ValidationResolved(v) PROVE ChosenInv'
    BY <1>0, <1>2, QuietChosen DEF ValidationResolved
  <1>3. ASSUME NEW v \in validations, ValidationFailed(v) PROVE ChosenInv'
    <2>1. (blocked => blocked') /\ generation' \in Nat /\ generation <= generation'
      BY <1>0, <1>1, <1>3 DEF ValidationFailed
    <2> QED
      BY <1>0, <1>3, <2>1, QuietChosen DEF ValidationFailed
  <1>4. ASSUME NEW v \in validations, ValidationChecked(v) PROVE ChosenInv'
    <2>1. blocked => blocked'
      BY <1>4 DEF ValidationChecked
    <2> QED
      BY <1>0, <1>4, <2>1, QuietChosen DEF ValidationChecked
  <1>5. CASE ProbeFails
    <2>1. (blocked => blocked') /\ generation' \in Nat /\ generation <= generation'
      BY <1>1, <1>5 DEF ProbeFails
    <2> QED
      BY <1>0, <1>5, <2>1, QuietChosen DEF ProbeFails
  <1> QED
    BY <1>2, <1>3, <1>4, <1>5 DEF Validate

LEMMA SetChosen == IInv /\ ChosenInv /\ Set => ChosenInv'
  <1> SUFFICES ASSUME IInv, ChosenInv, Set PROVE ChosenInv'
    OBVIOUS
  <1> USE DEF memory, history
  <1>0. /\ TypeOK /\ SetInv /\ BeginInv /\ generation \in Nat /\ setting \in SetCall /\ setting.generation \in Nat
        /\ BehindInv /\ SaveInv /\ WriteInv /\ AskedInv /\ DraftInv /\ LockInv /\ FrozenInv
    BY DEF IInv, ChosenInv, TypeOK, SetCall
  <1>a. pending => beginning # "lock"
    BY <1>0 DEF BeginInv
  <1>b. SetEnds => pending' = FALSE /\ setting'.pc = "idle"
    BY IdleIs DEF SetEnds
  <1>1. ASSUME NEW scope \in Scope, SetCollides(scope) \/ SetStart(scope) PROVE ChosenInv'
    <2>1. ~ claimed /\ ~ Locked(record) /\ generation' = generation + 1 /\ intent' = Asked(scope) /\ beginning # "lock"
      BY <1>0, <1>1 DEF SetCollides, SetStart, CanSet, BeginInv
    <2>2. FrozenInv'
      BY <1>0, <1>1, <2>1 DEF SetCollides, SetStart, Asked, FrozenInv, Locked
    <2>3. BehindInv' /\ LockInv'
      BY <1>0, <1>1, <2>1 DEF SetCollides, SetStart, BehindInv, Behind, Saved, LockInv
    <2>4. CASE SetCollides(scope)
      <3>1. AskedInv'
        BY <1>0, <2>1, <2>4 DEF SetCollides, AskedInv
      <3>2. SaveInv' /\ WriteInv' /\ DraftInv'
        BY <1>0, <2>4 DEF SetCollides, SaveInv, WriteInv, DraftInv
      <3> QED
        BY <2>2, <2>3, <3>1, <3>2 DEF ChosenInv
    <2>5. CASE SetStart(scope)
      <3>1. setting'.pc = "load" /\ setting'.scope = scope /\ setting'.generation = generation + 1
            /\ setting.pc = "idle" /\ saving = NoSave
        BY <1>0, <2>1, <2>5 DEF SetStart, SetInv, SaveInv
      <3>2. AskedInv'
        BY <1>0, <2>1, <2>5, <3>1 DEF SetStart, AskedInv, Asked, Locked
      <3>3. SaveInv' /\ WriteInv' /\ DraftInv'
        BY <1>0, <2>1, <2>5, <3>1 DEF SetStart, SaveInv, WriteInv, DraftInv
      <3> QED
        BY <2>2, <2>3, <3>2, <3>3 DEF ChosenInv
    <2> QED
      BY <1>1, <2>4, <2>5
  <1>2. CASE SetLocked
    <2>1. saving = NoSave
      BY <1>0, <1>2, <1>a DEF SetLocked, SaveInv, SetInv
    <2>2. BehindInv' /\ SaveInv' /\ WriteInv' /\ AskedInv' /\ LockInv' /\ FrozenInv'
      BY <1>0, <1>2, <1>a, <1>b, <2>1 DEF SetLocked, SetInv, BehindInv, Behind, Saved, SaveInv, WriteInv, AskedInv,
         LockInv, FrozenInv, Locked
    <2>3. DraftInv'
      BY <1>0, <1>2 DEF SetLocked, SetInv, DraftInv, AskedInv, FrozenInv, Locked, Ready, CanSet
    <2> QED
      BY <2>2, <2>3 DEF ChosenInv
  <1>3. ASSUME NEW state \in {"ready", "needs_selection"}, NEW scope \in Scope, Save(state, FALSE, scope),
               UNCHANGED <<stored, record, loaded, generation, pending, claimed, intent, beginning>>,
               pending, blocked', loaded.state = "yes", ~ Locked(record),
               setting'.generation = setting.generation, setting'.scope = setting.scope,
               setting'.pc \in {"tombstone", "ready"},
               scope = IF setting'.pc = "ready" THEN setting.scope ELSE Chat
        PROVE  ChosenInv'
    <2>1. saving' # NoSave /\ saving'.next.scope = scope
      BY <1>0, <1>3, SaveIs
    <2>2. /\ saving'.status = "issued"
          /\ ~ saving'.next.locked
          /\ saving'.next.revision = IF record = NoRecord THEN 1 ELSE record.revision + 1
      BY <1>3 DEF Save
    <2>3. SaveInv' /\ WriteInv'
      BY <1>0, <1>3, <1>a, <2>1, <2>2 DEF SaveInv, WriteInv, Locked
    <2>4. BehindInv' /\ LockInv'
      BY <1>0, <1>3, <1>a, <2>2 DEF BehindInv, Behind, Saved, LockInv
    <2>5. AskedInv' /\ DraftInv' /\ FrozenInv'
      BY <1>0, <1>3 DEF AskedInv, DraftInv, FrozenInv, Locked
    <2> QED
      BY <2>3, <2>4, <2>5 DEF ChosenInv
  <1>4. CASE SetWithdraws
    <2>1. Save("needs_selection", FALSE, Chat) /\ ~ Locked(record) /\ blocked' /\ Chat \in Scope
      BY <1>4 DEF SetWithdraws, Tombstone, CanSet, Scope
    <2>2. setting'.pc = "tombstone" /\ setting'.generation = setting.generation /\ setting'.scope = setting.scope /\ pending
      BY <1>0, <1>4 DEF SetWithdraws, SetCall, SetInv
    <2> QED
      BY <1>3, <1>4, <2>1, <2>2 DEF SetWithdraws
  \* Where the call ends, whatever it wrote.
  <1>5. ASSUME UNCHANGED <<stored, loaded, generation, beginning, intent>>, saving' = NoSave, setting'.pc = "idle",
               ~ pending', pending, BehindInv', DraftInv'
        PROVE  ChosenInv'
    <2>1. SaveInv' /\ WriteInv' /\ AskedInv' /\ LockInv' /\ FrozenInv'
      BY <1>0, <1>5, <1>a DEF SaveInv, WriteInv, AskedInv, LockInv, FrozenInv, Locked
    <2> QED
      BY <1>5, <2>1 DEF ChosenInv
  <1>6. CASE SetFails
    <2>1. pending
      BY <1>0, <1>6 DEF SetFails, SetInv
    <2>2. BehindInv' /\ DraftInv'
      BY <1>0, <1>6 DEF SetFails, BehindInv, Behind, Saved, DraftInv
    <2> QED
      BY <1>5, <1>6, <1>b, <2>1, <2>2 DEF SetFails
  <1>7. setting.pc \in {"tombstone", "resolve", "ready", "retract"} => pending /\ blocked /\ loaded.state = "yes" /\ ~ Locked(record)
    BY <1>0 DEF SetInv, SaveInv
  <1>8. ASSUME Saved, record' = saving.next, UNCHANGED <<stored, loaded>>, saving' = NoSave PROVE BehindInv'
    BY <1>0, <1>8 DEF BehindInv, Behind, Saved
  <1>9. CASE SetWithdrawn
    <2>1. BehindInv' /\ DraftInv'
      BY <1>7, <1>8, <1>9 DEF SetWithdrawn, DraftInv
    <2>2. CASE SetEnds
      BY <1>5, <1>7, <1>9, <1>b, <2>1, <2>2 DEF SetWithdrawn
    <2>3. CASE setting' = [setting EXCEPT !.pc = "resolve"] /\ UNCHANGED pending
      <3>1. setting'.pc = "resolve" /\ setting'.generation = setting.generation /\ setting'.scope = setting.scope
        BY <1>0, <2>3 DEF SetCall
      <3>2. ~ Locked(record')
        BY <1>0, <1>9 DEF SetWithdrawn, WriteInv, Locked
      <3>3. SaveInv' /\ WriteInv' /\ LockInv'
        BY <1>0, <1>7, <1>9, <1>a, <3>1, <3>2 DEF SetWithdrawn, SaveInv, WriteInv, LockInv, Locked
      <3>4. AskedInv' /\ FrozenInv'
        BY <1>0, <1>9, <2>3, <3>1 DEF SetWithdrawn, AskedInv, FrozenInv, Locked
      <3> QED
        BY <2>1, <3>3, <3>4 DEF ChosenInv
    <2> QED
      BY <1>9, <2>2, <2>3 DEF SetWithdrawn
  <1>10. CASE SetResolved
    <2>1. CASE SetEnds /\ UNCHANGED saving
      <3>1. saving = NoSave
        BY <1>0, <1>7, <1>10, <1>a DEF SetResolved, SaveInv
      <3>2. BehindInv' /\ DraftInv'
        BY <1>0, <1>7, <1>10, <2>1, <3>1 DEF SetResolved, BehindInv, Behind, Saved, DraftInv
      <3> QED
        BY <1>5, <1>7, <1>10, <1>b, <2>1, <3>1, <3>2 DEF SetResolved
    <2>2. CASE Save("ready", FALSE, setting.scope) /\ setting' = [setting EXCEPT !.pc = "ready"] /\ UNCHANGED pending
      <3>1. setting'.pc = "ready" /\ setting'.generation = setting.generation /\ setting'.scope = setting.scope
            /\ setting.scope \in Scope
        BY <1>0, <2>2 DEF SetCall
      <3> QED
        BY <1>3, <1>7, <1>10, <2>2, <3>1 DEF SetResolved
    <2> QED
      BY <1>10, <2>1, <2>2 DEF SetResolved
  <1>11. CASE SetConfirmed
    <2>1. record'.scope = setting.scope /\ ~ record'.locked /\ pending
      BY <1>0, <1>7, <1>11 DEF SetConfirmed, WriteInv
    <2>2. ~ Locked(stored) => intent = setting.scope
      BY <1>0, <1>11, <2>1 DEF SetConfirmed, SetIsCurrent, AskedInv
    <2>3. BehindInv' /\ DraftInv'
      BY <1>8, <1>11, <2>1, <2>2 DEF SetConfirmed, DraftInv, Locked
    <2> QED
      BY <1>5, <1>11, <1>b, <2>1, <2>3 DEF SetConfirmed
  <1>12. CASE SetRetracts
    <2>1. /\ Saved /\ record' = saving.next
          /\ saving'.status = "issued" /\ saving'.next.revision = saving.next.revision + 1 /\ saving'.next.scope = Chat
      BY <1>12 DEF SetRetracts
    <2>2. saving.next \in Record /\ ~ saving.next.locked
      BY <1>0, <1>12, SavedIs DEF SetRetracts, WriteInv
    <2>3. setting'.pc = "retract" /\ setting'.generation = setting.generation /\ setting'.scope = setting.scope
      BY <1>0, <1>12 DEF SetRetracts, SetCall
    <2>4. BehindInv'
      BY <1>0, <1>12, <2>1 DEF SetRetracts, BehindInv, Behind, Saved
    <2>5. saving' # NoSave
      <3>1. claimed \in BOOLEAN /\ saving.next.revision \in Nat
        BY <1>0, <2>2 DEF TypeOK, Record
      <3>2. saving' \in Saving
        BY <1>12, <3>1 DEF SetRetracts, Saving, Record, Scope
      <3> QED
        BY <3>2, AbsentValues
    <2>6. SaveInv' /\ WriteInv'
      BY <1>0, <1>7, <1>12, <1>a, <2>1, <2>2, <2>3, <2>5, AbsentValues DEF SetRetracts, SaveInv, WriteInv, Locked
    <2>7. AskedInv' /\ DraftInv' /\ LockInv' /\ FrozenInv'
      BY <1>0, <1>7, <1>12, <1>a, <2>3 DEF SetRetracts, AskedInv, DraftInv, LockInv, FrozenInv, Locked
    <2> QED
      BY <2>4, <2>6, <2>7 DEF ChosenInv
  <1>13. CASE SetRetracted
    <2>1. BehindInv' /\ DraftInv'
      BY <1>8, <1>13 DEF SetRetracted, DraftInv
    <2> QED
      BY <1>5, <1>7, <1>13, <1>b, <2>1 DEF SetRetracted
  <1> QED
    BY <1>1, <1>2, <1>4, <1>6, <1>9, <1>10, <1>11, <1>12, <1>13 DEF Set

LEMMA ChosenInvariance == Spec => [](IInv /\ ChosenInv)
  <1>1. IInv /\ ChosenInv /\ UNCHANGED vars => ChosenInv'
    BY DEF ChosenInv, BehindInv, Behind, Saved, SaveInv, WriteInv, AskedInv, DraftInv, LockInv, FrozenInv,
       Ready, Locked, vars, memory, history
  <1>2. IInv /\ ChosenInv /\ [Next]_vars => ChosenInv'
    BY <1>1, LoadChosen, SetChosen, BeginChosen, ReadChosen, ValidateChosen, OutsideChosen DEF Next
  <1> QED
    BY <1>2, InitChosen, Invariance, PTL DEF Spec

\* What dispatch uses is the frozen record on disk, whatever other runtimes
\* wrote meanwhile, and holds the selection the user asked for last, whatever
\* replacement failed, collided or was cut short by a restart.
THEOREM OpenScopeIsTheChosenOneHolds == Spec => []OpenScopeIsTheChosenOne
  <1>1. ASSUME ChosenInv, GateOpen PROVE stored = record /\ record.scope = intent
    <2>1. record # NoRecord /\ record.locked /\ record.scope # Chat
      BY <1>1 DEF GateOpen, Ready
    <2>2. stored = record
      BY <1>1, <2>1 DEF ChosenInv, BehindInv, Behind
    <2> QED
      BY <1>1, <2>1, <2>2 DEF ChosenInv, FrozenInv, Locked
  <1>2. ChosenInv => OpenScopeIsTheChosenOne
    BY <1>1 DEF OpenScopeIsTheChosenOne, OpenScopeIsDurable, OpenScopeIsIntended
  <1> QED
    BY <1>2, ChosenInvariance, PTL

-----------------------------------------------------------------------------
(* Business tools: folds over sequences.  FoldLeft is defined by a function  *)
(* on sets of positions; for steps that stay in a set V it has a value, and  *)
(* that is reached position by position.                                     *)

\* Induction over the natural numbers, for a set of them.
LEMMA Induction ==
  ASSUME NEW S, 0 \in S, \A n \in Nat : n \in S => n + 1 \in S
  PROVE  Nat \subseteq S
  <1> DEFINE T == Nat \ S
  <1> SUFFICES ASSUME T # {} PROVE FALSE
    OBVIOUS
  <1>1. PICK n \in T : \A m \in T : ~ (<<m, n>> \in OpToRel(<, Nat))
    <2>1. T \subseteq Nat
      OBVIOUS
    <2> HIDE DEF T
    <2> QED
      BY <2>1, NatLessThanWellFounded, WFMin
  <1>a. n \in Nat /\ n \notin S
    BY <1>1
  <1>b. n # 0
    BY <1>a
  <1>2. n \in Nat /\ n - 1 \in Nat /\ n - 1 < n
    BY <1>a, <1>b
  <1>3. n - 1 \in S
    BY <1>1, <1>2 DEF OpToRel
  <1>4. (n - 1) + 1 = n
    BY <1>2
  <1> QED
    BY <1>1, <1>2, <1>3, <1>4

\* The largest position of a set.
LEMMA MaxIs ==
  ASSUME NEW k \in Nat, NEW s \in SUBSET (1..(k + 1)), k + 1 \in s
  PROVE  Max(s) = k + 1
  <1>1. \A x, y \in s : x >= y /\ y >= x => x = y
    OBVIOUS
  <1>2. \A y \in s : k + 1 >= y
    OBVIOUS
  <1>3. (CHOOSE x \in s : \A y \in s : x >= y) \in s
        /\ \A y \in s : (CHOOSE x \in s : \A z \in s : x >= z) >= y
    BY <1>2
  <1> QED
    BY <1>1, <1>2, <1>3 DEF Max

\* iter solves the recursion behind a fold of n steps G that starts from base.
Solution(iter, base, G, n) ==
  \A s \in SUBSET (1..n) : iter[s] = IF s = {} THEN base ELSE G[<<iter[s \ {Max(s)}], Max(s)>>]

\* The recursion behind a fold over a sequence of length n, whose steps G stay
\* in V, has a solution with values in V.
LEMMA FoldExists ==
  ASSUME NEW V, NEW n \in Nat, NEW base \in V, NEW G \in [V \X (1..n) -> V]
  PROVE  \E iter \in [SUBSET (1..n) -> V] : Solution(iter, base, G, n)
  <1> DEFINE Solves(g, m) ==
               \A s \in SUBSET (1..m) : g[s] = IF s = {} THEN base ELSE G[<<g[s \ {Max(s)}], Max(s)>>]
             Solved(m) == \E iter \in [SUBSET (1..m) -> V] : Solves(iter, m)
             Good == {m \in Nat : m <= n => Solved(m)}
  <1>1. 0 \in Good
    <2>1. 1..0 = {} /\ SUBSET (1..0) = {{}}
      OBVIOUS
    <2> DEFINE g == [s \in SUBSET (1..0) |-> base]
    <2>2. g \in [SUBSET (1..0) -> V] /\ Solves(g, 0)
      BY <2>1
    <2> QED
      BY <2>2
  <1>2. ASSUME NEW m \in Nat, m \in Good PROVE m + 1 \in Good
    <2> SUFFICES ASSUME m + 1 <= n PROVE Solved(m + 1)
      <3> HIDE DEF Solved
      <3> QED
        OBVIOUS
    <2>a. m <= n /\ m + 1 \in 1..n
      OBVIOUS
    <2>1. PICK g \in [SUBSET (1..m) -> V] : Solves(g, m)
      BY <1>2, <2>a
    <2> DEFINE h == [s \in SUBSET (1..(m + 1)) |->
                       IF m + 1 \in s THEN G[<<g[s \ {m + 1}], m + 1>>] ELSE g[s]]
    <2>2. ASSUME NEW s \in SUBSET (1..(m + 1))
          PROVE  h[s] = (IF s = {} THEN base ELSE G[<<h[s \ {Max(s)}], Max(s)>>]) /\ h[s] \in V
      <3>1. CASE m + 1 \in s
        <4>1. Max(s) = m + 1 /\ s # {}
          BY <2>2, <3>1, MaxIs
        <4>2. s \ {m + 1} \in SUBSET (1..(m + 1)) /\ m + 1 \notin s \ {m + 1} /\ s \ {m + 1} \in SUBSET (1..m)
          BY <2>2
        <4>3. h[s \ {m + 1}] = g[s \ {m + 1}] /\ g[s \ {m + 1}] \in V
          BY <4>2
        <4>4. h[s] = G[<<g[s \ {m + 1}], m + 1>>]
          BY <2>2, <3>1
        <4>5. G[<<g[s \ {m + 1}], m + 1>>] \in V
          BY <4>3, <2>a
        <4> HIDE DEF h
        <4> QED
          BY <4>1, <4>3, <4>4, <4>5
      <3>2. CASE m + 1 \notin s
        <4>1. s \in SUBSET (1..m)
          BY <2>2, <3>2
        <4>2. h[s] = g[s] /\ g[s] \in V /\ g[s] = IF s = {} THEN base ELSE G[<<g[s \ {Max(s)}], Max(s)>>]
          BY <2>1, <2>2, <3>2, <4>1
        <4>3. h[s \ {Max(s)}] = g[s \ {Max(s)}]
          <5>1. s \ {Max(s)} \in SUBSET (1..(m + 1)) /\ m + 1 \notin s \ {Max(s)}
            BY <2>2, <3>2
          <5> QED
            BY <5>1
        <4> HIDE DEF h
        <4> QED
          BY <4>2, <4>3
      <3> QED
        BY <3>1, <3>2
    <2>3. Solves(h, m + 1)
      <3> HIDE DEF h
      <3> QED
        BY <2>2
    <2>4. h \in [SUBSET (1..(m + 1)) -> V]
      <3>1. h = [s \in SUBSET (1..(m + 1)) |-> h[s]]
        OBVIOUS
      <3> HIDE DEF h
      <3> QED
        BY <3>1, <2>2
    <2> HIDE DEF h, Solves
    <2> QED
      BY <2>3, <2>4
  <1> HIDE DEF Solved
  <1>3. Nat \subseteq Good
    BY <1>1, <1>2, Induction
  <1>4. Solved(n)
    <2>1. n <= n
      OBVIOUS
    <2> QED
      BY <1>3, <2>1
  <1> QED
    BY <1>4 DEF Solved, Solution

\* The same, as long as what it comes to is in V.
SolutionIn(iter, base, G, n, V) ==
  /\ iter[{}] = base
  /\ \A s \in SUBSET (1..n) :
       s # {} /\ iter[s \ {Max(s)}] \in V => iter[s] = G[<<iter[s \ {Max(s)}], Max(s)>>]

\* The values it takes over the first positions, one by one.
Runs(iter, base, G, n, V) ==
  /\ \A k \in Nat : k <= n => iter[1..k] \in V
  /\ iter[1..0] = base
  /\ \A k \in 1..n : iter[1..k] = G[<<iter[1..(k - 1)], k>>]

\* What a solution comes to, step after step.
LEMMA FoldRuns ==
  ASSUME NEW V, NEW n \in Nat, NEW base \in V, NEW G \in [V \X (1..n) -> V], NEW iter, SolutionIn(iter, base, G, n, V)
  PROVE  Runs(iter, base, G, n, V)
  <1> DEFINE Good == {k \in Nat : k <= n => iter[1..k] \in V}
  <1>1. iter[1..0] = base
    <2>1. 1..0 = {}
      OBVIOUS
    <2> QED
      BY <2>1 DEF SolutionIn
  <1>2. ASSUME NEW k \in Nat, k + 1 <= n, iter[1..k] \in V
        PROVE  iter[1..(k + 1)] = G[<<iter[1..k], k + 1>>] /\ iter[1..(k + 1)] \in V
    <2>1. 1..(k + 1) \in SUBSET (1..n) /\ k + 1 \in 1..(k + 1) /\ 1..(k + 1) \in SUBSET (1..(k + 1)) /\ k + 1 \in 1..n
      BY <1>2
    <2>2. Max(1..(k + 1)) = k + 1
      BY <2>1, MaxIs
    <2>3. (1..(k + 1)) \ {k + 1} = 1..k
      OBVIOUS
    <2>4. 1..(k + 1) # {}
      BY <2>1
    <2> QED
      BY <1>2, <2>1, <2>2, <2>3, <2>4 DEF SolutionIn
  <1>3. 0 \in Good
    BY <1>1
  <1>4. ASSUME NEW k \in Nat, k \in Good PROVE k + 1 \in Good
    <2>1. ASSUME k + 1 <= n PROVE iter[1..(k + 1)] \in V
      <3>1. iter[1..k] \in V
        BY <1>4, <2>1
      <3> QED
        BY <1>2, <2>1, <3>1
    <2> QED
      BY <2>1
  <1>5. Nat \subseteq Good
    <2> HIDE DEF Good
    <2> QED
      BY <1>3, <1>4, Induction
  <1>6. ASSUME NEW k \in 1..n PROVE iter[1..k] = G[<<iter[1..(k - 1)], k>>]
    <2>1. PICK j \in Nat : j = k - 1
      OBVIOUS
    <2>2. j + 1 = k /\ j + 1 <= n /\ j <= n
      BY <2>1
    <2>3. iter[1..j] \in V
      BY <1>5, <2>2
    <2> QED
      BY <1>2, <2>1, <2>2, <2>3
  <1> QED
    BY <1>1, <1>5, <1>6 DEF Runs

-----------------------------------------------------------------------------
(* Business tools: sequences of kept declarations.                           *)

\* What an entry more, another sequence, or the limit makes of a sequence.
LEMMA RangeOfAppend ==
  ASSUME NEW S, NEW s \in Seq(S), NEW e \in S
  PROVE  /\ Append(s, e) \in Seq(S) /\ Len(Append(s, e)) = Len(s) + 1
         /\ Range(Append(s, e)) = Range(s) \cup {e}
  <1> DEFINE t == Append(s, e)
  <1>1. t \in Seq(S) /\ Len(t) = Len(s) + 1 /\ Len(s) \in Nat /\ DOMAIN s = 1..Len(s) /\ DOMAIN t = 1..Len(t)
        /\ t[Len(s) + 1] = e /\ \A i \in 1..Len(s) : t[i] = s[i]
    OBVIOUS
  <1> HIDE DEF t
  <1>2. 1..Len(t) = (1..Len(s)) \cup {Len(s) + 1}
    BY <1>1
  <1>3. Range(t) = Range(s) \cup {e}
    BY <1>1, <1>2 DEF Range
  <1> QED
    BY <1>1, <1>3 DEF t

LEMMA RangeOfConcat ==
  ASSUME NEW S, NEW s \in Seq(S), NEW t \in Seq(S)
  PROVE  /\ s \o t \in Seq(S) /\ Len(s \o t) = Len(s) + Len(t)
         /\ Range(s \o t) = Range(s) \cup Range(t)
  <1>1. s \o t \in Seq(S) /\ Len(s \o t) = Len(s) + Len(t)
        /\ \A i \in 1 .. Len(s) + Len(t) : (s \o t)[i] = IF i <= Len(s) THEN s[i] ELSE t[i - Len(s)]
    BY ConcatProperties
  <1> DEFINE u == s \o t
  <1>2. DOMAIN s = 1..Len(s) /\ DOMAIN t = 1..Len(t) /\ Len(s) \in Nat /\ Len(t) \in Nat
    OBVIOUS
  <1>3. DOMAIN u = 1..(Len(s) + Len(t))
    BY <1>1
  <1>4. /\ \A i \in 1..Len(s) : i \in 1 .. Len(s) + Len(t) /\ u[i] = s[i]
        /\ \A i \in 1..Len(t) : Len(s) + i \in 1 .. Len(s) + Len(t) /\ u[Len(s) + i] = t[i]
    <2> HIDE DEF u
    <2>1. \A i \in 1 .. Len(s) + Len(t) : u[i] = IF i <= Len(s) THEN s[i] ELSE t[i - Len(s)]
      BY <1>1 DEF u
    <2>2. \A n, m \in Nat : \A i \in 1..m : n + i \in 1..(n + m) /\ ~ (n + i <= n) /\ (n + i) - n = i
      OBVIOUS
    <2> QED
      BY <1>2, <2>1, <2>2
  <1>5. \A n, m \in Nat : \A i \in 1..(n + m) : i \in 1..n \/ \E j \in 1..m : i = n + j
    <2> SUFFICES ASSUME NEW n \in Nat, NEW m \in Nat, NEW i \in 1..(n + m), i \notin 1..n
                 PROVE  \E j \in 1..m : i = n + j
      OBVIOUS
    <2> WITNESS i - n \in 1..m
    <2> QED
      OBVIOUS
  <1> HIDE DEF u
  <1>6. Range(u) = Range(s) \cup Range(t)
    <2>1. Range(u) \subseteq Range(s) \cup Range(t)
      <3> SUFFICES ASSUME NEW i \in 1..(Len(s) + Len(t)) PROVE u[i] \in Range(s) \cup Range(t)
        BY <1>3 DEF Range
      <3>1. i \in 1..Len(s) \/ \E j \in 1..Len(t) : i = Len(s) + j
        BY <1>2, <1>5
      <3> QED
        BY <1>2, <1>4, <3>1 DEF Range
    <2>2. Range(s) \subseteq Range(u) /\ Range(t) \subseteq Range(u)
      BY <1>2, <1>3, <1>4 DEF Range
    <2> QED
      BY <2>1, <2>2
  <1> QED
    BY <1>1, <1>6 DEF u

LEMMA TrimmedIs ==
  ASSUME NEW S, NEW s \in Seq(S)
  PROVE  /\ Trimmed(s) \in Seq(S) /\ Len(Trimmed(s)) <= MaxTools
         /\ Range(Trimmed(s)) \subseteq Range(s)
  <1>0. MaxTools \in Nat /\ MaxTools > 0 /\ Len(s) \in Nat
    BY MaxToolsIsPositive
  <1>1. CASE Len(s) <= MaxTools
    BY <1>0, <1>1 DEF Trimmed
  <1>2. CASE Len(s) > MaxTools
    <2> DEFINE m == Len(s) - MaxTools + 1
               t == SubSeq(s, m, Len(s))
    <2>1. m \in Nat /\ m >= 1 /\ m <= Len(s) /\ Len(s) - m + 1 = MaxTools
      BY <1>0, <1>2
    <2>2. \A i \in m..Len(s) : s[i] \in S
      BY <2>1
    <2> HIDE DEF m
    <2>3. t \in Seq(S) /\ Len(t) = MaxTools /\ \A i \in 1..MaxTools : t[i] = s[m + i - 1]
      BY <1>0, <2>1, <2>2, SubSeqProperties
    <2>4. \A i \in 1..MaxTools : m + i - 1 \in 1..Len(s)
      BY <1>0, <2>1
    <2>5. Range(t) \subseteq Range(s)
      <3> HIDE DEF t
      <3>1. DOMAIN t = 1..MaxTools /\ DOMAIN s = 1..Len(s)
        BY <2>3
      <3> QED
        BY <2>3, <2>4, <3>1 DEF Range
    <2>6. Trimmed(s) = t
      BY <1>0, <1>2 DEF Trimmed, m
    <2> HIDE DEF t
    <2> QED
      BY <1>0, <2>3, <2>5, <2>6
  <1> QED
    BY <1>0, <1>1, <1>2

LEMMA MaxIn ==
  ASSUME NEW n \in Nat
  PROVE  \A s \in SUBSET (1..n) : s # {} => Max(s) \in s
  <1> DEFINE Good == {m \in Nat : \A s \in SUBSET (1..m) : s # {} => Max(s) \in s}
  <1>1. 0 \in Good
    <2>1. 1..0 = {}
      OBVIOUS
    <2> QED
      BY <2>1
  <1>2. ASSUME NEW m \in Nat, m \in Good PROVE m + 1 \in Good
    <2> SUFFICES ASSUME NEW s \in SUBSET (1..(m + 1)), s # {} PROVE Max(s) \in s
      OBVIOUS
    <2>1. CASE m + 1 \in s
      BY <2>1, MaxIs
    <2>2. CASE m + 1 \notin s
      <3>1. s \in SUBSET (1..m)
        BY <2>2
      <3> QED
        BY <1>2, <3>1
    <2> QED
      BY <2>1, <2>2
  <1>3. n \in Good
    <2>1. Nat \subseteq Good
      <3> HIDE DEF Good
      <3> QED
        BY <1>1, <1>2, Induction
    <2> QED
      BY <2>1
  <1> QED
    BY <1>3

\* The entries that are in a set, one after the other.
LEMMA OnlyRuns ==
  ASSUME NEW kept \in Seq(Entry), NEW S
  PROVE  \E f \in [0..Len(kept) -> Seq(Entry)] :
           /\ f[0] = <<>> /\ f[Len(kept)] = Only(kept, S)
           /\ \A k \in 1..Len(kept) : f[k] = IF kept[k] \in S THEN Append(f[k - 1], kept[k]) ELSE f[k - 1]
  <1> DEFINE n == Len(kept)
             V == Seq(Entry)
             Add(s, e) == IF e \in S THEN Append(s, e) ELSE s
             G == [p \in V \X (1..n) |-> Add(p[1], kept[p[2]])]
             Solves(iter) == iter = [s \in SUBSET (1..n) |->
                               IF s = {} THEN <<>> ELSE LET x == Max(s) IN Add(iter[s \ {x}], kept[x])]
             iter == CHOOSE g : Solves(g)
  <1>1. n \in Nat /\ DOMAIN kept = 1..n /\ <<>> \in V /\ \A k \in 1..n : kept[k] \in Entry
    OBVIOUS
  <1>2. Only(kept, S) = iter[1..n]
    BY <1>1 DEF Only, FoldLeft, MapThenFoldSet
  <1>3. G \in [V \X (1..n) -> V] /\ \A v \in V, k \in 1..n : G[<<v, k>>] = Add(v, kept[k])
    BY <1>1
  <1> HIDE DEF G, V
  <1>4. PICK g \in [SUBSET (1..n) -> V] : Solution(g, <<>>, G, n)
    <2> HIDE DEF n
    <2> QED
      BY <1>1, <1>3, FoldExists
  <1>m. \A s \in SUBSET (1..n) : s # {} => Max(s) \in 1..n
    <2>1. \A s \in SUBSET (1..n) : s # {} => Max(s) \in s
      BY <1>1, MaxIn
    <2> QED
      BY <2>1
  <1>5. Solves(g)
    <2>1. \A s \in SUBSET (1..n) : s # {} => g[s] = Add(g[s \ {Max(s)}], kept[Max(s)])
      <3> SUFFICES ASSUME NEW s \in SUBSET (1..n), s # {} PROVE g[s] = Add(g[s \ {Max(s)}], kept[Max(s)])
        OBVIOUS
      <3>1. g[s \ {Max(s)}] \in V
        BY <1>4
      <3> HIDE DEF Add
      <3> QED
        BY <3>1, <1>3, <1>4, <1>m DEF Solution
    <2> QED
      BY <1>4, <2>1 DEF Solution
  <1>6. Solves(iter)
    <2> HIDE DEF Solves
    <2> QED
      BY <1>5
  <1> HIDE DEF iter
  <1>7. iter[{}] = <<>>
    BY <1>6
  <1>8. SolutionIn(iter, <<>>, G, n, V)
    <2>1. \A s \in SUBSET (1..n) : s # {} => iter[s] = Add(iter[s \ {Max(s)}], kept[Max(s)])
      BY <1>6
    <2> HIDE DEF Add
    <2> QED
      BY <2>1, <1>3, <1>7, <1>m DEF SolutionIn
  <1>9. Runs(iter, <<>>, G, n, V)
    <2> HIDE DEF n
    <2> QED
      BY <1>1, <1>3, <1>8, FoldRuns
  <1> DEFINE f == [k \in 0..n |-> iter[1..k]]
  <1>10. f \in [0..n -> V] /\ f[0] = <<>> /\ f[n] = iter[1..n]
    BY <1>1, <1>9 DEF Runs
  <1>11. ASSUME NEW k \in 1..n PROVE f[k] = Add(f[k - 1], kept[k])
    <2>1. k \in 0..n /\ k - 1 \in 0..n /\ k - 1 \in Nat /\ k - 1 <= n
      BY <1>1
    <2>2. f[k] = iter[1..k] /\ f[k - 1] = iter[1..(k - 1)]
      BY <2>1
    <2>3. iter[1..(k - 1)] \in V
      BY <1>9, <2>1 DEF Runs
    <2> HIDE DEF f, Add
    <2> QED
      BY <1>3, <1>9, <2>2, <2>3 DEF Runs
  <1> HIDE DEF f
  <1> QED
    BY <1>2, <1>10, <1>11 DEF V

\* The declarations of a response, one after the other.
Merged(base, t, tools) == FoldLeft(LAMBDA c, tool : With(c, t, tool), base, tools)

\* A set that the declarations of a response stay in.
LEMMA WithStays ==
  ASSUME NEW V, NEW base \in V, NEW t, NEW tools \in Seq(Tool),
         \A c \in V, i \in 1..Len(tools) : With(c, t, tools[i]) \in V
  PROVE  Merged(base, t, tools) \in V
  <1> DEFINE n == Len(tools)
             G == [p \in V \X (1..n) |-> With(p[1], t, tools[p[2]])]
             Solves(iter) == iter = [s \in SUBSET (1..n) |->
                               IF s = {} THEN base ELSE LET x == Max(s) IN With(iter[s \ {x}], t, tools[x])]
             iter == CHOOSE g : Solves(g)
  <1>1. n \in Nat /\ DOMAIN tools = 1..n
    OBVIOUS
  <1>2. Merged(base, t, tools) = iter[1..n]
    BY <1>1 DEF Merged, FoldLeft, MapThenFoldSet
  <1>3. G \in [V \X (1..n) -> V] /\ \A v \in V, k \in 1..n : G[<<v, k>>] = With(v, t, tools[k])
    BY <1>1
  <1> HIDE DEF G
  <1>4. PICK g \in [SUBSET (1..n) -> V] : Solution(g, base, G, n)
    <2> HIDE DEF n
    <2> QED
      BY <1>1, <1>3, FoldExists
  <1>m. \A s \in SUBSET (1..n) : s # {} => Max(s) \in 1..n
    <2>1. \A s \in SUBSET (1..n) : s # {} => Max(s) \in s
      BY <1>1, MaxIn
    <2> QED
      BY <2>1
  <1>5. Solves(g)
    <2>1. \A s \in SUBSET (1..n) : s # {} => g[s] = With(g[s \ {Max(s)}], t, tools[Max(s)])
      <3> SUFFICES ASSUME NEW s \in SUBSET (1..n), s # {} PROVE g[s] = With(g[s \ {Max(s)}], t, tools[Max(s)])
        OBVIOUS
      <3>1. g[s \ {Max(s)}] \in V
        BY <1>4
      <3> QED
        BY <3>1, <1>3, <1>4, <1>m DEF Solution
    <2> QED
      BY <1>4, <2>1 DEF Solution
  <1>6. Solves(iter)
    <2> HIDE DEF Solves
    <2> QED
      BY <1>5
  <1> HIDE DEF iter
  <1>7. SolutionIn(iter, base, G, n, V)
    BY <1>3, <1>6, <1>m DEF SolutionIn
  <1>8. Runs(iter, base, G, n, V)
    <2> HIDE DEF n
    <2> QED
      BY <1>1, <1>3, <1>7, FoldRuns
  <1>9. iter[1..n] \in V
    <2> HIDE DEF n
    <2>1. n <= n
      BY <1>1
    <2> QED
      BY <1>1, <1>8, <2>1 DEF Runs
  <1> QED
    BY <1>2, <1>9

\* The use of one tool of a response.
Used(cache0, t, tool) == IF tool \in ToolsOf(cache0, t) THEN Touch(cache0, t, tool.name) ELSE cache0

\* A set that the uses of a search's tools stay in.
LEMMA UsedStays ==
  ASSUME NEW V, NEW base \in V, NEW t, NEW tools \in Seq(Tool),
         \A c \in V, i \in 1..Len(tools) : Used(c, t, tools[i]) \in V
  PROVE  TouchAll(base, t, tools) \in V
  <1> DEFINE n == Len(tools)
             G == [p \in V \X (1..n) |-> Used(p[1], t, tools[p[2]])]
             Solves(iter) == iter = [s \in SUBSET (1..n) |->
                               IF s = {} THEN base ELSE LET x == Max(s) IN Used(iter[s \ {x}], t, tools[x])]
             iter == CHOOSE g : Solves(g)
  <1>1. n \in Nat /\ DOMAIN tools = 1..n
    OBVIOUS
  <1>2. TouchAll(base, t, tools) = iter[1..n]
    BY <1>1 DEF TouchAll, Used, FoldLeft, MapThenFoldSet
  <1>3. G \in [V \X (1..n) -> V] /\ \A v \in V, k \in 1..n : G[<<v, k>>] = Used(v, t, tools[k])
    BY <1>1
  <1> HIDE DEF G
  <1>4. PICK g \in [SUBSET (1..n) -> V] : Solution(g, base, G, n)
    <2> HIDE DEF n
    <2> QED
      BY <1>1, <1>3, FoldExists
  <1>m. \A s \in SUBSET (1..n) : s # {} => Max(s) \in 1..n
    <2>1. \A s \in SUBSET (1..n) : s # {} => Max(s) \in s
      BY <1>1, MaxIn
    <2> QED
      BY <2>1
  <1>5. Solves(g)
    <2>1. \A s \in SUBSET (1..n) : s # {} => g[s] = Used(g[s \ {Max(s)}], t, tools[Max(s)])
      <3> SUFFICES ASSUME NEW s \in SUBSET (1..n), s # {} PROVE g[s] = Used(g[s \ {Max(s)}], t, tools[Max(s)])
        OBVIOUS
      <3>1. g[s \ {Max(s)}] \in V
        BY <1>4
      <3> QED
        BY <3>1, <1>3, <1>4, <1>m DEF Solution
    <2> QED
      BY <1>4, <2>1 DEF Solution
  <1>6. Solves(iter)
    <2> HIDE DEF Solves
    <2> QED
      BY <1>5
  <1> HIDE DEF iter
  <1>7. SolutionIn(iter, base, G, n, V)
    BY <1>3, <1>6, <1>m DEF SolutionIn
  <1>8. Runs(iter, base, G, n, V)
    <2> HIDE DEF n
    <2> QED
      BY <1>1, <1>3, <1>7, FoldRuns
  <1>9. iter[1..n] \in V
    <2> HIDE DEF n
    <2>1. n <= n
      BY <1>1
    <2> QED
      BY <1>1, <1>8, <2>1 DEF Runs
  <1> QED
    BY <1>2, <1>9

\* A part of the kept entries, and how many they are.
LEMMA OnlyIs ==
  ASSUME NEW kept \in Seq(Entry), NEW S
  PROVE  /\ Only(kept, S) \in Seq(Entry) /\ Range(Only(kept, S)) = Range(kept) \cap S
         /\ Len(Only(kept, S)) + Len(Only(kept, Entry \ S)) = Len(kept)
  <1> DEFINE n == Len(kept)
  <1>1. n \in Nat /\ DOMAIN kept = 1..n /\ \A k \in 1..n : kept[k] \in Entry
    OBVIOUS
  <1>2. PICK f \in [0..n -> Seq(Entry)] :
           /\ f[0] = <<>> /\ f[n] = Only(kept, S)
           /\ \A k \in 1..n : f[k] = IF kept[k] \in S THEN Append(f[k - 1], kept[k]) ELSE f[k - 1]
    BY OnlyRuns, SMTT(60)
  <1>3. PICK g \in [0..n -> Seq(Entry)] :
           /\ g[0] = <<>> /\ g[n] = Only(kept, Entry \ S)
           /\ \A k \in 1..n : g[k] = IF kept[k] \in Entry \ S THEN Append(g[k - 1], kept[k]) ELSE g[k - 1]
    BY OnlyRuns, SMTT(60)
  <1> DEFINE Good == {k \in Nat : k <= n =>
                        /\ Range(f[k]) = {kept[i] : i \in 1..k} \cap S
                        /\ Len(f[k]) + Len(g[k]) = k}
  <1> HIDE DEF n
  <1>4. 0 \in Good
    <2>1. Len(<<>>) = 0 /\ Range(<<>>) = {} /\ 1..0 = {}
      BY DEF Range
    <2> QED
      BY <1>2, <1>3, <2>1
  <1>5. ASSUME NEW k \in Nat, k \in Good PROVE k + 1 \in Good
    <2> SUFFICES ASSUME k + 1 <= n
                 PROVE  /\ Range(f[k + 1]) = {kept[i] : i \in 1..(k + 1)} \cap S
                        /\ Len(f[k + 1]) + Len(g[k + 1]) = k + 1
      OBVIOUS
    <2>1. k + 1 \in 1..n /\ k \in 0..n /\ (k + 1) - 1 = k /\ k <= n
      BY <1>1
    <2>2. Range(f[k]) = {kept[i] : i \in 1..k} \cap S /\ Len(f[k]) + Len(g[k]) = k
      BY <1>5, <2>1
    <2>3. PICK x \in Seq(Entry) : x = f[k]
      BY <2>1
    <2>4. PICK y \in Seq(Entry) : y = g[k]
      BY <2>1
    <2>5. PICK e \in Entry : e = kept[k + 1]
      BY <1>1, <2>1
    <2>6. f[k + 1] = (IF e \in S THEN Append(x, e) ELSE x) /\ g[k + 1] = (IF e \in S THEN y ELSE Append(y, e))
      BY <1>2, <1>3, <2>1, <2>3, <2>4, <2>5
    <2>7. {kept[i] : i \in 1..(k + 1)} = {kept[i] : i \in 1..k} \cup {e}
      <3>1. 1..(k + 1) = (1..k) \cup {k + 1}
        OBVIOUS
      <3> QED
        BY <2>5, <3>1
    <2>8. /\ Len(Append(x, e)) = Len(x) + 1 /\ Range(Append(x, e)) = Range(x) \cup {e}
          /\ Len(Append(y, e)) = Len(y) + 1 /\ Len(x) \in Nat /\ Len(y) \in Nat
      BY RangeOfAppend
    <2>9. Range(f[k + 1]) = {kept[i] : i \in 1..(k + 1)} \cap S
      BY <2>2, <2>3, <2>6, <2>7, <2>8
    <2>10. Len(f[k + 1]) + Len(g[k + 1]) = k + 1
      <3>1. \A a, b \in Nat : a + b = k => (a + 1) + b = k + 1 /\ a + (b + 1) = k + 1
        OBVIOUS
      <3>2. Len(x) + Len(y) = k
        BY <2>2, <2>3, <2>4
      <3>3. /\ Len(f[k + 1]) = (IF e \in S THEN Len(x) + 1 ELSE Len(x))
            /\ Len(g[k + 1]) = (IF e \in S THEN Len(y) ELSE Len(y) + 1)
        BY <2>6, <2>8
      <3> QED
        BY <2>8, <3>1, <3>2, <3>3
    <2> QED
      BY <2>9, <2>10
  <1>6. n \in Good
    <2>1. Nat \subseteq Good
      <3> HIDE DEF Good
      <3> QED
        BY <1>4, <1>5, Induction
    <2> QED
      BY <1>1, <2>1
  <1>7. Range(f[n]) = {kept[i] : i \in 1..n} \cap S /\ Len(f[n]) + Len(g[n]) = n
    BY <1>1, <1>6
  <1>8. f[n] \in Seq(Entry)
    BY <1>1
  <1>9. Range(kept) = {kept[i] : i \in 1..n}
    BY <1>1 DEF Range
  <1> QED
    BY <1>2, <1>3, <1>7, <1>8, <1>9 DEF n

-----------------------------------------------------------------------------
(* Business tools: the cache, and what an operation makes of it.             *)

Knowledge == [rev : Rev \cup {"none"}, conflicts : SUBSET Name, quarantined : BOOLEAN]

\* Every kept declaration is of the revision its target is known by.
Published(c) ==
  \A e \in Entries(c) : c.of[e.target].rev \in Rev /\ e.decl \in Catalog[c.of[e.target].rev][e.name]

\* Within a revision of t nothing that was contradicted is forgotten; the other
\* targets are as they were.
Grows(old, new, t) ==
  /\ \A u \in Target \ {t} : new.of[u] = old.of[u]
  /\ new.of[t].rev = old.of[t].rev
  /\ old.of[t].quarantined => new.of[t].quarantined
  /\ \A n \in old.of[t].conflicts : new.of[t].quarantined \/ n \in new.of[t].conflicts

\* A well-formed cache, by its parts.
LEMMA CacheIs ==
  /\ \A c \in Cache : /\ c.kept \in Seq(Entry) /\ Len(c.kept) <= MaxTools /\ c.of \in [Target -> Knowledge]
                      /\ c = [kept |-> c.kept, of |-> c.of] /\ Entries(c) = Range(c.kept)
                      /\ Entries(c) \subseteq Entry
  /\ \A k \in Seq(Entry), o \in [Target -> Knowledge] :
       Len(k) <= MaxTools => [kept |-> k, of |-> o] \in Cache
  <1>1. \A k \in Seq(Entry) : Range(k) \subseteq Entry
    BY DEF Range
  <1> QED
    BY <1>1 DEF Cache, Knowledge, Entries, Range

\* The cache of a new session.
LEMMA EmptyIs == EmptyCache \in Cache /\ Published(EmptyCache)
  <1>1. <<>> \in Seq(Entry) /\ Len(<<>>) = 0 /\ Len(<<>>) <= MaxTools
    BY MaxToolsIsPositive
  <1>2. Unknown \in Knowledge
    BY DEF Unknown, Knowledge
  <1>3. [t \in Target |-> Unknown] \in [Target -> Knowledge]
    BY <1>2
  <1>4. EmptyCache \in Cache
    BY <1>1, <1>3, CacheIs DEF EmptyCache
  <1>5. Entries(EmptyCache) = {}
    BY <1>1 DEF EmptyCache, Entries
  <1> QED
    BY <1>4, <1>5 DEF Published

\* What is left when the names of a target go.
LEMMA WithoutIs ==
  ASSUME NEW kept \in Seq(Entry), Len(kept) <= MaxTools, NEW t, NEW names
  PROVE  /\ WithoutNames(kept, t, names) \in Seq(Entry) /\ Len(WithoutNames(kept, t, names)) <= MaxTools
         /\ Range(WithoutNames(kept, t, names)) = {e \in Range(kept) : ~ (e.target = t /\ e.name \in names)}
  <1> DEFINE S == Entry \ Named(t, names)
  <1>1. /\ Only(kept, S) \in Seq(Entry) /\ Range(Only(kept, S)) = Range(kept) \cap S
        /\ Len(Only(kept, S)) + Len(Only(kept, Entry \ S)) = Len(kept) /\ Only(kept, Entry \ S) \in Seq(Entry)
    BY OnlyIs
  <1>2. Len(Only(kept, S)) <= MaxTools
    <2>1. MaxTools \in Nat /\ Len(kept) \in Nat /\ Len(Only(kept, S)) \in Nat /\ Len(Only(kept, Entry \ S)) \in Nat
      BY <1>1, MaxToolsIsPositive
    <2>2. \A a, b, n \in Nat : a + b = n /\ n <= MaxTools => a <= MaxTools
      BY <2>1
    <2> QED
      BY <1>1, <2>1, <2>2
  <1>3. \A e \in Range(kept) : e \in Entry
    BY DEF Range
  <1>4. \A e \in Entry : e \in S <=> ~ (e.target = t /\ e.name \in names)
    BY DEF Entry, Named
  <1> QED
    BY <1>1, <1>2, <1>3, <1>4 DEF WithoutNames

\* A tool that is used goes to the end.
LEMMA TouchIs ==
  ASSUME NEW c \in Cache, NEW t, NEW name
  PROVE  Touch(c, t, name) \in Cache /\ Touch(c, t, name).of = c.of /\ Entries(Touch(c, t, name)) = Entries(c)
  <1> DEFINE S == Named(t, {name})
  <1>1. c.kept \in Seq(Entry) /\ Len(c.kept) <= MaxTools /\ c.of \in [Target -> Knowledge]
        /\ c = [kept |-> c.kept, of |-> c.of] /\ Entries(c) = Range(c.kept)
    BY CacheIs
  <1>2. PICK k \in Seq(Entry) : k = c.kept
    BY <1>1
  <1>3. PICK s \in Seq(Entry) : s = Only(k, S) /\ Range(s) = Range(k) \cap S
                                /\ Len(s) + Len(Only(k, Entry \ S)) = Len(k)
    BY OnlyIs
  <1>4. PICK r \in Seq(Entry) : r = Only(k, Entry \ S) /\ Range(r) = Range(k) \cap (Entry \ S)
    BY OnlyIs
  <1>5. /\ r \o s \in Seq(Entry) /\ Len(r \o s) = Len(r) + Len(s)
        /\ Range(r \o s) = Range(r) \cup Range(s)
    BY RangeOfConcat
  <1>6. Touch(c, t, name) = [kept |-> r \o s, of |-> c.of]
    <2>1. Touch(c, t, name) = [c EXCEPT !.kept = r \o s]
      BY <1>2, <1>3, <1>4 DEF Touch, WithoutNames
    <2> QED
      BY <1>1, <2>1
  <1>7. Len(r \o s) <= MaxTools
    <2>1. Len(r) \in Nat /\ Len(s) \in Nat /\ Len(s) + Len(r) = Len(k) /\ Len(k) <= MaxTools
      BY <1>1, <1>2, <1>3, <1>4
    <2>2. \A a, b \in Nat : a + b = b + a
      OBVIOUS
    <2> QED
      BY <1>5, <2>1, <2>2
  <1>8. Range(r \o s) = Range(k)
    <2>1. Range(k) \subseteq Entry
      BY DEF Range
    <2> QED
      BY <1>3, <1>4, <1>5, <2>1
  <1> DEFINE new == [kept |-> r \o s, of |-> c.of]
  <1>9. new \in Cache /\ new.of = c.of /\ new.kept = r \o s
    BY <1>1, <1>5, <1>7, CacheIs
  <1>10. Entries(new) = Range(r \o s)
    BY <1>9, CacheIs
  <1> HIDE DEF new
  <1> QED
    BY <1>1, <1>2, <1>6, <1>8, <1>9, <1>10 DEF new

\* Some entries go, and what is known of the targets stays: what is left is
\* still of its revision.
LEMMA LessIsPublished ==
  ASSUME NEW c, NEW d, Published(c), Entries(d) \subseteq Entries(c), 
         \A e \in Entries(d) : d.of[e.target].rev = c.of[e.target].rev
  PROVE  Published(d)
  BY DEF Published

\* The declarations of one target go, and nothing else.
LEMMA InvalidatedIs ==
  ASSUME NEW c \in Cache, NEW t
  PROVE  /\ Invalidated(c, t) \in Cache /\ Invalidated(c, t).of = c.of
         /\ Entries(Invalidated(c, t)) = {e \in Entries(c) : e.target # t}
  <1>1. c.kept \in Seq(Entry) /\ Len(c.kept) <= MaxTools /\ c.of \in [Target -> Knowledge]
        /\ c = [kept |-> c.kept, of |-> c.of] /\ Entries(c) = Range(c.kept) /\ Entries(c) \subseteq Entry
    BY CacheIs
  <1>2. PICK k \in Seq(Entry) : /\ k = WithoutNames(c.kept, t, Name) /\ Len(k) <= MaxTools
                                /\ Range(k) = {e \in Range(c.kept) : ~ (e.target = t /\ e.name \in Name)}
    BY <1>1, WithoutIs
  <1>3. Invalidated(c, t) = [kept |-> k, of |-> c.of]
    <2>1. Invalidated(c, t) = [c EXCEPT !.kept = k]
      BY <1>2 DEF Invalidated
    <2> QED
      BY <1>1, <2>1
  <1> DEFINE new == [kept |-> k, of |-> c.of]
  <1>4. new \in Cache /\ new.of = c.of /\ new.kept = k
    BY <1>1, <1>2, CacheIs
  <1>5. Entries(new) = Range(k)
    BY <1>4, CacheIs
  <1>6. \A e \in Entries(c) : e.name \in Name
    BY <1>1 DEF Entry
  <1>7. Range(k) = {e \in Entries(c) : e.target # t}
    BY <1>1, <1>2, <1>6
  <1> HIDE DEF new
  <1> QED
    BY <1>3, <1>4, <1>5, <1>7 DEF new

\* A response of a revision.
Response(rev) == {s \in Seq(Tool) : \A i \in 1..Len(s) : s[i].decl \in Catalog[rev][s[i].name]}

\* A contradiction only takes entries away, and is remembered.
LEMMA ContradictedIs ==
  ASSUME NEW c \in Cache, Published(c), NEW t \in Target, NEW name \in Name
  PROVE  /\ Contradicted(c, t, name) \in Cache /\ Published(Contradicted(c, t, name))
         /\ Grows(c, Contradicted(c, t, name), t)
  <1>1. c.kept \in Seq(Entry) /\ Len(c.kept) <= MaxTools /\ c.of \in [Target -> Knowledge]
        /\ c = [kept |-> c.kept, of |-> c.of] /\ Entries(c) = Range(c.kept) /\ Entries(c) \subseteq Entry
    BY CacheIs
  <1> DEFINE names == c.of[t].conflicts \cup {name}
  <1>2. c.of[t] \in Knowledge /\ names \in SUBSET Name
    BY <1>1 DEF Knowledge
  <1>3. ASSUME NEW gone, NEW o \in [Target -> Knowledge], Grows(c, [kept |-> WithoutNames(c.kept, t, gone), of |-> o], t)
        PROVE  /\ [kept |-> WithoutNames(c.kept, t, gone), of |-> o] \in Cache
               /\ Published([kept |-> WithoutNames(c.kept, t, gone), of |-> o])
    <2>1. PICK k \in Seq(Entry) : /\ k = WithoutNames(c.kept, t, gone) /\ Len(k) <= MaxTools
                                  /\ Range(k) \subseteq Range(c.kept)
      BY <1>1, WithoutIs
    <2> DEFINE new == [kept |-> k, of |-> o]
    <2>2. new \in Cache /\ new.kept = k /\ new.of = o
      BY <2>1, CacheIs
    <2>3. Entries(new) = Range(k)
      BY <2>2, CacheIs
    <2>4. Entries(new) \subseteq Entries(c)
      BY <1>1, <2>1, <2>3
    <2>5. Grows(c, new, t)
      BY <1>3, <2>1
    <2> HIDE DEF new
    <2>6. \A e \in Entries(new) : new.of[e.target].rev = c.of[e.target].rev
      <3>1. \A e \in Entries(new) : e.target \in Target
        BY <1>1, <2>4 DEF Entry
      <3> QED
        BY <2>5, <3>1 DEF Grows
    <2>7. Published(new)
      BY <2>4, <2>6, LessIsPublished
    <2> QED
      BY <2>1, <2>2, <2>7 DEF new
  <1>4. CASE Cardinality(names) > MaxConflicts
    <2> DEFINE o == [c.of EXCEPT ![t].conflicts = {}, ![t].quarantined = TRUE]
    <2>1. /\ o \in [Target -> Knowledge] /\ (\A u \in Target \ {t} : o[u] = c.of[u])
          /\ o[t].rev = c.of[t].rev /\ o[t].quarantined
      BY <1>1, <1>2 DEF Knowledge
    <2>2. Contradicted(c, t, name) = [kept |-> WithoutNames(c.kept, t, Name), of |-> o]
      BY <1>4 DEF Contradicted
    <2> HIDE DEF o
    <2>3. Grows(c, [kept |-> WithoutNames(c.kept, t, Name), of |-> o], t)
      BY <2>1 DEF Grows
    <2> QED
      BY <1>3, <2>1, <2>2, <2>3
  <1>5. CASE ~ (Cardinality(names) > MaxConflicts)
    <2> DEFINE o == [c.of EXCEPT ![t].conflicts = names]
    <2>1. /\ o \in [Target -> Knowledge] /\ (\A u \in Target \ {t} : o[u] = c.of[u]) /\ o[t].rev = c.of[t].rev
          /\ o[t].quarantined = c.of[t].quarantined /\ o[t].conflicts = names
      BY <1>1, <1>2 DEF Knowledge
    <2>2. Contradicted(c, t, name) = [kept |-> WithoutNames(c.kept, t, {name}), of |-> o]
      BY <1>5 DEF Contradicted
    <2> HIDE DEF o
    <2>3. Grows(c, [kept |-> WithoutNames(c.kept, t, {name}), of |-> o], t)
      BY <2>1 DEF Grows
    <2> QED
      BY <1>3, <2>1, <2>2, <2>3
  <1> QED
    BY <1>4, <1>5

\* One more declaration of the revision that the target is known by.
LEMMA WithIs ==
  ASSUME NEW c \in Cache, Published(c), NEW t \in Target, NEW tool \in Tool, c.of[t].rev \in Rev,
         tool.decl \in Catalog[c.of[t].rev][tool.name]
  PROVE  With(c, t, tool) \in Cache /\ Published(With(c, t, tool)) /\ Grows(c, With(c, t, tool), t)
  <1>1. c.kept \in Seq(Entry) /\ Len(c.kept) <= MaxTools /\ c.of \in [Target -> Knowledge]
        /\ c = [kept |-> c.kept, of |-> c.of] /\ Entries(c) = Range(c.kept) /\ Entries(c) \subseteq Entry
    BY CacheIs
  <1> DEFINE same == {x \in ToolsOf(c, t) : x.name = tool.name}
             Known == c.of[t].quarantined \/ tool.name \in c.of[t].conflicts \/ tool \in same
             New == ~ c.of[t].quarantined /\ tool.name \notin c.of[t].conflicts /\ same = {}
             e == [target |-> t, name |-> tool.name, decl |-> tool.decl]
             longer == [c EXCEPT !.kept = Trimmed(Append(@, e))]
  <1>2. With(c, t, tool) = CASE Known -> c [] New -> longer [] OTHER -> Contradicted(c, t, tool.name)
    BY DEF With
  <1>3. ~ (Known /\ New)
    OBVIOUS
  <1>4. Grows(c, c, t)
    BY DEF Grows
  <1>5. tool.name \in Name /\ e \in Entry /\ e.target = t /\ e.name = tool.name /\ e.decl = tool.decl
    BY DEF Tool, Entry
  <1>6. longer \in Cache /\ Published(longer) /\ Grows(c, longer, t)
    <2>1. PICK k \in Seq(Entry) : k = Append(c.kept, e) /\ Range(k) = Range(c.kept) \cup {e}
      <3>1. PICK old \in Seq(Entry) : old = c.kept
        BY <1>1
      <3> HIDE DEF e
      <3>2. Append(old, e) \in Seq(Entry) /\ Range(Append(old, e)) = Range(old) \cup {e}
        BY <1>5, RangeOfAppend
      <3> QED
        BY <3>1, <3>2
    <2>2. PICK s \in Seq(Entry) : s = Trimmed(k) /\ Len(s) <= MaxTools /\ Range(s) \subseteq Range(k)
      BY TrimmedIs
    <2>3. longer = [kept |-> s, of |-> c.of]
      <3>1. longer = [c EXCEPT !.kept = s]
        BY <2>1, <2>2
      <3> QED
        BY <1>1, <3>1
    <2> HIDE DEF longer
    <2> DEFINE new == [kept |-> s, of |-> c.of]
    <2>4. new \in Cache /\ new.kept = s /\ new.of = c.of
      BY <1>1, <2>2, CacheIs
    <2>5. Entries(new) = Range(s)
      BY <2>4, CacheIs
    <2> HIDE DEF new
    <2>6. Entries(new) \subseteq Entries(c) \cup {e}
      BY <1>1, <2>1, <2>2, <2>5
    <2>7. Published(new)
      <3> SUFFICES ASSUME NEW x \in Entries(new)
                   PROVE  c.of[x.target].rev \in Rev /\ x.decl \in Catalog[c.of[x.target].rev][x.name]
        BY <2>4 DEF Published
      <3>1. CASE x \in Entries(c)
        BY <3>1 DEF Published
      <3>2. CASE x = e
        <4> HIDE DEF e
        <4> QED
          BY <1>5, <3>2
      <3> QED
        BY <2>6, <3>1, <3>2
    <2>8. Grows(c, new, t)
      BY <2>4 DEF Grows
    <2> QED
      BY <2>3, <2>4, <2>7, <2>8 DEF new
  <1>7. /\ Contradicted(c, t, tool.name) \in Cache /\ Published(Contradicted(c, t, tool.name))
        /\ Grows(c, Contradicted(c, t, tool.name), t)
    BY <1>5, ContradictedIs
  <1> HIDE DEF Known, New, longer
  <1> QED
    BY <1>2, <1>3, <1>4, <1>6, <1>7

LEMMA GrowsOn ==
  ASSUME NEW c, NEW d, NEW f, NEW t, Grows(c, d, t), Grows(d, f, t)
  PROVE  Grows(c, f, t)
  BY DEF Grows

\* Another revision starts from nothing.
LEMMA CurrentIs ==
  ASSUME NEW c \in Cache, Published(c), NEW t \in Target, NEW rev \in Rev
  PROVE  /\ Current(c, t, rev) \in Cache /\ Published(Current(c, t, rev)) /\ Current(c, t, rev).of[t].rev = rev
         /\ \A u \in Target \ {t} : Current(c, t, rev).of[u] = c.of[u]
         /\ c.of[t].rev = rev => Current(c, t, rev) = c
  <1>1. c.kept \in Seq(Entry) /\ Len(c.kept) <= MaxTools /\ c.of \in [Target -> Knowledge]
        /\ c = [kept |-> c.kept, of |-> c.of] /\ Entries(c) = Range(c.kept) /\ Entries(c) \subseteq Entry
    BY CacheIs
  <1>2. CASE c.of[t].rev = rev
    BY <1>2 DEF Current
  <1>3. CASE c.of[t].rev # rev
    <2> DEFINE o == [c.of EXCEPT ![t] = [Unknown EXCEPT !.rev = rev]]
    <2>1. PICK k \in Seq(Entry) : /\ k = WithoutNames(c.kept, t, Name) /\ Len(k) <= MaxTools
                                  /\ Range(k) = {e \in Range(c.kept) : ~ (e.target = t /\ e.name \in Name)}
      BY <1>1, WithoutIs
    <2>2. [Unknown EXCEPT !.rev = rev] \in Knowledge /\ [Unknown EXCEPT !.rev = rev].rev = rev
      BY DEF Unknown, Knowledge
    <2>3. o \in [Target -> Knowledge] /\ o[t].rev = rev /\ \A u \in Target \ {t} : o[u] = c.of[u]
      BY <1>1, <2>2
    <2>4. Current(c, t, rev) = [kept |-> k, of |-> o]
      BY <1>3, <2>1 DEF Current
    <2> HIDE DEF o
    <2> DEFINE new == [kept |-> k, of |-> o]
    <2>5. new \in Cache /\ new.kept = k /\ new.of = o
      BY <2>1, <2>3, CacheIs
    <2>6. Entries(new) = Range(k)
      BY <2>5, CacheIs
    <2> HIDE DEF new
    <2>7. \A e \in Entries(c) : e.name \in Name /\ e.target \in Target
      BY <1>1 DEF Entry
    <2>8. Entries(new) \subseteq Entries(c) /\ \A e \in Entries(new) : e.target \in Target \ {t}
      BY <1>1, <2>1, <2>6, <2>7
    <2>9. \A e \in Entries(new) : new.of[e.target].rev = c.of[e.target].rev
      BY <2>3, <2>5, <2>8
    <2>10. Published(new)
      BY <2>8, <2>9, LessIsPublished
    <2> QED
      BY <1>3, <2>3, <2>4, <2>5, <2>10 DEF new
  <1> QED
    BY <1>2, <1>3

\* A response of a revision is merged.
LEMMA MergeIs ==
  ASSUME NEW c \in Cache, Published(c), NEW t \in Target, NEW rev \in Rev, NEW tools \in Response(rev)
  PROVE  /\ Merge(c, t, rev, tools) \in Cache /\ Published(Merge(c, t, rev, tools))
         /\ Merge(c, t, rev, tools).of[t].rev = rev
         /\ \A u \in Target \ {t} : Merge(c, t, rev, tools).of[u] = c.of[u]
         /\ c.of[t].rev = rev => Grows(c, Merge(c, t, rev, tools), t)
  <1>1. PICK b \in Cache : /\ b = Current(c, t, rev) /\ Published(b) /\ b.of[t].rev = rev
                           /\ \A u \in Target \ {t} : b.of[u] = c.of[u]
                           /\ c.of[t].rev = rev => b = c
    BY CurrentIs
  <1> DEFINE V == {d \in Cache : Published(d) /\ Grows(b, d, t)}
  <1>2. b \in V
    BY <1>1 DEF Grows
  <1>3. tools \in Seq(Tool) /\ \A i \in 1..Len(tools) : tools[i] \in Tool /\ tools[i].decl \in Catalog[rev][tools[i].name]
    BY DEF Response
  <1>4. \A d \in V, i \in 1..Len(tools) : With(d, t, tools[i]) \in V
    <2> SUFFICES ASSUME NEW d \in V, NEW i \in 1..Len(tools) PROVE With(d, t, tools[i]) \in V
      OBVIOUS
    <2>1. PICK tool \in Tool : tool = tools[i] /\ tool.decl \in Catalog[rev][tool.name]
      BY <1>3
    <2>2. d \in Cache /\ Published(d) /\ Grows(b, d, t) /\ d.of[t].rev = rev
      BY <1>1 DEF Grows
    <2>3. With(d, t, tool) \in Cache /\ Published(With(d, t, tool)) /\ Grows(d, With(d, t, tool), t)
      BY <2>1, <2>2, WithIs
    <2> QED
      BY <2>1, <2>2, <2>3, GrowsOn
  <1>5. PICK m \in V : m = Merge(c, t, rev, tools)
    <2> HIDE DEF V
    <2>1. Merged(b, t, tools) \in V
      BY <1>2, <1>3, <1>4, WithStays
    <2> QED
      BY <1>1, <2>1 DEF Merge, Merged
  <1>6. m \in Cache /\ Published(m) /\ Grows(b, m, t)
    OBVIOUS
  <1>7. m.of[t].rev = rev /\ \A u \in Target \ {t} : m.of[u] = c.of[u]
    BY <1>1, <1>6 DEF Grows
  <1> QED
    BY <1>1, <1>5, <1>6, <1>7

\* The tools of a search are used.
LEMMA TouchAllIs ==
  ASSUME NEW c \in Cache, NEW t, NEW tools \in Seq(Tool)
  PROVE  /\ TouchAll(c, t, tools) \in Cache /\ TouchAll(c, t, tools).of = c.of
         /\ Entries(TouchAll(c, t, tools)) = Entries(c)
  <1> DEFINE V == {d \in Cache : d.of = c.of /\ Entries(d) = Entries(c)}
  <1>1. c \in V
    OBVIOUS
  <1>2. \A d \in V, i \in 1..Len(tools) : Used(d, t, tools[i]) \in V
    BY TouchIs DEF Used
  <1>3. TouchAll(c, t, tools) \in V
    <2> HIDE DEF V
    <2> QED
      BY <1>1, <1>2, UsedStays
  <1> QED
    BY <1>3

-----------------------------------------------------------------------------
(* Business tools: the inductive invariant.                                  *)

\* What the hub may have answered.
Answer == UNION {Answers(r) : r \in Rev}

GoodStart ==
  {s \in [state : {"none", "asked", "answered", "lost"}, answer : {Nothing} \cup Answer] :
     s.state = "answered" => s.answer \in Answer}

\* A run has declarations of its revision only.
GoodRun ==
  {r \in [status : {"none", "active", "degraded", "failed"}, rev : Rev \cup {"none"}, tools : SUBSET Tool] :
     \A x \in r.tools : r.rev \in Rev /\ x.decl \in Catalog[r.rev][x.name]}

ToolCall == [pc : Place, turn : Turn \cup {0}, target : Target \cup {"none"}, name : Name \cup {"none"},
             decl : Decl \cup {"none"}, ready : BOOLEAN, told : BOOLEAN, fate : {"none", "prepared", "bound"},
             seen : Rev \cup {"none"}, rev : Rev \cup {"none"}, answer : {Nothing} \cup Answer]

\* A call that is under way, or has ended with a fate, has its target; one on its way
\* to the business is no preparation, and one that is bound, is bound to what the
\* hub published.
IsGood(k) ==
  /\ k.pc # "idle" \/ k.fate # "none" => k.target \in Target
  /\ k.pc = "found" => k.answer \in Answer
  /\ k.pc = "business" => k.fate # "prepared"
  /\ k.fate = "bound" => k.decl \in Catalog[k.rev][k.name]

GoodCall == {k \in ToolCall : IsGood(k)}

\* The inductive invariant.  What is dispatched comes from a run, what a run has from
\* the cache at its revision, what the cache keeps from answers of the hub: each
\* of them is as its revision was published.
ToolsInvariant ==
  /\ turn \in Turn
  /\ cache \in Cache /\ Published(cache)
  /\ run \in [Target -> GoodRun]
  /\ start \in [Target -> GoodStart]
  /\ registry \subseteq Entry
  /\ queue \in Seq(Call)
  /\ call \in [Call -> GoodCall]
  /\ revision \in [Target -> Rev] /\ changes \in 0..MaxChanges /\ finished \subseteq Target

\* An answer is a response of its revision.
LEMMA AnswersAre ==
  ASSUME NEW a \in Answer
  PROVE  a.rev \in Rev /\ a.tools \in Response(a.rev) /\ a.tools \in Seq(Tool)
  <1>1. PICK r \in Rev : a \in Answers(r)
    BY DEF Answer
  <1>2. PICK s \in UNION {[1..n -> Tool] : n \in 1..Cardinality(Name)} :
          a = [rev |-> r, tools |-> s] /\ \A i \in DOMAIN s : s[i].decl \in Catalog[r][s[i].name]
    BY <1>1 DEF Answers
  <1>3. PICK n \in 1..Cardinality(Name) : s \in [1..n -> Tool]
    OBVIOUS
  <1>4. n \in Nat
    OBVIOUS
  <1>5. s \in Seq(Tool) /\ Len(s) = n /\ DOMAIN s = 1..n
    BY <1>3, <1>4
  <1> QED
    BY <1>1, <1>2, <1>5 DEF Response

LEMMA ToolsOfIs ==
  ASSUME NEW c \in Cache, NEW t
  PROVE  /\ ToolsOf(c, t) \subseteq Tool
         /\ Published(c) => \A x \in ToolsOf(c, t) : c.of[t].rev \in Rev /\ x.decl \in Catalog[c.of[t].rev][x.name]
  <1>1. Entries(c) \subseteq Entry
    BY CacheIs
  <1>2. \A x \in ToolsOf(c, t) : \E e \in Entries(c) : e.target = t /\ x.name = e.name /\ x.decl = e.decl
    BY DEF ToolsOf
  <1>3. ToolsOf(c, t) \subseteq Tool
    BY <1>1 DEF ToolsOf, Tool, Entry
  <1>4. ASSUME Published(c), NEW x \in ToolsOf(c, t)
        PROVE  c.of[t].rev \in Rev /\ x.decl \in Catalog[c.of[t].rev][x.name]
    BY <1>2, <1>4 DEF Published
  <1> QED
    BY <1>3, <1>4

LEMMA RunIs ==
  ASSUME NEW r \in GoodRun
  PROVE  /\ r.status \in {"none", "active", "degraded", "failed"} /\ r.rev \in Rev \cup {"none"} /\ r.tools \subseteq Tool
         /\ r = [status |-> r.status, rev |-> r.rev, tools |-> r.tools]
         /\ \A x \in r.tools : r.rev \in Rev /\ x.decl \in Catalog[r.rev][x.name]
  BY DEF GoodRun

LEMMA RunOf ==
  ASSUME NEW s \in {"none", "active", "degraded", "failed"}, NEW rev \in Rev \cup {"none"}, NEW tools \in SUBSET Tool,
         \A x \in tools : rev \in Rev /\ x.decl \in Catalog[rev][x.name]
  PROVE  [status |-> s, rev |-> rev, tools |-> tools] \in GoodRun
  BY DEF GoodRun

\* The tools that the runs are given are of their revisions.
LEMMA CapturedIs ==
  ASSUME ToolsInvariant, NEW new \in Cache, Published(new), NEW t \in Target, NEW rev \in Rev
  PROVE  Captured(new, t, rev) \in [Target -> GoodRun]
  <1> DEFINE R(u) == IF u = t THEN [status |-> "active", rev |-> rev, tools |-> {}] ELSE run[u]
             C(u) == IF R(u).rev = "none" THEN R(u)
                     ELSE [R(u) EXCEPT !.tools = IF new.of[u].rev = R(u).rev THEN ToolsOf(new, u) ELSE {}]
  <1>1. Captured(new, t, rev) = [u \in Target |-> C(u)]
    BY DEF Captured
  <1>2. ASSUME NEW u \in Target PROVE C(u) \in GoodRun
    <2>1. R(u) \in GoodRun
      <3>1. [status |-> "active", rev |-> rev, tools |-> {}] \in GoodRun
        BY RunOf
      <3> QED
        BY <3>1 DEF ToolsInvariant
    <2>2. PICK r \in GoodRun : r = R(u)
      BY <2>1
    <2> HIDE DEF R
    <2>3. CASE r.rev = "none"
      BY <2>1, <2>2, <2>3
    <2>4. CASE r.rev # "none"
      <3> DEFINE tools == IF new.of[u].rev = r.rev THEN ToolsOf(new, u) ELSE {}
      <3>1. tools \in SUBSET Tool /\ \A x \in tools : r.rev \in Rev /\ x.decl \in Catalog[r.rev][x.name]
        BY ToolsOfIs
      <3>2. C(u) = [r EXCEPT !.tools = tools]
        BY <2>2, <2>4
      <3> HIDE DEF tools
      <3>3. [r EXCEPT !.tools = tools] = [status |-> r.status, rev |-> r.rev, tools |-> tools]
        BY RunIs
      <3> HIDE DEF C
      <3>4. [status |-> r.status, rev |-> r.rev, tools |-> tools] \in GoodRun
        BY <3>1, RunIs, RunOf
      <3> QED
        BY <3>2, <3>3, <3>4
    <2> QED
      BY <2>3, <2>4
  <1> HIDE DEF C
  <1> QED
    BY <1>1, <1>2

LEMMA FreshIs == Fresh \in GoodCall
  <1>1. Fresh \in ToolCall
    BY DEF Fresh, ToolCall, Place
  <1>2. Fresh.pc = "idle" /\ Fresh.fate = "none"
    BY DEF Fresh
  <1> QED
    BY <1>1, <1>2 DEF GoodCall, IsGood

LEMMA NoRunIs == NoRun \in GoodRun /\ NoRun.status = "none" /\ NoRun.rev = "none" /\ NoRun.tools = {}
  BY DEF NoRun, GoodRun

LEMMA NoStartIs == NoStart \in GoodStart
  BY DEF NoStart, GoodStart

\* The first of the three facts: the invariant holds at the start.
LEMMA InitTools == ToolsInit => ToolsInvariant
  <1> SUFFICES ASSUME ToolsInit PROVE ToolsInvariant
    OBVIOUS
  <1>1. turn \in Turn /\ changes \in 0..MaxChanges
    BY MaxTurnIsNat, MaxChangesIsNat DEF ToolsInit, Turn
  <1>2. run \in [Target -> GoodRun] /\ start \in [Target -> GoodStart] /\ call \in [Call -> GoodCall]
    BY FreshIs, NoRunIs, NoStartIs DEF ToolsInit
  <1> QED
    BY <1>1, <1>2, EmptyIs DEF ToolsInit, ToolsInvariant

\* A call that ends.
LEMMA EndIs ==
  ASSUME ToolsInvariant, NEW c \in Call, call[c].pc # "idle", End(c)
  PROVE  call' \in [Call -> GoodCall] /\ queue' \in Seq(Call) /\ finished' \subseteq Target
  <1>1. call[c] \in GoodCall /\ call[c].target \in Target
    BY DEF ToolsInvariant, GoodCall, IsGood
  <1>2. PICK k \in GoodCall : k = call[c]
    BY <1>1
  <1>3. [k EXCEPT !.pc = "idle", !.ready = FALSE, !.answer = Nothing] \in GoodCall
    <2>1. PICK d : d = [k EXCEPT !.pc = "idle", !.ready = FALSE, !.answer = Nothing]
      OBVIOUS
    <2>2. k \in ToolCall /\ IsGood(k)
      BY DEF GoodCall
    <2>3. d \in ToolCall /\ d.pc = "idle" /\ d.fate = k.fate /\ d.target = k.target /\ d.decl = k.decl
          /\ d.rev = k.rev /\ d.name = k.name
      BY <2>1, <2>2 DEF ToolCall, Place
    <2>4. IsGood(d)
      BY <1>1, <1>2, <2>2, <2>3 DEF IsGood
    <2> QED
      BY <2>1, <2>3, <2>4 DEF GoodCall
  <1>4. call' = [call EXCEPT ![c] = IF call[c].fate = "none" \/ ~ Active(c) THEN Fresh
                   ELSE [call[c] EXCEPT !.pc = "idle", !.ready = FALSE, !.answer = Nothing]]
    BY DEF End
  <1>5. call' \in [Call -> GoodCall]
    BY <1>2, <1>3, <1>4, FreshIs DEF ToolsInvariant
  <1>6. queue' \in Seq(Call)
    BY DEF End, Released, AtHead, ToolsInvariant
  <1>7. finished' \subseteq Target
    BY <1>1 DEF End, TargetOf, ToolsInvariant
  <1> QED
    BY <1>5, <1>6, <1>7

\* A call whose record changes to another good one.
LEMMA CallBecomes ==
  ASSUME ToolsInvariant, NEW c \in Call, NEW k \in GoodCall, call' = [call EXCEPT ![c] = k]
  PROVE  call' \in [Call -> GoodCall]
  BY DEF ToolsInvariant

\* A step that only the call takes, and its place in the queue.
LEMMA CallOnly ==
  ASSUME ToolsInvariant, call' \in [Call -> GoodCall], queue' \in Seq(Call), finished' \subseteq Target,
         UNCHANGED <<turn, cache, run, start, registry, revision, changes>>
  PROVE  ToolsInvariant'
  BY DEF ToolsInvariant, Published, Entries

-----------------------------------------------------------------------------
(* Business tools: the steps.                                                *)

LEMMA CallOf ==
  ASSUME ToolsInvariant, NEW c \in Call
  PROVE  /\ call[c] \in GoodCall /\ call[c] \in ToolCall /\ IsGood(call[c])
         /\ call[c].pc # "idle" \/ call[c].fate # "none" => call[c].target \in Target
  BY DEF ToolsInvariant, GoodCall, IsGood

\* A call goes somewhere, and is otherwise as it was.
LEMMA Moves ==
  ASSUME ToolsInvariant, NEW c \in Call, NEW pc \in Place \ {"found"}, call[c].target \in Target,
         pc = "business" => call[c].fate # "prepared",
         Goto(c, pc)
  PROVE  call' \in [Call -> GoodCall]
  <1>1. PICK k : k = call[c]
    OBVIOUS
  <1>2. k \in ToolCall /\ IsGood(k)
    BY <1>1, CallOf
  <1>3. PICK d : d = [k EXCEPT !.pc = pc]
    OBVIOUS
  <1>4. d \in ToolCall /\ d.pc = pc /\ d.fate = k.fate /\ d.target = k.target /\ d.decl = k.decl
        /\ d.rev = k.rev /\ d.name = k.name
    BY <1>2, <1>3 DEF ToolCall, Place
  <1>5. IsGood(d)
    BY <1>1, <1>2, <1>4 DEF IsGood
  <1>6. call' = [call EXCEPT ![c] = d]
    BY <1>1, <1>3 DEF Goto
  <1> QED
    BY <1>4, <1>5, <1>6, CallBecomes DEF GoodCall

LEMMA SearchStep ==
  ASSUME ToolsInvariant, NEW c \in Call, NEW t \in Target, NEW name \in Name \cup {"none"}, Search(c, t, name)
  PROVE  ToolsInvariant'
  <1>1. PICK d : d = [Fresh EXCEPT !.pc = "queued", !.turn = turn, !.target = t, !.name = name]
    OBVIOUS
  <1>2. Fresh \in ToolCall
    BY FreshIs DEF GoodCall
  <1>3. d \in ToolCall /\ d.pc = "queued" /\ d.fate = Fresh.fate /\ d.target = t
    BY <1>1, <1>2 DEF ToolsInvariant, ToolCall, Place
  <1>4. IsGood(d)
    BY <1>3 DEF IsGood, Fresh
  <1>5. call' \in [Call -> GoodCall]
    BY <1>1, <1>3, <1>4, CallBecomes DEF Search, GoodCall
  <1>6. queue' \in Seq(Call)
    BY DEF Search, ToolsInvariant
  <1> QED
    BY <1>5, <1>6, CallOnly DEF Search, ToolsInvariant

LEMMA ExecuteStep ==
  ASSUME ToolsInvariant, NEW c \in Call, NEW e \in registry, Execute(c, e)
  PROVE  ToolsInvariant'
  <1>0. e.target \in Target /\ e.name \in Name /\ e.decl \in Decl
    BY DEF ToolsInvariant, Entry
  <1> DEFINE ready == IsReady(e.target, [name |-> e.name, decl |-> e.decl])
             told == e.target \in finished
  <1>r. ready \in BOOLEAN /\ told \in BOOLEAN
    BY DEF IsReady
  <1>1. PICK d : d = [Fresh EXCEPT !.pc = "entered", !.turn = turn, !.target = e.target, !.name = e.name,
                                   !.decl = e.decl, !.ready = ready, !.told = told]
    OBVIOUS
  <1>2. Fresh \in ToolCall
    BY FreshIs DEF GoodCall
  <1>6. call' = [call EXCEPT ![c] = d]
    BY <1>1 DEF Execute
  <1> HIDE DEF ready, told
  <1>3. d \in ToolCall /\ d.pc = "entered" /\ d.fate = Fresh.fate /\ d.target = e.target
    BY <1>0, <1>1, <1>2, <1>r DEF ToolsInvariant, ToolCall, Place
  <1>4. IsGood(d)
    BY <1>0, <1>3 DEF IsGood, Fresh
  <1>5. call' \in [Call -> GoodCall]
    BY <1>3, <1>4, <1>6, CallBecomes DEF GoodCall
  <1> QED
    BY <1>5, CallOnly DEF Execute, ToolsInvariant

LEMMA ReplayStep ==
  ASSUME ToolsInvariant, NEW c \in Call, Replay(c)
  PROVE  ToolsInvariant'
  <1> DEFINE ready == IsReady(TargetOf(c), ToolOf(c))
  <1>r. ready \in BOOLEAN
    BY DEF IsReady
  <1>1. PICK k : k = call[c]
    OBVIOUS
  <1>2. k \in ToolCall /\ IsGood(k) /\ k.target \in Target
    BY <1>1, CallOf DEF Replay
  <1>3. PICK d : d = [k EXCEPT !.pc = "entered", !.ready = ready]
    OBVIOUS
  <1>6. call' = [call EXCEPT ![c] = d]
    BY <1>1, <1>3 DEF Replay
  <1> HIDE DEF ready
  <1>4. d \in ToolCall /\ d.pc = "entered" /\ d.fate = k.fate /\ d.target = k.target /\ d.decl = k.decl
        /\ d.rev = k.rev /\ d.name = k.name
    BY <1>2, <1>3, <1>r DEF ToolCall, Place
  <1>5. IsGood(d)
    BY <1>2, <1>4 DEF IsGood
  <1>7. call' \in [Call -> GoodCall]
    BY <1>4, <1>5, <1>6, CallBecomes DEF GoodCall
  <1> QED
    BY <1>7, CallOnly DEF Replay, ToolsInvariant

\* What is known of the targets stays, and the kept entries.
LEMMA TouchStays ==
  ASSUME NEW c \in Cache, Published(c), NEW t, NEW name
  PROVE  Touch(c, t, name) \in Cache /\ Published(Touch(c, t, name)) /\ Entries(Touch(c, t, name)) \subseteq Entry
  <1>1. PICK d : d = Touch(c, t, name)
    OBVIOUS
  <1>2. d \in Cache /\ d.of = c.of /\ Entries(d) = Entries(c)
    BY <1>1, TouchIs
  <1>3. Published(d)
    BY <1>2, LessIsPublished
  <1> QED
    BY <1>1, <1>2, <1>3, CacheIs

LEMMA EnterStep ==
  ASSUME ToolsInvariant, NEW c \in Call, Enter(c)
  PROVE  ToolsInvariant'
  <1>0. call[c].pc = "entered" /\ call[c].target \in Target
    BY CallOf DEF Enter, At
  <1>1. CASE End(c) /\ UNCHANGED cache
    <2>1. call' \in [Call -> GoodCall] /\ queue' \in Seq(Call) /\ finished' \subseteq Target
      BY <1>0, <1>1, EndIs
    <2> QED
      BY <1>1, <2>1, CallOnly DEF Enter
  <1>2. CASE /\ ~ IsPrepared(c) /\ cache' = Touch(cache, call[c].target, call[c].name)
             /\ call' = [call EXCEPT ![c].pc = "business",
                                     ![c].seen = IF call[c].fate = "bound" THEN call[c].rev ELSE run[call[c].target].rev]
             /\ UNCHANGED <<queue, finished>>
    <2> DEFINE seen == IF call[c].fate = "bound" THEN call[c].rev ELSE run[call[c].target].rev
    <2>a. PICK k : k = call[c]
      OBVIOUS
    <2>b. k \in ToolCall /\ IsGood(k) /\ k.fate # "prepared"
      BY <1>2, <2>a, CallOf DEF IsPrepared
    <2>c. seen \in Rev \cup {"none"}
      <3>1. run[call[c].target] \in GoodRun
        BY <1>0 DEF ToolsInvariant
      <3>2. run[call[c].target].rev \in Rev \cup {"none"}
        BY <3>1, RunIs
      <3>3. call[c].rev \in Rev \cup {"none"}
        BY <2>a, <2>b DEF ToolCall
      <3> QED
        BY <3>2, <3>3
    <2>d. call' = [call EXCEPT ![c] = [k EXCEPT !.pc = "business", !.seen = seen]]
      BY <1>2, <2>a
    <2> HIDE DEF seen
    <2>e. PICK d : d = [k EXCEPT !.pc = "business", !.seen = seen]
      OBVIOUS
    <2>f. d \in ToolCall /\ d.pc = "business" /\ d.fate = k.fate /\ d.target = k.target /\ d.decl = k.decl
          /\ d.rev = k.rev /\ d.name = k.name
      BY <2>b, <2>c, <2>e DEF ToolCall, Place
    <2>g. IsGood(d)
      BY <1>0, <2>a, <2>b, <2>f DEF IsGood
    <2>1. call' \in [Call -> GoodCall]
      BY <2>d, <2>e, <2>f, <2>g, CallBecomes DEF GoodCall
    <2>2. cache' \in Cache /\ Published(cache')
      BY <1>2, TouchStays DEF ToolsInvariant
    <2>3. Published(cache)'
      BY <2>2 DEF Published, Entries
    <2> QED
      BY <1>2, <2>1, <2>2, <2>3 DEF Enter, ToolsInvariant
  <1>3. CASE /\ call' = [call EXCEPT ![c].pc = "queued", ![c].fate = "prepared"]
             /\ queue' = Append(queue, c) /\ UNCHANGED <<cache, finished>>
    <2>1. PICK k : k = call[c]
      OBVIOUS
    <2>2. k \in ToolCall /\ IsGood(k)
      BY <2>1, CallOf
    <2>3. PICK d : d = [k EXCEPT !.pc = "queued", !.fate = "prepared"]
      OBVIOUS
    <2>4. d \in ToolCall /\ d.pc = "queued" /\ d.fate = "prepared" /\ d.target = k.target
      BY <2>2, <2>3 DEF ToolCall, Place
    <2>5. IsGood(d)
      BY <1>0, <2>1, <2>4 DEF IsGood
    <2>6. call' = [call EXCEPT ![c] = d]
      BY <1>3, <2>1, <2>3
    <2>7. call' \in [Call -> GoodCall]
      BY <2>4, <2>5, <2>6, CallBecomes DEF GoodCall
    <2>8. queue' \in Seq(Call)
      BY <1>3 DEF ToolsInvariant
    <2> QED
      BY <1>3, <2>7, <2>8, CallOnly DEF Enter, ToolsInvariant
  <1> QED
    BY <1>1, <1>2, <1>3 DEF Enter

LEMMA FailStep ==
  ASSUME ToolsInvariant, NEW c \in Call, Fail(c)
  PROVE  ToolsInvariant'
  <1>1. call' \in [Call -> GoodCall] /\ queue' \in Seq(Call) /\ finished' \subseteq Target
    BY EndIs DEF Fail
  <1> QED
    BY <1>1, CallOnly DEF Fail

LEMMA BeginSearchStep ==
  ASSUME ToolsInvariant, NEW c \in Call, BeginSearch(c)
  PROVE  ToolsInvariant'
  <1>1. call' \in [Call -> GoodCall]
    BY CallOf, Moves DEF BeginSearch, At, Place
  <1> QED
    BY <1>1, CallOnly DEF BeginSearch, ToolsInvariant

LEMMA PrepareStep ==
  ASSUME ToolsInvariant, NEW c \in Call, Prepare(c)
  PROVE  ToolsInvariant'
  <1>0. call[c].pc = "prepare" /\ call[c].target \in Target /\ TargetOf(c) \in Target
    BY CallOf DEF Prepare, At, TargetOf
  <1>1. CASE /\ start' = [start EXCEPT ![TargetOf(c)].state = "asked"]
             /\ run' = [run EXCEPT ![TargetOf(c)] = NoRun] /\ Goto(c, "starting")
    <2>1. call' \in [Call -> GoodCall]
      BY <1>0, <1>1, Moves DEF Place
    <2>2. start' \in [Target -> GoodStart]
      BY <1>0, <1>1 DEF ToolsInvariant, GoodStart
    <2>3. run' \in [Target -> GoodRun]
      BY <1>0, <1>1, NoRunIs DEF ToolsInvariant
    <2> QED
      BY <2>1, <2>2, <2>3 DEF Prepare, ToolsInvariant, Published, Entries
  <1>2. CASE Goto(c, "authorize") /\ UNCHANGED <<start, run>>
    <2>1. call' \in [Call -> GoodCall]
      BY <1>0, <1>2, Moves DEF Place
    <2> QED
      BY <1>2, <2>1, CallOnly DEF Prepare, ToolsInvariant
  <1> QED
    BY <1>1, <1>2 DEF Prepare

LEMMA StartedStep ==
  ASSUME ToolsInvariant, NEW t \in Target, Started(t)
  PROVE  ToolsInvariant'
  <1>1. start' \in [Target -> GoodStart]
    <2>1. CASE \E a \in Answers(revision[t]) : start' = [start EXCEPT ![t] = [state |-> "answered", answer |-> a]]
      <3>1. PICK a \in Answers(revision[t]) : start' = [start EXCEPT ![t] = [state |-> "answered", answer |-> a]]
        BY <2>1
      <3>2. revision[t] \in Rev
        BY DEF ToolsInvariant
      <3>3. a \in Answer
        BY <3>2 DEF Answer
      <3>4. [state |-> "answered", answer |-> a] \in GoodStart
        BY <3>3 DEF GoodStart
      <3> QED
        BY <3>1, <3>4 DEF ToolsInvariant
    <2>2. CASE start' = [start EXCEPT ![t].state = "lost"]
      BY <2>2 DEF ToolsInvariant, GoodStart
    <2> QED
      BY <2>1, <2>2 DEF Started
  <1> QED
    BY <1>1 DEF Started, ToolsInvariant, Published, Entries

LEMMA TakeStartStep ==
  ASSUME ToolsInvariant, NEW t \in Target, TakeStart(t)
  PROVE  ToolsInvariant'
  <1>1. start' \in [Target -> GoodStart]
    BY NoStartIs DEF TakeStart, ToolsInvariant
  <1>2. CASE /\ start[t].state = "answered" /\ cache' = Merge(cache, t, start[t].answer.rev, start[t].answer.tools)
             /\ run' = Captured(cache', t, start[t].answer.rev)
    <2>1. start[t].answer \in Answer
      BY <1>2 DEF ToolsInvariant, GoodStart
    <2>2. PICK a \in Answer : a = start[t].answer
      BY <2>1
    <2>3. PICK rev \in Rev : rev = a.rev
      BY AnswersAre
    <2>4. PICK tools \in Response(rev) : tools = a.tools
      BY <2>3, AnswersAre
    <2>5. PICK new \in Cache : new = Merge(cache, t, rev, tools) /\ Published(new)
      BY MergeIs DEF ToolsInvariant
    <2>6. cache' = new
      BY <1>2, <2>2, <2>3, <2>4, <2>5
    <2>7. run' \in [Target -> GoodRun]
      BY <1>2, <2>2, <2>3, <2>5, <2>6, CapturedIs
    <2>8. Published(cache)'
      BY <2>5, <2>6 DEF Published, Entries
    <2> QED
      BY <1>1, <2>6, <2>7, <2>8 DEF TakeStart, ToolsInvariant
  <1>3. CASE UNCHANGED cache /\ \E status \in {"degraded", "failed"} : run' = [run EXCEPT ![t] = [NoRun EXCEPT !.status = status]]
    <2>1. PICK status \in {"degraded", "failed"} : run' = [run EXCEPT ![t] = [NoRun EXCEPT !.status = status]]
      BY <1>3
    <2>2. [NoRun EXCEPT !.status = status] \in GoodRun
      BY DEF NoRun, GoodRun
    <2>3. run' \in [Target -> GoodRun]
      BY <2>1, <2>2 DEF ToolsInvariant
    <2> QED
      BY <1>1, <1>3, <2>3 DEF TakeStart, ToolsInvariant, Published, Entries
  <1> QED
    BY <1>2, <1>3 DEF TakeStart

LEMMA PreparedStep ==
  ASSUME ToolsInvariant, NEW c \in Call, Prepared(c)
  PROVE  ToolsInvariant'
  <1>1. call' \in [Call -> GoodCall]
    BY CallOf, Moves DEF Prepared, At, Place
  <1> QED
    BY <1>1, CallOnly DEF Prepared, ToolsInvariant

LEMMA AuthorizedStep ==
  ASSUME ToolsInvariant, NEW c \in Call, Authorized(c)
  PROVE  ToolsInvariant'
  <1>0. call[c].pc = "authorize" /\ call[c].target \in Target
    BY CallOf DEF Authorized, At
  <1>1. CASE cache' = Touch(cache, TargetOf(c), call[c].name) /\ Registered(cache') /\ End(c)
    <2>1. call' \in [Call -> GoodCall] /\ queue' \in Seq(Call) /\ finished' \subseteq Target
      BY <1>0, <1>1, EndIs
    <2>2. PICK new : new = Touch(cache, TargetOf(c), call[c].name)
      OBVIOUS
    <2>3. new \in Cache /\ Published(new) /\ Entries(new) \subseteq Entry
      BY <2>2, TouchStays DEF ToolsInvariant
    <2>4. cache' = new /\ registry' = Entries(new)
      BY <1>1, <2>2 DEF Registered
    <2>5. Published(cache)'
      BY <2>3, <2>4 DEF Published, Entries
    <2> QED
      BY <2>1, <2>3, <2>4, <2>5 DEF Authorized, ToolsInvariant
  <1>2. CASE Goto(c, "search") /\ UNCHANGED <<cache, registry, queue, finished>>
    <2>1. call' \in [Call -> GoodCall]
      BY <1>0, <1>2, Moves DEF Place
    <2> QED
      BY <1>2, <2>1, CallOnly DEF Authorized, ToolsInvariant
  <1> QED
    BY <1>1, <1>2 DEF Authorized

LEMMA AnsweredStep ==
  ASSUME ToolsInvariant, NEW c \in Call, Answered(c)
  PROVE  ToolsInvariant'
  <1>1. PICK k : k = call[c]
    OBVIOUS
  <1>2. k \in ToolCall /\ IsGood(k) /\ k.target \in Target
    BY <1>1, CallOf DEF Answered, At
  <1>3. PICK a \in Answers(revision[TargetOf(c)]) : call' = [call EXCEPT ![c].pc = "found", ![c].answer = a]
    BY DEF Answered
  <1>4. a \in Answer
    <2>1. revision[TargetOf(c)] \in Rev
      BY <1>1, <1>2 DEF ToolsInvariant, TargetOf
    <2> QED
      BY <2>1 DEF Answer
  <1>5. PICK d : d = [k EXCEPT !.pc = "found", !.answer = a]
    OBVIOUS
  <1>6. d \in ToolCall /\ d.pc = "found" /\ d.fate = k.fate /\ d.target = k.target /\ d.decl = k.decl
        /\ d.rev = k.rev /\ d.name = k.name /\ d.answer = a
    BY <1>2, <1>4, <1>5 DEF ToolCall, Place
  <1>7. IsGood(d)
    BY <1>2, <1>4, <1>6 DEF IsGood
  <1>8. call' = [call EXCEPT ![c] = d]
    BY <1>1, <1>3, <1>5
  <1>9. call' \in [Call -> GoodCall]
    BY <1>6, <1>7, <1>8, CallBecomes DEF GoodCall
  <1> QED
    BY <1>9, CallOnly DEF Answered, ToolsInvariant

LEMMA TakeAnswerStep ==
  ASSUME ToolsInvariant, NEW c \in Call, TakeAnswer(c)
  PROVE  ToolsInvariant'
  <1>0. call[c].pc = "found" /\ call[c].target \in Target /\ call[c].answer \in Answer
    BY CallOf DEF TakeAnswer, At, IsGood
  <1>1. call' \in [Call -> GoodCall] /\ queue' \in Seq(Call) /\ finished' \subseteq Target
    BY <1>0, EndIs DEF TakeAnswer
  <1>2. PICK a \in Answer : a = call[c].answer
    BY <1>0
  <1>3. PICK rev \in Rev : rev = a.rev
    BY AnswersAre
  <1>4. PICK tools \in Response(rev) : tools = a.tools
    BY <1>3, AnswersAre
  <1>5. PICK t \in Target : t = TargetOf(c)
    BY <1>0 DEF TargetOf
  <1>6. PICK new \in Cache : new = Merge(cache, t, rev, tools) /\ Published(new)
    BY MergeIs DEF ToolsInvariant
  <1>7. PICK d \in Cache : d = TouchAll(new, t, tools) /\ d.of = new.of /\ Entries(d) = Entries(new)
    <2>1. tools \in Seq(Tool)
      BY DEF Response
    <2> QED
      BY <2>1, TouchAllIs
  <1>8. Published(d)
    BY <1>6, <1>7, LessIsPublished
  <1>9. run' = Captured(new, t, rev) /\ cache' = d /\ registry' = Entries(new)
    BY <1>2, <1>3, <1>4, <1>5, <1>6, <1>7 DEF TakeAnswer, Registered
  <1>10. run' \in [Target -> GoodRun]
    BY <1>6, <1>9, CapturedIs
  <1>11. Published(cache)'
    BY <1>8, <1>9 DEF Published, Entries
  <1>12. registry' \subseteq Entry
    BY <1>9, CacheIs
  <1> QED
    BY <1>1, <1>9, <1>10, <1>11, <1>12 DEF TakeAnswer, ToolsInvariant

LEMMA DispatchStep ==
  ASSUME ToolsInvariant, NEW c \in Call, Dispatch(c)
  PROVE  ToolsInvariant'
  <1>0. call[c].pc = "business" /\ call[c].target \in Target
    BY CallOf DEF Dispatch, At
  <1>1. CASE Goto(c, "sent")
    <2>1. call' \in [Call -> GoodCall]
      BY <1>0, <1>1, Moves DEF Place
    <2> QED
      BY <2>1, CallOnly DEF Dispatch, ToolsInvariant
  <1>2. CASE /\ IsReady(call[c].target, ToolOf(c))
             /\ call' = [call EXCEPT ![c].pc = "sent", ![c].fate = "bound", ![c].rev = run[call[c].target].rev]
    <2>1. PICK k : k = call[c]
      OBVIOUS
    <2>2. k \in ToolCall /\ IsGood(k) /\ k.target \in Target
      BY <1>0, <2>1, CallOf
    <2>3. PICK r \in GoodRun : r = run[k.target]
      BY <2>2 DEF ToolsInvariant
    <2>4. r.rev \in Rev /\ k.decl \in Catalog[r.rev][k.name]
      <3>1. [name |-> k.name, decl |-> k.decl] \in r.tools
        BY <1>2, <2>1, <2>3 DEF IsReady, ToolOf
      <3> QED
        BY <3>1, RunIs
    <2>5. PICK d : d = [k EXCEPT !.pc = "sent", !.fate = "bound", !.rev = r.rev]
      OBVIOUS
    <2>6. d \in ToolCall /\ d.pc = "sent" /\ d.fate = "bound" /\ d.target = k.target /\ d.decl = k.decl
          /\ d.rev = r.rev /\ d.name = k.name
      BY <2>2, <2>4, <2>5 DEF ToolCall, Place
    <2>7. IsGood(d)
      BY <2>2, <2>4, <2>6 DEF IsGood
    <2>8. call' = [call EXCEPT ![c] = d]
      BY <1>2, <2>1, <2>3, <2>5
    <2>9. call' \in [Call -> GoodCall]
      BY <2>6, <2>7, <2>8, CallBecomes DEF GoodCall
    <2> QED
      BY <2>9, CallOnly DEF Dispatch, ToolsInvariant
  <1> QED
    BY <1>1, <1>2 DEF Dispatch

LEMMA SucceedStep ==
  ASSUME ToolsInvariant, NEW c \in Call, Succeed(c)
  PROVE  ToolsInvariant'
  <1>1. call' \in [Call -> GoodCall] /\ queue' \in Seq(Call) /\ finished' \subseteq Target
    BY EndIs DEF Succeed, At
  <1> QED
    BY <1>1, CallOnly DEF Succeed

LEMMA RefusedStep ==
  ASSUME ToolsInvariant, NEW c \in Call, Refused(c)
  PROVE  ToolsInvariant'
  <1>1. call[c].target \in Target
    BY CallOf DEF Refused, At
  <1>2. call' \in [Call -> GoodCall]
    BY <1>1, Moves DEF Refused, Place
  <1> QED
    BY <1>2, CallOnly DEF Refused, ToolsInvariant

LEMMA RejectStep ==
  ASSUME ToolsInvariant, NEW c \in Call, Reject(c)
  PROVE  ToolsInvariant'
  <1>1. call' \in [Call -> GoodCall] /\ queue' \in Seq(Call) /\ finished' \subseteq Target
    BY EndIs DEF Reject, At
  <1>2. TargetOf(c) \in Target
    BY CallOf DEF Reject, At, TargetOf
  <1>3. CASE /\ cache' = Invalidated(cache, TargetOf(c)) /\ run' = [run EXCEPT ![TargetOf(c)].tools = {}]
             /\ Registered(cache')
    <2>1. PICK new \in Cache : new = Invalidated(cache, TargetOf(c)) /\ new.of = cache.of /\ Entries(new) \subseteq Entries(cache)
      BY InvalidatedIs DEF ToolsInvariant
    <2>2. Published(new)
      BY <2>1, LessIsPublished DEF ToolsInvariant
    <2>3. cache' = new /\ registry' = Entries(new)
      BY <1>3, <2>1 DEF Registered
    <2>4. Published(cache)' /\ registry' \subseteq Entry
      BY <2>2, <2>3, CacheIs DEF Published, Entries
    <2>5. run' \in [Target -> GoodRun]
      <3>1. PICK r \in GoodRun : r = run[TargetOf(c)]
        BY <1>2 DEF ToolsInvariant
      <3> DEFINE none == {}
      <3>2. none \in SUBSET Tool /\ \A x \in none : FALSE
        OBVIOUS
      <3>3. run' = [run EXCEPT ![TargetOf(c)] = [r EXCEPT !.tools = none]]
        BY <1>3, <3>1
      <3> HIDE DEF none
      <3>4. [r EXCEPT !.tools = none] = [status |-> r.status, rev |-> r.rev, tools |-> none]
        BY RunIs
      <3>5. [status |-> r.status, rev |-> r.rev, tools |-> none] \in GoodRun
        BY <3>2, RunIs, RunOf
      <3> QED
        BY <3>3, <3>4, <3>5 DEF ToolsInvariant
    <2> QED
      BY <1>1, <2>3, <2>4, <2>5 DEF Reject, ToolsInvariant
  <1>4. CASE UNCHANGED <<cache, run, registry>>
    BY <1>1, <1>4, CallOnly DEF Reject
  <1> QED
    BY <1>3, <1>4 DEF Reject

LEMMA NextTurnStep ==
  ASSUME ToolsInvariant, NextTurn
  PROVE  ToolsInvariant'
  <1>1. turn' \in Turn
    BY MaxTurnIsNat DEF ToolsInvariant, NextTurn, Turn
  <1>2. run' \in [Target -> GoodRun] /\ start' \in [Target -> GoodStart] /\ call' \in [Call -> GoodCall]
    BY NoRunIs, NoStartIs, FreshIs DEF ToolsInvariant, NextTurn
  <1>3. registry' \subseteq Entry
    BY CacheIs DEF ToolsInvariant, NextTurn
  <1>4. queue' \in Seq(Call)
    BY DEF NextTurn
  <1> QED
    BY <1>1, <1>2, <1>3, <1>4 DEF NextTurn, ToolsInvariant, Published, Entries

LEMMA ReviseStep ==
  ASSUME ToolsInvariant, NEW t \in Target, Revise(t)
  PROVE  ToolsInvariant'
  <1>1. changes' \in 0..MaxChanges
    BY MaxChangesIsNat DEF Revise, ToolsInvariant
  <1>2. PICK r \in Successors[revision[t]] : revision' = [revision EXCEPT ![t] = r]
    BY DEF Revise
  <1>3. r \in Rev
    BY SuccessorsAreRevisions DEF ToolsInvariant
  <1>4. revision' \in [Target -> Rev]
    BY <1>2, <1>3 DEF ToolsInvariant
  <1> QED
    BY <1>1, <1>4 DEF Revise, ToolsInvariant, Published, Entries

\* The second: every step keeps it.
LEMMA ToolsStep == ToolsInvariant /\ [ToolsNext]_toolsVars => ToolsInvariant'
  <1> SUFFICES ASSUME ToolsInvariant, [ToolsNext]_toolsVars PROVE ToolsInvariant'
    OBVIOUS
  <1>1. CASE UNCHANGED toolsVars
    BY <1>1 DEF toolsVars, ToolsInvariant, Published, Entries
  <1>2. ASSUME NEW c \in Call, Step(c) PROVE ToolsInvariant'
    BY <1>2, EnterStep, FailStep, BeginSearchStep, PrepareStep, PreparedStep, AuthorizedStep, AnsweredStep,
       TakeAnswerStep, DispatchStep, SucceedStep, RefusedStep, RejectStep DEF Step
  <1>3. ASSUME NEW c \in Call, NEW t \in Target, NEW name \in Name \cup {"none"}, Search(c, t, name) PROVE ToolsInvariant'
    BY <1>3, SearchStep
  <1>4. ASSUME NEW c \in Call, NEW e \in registry, Execute(c, e) PROVE ToolsInvariant'
    BY <1>4, ExecuteStep
  <1>5. ASSUME NEW c \in Call, Replay(c) PROVE ToolsInvariant'
    BY <1>5, ReplayStep
  <1>6. ASSUME NEW t \in Target, Started(t) \/ TakeStart(t) \/ Revise(t) PROVE ToolsInvariant'
    BY <1>6, StartedStep, TakeStartStep, ReviseStep
  <1> QED
    BY <1>1, <1>2, <1>3, <1>4, <1>5, <1>6, NextTurnStep DEF ToolsNext

LEMMA ToolsInvariance == ToolsSpec => []ToolsInvariant
  BY InitTools, ToolsStep, PTL DEF ToolsSpec

LEMMA InvariantImpliesTypes == ToolsInvariant => ToolsTypeOK
  <1> SUFFICES ASSUME ToolsInvariant PROVE ToolsTypeOK
    OBVIOUS
  <1>1. run \in [Target -> [status : {"none", "active", "degraded", "failed"}, rev : Rev \cup {"none"}, tools : SUBSET Tool]]
    BY DEF ToolsInvariant, GoodRun
  <1>2. \A t \in Target : start[t].state \in {"none", "asked", "answered", "lost"}
                          /\ start[t].answer \in {Nothing} \cup UNION {Answers(r) : r \in Rev}
    BY DEF ToolsInvariant, GoodStart, Answer
  <1>3. \A c \in Call :
       /\ call[c].pc \in Place /\ call[c].turn \in Turn \cup {0}
       /\ call[c].target \in Target \cup {"none"}
       /\ call[c].name \in Name \cup {"none"} /\ call[c].decl \in Decl \cup {"none"}
       /\ call[c].fate \in {"none", "prepared", "bound"}
       /\ call[c].seen \in Rev \cup {"none"} /\ call[c].rev \in Rev \cup {"none"}
    BY CallOf DEF ToolCall
  <1> QED
    BY <1>1, <1>2, <1>3 DEF ToolsInvariant, ToolsTypeOK, Entry

\* Every variable keeps its type; in particular the cache never holds more than
\* MaxTools declarations, whatever is merged, touched or contradicted.
THEOREM ToolsTypeCorrect == ToolsSpec => []ToolsTypeOK
  BY ToolsInvariance, InvariantImpliesTypes, PTL

LEMMA InvariantImpliesPublished == ToolsInvariant => DispatchedAsPublished
  BY CallOf DEF DispatchedAsPublished, IsGood

\* Whatever was cached in earlier turns, a business call carries a declaration of
\* the revision it is sent with (authorizedDefinition, replaceSessionTools).
THEOREM DispatchedAsPublishedHolds == ToolsSpec => []DispatchedAsPublished
  BY ToolsInvariance, InvariantImpliesPublished, PTL

\* The id of a call whose record a step leaves, or only moves.
LEMMA EndKeeps ==
  ASSUME ToolsInvariant, NEW c \in Call, End(c), call[c].fate = "prepared", NEW d \in Call, d = c
  PROVE  call'[d].fate # "bound"
  <1>1. call[c] \in ToolCall
    BY CallOf
  <1>2. PICK k \in ToolCall : k = call[c]
    BY <1>1
  <1>3. [k EXCEPT !.pc = "idle", !.ready = FALSE, !.answer = Nothing].fate = k.fate
    BY DEF ToolCall
  <1>4. Fresh.fate = "none"
    BY DEF Fresh
  <1>5. call'[c] = IF call[c].fate = "none" \/ ~ Active(c) THEN Fresh
                   ELSE [call[c] EXCEPT !.pc = "idle", !.ready = FALSE, !.answer = Nothing]
    BY DEF End, ToolsInvariant
  <1> QED
    BY <1>2, <1>3, <1>4, <1>5

\* A step of a call is one of that call only.
LEMMA OthersStay ==
  ASSUME ToolsInvariant, NEW c \in Call, NEW d \in Call \ {c},
         \/ Step(c) \/ Replay(c)
         \/ \E t \in Target, name \in Name \cup {"none"} : Search(c, t, name)
         \/ \E e \in registry : Execute(c, e)
  PROVE  call'[d] = call[d]
  <1>1. ASSUME End(c) PROVE call'[d] = call[d]
    BY <1>1 DEF End, ToolsInvariant
  <1>2. ASSUME NEW pc, Goto(c, pc) PROVE call'[d] = call[d]
    BY <1>2 DEF Goto, ToolsInvariant
  <1>3. ASSUME Enter(c) PROVE call'[d] = call[d]
    BY <1>1, <1>2, <1>3 DEF Enter, ToolsInvariant
  <1>4. ASSUME Authorized(c) \/ Prepare(c) PROVE call'[d] = call[d]
    BY <1>1, <1>2, <1>4 DEF Authorized, Prepare
  <1>5. ASSUME Answered(c) PROVE call'[d] = call[d]
    BY <1>5 DEF Answered, ToolsInvariant
  <1>6. ASSUME Dispatch(c) PROVE call'[d] = call[d]
    BY <1>2, <1>6 DEF Dispatch, ToolsInvariant
  <1>7. ASSUME Fail(c) \/ Succeed(c) \/ Reject(c) \/ TakeAnswer(c) PROVE call'[d] = call[d]
    BY <1>1, <1>7 DEF Fail, Succeed, Reject, TakeAnswer
  <1>8. ASSUME BeginSearch(c) \/ Prepared(c) \/ Refused(c) PROVE call'[d] = call[d]
    BY <1>2, <1>8 DEF BeginSearch, Prepared, Refused
  <1>9. ASSUME Replay(c) PROVE call'[d] = call[d]
    BY <1>9 DEF Replay, ToolsInvariant
  <1>10. ASSUME NEW t \in Target, NEW name \in Name \cup {"none"}, Search(c, t, name) PROVE call'[d] = call[d]
    BY <1>10 DEF Search, ToolsInvariant
  <1>11. ASSUME NEW e \in registry, Execute(c, e) PROVE call'[d] = call[d]
    BY <1>11 DEF Execute, ToolsInvariant
  <1> QED
    BY <1>3, <1>4, <1>5, <1>6, <1>7, <1>8, <1>9, <1>10, <1>11 DEF Step

\* A preparation's call is not bound by its own step either.
LEMMA NeverBound ==
  ASSUME ToolsInvariant, NEW c \in Call, call[c].fate = "prepared",
         \/ Step(c) \/ Replay(c)
         \/ \E t \in Target, name \in Name \cup {"none"} : Search(c, t, name)
         \/ \E e \in registry : Execute(c, e)
  PROVE  call'[c].fate # "bound"
  <1>1. PICK k \in ToolCall : k = call[c]
    BY CallOf
  <1>2. k.fate = "prepared" /\ k.pc # "business"
    BY <1>1, CallOf DEF IsGood
  <1>3. ASSUME End(c) PROVE call'[c].fate # "bound"
    BY <1>3, EndKeeps
  <1>4. ASSUME NEW pc, Goto(c, pc) PROVE call'[c].fate # "bound"
    <2>1. call'[c] = [k EXCEPT !.pc = pc]
      BY <1>1, <1>4 DEF Goto, ToolsInvariant
    <2>2. [k EXCEPT !.pc = pc].fate = k.fate
      BY DEF ToolCall
    <2> QED
      BY <1>2, <2>1, <2>2
  <1>5. ASSUME Enter(c) PROVE call'[c].fate # "bound"
    <2>1. ASSUME call' = [call EXCEPT ![c].pc = "queued", ![c].fate = "prepared"] PROVE call'[c].fate # "bound"
      <3>1. call'[c] = [k EXCEPT !.pc = "queued", !.fate = "prepared"]
        BY <1>1, <2>1 DEF ToolsInvariant
      <3>2. [k EXCEPT !.pc = "queued", !.fate = "prepared"].fate = "prepared"
        BY DEF ToolCall
      <3> QED
        BY <3>1, <3>2
    <2>2. ASSUME NEW rev, call' = [call EXCEPT ![c].pc = "business", ![c].seen = rev] PROVE call'[c].fate # "bound"
      <3>1. call'[c] = [k EXCEPT !.pc = "business", !.seen = rev]
        BY <1>1, <2>2 DEF ToolsInvariant
      <3>2. [k EXCEPT !.pc = "business", !.seen = rev].fate = k.fate
        BY DEF ToolCall
      <3> QED
        BY <1>2, <3>1, <3>2
    <2> QED
      BY <1>3, <1>5, <2>1, <2>2 DEF Enter
  <1>6. ASSUME Authorized(c) \/ Prepare(c) PROVE call'[c].fate # "bound"
    BY <1>3, <1>4, <1>6 DEF Authorized, Prepare
  <1>7. ASSUME Answered(c) PROVE call'[c].fate # "bound"
    <2>1. PICK a : call' = [call EXCEPT ![c].pc = "found", ![c].answer = a]
      BY <1>7 DEF Answered
    <2>2. call'[c] = [k EXCEPT !.pc = "found", !.answer = a]
      BY <1>1, <2>1 DEF ToolsInvariant
    <2>3. [k EXCEPT !.pc = "found", !.answer = a].fate = k.fate
      BY DEF ToolCall
    <2> QED
      BY <1>2, <2>2, <2>3
  <1>8. ~ Dispatch(c)
    BY <1>1, <1>2 DEF Dispatch, At
  <1>9. ASSUME Fail(c) \/ Succeed(c) \/ Reject(c) \/ TakeAnswer(c) PROVE call'[c].fate # "bound"
    BY <1>3, <1>9 DEF Fail, Succeed, Reject, TakeAnswer
  <1>10. ASSUME BeginSearch(c) \/ Prepared(c) \/ Refused(c) PROVE call'[c].fate # "bound"
    BY <1>4, <1>10 DEF BeginSearch, Prepared, Refused
  <1>11. ASSUME Replay(c) PROVE call'[c].fate # "bound"
    <2> DEFINE ready == IsReady(TargetOf(c), ToolOf(c))
    <2>1. call'[c] = [k EXCEPT !.pc = "entered", !.ready = ready]
      BY <1>1, <1>11 DEF Replay, ToolsInvariant
    <2> HIDE DEF ready
    <2>2. [k EXCEPT !.pc = "entered", !.ready = ready].fate = k.fate
      BY DEF ToolCall
    <2> QED
      BY <1>2, <2>1, <2>2
  <1>12. ASSUME NEW t \in Target, NEW name \in Name \cup {"none"}, Search(c, t, name) PROVE call'[c].fate # "bound"
    <2>1. call'[c] = [Fresh EXCEPT !.pc = "queued", !.turn = turn, !.target = t, !.name = name]
      BY <1>12 DEF Search, ToolsInvariant
    <2> QED
      BY <2>1 DEF Fresh
  <1>13. ASSUME NEW e \in registry, Execute(c, e) PROVE call'[c].fate # "bound"
    <2> DEFINE ready == IsReady(e.target, [name |-> e.name, decl |-> e.decl])
               told == e.target \in finished
    <2>1. call'[c] = [Fresh EXCEPT !.pc = "entered", !.turn = turn, !.target = e.target, !.name = e.name,
                                   !.decl = e.decl, !.ready = ready, !.told = told]
      BY <1>13 DEF Execute, ToolsInvariant
    <2> HIDE DEF ready, told
    <2> QED
      BY <2>1 DEF Fresh
  <1> QED
    BY <1>5, <1>6, <1>7, <1>8, <1>9, <1>10, <1>11, <1>12, <1>13 DEF Step

\* A step is one of a call, of a start, of a catalog, or the next turn's.
LEMMA StepsAre ==
  ASSUME ToolsNext
  PROVE  \/ \E c \in Call : \/ Step(c) \/ Replay(c)
                            \/ \E t \in Target, name \in Name \cup {"none"} : Search(c, t, name)
                            \/ \E e \in registry : Execute(c, e)
         \/ \E t \in Target : Started(t) \/ TakeStart(t) \/ Revise(t)
         \/ NextTurn
  BY DEF ToolsNext

LEMMA NeverWrites ==
  ASSUME ToolsInvariant, [ToolsNext]_toolsVars, NEW c \in Call, call[c].fate = "prepared"
  PROVE  call'[c].fate # "bound"
  <1>1. CASE UNCHANGED toolsVars
    BY <1>1 DEF toolsVars
  <1>2. ASSUME NEW d \in Call,
               \/ Step(d) \/ Replay(d)
               \/ \E t \in Target, name \in Name \cup {"none"} : Search(d, t, name)
               \/ \E e \in registry : Execute(d, e)
        PROVE  call'[c].fate # "bound"
    <2>1. CASE d = c
      BY <1>2, <2>1, NeverBound
    <2>2. CASE d # c
      <3>1. call'[c] = call[c]
        BY <1>2, <2>2, OthersStay
      <3> QED
        BY <3>1
    <2> QED
      BY <2>1, <2>2
  <1>3. ASSUME NEW t \in Target, Started(t) \/ TakeStart(t) \/ Revise(t) PROVE call'[c].fate # "bound"
    BY <1>3 DEF Started, TakeStart, Revise
  <1>4. ASSUME NextTurn PROVE call'[c].fate # "bound"
    <2>1. call'[c] = Fresh \/ call'[c] = call[c]
      BY <1>4 DEF NextTurn
    <2> QED
      BY <2>1 DEF Fresh
  <1> QED
    BY <1>1, <1>2, <1>3, <1>4, StepsAre

\* The id of a preparation stays one, however often the host repeats it
\* (preparedCalls).
THEOREM PreparationNeverWritesHolds == ToolsSpec => PreparationNeverWrites
  <1> DEFINE A == \A c \in Call : call[c].fate = "prepared" => call'[c].fate # "bound"
  <1>1. ToolsInvariant /\ [ToolsNext]_toolsVars => [A]_toolsVars
    BY NeverWrites
  <1> QED
    BY <1>1, ToolsInvariance, PTL DEF ToolsSpec, PreparationNeverWrites

\* What a step makes of what is known of the targets.
LEMMA KnowledgeStep ==
  ASSUME ToolsInvariant, [ToolsNext]_toolsVars
  PROVE  \/ cache'.of = cache.of
         \/ \E t \in Target, rev \in Rev : \E tools \in Response(rev) : cache'.of = Merge(cache, t, rev, tools).of
  <1>0. cache \in Cache /\ Published(cache)
    BY DEF ToolsInvariant
  <1>1. CASE UNCHANGED cache
    BY <1>1
  <1>2. ASSUME NEW t, NEW name, cache' = Touch(cache, t, name) PROVE cache'.of = cache.of
    BY <1>0, <1>2, TouchIs
  <1>3. ASSUME NEW t, cache' = Invalidated(cache, t) PROVE cache'.of = cache.of
    BY <1>0, <1>3, InvalidatedIs
  <1>4. ASSUME NEW t \in Target, NEW a \in Answer, cache' = Merge(cache, t, a.rev, a.tools)
        PROVE  \E u \in Target, rev \in Rev : \E tools \in Response(rev) : cache'.of = Merge(cache, u, rev, tools).of
    BY <1>4, AnswersAre
  <1>5. ASSUME NEW t \in Target, NEW a \in Answer, cache' = TouchAll(Merge(cache, t, a.rev, a.tools), t, a.tools)
        PROVE  \E u \in Target, rev \in Rev : \E tools \in Response(rev) : cache'.of = Merge(cache, u, rev, tools).of
    <2>1. PICK rev \in Rev : rev = a.rev /\ a.tools \in Seq(Tool)
      BY AnswersAre
    <2>2. PICK tools \in Response(rev) : tools = a.tools
      BY <2>1, AnswersAre
    <2>3. PICK new \in Cache : new = Merge(cache, t, rev, tools)
      BY <1>0, MergeIs
    <2>4. TouchAll(new, t, tools).of = new.of
      BY <2>1, <2>2, TouchAllIs
    <2>5. cache'.of = Merge(cache, t, rev, tools).of
      BY <1>5, <2>1, <2>2, <2>3, <2>4
    <2> QED
      BY <2>5
  <1>6. ASSUME NEW c \in Call, Step(c)
        PROVE  \/ UNCHANGED cache
               \/ \E t, name : cache' = Touch(cache, t, name)
               \/ \E t : cache' = Invalidated(cache, t)
               \/ TakeAnswer(c)
    BY <1>6 DEF Step, Enter, Fail, BeginSearch, Prepare, Prepared, Authorized, Answered, Dispatch, Succeed, Refused,
       Reject
  <1>7. ASSUME NEW c \in Call, TakeAnswer(c)
        PROVE  \E t \in Target, a \in Answer : cache' = TouchAll(Merge(cache, t, a.rev, a.tools), t, a.tools)
    <2>1. call[c].target \in Target /\ call[c].answer \in Answer
      BY <1>7, CallOf DEF TakeAnswer, At, IsGood
    <2> QED
      BY <1>7, <2>1 DEF TakeAnswer, TargetOf
  <1>8. ASSUME NEW t \in Target, TakeStart(t)
        PROVE  UNCHANGED cache \/ \E a \in Answer : cache' = Merge(cache, t, a.rev, a.tools)
    <2>1. CASE UNCHANGED cache
      BY <2>1
    <2>2. CASE start[t].state = "answered" /\ cache' = Merge(cache, t, start[t].answer.rev, start[t].answer.tools)
      <3>1. start[t].answer \in Answer
        BY <2>2 DEF ToolsInvariant, GoodStart
      <3> QED
        BY <2>2, <3>1
    <2> QED
      BY <1>8, <2>1, <2>2 DEF TakeStart
  <1>9. ASSUME NEW c \in Call, NEW t \in Target, NEW name \in Name \cup {"none"}, Search(c, t, name) PROVE UNCHANGED cache
    BY <1>9 DEF Search
  <1>10. ASSUME NEW c \in Call, NEW e \in registry, Execute(c, e) PROVE UNCHANGED cache
    BY <1>10 DEF Execute
  <1>11. ASSUME NEW c \in Call, Replay(c) PROVE UNCHANGED cache
    BY <1>11 DEF Replay
  <1>12. ASSUME NEW t \in Target, Started(t) \/ Revise(t) PROVE UNCHANGED cache
    BY <1>12 DEF Started, Revise
  <1>13. ASSUME NextTurn \/ UNCHANGED toolsVars PROVE UNCHANGED cache
    BY <1>13 DEF NextTurn, toolsVars
  <1>14. CASE \E c \in Call : \/ Step(c) \/ Replay(c)
                              \/ \E t \in Target, name \in Name \cup {"none"} : Search(c, t, name)
                              \/ \E e \in registry : Execute(c, e)
    BY <1>1, <1>2, <1>3, <1>5, <1>6, <1>7, <1>9, <1>10, <1>11, <1>14
  <1>15. CASE \E t \in Target : Started(t) \/ TakeStart(t) \/ Revise(t)
    BY <1>1, <1>4, <1>8, <1>12, <1>15
  <1> QED
    BY <1>1, <1>13, <1>14, <1>15, StepsAre

LEMMA NothingForgotten ==
  ASSUME ToolsInvariant, [ToolsNext]_toolsVars, NEW t \in Target, cache'.of[t].rev = cache.of[t].rev
  PROVE  /\ cache.of[t].quarantined => cache'.of[t].quarantined
         /\ \A n \in cache.of[t].conflicts : cache'.of[t].quarantined \/ n \in cache'.of[t].conflicts
  <1>1. CASE cache'.of = cache.of
    BY <1>1
  <1>2. CASE \E u \in Target, rev \in Rev : \E tools \in Response(rev) : cache'.of = Merge(cache, u, rev, tools).of
    <2>1. PICK u \in Target, rev \in Rev : \E tools \in Response(rev) : cache'.of = Merge(cache, u, rev, tools).of
      BY <1>2
    <2>2. PICK tools \in Response(rev) : cache'.of = Merge(cache, u, rev, tools).of
      BY <2>1
    <2>3. PICK new : new = Merge(cache, u, rev, tools)
      OBVIOUS
    <2>4. /\ new.of[u].rev = rev /\ \A v \in Target \ {u} : new.of[v] = cache.of[v]
          /\ cache.of[u].rev = rev => Grows(cache, new, u)
      BY <2>3, MergeIs DEF ToolsInvariant
    <2>5. CASE t # u
      BY <2>2, <2>3, <2>4, <2>5
    <2>6. CASE t = u
      <3>1. Grows(cache, new, u)
        BY <2>2, <2>3, <2>4, <2>6
      <3> QED
        BY <2>2, <2>3, <2>6, <3>1 DEF Grows
    <2> QED
      BY <2>5, <2>6
  <1> QED
    BY <1>1, <1>2, KnowledgeStep

\* Within a revision, no merge, use, eviction or invalidation makes a contradicted
\* name trusted again (conflicts, quarantined).
THEOREM ConflictsStayHolds == ToolsSpec => ConflictsStay
  <1> DEFINE A == \A t \in Target : cache'.of[t].rev = cache.of[t].rev =>
                    /\ cache.of[t].quarantined => cache'.of[t].quarantined
                    /\ \A n \in cache.of[t].conflicts : cache'.of[t].quarantined \/ n \in cache'.of[t].conflicts
  <1>1. ToolsInvariant /\ [ToolsNext]_toolsVars => [A]_toolsVars
    BY NothingForgotten
  <1> QED
    BY <1>1, ToolsInvariance, PTL DEF ToolsSpec, ConflictsStay

-----------------------------------------------------------------------------
(* Business tools: the order of the revisions.                               *)

\* A revision, or one that followed it.
Since(r, s) == r \in Rev /\ s \in Rev /\ (s = r \/ s \in Successors[r])

\* A run has a revision when it is active, and none that the hub has not had; while
\* a start is under way there is no run.
RunOrder(t) ==
  /\ run[t].status = "active" <=> run[t].rev # "none"
  /\ run[t].rev # "none" => Since(run[t].rev, revision[t])
  /\ start[t].state # "none" => run[t].status = "none"
  /\ start[t].state = "answered" => Since(start[t].answer.rev, revision[t])

\* Of a call of this turn: a search under way is the first of the queue, and its
\* answer is no older than the run; what a call has seen, what it is sent with and
\* what the run has now follow one another.
CallOrder(c) ==
  LET k == call[c] IN
  /\ k.turn <= turn
  /\ k.turn = turn =>
       /\ k.pc \in {"prepare", "starting", "authorize", "search", "found"} => AtHead(c)
       /\ k.pc \in {"authorize", "search", "found"} => run[k.target].status = "active"
       /\ k.pc = "found" => Since(run[k.target].rev, k.answer.rev) /\ Since(k.answer.rev, revision[k.target])
       /\ k.pc \in {"business", "sent", "refused"} => Since(k.seen, run[k.target].rev)
       /\ k.pc \in {"sent", "refused"} => k.fate = "bound" /\ Since(k.seen, k.rev)
       /\ k.fate = "bound" => Since(k.rev, run[k.target].rev)
       /\ k.pc = "business" /\ k.fate = "bound" => k.seen = k.rev

OrderInvariant ==
  /\ \A t \in Target : RunOrder(t)
  /\ \A c \in Call : CallOrder(c)

\* Revisions that never return are ordered.
LEMMA SinceIs ==
  ASSUME NeverReturns
  PROVE  /\ \A r \in Rev : Since(r, r)
         /\ \A r, s, u : Since(r, s) /\ Since(s, u) => Since(r, u)
         /\ \A r, s : Since(r, s) /\ Since(s, r) => r = s
         /\ \A r \in Rev : \A s \in Successors[r] : Since(r, s)
         /\ \A r, s : Since(r, s) => r # "none" /\ s # "none"
  BY NoneIsNoRevision, SuccessorsAreRevisions DEF Since, NeverReturns

\* What a step may do to a target beside the calls it does not take.
Forward(t) ==
  /\ run[t].status = "active" => run'[t].status = "active"
  /\ run[t].rev # "none" => Since(run[t].rev, run'[t].rev)
  /\ Since(revision[t], revision'[t])

LEMMA StaysForward ==
  ASSUME NeverReturns, ToolsInvariant, NEW t \in Target, UNCHANGED revision,
         run'[t].status = run[t].status, run'[t].rev = run[t].rev
  PROVE  Forward(t)
  <1>1. run[t] \in GoodRun /\ revision[t] \in Rev
    BY DEF ToolsInvariant
  <1>2. run[t].rev \in Rev \cup {"none"}
    BY <1>1, RunIs
  <1> QED
    BY <1>1, <1>2, SinceIs DEF Forward

\* The other calls keep their place and their order.
LEMMA OthersInOrder ==
  ASSUME NeverReturns, ToolsInvariant, NEW d \in Call, CallOrder(d), call'[d] = call[d], turn' = turn,
         AtHead(d) => AtHead(d)',
         call[d].target \in Target => Forward(call[d].target),
         call[d].pc = "found" /\ call[d].turn = turn => run'[call[d].target].rev = run[call[d].target].rev
  PROVE  CallOrder(d)'
  <1>1. PICK k : k = call[d]
    OBVIOUS
  <1>2. k.pc # "idle" \/ k.fate # "none" => k.target \in Target
    BY <1>1, CallOf
  <1>3. k.turn <= turn'
    BY <1>1 DEF CallOrder
  <1>4. ASSUME k.turn = turn
        PROVE  /\ k.pc \in {"prepare", "starting", "authorize", "search", "found"} => AtHead(d)'
               /\ k.pc \in {"authorize", "search", "found"} => run'[k.target].status = "active"
               /\ k.pc = "found" => Since(run'[k.target].rev, k.answer.rev) /\ Since(k.answer.rev, revision'[k.target])
               /\ k.pc \in {"business", "sent", "refused"} => Since(k.seen, run'[k.target].rev)
               /\ k.pc \in {"sent", "refused"} => k.fate = "bound" /\ Since(k.seen, k.rev)
               /\ k.fate = "bound" => Since(k.rev, run'[k.target].rev)
               /\ k.pc = "business" /\ k.fate = "bound" => k.seen = k.rev
    <2>1. /\ k.pc \in {"prepare", "starting", "authorize", "search", "found"} => AtHead(d)
          /\ k.pc \in {"authorize", "search", "found"} => run[k.target].status = "active"
          /\ k.pc = "found" => Since(run[k.target].rev, k.answer.rev) /\ Since(k.answer.rev, revision[k.target])
          /\ k.pc \in {"business", "sent", "refused"} => Since(k.seen, run[k.target].rev)
          /\ k.pc \in {"sent", "refused"} => k.fate = "bound" /\ Since(k.seen, k.rev)
          /\ k.fate = "bound" => Since(k.rev, run[k.target].rev)
          /\ k.pc = "business" /\ k.fate = "bound" => k.seen = k.rev
      BY <1>1, <1>4 DEF CallOrder
    <2>2. ASSUME NEW r, Since(r, run[k.target].rev), k.target \in Target PROVE Since(r, run'[k.target].rev)
      BY <1>1, <2>2, SinceIs DEF Forward
    <2>3. k.pc \in {"authorize", "search", "found"} => run'[k.target].status = "active"
      BY <1>1, <1>2, <2>1 DEF Forward
    <2>4. k.pc = "found" => Since(run'[k.target].rev, k.answer.rev) /\ Since(k.answer.rev, revision'[k.target])
      BY <1>1, <1>2, <1>4, <2>1, SinceIs DEF Forward
    <2>5. k.pc \in {"business", "sent", "refused"} => Since(k.seen, run'[k.target].rev)
      BY <1>2, <2>1, <2>2
    <2>6. k.fate = "bound" => Since(k.rev, run'[k.target].rev)
      BY <1>2, <2>1, <2>2
    <2> QED
      BY <2>1, <2>3, <2>4, <2>5, <2>6
  <1>5. call'[d] = k
    BY <1>1
  <1> QED
    BY <1>3, <1>4, <1>5 DEF CallOrder

\* Who waits behind the first of the queue does not become the first.
LEMMA HeadStays ==
  ASSUME ToolsInvariant, NEW c \in Call, NEW d \in Call \ {c}, AtHead(d),
         queue' = queue \/ queue' = Append(queue, c) \/ queue' = Released(c)
  PROVE  AtHead(d)'
  <1>1. queue \in Seq(Call) /\ queue # <<>> /\ Head(queue) = d
    BY DEF ToolsInvariant, AtHead
  <1>2. Released(c) = queue
    BY <1>1 DEF Released, AtHead
  <1>3. Append(queue, c) # <<>> /\ Head(Append(queue, c)) = Head(queue)
    BY <1>1
  <1> QED
    BY <1>1, <1>2, <1>3 DEF AtHead

\* A step of a call that starts no run, and takes no answer.
LEMMA QuietStep ==
  ASSUME NeverReturns, ToolsInvariant, OrderInvariant, NEW c \in Call,
         \A d \in Call \ {c} : call'[d] = call[d],
         queue' = queue \/ queue' = Append(queue, c) \/ queue' = Released(c),
         \A t \in Target : run'[t].status = run[t].status /\ run'[t].rev = run[t].rev,
         UNCHANGED <<turn, start, revision>>,
         CallOrder(c)'
  PROVE  OrderInvariant'
  <1>1. ASSUME NEW t \in Target PROVE RunOrder(t)'
    <2>1. RunOrder(t)
      BY DEF OrderInvariant
    <2> QED
      BY <2>1 DEF RunOrder
  <1>2. ASSUME NEW d \in Call \ {c} PROVE CallOrder(d)'
    <2>1. CallOrder(d) /\ call'[d] = call[d]
      BY DEF OrderInvariant
    <2>2. call[d].target \in Target => Forward(call[d].target)
      BY StaysForward
    <2>3. call[d].pc = "found" => run'[call[d].target].rev = run[call[d].target].rev
      BY CallOf
    <2>4. AtHead(d) => AtHead(d)'
      BY HeadStays
    <2> QED
      BY <2>1, <2>2, <2>3, <2>4, OthersInOrder
  <1> QED
    BY <1>1, <1>2 DEF OrderInvariant

\* A call that ends keeps what it is bound to.
LEMMA EndInOrder ==
  ASSUME NeverReturns, ToolsInvariant, NEW c \in Call, CallOrder(c), End(c), turn' = turn,
         call[c].target \in Target => Forward(call[c].target)
  PROVE  CallOrder(c)'
  <1>1. PICK k \in ToolCall : k = call[c]
    BY CallOf
  <1>2. PICK d : d = [k EXCEPT !.pc = "idle", !.ready = FALSE, !.answer = Nothing]
    OBVIOUS
  <1>3. d.pc = "idle" /\ d.turn = k.turn /\ d.fate = k.fate /\ d.rev = k.rev /\ d.target = k.target
    BY <1>1, <1>2 DEF ToolCall
  <1>4. call'[c] = Fresh \/ call'[c] = d
    BY <1>1, <1>2 DEF End, ToolsInvariant
  <1>5. CASE call'[c] = Fresh
    <2>1. Fresh.turn = 0 /\ turn \in Nat \ {0}
      BY MaxTurnIsNat DEF Fresh, ToolsInvariant, Turn
    <2> QED
      BY <1>5, <2>1 DEF CallOrder
  <1>6. CASE call'[c] = d
    <2>1. k.turn <= turn /\ (k.turn = turn /\ k.fate = "bound" => Since(k.rev, run[k.target].rev))
      BY <1>1 DEF CallOrder
    <2>2. k.fate = "bound" => k.target \in Target
      BY <1>1, CallOf
    <2>3. k.turn = turn /\ k.fate = "bound" => Since(k.rev, run'[k.target].rev)
      BY <1>1, <2>1, <2>2, SinceIs DEF Forward
    <2> QED
      BY <1>3, <1>6, <2>1, <2>3 DEF CallOrder
  <1> QED
    BY <1>4, <1>5, <1>6

\* A call that ends, and leaves the runs.
LEMMA EndStep ==
  ASSUME NeverReturns, ToolsInvariant, OrderInvariant, NEW c \in Call, End(c),
         \A t \in Target : run'[t].status = run[t].status /\ run'[t].rev = run[t].rev,
         UNCHANGED <<turn, start, revision>>
  PROVE  OrderInvariant'
  <1>1. \A d \in Call \ {c} : call'[d] = call[d]
    BY DEF End, ToolsInvariant
  <1>2. queue' = Released(c)
    BY DEF End
  <1>3. CallOrder(c)'
    <2>1. CallOrder(c)
      BY DEF OrderInvariant
    <2>2. call[c].target \in Target => Forward(call[c].target)
      BY StaysForward
    <2> QED
      BY <2>1, <2>2, EndInOrder
  <1> QED
    BY <1>1, <1>2, <1>3, QuietStep

\* A call that only goes somewhere.
LEMMA GotoStep ==
  ASSUME NeverReturns, ToolsInvariant, OrderInvariant, NEW c \in Call, NEW pc, Goto(c, pc), Active(c),
         call[c].pc # "idle", UNCHANGED <<turn, run, start, queue, revision>>,
         pc \in {"prepare", "starting", "authorize", "search"} => AtHead(c),
         pc \in {"authorize", "search"} => run[call[c].target].status = "active",
         pc \in {"prepare", "starting", "authorize", "search"}
           \/ (pc \in {"sent", "refused"} /\ call[c].fate = "bound" /\ call[c].pc \in {"business", "sent"})
  PROVE  OrderInvariant'
  <1>1. \A d \in Call \ {c} : call'[d] = call[d]
    BY DEF Goto, ToolsInvariant
  <1>2. PICK k \in ToolCall : k = call[c]
    BY CallOf
  <1>3. PICK d : d = [k EXCEPT !.pc = pc]
    OBVIOUS
  <1>4. d.pc = pc /\ d.turn = k.turn /\ d.fate = k.fate /\ d.rev = k.rev /\ d.seen = k.seen /\ d.target = k.target
    BY <1>2, <1>3 DEF ToolCall
  <1>5. call'[c] = d
    BY <1>2, <1>3 DEF Goto, ToolsInvariant
  <1>6. /\ k.turn = turn
        /\ k.fate = "bound" => Since(k.rev, run[k.target].rev)
        /\ k.pc \in {"business", "sent"} => Since(k.seen, run[k.target].rev)
        /\ k.pc = "sent" => Since(k.seen, k.rev)
        /\ k.pc = "business" /\ k.fate = "bound" => k.seen = k.rev
    BY <1>2 DEF Active, OrderInvariant, CallOrder
  <1>7. k.pc \in {"business", "sent"} /\ k.fate = "bound" => Since(k.seen, k.rev)
    BY <1>6, SinceIs DEF Since
  <1>8. CallOrder(c)'
    <2>1. turn \in Nat /\ (AtHead(c) => AtHead(c)')
      BY MaxTurnIsNat DEF ToolsInvariant, Turn, AtHead
    <2> QED
      BY <1>2, <1>4, <1>5, <1>6, <1>7, <2>1 DEF CallOrder
  <1> QED
    BY <1>1, <1>8, QuietStep

LEMMA SearchOrder ==
  ASSUME NeverReturns, ToolsInvariant, OrderInvariant, NEW c \in Call, NEW t \in Target, NEW name, Search(c, t, name)
  PROVE  OrderInvariant'
  <1>1. \A d \in Call \ {c} : call'[d] = call[d]
    BY DEF Search, ToolsInvariant
  <1>2. call'[c] = [Fresh EXCEPT !.pc = "queued", !.turn = turn, !.target = t, !.name = name]
    BY DEF Search, ToolsInvariant
  <1>3. call'[c].pc = "queued" /\ call'[c].turn = turn /\ call'[c].fate = "none"
    BY <1>2 DEF Fresh
  <1>4. CallOrder(c)'
    <2>1. turn \in Nat /\ turn' = turn
      BY MaxTurnIsNat DEF ToolsInvariant, Turn, Search
    <2> QED
      BY <1>3, <2>1 DEF CallOrder
  <1> QED
    BY <1>1, <1>4, QuietStep DEF Search

LEMMA ExecuteOrder ==
  ASSUME NeverReturns, ToolsInvariant, OrderInvariant, NEW c \in Call, NEW e \in registry, Execute(c, e)
  PROVE  OrderInvariant'
  <1> DEFINE ready == IsReady(e.target, [name |-> e.name, decl |-> e.decl])
             told == e.target \in finished
  <1>1. \A d \in Call \ {c} : call'[d] = call[d]
    BY DEF Execute, ToolsInvariant
  <1>2. call'[c] = [Fresh EXCEPT !.pc = "entered", !.turn = turn, !.target = e.target, !.name = e.name,
                                 !.decl = e.decl, !.ready = ready, !.told = told]
    BY DEF Execute, ToolsInvariant
  <1> HIDE DEF ready, told
  <1>3. call'[c].pc = "entered" /\ call'[c].turn = turn /\ call'[c].fate = "none"
    BY <1>2 DEF Fresh
  <1>4. CallOrder(c)'
    <2>1. turn \in Nat /\ turn' = turn
      BY MaxTurnIsNat DEF ToolsInvariant, Turn, Execute
    <2> QED
      BY <1>3, <2>1 DEF CallOrder
  <1> QED
    BY <1>1, <1>4, QuietStep DEF Execute

LEMMA ReplayOrder ==
  ASSUME NeverReturns, ToolsInvariant, OrderInvariant, NEW c \in Call, Replay(c)
  PROVE  OrderInvariant'
  <1> DEFINE ready == IsReady(TargetOf(c), ToolOf(c))
  <1>1. \A d \in Call \ {c} : call'[d] = call[d]
    BY DEF Replay, ToolsInvariant
  <1>2. PICK k \in ToolCall : k = call[c]
    BY CallOf
  <1>3. PICK d : d = [k EXCEPT !.pc = "entered", !.ready = ready]
    OBVIOUS
  <1>4. call'[c] = d
    BY <1>2, <1>3 DEF Replay, ToolsInvariant
  <1> HIDE DEF ready
  <1>5. d.pc = "entered" /\ d.turn = k.turn /\ d.fate = k.fate /\ d.rev = k.rev /\ d.target = k.target
    BY <1>2, <1>3 DEF ToolCall
  <1>6. k.turn <= turn /\ (k.turn = turn /\ k.fate = "bound" => Since(k.rev, run[k.target].rev))
    BY <1>2 DEF OrderInvariant, CallOrder
  <1>7. CallOrder(c)'
    BY <1>4, <1>5, <1>6 DEF CallOrder, Replay
  <1> QED
    BY <1>1, <1>7, QuietStep DEF Replay

\* An active run has a revision.
LEMMA ActiveHas ==
  ASSUME NeverReturns, ToolsInvariant, OrderInvariant, NEW t \in Target, run[t].status = "active"
  PROVE  run[t].rev \in Rev /\ Since(run[t].rev, run[t].rev) /\ Since(run[t].rev, revision[t]) /\ Since(revision[t], revision[t])
  <1>1. RunOrder(t) /\ revision[t] \in Rev
    BY DEF OrderInvariant, ToolsInvariant
  <1>2. Since(run[t].rev, revision[t])
    BY <1>1 DEF RunOrder
  <1>3. run[t].rev \in Rev
    BY <1>2 DEF Since
  <1> QED
    BY <1>1, <1>2, <1>3, SinceIs

LEMMA EnterOrder ==
  ASSUME NeverReturns, ToolsInvariant, OrderInvariant, NEW c \in Call, Enter(c)
  PROVE  OrderInvariant'
  <1>0. call[c].pc = "entered" /\ call[c].turn = turn /\ call[c].target \in Target /\ CallOrder(c) /\ turn \in Nat
    BY CallOf, MaxTurnIsNat DEF Enter, At, Active, OrderInvariant, ToolsInvariant, Turn
  <1>1. PICK k \in ToolCall : k = call[c]
    BY CallOf
  <1>2. CASE End(c)
    BY <1>2, EndStep DEF Enter
  <1>3. CASE /\ k.fate = "bound" \/ IsReady(k.target, ToolOf(c))
             /\ call' = [call EXCEPT ![c].pc = "business", ![c].seen = IF k.fate = "bound" THEN k.rev ELSE run[k.target].rev]
             /\ UNCHANGED queue
    <2> DEFINE seen == IF k.fate = "bound" THEN k.rev ELSE run[k.target].rev
    <2>1. Since(seen, run[k.target].rev)
      <3>1. CASE k.fate = "bound"
        BY <1>0, <1>1, <3>1 DEF CallOrder
      <3>2. CASE k.fate # "bound"
        BY <1>0, <1>1, <1>3, <3>2, ActiveHas DEF IsReady
      <3> QED
        BY <3>1, <3>2
    <2>2. k.fate = "bound" => seen = k.rev
      OBVIOUS
    <2>3. PICK d : d = [k EXCEPT !.pc = "business", !.seen = seen]
      OBVIOUS
    <2>4. call'[c] = d /\ \A e \in Call \ {c} : call'[e] = call[e]
      BY <1>1, <1>3, <2>3 DEF ToolsInvariant
    <2> HIDE DEF seen
    <2>5. /\ d.pc = "business" /\ d.seen = seen /\ d.turn = k.turn /\ d.fate = k.fate /\ d.rev = k.rev
          /\ d.target = k.target
      BY <1>1, <2>3 DEF ToolCall
    <2>6. CallOrder(c)'
      <3>1. k.fate = "bound" => Since(k.rev, run[k.target].rev)
        BY <1>0, <1>1 DEF CallOrder
      <3> QED
        BY <1>0, <1>1, <2>1, <2>2, <2>4, <2>5, <3>1 DEF CallOrder, Enter
    <2> QED
      BY <1>3, <2>4, <2>6, QuietStep DEF Enter
  <1>4. CASE call' = [call EXCEPT ![c].pc = "queued", ![c].fate = "prepared"] /\ queue' = Append(queue, c)
    <2>1. PICK d : d = [k EXCEPT !.pc = "queued", !.fate = "prepared"]
      OBVIOUS
    <2>2. call'[c] = d /\ \A e \in Call \ {c} : call'[e] = call[e]
      BY <1>1, <1>4, <2>1 DEF ToolsInvariant
    <2>3. d.pc = "queued" /\ d.turn = k.turn /\ d.fate = "prepared"
      BY <1>1, <2>1 DEF ToolCall
    <2>4. CallOrder(c)'
      BY <1>0, <1>1, <2>2, <2>3 DEF CallOrder, Enter
    <2> QED
      BY <1>4, <2>2, <2>4, QuietStep DEF Enter
  <1> QED
    BY <1>1, <1>2, <1>3, <1>4 DEF Enter

\* A start that begins, while nothing runs.
LEMMA PrepareOrder ==
  ASSUME NeverReturns, ToolsInvariant, OrderInvariant, NEW c \in Call, Prepare(c)
  PROVE  OrderInvariant'
  <1> DEFINE t == TargetOf(c)
  <1>0. call[c].pc = "prepare" /\ call[c].turn = turn /\ t \in Target /\ t = call[c].target /\ AtHead(c)
    BY CallOf DEF Prepare, At, Active, TargetOf, OrderInvariant, CallOrder
  <1>1. CASE /\ run[t].status \in {"none", "degraded"} /\ Goto(c, "starting")
             /\ start' = [start EXCEPT ![t].state = "asked"] /\ run' = [run EXCEPT ![t] = NoRun]
    <2>1. RunOrder(t) /\ run[t].rev = "none" /\ run[t].status # "active"
      BY <1>0, <1>1 DEF OrderInvariant, RunOrder
    <2>2. run'[t] = NoRun /\ \A u \in Target \ {t} : run'[u] = run[u]
      BY <1>0, <1>1 DEF ToolsInvariant
    <2>3. start'[t].state = "asked" /\ \A u \in Target \ {t} : start'[u] = start[u]
      <3>1. start[t] \in [state : {"none", "asked", "answered", "lost"}, answer : {Nothing} \cup Answer]
        BY <1>0 DEF ToolsInvariant, GoodStart
      <3> QED
        BY <1>0, <1>1, <3>1 DEF ToolsInvariant
    <2>4. ASSUME NEW u \in Target PROVE RunOrder(u)'
      <3>1. CASE u = t
        BY <2>2, <2>3, <3>1, NoRunIs DEF RunOrder
      <3>2. CASE u # t
        <4>1. RunOrder(u) /\ run'[u] = run[u] /\ start'[u] = start[u] /\ revision' = revision
          BY <2>2, <2>3, <3>2 DEF OrderInvariant, Prepare
        <4> QED
          BY <4>1 DEF RunOrder
      <3> QED
        BY <3>1, <3>2
    <2>5. ASSUME NEW u \in Target PROVE Forward(u)
      <3>1. CASE u = t
        <4>1. revision[t] \in Rev /\ revision' = revision
          BY <1>0 DEF ToolsInvariant, Prepare
        <4> QED
          BY <2>1, <3>1, <4>1, SinceIs DEF Forward
      <3>2. CASE u # t
        BY <2>2, <3>2, StaysForward DEF Prepare
      <3> QED
        BY <3>1, <3>2
    <2>6. ASSUME NEW d \in Call \ {c} PROVE CallOrder(d)'
      <3>1. CallOrder(d) /\ call'[d] = call[d] /\ turn' = turn /\ (AtHead(d) => AtHead(d)')
        BY <1>1 DEF OrderInvariant, Goto, Prepare, ToolsInvariant, AtHead
      <3>2. call[d].pc = "found" => call[d].turn # turn
        BY <1>0, <3>1 DEF CallOrder, AtHead
      <3> QED
        BY <2>5, <3>1, <3>2, OthersInOrder
    <2>7. CallOrder(c)'
      <3>1. PICK k \in ToolCall : k = call[c]
        BY CallOf
      <3>2. PICK d : d = [k EXCEPT !.pc = "starting"]
        OBVIOUS
      <3>3. d.pc = "starting" /\ d.turn = k.turn /\ d.fate = k.fate /\ d.rev = k.rev /\ d.target = k.target
        BY <3>1, <3>2 DEF ToolCall
      <3>4. call'[c] = d
        BY <1>1, <3>1, <3>2 DEF Goto, ToolsInvariant
      <3>5. k.fate # "bound"
        BY <1>0, <2>1, <3>1, SinceIs DEF OrderInvariant, CallOrder
      <3>6. AtHead(c)' /\ turn' = turn /\ turn \in Nat
        BY <1>0, MaxTurnIsNat DEF AtHead, Prepare, ToolsInvariant, Turn
      <3> QED
        BY <1>0, <3>1, <3>3, <3>4, <3>5, <3>6 DEF CallOrder
    <2> QED
      BY <2>4, <2>6, <2>7 DEF OrderInvariant
  <1>2. CASE run[t].status = "active" /\ Goto(c, "authorize") /\ UNCHANGED <<start, run>>
    BY <1>0, <1>2, GotoStep DEF Prepare, Active
  <1> QED
    BY <1>1, <1>2 DEF Prepare

\* A target's run takes an answer's revision.
LEMMA CapturedRevs ==
  ASSUME ToolsInvariant, NEW new, NEW t \in Target, NEW rev \in Rev, run' = Captured(new, t, rev)
  PROVE  /\ run'[t].status = "active" /\ run'[t].rev = rev
         /\ \A u \in Target \ {t} : run'[u].status = run[u].status /\ run'[u].rev = run[u].rev
  <1> DEFINE R(u) == IF u = t THEN [status |-> "active", rev |-> rev, tools |-> {}] ELSE run[u]
             tools(u) == IF new.of[u].rev = R(u).rev THEN ToolsOf(new, u) ELSE {}
  <1>1. \A u \in Target : run'[u] = IF R(u).rev = "none" THEN R(u) ELSE [R(u) EXCEPT !.tools = tools(u)]
    BY DEF Captured
  <1>2. ASSUME NEW u \in Target PROVE run'[u].status = R(u).status /\ run'[u].rev = R(u).rev
    <2>1. [status |-> "active", rev |-> rev, tools |-> {}] \in [status : {"active"}, rev : Rev, tools : {{}}]
      OBVIOUS
    <2>2. R(u) \in [status : {"none", "active", "degraded", "failed"}, rev : Rev \cup {"none"}, tools : SUBSET Tool]
      BY <2>1 DEF ToolsInvariant, GoodRun
    <2>3. PICK r \in [status : {"none", "active", "degraded", "failed"}, rev : Rev \cup {"none"}, tools : SUBSET Tool] :
            r = R(u)
      BY <2>2
    <2>4. PICK s : s = tools(u)
      OBVIOUS
    <2>5. run'[u] = r \/ run'[u] = [r EXCEPT !.tools = s]
      BY <1>1, <2>3, <2>4
    <2>6. [r EXCEPT !.tools = s].status = r.status /\ [r EXCEPT !.tools = s].rev = r.rev
      OBVIOUS
    <2> QED
      BY <2>3, <2>5, <2>6
  <1> QED
    BY <1>2

LEMMA TakeStartOrder ==
  ASSUME NeverReturns, ToolsInvariant, OrderInvariant, NEW t \in Target, TakeStart(t)
  PROVE  OrderInvariant'
  <1>1. RunOrder(t) /\ run[t].status = "none" /\ run[t].rev = "none"
    BY DEF OrderInvariant, RunOrder, TakeStart
  <1>2. start'[t].state = "none" /\ \A u \in Target \ {t} : start'[u] = start[u]
    BY DEF TakeStart, ToolsInvariant, NoStart
  <1>3. /\ \A u \in Target \ {t} : run'[u].status = run[u].status /\ run'[u].rev = run[u].rev
        /\ run'[t].status = "active" <=> run'[t].rev # "none"
        /\ run'[t].rev # "none" => Since(run'[t].rev, revision[t])
    <2>1. CASE start[t].state = "answered" /\ run' = Captured(cache', t, start[t].answer.rev)
      <3>1. start[t].answer \in Answer
        BY <2>1 DEF ToolsInvariant, GoodStart
      <3>2. PICK rev \in Rev : rev = start[t].answer.rev
        BY <3>1, AnswersAre
      <3>3. Since(rev, revision[t])
        BY <1>1, <2>1, <3>2 DEF RunOrder
      <3>4. run' = Captured(cache', t, rev)
        BY <2>1, <3>2
      <3> QED
        BY <3>3, <3>4, CapturedRevs, SinceIs
    <2>2. ASSUME NEW status \in {"degraded", "failed"}, run' = [run EXCEPT ![t] = [NoRun EXCEPT !.status = status]]
          PROVE  /\ \A u \in Target \ {t} : run'[u] = run[u]
                 /\ run'[t].status # "active" /\ run'[t].rev = "none"
      BY <2>2 DEF ToolsInvariant, NoRun
    <2> QED
      BY <2>1, <2>2 DEF TakeStart
  <1>4. ASSUME NEW u \in Target PROVE RunOrder(u)'
    <2>1. CASE u = t
      BY <1>2, <1>3, <2>1 DEF RunOrder, TakeStart
    <2>2. CASE u # t
      <3>1. RunOrder(u) /\ run'[u].status = run[u].status /\ run'[u].rev = run[u].rev /\ start'[u] = start[u]
            /\ revision' = revision
        BY <1>2, <1>3, <2>2 DEF OrderInvariant, TakeStart
      <3> QED
        BY <3>1 DEF RunOrder
    <2> QED
      BY <2>1, <2>2
  <1>5. ASSUME NEW u \in Target PROVE Forward(u)
    <2>1. CASE u = t
      <3>1. revision[t] \in Rev /\ revision' = revision
        BY DEF ToolsInvariant, TakeStart
      <3> QED
        BY <1>1, <2>1, <3>1, SinceIs DEF Forward
    <2>2. CASE u # t
      BY <1>3, <2>2, StaysForward DEF TakeStart
    <2> QED
      BY <2>1, <2>2
  <1>6. ASSUME NEW d \in Call PROVE CallOrder(d)'
    <2>1. CallOrder(d) /\ call'[d] = call[d] /\ turn' = turn /\ (AtHead(d) => AtHead(d)')
      BY DEF OrderInvariant, TakeStart, AtHead
    <2>2. ASSUME call[d].pc = "found", call[d].turn = turn PROVE run'[call[d].target].rev = run[call[d].target].rev
      <3>1. call[d].target \in Target /\ run[call[d].target].status = "active"
        BY <2>1, <2>2, CallOf DEF CallOrder
      <3>2. call[d].target # t
        BY <1>1, <3>1
      <3> QED
        BY <1>3, <3>1, <3>2
    <2> QED
      BY <1>5, <2>1, <2>2, OthersInOrder
  <1> QED
    BY <1>4, <1>6 DEF OrderInvariant

LEMMA AnsweredOrder ==
  ASSUME NeverReturns, ToolsInvariant, OrderInvariant, NEW c \in Call, Answered(c)
  PROVE  OrderInvariant'
  <1>0. call[c].pc = "search" /\ call[c].target \in Target /\ CallOrder(c)
    BY CallOf DEF Answered, At, OrderInvariant
  <1>1. PICK k \in ToolCall : k = call[c]
    BY CallOf
  <1>2. PICK a \in Answers(revision[k.target]) : call' = [call EXCEPT ![c].pc = "found", ![c].answer = a]
    BY <1>1 DEF Answered, TargetOf
  <1>3. a.rev = revision[k.target]
    BY DEF Answers
  <1>4. PICK d : d = [k EXCEPT !.pc = "found", !.answer = a]
    OBVIOUS
  <1>5. d.pc = "found" /\ d.answer = a /\ d.turn = k.turn /\ d.fate = k.fate /\ d.rev = k.rev /\ d.target = k.target
    BY <1>1, <1>4 DEF ToolCall
  <1>6. call'[c] = d /\ \A e \in Call \ {c} : call'[e] = call[e]
    BY <1>1, <1>2, <1>4 DEF ToolsInvariant
  <1>7. CallOrder(c)'
    <2>1. k.turn = turn => AtHead(c) /\ run[k.target].status = "active"
      BY <1>0, <1>1 DEF CallOrder
    <2>2. k.turn = turn => Since(run[k.target].rev, d.answer.rev) /\ Since(d.answer.rev, revision[k.target])
      BY <1>0, <1>1, <1>3, <1>5, <2>1, ActiveHas
    <2>3. k.turn <= turn /\ (k.turn = turn /\ k.fate = "bound" => Since(k.rev, run[k.target].rev))
      BY <1>0, <1>1 DEF CallOrder
    <2>4. UNCHANGED <<turn, run, revision, queue>>
      BY DEF Answered
    <2> QED
      BY <1>5, <1>6, <2>1, <2>2, <2>3, <2>4 DEF CallOrder, AtHead
  <1> QED
    BY <1>6, <1>7, QuietStep DEF Answered

\* The first search of the queue takes its answer.
LEMMA TakeAnswerOrder ==
  ASSUME NeverReturns, ToolsInvariant, OrderInvariant, NEW c \in Call, TakeAnswer(c)
  PROVE  OrderInvariant'
  <1>0. /\ call[c].pc = "found" /\ call[c].turn = turn /\ call[c].target \in Target /\ call[c].answer \in Answer
        /\ CallOrder(c) /\ End(c)
    BY CallOf DEF TakeAnswer, At, Active, IsGood, OrderInvariant
  <1>1. PICK t \in Target : t = call[c].target
    BY <1>0
  <1>2. PICK rev \in Rev : rev = call[c].answer.rev
    BY <1>0, AnswersAre
  <1>3. /\ AtHead(c) /\ run[t].status = "active"
        /\ Since(run[t].rev, rev) /\ Since(rev, revision[t])
    BY <1>0, <1>1, <1>2 DEF CallOrder
  <1>4. /\ run'[t].status = "active" /\ run'[t].rev = rev
        /\ \A u \in Target \ {t} : run'[u].status = run[u].status /\ run'[u].rev = run[u].rev
    <2>1. PICK new : run' = Captured(new, t, rev)
      BY <1>1, <1>2 DEF TakeAnswer, TargetOf
    <2> QED
      BY <2>1, CapturedRevs
  <1>5. ASSUME NEW u \in Target PROVE RunOrder(u)'
    <2>1. RunOrder(u) /\ start'[u] = start[u] /\ revision' = revision
      BY DEF OrderInvariant, TakeAnswer
    <2>2. CASE u = t
      <3>1. start[t].state = "none"
        BY <1>3, <2>1, <2>2 DEF RunOrder, ToolsInvariant, GoodStart
      <3> QED
        BY <1>3, <1>4, <2>1, <2>2, <3>1, SinceIs DEF RunOrder
    <2>3. CASE u # t
      BY <1>4, <2>1, <2>3 DEF RunOrder
    <2> QED
      BY <2>2, <2>3
  <1>6. ASSUME NEW u \in Target PROVE Forward(u)
    <2>1. CASE u = t
      <3>1. revision[t] \in Rev /\ revision' = revision
        BY DEF ToolsInvariant, TakeAnswer
      <3> QED
        BY <1>3, <1>4, <2>1, <3>1, SinceIs DEF Forward
    <2>2. CASE u # t
      BY <1>4, <2>2, StaysForward DEF TakeAnswer
    <2> QED
      BY <2>1, <2>2
  <1>7. ASSUME NEW d \in Call \ {c} PROVE CallOrder(d)'
    <2>1. CallOrder(d) /\ call'[d] = call[d] /\ turn' = turn /\ queue' = Released(c)
      BY <1>0 DEF OrderInvariant, End, TakeAnswer, ToolsInvariant
    <2>2. AtHead(d) => AtHead(d)'
      BY <2>1, HeadStays
    <2>3. call[d].pc = "found" => call[d].turn # turn
      BY <1>3, <2>1 DEF CallOrder, AtHead
    <2> QED
      BY <1>6, <2>1, <2>2, <2>3, OthersInOrder
  <1>8. CallOrder(c)'
    BY <1>0, <1>6, EndInOrder DEF TakeAnswer
  <1> QED
    BY <1>5, <1>7, <1>8 DEF OrderInvariant

LEMMA RefusedOrder ==
  ASSUME NeverReturns, ToolsInvariant, OrderInvariant, NEW c \in Call, Refused(c)
  PROVE  OrderInvariant'
  <1>1. CASE Active(c)
    <2>1. call[c].pc = "sent" /\ call[c].fate = "bound"
      BY <1>1 DEF OrderInvariant, CallOrder, Active, Refused, At
    <2> QED
      BY <1>1, <2>1, GotoStep DEF Refused
  <1>2. CASE ~ Active(c)
    <2>1. PICK k \in ToolCall : k = call[c]
      BY CallOf
    <2>2. PICK d : d = [k EXCEPT !.pc = "refused"]
      OBVIOUS
    <2>3. d.turn = k.turn
      BY <2>1, <2>2 DEF ToolCall
    <2>4. call'[c] = d /\ \A e \in Call \ {c} : call'[e] = call[e]
      BY <2>1, <2>2 DEF Refused, Goto, ToolsInvariant
    <2>5. k.turn <= turn /\ k.turn # turn
      BY <1>2, <2>1 DEF OrderInvariant, CallOrder, Active
    <2>6. CallOrder(c)'
      BY <2>3, <2>4, <2>5 DEF CallOrder, Refused
    <2> QED
      BY <2>4, <2>6, QuietStep DEF Refused
  <1> QED
    BY <1>1, <1>2

LEMMA DispatchOrder ==
  ASSUME NeverReturns, ToolsInvariant, OrderInvariant, NEW c \in Call, Dispatch(c)
  PROVE  OrderInvariant'
  <1>0. call[c].pc = "business" /\ call[c].turn = turn /\ call[c].target \in Target /\ CallOrder(c) /\ turn \in Nat
    BY CallOf, MaxTurnIsNat DEF Dispatch, At, Active, OrderInvariant, ToolsInvariant, Turn
  <1>1. CASE call[c].fate = "bound" /\ Goto(c, "sent")
    BY <1>0, <1>1, GotoStep DEF Dispatch, Active
  <1>2. CASE /\ IsReady(call[c].target, ToolOf(c))
             /\ call' = [call EXCEPT ![c].pc = "sent", ![c].fate = "bound", ![c].rev = run[call[c].target].rev]
    <2>1. PICK k \in ToolCall : k = call[c]
      BY CallOf
    <2>2. PICK rev : rev = run[k.target].rev
      OBVIOUS
    <2>3. PICK d : d = [k EXCEPT !.pc = "sent", !.fate = "bound", !.rev = rev]
      OBVIOUS
    <2>4. call'[c] = d /\ \A e \in Call \ {c} : call'[e] = call[e]
      BY <1>2, <2>1, <2>2, <2>3 DEF ToolsInvariant
    <2>5. /\ d.pc = "sent" /\ d.fate = "bound" /\ d.rev = rev /\ d.seen = k.seen /\ d.turn = k.turn
          /\ d.target = k.target
      BY <2>1, <2>3 DEF ToolCall
    <2>6. Since(rev, rev) /\ Since(k.seen, rev)
      BY <1>0, <1>2, <2>1, <2>2, ActiveHas DEF IsReady, CallOrder
    <2>7. UNCHANGED <<turn, run, start, revision, queue>>
      BY DEF Dispatch
    <2>8. CallOrder(c)'
      BY <1>0, <2>1, <2>2, <2>4, <2>5, <2>6, <2>7 DEF CallOrder
    <2> QED
      BY <2>4, <2>7, <2>8, QuietStep
  <1> QED
    BY <1>1, <1>2 DEF Dispatch

LEMMA RejectOrder ==
  ASSUME NeverReturns, ToolsInvariant, OrderInvariant, NEW c \in Call, Reject(c)
  PROVE  OrderInvariant'
  <1>1. ASSUME NEW t \in Target PROVE run'[t].status = run[t].status /\ run'[t].rev = run[t].rev
    <2>1. PICK r \in [status : {"none", "active", "degraded", "failed"}, rev : Rev \cup {"none"}, tools : SUBSET Tool] :
            r = run[t]
      BY DEF ToolsInvariant, GoodRun
    <2> DEFINE none == {}
    <2>2. run'[t] = r \/ run'[t] = [r EXCEPT !.tools = none]
      BY <2>1 DEF Reject, ToolsInvariant
    <2> HIDE DEF none
    <2>3. [r EXCEPT !.tools = none].status = r.status /\ [r EXCEPT !.tools = none].rev = r.rev
      OBVIOUS
    <2> QED
      BY <2>1, <2>2, <2>3
  <1> QED
    BY <1>1, EndStep DEF Reject

LEMMA CallsInOrder ==
  ASSUME NeverReturns, ToolsInvariant, OrderInvariant, NEW c \in Call, Step(c)
  PROVE  OrderInvariant'
  <1>1. call[c].turn = turn => CallOrder(c)
    BY DEF OrderInvariant
  <1>2. CASE Enter(c)
    BY <1>2, EnterOrder
  <1>3. CASE Fail(c)
    BY <1>3, EndStep DEF Fail
  <1>4. CASE BeginSearch(c)
    BY <1>4, GotoStep DEF BeginSearch, At
  <1>5. CASE Prepare(c)
    BY <1>5, PrepareOrder
  <1>6. CASE Prepared(c)
    BY <1>1, <1>6, GotoStep DEF Prepared, At, Active, CallOrder, TargetOf
  <1>7. CASE Authorized(c)
    <2>1. CASE End(c)
      BY <1>7, <2>1, EndStep DEF Authorized
    <2>2. CASE Goto(c, "search") /\ UNCHANGED queue
      BY <1>1, <1>7, <2>2, GotoStep DEF Authorized, At, Active, CallOrder
    <2> QED
      BY <1>7, <2>1, <2>2 DEF Authorized
  <1>8. CASE Answered(c)
    BY <1>8, AnsweredOrder
  <1>9. CASE TakeAnswer(c)
    BY <1>9, TakeAnswerOrder
  <1>10. CASE Dispatch(c)
    BY <1>10, DispatchOrder
  <1>11. CASE Succeed(c)
    BY <1>11, EndStep DEF Succeed
  <1>12. CASE Refused(c)
    BY <1>12, RefusedOrder
  <1>13. CASE Reject(c)
    BY <1>13, RejectOrder
  <1> QED
    BY <1>2, <1>3, <1>4, <1>5, <1>6, <1>7, <1>8, <1>9, <1>10, <1>11, <1>12, <1>13 DEF Step

LEMMA StartedOrder ==
  ASSUME NeverReturns, ToolsInvariant, OrderInvariant, NEW t \in Target, Started(t)
  PROVE  OrderInvariant'
  <1>1. PICK s \in GoodStart : s = start[t]
    BY DEF ToolsInvariant
  <1>2. /\ start'[t].state \in {"answered", "lost"}
        /\ start'[t].state = "answered" => start'[t].answer.rev = revision[t]
        /\ \A u \in Target \ {t} : start'[u] = start[u]
    <2>1. CASE \E a \in Answers(revision[t]) : start' = [start EXCEPT ![t] = [state |-> "answered", answer |-> a]]
      BY <2>1 DEF ToolsInvariant, Answers
    <2>2. CASE start' = [start EXCEPT ![t].state = "lost"]
      <3>1. start'[t] = [s EXCEPT !.state = "lost"]
        BY <1>1, <2>2 DEF ToolsInvariant
      <3>2. [s EXCEPT !.state = "lost"].state = "lost"
        BY DEF GoodStart
      <3> QED
        BY <2>2, <3>1, <3>2 DEF ToolsInvariant
    <2> QED
      BY <2>1, <2>2 DEF Started
  <1>3. UNCHANGED <<turn, run, revision, queue, call>>
    BY DEF Started
  <1>4. ASSUME NEW u \in Target PROVE RunOrder(u)'
    <2>1. RunOrder(u) /\ Since(revision[u], revision[u])
      BY SinceIs DEF OrderInvariant, ToolsInvariant
    <2> QED
      BY <1>2, <1>3, <2>1 DEF RunOrder, Started
  <1>5. ASSUME NEW d \in Call PROVE CallOrder(d)'
    BY <1>3 DEF OrderInvariant, CallOrder, AtHead
  <1> QED
    BY <1>4, <1>5 DEF OrderInvariant

LEMMA ReviseOrder ==
  ASSUME NeverReturns, ToolsInvariant, OrderInvariant, NEW t \in Target, Revise(t)
  PROVE  OrderInvariant'
  <1>1. PICK r \in Successors[revision[t]] : revision' = [revision EXCEPT ![t] = r]
    BY DEF Revise
  <1>2. \A u \in Target : Since(revision[u], revision'[u])
    BY <1>1, SinceIs DEF ToolsInvariant
  <1>3. UNCHANGED <<turn, run, start, queue, call>>
    BY DEF Revise
  <1>4. ASSUME NEW u \in Target PROVE RunOrder(u)'
    <2>1. RunOrder(u) /\ \A s : Since(s, revision[u]) => Since(s, revision'[u])
      BY <1>2, SinceIs DEF OrderInvariant
    <2> QED
      BY <1>3, <2>1 DEF RunOrder
  <1>5. ASSUME NEW d \in Call PROVE CallOrder(d)'
    <2>1. ASSUME NEW u \in Target PROVE Forward(u)
      <3>1. run[u].rev \in Rev \cup {"none"}
        BY RunIs DEF ToolsInvariant
      <3> QED
        BY <1>2, <1>3, <3>1, SinceIs DEF Forward
    <2> QED
      BY <1>3, <2>1, OthersInOrder DEF OrderInvariant, AtHead
  <1> QED
    BY <1>4, <1>5 DEF OrderInvariant

LEMMA NextTurnOrder ==
  ASSUME NeverReturns, ToolsInvariant, OrderInvariant, NextTurn
  PROVE  OrderInvariant'
  <1>1. ASSUME NEW t \in Target PROVE RunOrder(t)'
    <2>1. run'[t] = NoRun /\ start'[t] = NoStart
      BY DEF NextTurn
    <2> QED
      BY <2>1, NoRunIs DEF RunOrder, NoStart
  <1>2. ASSUME NEW c \in Call PROVE CallOrder(c)'
    <2>1. turn \in Nat /\ turn' = turn + 1 /\ call[c].turn <= turn /\ call[c].turn \in Nat
      <3>1. call[c].turn \in Turn \cup {0}
        BY CallOf DEF ToolCall
      <3> QED
        BY <3>1, MaxTurnIsNat DEF NextTurn, OrderInvariant, CallOrder, ToolsInvariant, Turn
    <2>2. call'[c].turn = 0 \/ call'[c].turn = call[c].turn
      BY DEF NextTurn, Fresh
    <2> QED
      BY <2>1, <2>2 DEF CallOrder
  <1> QED
    BY <1>1, <1>2 DEF OrderInvariant

LEMMA InitOrder ==
  ASSUME NeverReturns, ToolsInit
  PROVE  OrderInvariant
  <1>1. ASSUME NEW t \in Target PROVE RunOrder(t)
    BY NoRunIs DEF ToolsInit, RunOrder, NoStart
  <1>2. ASSUME NEW c \in Call PROVE CallOrder(c)
    BY DEF ToolsInit, CallOrder, Fresh
  <1> QED
    BY <1>1, <1>2 DEF OrderInvariant

LEMMA OrderStep ==
  ASSUME NeverReturns, ToolsInvariant, OrderInvariant, [ToolsNext]_toolsVars
  PROVE  OrderInvariant'
  <1>1. CASE UNCHANGED toolsVars
    BY <1>1 DEF toolsVars, OrderInvariant, RunOrder, CallOrder, AtHead
  <1>2. ASSUME NEW c \in Call,
               \/ Step(c) \/ Replay(c)
               \/ \E t \in Target, name \in Name \cup {"none"} : Search(c, t, name)
               \/ \E e \in registry : Execute(c, e)
        PROVE  OrderInvariant'
    BY <1>2, CallsInOrder, ReplayOrder, SearchOrder, ExecuteOrder
  <1>3. ASSUME NEW t \in Target, Started(t) \/ TakeStart(t) \/ Revise(t) PROVE OrderInvariant'
    BY <1>3, StartedOrder, TakeStartOrder, ReviseOrder
  <1> QED
    BY <1>1, <1>2, <1>3, NextTurnOrder, StepsAre

LEMMA OrderInvariance == NeverReturns /\ ToolsSpec => [](ToolsInvariant /\ OrderInvariant)
  <1> SUFFICES ASSUME NeverReturns PROVE ToolsSpec => [](ToolsInvariant /\ OrderInvariant)
    OBVIOUS
  <1>1. ToolsInit => OrderInvariant
    BY InitOrder
  <1>2. ToolsInvariant /\ OrderInvariant /\ [ToolsNext]_toolsVars => OrderInvariant'
    BY OrderStep
  <1> QED
    BY <1>1, <1>2, ToolsInvariance, PTL DEF ToolsSpec

\* What a rejection, or another answer, leaves alone.
LEMMA NewerSpared ==
  ASSUME NeverReturns, ToolsInvariant, OrderInvariant, ToolsNext, NEW c \in Call, NEW t \in Target,
         At(c, "refused"), call'[c].pc = "idle", t # TargetOf(c) \/ run[t].rev # call[c].rev
  PROVE  run'[t] = run[t] /\ ToolsOf(cache', t) = ToolsOf(cache, t)
  <1>1. call'[c] # call[c]
    BY DEF At
  <1>2. ASSUME NEW d \in Call,
               \/ Step(d) \/ Replay(d)
               \/ \E u \in Target, name \in Name \cup {"none"} : Search(d, u, name)
               \/ \E e \in registry : Execute(d, e)
        PROVE  Fail(c) \/ Reject(c)
    <2>1. d = c
      BY <1>1, <1>2, OthersStay
    <2>2. call[c].pc = "refused"
      BY DEF At
    <2> QED
      BY <1>2, <2>1, <2>2 DEF Step, Enter, BeginSearch, Prepare, Prepared, Authorized, Answered, TakeAnswer,
         Dispatch, Succeed, Refused, Search, Execute, Replay, At
  <1>3. ASSUME NEW u \in Target, Started(u) \/ TakeStart(u) \/ Revise(u) PROVE FALSE
    BY <1>1, <1>3 DEF Started, TakeStart, Revise
  <1>4. ~ NextTurn
    BY <1>1 DEF NextTurn, At
  <1>5. Fail(c) \/ Reject(c)
    BY <1>2, <1>3, <1>4, StepsAre
  <1>6. CASE UNCHANGED <<cache, run>>
    BY <1>6
  <1>7. CASE /\ Active(c) /\ Outdated(c) /\ cache' = Invalidated(cache, TargetOf(c))
             /\ run' = [run EXCEPT ![TargetOf(c)].tools = {}]
    <2>1. t # TargetOf(c)
      <3>1. Since(call[c].seen, call[c].rev) /\ Since(call[c].rev, run[call[c].target].rev)
        BY <1>7 DEF OrderInvariant, CallOrder, Active, At
      <3>2. run[call[c].target].rev = call[c].seen
        BY <1>7 DEF Outdated, TargetOf
      <3>3. run[TargetOf(c)].rev = call[c].rev
        BY <3>1, <3>2, SinceIs DEF TargetOf
      <3> QED
        BY <3>3
    <2>2. run'[t] = run[t]
      BY <1>7, <2>1 DEF ToolsInvariant
    <2>3. Entries(cache') = {e \in Entries(cache) : e.target # TargetOf(c)}
      BY <1>7, InvalidatedIs DEF ToolsInvariant
    <2>4. {x \in Entries(cache') : x.target = t} = {x \in Entries(cache) : x.target = t}
      BY <2>1, <2>3
    <2>5. ToolsOf(cache', t) = ToolsOf(cache, t)
      BY <2>4 DEF ToolsOf
    <2> QED
      BY <2>2, <2>5
  <1> QED
    BY <1>5, <1>6, <1>7 DEF Fail, Reject

\* A rejection of a revision that is no longer the run's changes neither the run nor
\* the kept tools of any target, if revisions do not return: what the call had seen
\* is then the run's only if it is also what was sent (executionRevision,
\* invalidateSessionTools).
THEOREM LateRejectionSparesNewerHolds == NeverReturns /\ ToolsSpec => LateRejectionSparesNewer
  <1> SUFFICES ASSUME NeverReturns PROVE ToolsSpec => LateRejectionSparesNewer
    OBVIOUS
  <1> DEFINE A == \A c \in Call, t \in Target :
                    At(c, "refused") /\ call'[c].pc = "idle" /\ (t # TargetOf(c) \/ run[t].rev # call[c].rev)
                      => run'[t] = run[t] /\ ToolsOf(cache', t) = ToolsOf(cache, t)
  <1>1. ToolsInvariant /\ OrderInvariant /\ [ToolsNext]_toolsVars => [A]_toolsVars
    BY NewerSpared
  <1>2. ToolsSpec => [](ToolsInvariant /\ OrderInvariant)
    BY OrderInvariance
  <1> QED
    BY <1>1, <1>2, PTL DEF ToolsSpec, LateRejectionSparesNewer
=============================================================================
