--------------------------- MODULE JournalPromise ---------------------------
(***************************************************************************)
(* What the invocation journal promises the code that dispatches business  *)
(* calls: an identifier is reserved once, the call it was reserved for     *)
(* never changes, and at most one caller ever hears that the reservation   *)
(* is its own.                                                             *)
(***************************************************************************)
CONSTANTS
  Id,          \* invocation identifiers
  Binding,     \* everything a call is bound to: target, run, tool, parameters
  Outcome,     \* last known states
  Unknown,     \* the outcome of a call that was only reserved
  NoEntry

VARIABLES
  entries,     \* the journal: one entry per reserved identifier
  owned        \* the identifiers whose creation was reported to a caller

Entry == [binding : Binding, outcome : Outcome]

Init ==
  /\ entries = [id \in Id |-> NoEntry]
  /\ owned = {}

\* A reservation becomes durable; its caller may or may not hear of it.
Reserve(id) ==
  /\ entries[id] = NoEntry
  /\ \E b \in Binding :
       entries' = [entries EXCEPT ![id] = [binding |-> b, outcome |-> Unknown]]
  /\ owned' \in {owned, owned \cup {id}}
  /\ id \notin owned

\* A later outcome of the same call.
Record(id) ==
  /\ entries[id] # NoEntry
  /\ \E o \in Outcome :
       entries' = [entries EXCEPT ![id] = [binding |-> entries[id].binding, outcome |-> o]]
  /\ UNCHANGED owned

\* Somebody removes the record; nothing is promised of what it held.
Remove ==
  /\ entries' = [id \in Id |-> NoEntry]
  /\ owned' = {}

Next == Remove \/ \E id \in Id : Reserve(id) \/ Record(id)

Spec == Init /\ [][Next]_<<entries, owned>>
=============================================================================
