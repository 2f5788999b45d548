-------------------------- MODULE RevisionedStore --------------------------
(***************************************************************************)
(* What every durable record of the plugin relies on: one record per       *)
(* session, replaced as a whole, numbered by revision.  The scope, the     *)
(* invocation journal, the conversation archive, the task binding and the  *)
(* model-usage records all read and save through this promise.             *)
(*                                                                         *)
(* A record carries the set of changes that went into it, so that a lost   *)
(* update (a version computed from an older one than it replaces) is a     *)
(* change that disappears.                                                 *)
(***************************************************************************)
EXTENDS Naturals

CONSTANT Change     \* the identities of everything callers ever write

VARIABLES
  record,           \* the version a load returns
  promised          \* the newest version a caller was told is saved

Version  == [revision : Nat, changes : SUBSET Change]
NoRecord == [revision |-> 0, changes |-> {}]

\* v and everything written into it is still there in w.
Contained(v, w) ==
  /\ v.revision <= w.revision
  /\ v.changes \subseteq w.changes

Init ==
  /\ record = NoRecord
  /\ promised = NoRecord

\* A save takes effect: it extends exactly the version it replaces.
Commit ==
  \E c \in Change \ record.changes :
    /\ record' = [revision |-> record.revision + 1, changes |-> record.changes \cup {c}]
    /\ UNCHANGED promised

\* A caller is told that its version is saved.
Promise ==
  /\ promised' \in Version
  /\ Contained(promised, promised')
  /\ Contained(promised', record)
  /\ UNCHANGED record

\* The machine stops: versions nobody was told about may be gone.
PowerLoss ==
  /\ record' \in Version
  /\ Contained(promised, record')
  /\ Contained(record', record)
  /\ UNCHANGED promised

Next == Commit \/ Promise \/ PowerLoss

Spec == Init /\ [][Next]_<<record, promised>>
=============================================================================
