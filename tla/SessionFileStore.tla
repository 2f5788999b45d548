-------------------------- MODULE SessionFileStore --------------------------
(***************************************************************************)
(* createFileInvocationStore (lib/invocation-store.js) and its four        *)
(* siblings, which differ in error codes and record checks only: one       *)
(* session's record file, the lock file beside it, and the processes that  *)
(* load and save the record at the same time.                              *)
(*                                                                         *)
(* A record is abstracted to its revision and to the set of changes that   *)
(* went into it; a caller computes the next record from the version it     *)
(* last loaded or saved.                                                   *)
(***************************************************************************)
EXTENDS Naturals, FiniteSets

CONSTANTS
  Process,    \* the programs that share the directory
  Change,     \* one fresh element per save that is attempted: bounds a run
  Free,       \* no lock file
  Orphan,     \* a lock file whose creator will never remove it
  Torn,       \* a record file whose bytes never reached the disk
  NoTemp      \* no temporary file

ASSUME SpecialValues ==
  /\ Free # Orphan
  /\ Free \notin Process
  /\ Orphan \notin Process

Version  == [revision : Nat, changes : SUBSET Change]
NoRecord == [revision |-> 0, changes |-> {}]

ASSUME TornIsNoVersion == Torn \notin Version
ASSUME NoTempIsNoFile  == NoTemp \notin [record : Version, flushed : BOOLEAN]

VARIABLES
  file,            \* the record file; NoRecord when it does not exist
  lock,            \* the lock file: Free, the process that created it, Orphan
  fileAfterLoss,   \* what the record's name may hold after a power loss
  lockAfterLoss,   \* whether the lock's name may exist after a power loss
  temp,            \* each process's temporary file
  pc,              \* where each process is in load or save
  base,            \* the version each process last loaded or saved
  job,             \* the version each process asks the store to save
  opened,          \* the version each load found with lstat
  answer,          \* how each process's last call ended
  used,            \* the changes that callers have spent
  acked            \* history: the newest version reported as saved

vars == <<file, lock, fileAfterLoss, lockAfterLoss, temp, pc, base, job, opened,
          answer, used, acked>>
disk == <<file, lock, fileAfterLoss, lockAfterLoss>>

Holding == {"check", "write", "flush", "rename", "sync", "release"}
Outcome == {"none", "saved", "conflict", "unavailable"}

TypeOK ==
  /\ file \in Version \cup {Torn}
  /\ lock \in Process \cup {Free, Orphan}
  /\ fileAfterLoss \in SUBSET (Version \cup {Torn})
  /\ lockAfterLoss \in SUBSET {Free, Orphan}
  /\ temp \in [Process -> [record : Version, flushed : BOOLEAN] \cup {NoTemp}]
  /\ pc \in [Process -> Holding \cup {"idle", "load", "lock"}]
  /\ base \in [Process -> Version]
  /\ job \in [Process -> Version]
  /\ opened \in [Process -> Version \cup {Torn}]
  /\ answer \in [Process -> Outcome]
  /\ used \in SUBSET Change
  /\ acked \in Version

Init ==
  /\ file = NoRecord
  /\ lock = Free
  /\ fileAfterLoss = {NoRecord}
  /\ lockAfterLoss = {Free}
  /\ temp = [p \in Process |-> NoTemp]
  /\ pc = [p \in Process |-> "idle"]
  /\ base = [p \in Process |-> NoRecord]
  /\ job = [p \in Process |-> NoRecord]
  /\ opened = [p \in Process |-> NoRecord]
  /\ answer = [p \in Process |-> "none"]
  /\ used = {}
  /\ acked = NoRecord

Goto(p, label) == pc' = [pc EXCEPT ![p] = label]
Answer(p, outcome) == answer' = [answer EXCEPT ![p] = outcome]

-----------------------------------------------------------------------------
(* load: lstat, then open and compare; no lock is taken *)

LoadStat(p) ==
  /\ pc[p] = "idle"
  /\ opened' = [opened EXCEPT ![p] = file]
  /\ Goto(p, "load")
  /\ Answer(p, "none")
  /\ UNCHANGED <<disk, temp, base, job, used, acked>>

\* There was no file, or the one that was opened is the one lstat saw and parses.
LoadRead(p) ==
  /\ pc[p] = "load"
  /\ opened[p] \in {NoRecord, file} \ {Torn}
  /\ base' = [base EXCEPT ![p] = opened[p]]
  /\ Goto(p, "idle")
  /\ UNCHANGED <<disk, temp, job, opened, answer, used, acked>>

\* Another save replaced the file in between, or the read failed.
LoadFailed(p) ==
  /\ pc[p] = "load"
  /\ Goto(p, "idle")
  /\ Answer(p, "unavailable")
  /\ UNCHANGED <<disk, temp, base, job, opened, used, acked>>

-----------------------------------------------------------------------------
(* save *)

\* A caller extends the version it has by one change (nextRecord).
NextVersion(v, c) == [revision |-> v.revision + 1, changes |-> v.changes \cup {c}]

BeginSave(p) ==
  /\ pc[p] = "idle"
  /\ \E c \in Change \ used :
       /\ job' = [job EXCEPT ![p] = NextVersion(base[p], c)]
       /\ used' = used \cup {c}
  /\ Goto(p, "lock")
  /\ Answer(p, "none")
  /\ UNCHANGED <<disk, temp, base, opened, acked>>

\* O_CREAT | O_EXCL: at most one creator.
LockIsFree(p) == lock = Free

AcquireLock(p) ==
  /\ pc[p] = "lock"
  /\ LockIsFree(p)
  /\ lock' = p
  /\ lockAfterLoss' = lockAfterLoss \cup {Orphan}
  /\ Goto(p, "check")
  /\ UNCHANGED <<file, fileAfterLoss, temp, base, job, opened, answer, used, acked>>

\* The lock file was created but not examined.  It is removed when its
\* identity is known, and left behind when the first stat of it failed.
AcquireFailed(p) ==
  /\ pc[p] = "lock"
  /\ lock = Free
  /\ lock' \in {Free, Orphan}
  /\ lockAfterLoss' = lockAfterLoss \cup {Orphan}
  /\ Goto(p, "idle")
  /\ Answer(p, "unavailable")
  /\ UNCHANGED <<file, fileAfterLoss, temp, base, job, opened, used, acked>>

LockWaitsForOwner(p) ==     \* a faulty LockTimeout: retries while the owner is known
  /\ pc[p] = "lock"
  /\ lock \in Process
  /\ Goto(p, "idle")
  /\ Answer(p, "conflict")
  /\ UNCHANGED <<disk, temp, base, job, opened, used, acked>>

\* The lock stayed taken for LOCK_TIMEOUT_MS.  Nobody removes it.
LockTimeout(p) ==
  /\ pc[p] = "lock"
  /\ lock # Free
  /\ Goto(p, "idle")
  /\ Answer(p, "conflict")
  /\ UNCHANGED <<disk, temp, base, job, opened, used, acked>>

RevisionNotNewer(p) == file.revision <= job[p].revision   \* a faulty RevisionMatches

\* assertRevision of the record read under the lock.
RevisionMatches(p) == file.revision = job[p].revision - 1

CheckRevision(p) ==
  /\ pc[p] = "check"
  /\ file # Torn
  /\ IF RevisionMatches(p)
       THEN Goto(p, "write") /\ UNCHANGED answer
       ELSE Goto(p, "release") /\ Answer(p, "conflict")
  /\ UNCHANGED <<disk, temp, base, job, opened, used, acked>>

\* The temporary file's bytes are written, then synced, then renamed.
WriteTemp(p) ==
  /\ pc[p] = "write"
  /\ temp' = [temp EXCEPT ![p] = [record |-> job[p], flushed |-> FALSE]]
  /\ Goto(p, "flush")
  /\ UNCHANGED <<disk, base, job, opened, answer, used, acked>>

FlushTemp(p) ==
  /\ pc[p] = "flush"
  /\ temp' = [temp EXCEPT ![p].flushed = TRUE]
  /\ Goto(p, "rename")
  /\ UNCHANGED <<disk, base, job, opened, answer, used, acked>>

Rename(p) ==
  /\ pc[p] = "rename"
  /\ file' = temp[p].record
  /\ fileAfterLoss' =
       fileAfterLoss \cup {IF temp[p].flushed THEN temp[p].record ELSE Torn}
  /\ temp' = [temp EXCEPT ![p] = NoTemp]
  /\ Goto(p, "sync")
  /\ UNCHANGED <<lock, lockAfterLoss, base, job, opened, answer, used, acked>>

\* Any failure before the rename: the temporary file is unlinked.
SaveFailed(p) ==
  /\ pc[p] \in {"check", "write", "flush", "rename"}
  /\ temp' = [temp EXCEPT ![p] = NoTemp]
  /\ Goto(p, "release")
  /\ Answer(p, "unavailable")
  /\ UNCHANGED <<disk, base, job, opened, used, acked>>

\* fsync of the directory makes every name in it durable as it is now.
SyncDirectory(p) ==
  /\ pc[p] = "sync"
  /\ fileAfterLoss' = {file}
  /\ lockAfterLoss' = {Orphan}
  /\ Goto(p, "release")
  /\ Answer(p, "saved")
  /\ UNCHANGED <<file, lock, temp, base, job, opened, used, acked>>

SyncOutcomeConflict == "conflict"   \* a faulty SyncOutcome

\* The record is already in place, the caller is told it may not be.
SyncOutcome == "unavailable"

SyncFailed(p) ==
  /\ pc[p] = "sync"
  /\ Goto(p, "release")
  /\ Answer(p, SyncOutcome)
  /\ UNCHANGED <<disk, temp, base, job, opened, used, acked>>

\* The finally block: unlink the lock, and only then answer the caller.
Release(p) ==
  /\ pc[p] = "release"
  /\ lock' = Free
  /\ lockAfterLoss' = lockAfterLoss \cup {Free}
  /\ Goto(p, "idle")
  /\ IF answer[p] = "saved"
       THEN /\ base' = [base EXCEPT ![p] = job[p]]
            /\ acked' = IF job[p].revision > acked.revision THEN job[p] ELSE acked
       ELSE UNCHANGED <<base, acked>>
  /\ UNCHANGED <<file, fileAfterLoss, temp, job, opened, answer, used>>

\* lstat, unlink or close of the lock failed: any outcome becomes unavailable.
ReleaseFailed(p) ==
  /\ pc[p] = "release"
  /\ lock' \in {Free, Orphan}
  /\ lockAfterLoss' = lockAfterLoss \cup {lock'}
  /\ Goto(p, "idle")
  /\ Answer(p, "unavailable")
  /\ UNCHANGED <<file, fileAfterLoss, temp, base, job, opened, used, acked>>

-----------------------------------------------------------------------------
(* failures of the environment *)

\* A process dies: its lock file stays, its temporary name is never read.
Crash(p) ==
  /\ pc[p] # "idle"
  /\ lock' = IF pc[p] \in Holding THEN Orphan ELSE lock
  /\ temp' = [temp EXCEPT ![p] = NoTemp]
  /\ base' = [base EXCEPT ![p] = NoRecord]
  /\ Goto(p, "idle")
  /\ Answer(p, "none")
  /\ UNCHANGED <<file, fileAfterLoss, lockAfterLoss, job, opened, used, acked>>

PowerLoss ==
  /\ file' \in fileAfterLoss
  /\ lock' \in lockAfterLoss
  /\ fileAfterLoss' = {file'}
  /\ lockAfterLoss' = {lock'}
  /\ temp' = [p \in Process |-> NoTemp]
  /\ base' = [p \in Process |-> NoRecord]
  /\ pc' = [p \in Process |-> "idle"]
  /\ answer' = [p \in Process |-> "none"]
  /\ UNCHANGED <<job, opened, used, acked>>

-----------------------------------------------------------------------------
\* The steps a process takes once it has made a call.
Step(p) ==
  \/ LoadRead(p) \/ LoadFailed(p)
  \/ AcquireLock(p) \/ AcquireFailed(p) \/ LockTimeout(p)
  \/ CheckRevision(p) \/ WriteTemp(p) \/ FlushTemp(p) \/ Rename(p) \/ SaveFailed(p)
  \/ SyncDirectory(p) \/ SyncFailed(p) \/ Release(p) \/ ReleaseFailed(p)

Next ==
  \/ \E p \in Process : LoadStat(p) \/ BeginSave(p) \/ Step(p) \/ Crash(p)
  \/ PowerLoss

Spec == Init /\ [][Next]_vars

\* Node runs every file system call to an end; lock waiting has a deadline.
FairSpec == Spec /\ \A p \in Process : WF_vars(Step(p))
-----------------------------------------------------------------------------
(* Properties *)

\* Between creating the lock and removing it a process is alone: two savers
\* are never both past acquireLock, and a holder's lock file is its own.
OneWriter ==
  /\ \A p \in Process : pc[p] \in Holding => lock = p
  /\ \A p, q \in Process : pc[p] \in Holding /\ pc[q] \in Holding => p = q

\* The record's name never holds half-written bytes, not even after a power
\* loss in the middle of a save.
NeverTorn == file # Torn

\* A save that ends in *_STORE_CONFLICT changed nothing: callers treat that
\* code as "read again", unlike *_STORE_UNAVAILABLE, which promises nothing.
ConflictMeansUnsaved ==
  \A p \in Process :
    pc[p] = "idle" /\ answer[p] = "conflict" => ~ (job[p].changes \subseteq file.changes)

\* The store keeps its promise: a save extends exactly the version it
\* replaces, and a version reported as saved survives a power loss.
Promised == INSTANCE RevisionedStore WITH record <- file, promised <- acked
Implements == Promised!Spec

\* Every call comes to an end, whatever the other processes do or leave behind.
EveryCallAnswers == \A p \in Process : pc[p] # "idle" ~> pc[p] = "idle"
=============================================================================
