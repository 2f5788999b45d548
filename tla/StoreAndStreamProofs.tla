----------------------- MODULE StoreAndStreamProofs -----------------------
(***************************************************************************)
(* Two components that share no state, each over its own variables.        *)
(*                                                                         *)
(* The file store keeps the promise of RevisionedStore for any number of   *)
(* processes, saves, crashes and power losses.  A usage stream keeps what  *)
(* it promises the agent loop for responses of any length, however its     *)
(* four parties overlap.                                                   *)
(***************************************************************************)
EXTENDS SessionFileStore, UsageStream, TLAPS

-----------------------------------------------------------------------------
(* SessionFileStore *)

Contained(v, w) ==
  /\ v.revision <= w.revision
  /\ v.changes \subseteq w.changes

Saving == {"lock", "check", "write", "flush", "rename"}

\* What a power loss may bring back is a whole version, not older than any
\* version reported as saved and not newer than the one in place.
DiskInv ==
  /\ file \in fileAfterLoss
  /\ \A v \in fileAfterLoss :
       /\ v \in Version
       /\ v.revision = 0 => v = NoRecord
       /\ Contained(acked, v)
       /\ Contained(v, file)
  /\ file.changes \subseteq used

\* A version some process holds is an ancestor of the one in place.
BaseInv ==
  \A p \in Process :
    /\ Contained(base[p], file)
    /\ base[p].revision = file.revision => base[p] = file

\* What a process is about to save extends its base by one fresh change.
JobInv ==
  \A p \in Process : pc[p] \in Saving =>
    \E c \in used \ base[p].changes :
      job[p] = [revision |-> base[p].revision + 1, changes |-> base[p].changes \cup {c}]

HolderInv ==
  \A p \in Process :
    /\ pc[p] \in Holding => lock = p
    /\ pc[p] \in {"write", "flush", "rename"} => base[p].revision = file.revision
    /\ pc[p] \in {"flush", "rename"} => temp[p] # NoTemp /\ temp[p].record = job[p]
    /\ pc[p] = "rename" => temp[p].flushed
    /\ pc[p] = "sync" => file = job[p]
    /\ pc[p] = "release" /\ answer[p] = "saved" => fileAfterLoss = {job[p]}

IInv == TypeOK /\ DiskInv /\ BaseInv /\ JobInv /\ HolderInv

\* A directory without the record satisfies the inductive invariant.
LEMMA InitInv == Init => IInv
  <1> SUFFICES ASSUME Init PROVE IInv
    OBVIOUS
  <1> USE DEF Init
  <1>1. NoRecord \in Version
    BY DEF NoRecord, Version
  <1>2. TypeOK
    BY <1>1 DEF TypeOK, Holding, Outcome
  <1>3. DiskInv
    BY <1>1 DEF DiskInv, Contained, NoRecord, Version
  <1>4. BaseInv /\ JobInv /\ HolderInv
    BY DEF BaseInv, JobInv, HolderInv, Contained, NoRecord, Saving, Holding
  <1> QED
    BY <1>2, <1>3, <1>4 DEF IInv

\* No step of any process, no failure and no power loss breaks it.
LEMMA StepInv == IInv /\ [Next]_vars => IInv'
  <1> SUFFICES ASSUME IInv, [Next]_vars PROVE IInv'
    OBVIOUS
  <1> USE DEF IInv, TypeOK, Version, Holding, Saving, Outcome, Goto, Answer, disk
  <1>0. file \in Version
    BY DEF DiskInv
  <1>1. ASSUME NEW p \in Process, LoadStat(p) PROVE IInv'
    <2>1. TypeOK'
      BY <1>1 DEF LoadStat
    <2>2. DiskInv'
      BY <1>1 DEF LoadStat, DiskInv, Contained
    <2>3. BaseInv'
      BY <1>1 DEF LoadStat, BaseInv, Contained
    <2>4. JobInv'
      BY <1>1 DEF LoadStat, JobInv
    <2>5. HolderInv'
      BY <1>1, SpecialValues DEF LoadStat, HolderInv
    <2> QED
      BY <2>1, <2>2, <2>3, <2>4, <2>5
  <1>2. ASSUME NEW p \in Process, BeginSave(p) PROVE IInv'
    <2>1. TypeOK'
      BY <1>2 DEF BeginSave, NextVersion
    <2>2. DiskInv'
      BY <1>2 DEF BeginSave, NextVersion, DiskInv, Contained
    <2>3. BaseInv'
      BY <1>2 DEF BeginSave, NextVersion, BaseInv, Contained
    <2>4. JobInv'
      <3>1. PICK c \in Change \ used :
              /\ job' = [job EXCEPT ![p] = [revision |-> base[p].revision + 1,
                                            changes  |-> base[p].changes \cup {c}]]
              /\ used' = used \cup {c}
        BY <1>2 DEF BeginSave, NextVersion
      <3>2. c \in used' \ base[p].changes
        BY <3>1 DEF BaseInv, DiskInv, Contained
      <3> QED
        BY <3>1, <3>2, <1>2 DEF BeginSave, NextVersion, JobInv
    <2>5. HolderInv'
      BY <1>2, SpecialValues DEF BeginSave, NextVersion, HolderInv
    <2> QED
      BY <2>1, <2>2, <2>3, <2>4, <2>5
  <1>3. ASSUME NEW p \in Process, LoadRead(p) PROVE IInv'
    <2>1. TypeOK'
      BY <1>3 DEF LoadRead, NoRecord
    <2>2. DiskInv'
      BY <1>3 DEF LoadRead, DiskInv, Contained
    <2>3. BaseInv'
      <3>1. base' = [base EXCEPT ![p] = opened[p]] /\ UNCHANGED file
        BY <1>3 DEF LoadRead
      <3>2. CASE opened[p] = file
        BY <3>1, <3>2, <1>0 DEF BaseInv, Contained
      <3>3. CASE opened[p] = NoRecord
        BY <3>1, <3>3, <1>0 DEF BaseInv, DiskInv, Contained, NoRecord
      <3> QED
        BY <1>3, <3>2, <3>3 DEF LoadRead
    <2>4. JobInv'
      BY <1>3 DEF LoadRead, JobInv
    <2>5. HolderInv'
      BY <1>3, SpecialValues DEF LoadRead, NoRecord, HolderInv
    <2> QED
      BY <2>1, <2>2, <2>3, <2>4, <2>5
  <1>4. ASSUME NEW p \in Process, LoadFailed(p) PROVE IInv'
    <2>1. TypeOK'
      BY <1>4 DEF LoadFailed
    <2>2. DiskInv'
      BY <1>4 DEF LoadFailed, DiskInv, Contained
    <2>3. BaseInv'
      BY <1>4 DEF LoadFailed, BaseInv, Contained
    <2>4. JobInv'
      BY <1>4 DEF LoadFailed, JobInv
    <2>5. HolderInv'
      BY <1>4, SpecialValues DEF LoadFailed, HolderInv
    <2> QED
      BY <2>1, <2>2, <2>3, <2>4, <2>5
  <1>5. ASSUME NEW p \in Process, AcquireLock(p) PROVE IInv'
    <2>1. TypeOK'
      BY <1>5 DEF AcquireLock, LockIsFree
    <2>2. DiskInv'
      BY <1>5 DEF AcquireLock, DiskInv, Contained
    <2>3. BaseInv'
      BY <1>5 DEF AcquireLock, BaseInv, Contained
    <2>4. JobInv'
      BY <1>5 DEF AcquireLock, JobInv
    <2>5. HolderInv'
      BY <1>5, SpecialValues DEF AcquireLock, LockIsFree, HolderInv
    <2> QED
      BY <2>1, <2>2, <2>3, <2>4, <2>5
  <1>6. ASSUME NEW p \in Process, AcquireFailed(p) PROVE IInv'
    <2>1. TypeOK'
      BY <1>6 DEF AcquireFailed
    <2>2. DiskInv'
      BY <1>6 DEF AcquireFailed, DiskInv, Contained
    <2>3. BaseInv'
      BY <1>6 DEF AcquireFailed, BaseInv, Contained
    <2>4. JobInv'
      BY <1>6 DEF AcquireFailed, JobInv
    <2>5. HolderInv'
      BY <1>6, SpecialValues DEF AcquireFailed, HolderInv
    <2> QED
      BY <2>1, <2>2, <2>3, <2>4, <2>5
  <1>7. ASSUME NEW p \in Process, LockTimeout(p) PROVE IInv'
    <2>1. TypeOK'
      BY <1>7 DEF LockTimeout
    <2>2. DiskInv'
      BY <1>7 DEF LockTimeout, DiskInv, Contained
    <2>3. BaseInv'
      BY <1>7 DEF LockTimeout, BaseInv, Contained
    <2>4. JobInv'
      BY <1>7 DEF LockTimeout, JobInv
    <2>5. HolderInv'
      BY <1>7, SpecialValues DEF LockTimeout, HolderInv
    <2> QED
      BY <2>1, <2>2, <2>3, <2>4, <2>5
  <1>8. ASSUME NEW p \in Process, CheckRevision(p) PROVE IInv'
    <2>1. TypeOK'
      <3>1. CASE RevisionMatches(p)
        BY <1>8, <3>1 DEF CheckRevision
      <3>2. CASE ~ RevisionMatches(p)
        BY <1>8, <3>2 DEF CheckRevision
      <3> QED
        BY <3>1, <3>2
    <2>2. DiskInv'
      BY <1>8 DEF CheckRevision, DiskInv, Contained
    <2>3. BaseInv'
      BY <1>8 DEF CheckRevision, BaseInv, Contained
    <2>4. JobInv'
      BY <1>8 DEF CheckRevision, JobInv
    <2>5. HolderInv'
      <3>1. CASE RevisionMatches(p)
        <4>1. base[p].revision = file.revision
          BY <1>0, <1>8, <3>1 DEF CheckRevision, RevisionMatches, JobInv
        <4> QED
          BY <1>8, <3>1, <4>1 DEF CheckRevision, HolderInv
      <3>2. CASE ~ RevisionMatches(p)
        BY <1>8, <3>2 DEF CheckRevision, HolderInv
      <3> QED
        BY <3>1, <3>2
    <2> QED
      BY <2>1, <2>2, <2>3, <2>4, <2>5
  <1>9. ASSUME NEW p \in Process, WriteTemp(p) PROVE IInv'
    <2> DEFINE Temp == [record : Version, flushed : BOOLEAN]
    <2>0. [record |-> job[p], flushed |-> FALSE] \in Temp
      OBVIOUS
    <2>1. TypeOK'
      BY <2>0, <1>9 DEF WriteTemp
    <2>2. DiskInv'
      BY <1>9 DEF WriteTemp, DiskInv, Contained
    <2>3. BaseInv'
      BY <1>9 DEF WriteTemp, BaseInv, Contained
    <2>4. JobInv'
      BY <1>9 DEF WriteTemp, JobInv
    <2>5. HolderInv'
      BY <2>0, <1>9, NoTempIsNoFile DEF WriteTemp, HolderInv
    <2> QED
      BY <2>1, <2>2, <2>3, <2>4, <2>5
  <1>10. ASSUME NEW p \in Process, FlushTemp(p) PROVE IInv'
    <2>0. temp[p] \in [record : Version, flushed : BOOLEAN]
      BY <1>10 DEF FlushTemp, HolderInv
    <2>a. /\ [temp[p] EXCEPT !.flushed = TRUE] \in [record : Version, flushed : BOOLEAN]
          /\ [temp[p] EXCEPT !.flushed = TRUE].record = temp[p].record
          /\ [temp[p] EXCEPT !.flushed = TRUE].flushed = TRUE
      BY <2>0
    <2>b. temp' = [temp EXCEPT ![p] = [temp[p] EXCEPT !.flushed = TRUE]]
      BY <1>10 DEF FlushTemp
    <2>1. TypeOK'
      BY <2>a, <2>b, <1>10 DEF FlushTemp
    <2>2. DiskInv'
      BY <1>10 DEF FlushTemp, DiskInv, Contained
    <2>3. BaseInv'
      BY <1>10 DEF FlushTemp, BaseInv, Contained
    <2>4. JobInv'
      BY <1>10 DEF FlushTemp, JobInv
    <2>5. HolderInv'
      <3> SUFFICES ASSUME NEW q \in Process PROVE HolderInv!(q)'
        BY DEF HolderInv
      <3>1. [temp[p] EXCEPT !.flushed = TRUE] # NoTemp
        BY <2>a, NoTempIsNoFile
      <3>2. CASE q = p
        BY <1>10, <2>a, <2>b, <3>1, <3>2 DEF FlushTemp, HolderInv
      <3>3. CASE q # p
        BY <1>10, <2>b, <3>3 DEF FlushTemp, HolderInv
      <3> QED
        BY <3>2, <3>3
    <2> QED
      BY <2>1, <2>2, <2>3, <2>4, <2>5
  <1>11. ASSUME NEW p \in Process, Rename(p) PROVE IInv'
    <2>a. PICK c \in used \ base[p].changes :
            job[p] = [revision |-> base[p].revision + 1, changes |-> base[p].changes \cup {c}]
      BY <1>11 DEF Rename, JobInv
    <2>b. /\ file' = job[p]
          /\ fileAfterLoss' = fileAfterLoss \cup {job[p]}
          /\ UNCHANGED <<acked, used, base>>
      BY <1>11 DEF Rename, HolderInv
    <2>c. base[p] = file
      BY <1>11 DEF Rename, HolderInv, BaseInv
    <2>d. /\ Contained(file, job[p])
          /\ job[p].revision = file.revision + 1
          /\ job[p].changes \subseteq used
      BY <1>0, <2>a, <2>c DEF Contained, DiskInv
    <2>1. TypeOK'
      BY <1>11 DEF Rename, HolderInv
    <2>2. DiskInv'
      <3>1. \A v \in fileAfterLoss : Contained(v, job[p])
        BY <1>0, <2>d DEF Contained, DiskInv
      <3>2. Contained(acked, job[p])
        BY <1>0, <3>1 DEF Contained, DiskInv
      <3> QED
        BY <1>11, <2>b, <2>d, <3>1, <3>2 DEF Rename, DiskInv, Contained
    <2>3. BaseInv'
      BY <1>0, <1>11, <2>b, <2>d DEF Rename, BaseInv, Contained
    <2>4. JobInv'
      BY <1>11 DEF Rename, JobInv
    <2>5. HolderInv'
      BY <1>11, SpecialValues DEF Rename, HolderInv
    <2> QED
      BY <2>1, <2>2, <2>3, <2>4, <2>5
  <1>12. ASSUME NEW p \in Process, SaveFailed(p) PROVE IInv'
    <2>1. TypeOK'
      BY <1>12 DEF SaveFailed
    <2>2. DiskInv'
      BY <1>12 DEF SaveFailed, DiskInv, Contained
    <2>3. BaseInv'
      BY <1>12 DEF SaveFailed, BaseInv, Contained
    <2>4. JobInv'
      BY <1>12 DEF SaveFailed, JobInv
    <2>5. HolderInv'
      BY <1>12, SpecialValues DEF SaveFailed, HolderInv
    <2> QED
      BY <2>1, <2>2, <2>3, <2>4, <2>5
  <1>13. ASSUME NEW p \in Process, SyncDirectory(p) PROVE IInv'
    <2>1. TypeOK'
      BY <1>13 DEF SyncDirectory
    <2>2. DiskInv'
      BY <1>13 DEF SyncDirectory, DiskInv, Contained
    <2>3. BaseInv'
      BY <1>13 DEF SyncDirectory, BaseInv, Contained
    <2>4. JobInv'
      BY <1>13 DEF SyncDirectory, JobInv
    <2>5. HolderInv'
      BY <1>13, SpecialValues DEF SyncDirectory, HolderInv
    <2> QED
      BY <2>1, <2>2, <2>3, <2>4, <2>5
  <1>14. ASSUME NEW p \in Process, SyncFailed(p) PROVE IInv'
    <2>1. TypeOK'
      BY <1>14 DEF SyncFailed, SyncOutcome
    <2>2. DiskInv'
      BY <1>14 DEF SyncFailed, DiskInv, Contained
    <2>3. BaseInv'
      BY <1>14 DEF SyncFailed, BaseInv, Contained
    <2>4. JobInv'
      BY <1>14 DEF SyncFailed, JobInv
    <2>5. HolderInv'
      BY <1>14, SpecialValues DEF SyncFailed, SyncOutcome, HolderInv
    <2> QED
      BY <2>1, <2>2, <2>3, <2>4, <2>5
  <1>15. ASSUME NEW p \in Process, Release(p) PROVE IInv'
    <2>1. TypeOK'
      <3>1. CASE answer[p] = "saved"
        BY <1>15, <3>1 DEF Release
      <3>2. CASE answer[p] # "saved"
        BY <1>15, <3>2 DEF Release
      <3> QED
        BY <3>1, <3>2
    <2>2. DiskInv'
      BY <1>0, <1>15 DEF Release, DiskInv, HolderInv, Contained
    <2>3. BaseInv'
      BY <1>15 DEF Release, BaseInv, DiskInv, HolderInv, Contained
    <2>4. JobInv'
      BY <1>15 DEF Release, JobInv
    <2>5. HolderInv'
      BY <1>15, SpecialValues DEF Release, HolderInv
    <2> QED
      BY <2>1, <2>2, <2>3, <2>4, <2>5
  <1>16. ASSUME NEW p \in Process, ReleaseFailed(p) PROVE IInv'
    <2>1. TypeOK'
      BY <1>16 DEF ReleaseFailed
    <2>2. DiskInv'
      BY <1>16 DEF ReleaseFailed, DiskInv, Contained
    <2>3. BaseInv'
      BY <1>16 DEF ReleaseFailed, BaseInv, Contained
    <2>4. JobInv'
      BY <1>16 DEF ReleaseFailed, JobInv
    <2>5. HolderInv'
      BY <1>16, SpecialValues DEF ReleaseFailed, HolderInv
    <2> QED
      BY <2>1, <2>2, <2>3, <2>4, <2>5
  <1>17. ASSUME NEW p \in Process, Crash(p) PROVE IInv'
    <2>1. TypeOK'
      BY <1>17 DEF Crash, NoRecord
    <2>2. DiskInv'
      BY <1>17 DEF Crash, DiskInv, Contained
    <2>3. BaseInv'
      BY <1>0, <1>17 DEF Crash, BaseInv, DiskInv, NoRecord, Contained
    <2>4. JobInv'
      BY <1>17 DEF Crash, JobInv
    <2>5. HolderInv'
      BY <1>17, SpecialValues DEF Crash, NoRecord, HolderInv
    <2> QED
      BY <2>1, <2>2, <2>3, <2>4, <2>5
  <1>18. ASSUME PowerLoss PROVE IInv'
    BY <1>18 DEF PowerLoss, NoRecord, DiskInv, BaseInv, JobInv, HolderInv, Contained
  <1>19. CASE UNCHANGED vars
    BY <1>19 DEF vars, DiskInv, BaseInv, JobInv, HolderInv, Contained
  <1> QED
    BY <1>1, <1>2, <1>3, <1>4, <1>5, <1>6, <1>7, <1>8, <1>9, <1>10, <1>11, <1>12, <1>13, <1>14, <1>15, <1>16, <1>17, <1>18, <1>19 DEF Next, Step

\* Every variable keeps its type, in every reachable state.
THEOREM TypeCorrect == Spec => []TypeOK
  <1>1. IInv => TypeOK
    BY DEF IInv
  <1> QED
    BY <1>1, InitInv, StepInv, PTL DEF Spec

\* createFile*Store: the lock file admits one saver, and it belongs to it.
THEOREM OneWriterHolds == Spec => []OneWriter
  <1>1. IInv => OneWriter
    BY DEF IInv, HolderInv, OneWriter
  <1> QED
    BY <1>1, InitInv, StepInv, PTL DEF Spec

\* createFile*Store: a save cut off anywhere never leaves half a record.
THEOREM NeverTornHolds == Spec => []NeverTorn
  <1>1. IInv => NeverTorn
    BY TornIsNoVersion DEF IInv, DiskInv, NeverTorn
  <1> QED
    BY <1>1, InitInv, StepInv, PTL DEF Spec

\* Each step is a commit, a promise or a power loss of the abstract store, or
\* changes nothing it can see.
LEMMA StepImplements ==
  ASSUME IInv, IInv', [Next]_vars
  PROVE  [Promised!Next]_<<file, acked>>
  <1> USE DEF IInv, TypeOK, Goto, Answer, disk
  <1>1. file \in Version /\ file' \in Version
    BY DEF DiskInv
  <1>2. ASSUME NEW p \in Process, Rename(p) PROVE Promised!Commit
    <2>1. PICK c \in used \ base[p].changes :
            job[p] = [revision |-> base[p].revision + 1, changes |-> base[p].changes \cup {c}]
      BY <1>2 DEF Rename, JobInv, Saving
    <2>2. file' = job[p] /\ base[p] = file /\ UNCHANGED acked
      BY <1>2 DEF Rename, HolderInv, BaseInv
    <2> QED
      BY <2>1, <2>2 DEF Promised!Commit
  <1>3. ASSUME NEW p \in Process, Release(p), answer[p] = "saved"
        PROVE  Promised!Promise \/ UNCHANGED <<file, acked>>
    <2>1. job[p] \in fileAfterLoss /\ UNCHANGED <<file, fileAfterLoss>>
      BY <1>3 DEF Release, HolderInv
    <2>2. acked' = job[p] \/ acked' = acked
      BY <1>3 DEF Release
    <2> QED
      BY <2>1, <2>2 DEF DiskInv, Contained, Promised!Promise, Promised!Contained, Promised!Version, Version
  <1>4. ASSUME PowerLoss PROVE Promised!PowerLoss
    BY <1>1, <1>4 DEF PowerLoss, DiskInv, Contained, Promised!PowerLoss, Promised!Contained,
       Promised!Version, Version
  <1>5. ASSUME NEW p \in Process, ~ Rename(p), ~ (Release(p) /\ answer[p] = "saved"),
               LoadStat(p) \/ BeginSave(p) \/ Step(p) \/ Crash(p)
        PROVE  UNCHANGED <<file, acked>>
    BY <1>5 DEF LoadStat, BeginSave, NextVersion, Step, Crash, LoadRead, LoadFailed, AcquireLock, AcquireFailed,
       LockTimeout, CheckRevision, WriteTemp, FlushTemp, SaveFailed, SyncDirectory, SyncFailed,
       Release, ReleaseFailed
  <1> QED
    BY <1>2, <1>3, <1>4, <1>5 DEF Next, Promised!Next, vars

\* createFile*Store against its promise: for any number of processes, a save
\* extends exactly the version it replaces, and no crash or power loss takes
\* back a version that some caller was told is saved.
THEOREM StoreImplements == Spec => Implements
  <1>1. Init => Promised!Init
    BY DEF Init, Promised!Init, NoRecord, Promised!NoRecord
  <1> QED
    BY <1>1, InitInv, StepInv, StepImplements, PTL DEF Spec, Implements, Promised!Spec
-----------------------------------------------------------------------------
(* A save that ends in a conflict has changed nothing.                     *)

\* The save of p has not reached the record file.
Unsaved(p) == pc[p] \in Saving \/ answer[p] = "conflict"

\* It holds a change that is not in the file and that no other save carries,
\* and a conflict is only ever the answer of a save that stopped before that.
FreshInv ==
  \A p \in Process :
    /\ answer[p] = "conflict" => pc[p] \in {"idle", "release"}
    /\ Unsaved(p) =>
         \E c \in job[p].changes \cap used :
           /\ c \notin file.changes
           /\ \A q \in Process \ {p} : pc[q] \in Saving => c \notin job[q].changes

\* Steps that leave the file and the jobs alone.
LEMMA QuietFresh ==
  ASSUME FreshInv, UNCHANGED <<file, job, used>>,
         \A p \in Process :
           /\ Unsaved(p)' => Unsaved(p)
           /\ pc'[p] \in Saving => pc[p] \in Saving
           /\ answer'[p] = "conflict" => pc'[p] \in {"idle", "release"}
  PROVE  FreshInv'
  <1> SUFFICES ASSUME NEW p \in Process, Unsaved(p)'
               PROVE  \E c \in job[p].changes \cap used :
                        /\ c \notin file.changes
                        /\ \A q \in Process \ {p} : pc'[q] \in Saving => c \notin job[q].changes
    BY DEF FreshInv
  <1>1. PICK c \in job[p].changes \cap used :
          c \notin file.changes /\ \A q \in Process \ {p} : pc[q] \in Saving => c \notin job[q].changes
    BY DEF FreshInv
  <1> QED
    BY <1>1

LEMMA StepFresh == IInv /\ FreshInv /\ [Next]_vars => FreshInv'
  <1> SUFFICES ASSUME IInv, FreshInv, [Next]_vars PROVE FreshInv'
    OBVIOUS
  <1> USE DEF Goto, Answer, disk
  <1>0. TypeOK /\ file \in Version /\ file.changes \subseteq used /\ \A q \in Process : base[q].changes \subseteq file.changes
    BY DEF IInv, DiskInv, BaseInv, Contained
  <1>a. pc \in [Process -> Holding \cup {"idle", "load", "lock"}] /\ answer \in [Process -> Outcome] /\ job \in [Process -> Version]
    BY <1>0 DEF TypeOK
  <1>1. ASSUME NEW p \in Process, BeginSave(p) PROVE FreshInv'
    <2>1. PICK d \in Change \ used :
            job' = [job EXCEPT ![p] = NextVersion(base[p], d)] /\ used' = used \cup {d}
      BY <1>1 DEF BeginSave
    <2>2. job'[p].changes = base[p].changes \cup {d} /\ \A q \in Process \ {p} : job'[q] = job[q]
      BY <1>a, <2>1 DEF NextVersion
    <2>3. /\ pc'[p] = "lock" /\ answer'[p] = "none" /\ UNCHANGED file
          /\ \A q \in Process \ {p} : pc'[q] = pc[q] /\ answer'[q] = answer[q]
      BY <1>1, <1>a DEF BeginSave
    <2>4. \A q \in Process : pc[q] \in Saving => job[q].changes \subseteq used
      <3> SUFFICES ASSUME NEW q \in Process, pc[q] \in Saving PROVE job[q].changes \subseteq used
        OBVIOUS
      <3>1. PICK c \in used \ base[q].changes :
              job[q] = [revision |-> base[q].revision + 1, changes |-> base[q].changes \cup {c}]
        BY DEF IInv, JobInv
      <3> QED
        BY <1>0, <3>1
    <2>5. \E c \in job'[p].changes \cap used' :
            c \notin file.changes /\ \A q \in Process \ {p} : pc'[q] \in Saving => c \notin job'[q].changes
      BY <1>0, <2>1, <2>2, <2>3, <2>4
    <2>6. ASSUME NEW q \in Process \ {p}, Unsaved(q)
          PROVE  \E c \in job'[q].changes \cap used' :
                   c \notin file.changes /\ \A r \in Process \ {q} : pc'[r] \in Saving => c \notin job'[r].changes
      <3>1. PICK c \in job[q].changes \cap used :
              c \notin file.changes /\ \A r \in Process \ {q} : pc[r] \in Saving => c \notin job[r].changes
        BY <2>6 DEF FreshInv
      <3>2. c \notin job'[p].changes
        BY <1>0, <2>1, <2>2, <3>1
      <3> QED
        BY <2>1, <2>2, <2>3, <3>1, <3>2
    <2> QED
      BY <2>3, <2>5, <2>6 DEF FreshInv, Unsaved
  <1>2. ASSUME NEW p \in Process, Rename(p) PROVE FreshInv'
    <2>1. file' = job[p] /\ UNCHANGED <<job, used, answer>> /\ pc[p] = "rename"
      BY <1>2 DEF Rename, IInv, HolderInv
    <2>2. pc'[p] = "sync" /\ \A q \in Process \ {p} : pc'[q] = pc[q]
      BY <1>2, <1>a DEF Rename
    <2>3. answer[p] # "conflict"
      BY <2>1 DEF FreshInv
    <2>4. ASSUME NEW q \in Process \ {p}, Unsaved(q)
          PROVE  \E c \in job[q].changes \cap used :
                   c \notin job[p].changes /\ \A r \in Process \ {q} : pc'[r] \in Saving => c \notin job[r].changes
      <3>1. PICK c \in job[q].changes \cap used :
              c \notin file.changes /\ \A r \in Process \ {q} : pc[r] \in Saving => c \notin job[r].changes
        BY <2>4 DEF FreshInv
      <3> QED
        BY <2>1, <2>2, <3>1 DEF Saving
    <2> QED
      BY <2>1, <2>2, <2>3, <2>4 DEF FreshInv, Unsaved, Saving
  <1>3. CASE PowerLoss
    BY <1>3 DEF PowerLoss, FreshInv, Unsaved, Saving
  <1>4. CASE UNCHANGED vars
    <2>1. UNCHANGED <<file, job, used, pc, answer>>
      BY <1>4 DEF vars
    <2> QED
      BY <2>1 DEF FreshInv, Unsaved
  <1>5. ASSUME NEW p \in Process, UNCHANGED <<file, job, used>>,
               pc' = [pc EXCEPT ![p] = pc'[p]], answer' = [answer EXCEPT ![p] = answer'[p]],
               Unsaved(p)' => Unsaved(p), pc'[p] \in Saving => pc[p] \in Saving,
               answer'[p] = "conflict" => pc'[p] \in {"idle", "release"}
        PROVE  FreshInv'
    <2>1. \A q \in Process \ {p} : pc'[q] = pc[q] /\ answer'[q] = answer[q]
      BY <1>5, <1>a
    <2> QED
      BY <1>5, <2>1, QuietFresh DEF FreshInv, Unsaved
  <1>6. ASSUME NEW p \in Process, LoadStat(p) \/ LoadRead(p) \/ LoadFailed(p) PROVE FreshInv'
    BY <1>5, <1>6, <1>a DEF LoadStat, LoadRead, LoadFailed, Unsaved, Saving, FreshInv
  <1>7. ASSUME NEW p \in Process, AcquireLock(p) \/ AcquireFailed(p) \/ LockTimeout(p) PROVE FreshInv'
    BY <1>5, <1>7, <1>a DEF AcquireLock, AcquireFailed, LockTimeout, Unsaved, Saving, FreshInv
  <1>8. ASSUME NEW p \in Process, CheckRevision(p) PROVE FreshInv'
    BY <1>5, <1>8, <1>a DEF CheckRevision, Unsaved, Saving, FreshInv
  <1>9. ASSUME NEW p \in Process, WriteTemp(p) \/ FlushTemp(p) \/ SaveFailed(p) PROVE FreshInv'
    BY <1>5, <1>9, <1>a DEF WriteTemp, FlushTemp, SaveFailed, Unsaved, Saving, FreshInv
  <1>10. ASSUME NEW p \in Process, SyncDirectory(p) \/ SyncFailed(p) \/ Release(p) \/ ReleaseFailed(p) PROVE FreshInv'
    BY <1>5, <1>10, <1>a DEF SyncDirectory, SyncFailed, SyncOutcome, Release, ReleaseFailed, Unsaved, Saving, FreshInv
  <1>11. ASSUME NEW p \in Process, Crash(p) PROVE FreshInv'
    BY <1>5, <1>11, <1>a DEF Crash, Unsaved, Saving, FreshInv
  <1> QED
    BY <1>1, <1>2, <1>3, <1>4, <1>6, <1>7, <1>8, <1>9, <1>10, <1>11 DEF Next, Step

\* createFile*Store: a caller that is told of a conflict may read the record
\* and decide again, for no part of its save is or ever comes to be in it.
THEOREM ConflictMeansUnsavedHolds == Spec => []ConflictMeansUnsaved
  <1>1. Init => FreshInv
    BY DEF Init, FreshInv, Unsaved, Saving
  <1>2. FreshInv => ConflictMeansUnsaved
    BY DEF FreshInv, Unsaved, ConflictMeansUnsaved
  <1> QED
    BY <1>1, <1>2, InitInv, StepInv, StepFresh, PTL DEF Spec

-----------------------------------------------------------------------------
(* UsageStream *)

\* The original response was recorded, and nothing of it is on its way.
Settled ==
  /\ producer.pc = "over" /\ queue = <<>>
  /\ record = "completed" /\ result.state = "complete"

\* What is in the queue belongs to where the producer is.
QueueInv ==
  /\ producer.pc = "primary" => producer.piece # 0
  /\ producer.pc \notin {"offered", "over"} => queue = <<>>
  /\ producer.pc = "offered" /\ queue # <<>> => Head(queue).kind = "preview"
  /\ producer.pc = "over" /\ queue # <<>> => Head(queue).kind # "preview"

\* The loop itself holds the last event of a legacy stream.
HeldInv == format = "delta" /\ reader.pc = "held" => queue = <<>> /\ producer.pc \in {"offered", "over"}

\* A response that may let the loop act was recorded first.
RecordInv ==
  /\ producer.pc = "deliver" /\ result.state = "complete" => record = "completed"
  /\ producer.pc = "over" /\ queue # <<>> /\ queue = <<Receipt(TRUE)>>
       => record = "completed" /\ result.state = "complete"

\* The receipt was the last event of the stream, and comes before any chunk to
\* act on.
ReceiptInv ==
  /\ receipt = "ready" => Settled
  /\ released # {} => Settled
  /\ reader.pc = "gate" => reader.chunk # "none"

\* The loop was shown how the body begins, and the body is the saved response
\* once there is a receipt; a legacy response is given whole.
TextInv ==
  /\ format = "provider" =>
       /\ Len(shown) = read /\ read <= Len(body)
       /\ \A i \in 1..read : shown[i] = body[i]
       /\ ~ header => body = <<>>
       /\ receipt = "ready" \/ released # {} => body = result.saved
  /\ format = "delta" => (receipt = "ready" \/ released # {} => shown = result.saved)

StreamInv == StreamTypeOK /\ QueueInv /\ HeldInv /\ RecordInv /\ ReceiptInv /\ TextInv

\* The saved response is a sequence of pieces.
LEMMA PiecesAreTexts == Pieces \subseteq Text /\ <<>> \in Pieces /\ <<>> \in Text
  <1>1. ASSUME NEW n \in 0..MaxPieces PROVE [i \in 1..n |-> i] \in Seq(1..MaxPieces)
    BY <1>1, MaxPiecesIsNat
  <1>2. [i \in 1..0 |-> i] = <<>>
    OBVIOUS
  <1> QED
    BY <1>1, <1>2, MaxPiecesIsNat DEF Pieces, Text

\* An empty queue becomes one of a single item.
LEMMA PutOnEmpty ==
  ASSUME NEW item, NEW q, q = <<>>
  PROVE  Append(q, item) = <<item>> /\ Head(<<item>>) = item /\ <<item>> # <<>>
  OBVIOUS

\* The items of the queue and their kinds.
LEMMA QueueItems ==
  ASSUME queue \in Queue, queue # <<>>
  PROVE  /\ Head(queue).kind = "preview" => \E p \in 1..MaxPieces : queue = <<Preview(p)>> /\ Head(queue).piece = p
         /\ Head(queue).kind = "operation" => \E b \in BOOLEAN : queue = <<Receipt(b)>> /\ Head(queue).active = b
         /\ Head(queue).kind = "error" => queue = <<Error>>
  <1>1. CASE queue = <<Error>>
    BY <1>1 DEF Error
  <1>2. ASSUME NEW p \in 1..MaxPieces, queue = <<Preview(p)>> PROVE Head(queue) = [kind |-> "preview", piece |-> p]
    BY <1>2 DEF Preview
  <1>3. ASSUME NEW b \in BOOLEAN, queue = <<Receipt(b)>> PROVE Head(queue) = [kind |-> "operation", active |-> b]
    BY <1>3 DEF Receipt
  <1> QED
    BY <1>1, <1>2, <1>3 DEF Queue

\* The queue may be empty.
LEMMA EmptyQueue == <<>> \in Queue
  BY DEF Queue

\* A step changes a record's place and keeps its other part.
LEMMA Places ==
  /\ producer \in Producer =>
       \A to \in {"frame", "offered", "record", "deliver", "unknown", "over"} :
         [producer EXCEPT !.pc = to] \in Producer /\ [producer EXCEPT !.pc = to].pc = to
  /\ producer \in Producer => Acknowledged \in Producer
  /\ reader \in Reader =>
       \A to \in {"opening", "parsing", "held", "tail", "leaving", "final", "over"} :
         [reader EXCEPT !.pc = to] \in Reader /\ [reader EXCEPT !.pc = to].pc = to
  BY DEF Producer, Reader, Acknowledged

\* The initial states satisfy the inductive invariant.
LEMMA StreamInitInv == StreamInit => StreamInv
  <1> SUFFICES ASSUME StreamInit PROVE StreamInv
    OBVIOUS
  <1>1. StreamTypeOK
    <2>1. result \in Result /\ producer \in Producer /\ reader \in Reader
      BY PiecesAreTexts, MaxPiecesIsNat DEF StreamInit, Unknown, Result, Producer, Reader
    <2>2. sent \in 0..MaxPieces /\ released \subseteq {"tool", "finish"}
      BY MaxPiecesIsNat DEF StreamInit
    <2> QED
      BY <2>1, <2>2, PiecesAreTexts, EmptyQueue DEF StreamInit, StreamTypeOK
  <1>2. QueueInv /\ HeldInv /\ RecordInv /\ ReceiptInv
    BY DEF StreamInit, QueueInv, HeldInv, RecordInv, ReceiptInv
  <1>3. TextInv
    BY DEF StreamInit, TextInv
  <1> QED
    BY <1>1, <1>2, <1>3 DEF StreamInv

\* Every step keeps the types; the queue holds at most one item.
LEMMA TypeStep == StreamInv /\ [StreamNext]_streamVars => StreamTypeOK'
  <1> SUFFICES ASSUME StreamInv, [StreamNext]_streamVars PROVE StreamTypeOK'
    OBVIOUS
  <1> USE PiecesAreTexts, EmptyQueue, Places, MaxPiecesIsNat DEF StreamTypeOK, StreamInv, QueueInv, ReceiptInv, hub, turn, response, loop, To, ReaderTo
  <1>1. CASE UNCHANGED streamVars
    BY <1>1 DEF streamVars
  <1>2. CASE Frame
    BY <1>2 DEF Frame, Producer
  <1>3. CASE Offer
    <2>1. CASE UNCHANGED queue /\ To("frame")
      BY <1>3, <2>1 DEF Offer
    <2>2. CASE To(Offered) /\ queue' = Append(queue, Preview(producer.piece))
      <3>1. producer.piece \in 1..MaxPieces /\ queue = <<>>
        BY <1>3 DEF Offer, Producer
      <3>2. queue' = <<Preview(producer.piece)>>
        BY <2>2, <3>1, PutOnEmpty
      <3>3. queue' \in Queue
        BY <3>1, <3>2 DEF Queue
      <3> QED
        BY <1>3, <2>2, <3>3 DEF Offer, Offered
    <2> QED
      BY <1>3, <2>1, <2>2 DEF Offer
  <1>4. CASE Operation \/ StreamEnds \/ HostUnsound \/ Record
    BY <1>4 DEF Result, Operation, StreamEnds, HostUnsound, Record
  <1>5. CASE Deliver \/ Fails
    <2>1. queue = <<>>
      BY <1>5 DEF Deliver, Fails
    <2>2. queue' \in {<<Receipt(MayResume)>>, <<Error>>} /\ MayResume \in BOOLEAN
      BY <1>5, <2>1, PutOnEmpty DEF Deliver, Fails, Put, MayResume, Silenced
    <2>3. queue' \in Queue
      BY <2>2 DEF Queue
    <2> QED
      BY <1>5, <2>3 DEF Deliver, Fails, Put
  <1>6. CASE Drop
    BY <1>6 DEF Drop
  <1>7. CASE PumpPreview
    <2>1. Head(queue).piece \in 1..MaxPieces
      BY <1>7, QueueItems DEF PumpPreview, Takes
    <2>2. Append(body, Head(queue).piece) \in Text
      BY <2>1 DEF Text
    <2> QED
      BY <1>7, <2>2 DEF PumpPreview, OpensAndFails, Leave
  <1>8. CASE PumpReceipt
    BY <1>8 DEF PumpReceipt, AfterEnd, OpensAndFails, Leave, Result
  <1>9. CASE TakeError \/ PumpFails
    BY <1>9 DEF TakeError, PumpFails, AfterEnd, AfterFailure, Leave
  <1>10. CASE LegacyDelta
    <2>1. Head(queue).piece \in 1..MaxPieces
      BY <1>10, QueueItems DEF LegacyDelta, Takes
    <2>2. Append(shown, Head(queue).piece) \in Text
      BY <2>1 DEF Text
    <2> QED
      BY <1>10, <2>2 DEF LegacyDelta, Leave
  <1>11. CASE LegacyReceipt \/ LegacyLeft
    <2>1. CASE LegacyReceipt
      <3>1. result.saved \in Text
        BY DEF Result
      <3> QED
        BY <2>1, <3>1 DEF LegacyReceipt, Leave
    <2>2. CASE LegacyLeft
      BY <2>2 DEF LegacyLeft
    <2> QED
      BY <1>11, <2>1, <2>2
  <1>12. CASE ParseText
    <2>1. body[read + 1] \in 1..MaxPieces
      BY <1>12 DEF ParseText, Text
    <2> QED
      BY <1>12, <2>1 DEF ParseText, Text
  <1>13. ASSUME Parsing PROVE StreamTypeOK'
    <2> USE DEF Reading
    <2>1. CASE Open
      BY <2>1 DEF Open
    <2>2. CASE ParseText
      BY <1>12, <2>2
    <2>3. CASE ParseDone
      BY <2>3 DEF ParseDone
    <2>4. CASE ParseExecutable
      BY <2>4 DEF ParseExecutable, Reader
    <2>5. CASE Gate
      <3>1. CASE Give(reader.chunk) /\ UNCHANGED cancelled
        BY <2>5, <3>1 DEF Gate, Give, Reader
      <3>2. CASE ReaderTo("final") /\ cancelled' = TRUE /\ UNCHANGED released
        BY <2>5, <3>2 DEF Gate
      <3> QED
        BY <2>5, <3>1, <3>2 DEF Gate
    <2>6. CASE ParserReturns
      BY <2>6 DEF ParserReturns
    <2>7. CASE ParserThrows
      BY <2>7 DEF ParserThrows
    <2>8. CASE ReturnsAfterReceipt
      BY <2>8 DEF ReturnsAfterReceipt
    <2>9. CASE Drained
      BY <2>9 DEF Drained
    <2> QED
      BY <1>13, <2>1, <2>2, <2>3, <2>4, <2>5, <2>6, <2>7, <2>8, <2>9 DEF Parsing
  <1>14. ASSUME Start \/ Asking PROVE StreamTypeOK'
    <2> USE DEF Held
    <2>1. CASE Start
      BY <2>1 DEF Start
    <2>2. CASE PullParsed
      BY <2>2 DEF PullParsed
    <2>3. CASE PullDelta
      BY <2>3 DEF PullDelta
    <2>4. CASE PullBlock
      BY <2>4 DEF PullBlock, Give, Reader
    <2>5. CASE PullEnd
      BY <2>5 DEF PullEnd
    <2> QED
      BY <1>14, <2>1, <2>2, <2>3, <2>4, <2>5 DEF Asking
  <1>15. CASE Stop
    BY <1>15 DEF Stop, Held, Leave
  <1>16. CASE Close
    BY <1>16 DEF Close
  <1>17. CASE Abort
    BY <1>17 DEF Abort
  <1> QED
    BY <1>1, <1>2, <1>3, <1>4, <1>5, <1>6, <1>7, <1>8, <1>9, <1>10, <1>11, <1>12, <1>13, <1>14, <1>15, <1>16, <1>17
       DEF StreamNext, Producing, Taking

\* What takes an item from the stream leaves the queue empty and the producer
\* where it was, unless it waited for the acknowledgement.
LEMMA Emptied ==
  ASSUME producer \in Producer, producer' \in {producer, Acknowledged}
  PROVE  /\ producer'.pc = producer.pc \/ (producer.pc = "offered" /\ producer'.pc = "frame")
         /\ producer'.piece = producer.piece
  BY DEF Producer, Acknowledged

\* The queue is filled only when it is empty, by the producer that then waits or
\* is done.
LEMMA QueueStep == StreamInv /\ [StreamNext]_streamVars => QueueInv'
  <1> SUFFICES ASSUME StreamInv, [StreamNext]_streamVars PROVE QueueInv'
    OBVIOUS
  <1> USE DEF StreamInv, QueueInv, hub, turn, response, loop
  <1>1. producer \in Producer
    BY DEF StreamTypeOK
  <1>2. CASE UNCHANGED <<producer, queue>>
    BY <1>2
  <1>3. CASE queue' = <<>> /\ producer' \in {producer, Acknowledged}
    BY <1>3, <1>1, Emptied
  <1>4. CASE Frame
    BY <1>1, <1>4, MaxPiecesIsNat DEF StreamTypeOK, Frame, Producer
  <1>5. CASE Offer
    <2>1. CASE To("frame") /\ UNCHANGED queue
      BY <1>1, <1>5, <2>1 DEF Offer, To, Producer
    <2>2. CASE To(Offered) /\ queue' = Append(queue, Preview(producer.piece))
      <3>1. queue' = <<Preview(producer.piece)>> /\ Head(queue') = Preview(producer.piece)
        BY <1>5, <2>2, PutOnEmpty DEF Offer
      <3> QED
        BY <1>1, <2>2, <3>1 DEF Offered, To, Preview, Producer
    <2> QED
      BY <1>5, <2>1, <2>2 DEF Offer
  <1>6. CASE StreamEnds \/ HostUnsound \/ Record
    BY <1>1, <1>6 DEF StreamEnds, HostUnsound, Record, To, Producer
  <1>7. CASE Deliver \/ Fails
    <2>1. queue = <<>>
      BY <1>7 DEF Deliver, Fails
    <2>2. PICK item \in {Receipt(MayResume), Error} : Put(item)
      BY <1>7 DEF Deliver, Fails
    <2>3. queue' = <<item>> /\ Head(queue') = item /\ item.kind # "preview"
      BY <2>1, <2>2, PutOnEmpty DEF Put, Receipt, Error
    <2> QED
      BY <1>1, <2>2, <2>3 DEF Put, To, Producer
  <1>8. CASE Start
    BY <1>1, <1>8 DEF Start, To, Producer
  <1>9. CASE PullDelta
    BY <1>3, <1>9 DEF PullDelta, Held, HeldInv
  <1>10. CASE UNCHANGED streamVars
    BY <1>2, <1>10 DEF streamVars
  <1>11. CASE Operation \/ Parsing \/ PullParsed \/ PullBlock \/ PullEnd \/ Close \/ Abort
    BY <1>2, <1>11 DEF Operation, Parsing, Open, ParseText, ParseDone, ParseExecutable, Gate, ParserReturns,
       ParserThrows, ReturnsAfterReceipt, Drained, PullParsed, PullBlock, PullEnd, Close, Abort
  <1>12. CASE Taking \/ Stop
    <2>1. UNCHANGED <<producer, queue>> \/ (queue' = <<>> /\ producer' \in {producer, Acknowledged})
      BY <1>12 DEF Taking, Drop, PumpPreview, PumpReceipt, TakeError, PumpFails, LegacyDelta, LegacyReceipt,
         LegacyLeft, Stop, OpensAndFails, Leave
    <2> QED
      BY <1>2, <1>3, <2>1
  <1> QED
    BY <1>4, <1>5, <1>6, <1>7, <1>8, <1>9, <1>10, <1>11, <1>12 DEF StreamNext, Producing, Asking

\* The loop holds a chunk of a legacy stream only while nothing is taken from it.
LEMMA HeldStep == StreamInv /\ [StreamNext]_streamVars => HeldInv'
  <1> SUFFICES ASSUME StreamInv, [StreamNext]_streamVars PROVE HeldInv'
    OBVIOUS
  <1> USE DEF StreamInv, HeldInv, hub, turn, response, loop, To, ReaderTo
  <1>1. producer \in Producer /\ reader \in Reader
    BY DEF StreamTypeOK
  <1>2. CASE UNCHANGED <<format, producer, queue, reader>>
    BY <1>2
  <1>3. CASE format' = "provider"
    BY <1>3
  <1>4. CASE UNCHANGED streamVars
    BY <1>2, <1>4 DEF streamVars
  <1>5. CASE Frame \/ Offer \/ StreamEnds \/ HostUnsound \/ Record \/ Deliver \/ Fails
    BY <1>1, <1>5 DEF Frame, Offer, StreamEnds, HostUnsound, Record, Deliver, Fails
  <1>6. CASE Operation \/ Close \/ Abort
    BY <1>2, <1>6 DEF Operation, Close, Abort
  <1>7. CASE Drop \/ PumpPreview \/ PumpReceipt \/ PumpFails
    <2>1. UNCHANGED <<format, reader>>
      BY <1>7 DEF Drop, PumpPreview, PumpReceipt, PumpFails
    <2>2. format = "delta" => Drop
      BY <1>7 DEF PumpPreview, PumpReceipt, PumpFails
    <2>3. Drop => queue # <<>> /\ queue' = <<>> /\ producer' = Acknowledged
      BY DEF Drop
    <2> QED
      BY <2>1, <2>2, <2>3
  <1>8. CASE TakeError \/ LegacyLeft
    BY <1>1, <1>8 DEF TakeError, LegacyLeft, Reader, Takes
  <1>9. CASE LegacyDelta \/ LegacyReceipt
    <2>1. queue # <<>> /\ producer.pc \in {"offered", "over"}
      BY <1>9 DEF LegacyDelta, LegacyReceipt, Takes, QueueInv
    <2> QED
      BY <1>1, <1>9, <2>1 DEF LegacyDelta, LegacyReceipt, Leave, Reader
  <1>10. CASE Parsing
    BY <1>3, <1>10 DEF Parsing, Open, ParseText, ParseDone, ParseExecutable, Gate, ParserReturns, ParserThrows,
       ReturnsAfterReceipt, Drained, Reading
  <1>11. CASE Start \/ PullDelta \/ PullEnd
    BY <1>1, <1>11 DEF Start, PullDelta, PullEnd, Reader
  <1>12. CASE PullParsed
    BY <1>3, <1>12 DEF PullParsed, Held
  <1>13. CASE PullBlock
    BY <1>13 DEF PullBlock, Held
  <1>14. CASE Stop
    BY <1>1, <1>3, <1>14 DEF Stop, Held, Reader
  <1> QED
    BY <1>4, <1>5, <1>6, <1>7, <1>8, <1>9, <1>10, <1>11, <1>12, <1>13, <1>14 DEF StreamNext, Producing, Taking, Asking

\* The record is written before the response is delivered.
LEMMA RecordStep == StreamInv /\ [StreamNext]_streamVars => RecordInv'
  <1> SUFFICES ASSUME StreamInv, [StreamNext]_streamVars PROVE RecordInv'
    OBVIOUS
  <1> USE DEF StreamInv, RecordInv, hub, turn, response, loop, To
  <1>1. producer \in Producer
    BY DEF StreamTypeOK
  <1>2. CASE UNCHANGED <<result, record>> /\ UNCHANGED <<producer, queue>>
    BY <1>2
  <1>3. CASE UNCHANGED <<result, record>> /\ queue' = <<>> /\ producer' \in {producer, Acknowledged}
    BY <1>1, <1>3, Emptied
  <1>4. CASE UNCHANGED streamVars
    BY <1>2, <1>4 DEF streamVars
  <1>5. CASE Frame \/ Offer \/ Operation \/ StreamEnds \/ HostUnsound
    <2>1. producer.pc \notin {"deliver", "over"} /\ producer'.pc \notin {"deliver", "over"}
      <3>1. CASE Frame
        BY <1>1, <3>1 DEF Frame, Producer
      <3>2. CASE Offer
        BY <1>1, <3>2 DEF Offer, Offered, Producer
      <3>3. CASE Operation
        BY <3>3 DEF Operation
      <3>4. CASE StreamEnds \/ HostUnsound
        BY <1>1, <3>4 DEF StreamEnds, HostUnsound, Producer
      <3> QED
        BY <1>5, <3>1, <3>2, <3>3, <3>4
    <2> QED
      BY <2>1
  <1>6. CASE Record
    BY <1>1, <1>6 DEF Record, Producer
  <1>7. CASE Deliver
    <2>1. queue' = <<Receipt(MayResume)>> /\ UNCHANGED <<result, record>> /\ producer.pc = "deliver"
      BY <1>7, PutOnEmpty DEF Deliver, Put, QueueInv
    <2>2. <<Receipt(MayResume)>> = <<Receipt(TRUE)>> => MayResume = TRUE
      BY DEF Receipt
    <2>3. producer'.pc = "over"
      BY <1>1, <1>7 DEF Deliver, Put, Producer
    <2> QED
      BY <2>1, <2>2, <2>3 DEF MayResume
  <1>8. CASE Fails
    <2>1. queue' = <<Error>> /\ UNCHANGED result
      BY <1>8, PutOnEmpty DEF Fails, Put, QueueInv
    <2>2. <<Error>> # <<Receipt(TRUE)>>
      BY DEF Error, Receipt
    <2>3. producer'.pc = "over"
      BY <1>1, <1>8 DEF Fails, Put, Producer
    <2> QED
      BY <2>1, <2>2, <2>3
  <1>9. CASE Start
    BY <1>1, <1>9 DEF Start, Producer
  <1>10. CASE PullDelta
    BY <1>3, <1>10 DEF PullDelta, Held, HeldInv
  <1>11. CASE Parsing \/ PullParsed \/ PullBlock \/ PullEnd \/ Close \/ Abort
    BY <1>2, <1>11 DEF Parsing, Open, ParseText, ParseDone, ParseExecutable, Gate, ParserReturns,
       ParserThrows, ReturnsAfterReceipt, Drained, PullParsed, PullBlock, PullEnd, Close, Abort
  <1>12. CASE Taking \/ Stop
    <2>1. UNCHANGED <<result, record>>
      BY <1>12 DEF Taking, Drop, PumpPreview, PumpReceipt, TakeError, PumpFails, LegacyDelta, LegacyReceipt,
         LegacyLeft, Stop
    <2>2. UNCHANGED <<producer, queue>> \/ (queue' = <<>> /\ producer' \in {producer, Acknowledged})
      BY <1>12 DEF Taking, Drop, PumpPreview, PumpReceipt, TakeError, PumpFails, LegacyDelta, LegacyReceipt,
         LegacyLeft, Stop, OpensAndFails, Leave
    <2> QED
      BY <1>2, <1>3, <2>1, <2>2
  <1> QED
    BY <1>4, <1>5, <1>6, <1>7, <1>8, <1>9, <1>10, <1>11, <1>12 DEF StreamNext, Producing, Asking

\* Once the original response is recorded and taken, nothing changes it.
LEMMA SettledStays == StreamInv /\ [StreamNext]_streamVars /\ Settled => Settled' /\ UNCHANGED <<result, body>>
  <1> SUFFICES ASSUME StreamInv, [StreamNext]_streamVars, Settled PROVE Settled' /\ UNCHANGED <<result, body>>
    OBVIOUS
  <1> USE DEF Settled, hub, turn, response, loop
  <1>1. Acknowledged = producer
    BY DEF Acknowledged
  <1>2. CASE UNCHANGED streamVars
    BY <1>2 DEF streamVars
  <1>3. CASE Producing
    BY <1>3 DEF Producing, Frame, Offer, Operation, StreamEnds, HostUnsound, Record, Deliver, Fails
  <1>4. CASE Taking
    BY <1>1, <1>4 DEF Taking, Drop, Takes, PumpPreview, PumpReceipt, TakeError, PumpFails, LegacyDelta,
       LegacyReceipt, LegacyLeft
  <1>5. CASE Parsing
    BY <1>5 DEF Parsing, Open, ParseText, ParseDone, ParseExecutable, Gate, ParserReturns, ParserThrows,
       ReturnsAfterReceipt, Drained
  <1>6. CASE Start \/ Asking
    BY <1>1, <1>6 DEF Start, Asking, PullParsed, PullDelta, PullBlock, PullEnd
  <1>7. CASE Stop \/ Close \/ Abort
    BY <1>1, <1>7 DEF Stop, Leave, Close, Abort
  <1> QED
    BY <1>2, <1>3, <1>4, <1>5, <1>6, <1>7 DEF StreamNext

\* A receipt that is taken as active leaves the request settled.
LEMMA TakenSettles ==
  ASSUME StreamInv, Takes("operation"), Head(queue).active, queue' = <<>>, UNCHANGED <<producer, record, result>>
  PROVE  Settled'
  <1>1. queue \in Queue /\ queue # <<>> /\ Head(queue).kind = "operation"
    BY DEF StreamInv, StreamTypeOK, Takes
  <1>2. PICK b \in BOOLEAN : queue = <<Receipt(b)>> /\ Head(queue).active = b
    BY <1>1, QueueItems
  <1>3. queue = <<Receipt(TRUE)>>
    BY <1>2
  <1>4. producer.pc = "over"
    BY <1>1 DEF StreamInv, QueueInv
  <1> QED
    BY <1>1, <1>3, <1>4 DEF StreamInv, RecordInv, Settled

\* The loop may act only behind the receipt.
LEMMA ReceiptStep == StreamInv /\ [StreamNext]_streamVars => ReceiptInv'
  <1> SUFFICES ASSUME StreamInv, [StreamNext]_streamVars PROVE ReceiptInv'
    OBVIOUS
  <1> USE DEF ReceiptInv, hub, turn, response, loop, ReaderTo
  <1>1. ReceiptInv /\ reader \in Reader
    BY DEF StreamInv, StreamTypeOK
  <1>2. Settled => Settled'
    BY SettledStays
  <1>3. ASSUME receipt' = "ready" => Settled', released' # {} => Settled',
               reader' = reader \/ reader'.pc # "gate"
        PROVE  ReceiptInv'
    BY <1>1, <1>3
  <1>4. CASE UNCHANGED <<receipt, released, reader>>
    BY <1>1, <1>2, <1>4
  <1>5. CASE UNCHANGED streamVars
    BY <1>4, <1>5 DEF streamVars
  <1>6. CASE Producing \/ Drop \/ PumpPreview \/ Close \/ Abort
    BY <1>4, <1>6 DEF Producing, Frame, Offer, Operation, StreamEnds, HostUnsound, Record, Deliver, Fails, Drop,
       PumpPreview, OpensAndFails, Close, Abort
  <1>7. CASE PumpReceipt
    <2>1. CASE Head(queue).active /\ queue' = <<>> /\ receipt' = "ready" /\ UNCHANGED <<producer, reader, released>>
      <3>1. Settled'
        BY <1>7, <2>1, TakenSettles DEF PumpReceipt
      <3> QED
        BY <1>3, <1>7, <2>1, <3>1
    <2>2. CASE UNCHANGED <<receipt, reader, released>>
      BY <1>4, <2>2
    <2> QED
      BY <1>7, <2>1, <2>2 DEF PumpReceipt, OpensAndFails
  <1>8. CASE TakeError \/ PumpFails \/ LegacyLeft
    <2>1. receipt' \in {receipt, "refused"} /\ UNCHANGED released
      BY <1>8 DEF TakeError, PumpFails, LegacyLeft, AfterFailure
    <2>2. reader' = reader \/ reader'.pc # "gate"
      BY <1>1, <1>8 DEF TakeError, PumpFails, LegacyLeft, Reader
    <2> QED
      BY <1>1, <1>2, <1>3, <2>1, <2>2
  <1>9. CASE LegacyDelta
    <2>1. UNCHANGED <<receipt, released>>
      BY <1>9 DEF LegacyDelta
    <2>2. reader'.pc # "gate"
      BY <1>1, <1>9 DEF LegacyDelta, Reader
    <2> QED
      BY <1>1, <1>2, <1>3, <2>1, <2>2
  <1>10. CASE LegacyReceipt
    <2>1. UNCHANGED released /\ reader'.pc # "gate"
      BY <1>1, <1>10 DEF LegacyReceipt, Reader
    <2>2. CASE Head(queue).active /\ Continues
      <3>1. Settled'
        BY <1>10, <2>2, TakenSettles DEF LegacyReceipt
      <3> QED
        BY <1>3, <2>1, <3>1
    <2>3. CASE ~ (Head(queue).active /\ Continues)
      <3>1. UNCHANGED receipt
        BY <1>10, <2>3 DEF LegacyReceipt
      <3> QED
        BY <1>1, <1>2, <1>3, <2>1, <3>1
    <2> QED
      BY <2>2, <2>3
  <1>11. CASE ParseExecutable
    BY <1>1, <1>2, <1>11 DEF ParseExecutable
  <1>12. CASE Gate
    <2>1. reader'.pc # "gate" /\ UNCHANGED receipt
      BY <1>1, <1>12 DEF Gate, Give, Reader
    <2>2. released' = released \/ receipt = "ready"
      BY <1>12 DEF Gate, GateOpens
    <2> QED
      BY <1>1, <1>2, <1>3, <2>1, <2>2
  <1>13. CASE PullBlock
    BY <1>1, <1>2, <1>3, <1>13 DEF PullBlock, Give
  <1>14. CASE Open \/ ParseText \/ ParseDone \/ ParserReturns \/ ParserThrows \/ ReturnsAfterReceipt \/ Drained
    <2>1. UNCHANGED <<receipt, released>>
      BY <1>14 DEF Open, ParseText, ParseDone, ParserReturns, ParserThrows, ReturnsAfterReceipt, Drained
    <2>2. reader' = reader \/ reader'.pc # "gate"
      BY <1>1, <1>14 DEF Open, ParseText, ParseDone, ParserReturns, ParserThrows, ReturnsAfterReceipt, Drained, Reader
    <2> QED
      BY <1>1, <1>2, <1>3, <2>1, <2>2
  <1>15. CASE Start \/ PullParsed \/ PullDelta \/ PullEnd \/ Stop
    <2>1. UNCHANGED <<receipt, released>>
      BY <1>15 DEF Start, PullParsed, PullDelta, PullEnd, Stop
    <2>2. reader'.pc # "gate"
      BY <1>1, <1>15 DEF Start, PullParsed, PullDelta, PullEnd, Stop, Reader
    <2> QED
      BY <1>1, <1>2, <1>3, <2>1, <2>2
  <1> QED
    BY <1>5, <1>6, <1>7, <1>8, <1>9, <1>10, <1>11, <1>12, <1>13, <1>14, <1>15 DEF StreamNext, Taking, Parsing, Asking

\* The element behind the first n of a longer sequence.
LEMMA ElementOf ==
  ASSUME NEW S, NEW s \in Seq(S), NEW n \in Nat, n < Len(s)
  PROVE  s[n + 1] \in S
  OBVIOUS

\* What the loop is shown stays a part of what is in the body.
LEMMA TextStep == StreamInv /\ [StreamNext]_streamVars => TextInv'
  <1> SUFFICES ASSUME StreamInv, [StreamNext]_streamVars PROVE TextInv'
    OBVIOUS
  <1> DEFINE Acting == receipt = "ready" \/ released # {}
  <1> USE DEF TextInv, hub, turn, response, loop
  <1>1. StreamTypeOK /\ TextInv /\ UNCHANGED format
    <2>1. UNCHANGED format
      BY DEF StreamNext, streamVars, Producing, Frame, Offer, Operation, StreamEnds, HostUnsound, Record, Deliver, Fails,
         Taking, Drop, PumpPreview, PumpReceipt, TakeError, PumpFails, LegacyDelta, LegacyReceipt, LegacyLeft,
         Parsing, Open, ParseText, ParseDone, ParseExecutable, Gate, ParserReturns, ParserThrows,
         ReturnsAfterReceipt, Drained, Start, Asking, PullParsed, PullDelta, PullBlock, PullEnd, Stop, Close, Abort
    <2> QED
      BY <2>1 DEF StreamInv
  <1>2. Acting => Settled
    BY DEF StreamInv, ReceiptInv
  <1>3. ASSUME Acting' => Acting, UNCHANGED <<result, header, body, read, shown>> PROVE TextInv'
    BY <1>1, <1>3
  <1>4. CASE UNCHANGED streamVars
    BY <1>3, <1>4 DEF streamVars
  <1>5. CASE Operation
    <2>1. ~ Acting
      BY <1>2, <1>5 DEF Operation, Settled
    <2> QED
      BY <1>1, <1>5, <2>1 DEF Operation
  <1>6. CASE Frame \/ Offer \/ StreamEnds \/ HostUnsound \/ Record \/ Deliver \/ Fails
    BY <1>3, <1>6 DEF Frame, Offer, StreamEnds, HostUnsound, Record, Deliver, Fails
  <1>7. CASE Drop \/ TakeError \/ PumpFails \/ LegacyLeft \/ Close \/ Abort
    BY <1>3, <1>7 DEF Drop, TakeError, PumpFails, AfterFailure, LegacyLeft, Close, Abort
  <1>8. CASE PumpPreview
    <2>1. ~ Acting /\ format = "provider" /\ UNCHANGED <<receipt, released, read, shown, result>>
      BY <1>2, <1>8 DEF PumpPreview, OpensAndFails, Takes, Settled
    <2>2. CASE header' \in {header, TRUE} /\ UNCHANGED body
      <3>1. CASE UNCHANGED header
        BY <1>3, <2>1, <2>2, <3>1
      <3>2. CASE header' = TRUE
        BY <1>1, <2>1, <2>2, <3>2
      <3> QED
        BY <2>2, <3>1, <3>2
    <2>3. CASE header' = TRUE /\ body' = Append(body, Head(queue).piece)
      <3>1. body \in Text /\ Head(queue).piece \in 1..MaxPieces
        BY <1>1, <1>8, QueueItems DEF StreamTypeOK, PumpPreview, Takes
      <3>2. Len(body') = Len(body) + 1 /\ \A i \in 1..Len(body) : body'[i] = body[i]
        BY <2>3, <3>1 DEF Text
      <3>3. Len(body) \in Nat /\ read \in Nat
        BY <1>1, <3>1 DEF StreamTypeOK, Text
      <3> QED
        BY <1>1, <2>1, <2>3, <3>2, <3>3
    <2> QED
      BY <1>8, <2>2, <2>3 DEF PumpPreview, OpensAndFails
  <1>9. CASE PumpReceipt
    <2>1. format = "provider" /\ UNCHANGED <<released, read, shown, result>>
      BY <1>9 DEF PumpReceipt
    <2>2. CASE header' \in {header, TRUE} /\ UNCHANGED <<body, receipt>>
      BY <1>1, <1>3, <2>1, <2>2
    <2>3. CASE header' = TRUE /\ body' = result.saved /\ (header => body' = body)
      <3>1. read <= Len(body')
        <4>1. CASE header
          BY <1>1, <2>1, <2>3, <4>1
        <4>2. CASE ~ header
          <5>1. read = 0
            BY <1>1, <2>1, <4>2 DEF StreamTypeOK
          <5>2. Len(body') \in Nat
            BY <1>1, <2>3, PiecesAreTexts DEF StreamTypeOK, Result, Text
          <5> QED
            BY <5>1, <5>2
        <4> QED
          BY <4>1, <4>2
      <3>2. \A i \in 1..read : shown[i] = body'[i]
        <4>1. ~ header => 1..read = {}
          BY <1>1, <2>1 DEF StreamTypeOK
        <4> QED
          BY <1>1, <2>1, <2>3, <4>1
      <3> QED
        BY <1>1, <2>1, <2>3, <3>1, <3>2
    <2> QED
      BY <1>9, <2>2, <2>3 DEF PumpReceipt, OpensAndFails, Matches
  <1>10. CASE LegacyDelta
    <2>1. ~ Acting /\ format = "delta" /\ UNCHANGED <<receipt, released>>
      BY <1>2, <1>10 DEF LegacyDelta, Takes, Settled
    <2> QED
      BY <1>1, <2>1
  <1>11. CASE LegacyReceipt
    <2>1. format = "delta" /\ UNCHANGED <<released, result>>
      BY <1>11 DEF LegacyReceipt
    <2>2. shown' = result.saved \/ UNCHANGED <<receipt, shown>>
      BY <1>11 DEF LegacyReceipt
    <2> QED
      BY <1>1, <2>1, <2>2
  <1>12. CASE ParseText
    <2>1. format = "provider" /\ UNCHANGED <<receipt, released, header, body, result>>
      BY <1>12 DEF ParseText, Reading
    <2>2. shown \in Seq(1..MaxPieces) /\ body \in Seq(1..MaxPieces) /\ read \in Nat /\ read < Len(body)
      BY <1>1, <1>12 DEF StreamTypeOK, Text, ParseText
    <2>3. shown' = Append(shown, body[read + 1]) /\ read' = read + 1 /\ Len(shown) = read
      BY <1>1, <1>12, <2>1 DEF ParseText
    <2>4. body[read + 1] \in 1..MaxPieces
      <3>1. body \in Seq(1..MaxPieces) /\ read \in Nat /\ read < Len(body)
        BY <2>2
      <3> QED
        BY <3>1, ElementOf
    <2>5. Len(shown') = read' /\ read' <= Len(body)
      BY <2>2, <2>3, <2>4
    <2>6. \A i \in 1..read' : shown'[i] = body[i]
      BY <1>1, <2>1, <2>2, <2>3, <2>4
    <2> QED
      BY <1>1, <2>1, <2>5, <2>6
  <1>13. CASE Gate
    <2>1. UNCHANGED <<result, header, body, read, shown, receipt>>
      BY <1>13 DEF Gate
    <2>2. Acting' => Acting
      BY <1>13, <2>1 DEF Gate, GateOpens
    <2> QED
      BY <1>3, <2>1, <2>2
  <1>14. CASE PullBlock
    <2>1. UNCHANGED <<result, header, body, read, shown, receipt>> /\ receipt = "ready"
      BY <1>14 DEF PullBlock
    <2> QED
      BY <1>3, <2>1
  <1>15. CASE Open \/ ParseDone \/ ParseExecutable \/ ParserReturns \/ ParserThrows \/ ReturnsAfterReceipt \/ Drained
    BY <1>3, <1>15 DEF Open, ParseDone, ParseExecutable, ParserReturns, ParserThrows, ReturnsAfterReceipt, Drained
  <1>16. CASE Start \/ PullParsed \/ PullDelta \/ PullEnd \/ Stop
    BY <1>3, <1>16 DEF Start, PullParsed, PullDelta, PullEnd, Stop
  <1> QED
    BY <1>4, <1>5, <1>6, <1>7, <1>8, <1>9, <1>10, <1>11, <1>12, <1>13, <1>14, <1>15, <1>16
       DEF StreamNext, Producing, Taking, Parsing, Asking

\* The inductive invariant holds in every reachable state.
LEMMA Invariance == StreamSpec => []StreamInv
  <1>1. StreamInv /\ [StreamNext]_streamVars => StreamInv'
    BY TypeStep, QueueStep, HeldStep, RecordStep, ReceiptStep, TextStep DEF StreamInv
  <1> QED
    BY StreamInitInv, <1>1, PTL DEF StreamSpec

\* Every variable keeps its type: the queue never holds a second item.
THEOREM StreamTypeCorrect == StreamSpec => []StreamTypeOK
  <1>1. StreamInv => StreamTypeOK
    BY DEF StreamInv
  <1> QED
    BY Invariance, <1>1, PTL

\* A sequence that agrees with a longer one up to its length is its prefix.
LEMMA PrefixOf ==
  ASSUME NEW s \in Text, NEW t \in Text, Len(s) <= Len(t), \A i \in 1..Len(s) : s[i] = t[i]
  PROVE  IsPrefix(s, t)
  <1>1. SubSeq(t, 1, Len(s)) = [i \in 1..Len(s) |-> t[i]]
    BY DEF Text
  <1>2. SubSeq(s, 1, Len(s)) = s /\ s = [i \in 1..Len(s) |-> s[i]]
    BY DEF Text
  <1> QED
    BY <1>1, <1>2 DEF IsPrefix

\* Whatever the loop is given to act on rests on the recorded original response,
\* and it has been shown a beginning of that response.
THEOREM ExecutableIsRecordedHolds == StreamSpec => []ExecutableIsRecorded
  <1>1. ASSUME StreamInv, released # {} PROVE record = "completed" /\ result.state = "complete" /\ IsPrefix(shown, result.saved)
    <2>1. Settled /\ StreamTypeOK /\ TextInv
      BY <1>1 DEF StreamInv, ReceiptInv
    <2>2. shown \in Text /\ body \in Text /\ result.saved \in Text
      BY <2>1, PiecesAreTexts DEF StreamTypeOK, Result
    <2>3. CASE format = "provider"
      <3>1. body = result.saved /\ Len(shown) <= Len(body) /\ \A i \in 1..Len(shown) : shown[i] = body[i]
        BY <1>1, <2>1, <2>3 DEF TextInv
      <3> QED
        BY <2>1, <2>2, <3>1, PrefixOf DEF Settled
    <2>4. CASE format = "delta"
      <3>1. shown = result.saved
        BY <1>1, <2>1, <2>4 DEF TextInv
      <3>2. IsPrefix(shown, result.saved)
        BY <2>2, <3>1, PrefixOf DEF Text
      <3> QED
        BY <2>1, <3>2 DEF Settled
    <2> QED
      BY <2>1, <2>3, <2>4 DEF StreamTypeOK
  <1>2. StreamInv => ExecutableIsRecorded
    BY <1>1 DEF ExecutableIsRecorded
  <1> QED
    BY Invariance, <1>2, PTL

\* The turn is over, and nothing that could let the loop act is on its way.
Fenced ==
  /\ closed
  /\ producer.pc = "over" => queue # <<Receipt(TRUE)>>
  /\ receipt # "ready" /\ released = {}

\* A turn that ends before its response was delivered is fenced from then on.
LEMMA FenceStarts == StreamInv /\ closed /\ producer.pc # "over" => Fenced
  BY DEF StreamInv, ReceiptInv, Settled, Fenced

\* Nothing opens the fence.
LEMMA FenceStays == StreamInv /\ [StreamNext]_streamVars /\ Fenced => Fenced'
  <1> SUFFICES ASSUME StreamInv, [StreamNext]_streamVars, Fenced PROVE Fenced'
    OBVIOUS
  <1> USE DEF Fenced, hub, turn, response, loop, To
  <1>1. producer \in Producer
    BY DEF StreamInv, StreamTypeOK
  <1>2. CASE UNCHANGED <<closed, producer, queue, receipt, released>>
    BY <1>2
  <1>3. ASSUME closed' = closed, UNCHANGED released, receipt' \in {receipt, "refused"},
               UNCHANGED <<producer, queue>> \/ queue' = <<>>
        PROVE  Fenced'
    <2>1. <<Receipt(TRUE)>> # <<>>
      BY PutOnEmpty
    <2> QED
      BY <1>3, <2>1
  <1>4. CASE UNCHANGED streamVars
    BY <1>2, <1>4 DEF streamVars
  <1>5. CASE Frame \/ Offer \/ Operation \/ StreamEnds \/ HostUnsound \/ Record
    <2>1. producer.pc # "over" /\ producer'.pc # "over"
      <3>1. CASE Frame
        BY <1>1, <3>1 DEF Frame, Producer
      <3>2. CASE Offer
        BY <1>1, <3>2 DEF Offer, Offered, Producer
      <3>3. CASE Operation
        BY <3>3 DEF Operation
      <3>4. CASE StreamEnds \/ HostUnsound \/ Record
        BY <1>1, <3>4 DEF StreamEnds, HostUnsound, Record, Producer
      <3> QED
        BY <1>5, <3>1, <3>2, <3>3, <3>4
    <2>2. UNCHANGED <<closed, receipt, released>>
      BY <1>5 DEF Frame, Offer, Operation, StreamEnds, HostUnsound, Record
    <2> QED
      BY <2>1, <2>2
  <1>6. CASE Deliver \/ Fails
    <2>1. PICK item \in {Receipt(FALSE), Error} : Put(item)
      BY <1>6 DEF Deliver, Fails, MayResume, Silenced
    <2>2. queue' = <<item>>
      BY <1>6, <2>1, PutOnEmpty DEF Deliver, Fails, Put, StreamInv, QueueInv
    <2>3. <<item>> # <<Receipt(TRUE)>>
      BY DEF Receipt, Error
    <2>4. UNCHANGED <<closed, receipt, released>>
      BY <1>6 DEF Deliver, Fails
    <2> QED
      BY <2>2, <2>3, <2>4
  <1>7. CASE PumpReceipt \/ LegacyReceipt
    <2>1. ~ Head(queue).active
      <3>1. queue \in Queue /\ queue # <<>> /\ Head(queue).kind = "operation"
        BY <1>7 DEF StreamInv, StreamTypeOK, PumpReceipt, LegacyReceipt, Takes
      <3>2. producer.pc = "over"
        BY <3>1 DEF StreamInv, QueueInv
      <3> QED
        BY <3>1, <3>2, QueueItems
    <2>2. Leave /\ UNCHANGED <<receipt, released>>
      BY <1>7, <2>1 DEF PumpReceipt, LegacyReceipt
    <2> QED
      BY <1>3, <2>2 DEF Leave
  <1>8. CASE Drop \/ PumpPreview \/ TakeError \/ PumpFails \/ LegacyDelta \/ LegacyLeft \/ Stop
    BY <1>3, <1>8 DEF Drop, PumpPreview, TakeError, PumpFails, AfterFailure, LegacyDelta, LegacyLeft, Stop,
       OpensAndFails, Leave
  <1>9. CASE Parsing
    BY <1>2, <1>9 DEF Parsing, Open, ParseText, ParseDone, ParseExecutable, Gate, GateOpens, ParserReturns,
       ParserThrows, ReturnsAfterReceipt, Drained
  <1>10. CASE Start
    BY <1>1, <1>10 DEF Start, Producer
  <1>11. CASE PullDelta
    <2>1. queue' = <<>> /\ UNCHANGED <<closed, receipt, released>>
      BY <1>11 DEF PullDelta, Held, StreamInv, HeldInv
    <2> QED
      BY <1>3, <2>1
  <1>12. CASE PullParsed \/ PullBlock \/ PullEnd
    BY <1>2, <1>12 DEF PullParsed, PullBlock, PullEnd
  <1>13. CASE Close \/ Abort
    BY <1>2, <1>13 DEF Close, Abort
  <1> QED
    BY <1>4, <1>5, <1>6, <1>7, <1>8, <1>9, <1>10, <1>11, <1>12, <1>13 DEF StreamNext, Producing, Taking, Asking

\* A response that comes after its turn has ended never lets the loop act.
THEOREM LateNeverActsHolds == StreamSpec => LateNeverActs
  <1>1. Fenced => released = {}
    BY DEF Fenced
  <1> QED
    BY Invariance, FenceStarts, FenceStays, <1>1, PTL DEF StreamSpec, LateNeverActs
=============================================================================
