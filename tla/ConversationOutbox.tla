------------------------- MODULE ConversationOutbox -------------------------
(***************************************************************************)
(* ConversationOutbox (lib/conversation-outbox.js): the visible transcript *)
(* of one conversation, captured in memory, saved as one durable record    *)
(* and uploaded to BailingHub in order.  Each host process keeps an entry: *)
(* the record it last knew, the captured events that are not saved yet and *)
(* the queue that serializes everything that saves.  The transcript's      *)
(* producer (archiveTurnStart and onSessionEvent in lib/runtime.js) runs   *)
(* beside it; the store's save is the compare-and-swap of                  *)
(* SessionFileStore, its answer may be lost.                               *)
(*                                                                         *)
(* An event stands for its source, its identity and its payload together.  *)
(* "pending" as a state of the record also stands for "unsupported".       *)
(***************************************************************************)
EXTENDS Naturals, FiniteSets, Sequences, SequencesExt

CONSTANTS
  Host,          \* processes that opened the conversation
  Turn,          \* the turns of the conversation
  Surroundings,  \* the surroundings to look at, one for a behaviour
  NoSave         \* no save under way

Kind == {"turn_start", "user_message", "second_message", "assistant_message",
         "run_link", "turn_end"}
Event == [turn : Turn, kind : Kind]

VARIABLES
  around,     \* what may happen around the conversation, the same for ever
  store,      \* the durable record
  hub,        \* external: the transcript BailingHub holds
  stray,      \* external: requests nobody waits for that may still arrive
  box,        \* entries: what each host keeps of the conversation
  sync,       \* entry.syncing: each host's upload
  todo,       \* what a host's archiveTurnStart has still to append
  captured,   \* the events each host captured since it started
  begun,      \* the turns that have begun, in any host
  wants,      \* hosts that are about to call sync
  crashes     \* bounds Crash

vars == <<store, hub, stray, box, sync, todo, captured, begun, wants, crashes>>

\* Whether a user adds a second message to a running turn; a turn may end while
\* its start is still being saved; a turn may run without archiveTurnStart;
\* loads and saves may fail; requests and answers may get lost or be cut short.
Steers == around.steers
Cancels == around.cancels
Unopened == around.unopened
StoreFaults == around.storeFaults
NetFaults == around.netFaults
\* Bounds: hosts that open the conversation, events a host captures, jobs queued
\* before a new call, the revision beyond which nobody asks for an upload, and
\* how often a host dies.
MaxHosts == around.hosts
MaxEvents == around.events
MaxQueue == around.queue
MaxRevision == around.revision
MaxCrashes == around.crashes

Record == [revision : Nat, events : Seq(Event), acknowledged : Nat,
           syncState : {"pending", "synced"}]
NoRecord == [revision |-> 0, events |-> <<>>, acknowledged |-> 0, syncState |-> "pending"]
NewRecord == [NoRecord EXCEPT !.revision = 1]

Job == {"open", "start", "persist", "persist, then sync", "snapshot", "ack", "drain", "failure"}
Persisting == {"start", "persist", "persist, then sync", "snapshot", "drain"}

ASSUME NoSaveIsNone == NoSave \notin [record : Record, count : Nat]
ASSUME CrashesAreBounded == \A s \in Surroundings : s.crashes \in Nat

Closed == [record |-> NoRecord, pending |-> <<>>, status |-> "pending",
           queue |-> <<>>, saving |-> NoSave]

\* What an upload sends: the events behind the acknowledged ones.
Batch == [acknowledged : Nat, events : Seq(Event)]
BatchOf(record) == [acknowledged |-> record.acknowledged, events |-> record.events]

NotSyncing == [phase |-> "none", snapshot |-> BatchOf(NoRecord), last |-> 0]

TypeOK ==
  /\ around \in Surroundings
  /\ store \in Record
  /\ hub \in Seq(Event)
  /\ stray \subseteq Batch
  /\ DOMAIN box = Host /\ DOMAIN sync = Host
  /\ \A h \in Host :
       /\ box[h].record \in Record
       /\ box[h].pending \in Seq(Event)
       /\ box[h].status \in {"pending", "synced", "storage_error"}
       /\ box[h].queue \in Seq(Job)
       /\ box[h].saving \in [record : Record, count : Nat] \cup {NoSave}
       /\ sync[h].phase \in {"none", "queued", "sending"}
       /\ sync[h].snapshot \in Batch
       /\ sync[h].last \in Nat
       /\ box[h].record.acknowledged <= Len(box[h].record.events)
  /\ todo \in [Host -> Seq(Event)]
  /\ captured \in [Host -> SUBSET Event]
  /\ begun \subseteq Turn
  /\ wants \subseteq Host
  /\ crashes \in 0..MaxCrashes

Init ==
  /\ around \in Surroundings
  /\ store = NoRecord
  /\ hub = <<>>
  /\ stray = {}
  /\ box = [h \in Host |-> Closed]
  /\ sync = [h \in Host |-> NotSyncing]
  /\ todo = [h \in Host |-> <<>>]
  /\ captured = [h \in Host |-> {}]
  /\ begun = {}
  /\ wants = {}
  /\ crashes = 0

E(t, k) == [turn |-> t, kind |-> k]

-----------------------------------------------------------------------------
(* capture: append pushes the event at once and queues a save *)

Room(h) == Len(box[h].queue) < MaxQueue

MayOpen(h) == box[h] # Closed \/ Cardinality({g \in Host : box[g] # Closed}) < MaxHosts

Capture1(h, e, job) ==
  /\ MayOpen(h)
  /\ Room(h) \/ e \in ToSet(todo[h])
  /\ box' = [box EXCEPT ![h].pending = Append(@, e), ![h].queue = Append(@, job)]
  /\ captured' = [captured EXCEPT ![h] = @ \cup {e}]
  /\ Cardinality(captured'[h]) <= MaxEvents

Captured(h, t, k) == E(t, k) \in captured[h]

\* A turn whose start is being saved holds up the next one.
Starting(h) == todo[h] # <<>> \/ Contains(box[h].queue, "start")

\* archiveTurnStart: the start first; the claimed messages follow one by one.
CaptureStart(h, t) ==
  /\ t \in Turn \ begun
  /\ ~ Starting(h)
  /\ Capture1(h, E(t, "turn_start"), "start")
  /\ todo' = [todo EXCEPT ![h] = <<E(t, "user_message")>>]
  /\ begun' = begun \cup {t}
  /\ UNCHANGED <<store, hub, stray, sync, wants, crashes>>

\* The next claimed message, once the save before it was answered either way.
CaptureClaimed(h) ==
  /\ todo[h] # <<>>
  /\ ~ Contains(box[h].queue, "start")
  /\ Capture1(h, Head(todo[h]), "start")
  /\ todo' = [todo EXCEPT ![h] = Tail(@)]
  /\ UNCHANGED <<store, hub, stray, sync, begun, wants, crashes>>

\* onInboxClaimed in a running turn.  While archiveTurnStart still walks the
\* same list of claims it appends this message a second time.
CaptureSecond(h, t) ==
  /\ Steers
  /\ Captured(h, t, "turn_start")
  /\ ~ Captured(h, t, "second_message") /\ ~ Captured(h, t, "turn_end")
  /\ Capture1(h, E(t, "second_message"), "persist")
  /\ todo' = [todo EXCEPT ![h] = IF Starting(h) THEN Append(@, E(t, "second_message")) ELSE @]
  /\ UNCHANGED <<store, hub, stray, sync, begun, wants, crashes>>

\* An assistant message of a turn the scope let through.
CaptureAssistant(h, t) ==
  /\ Captured(h, t, "turn_start")
  /\ ~ Starting(h)
  /\ ~ Captured(h, t, "assistant_message") /\ ~ Captured(h, t, "turn_end")
  /\ Capture1(h, E(t, "assistant_message"), "persist")
  /\ UNCHANGED <<store, hub, stray, sync, todo, begun, wants, crashes>>

\* An assistant message of a turn that never reached archiveTurnStart, while
\* archiveEnabled is still set from an earlier turn.
CaptureUnopened(h, t) ==
  /\ Unopened
  /\ captured[h] # {} /\ t \notin begun
  /\ ~ Starting(h)
  /\ Capture1(h, E(t, "assistant_message"), "persist")
  /\ begun' = begun \cup {t}
  /\ UNCHANGED <<store, hub, stray, sync, todo, wants, crashes>>

\* The link to the business run, however late its response arrives; startRun
\* then calls sync.
CaptureLink(h, t) ==
  /\ Captured(h, t, "turn_start")
  /\ ~ Starting(h)
  /\ ~ Captured(h, t, "run_link")
  /\ Capture1(h, E(t, "run_link"), "persist, then sync")
  /\ UNCHANGED <<store, hub, stray, sync, todo, begun, wants, crashes>>

\* The turn ends, possibly cancelled before its start is saved; sync follows.
CaptureEnd(h, t) ==
  /\ Captured(h, t, "turn_start") /\ ~ Captured(h, t, "turn_end")
  /\ Cancels \/ ~ Starting(h)
  /\ Capture1(h, E(t, "turn_end"), "persist, then sync")
  /\ UNCHANGED <<store, hub, stray, sync, todo, begun, wants, crashes>>

Capture(h) ==
  \/ \E t \in Turn : \/ CaptureStart(h, t) \/ CaptureSecond(h, t) \/ CaptureAssistant(h, t)
                     \/ CaptureUnopened(h, t) \/ CaptureLink(h, t) \/ CaptureEnd(h, t)
  \/ CaptureClaimed(h)

-----------------------------------------------------------------------------
(* the entry's queue: its head is the job under way *)

Running(h, jobs) ==
  /\ box[h].queue # <<>>
  /\ Head(box[h].queue) \in jobs

\* validateRecord: no source twice; each turn starts, runs and ends in order,
\* only run links may follow the end.
ValidEvents(events) ==
  \A i \in DOMAIN events :
    LET before(k) == \E j \in 1..(i - 1) : events[j] = E(events[i].turn, k) IN
      /\ ~ before(events[i].kind)
      /\ events[i].kind # "turn_start" => before("turn_start")
      /\ events[i].kind \notin {"turn_start", "run_link"} => ~ before("turn_end")

OnSnapshot(h, last, record) ==    \* a faulty UploadIsComplete
  last = Len(sync[h].snapshot.events)

\* The record's own length at the time of the save, not the snapshot's.
UploadIsComplete(h, last, record) == last = Len(record.events)

\* Events captured during a batch that was taken whole are sent right away.
MoreToSend(h, record) ==
  /\ sync[h].last = Len(sync[h].snapshot.events)
  /\ Len(record.events) > Len(sync[h].snapshot.events)

\* The upload's next job.
Follow(job, ok, again) ==
  IF again THEN <<"snapshot">>
  ELSE IF job = "ack" /\ ok THEN <<"drain">>
  ELSE IF job \in {"ack", "drain"} /\ ~ ok THEN <<"failure">>
  ELSE <<>>

\* The job at the head is over and leaves the entry as b; the upload's next
\* job, if there is one, goes to the end of the queue.
Over(h, b, ok) ==
  LET job == Head(b.queue)
      again == job = "drain" /\ ok /\ MoreToSend(h, b.record)
  IN /\ box' = [box EXCEPT ![h] = [b EXCEPT !.queue = Tail(@) \o Follow(job, ok, again),
                                            !.saving = NoSave]]
     /\ wants' = IF job = "persist, then sync" THEN wants \cup {h} ELSE wants
     /\ sync' = [sync EXCEPT ![h] =
          IF job = "snapshot" /\ ok
            THEN [phase |-> "sending", snapshot |-> BatchOf(b.record), last |-> 0]
          ELSE IF job \in {"snapshot", "failure"} \/ (job = "drain" /\ ok /\ ~ again)
            THEN NotSyncing
          ELSE @]

\* entry.status: an unsaved event outweighs what the record says.
Shown(b) == IF b.pending = <<>> THEN b.record.syncState ELSE "storage_error"

Opened(h) == box[h].record # NoRecord

\* load: the stored record, or a new one that has to be saved first.
LoadStored(h) ==
  /\ Running(h, Persisting \cup {"open"})
  /\ ~ Opened(h) /\ box[h].saving = NoSave
  /\ IF store = NoRecord
       THEN box' = [box EXCEPT ![h].saving = [record |-> NewRecord, count |-> 0]]
       ELSE box' = [box EXCEPT ![h].record = store]
  /\ UNCHANGED <<store, hub, stray, sync, todo, captured, begun, wants, crashes>>

LoadFailed(h) ==
  /\ StoreFaults
  /\ Running(h, Persisting \cup {"open"})
  /\ ~ Opened(h) /\ box[h].saving = NoSave
  /\ Over(h, [box[h] EXCEPT !.status = "storage_error"], FALSE)
  /\ UNCHANGED <<store, hub, stray, todo, captured, begun, crashes>>

\* open, of a turn's start, a status request or an upload.
OpenDone(h) ==
  /\ Running(h, {"open"})
  /\ Opened(h)
  /\ Over(h, [box[h] EXCEPT !.status = Shown(box[h])], TRUE)
  /\ UNCHANGED <<store, hub, stray, todo, captured, begun, crashes>>

WithDuplicates(events, e) == Append(events, e)      \* a faulty WithEvent

\* An event whose source is stored already is not stored again.
WithEvent(events, e) == IF Contains(events, e) THEN events ELSE Append(events, e)

\* The stored events and, behind them, every event pending at this moment.
Extended(h) == FoldLeft(WithEvent, box[h].record.events, box[h].pending)

PersistBegin(h) ==
  /\ Running(h, Persisting)
  /\ Opened(h) /\ box[h].saving = NoSave
  /\ Extended(h) # box[h].record.events
  /\ ValidEvents(Extended(h))
  /\ box' = [box EXCEPT ![h].saving =
       [record |-> [box[h].record EXCEPT !.revision = @ + 1, !.events = Extended(h),
                                         !.syncState = "pending"],
        count |-> Len(box[h].pending)]]
  /\ UNCHANGED <<store, hub, stray, sync, todo, captured, begun, wants, crashes>>

\* ARCHIVE_EVENT_ORDER: nothing is saved and everything stays pending.
PersistRefused(h) ==
  /\ Running(h, Persisting)
  /\ Opened(h) /\ box[h].saving = NoSave
  /\ ~ ValidEvents(Extended(h))
  /\ Over(h, [box[h] EXCEPT !.status = "storage_error"], FALSE)
  /\ UNCHANGED <<store, hub, stray, todo, captured, begun, crashes>>

PersistNothing(h) ==
  /\ Running(h, Persisting)
  /\ Opened(h) /\ box[h].saving = NoSave
  /\ Extended(h) = box[h].record.events
  /\ Over(h, [box[h] EXCEPT !.pending = <<>>, !.status = box[h].record.syncState], TRUE)
  /\ UNCHANGED <<store, hub, stray, todo, captured, begun, crashes>>

AcknowledgesNext(h) == sync[h].last + 1      \* a faulty Acknowledged
Acknowledged(h) == sync[h].last

\* The outcome of an upload is saved with the record as it is by then: it may
\* have grown since the snapshot was sent.
AckBegin(h) ==
  /\ Running(h, {"ack"})
  /\ box[h].saving = NoSave
  /\ LET record == box[h].record IN
       box' = [box EXCEPT ![h].saving =
         [record |-> [record EXCEPT !.revision = @ + 1, !.acknowledged = Acknowledged(h),
            !.syncState = IF UploadIsComplete(h, sync[h].last, record) THEN "synced" ELSE "pending"],
          count |-> 0]]
  /\ UNCHANGED <<store, hub, stray, sync, todo, captured, begun, wants, crashes>>

FailureBegin(h) ==
  /\ Running(h, {"failure"})
  /\ box[h].saving = NoSave
  /\ box' = [box EXCEPT ![h].saving =
       [record |-> [box[h].record EXCEPT !.revision = @ + 1, !.syncState = "pending"], count |-> 0]]
  /\ UNCHANGED <<store, hub, stray, sync, todo, captured, begun, wants, crashes>>

RevisionMatches(h) == store.revision = box[h].saving.record.revision - 1

DroppedAll(h) == <<>>             \* a faulty StillPending

\* pending.splice(0, count): events captured during the save stay.
StillPending(h) ==
  SubSeq(box[h].pending, box[h].saving.count + 1, Len(box[h].pending))

\* The record as saved is the one the entry goes on with.
Saved(h) ==
  /\ box[h].saving # NoSave
  /\ RevisionMatches(h)
  /\ store' = box[h].saving.record
  /\ LET b == [box[h] EXCEPT !.record = box[h].saving.record, !.pending = StillPending(h)] IN
       IF Opened(h)
         THEN Over(h, [b EXCEPT !.status = IF Running(h, Persisting) THEN b.record.syncState
                                           ELSE Shown(b)], TRUE)
         ELSE /\ box' = [box EXCEPT ![h] = [b EXCEPT !.saving = NoSave]]   \* load goes on
              /\ UNCHANGED <<sync, wants>>
  /\ UNCHANGED <<hub, stray, todo, captured, begun, crashes>>

\* Refused, or failed, or saved without an answer: the entry's own record
\* stays what it was.
NotSaved(h) ==
  /\ box[h].saving # NoSave
  /\ \/ StoreFaults /\ UNCHANGED store
     \/ StoreFaults /\ RevisionMatches(h) /\ store' = box[h].saving.record
     \/ (~ RevisionMatches(h)) /\ UNCHANGED store
  /\ Over(h, [box[h] EXCEPT !.status = IF Running(h, {"ack"}) THEN @ ELSE "storage_error"], FALSE)
  /\ UNCHANGED <<hub, stray, todo, captured, begun, crashes>>

-----------------------------------------------------------------------------
(* sync *)

\* prepareSessionArchive opens the entry before a turn, a status or an upload.
\* Behind other jobs an open is the same as one called when they are over.
Open(h) ==
  /\ MayOpen(h)
  /\ box[h].queue = <<>>
  /\ box' = [box EXCEPT ![h].queue = Append(@, "open")]
  /\ UNCHANGED <<store, hub, stray, sync, todo, captured, begun, wants, crashes>>

StartUpload(h) ==
  /\ box' = [box EXCEPT ![h].queue = Append(@, "snapshot")]
  /\ sync' = [sync EXCEPT ![h].phase = "queued"]

\* A call while an upload runs shares its result.
SyncFollows(h) ==
  /\ h \in wants
  /\ Opened(h)
  /\ wants' = wants \ {h}
  /\ IF sync[h].phase = "none" THEN StartUpload(h) ELSE UNCHANGED <<box, sync>>
  /\ UNCHANGED <<store, hub, stray, todo, captured, begun, crashes>>

\* The host or the user asks for it.
SyncRequested(h) ==
  /\ Room(h) /\ Opened(h) /\ sync[h].phase = "none"
  /\ store.revision < MaxRevision
  /\ StartUpload(h)
  /\ UNCHANGED <<store, hub, stray, todo, captured, begun, wants, crashes>>

\* External.  The hub appends what it does not have yet, in sequence; it may
\* stop anywhere in a batch.
HubHolds(batch, n) ==
  hub' = IF batch.acknowledged <= Len(hub) /\ n > Len(hub)
           THEN hub \o SubSeq(batch.events, Len(hub) + 1, n) ELSE hub

Whole(batch) == Len(batch.events)

\* The plausibility checks on an acknowledgement.
AckIsValid(h, last) ==
  /\ last >= sync[h].snapshot.acknowledged
  /\ last <= Len(sync[h].snapshot.events)

HubAnswers(h, n) ==
  /\ sync[h].phase = "sending"
  /\ NetFaults \/ n = Whole(sync[h].snapshot)
  /\ HubHolds(sync[h].snapshot, n)
  /\ sync' = [sync EXCEPT ![h].phase = "queued", ![h].last = Len(hub')]
  /\ box' = [box EXCEPT ![h].queue =
       Append(@, IF AckIsValid(h, Len(hub')) THEN "ack" ELSE "failure")]
  /\ UNCHANGED <<store, stray, todo, captured, begun, wants, crashes>>

\* No answer: the request is lost, or arrives at any later time (at most one
\* such request is kept).
RequestFails(h) ==
  /\ NetFaults
  /\ sync[h].phase = "sending"
  /\ sync' = [sync EXCEPT ![h].phase = "queued"]
  /\ box' = [box EXCEPT ![h].queue = Append(@, "failure")]
  /\ stray' \in {stray} \cup (IF stray = {} THEN {{sync[h].snapshot}} ELSE {})
  /\ UNCHANGED <<store, hub, todo, captured, begun, wants, crashes>>

StrayArrives(batch, n) ==
  /\ HubHolds(batch, n)
  /\ stray' = stray \ {batch}
  /\ UNCHANGED <<store, box, sync, todo, captured, begun, wants, crashes>>

\* The process dies; what was captured and not saved is gone with it.
Crash(h) ==
  /\ crashes < MaxCrashes
  /\ crashes' = crashes + 1
  /\ stray' \in {stray} \cup (IF stray = {} /\ sync[h].phase = "sending"
                             THEN {{sync[h].snapshot}} ELSE {})
  /\ box' = [box EXCEPT ![h] = Closed]
  /\ sync' = [sync EXCEPT ![h] = NotSyncing]
  /\ todo' = [todo EXCEPT ![h] = <<>>]
  /\ captured' = [captured EXCEPT ![h] = {}]
  /\ wants' = wants \ {h}
  /\ UNCHANGED <<store, hub, begun>>

-----------------------------------------------------------------------------
Work(h) ==
  \/ LoadStored(h) \/ LoadFailed(h) \/ OpenDone(h)
  \/ PersistBegin(h) \/ PersistRefused(h) \/ PersistNothing(h)
  \/ AckBegin(h) \/ FailureBegin(h) \/ Saved(h) \/ NotSaved(h)

RequestEnds(h) ==
  \/ \E n \in 0..Len(sync[h].snapshot.events) : HubAnswers(h, n)
  \/ RequestFails(h)

Step ==
  \/ \E h \in Host : Capture(h) \/ Open(h) \/ SyncRequested(h) \/ SyncFollows(h)
                   \/ Work(h) \/ RequestEnds(h) \/ Crash(h)
  \/ \E batch \in stray : \E n \in 0..Len(batch.events) : StrayArrives(batch, n)

Next == Step /\ UNCHANGED around

Spec == Init /\ [][Next]_<<vars, around>>

\* Every promise in the queue settles, and every request ends by an answer or
\* a timeout; turns, messages and crashes need not happen.  A turn that
\* started appends all of its claimed messages.
FairSpec ==
  Spec /\ \A h \in Host :
    /\ WF_vars(Work(h)) /\ WF_vars(RequestEnds(h))
    /\ WF_vars(SyncFollows(h)) /\ WF_vars(CaptureClaimed(h))
-----------------------------------------------------------------------------
(* Properties *)

\* What BailingHub holds is always the beginning of the durable transcript,
\* whichever host sent it, however often, and however late it arrived: no
\* event leaves the machine before it is saved under its sequence.
HubHoldsAPrefix == IsPrefix(hub, store.events)

\* A record is "synced" only when the hub holds all of it, also when events
\* were saved while the batch was on its way.
SyncedMeansHeld == store.syncState = "synced" => hub = store.events

\* Between the transcript on disk and the hub's copy nothing is ever replaced,
\* sent ahead of its save, or shown as uploaded when it is not.
HubAgrees == HubHoldsAPrefix /\ SyncedMeansHeld

\* An event a living host captured is stored or still pending: failed saves,
\* lost answers and captures during a save lose none.
CapturedIsKept ==
  \A h \in Host, e \in Event :
    e \in captured[h] => Contains(store.events, e) \/ Contains(box[h].pending, e)

\* When nothing is under way, a host with unsaved events says so: neither a
\* late network failure nor a reopening hides them.
UnsavedIsShown ==
  \A h \in Host :
    box[h].queue = <<>> /\ box[h].pending # <<>> => box[h].status = "storage_error"

\* What was captured is stored, or kept and shown as unsaved, never lost or hidden.
NothingIsLost == CapturedIsKept /\ UnsavedIsShown

\* Without failures a conversation whose turn has ended gets uploaded whole.
TurnGetsSynced ==
  \A h \in Host, t \in Turn :
    Captured(h, t, "turn_end") ~>
      \/ Contains(hub, E(t, "turn_end")) /\ store.syncState = "synced"
      \/ ~ Captured(h, t, "turn_end")

\* An event that is not saved gets saved once the store works ("a local write
\* failure can leave only an in-memory pending event until storage
\* recovers", docs/AGENT_CLIENT_CONTRACT.md).
UnsavedGetsSaved == \A h \in Host : box[h].pending # <<>> ~> box[h].pending = <<>>
=============================================================================
