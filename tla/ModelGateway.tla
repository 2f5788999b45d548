---------------------------- MODULE ModelGateway ----------------------------
(***************************************************************************)
(* Requests to a paid model within one user turn                           *)
(* (lib/model-gateway-transport.js, over lib/usage-model-transport.js).    *)
(* A request is named by the caller (modelRequestId) and may be repeated,  *)
(* by several calls at once or after a restart; what is sent has an        *)
(* operation id of its own.  A marker in the session and a record beside   *)
(* it (the sidecar) are durable before anything is sent.                   *)
(*                                                                         *)
(* The calls of a session share one queue (serial).  A step is what runs   *)
(* between two awaits; awaits at which only the head of the queue could    *)
(* change what is read next are one step.                                  *)
(***************************************************************************)
EXTENDS Naturals, Sequences, FiniteSets

CONSTANTS
  Call,        \* calls that may be under way at once
  Request,     \* the turn's modelRequestIds
  MaxTries,    \* bound: operation ids drawn per request
  MaxCrashes,  \* bound: how often the host stops
  Reports      \* whether the host tells of events it failed to save (getPrimaryStatus)

ASSUME MaxTriesIsNat == MaxTries \in Nat
ASSUME MaxCrashesIsNat == MaxCrashes \in Nat
ASSUME ReportsIsFlag == Reports \in BOOLEAN

Op == Request \X (1..MaxTries)
NoOp == <<>>

VARIABLES
  events,     \* session.events: the markers, and what ends the turn
  saved,      \* the events that survive a restart
  unsaved,    \* whether the host's last attempt to save events failed
  sidecar,    \* the state in each operation's record
  fenced,     \* host.cancelled and host.ended
  badStore,   \* host.storageFailures
  queue,      \* queues: the calls in the session's queue
  call,       \* the calls: where they are, their operation and what they heard
  hub,        \* external: what the hub knows of an operation
  sent,       \* history: the operations that were sent
  resumed,    \* history: the operations whose receipt was host_turn_active
  closed,     \* history: whether a close of the turn has returned
  crashes

host == <<events, saved, unsaved, sidecar, fenced, badStore>>
history == <<sent, resumed, closed, crashes>>
vars == <<host, queue, call, hub, history>>

Settled == {"completed", "rejected", "cancelled"}
State == Settled \cup {"prepared", "unknown", "closed_unresolved"}
Answer == {"pending", "complete", "failed", "cancelled", "unknown", "expired"}

Events == [markers : SUBSET Op, closed : BOOLEAN, over : BOOLEAN]

\* Where a call is: jobs of the queue up to "cancelled" and "record".
Place == {"idle", "prepare", "intent", "confirm", "reject", "inspect", "inspected",
          "end", "cancel", "fence", "close", "cancelled", "check", "send", "wait", "record",
          "answer", "deliver"}

Idle == [pc |-> "idle", request |-> "none", op |-> NoOp, state |-> "none", heard |-> "none", todo |-> {}]

TypeOK ==
  /\ events \in Events /\ saved \in Events
  /\ unsaved \in BOOLEAN /\ fenced \in BOOLEAN /\ badStore \in BOOLEAN
  /\ sidecar \in [Op -> State \cup {"none"}]
  /\ queue \in Seq(Call)
  /\ call \in [Call -> [pc : Place, request : Request \cup {"none"}, op : Op \cup {NoOp},
                        state : State \cup {"none"}, heard : Answer \cup {"none"}, todo : SUBSET Op]]
  /\ hub \in [Op -> Answer \cup {"none", "underway", "lost"}]
  /\ sent \subseteq Op /\ resumed \subseteq Op
  /\ closed \in BOOLEAN /\ crashes \in 0..MaxCrashes

Init ==
  /\ events = [markers |-> {}, closed |-> FALSE, over |-> FALSE]
  /\ saved = events
  /\ unsaved = FALSE /\ fenced = FALSE /\ badStore = FALSE
  /\ sidecar = [o \in Op |-> "none"]
  /\ queue = <<>>
  /\ call = [c \in Call |-> Idle]
  /\ hub = [o \in Op |-> "none"]
  /\ sent = {} /\ resumed = {} /\ closed = FALSE /\ crashes = 0

-----------------------------------------------------------------------------
(* What the calls share *)

At(c, pc) == call[c].pc = pc
AtHead(c, pc) == At(c, pc) /\ queue # <<>> /\ Head(queue) = c

Goto(c, pc) == call' = [call EXCEPT ![c].pc = pc]

\* serial: a job waits for the one before it, and goes on after its failure too.
Enqueue(c) == queue' = Append(queue, c)
Dequeue == queue' = Tail(queue)

\* The queue without the job of c that ends, successfully or not.
Released(c) == IF queue # <<>> /\ Head(queue) = c THEN Tail(queue) ELSE queue

Return(c) ==
  /\ call' = [call EXCEPT ![c] = Idle]
  /\ queue' = Released(c)

\* a faulty Closed: forgets what was saved of the turn's end
ClosedHere == fenced
\* closed, isLiveMessage
Closed == fenced \/ events.closed \/ events.over

\* primary: no failure is known
Primary == ~ badStore /\ ~ (Reports /\ unsaved)

\* a faulty Persisted
NothingPersisted == saved' = saved
\* ensureSessionPersisted answered true
Persisted == saved' = events

\* durable
Durable ==
  /\ Primary
  /\ Persisted
  /\ unsaved' = FALSE
  /\ UNCHANGED <<events, sidecar, fenced, badStore>>

\* durable failed; what was written may be there after a restart all the same.
NotDurable ==
  /\ \/ ~ Primary /\ UNCHANGED <<saved, unsaved>>
     \/ Primary /\ saved' \in {saved, events} /\ unsaved' = TRUE
  /\ UNCHANGED <<events, sidecar, fenced, badStore>>

Stored(o, s) == sidecar' = [sidecar EXCEPT ![o] = s]

\* save failed: the session is blocked, and the record may be there.
NotStored(o, s) ==
  /\ sidecar' \in {sidecar, [sidecar EXCEPT ![o] = s]}
  /\ badStore' = TRUE

\* state
StateOf(answer) ==
  CASE answer = "expired"   -> "closed_unresolved"
    [] answer = "complete"  -> "completed"
    [] answer = "cancelled" -> "cancelled"
    [] answer = "failed"    -> "rejected"
    [] OTHER                -> "unknown"

\* The client can ask the hub for what it has received.
Known(o) == hub[o] \in Answer
-----------------------------------------------------------------------------
(* complete: the intent *)

Of(r) == {o \in Op : o[1] = r}
Markers(r) == events.markers \cap Of(r)
Unused(r) == {o \in Of(r) : sidecar[o] = "none"}

Complete(c, r) ==
  /\ At(c, "idle")
  /\ call' = [call EXCEPT ![c].pc = "prepare", ![c].request = r]
  /\ Enqueue(c)
  /\ UNCHANGED <<host, hub, history>>

\* The request was prepared before: its operation is looked up, never sent.
\* recover does the same with the operation's id.
PrepareAgain(c) ==
  /\ AtHead(c, "prepare")
  /\ Durable
  /\ \E o \in Markers(call[c].request) :
       /\ sidecar[o] # "none"
       /\ call' = [call EXCEPT ![c].pc = "inspect", ![c].op = o]
  /\ UNCHANGED <<queue, hub, history>>

\* randomUUID
PrepareNew(c) ==
  /\ AtHead(c, "prepare")
  /\ Durable
  /\ Markers(call[c].request) = {}
  /\ ~ Closed
  /\ \E o \in Unused(call[c].request) :
       /\ \A other \in Unused(call[c].request) : o[2] <= other[2]
       /\ call' = [call EXCEPT ![c].pc = "intent", ![c].op = o]
  /\ UNCHANGED <<queue, hub, history>>

\* The turn is over, or the input or the plan does not allow the request.
PrepareRefused(c) ==
  /\ AtHead(c, "prepare")
  /\ Durable
  /\ Markers(call[c].request) = {}
  /\ Return(c)
  /\ UNCHANGED <<hub, history>>

PrepareFails(c) ==
  /\ AtHead(c, "prepare")
  /\ NotDurable
  /\ Return(c)
  /\ UNCHANGED <<hub, history>>

SaveIntent(c) ==
  /\ AtHead(c, "intent")
  /\ Stored(call[c].op, "prepared")
  /\ events' = [events EXCEPT !.markers = @ \cup {call[c].op}]
  /\ Goto(c, "confirm")
  /\ UNCHANGED <<saved, unsaved, fenced, badStore, queue, hub, history>>

SaveIntentFails(c) ==
  /\ AtHead(c, "intent")
  /\ NotStored(call[c].op, "prepared")
  /\ Return(c)
  /\ UNCHANGED <<events, saved, unsaved, fenced, hub, history>>

\* The marker is durable; meanwhile the turn may have been closed, or the caller
\* may have aborted.
Confirm(c) ==
  /\ AtHead(c, "confirm")
  /\ Durable
  /\ \/ Goto(c, "reject") /\ UNCHANGED queue
     \/ ~ Closed /\ Goto(c, "check") /\ Dequeue
  /\ UNCHANGED <<hub, history>>

ConfirmFails(c) ==
  /\ AtHead(c, "confirm")
  /\ NotDurable
  /\ Return(c)
  /\ UNCHANGED <<hub, history>>

RejectIntent(c) ==
  /\ AtHead(c, "reject")
  /\ \/ Stored(call[c].op, "rejected") /\ UNCHANGED badStore
     \/ NotStored(call[c].op, "rejected")
  /\ Return(c)
  /\ UNCHANGED <<events, saved, unsaved, fenced, hub, history>>

-----------------------------------------------------------------------------
(* complete: the request, outside the queue *)

\* primary is awaited: the turn may end, or a save fail, before what follows it.
CheckBefore(c) ==
  /\ At(c, "check")
  /\ Primary
  /\ Goto(c, "send")
  /\ UNCHANGED <<host, queue, hub, history>>

\* The outcome of the request is to be recorded, in the queue.
Outcome(c, state, heard) ==
  /\ call' = [call EXCEPT ![c].pc = "record", ![c].state = state, ![c].heard = heard]
  /\ Enqueue(c)

Send(c) ==
  /\ At(c, "send")
  /\ ~ Closed
  /\ hub' = [hub EXCEPT ![call[c].op] = "underway"]
  /\ sent' = sent \cup {call[c].op}
  /\ Goto(c, "wait")
  /\ UNCHANGED <<host, queue, resumed, closed, crashes>>

\* The turn is over, the host reports a failure or the caller has aborted.
NotSent(c) ==
  /\ At(c, "check") \/ At(c, "send")
  /\ Outcome(c, "rejected", "none")
  /\ UNCHANGED <<host, hub, history>>

Answered(c) ==
  /\ At(c, "wait")
  /\ Known(call[c].op)
  /\ Outcome(c, StateOf(hub[call[c].op]), hub[call[c].op])
  /\ UNCHANGED <<host, hub, history>>

\* The answer is not the operation's own (check): nothing is recorded.
AnswerRefused(c) ==
  /\ At(c, "wait")
  /\ Known(call[c].op)
  /\ Return(c)
  /\ UNCHANGED <<host, hub, history>>

\* The client is certain that nothing was dispatched.
Undispatched(c) ==
  /\ At(c, "wait")
  /\ hub[call[c].op] = "underway"
  /\ hub' = [hub EXCEPT ![call[c].op] = "lost"]
  /\ Outcome(c, "rejected", "none")
  /\ UNCHANGED <<host, history>>

NoAnswer(c) ==
  /\ At(c, "wait")
  /\ Outcome(c, "unknown", "none")
  /\ UNCHANGED <<host, hub, history>>

\* a faulty AfterFrame
ErrorAsIs == "rejected"
\* Errors of the host itself say not_dispatched; after a frame they do not count.
AfterFrame == "unknown"

\* A stream has delivered frames when the host's own storage fails.
StreamBreaks(c) ==
  /\ At(c, "wait")
  /\ Known(call[c].op)
  /\ ~ Primary
  /\ Outcome(c, AfterFrame, "none")
  /\ UNCHANGED <<host, hub, history>>

\* update
Record(c) ==
  /\ AtHead(c, "record")
  /\ Primary
  /\ Stored(call[c].op, call[c].state)
  /\ IF call[c].heard = "none" THEN Return(c) ELSE Goto(c, "answer") /\ Dequeue
  /\ UNCHANGED <<events, saved, unsaved, fenced, badStore, hub, history>>

RecordFails(c) ==
  /\ AtHead(c, "record")
  /\ \/ ~ Primary /\ UNCHANGED <<sidecar, badStore>>
     \/ Primary /\ NotStored(call[c].op, call[c].state)
  /\ Return(c)
  /\ UNCHANGED <<events, saved, unsaved, fenced, hub, history>>

CheckAfter(c) ==
  /\ At(c, "answer")
  /\ Primary
  /\ Goto(c, "deliver")
  /\ UNCHANGED <<host, queue, hub, history>>

DeliverFails(c) ==
  /\ At(c, "answer")
  /\ ~ Primary
  /\ Return(c)
  /\ UNCHANGED <<host, hub, history>>

\* The receipt: a complete result of an open turn resumes the host's loop, unless
\* the caller has aborted.
Deliver(c) ==
  /\ At(c, "deliver")
  /\ \/ /\ call[c].heard = "complete" /\ ~ Closed
        /\ resumed' = resumed \cup {call[c].op}
     \/ UNCHANGED resumed
  /\ Return(c)
  /\ UNCHANGED <<host, hub, sent, closed, crashes>>

-----------------------------------------------------------------------------
(* inspect, within the queue *)

Inspect(c) ==
  /\ AtHead(c, "inspect")
  /\ Known(call[c].op)
  /\ call' = [call EXCEPT ![c].pc = "inspected", ![c].heard = hub[call[c].op]]
  /\ UNCHANGED <<host, queue, hub, history>>

InspectFails(c) ==
  /\ AtHead(c, "inspect")
  /\ Return(c)
  /\ UNCHANGED <<host, hub, history>>

\* a faulty Inspected
RecordsByUpdate(c) == Outcome(c, StateOf(call[c].heard), call[c].heard)
\* inspect is a job of the queue and saves by itself: update would wait for it.
Inspected(c) == Goto(c, "answer") /\ UNCHANGED queue

InspectStored(c) ==
  /\ AtHead(c, "inspected")
  /\ Stored(call[c].op, StateOf(call[c].heard))
  /\ Inspected(c)
  /\ UNCHANGED <<events, saved, unsaved, fenced, badStore, hub, history>>

InspectNotStored(c) ==
  /\ AtHead(c, "inspected")
  /\ NotStored(call[c].op, StateOf(call[c].heard))
  /\ Return(c)
  /\ UNCHANGED <<events, saved, unsaved, fenced, hub, history>>

-----------------------------------------------------------------------------
(* close: endTurn and cancelTurn *)

\* The turn is fenced at once, whatever waits in the queue.
Close(c, how) ==
  /\ At(c, "idle")
  /\ fenced' = TRUE
  /\ Goto(c, how)
  /\ Enqueue(c)
  /\ UNCHANGED <<events, saved, unsaved, sidecar, badStore, hub, history>>

\* The operations a cancel has to reach; an end reaches none.
ToCancel(how) ==
  IF how = "end" THEN {} ELSE {o \in events.markers : sidecar[o] \notin Settled}

CloseAppends(c, how) ==
  /\ AtHead(c, how)
  /\ Primary
  /\ ~ events.closed
  /\ events' = [events EXCEPT !.closed = TRUE]
  /\ call' = [call EXCEPT ![c].pc = "fence", ![c].todo = ToCancel(how)]
  /\ UNCHANGED <<saved, unsaved, sidecar, fenced, badStore, queue, hub, history>>

CloseAgain(c, how) ==
  /\ AtHead(c, how)
  /\ Primary
  /\ events.closed
  /\ call' = [call EXCEPT ![c].pc = "close", ![c].todo = ToCancel(how)]
  /\ UNCHANGED <<host, queue, hub, history>>

CloseBlocked(c, how) ==
  /\ AtHead(c, how)
  /\ ~ Primary
  /\ Return(c)
  /\ UNCHANGED <<host, hub, history>>

FenceSaved(c) ==
  /\ AtHead(c, "fence")
  /\ Durable
  /\ Goto(c, "close")
  /\ UNCHANGED <<queue, hub, history>>

FenceNotSaved(c) ==
  /\ AtHead(c, "fence")
  /\ NotDurable
  /\ Return(c)
  /\ UNCHANGED <<hub, history>>

\* cancelModelRequest: what is not finished may be stopped.
Cancelling(o) ==
  hub' \in {hub, [hub EXCEPT ![o] = IF @ = "pending" THEN "cancelled" ELSE @]}

CancelOne(c) ==
  /\ AtHead(c, "close")
  /\ \E o \in call[c].todo :
       /\ Known(o)
       /\ Cancelling(o)
       /\ call' = [call EXCEPT ![c].pc = "cancelled", ![c].op = o, ![c].heard = hub'[o]]
  /\ UNCHANGED <<host, queue, history>>

\* A record cannot be read, or the hub does not answer or know the operation.
CancelFails(c) ==
  /\ AtHead(c, "close")
  /\ events.markers # {}
  /\ UNCHANGED hub \/ \E o \in call[c].todo : Cancelling(o)
  /\ Return(c)
  /\ UNCHANGED <<host, history>>

CancelStored(c) ==
  /\ AtHead(c, "cancelled")
  /\ Stored(call[c].op, StateOf(call[c].heard))
  /\ call' = [call EXCEPT ![c].pc = "close", ![c].todo = @ \ {call[c].op}]
  /\ UNCHANGED <<events, saved, unsaved, fenced, badStore, queue, hub, history>>

CancelNotStored(c) ==
  /\ AtHead(c, "cancelled")
  /\ NotStored(call[c].op, StateOf(call[c].heard))
  /\ Return(c)
  /\ UNCHANGED <<events, saved, unsaved, fenced, hub, history>>

CloseReturns(c) ==
  /\ AtHead(c, "close")
  /\ call[c].todo = {}
  /\ closed' = TRUE
  /\ Return(c)
  /\ UNCHANGED <<host, hub, sent, resumed, crashes>>

-----------------------------------------------------------------------------
(* the host and the hub *)

\* A further input of the user, or turn/end.
NextInput ==
  /\ ~ events.over
  /\ events' = [events EXCEPT !.over = TRUE]
  /\ UNCHANGED <<saved, unsaved, sidecar, fenced, badStore, queue, call, hub, history>>

\* The host saves the session on its own account, or because a call asks it to
\* before it joins the queue.
HostSaves ==
  /\ saved' \in {saved, events}
  /\ unsaved' \in {saved' # events, TRUE}
  /\ UNCHANGED <<events, sidecar, fenced, badStore, queue, call, hub, history>>

Crash ==
  /\ crashes < MaxCrashes
  /\ crashes' = crashes + 1
  /\ events' = saved
  /\ unsaved' = FALSE /\ fenced' = FALSE /\ badStore' = FALSE
  /\ queue' = <<>>
  /\ call' = [c \in Call |-> Idle]
  /\ UNCHANGED <<saved, sidecar, hub, sent, resumed, closed>>

\* The request arrives or is lost; the operation ends; its response expires.
Progress ==
  {<<"underway", "pending">>, <<"underway", "lost">>, <<"pending", "complete">>,
   <<"pending", "failed">>, <<"pending", "unknown">>, <<"complete", "expired">>}

Hub(o) ==
  /\ \E step \in Progress : hub[o] = step[1] /\ hub' = [hub EXCEPT ![o] = step[2]]
  /\ UNCHANGED <<host, queue, call, history>>

-----------------------------------------------------------------------------
Preparing(c) ==
  \/ PrepareAgain(c) \/ PrepareNew(c) \/ PrepareRefused(c) \/ PrepareFails(c)
  \/ SaveIntent(c) \/ SaveIntentFails(c) \/ Confirm(c) \/ ConfirmFails(c) \/ RejectIntent(c)

Requesting(c) ==
  \/ CheckBefore(c) \/ Send(c) \/ NotSent(c) \/ Answered(c) \/ AnswerRefused(c) \/ Undispatched(c)
  \/ NoAnswer(c) \/ StreamBreaks(c) \/ Record(c) \/ RecordFails(c)
  \/ CheckAfter(c) \/ Deliver(c) \/ DeliverFails(c)

Inspecting(c) ==
  Inspect(c) \/ InspectFails(c) \/ InspectStored(c) \/ InspectNotStored(c)

Closing(c) ==
  \/ \E how \in {"end", "cancel"} : CloseAppends(c, how) \/ CloseAgain(c, how) \/ CloseBlocked(c, how)
  \/ FenceSaved(c) \/ FenceNotSaved(c) \/ CancelOne(c) \/ CancelFails(c)
  \/ CancelStored(c) \/ CancelNotStored(c) \/ CloseReturns(c)

Step(c) == Preparing(c) \/ Requesting(c) \/ Inspecting(c) \/ Closing(c)

Next ==
  \/ \E c \in Call, r \in Request : Complete(c, r)
  \/ \E c \in Call, how \in {"end", "cancel"} : Close(c, how)
  \/ \E c \in Call : Step(c)
  \/ NextInput \/ HostSaves \/ Crash
  \/ \E o \in Op : Hub(o)

Spec == Init /\ [][Next]_vars

\* Files, the host's storage and the client answer; the queue goes on.
FairSpec == Spec /\ \A c \in Call : WF_vars(Step(c))

-----------------------------------------------------------------------------
(* properties *)

\* Whatever is retried, repeated at once or repeated after a restart, a request
\* is sent as one operation, and that operation can be found again: its marker
\* is saved, no other marker of the request exists, and its record is there.
SentIsTheOriginal ==
  \A o \in sent :
    /\ o \in saved.markers
    /\ sidecar[o] # "none"
    /\ (sent \cup events.markers) \cap Of(o[1]) = {o}

\* An operation that status does not list as open any more has really ended so
\* at the hub, whatever order answers, cancels and inspections come in.
RecordedIsTrue ==
  \A o \in Op :
    /\ sidecar[o] = "completed" => hub[o] \in {"complete", "expired"}
    /\ sidecar[o] = "cancelled" => hub[o] = "cancelled"
    /\ sidecar[o] = "rejected" => hub[o] \in {"none", "lost", "failed"}
    /\ sidecar[o] = "closed_unresolved" => hub[o] = "expired"

\* Once the turn is cancelled or ended, nothing of it is sent and no late result
\* resumes the loop, also after a restart that follows the close.
ClosedStaysClosed ==
  [][fenced \/ closed => sent' = sent /\ resumed' = resumed]_vars

\* Every call returns, although they share a queue, one may fail with others
\* behind it, and some are jobs that record what they hear.
CallsReturn == \A c \in Call : ~ At(c, "idle") ~> At(c, "idle")
=============================================================================
