------------------------ MODULE ModelGatewayProofs ------------------------
(***************************************************************************)
(* Theorems about ModelGateway, for every set of calls and requests and    *)
(* any number of operation ids and restarts.                               *)
(***************************************************************************)
EXTENDS ModelGateway, TLAPS

\* What is known of a call.
CallState == [pc : Place, request : Request \cup {"none"}, op : Op \cup {NoOp},
              state : State \cup {"none"}, heard : Answer \cup {"none"}, todo : SUBSET Op]

\* Jobs that have begun; they are at the head of the queue until they end.
Begun == {"intent", "confirm", "reject", "inspect", "inspected", "fence", "close", "cancelled"}

HeadInv ==
  \A c \in Call : call[c].pc \in Begun => queue # <<>> /\ Head(queue) = c

\* Markers are saved before anything else happens to an operation.
MarkerInv ==
  /\ saved.markers \subseteq events.markers
  /\ sent \subseteq saved.markers
  /\ \A o \in Op : hub[o] # "none" => o \in sent
  /\ \A o \in events.markers : sidecar[o] # "none"
  /\ \A o, p \in events.markers : o[1] = p[1] => o = p

\* What the operation of a call is, by where the call is.
OpInv ==
  \A c \in Call :
    /\ call[c].pc \in {"intent", "confirm", "reject", "check", "send", "wait", "record",
                       "inspect", "inspected", "cancelled", "answer", "deliver"} => call[c].op \in Op
    /\ call[c].pc = "intent" => /\ sidecar[call[c].op] = "none"
                                /\ Markers(call[c].op[1]) = {}
    /\ call[c].pc \in {"confirm", "reject"} => call[c].op \in events.markers
    /\ call[c].pc \in {"check", "send", "wait", "record"} => call[c].op \in saved.markers
    /\ call[c].pc = "record" => call[c].state \in State
    /\ call[c].pc \in {"inspected", "cancelled"} => call[c].heard \in Answer

\* Whether what a record says of an operation is so.
True(o, state) ==
  /\ state = "completed" => hub[o] \in {"complete", "expired"}
  /\ state = "cancelled" => hub[o] = "cancelled"
  /\ state = "rejected" => hub[o] \in {"none", "lost", "failed"}
  /\ state = "closed_unresolved" => hub[o] = "expired"

\* One call brings an operation to its being sent, and until then the hub and
\* everybody else know nothing of it.
SenderInv ==
  \A c \in Call : call[c].pc \in {"intent", "confirm", "check", "send"} =>
    /\ hub[call[c].op] = "none"
    /\ call[c].pc # "intent" => sidecar[call[c].op] = "prepared"
    /\ \A d \in Call \ {c} :
         call[d].pc \in {"intent", "confirm", "reject", "check", "send", "wait", "record"} =>
           call[d].op # call[c].op

\* What a call is about to record is so.
HeardBy(c) ==
  /\ call[c].pc = "reject" => hub[call[c].op] = "none"
  /\ call[c].pc = "record" => True(call[c].op, call[c].state)
  /\ call[c].pc \in {"inspected", "cancelled"} => Known(call[c].op) /\ True(call[c].op, StateOf(call[c].heard))

HeardInv == \A c \in Call : HeardBy(c)

\* A close that returned is on disk, and one that is not on disk is under way or
\* has left a failure behind (provided the host tells of failures to save).
FenceInv ==
  Reports =>
    /\ closed => saved.closed
    /\ saved.closed => events.closed
    /\ (events.closed /\ ~ saved.closed) =>
         unsaved \/ badStore \/ \E c \in Call : call[c].pc = "fence"
    /\ \A c \in Call : call[c].pc = "fence" => events.closed
    /\ \A c \in Call : call[c].pc = "close" => saved.closed
    /\ \A c \in Call : call[c].pc = "cancelled" => saved.closed

\* The inductive invariant.
IInv == TypeOK /\ HeadInv /\ MarkerInv /\ OpInv /\ SenderInv /\ HeardInv /\ RecordedIsTrue /\ FenceInv

USE MaxTriesIsNat, MaxCrashesIsNat, ReportsIsFlag

\* A call that joins the queue leaves its head alone.
LEMMA JoinsBehind ==
  ASSUME NEW q \in Seq(Call), NEW c \in Call, q # <<>>
  PROVE  Append(q, c) # <<>> /\ Head(Append(q, c)) = Head(q)
  OBVIOUS

\* What is recorded of an answer is a state.
LEMMA StateOfAnswer ==
  ASSUME NEW answer \in Answer
  PROVE  StateOf(answer) \in State
  BY DEF StateOf, State, Settled, Answer

\* The hub answers a cancel of an operation that it knows, and changes no other.
LEMMA CancelAnswers ==
  ASSUME hub \in [Op -> Answer \cup {"none", "underway", "lost"}], NEW o \in Op, Cancelling(o)
  PROVE  /\ \A p \in Op : hub[p] # "pending" => hub'[p] = hub[p]
         /\ \A p \in Op : hub[p] = "pending" => hub'[p] \in {"pending", "cancelled"}
         /\ Known(o) => hub'[o] \in Answer
  BY DEF Cancelling, Known, Answer

\* A job that has begun stays at the head of the queue.
LEMMA HeadStep ==
  ASSUME TypeOK, HeadInv, [Next]_vars
  PROVE  HeadInv'
  <1>type. queue \in Seq(Call) /\ call \in [Call -> CallState]
    BY DEF TypeOK, CallState
  <1>join. ASSUME NEW c \in Call, queue # <<>>
           PROVE  Append(queue, c) # <<>> /\ Head(Append(queue, c)) = Head(queue)
    BY <1>type, <1>join, JoinsBehind
  <1> USE DEF HeadInv, Begun, AtHead, At, Goto, Enqueue, Dequeue, Return, Released, Idle, CallState
  <1>1. ASSUME NEW c \in Call, Preparing(c) PROVE HeadInv'
    BY <1>1, <1>type DEF Preparing, PrepareAgain, PrepareNew, PrepareRefused, PrepareFails,
                SaveIntent, SaveIntentFails, Confirm, ConfirmFails, RejectIntent
  <1>2. ASSUME NEW c \in Call, Requesting(c) PROVE HeadInv'
    <2>1. CASE NotSent(c) \/ Answered(c) \/ Undispatched(c) \/ NoAnswer(c) \/ StreamBreaks(c)
      <3>1. /\ queue' = Append(queue, c) /\ call'[c].pc = "record"
            /\ \A d \in Call \ {c} : call'[d] = call[d]
        BY <2>1, <1>type DEF NotSent, Answered, Undispatched, NoAnswer, StreamBreaks, Outcome
      <3> QED
        BY <3>1, <1>join, <1>type
    <2>2. CASE Send(c) \/ AnswerRefused(c) \/ Record(c) \/ RecordFails(c) \/ CheckBefore(c)
               \/ CheckAfter(c) \/ Deliver(c) \/ DeliverFails(c)
      BY <2>2, <1>type DEF Send, AnswerRefused, Record, RecordFails, CheckBefore, CheckAfter, Deliver,
                           DeliverFails
    <2> QED
      BY <1>2, <2>1, <2>2 DEF Requesting
  <1>3. ASSUME NEW c \in Call, Inspecting(c) PROVE HeadInv'
    BY <1>3, <1>type DEF Inspecting, Inspect, InspectFails, Inspected, InspectStored, InspectNotStored
  <1>4. ASSUME NEW c \in Call, Closing(c) PROVE HeadInv'
    <2>1. ASSUME NEW how \in {"end", "cancel"}, CloseAppends(c, how) PROVE HeadInv'
      BY <2>1, <1>type DEF CloseAppends
    <2>4. ASSUME NEW how \in {"end", "cancel"}, CloseAgain(c, how) PROVE HeadInv'
      BY <2>4, <1>type DEF CloseAgain
    <2>5. ASSUME NEW how \in {"end", "cancel"}, CloseBlocked(c, how) PROVE HeadInv'
      BY <2>5, <1>type DEF CloseBlocked
    <2>2. CASE FenceSaved(c) \/ FenceNotSaved(c)
      BY <2>2, <1>type DEF FenceSaved, FenceNotSaved
    <2>6. CASE CancelOne(c)
      BY <2>6, <1>type DEF CancelOne
    <2>3. CASE CancelFails(c) \/ CancelStored(c) \/ CancelNotStored(c) \/ CloseReturns(c)
      BY <2>3, <1>type DEF CancelFails, CancelStored, CancelNotStored, CloseReturns
    <2> QED
      BY <1>4, <2>1, <2>2, <2>3, <2>4, <2>5, <2>6 DEF Closing
  <1>5. ASSUME NEW c \in Call, NEW pc \in {"prepare", "end", "cancel"},
               call'[c].pc = pc, queue' = Append(queue, c), \A d \in Call \ {c} : call'[d] = call[d]
        PROVE  HeadInv'
    BY <1>5, <1>join, <1>type
  <1>6. ASSUME NEW c \in Call, NEW r \in Request, Complete(c, r) PROVE HeadInv'
    BY <1>5, <1>6, <1>type DEF Complete
  <1>7. ASSUME NEW c \in Call, NEW how \in {"end", "cancel"}, Close(c, how) PROVE HeadInv'
    BY <1>5, <1>7, <1>type DEF Close
  <1>8. CASE NextInput \/ HostSaves \/ \E o \in Op : Hub(o)
    BY <1>8 DEF NextInput, HostSaves, Hub
  <1>9. CASE Crash
    BY <1>9 DEF Crash
  <1>10. CASE UNCHANGED vars
    BY <1>10 DEF vars
  <1> QED
    BY <1>1, <1>2, <1>3, <1>4, <1>6, <1>7, <1>8, <1>9, <1>10 DEF Next, Step

\* Markers stay ahead of everything else.
LEMMA MarkerStep ==
  ASSUME TypeOK, HeadInv, MarkerInv, OpInv, [Next]_vars
  PROVE  MarkerInv'
  <1>type. /\ call \in [Call -> CallState] /\ sidecar \in [Op -> State \cup {"none"}]
           /\ events \in Events /\ saved \in Events /\ hub \in [Op -> Answer \cup {"none", "underway", "lost"}]
    BY DEF TypeOK, CallState
  <1> USE DEF MarkerInv, Events
  <1>same. ASSUME UNCHANGED <<events, sidecar, hub, sent>>, saved' \in {saved, events} PROVE MarkerInv'
    BY <1>same
  <1>stored. ASSUME NEW o \in Op, NEW s \in State, UNCHANGED <<events, saved, hub, sent>>,
                    sidecar' \in {sidecar, [sidecar EXCEPT ![o] = s]}
             PROVE  MarkerInv'
    <2>1. \A p \in Op : sidecar[p] # "none" => sidecar'[p] # "none"
      BY <1>stored, <1>type DEF State, Settled
    <2> QED
      BY <1>stored, <1>type, <2>1
  <1>1. ASSUME NEW c \in Call, Preparing(c) PROVE MarkerInv'
    <2>1. CASE PrepareAgain(c) \/ PrepareNew(c) \/ PrepareRefused(c) \/ PrepareFails(c)
               \/ Confirm(c) \/ ConfirmFails(c)
      BY <2>1, <1>same DEF PrepareAgain, PrepareNew, PrepareRefused, PrepareFails, Confirm, ConfirmFails,
                           Durable, NotDurable, Persisted, history
    <2>2. CASE SaveIntent(c)
      BY <2>2, <1>type DEF SaveIntent, Stored, AtHead, At, OpInv, Markers, Of, history, State
    <2>3. CASE SaveIntentFails(c) \/ RejectIntent(c)
      <3>1. call[c].op \in Op
        BY <2>3 DEF SaveIntentFails, RejectIntent, AtHead, At, OpInv
      <3> QED
        BY <2>3, <3>1, <1>stored DEF SaveIntentFails, RejectIntent, Stored, NotStored, history, State, Settled
    <2> QED
      BY <1>1, <2>1, <2>2, <2>3 DEF Preparing
  <1>2. ASSUME NEW c \in Call, Requesting(c) PROVE MarkerInv'
    <2>1. CASE Send(c)
      BY <2>1, <1>type DEF Send, At, OpInv, host
    <2>2. CASE Undispatched(c)
      BY <2>2, <1>type DEF Undispatched, At, OpInv, host, history
    <2>3. CASE Record(c) \/ RecordFails(c)
      <3>1. call[c].op \in Op /\ call[c].state \in State
        BY <2>3 DEF Record, RecordFails, AtHead, At, OpInv
      <3> QED
        BY <2>3, <3>1, <1>stored DEF Record, RecordFails, Stored, NotStored, history
    <2>4. CASE \/ NotSent(c) \/ Answered(c) \/ AnswerRefused(c) \/ NoAnswer(c) \/ StreamBreaks(c)
               \/ CheckBefore(c) \/ CheckAfter(c) \/ Deliver(c) \/ DeliverFails(c)
      BY <2>4, <1>same DEF NotSent, Answered, AnswerRefused, NoAnswer, StreamBreaks, CheckBefore,
                           CheckAfter, Deliver, DeliverFails, host, history
    <2> QED
      BY <1>2, <2>1, <2>2, <2>3, <2>4 DEF Requesting
  <1>3. ASSUME NEW c \in Call, Inspecting(c) PROVE MarkerInv'
    <2>1. CASE Inspect(c) \/ InspectFails(c)
      BY <2>1, <1>same DEF Inspect, InspectFails, host, history
    <2>2. CASE InspectStored(c) \/ InspectNotStored(c)
      <3>1. call[c].op \in Op /\ StateOf(call[c].heard) \in State
        BY <2>2 DEF InspectStored, InspectNotStored, AtHead, At, OpInv, StateOf, State, Settled
      <3> QED
        BY <2>2, <3>1, <1>stored DEF InspectStored, InspectNotStored, Stored, NotStored, history
    <2> QED
      BY <1>3, <2>1, <2>2 DEF Inspecting
  <1>4. ASSUME NEW c \in Call, Closing(c) PROVE MarkerInv'
    <2>1. ASSUME NEW how \in {"end", "cancel"}, CloseAppends(c, how) PROVE MarkerInv'
      BY <2>1, <1>type DEF CloseAppends, history
    <2>2. ASSUME NEW how \in {"end", "cancel"}, CloseAgain(c, how) \/ CloseBlocked(c, how) PROVE MarkerInv'
      BY <2>2, <1>same DEF CloseAgain, CloseBlocked, host, history
    <2>3. CASE FenceSaved(c) \/ FenceNotSaved(c) \/ CloseReturns(c)
      BY <2>3, <1>same DEF FenceSaved, FenceNotSaved, CloseReturns, Durable, NotDurable, Persisted,
                           host, history
    <2>4. ASSUME NEW o \in Op, Cancelling(o), UNCHANGED <<events, saved, sidecar, sent>> PROVE MarkerInv'
      BY <2>4, <1>type DEF Cancelling
    <2>5. CASE CancelOne(c) \/ CancelFails(c)
      <3>1. call[c].todo \subseteq Op
        BY <1>type DEF CallState
      <3> QED
        BY <2>5, <3>1, <2>4, <1>same DEF CancelOne, CancelFails, host, history
    <2>6. CASE CancelStored(c) \/ CancelNotStored(c)
      <3>1. call[c].op \in Op /\ StateOf(call[c].heard) \in State
        BY <2>6 DEF CancelStored, CancelNotStored, AtHead, At, OpInv, StateOf, State, Settled
      <3> QED
        BY <2>6, <3>1, <1>stored DEF CancelStored, CancelNotStored, Stored, NotStored, history
    <2> QED
      BY <1>4, <2>1, <2>2, <2>3, <2>5, <2>6 DEF Closing
  <1>5. ASSUME NEW c \in Call, NEW r \in Request, Complete(c, r) PROVE MarkerInv'
    BY <1>5, <1>same DEF Complete, host, history
  <1>6. ASSUME NEW c \in Call, NEW how \in {"end", "cancel"}, Close(c, how) PROVE MarkerInv'
    BY <1>6, <1>same DEF Close, history
  <1>7. CASE NextInput
    BY <1>7, <1>type DEF NextInput, history
  <1>8. CASE HostSaves \/ UNCHANGED vars
    BY <1>8, <1>same DEF HostSaves, vars, host, history
  <1>9. CASE Crash
    BY <1>9, <1>type DEF Crash
  <1>10. ASSUME NEW o \in Op, Hub(o) PROVE MarkerInv'
    BY <1>10, <1>type DEF Hub, Progress, host, history
  <1> QED
    BY <1>1, <1>2, <1>3, <1>4, <1>5, <1>6, <1>7, <1>8, <1>9, <1>10 DEF Next, Step

\* The operation of a call is the one its marker names.
LEMMA OpStep ==
  ASSUME TypeOK, HeadInv, MarkerInv, OpInv, [Next]_vars
  PROVE  OpInv'
  <1>type. /\ call \in [Call -> CallState] /\ sidecar \in [Op -> State \cup {"none"}]
           /\ events \in Events /\ saved \in Events /\ hub \in [Op -> Answer \cup {"none", "underway", "lost"}]
    BY DEF TypeOK, CallState
  <1> USE DEF OpInv, MarkerInv, HeadInv, Begun, AtHead, At, Goto, Return, Idle, Markers, Of, Events, CallState
  <1>1. ASSUME NEW c \in Call, Preparing(c) PROVE OpInv'
    <2>1. CASE PrepareAgain(c) \/ PrepareNew(c)
      BY <2>1, <1>type DEF PrepareAgain, PrepareNew, Durable, Persisted, Unused, history
    <2>2. CASE PrepareRefused(c) \/ PrepareFails(c) \/ ConfirmFails(c)
      BY <2>2, <1>type DEF PrepareRefused, PrepareFails, ConfirmFails, Durable, NotDurable, Persisted, history
    <2>3. CASE SaveIntent(c)
      BY <2>3, <1>type DEF SaveIntent, Stored, history
    <2>4. CASE Confirm(c)
      BY <2>4, <1>type DEF Confirm, Durable, Persisted, history
    <2>5. CASE SaveIntentFails(c) \/ RejectIntent(c)
      BY <2>5, <1>type DEF SaveIntentFails, RejectIntent, Stored, NotStored, history
    <2> QED
      BY <1>1, <2>1, <2>2, <2>3, <2>4, <2>5 DEF Preparing
  <1>2. ASSUME NEW c \in Call, Requesting(c) PROVE OpInv'
    <2>1. CASE Send(c) \/ AnswerRefused(c) \/ CheckBefore(c) \/ CheckAfter(c) \/ Deliver(c) \/ DeliverFails(c)
      BY <2>1, <1>type DEF Send, AnswerRefused, CheckBefore, CheckAfter, Deliver, DeliverFails, host, history
    <2>2. CASE NotSent(c) \/ Undispatched(c) \/ NoAnswer(c) \/ StreamBreaks(c)
      BY <2>2, <1>type DEF NotSent, Undispatched, NoAnswer, StreamBreaks, Outcome, AfterFrame, State,
                           Settled, host, history
    <2>3. CASE Answered(c)
      <3>1. StateOf(hub[call[c].op]) \in State
        BY <2>3, StateOfAnswer DEF Answered, Known
      <3> QED
        BY <2>3, <3>1, <1>type DEF Answered, Outcome, host, history
    <2>4. CASE Record(c) \/ RecordFails(c)
      BY <2>4, <1>type DEF Record, RecordFails, Stored, NotStored, history
    <2> QED
      BY <1>2, <2>1, <2>2, <2>3, <2>4 DEF Requesting
  <1>3. ASSUME NEW c \in Call, Inspecting(c) PROVE OpInv'
    BY <1>3, <1>type DEF Inspecting, Inspect, InspectFails, Inspected, InspectStored, InspectNotStored,
                Stored, NotStored, Known, host, history
  <1>4. ASSUME NEW c \in Call, Closing(c) PROVE OpInv'
    <2>1. ASSUME NEW how \in {"end", "cancel"}, CloseAppends(c, how) PROVE OpInv'
      BY <2>1, <1>type DEF CloseAppends, history
    <2>2. ASSUME NEW how \in {"end", "cancel"}, CloseAgain(c, how) \/ CloseBlocked(c, how) PROVE OpInv'
      BY <2>2, <1>type DEF CloseAgain, CloseBlocked, host, history
    <2>3. CASE FenceSaved(c) \/ FenceNotSaved(c) \/ CloseReturns(c)
      BY <2>3, <1>type DEF FenceSaved, FenceNotSaved, CloseReturns, Durable, NotDurable, Persisted,
                           host, history
    <2>4. CASE CancelOne(c)
      <3>1. PICK o \in call[c].todo :
              /\ Known(o) /\ Cancelling(o)
              /\ call' = [call EXCEPT ![c].pc = "cancelled", ![c].op = o, ![c].heard = hub'[o]]
        BY <2>4 DEF CancelOne
      <3>2. o \in Op /\ hub'[o] \in Answer
        BY <3>1, <1>type, CancelAnswers
      <3> QED
        BY <2>4, <3>1, <3>2, <1>type DEF CancelOne, host, history
    <2>6. CASE CancelFails(c)
      BY <2>6, <1>type DEF CancelFails, host, history
    <2>5. CASE CancelStored(c) \/ CancelNotStored(c)
      BY <2>5, <1>type DEF CancelStored, CancelNotStored, Stored, NotStored, history
    <2> QED
      BY <1>4, <2>1, <2>2, <2>3, <2>4, <2>5, <2>6 DEF Closing
  <1>5. ASSUME NEW c \in Call, NEW r \in Request, Complete(c, r) PROVE OpInv'
    BY <1>5, <1>type DEF Complete, host, history
  <1>6. ASSUME NEW c \in Call, NEW how \in {"end", "cancel"}, Close(c, how) PROVE OpInv'
    BY <1>6, <1>type DEF Close, history
  <1>same. ASSUME UNCHANGED <<call, sidecar>>, events'.markers = events.markers,
                  saved' \in {saved, events}
           PROVE  OpInv'
    BY <1>same, <1>type
  <1>7. CASE NextInput \/ HostSaves \/ UNCHANGED vars
    <2>1. UNCHANGED <<call, sidecar>> /\ events'.markers = events.markers /\ saved' \in {saved, events}
      BY <1>7, <1>type DEF NextInput, HostSaves, vars, host
    <2> QED
      BY <2>1, <1>same
  <1>8. CASE Crash
    BY <1>8 DEF Crash
  <1>9. ASSUME NEW o \in Op, Hub(o) PROVE OpInv'
    BY <1>9 DEF Hub, host, history
  <1> QED
    BY <1>1, <1>2, <1>3, <1>4, <1>5, <1>6, <1>7, <1>8, <1>9 DEF Next, Step

\* Until an operation is sent, one call has it and nobody else knows of it.
LEMMA SenderStep ==
  ASSUME TypeOK, HeadInv, MarkerInv, OpInv, SenderInv, HeardInv, [Next]_vars
  PROVE  SenderInv'
  <1>type. /\ call \in [Call -> CallState] /\ sidecar \in [Op -> State \cup {"none"}]
           /\ events \in Events /\ saved \in Events /\ hub \in [Op -> Answer \cup {"none", "underway", "lost"}]
    BY DEF TypeOK, CallState
  <1> USE DEF SenderInv, OpInv, MarkerInv, HeadInv, Begun, AtHead, At, Goto, Return, Idle, CallState
  <1>1. ASSUME NEW c \in Call, Preparing(c) PROVE SenderInv'
    <2>1. CASE PrepareNew(c)
      BY <2>1, <1>type DEF PrepareNew, Durable, Unused, Markers, Of, history
    <2>2. CASE PrepareAgain(c) \/ PrepareRefused(c) \/ PrepareFails(c) \/ ConfirmFails(c)
      BY <2>2, <1>type DEF PrepareAgain, PrepareRefused, PrepareFails, ConfirmFails, Durable,
                           NotDurable, history
    <2>3. CASE SaveIntent(c)
      BY <2>3, <1>type DEF SaveIntent, Stored, history
    <2>4. CASE Confirm(c)
      BY <2>4, <1>type DEF Confirm, Durable, history
    <2>5. CASE SaveIntentFails(c)
      BY <2>5, <1>type DEF SaveIntentFails, NotStored, history
    <2>6. CASE RejectIntent(c)
      BY <2>6, <1>type DEF RejectIntent, Stored, NotStored, history
    <2> QED
      BY <1>1, <2>1, <2>2, <2>3, <2>4, <2>5, <2>6 DEF Preparing
  <1>2. ASSUME NEW c \in Call, Requesting(c) PROVE SenderInv'
    <2>1. CASE Send(c)
      BY <2>1, <1>type DEF Send, host
    <2>2. CASE AnswerRefused(c) \/ CheckBefore(c) \/ CheckAfter(c) \/ Deliver(c) \/ DeliverFails(c)
      BY <2>2, <1>type DEF AnswerRefused, CheckBefore, CheckAfter, Deliver, DeliverFails, host, history
    <2>3. CASE NotSent(c) \/ NoAnswer(c) \/ StreamBreaks(c) \/ Answered(c)
      BY <2>3, <1>type DEF NotSent, NoAnswer, StreamBreaks, Answered, Outcome, host, history
    <2>4. CASE Undispatched(c)
      BY <2>4, <1>type DEF Undispatched, Outcome, host, history
    <2>5. CASE Record(c) \/ RecordFails(c)
      BY <2>5, <1>type DEF Record, RecordFails, Stored, NotStored, history
    <2> QED
      BY <1>2, <2>1, <2>2, <2>3, <2>4, <2>5 DEF Requesting
  <1>3. ASSUME NEW c \in Call, Inspecting(c) PROVE SenderInv'
    <2>1. CASE Inspect(c) \/ InspectFails(c)
      BY <2>1, <1>type DEF Inspect, InspectFails, host, history
    <2>2. CASE InspectStored(c) \/ InspectNotStored(c)
      BY <2>2, <1>type DEF InspectStored, InspectNotStored, Inspected, Stored, NotStored, HeardInv,
                           HeardBy, Known, Answer, history
    <2> QED
      BY <1>3, <2>1, <2>2 DEF Inspecting
  <1>4. ASSUME NEW c \in Call, Closing(c) PROVE SenderInv'
    <2>1. ASSUME NEW how \in {"end", "cancel"}, CloseAppends(c, how) PROVE SenderInv'
      BY <2>1, <1>type DEF CloseAppends, history
    <2>2. ASSUME NEW how \in {"end", "cancel"}, CloseAgain(c, how) \/ CloseBlocked(c, how) PROVE SenderInv'
      BY <2>2, <1>type DEF CloseAgain, CloseBlocked, host, history
    <2>3. CASE FenceSaved(c) \/ FenceNotSaved(c) \/ CloseReturns(c)
      BY <2>3, <1>type DEF FenceSaved, FenceNotSaved, CloseReturns, Durable, NotDurable, host, history
    <2>cancel. ASSUME NEW o \in call[c].todo, Cancelling(o), NEW p \in Op, hub[p] = "none" PROVE hub'[p] = "none"
      BY <2>cancel, <1>type, CancelAnswers
    <2>4. CASE CancelOne(c)
      BY <2>4, <2>cancel, <1>type DEF CancelOne, host, history
    <2>5. CASE CancelFails(c)
      BY <2>5, <2>cancel, <1>type DEF CancelFails, host, history
    <2>6. CASE CancelStored(c) \/ CancelNotStored(c)
      <3>1. call[c].op \in Op /\ hub[call[c].op] # "none"
        BY <2>6 DEF CancelStored, CancelNotStored, HeardInv, HeardBy, Known, Answer
      <3> QED
        BY <2>6, <3>1, <1>type DEF CancelStored, CancelNotStored, Stored, NotStored, history
    <2> QED
      BY <1>4, <2>1, <2>2, <2>3, <2>4, <2>5, <2>6 DEF Closing
  <1>5. ASSUME NEW c \in Call, NEW r \in Request, Complete(c, r) PROVE SenderInv'
    BY <1>5, <1>type DEF Complete, host, history
  <1>6. ASSUME NEW c \in Call, NEW how \in {"end", "cancel"}, Close(c, how) PROVE SenderInv'
    BY <1>6, <1>type DEF Close, history
  <1>7. CASE NextInput \/ HostSaves \/ UNCHANGED vars
    <2>1. UNCHANGED <<call, sidecar, hub>>
      BY <1>7 DEF NextInput, HostSaves, vars, host, history
    <2> QED
      BY <2>1
  <1>8. CASE Crash
    BY <1>8 DEF Crash
  <1>9. ASSUME NEW o \in Op, Hub(o) PROVE SenderInv'
    BY <1>9, <1>type DEF Hub, Progress, host, history
  <1> QED
    BY <1>1, <1>2, <1>3, <1>4, <1>5, <1>6, <1>7, <1>8, <1>9 DEF Next, Step

\* What a record says stays so while the operation goes on.
LEMMA HubMoves ==
  ASSUME hub \in [Op -> Answer \cup {"none", "underway", "lost"}],
         NEW o \in Op, NEW state \in State, True(o, state),
         \/ hub'[o] = hub[o]
         \/ <<hub[o], hub'[o]>> \in Progress
         \/ hub[o] = "pending" /\ hub'[o] = "cancelled"
         \/ hub[o] = "underway" /\ hub'[o] = "lost"
  PROVE  True(o, state)' /\ (Known(o) => Known(o)')
  BY DEF True, Progress, Known, Answer

\* The record of an answer says what the hub said.
LEMMA AnswerIsTrue ==
  ASSUME NEW o \in Op, Known(o)
  PROVE  True(o, StateOf(hub[o]))
  BY DEF True, StateOf, Known, Answer

\* How an operation gets on in a step.
LEMMA HubStep ==
  ASSUME TypeOK, MarkerInv, OpInv, SenderInv, [Next]_vars
  PROVE  \A o \in Op :
           \/ hub'[o] = hub[o]
           \/ <<hub[o], hub'[o]>> \in Progress
           \/ hub[o] = "pending" /\ hub'[o] = "cancelled"
           \/ hub[o] = "underway" /\ hub'[o] = "lost"
           \/ hub'[o] = "underway" /\ \E c \in Call : Send(c) /\ call[c].op = o
  <1>type. /\ call \in [Call -> CallState] /\ hub \in [Op -> Answer \cup {"none", "underway", "lost"}]
    BY DEF TypeOK, CallState
  <1>1. CASE UNCHANGED hub
    BY <1>1
  <1>2. ASSUME NEW c \in Call, Send(c) PROVE \A o \in Op : o # call[c].op => hub'[o] = hub[o]
    BY <1>2, <1>type DEF Send
  <1>3. ASSUME NEW c \in Call, Send(c) PROVE hub'[call[c].op] = "underway"
    BY <1>3, <1>type DEF Send, At, OpInv
  <1>4. ASSUME NEW c \in Call, Undispatched(c)
        PROVE  hub[call[c].op] = "underway" /\ \A o \in Op : hub'[o] = IF o = call[c].op THEN "lost" ELSE hub[o]
    BY <1>4, <1>type DEF Undispatched, At, OpInv
  <1>5. ASSUME NEW c \in Call, CancelOne(c) \/ CancelFails(c)
        PROVE  \A o \in Op : hub'[o] = hub[o] \/ (hub[o] = "pending" /\ hub'[o] = "cancelled")
    <2>1. UNCHANGED hub \/ \E o \in call[c].todo : Cancelling(o)
      BY <1>5 DEF CancelOne, CancelFails
    <2>2. call[c].todo \subseteq Op
      BY <1>type DEF CallState
    <2>3. ASSUME NEW o \in Op, Cancelling(o), NEW p \in Op
          PROVE  hub'[p] = hub[p] \/ (hub[p] = "pending" /\ hub'[p] = "cancelled")
      <3>1. /\ hub[p] # "pending" => hub'[p] = hub[p]
            /\ hub[p] = "pending" => hub'[p] \in {"pending", "cancelled"}
        BY <2>3, <1>type, CancelAnswers
      <3> QED
        BY <3>1
    <2>4. CASE UNCHANGED hub
      BY <2>4
    <2>5. CASE \E o \in call[c].todo : Cancelling(o)
      BY <2>5, <2>2, <2>3
    <2> QED
      BY <2>1, <2>4, <2>5
  <1>6. ASSUME NEW o \in Op, Hub(o)
        PROVE  \A p \in Op : hub'[p] = hub[p] \/ <<hub[p], hub'[p]>> \in Progress
    BY <1>6, <1>type DEF Hub, Progress
  <1>7. \/ UNCHANGED hub
        \/ \E c \in Call : Send(c) \/ Undispatched(c) \/ CancelOne(c) \/ CancelFails(c)
        \/ \E o \in Op : Hub(o)
    <2>1. ASSUME NEW c \in Call, Preparing(c) PROVE UNCHANGED hub
      BY <2>1 DEF Preparing, PrepareAgain, PrepareNew, PrepareRefused, PrepareFails, SaveIntent,
                  SaveIntentFails,
                  Confirm, ConfirmFails, RejectIntent
    <2>2. ASSUME NEW c \in Call, Requesting(c) PROVE UNCHANGED hub \/ Send(c) \/ Undispatched(c)
      BY <2>2 DEF Requesting, NotSent, Answered, AnswerRefused, NoAnswer, StreamBreaks, Record,
                  RecordFails, CheckBefore, CheckAfter, Deliver, DeliverFails
    <2>3. ASSUME NEW c \in Call, Inspecting(c) PROVE UNCHANGED hub
      BY <2>3 DEF Inspecting, Inspect, InspectFails, InspectStored, InspectNotStored
    <2>4. ASSUME NEW c \in Call, Closing(c) PROVE UNCHANGED hub \/ CancelOne(c) \/ CancelFails(c)
      BY <2>4 DEF Closing, CloseAppends, CloseAgain, CloseBlocked, FenceSaved, FenceNotSaved,
                  CancelStored, CancelNotStored, CloseReturns
    <2> QED
      BY <2>1, <2>2, <2>3, <2>4 DEF Next, Step, Complete, Close, NextInput, HostSaves, Crash, vars
  <1> QED
    BY <1>1, <1>2, <1>3, <1>4, <1>5, <1>6, <1>7

\* What a call is about to record is so.
LEMMA HeardStep ==
  ASSUME TypeOK, HeadInv, MarkerInv, OpInv, SenderInv, HeardInv, [Next]_vars
  PROVE  HeardInv'
  <1>type. /\ call \in [Call -> CallState] /\ hub \in [Op -> Answer \cup {"none", "underway", "lost"}]
    BY DEF TypeOK, CallState
  <1>hub. ASSUME NEW o \in Op, \A c \in Call : Send(c) => call[c].op # o
          PROVE  /\ \A state \in State : True(o, state) => True(o, state)'
                 /\ Known(o) => Known(o)'
                 /\ hub[o] = "none" => hub'[o] = "none"
    <2>1. \/ hub'[o] = hub[o]
          \/ <<hub[o], hub'[o]>> \in Progress
          \/ hub[o] = "pending" /\ hub'[o] = "cancelled"
          \/ hub[o] = "underway" /\ hub'[o] = "lost"
      BY <1>hub, HubStep
    <2>2. ASSUME NEW state \in State, True(o, state) PROVE True(o, state)'
      BY <2>1, <2>2, <1>type, HubMoves
    <2>3. Known(o) => Known(o)'
      BY <2>1, <1>type DEF Known, Answer, Progress
    <2>4. hub[o] = "none" => hub'[o] = "none"
      BY <2>1 DEF Progress
    <2> QED
      BY <2>2, <2>3, <2>4
  <1>still. ASSUME NEW d \in Call, call'[d] = call[d] PROVE HeardBy(d)'
    <2>1. CASE call[d].pc \in {"reject", "record", "inspected", "cancelled"}
      <3>1. call[d].op \in Op /\ HeardBy(d)
        BY <2>1 DEF OpInv, HeardInv
      <3>2. ASSUME NEW c \in Call, Send(c) PROVE call[c].op # call[d].op
        <4>1. call[c].pc = "send" /\ c # d
          BY <2>1, <3>2 DEF Send, At
        <4>2. hub[call[c].op] = "none"
          BY <4>1 DEF SenderInv
        <4>3. CASE call[d].pc \in {"reject", "record"}
          BY <4>1, <4>3 DEF SenderInv
        <4>4. CASE call[d].pc \in {"inspected", "cancelled"}
          BY <4>2, <4>4, <3>1 DEF HeardBy, Known, Answer
        <4> QED
          BY <2>1, <4>3, <4>4
      <3>3. call[d].pc = "record" => call[d].state \in State
        BY DEF OpInv
      <3>4. call[d].pc \in {"inspected", "cancelled"} => StateOf(call[d].heard) \in State
        BY StateOfAnswer DEF OpInv
      <3> QED
        BY <1>still, <3>1, <3>2, <3>3, <3>4, <1>hub DEF HeardBy
    <2>2. CASE call[d].pc \notin {"reject", "record", "inspected", "cancelled"}
      BY <1>still, <2>2 DEF HeardBy
    <2> QED
      BY <2>1, <2>2
  <1>others. ASSUME NEW c \in Call, \A d \in Call \ {c} : call'[d] = call[d], HeardBy(c)' PROVE HeardInv'
    BY <1>others, <1>still DEF HeardInv
  <1> USE DEF AtHead, At, Goto, Return, Idle, CallState
  <1>1. ASSUME NEW c \in Call, Preparing(c) PROVE HeardInv'
    <2>1. \A d \in Call \ {c} : call'[d] = call[d]
      BY <1>1, <1>type DEF Preparing, PrepareAgain, PrepareNew, PrepareRefused, PrepareFails, SaveIntent,
                           SaveIntentFails, Confirm, ConfirmFails, RejectIntent
    <2>2. CASE Confirm(c)
      <3>1. hub[call[c].op] = "none"
        BY <2>2 DEF Confirm, SenderInv
      <3>2. UNCHANGED hub /\ call'[c].op = call[c].op /\ call'[c].pc \in {"reject", "check", "send"}
        BY <2>2, <1>type DEF Confirm, history
      <3> QED
        BY <2>1, <3>1, <3>2, <1>others DEF HeardBy
    <2>3. CASE ~ Confirm(c)
      <3>1. call'[c].pc \in {"idle", "inspect", "intent", "confirm"}
        BY <1>1, <2>3, <1>type DEF Preparing, PrepareAgain, PrepareNew, PrepareRefused, PrepareFails,
                                   SaveIntent,
                           SaveIntentFails, ConfirmFails, RejectIntent
      <3> QED
        BY <2>1, <3>1, <1>others DEF HeardBy
    <2> QED
      BY <2>2, <2>3
  <1>2. ASSUME NEW c \in Call, Requesting(c) PROVE HeardInv'
    <2>1. \A d \in Call \ {c} : call'[d] = call[d]
      BY <1>2, <1>type DEF Requesting, Send, NotSent, Answered, AnswerRefused, Undispatched, NoAnswer,
                           StreamBreaks, Record, RecordFails, CheckBefore, CheckAfter, Deliver, DeliverFails, Outcome
    <2>2. CASE Answered(c)
      <3>1. call[c].op \in Op /\ Known(call[c].op)
        BY <2>2 DEF Answered, OpInv
      <3>2. True(call[c].op, StateOf(hub[call[c].op]))
        BY <3>1, AnswerIsTrue
      <3> QED
        BY <2>1, <2>2, <3>2, <1>type, <1>others DEF Answered, Outcome, HeardBy, True, host, history
    <2>3. CASE NotSent(c)
      BY <2>1, <2>3, <1>type, <1>others DEF NotSent, Outcome, HeardBy, True, SenderInv, host, history
    <2>4. CASE Undispatched(c)
      BY <2>1, <2>4, <1>type, <1>others DEF Undispatched, Outcome, HeardBy, True, OpInv, host, history
    <2>5. CASE NoAnswer(c) \/ StreamBreaks(c)
      BY <2>1, <2>5, <1>type, <1>others DEF NoAnswer, StreamBreaks, AfterFrame, Outcome, HeardBy, True,
                                            host, history
    <2>6. CASE Send(c) \/ AnswerRefused(c) \/ Record(c) \/ RecordFails(c) \/ CheckBefore(c)
               \/ CheckAfter(c) \/ Deliver(c) \/ DeliverFails(c)
      <3>1. call'[c].pc \in {"send", "wait", "idle", "answer", "deliver"}
        BY <2>6, <1>type DEF Send, AnswerRefused, Record, RecordFails, CheckBefore, CheckAfter,
                             Deliver, DeliverFails
      <3> QED
        BY <2>1, <3>1, <1>others DEF HeardBy
    <2> QED
      BY <1>2, <2>2, <2>3, <2>4, <2>5, <2>6 DEF Requesting
  <1>3. ASSUME NEW c \in Call, Inspecting(c) PROVE HeardInv'
    <2>1. \A d \in Call \ {c} : call'[d] = call[d]
      BY <1>3, <1>type DEF Inspecting, Inspect, InspectFails, Inspected, InspectStored, InspectNotStored
    <2>2. CASE Inspect(c)
      <3>1. call[c].op \in Op /\ Known(call[c].op)
        BY <2>2 DEF Inspect, OpInv
      <3>2. True(call[c].op, StateOf(hub[call[c].op]))
        BY <3>1, AnswerIsTrue
      <3> QED
        BY <2>1, <2>2, <3>1, <3>2, <1>type, <1>others DEF Inspect, HeardBy, True, Known, host, history
    <2>3. CASE InspectFails(c) \/ InspectStored(c) \/ InspectNotStored(c)
      <3>1. call'[c].pc \in {"idle", "answer"}
        BY <2>3, <1>type DEF InspectFails, Inspected, InspectStored, InspectNotStored
      <3> QED
        BY <2>1, <3>1, <1>others DEF HeardBy
    <2> QED
      BY <1>3, <2>2, <2>3 DEF Inspecting
  <1>4. ASSUME NEW c \in Call, Closing(c) PROVE HeardInv'
    <2>1. CASE CancelOne(c)
      <3>1. PICK o \in call[c].todo :
              /\ Known(o) /\ Cancelling(o)
              /\ call' = [call EXCEPT ![c].pc = "cancelled", ![c].op = o, ![c].heard = hub'[o]]
        BY <2>1 DEF CancelOne
      <3>2. o \in Op
        BY <3>1, <1>type
      <3>3. Known(o)' /\ hub'[o] \in Answer
        BY <3>1, <3>2, <1>type, CancelAnswers DEF Known
      <3>4. True(o, StateOf(hub[o]))'
        BY <3>2, <3>3, AnswerIsTrue DEF True, StateOf, Known, Answer
      <3> QED
        BY <3>1, <3>2, <3>3, <3>4, <1>type, <1>others DEF HeardBy, True, Known
    <2>2. CASE ~ CancelOne(c)
      <3>1. (\A d \in Call \ {c} : call'[d] = call[d]) /\ call'[c].pc \in {"idle", "fence", "close"}
        BY <1>4, <2>2, <1>type DEF Closing, CloseAppends, CloseAgain, CloseBlocked, FenceSaved, FenceNotSaved,
                                   CancelFails, CancelStored, CancelNotStored, CloseReturns
      <3> QED
        BY <3>1, <1>others DEF HeardBy
    <2> QED
      BY <2>1, <2>2
  <1>5. ASSUME NEW c \in Call, NEW r \in Request, Complete(c, r) PROVE HeardInv'
    BY <1>5, <1>type, <1>others DEF Complete, HeardBy
  <1>6. ASSUME NEW c \in Call, NEW how \in {"end", "cancel"}, Close(c, how) PROVE HeardInv'
    BY <1>6, <1>type, <1>others DEF Close, HeardBy
  <1>7. CASE NextInput \/ HostSaves \/ (\E o \in Op : Hub(o)) \/ UNCHANGED vars
    <2>1. UNCHANGED call
      BY <1>7 DEF NextInput, HostSaves, Hub, vars
    <2> QED
      BY <2>1, <1>still DEF HeardInv
  <1>8. CASE Crash
    BY <1>8 DEF Crash, HeardInv, HeardBy
  <1> QED
    BY <1>1, <1>2, <1>3, <1>4, <1>5, <1>6, <1>7, <1>8 DEF Next, Step

\* Who writes a record, and what.
Writes(c, state) ==
  /\ call[c].op \in Op /\ UNCHANGED hub
  /\ \A o \in Op : sidecar'[o] = sidecar[o] \/ (o = call[c].op /\ sidecar'[o] = state)
  /\ \/ call[c].pc = "intent" /\ state = "prepared"
     \/ call[c].pc = "reject" /\ state = "rejected"
     \/ call[c].pc = "record" /\ state = call[c].state
     \/ call[c].pc \in {"inspected", "cancelled"} /\ state = StateOf(call[c].heard)

\* Records change only by what a job of the queue writes.
LEMMA SidecarStep ==
  ASSUME TypeOK, OpInv, [Next]_vars
  PROVE  UNCHANGED sidecar \/ \E c \in Call, state \in State : Writes(c, state)
  <1>type. sidecar \in [Op -> State \cup {"none"}]
    BY DEF TypeOK
  <1>1. ASSUME NEW c \in Call, NEW state \in State, call[c].op \in Op, UNCHANGED hub,
               Stored(call[c].op, state) \/ NotStored(call[c].op, state),
               \/ call[c].pc = "intent" /\ state = "prepared"
               \/ call[c].pc = "reject" /\ state = "rejected"
               \/ call[c].pc = "record" /\ state = call[c].state
               \/ call[c].pc \in {"inspected", "cancelled"} /\ state = StateOf(call[c].heard)
        PROVE  Writes(c, state)
    BY <1>1, <1>type DEF Writes, Stored, NotStored
  <1>2. ASSUME NEW c \in Call, SaveIntent(c) \/ SaveIntentFails(c) PROVE Writes(c, "prepared")
    BY <1>1, <1>2 DEF SaveIntent, SaveIntentFails, AtHead, At, OpInv, State
  <1>3. ASSUME NEW c \in Call, RejectIntent(c) PROVE Writes(c, "rejected")
    BY <1>1, <1>3 DEF RejectIntent, AtHead, At, OpInv, State, Settled
  <1>4. ASSUME NEW c \in Call, Record(c) \/ RecordFails(c)
        PROVE  UNCHANGED sidecar \/ (call[c].state \in State /\ Writes(c, call[c].state))
    BY <1>1, <1>4 DEF Record, RecordFails, AtHead, At, OpInv
  <1>5. ASSUME NEW c \in Call, InspectStored(c) \/ InspectNotStored(c) \/ CancelStored(c) \/ CancelNotStored(c)
        PROVE  StateOf(call[c].heard) \in State /\ Writes(c, StateOf(call[c].heard))
    <2>1. call[c].op \in Op /\ call[c].heard \in Answer /\ call[c].pc \in {"inspected", "cancelled"}
      BY <1>5 DEF InspectStored, InspectNotStored, CancelStored, CancelNotStored, AtHead, At, OpInv
    <2>2. StateOf(call[c].heard) \in State
      BY <2>1, StateOfAnswer
    <2> QED
      BY <1>1, <1>5, <2>1, <2>2 DEF InspectStored, InspectNotStored, CancelStored, CancelNotStored, history
  <1>6. "prepared" \in State /\ "rejected" \in State
    BY DEF State, Settled
  <1>7. ASSUME NEW c \in Call, Preparing(c)
        PROVE  UNCHANGED sidecar \/ SaveIntent(c) \/ SaveIntentFails(c) \/ RejectIntent(c)
    BY <1>7 DEF Preparing, PrepareAgain, PrepareNew, PrepareRefused, PrepareFails, Confirm,
                ConfirmFails, Durable, NotDurable
  <1>8. ASSUME NEW c \in Call, Requesting(c) PROVE UNCHANGED sidecar \/ Record(c) \/ RecordFails(c)
    BY <1>8 DEF Requesting, Send, NotSent, Answered, AnswerRefused, Undispatched, NoAnswer,
                StreamBreaks, CheckBefore, CheckAfter, Deliver, DeliverFails, host
  <1>9. ASSUME NEW c \in Call, Inspecting(c) PROVE UNCHANGED sidecar \/ InspectStored(c) \/ InspectNotStored(c)
    BY <1>9 DEF Inspecting, Inspect, InspectFails, host
  <1>10. ASSUME NEW c \in Call, Closing(c) PROVE UNCHANGED sidecar \/ CancelStored(c) \/ CancelNotStored(c)
    BY <1>10 DEF Closing, CloseAppends, CloseAgain, CloseBlocked, FenceSaved, FenceNotSaved, CancelOne,
                 CancelFails, CloseReturns, Durable, NotDurable, host
  <1>11. ASSUME NEW c \in Call, Step(c) PROVE UNCHANGED sidecar \/ \E state \in State : Writes(c, state)
    BY <1>11, <1>2, <1>3, <1>4, <1>5, <1>6, <1>7, <1>8, <1>9, <1>10 DEF Step
  <1> QED
    BY <1>11 DEF Next, Complete, Close, NextInput, HostSaves, Crash, Hub, vars, host

\* What is recorded as over is over.
LEMMA RecordedStep ==
  ASSUME TypeOK, MarkerInv, OpInv, SenderInv, HeardInv, RecordedIsTrue, [Next]_vars
  PROVE  RecordedIsTrue'
  <1>type. /\ call \in [Call -> CallState] /\ hub \in [Op -> Answer \cup {"none", "underway", "lost"}]
           /\ sidecar \in [Op -> State \cup {"none"}]
    BY DEF TypeOK, CallState
  <1>1. ASSUME NEW o \in Op, sidecar'[o] = sidecar[o] PROVE True(o, sidecar[o])'
    <2>1. CASE \E c \in Call : Send(c) /\ call[c].op = o
      <3>1. sidecar[o] = "prepared"
        BY <2>1 DEF Send, At, SenderInv
      <3> QED
        BY <1>1, <3>1 DEF True
    <2>2. CASE ~ \E c \in Call : Send(c) /\ call[c].op = o
      <3>1. \/ hub'[o] = hub[o]
            \/ <<hub[o], hub'[o]>> \in Progress
            \/ hub[o] = "pending" /\ hub'[o] = "cancelled"
            \/ hub[o] = "underway" /\ hub'[o] = "lost"
        BY <2>2, HubStep
      <3>2. True(o, sidecar[o])
        BY DEF RecordedIsTrue, True
      <3> QED
        BY <1>1, <3>1, <3>2, <1>type DEF True, Progress
    <2> QED
      BY <2>1, <2>2
  <1>2. ASSUME NEW c \in Call, NEW state \in State, Writes(c, state), NEW o \in Op,
               o = call[c].op, sidecar'[o] = state
        PROVE  True(o, sidecar[o])'
    <2>1. True(o, state)
      BY <1>2 DEF Writes, HeardInv, HeardBy, True
    <2> QED
      BY <1>2, <2>1 DEF Writes, True
  <1>3. \A o \in Op : True(o, sidecar[o])'
    BY <1>1, <1>2, SidecarStep DEF Writes
  <1> QED
    BY <1>3 DEF True, RecordedIsTrue

\* The end of a turn is on disk, or still on its way there.
LEMMA FenceStep ==
  ASSUME TypeOK, HeadInv, FenceInv, [Next]_vars, Reports
  PROVE  FenceInv'
  <1>type. call \in [Call -> CallState] /\ events \in Events /\ saved \in Events
    BY DEF TypeOK, CallState
  <1> USE DEF FenceInv, HeadInv, Begun, AtHead, At, Goto, Return, Idle, CallState, Events
  <1>1. ASSUME NEW c \in Call, Preparing(c) PROVE FenceInv'
    <2>1. CASE SaveIntent(c) \/ SaveIntentFails(c) \/ RejectIntent(c)
      BY <2>1, <1>type DEF SaveIntent, SaveIntentFails, RejectIntent, Stored, NotStored, history
    <2>2. CASE PrepareAgain(c) \/ PrepareNew(c) \/ PrepareRefused(c)
      BY <2>2, <1>type DEF PrepareAgain, PrepareNew, PrepareRefused, Durable, Persisted, history
    <2>3. CASE Confirm(c)
      BY <2>3, <1>type DEF Confirm, Durable, Persisted, history
    <2>4. CASE PrepareFails(c) \/ ConfirmFails(c)
      BY <2>4, <1>type DEF PrepareFails, ConfirmFails, NotDurable, Primary, history
    <2> QED
      BY <1>1, <2>1, <2>2, <2>3, <2>4 DEF Preparing
  <1>2. ASSUME NEW c \in Call, Requesting(c) PROVE FenceInv'
    <2>1. CASE Record(c) \/ RecordFails(c)
      BY <2>1, <1>type DEF Record, RecordFails, Stored, NotStored, history
    <2>2. CASE \/ Send(c) \/ AnswerRefused(c) \/ CheckBefore(c) \/ CheckAfter(c) \/ Deliver(c)
               \/ DeliverFails(c)
      BY <2>2, <1>type DEF Send, AnswerRefused, CheckBefore, CheckAfter, Deliver, DeliverFails, host, history
    <2>3. CASE NotSent(c) \/ Answered(c) \/ Undispatched(c) \/ NoAnswer(c) \/ StreamBreaks(c)
      <3>1. /\ UNCHANGED <<events, saved, unsaved, badStore, closed>> /\ call[c].pc \in {"check", "send", "wait"}
            /\ call'[c].pc = "record" /\ \A d \in Call \ {c} : call'[d] = call[d]
        BY <2>3, <1>type DEF NotSent, Answered, Undispatched, NoAnswer, StreamBreaks, Outcome, host, history
      <3> QED
        BY <3>1
    <2> QED
      BY <1>2, <2>1, <2>2, <2>3 DEF Requesting
  <1>3. ASSUME NEW c \in Call, Inspecting(c) PROVE FenceInv'
    BY <1>3, <1>type DEF Inspecting, Inspect, InspectFails, Inspected, InspectStored, InspectNotStored,
                Stored, NotStored, host, history
  <1>4. ASSUME NEW c \in Call, Closing(c) PROVE FenceInv'
    <2>1. ASSUME NEW how \in {"end", "cancel"}, CloseAppends(c, how) PROVE FenceInv'
      BY <2>1, <1>type DEF CloseAppends, history
    <2>2. ASSUME NEW how \in {"end", "cancel"}, CloseAgain(c, how) PROVE FenceInv'
      BY <2>2, <1>type DEF CloseAgain, Primary, host, history
    <2>3. ASSUME NEW how \in {"end", "cancel"}, CloseBlocked(c, how) PROVE FenceInv'
      BY <2>3, <1>type DEF CloseBlocked, host, history
    <2>4. CASE FenceSaved(c)
      <3>1. /\ saved' = events /\ UNCHANGED <<events, closed>> /\ events.closed
            /\ call' = [call EXCEPT ![c].pc = "close"]
        BY <2>4 DEF FenceSaved, Durable, Persisted, history
      <3>2. saved'.closed /\ events'.closed
        BY <3>1
      <3>3. \A d \in Call : call'[d].pc = "fence" => call[d].pc = "fence"
        BY <3>1, <1>type
      <3> QED
        BY <3>1, <3>2, <3>3
    <2>5. CASE FenceNotSaved(c)
      BY <2>5, <1>type DEF FenceNotSaved, NotDurable, Primary, history
    <2>6. CASE CancelOne(c) \/ CancelFails(c) \/ CloseReturns(c)
      BY <2>6, <1>type DEF CancelOne, CancelFails, CloseReturns, host, history
    <2>7. CASE CancelStored(c) \/ CancelNotStored(c)
      BY <2>7, <1>type DEF CancelStored, CancelNotStored, Stored, NotStored, history
    <2> QED
      BY <1>4, <2>1, <2>2, <2>3, <2>4, <2>5, <2>6, <2>7 DEF Closing
  <1>5. ASSUME NEW c \in Call, NEW r \in Request, Complete(c, r) PROVE FenceInv'
    BY <1>5, <1>type DEF Complete, host, history
  <1>6. ASSUME NEW c \in Call, NEW how \in {"end", "cancel"}, Close(c, how) PROVE FenceInv'
    BY <1>6, <1>type DEF Close, history
  <1>7. CASE NextInput
    BY <1>7, <1>type DEF NextInput, history
  <1>8. CASE HostSaves
    BY <1>8, <1>type DEF HostSaves, history
  <1>9. CASE Crash
    BY <1>9, <1>type DEF Crash
  <1>10. CASE (\E o \in Op : Hub(o)) \/ UNCHANGED vars
    BY <1>10 DEF Hub, vars, host, history
  <1> QED
    BY <1>1, <1>2, <1>3, <1>4, <1>5, <1>6, <1>7, <1>8, <1>9, <1>10 DEF Next, Step

\* Every step keeps the types.
LEMMA TypeStep ==
  ASSUME TypeOK, OpInv, [Next]_vars
  PROVE  TypeOK'
  <1>type. /\ events \in Events /\ saved \in Events
           /\ unsaved \in BOOLEAN /\ fenced \in BOOLEAN /\ badStore \in BOOLEAN
           /\ sidecar \in [Op -> State \cup {"none"}]
           /\ queue \in Seq(Call) /\ call \in [Call -> CallState]
           /\ hub \in [Op -> Answer \cup {"none", "underway", "lost"}]
           /\ sent \subseteq Op /\ resumed \subseteq Op
           /\ closed \in BOOLEAN /\ crashes \in 0..MaxCrashes
    BY DEF TypeOK, CallState
  <1>done. ASSUME events' \in Events, saved' \in Events,
                  unsaved' \in BOOLEAN, fenced' \in BOOLEAN, badStore' \in BOOLEAN,
                  sidecar' \in [Op -> State \cup {"none"}],
                  queue' \in Seq(Call), call' \in [Call -> CallState],
                  hub' \in [Op -> Answer \cup {"none", "underway", "lost"}],
                  sent' \subseteq Op, resumed' \subseteq Op,
                  closed' \in BOOLEAN, crashes' \in 0..MaxCrashes
           PROVE  TypeOK'
    BY <1>done DEF TypeOK, CallState
  <1>moved. ASSUME NEW c \in Call, NEW s \in CallState, call' = [call EXCEPT ![c] = s]
            PROVE  call' \in [Call -> CallState]
    BY <1>moved, <1>type
  <1>goto. ASSUME NEW c \in Call, NEW pc \in Place, Goto(c, pc) PROVE call' \in [Call -> CallState]
    BY <1>goto, <1>type DEF Goto, CallState
  <1>queue. ASSUME NEW c \in Call
            PROVE  /\ Append(queue, c) \in Seq(Call) /\ Released(c) \in Seq(Call)
                   /\ queue # <<>> => Tail(queue) \in Seq(Call)
    BY <1>type DEF Released
  <1>return. ASSUME NEW c \in Call, Return(c)
             PROVE  queue' \in Seq(Call) /\ call' \in [Call -> CallState]
    <2>1. Idle \in CallState
      BY DEF Idle, CallState, Place
    <2> QED
      BY <1>return, <1>moved, <1>queue, <2>1 DEF Return
  <1>durable. ASSUME Durable \/ NotDurable
              PROVE  /\ events' \in Events /\ saved' \in Events
                     /\ unsaved' \in BOOLEAN /\ fenced' \in BOOLEAN /\ badStore' \in BOOLEAN
                     /\ sidecar' \in [Op -> State \cup {"none"}]
    BY <1>durable, <1>type DEF Durable, NotDurable, Persisted
  <1>stored. ASSUME NEW o \in Op, NEW s \in State, Stored(o, s) \/ NotStored(o, s)
             PROVE  sidecar' \in [Op -> State \cup {"none"}]
    BY <1>stored, <1>type DEF Stored, NotStored
  <1>outcome. ASSUME NEW c \in Call, NEW s \in State, NEW heard \in Answer \cup {"none"}, Outcome(c, s, heard)
              PROVE  queue' \in Seq(Call) /\ call' \in [Call -> CallState]
    <2> DEFINE now == [call[c] EXCEPT !.pc = "record", !.state = s, !.heard = heard]
    <2>1. now \in CallState
      BY <1>type DEF CallState, Place
    <2>2. call' = [call EXCEPT ![c] = now]
      BY <1>outcome, <1>type DEF Outcome
    <2> QED
      BY <2>1, <2>2, <1>outcome, <1>moved, <1>queue DEF Outcome, Enqueue
  <1>cancelled. ASSUME NEW c \in Call, NEW o \in Op, NEW heard \in Answer,
                       call' = [call EXCEPT ![c].pc = "cancelled", ![c].op = o, ![c].heard = heard]
                PROVE  call' \in [Call -> CallState]
    <2> DEFINE now == [call[c] EXCEPT !.pc = "cancelled", !.op = o, !.heard = heard]
    <2>1. now \in CallState
      BY <1>type DEF CallState, Place
    <2>2. call' = [call EXCEPT ![c] = now]
      BY <1>cancelled, <1>type
    <2> QED
      BY <2>1, <2>2, <1>moved
  <1>places. {"confirm", "reject", "check", "send", "wait", "answer", "deliver", "close"} \subseteq Place
    BY DEF Place
  <1>states. {"prepared", "rejected", "unknown"} \subseteq State
    BY DEF State, Settled
  <1>1. ASSUME NEW c \in Call, Preparing(c) PROVE TypeOK'
    <2>1. CASE PrepareAgain(c) \/ PrepareNew(c)
      <3>1. call' \in [Call -> CallState]
        <4> DEFINE now(pc, o) == [call[c] EXCEPT !.pc = pc, !.op = o]
        <4>1. PICK pc \in {"inspect", "intent"}, o \in Op : call' = [call EXCEPT ![c].pc = pc, ![c].op = o]
          BY <2>1 DEF PrepareAgain, PrepareNew, Markers, Unused, Of
        <4>2. now(pc, o) \in CallState
          BY <1>type DEF CallState, Place
        <4>3. call' = [call EXCEPT ![c] = now(pc, o)]
          BY <4>1, <1>type
        <4> QED
          BY <4>2, <4>3, <1>moved
      <3> QED
        BY <2>1, <3>1, <1>type, <1>durable, <1>done DEF PrepareAgain, PrepareNew, history
    <2>2. CASE PrepareRefused(c) \/ PrepareFails(c) \/ ConfirmFails(c)
      BY <2>2, <1>type, <1>durable, <1>return, <1>done DEF PrepareRefused, PrepareFails, ConfirmFails, history
    <2>3. CASE SaveIntent(c)
      <3>1. call[c].op \in Op
        BY <2>3 DEF SaveIntent, OpInv, AtHead, At
      <3>2. events' \in Events
        BY <2>3, <3>1, <1>type DEF SaveIntent, Events
      <3> QED
        BY <2>3, <3>1, <3>2, <1>type, <1>stored, <1>goto, <1>places, <1>states, <1>done DEF SaveIntent, history
    <2>4. CASE Confirm(c)
      BY <2>4, <1>type, <1>durable, <1>goto, <1>queue, <1>places, <1>done DEF Confirm, Dequeue, AtHead, history
    <2>5. CASE SaveIntentFails(c) \/ RejectIntent(c)
      <3>1. call[c].op \in Op
        BY <2>5 DEF SaveIntentFails, RejectIntent, OpInv, AtHead, At
      <3>2. sidecar' \in [Op -> State \cup {"none"}] /\ badStore' \in BOOLEAN
        BY <2>5, <3>1, <1>type, <1>stored, <1>states DEF SaveIntentFails, RejectIntent, NotStored
      <3> QED
        BY <2>5, <3>2, <1>type, <1>return, <1>done DEF SaveIntentFails, RejectIntent, history
    <2> QED
      BY <1>1, <2>1, <2>2, <2>3, <2>4, <2>5 DEF Preparing
  <1>2. ASSUME NEW c \in Call, Requesting(c) PROVE TypeOK'
    <2>op. At(c, "check") \/ At(c, "send") \/ At(c, "wait") \/ At(c, "record") \/ At(c, "deliver") => call[c].op \in Op
      BY DEF OpInv, At
    <2>1. CASE Send(c)
      BY <2>1, <2>op, <1>type, <1>goto, <1>places, <1>done DEF Send, host
    <2>2. CASE NotSent(c) \/ Undispatched(c) \/ NoAnswer(c) \/ StreamBreaks(c)
      <3>1. hub' \in [Op -> Answer \cup {"none", "underway", "lost"}]
        BY <2>2, <1>type DEF NotSent, Undispatched, NoAnswer, StreamBreaks
      <3> QED
        BY <2>2, <3>1, <1>type, <1>outcome, <1>states, <1>done
           DEF NotSent, Undispatched, NoAnswer, StreamBreaks, AfterFrame, host, history
    <2>3. CASE Answered(c)
      <3>1. hub[call[c].op] \in Answer /\ StateOf(hub[call[c].op]) \in State
        BY <2>3, StateOfAnswer DEF Answered, Known
      <3> QED
        BY <2>3, <3>1, <1>type, <1>outcome, <1>done DEF Answered, host, history
    <2>4. CASE AnswerRefused(c) \/ CheckBefore(c) \/ CheckAfter(c) \/ Deliver(c) \/ DeliverFails(c)
      BY <2>4, <2>op, <1>type, <1>return, <1>goto, <1>places, <1>done DEF AnswerRefused, CheckBefore,
                                                                          CheckAfter, Deliver, DeliverFails, host, history
    <2>5. CASE Record(c) \/ RecordFails(c)
      <3>1. call[c].op \in Op /\ call[c].state \in State
        BY <2>5 DEF Record, RecordFails, OpInv, AtHead, At
      <3>2. sidecar' \in [Op -> State \cup {"none"}] /\ badStore' \in BOOLEAN
        BY <2>5, <3>1, <1>type, <1>stored DEF Record, RecordFails, NotStored
      <3>3. queue' \in Seq(Call) /\ call' \in [Call -> CallState]
        BY <2>5, <1>type, <1>return, <1>goto, <1>queue, <1>places DEF Record, RecordFails, Dequeue, AtHead
      <3> QED
        BY <2>5, <3>2, <3>3, <1>type, <1>done DEF Record, RecordFails, history
    <2> QED
      BY <1>2, <2>1, <2>2, <2>3, <2>4, <2>5 DEF Requesting

  <1>3. ASSUME NEW c \in Call, Inspecting(c) PROVE TypeOK'
    <2>1. CASE Inspect(c)
      <3>1. call' \in [Call -> CallState]
        <4> DEFINE now == [call[c] EXCEPT !.pc = "inspected", !.heard = hub[call[c].op]]
        <4>1. now \in CallState
          BY <2>1, <1>type DEF Inspect, Known, CallState, Place
        <4>2. call' = [call EXCEPT ![c] = now]
          BY <2>1, <1>type DEF Inspect
        <4> QED
          BY <4>1, <4>2, <1>moved
      <3> QED
        BY <2>1, <3>1, <1>type, <1>done DEF Inspect, host, history
    <2>2. CASE InspectFails(c)
      BY <2>2, <1>type, <1>return, <1>done DEF InspectFails, host, history
    <2>3. CASE InspectStored(c) \/ InspectNotStored(c)
      <3>1. call[c].op \in Op /\ StateOf(call[c].heard) \in State
        BY <2>3, StateOfAnswer DEF InspectStored, InspectNotStored, OpInv, AtHead, At
      <3>2. sidecar' \in [Op -> State \cup {"none"}] /\ badStore' \in BOOLEAN
        BY <2>3, <3>1, <1>type, <1>stored DEF InspectStored, InspectNotStored, NotStored
      <3>3. queue' \in Seq(Call) /\ call' \in [Call -> CallState]
        BY <2>3, <1>type, <1>return, <1>goto, <1>places DEF InspectStored, InspectNotStored, Inspected
      <3> QED
        BY <2>3, <3>2, <3>3, <1>type, <1>done DEF InspectStored, InspectNotStored, history
    <2> QED
      BY <1>3, <2>1, <2>2, <2>3 DEF Inspecting
  <1>4. ASSUME NEW c \in Call, Closing(c) PROVE TypeOK'
    <2>1. ASSUME NEW how \in {"end", "cancel"}, CloseAppends(c, how) \/ CloseAgain(c, how) PROVE TypeOK'
      <3>1. ToCancel(how) \subseteq Op
        BY <1>type DEF ToCancel, Events
      <3>2. call' \in [Call -> CallState]
        BY <2>1, <3>1, <1>type DEF CloseAppends, CloseAgain, CallState, Place
      <3>3. events' \in Events
        BY <2>1, <1>type DEF CloseAppends, CloseAgain, Events, host
      <3> QED
        BY <2>1, <3>2, <3>3, <1>type, <1>done DEF CloseAppends, CloseAgain, host, history
    <2>2. ASSUME NEW how \in {"end", "cancel"}, CloseBlocked(c, how) PROVE TypeOK'
      BY <2>2, <1>type, <1>return, <1>done DEF CloseBlocked, host, history
    <2>3. CASE FenceSaved(c)
      BY <2>3, <1>type, <1>durable, <1>goto, <1>places, <1>done DEF FenceSaved, history
    <2>4. CASE FenceNotSaved(c)
      BY <2>4, <1>type, <1>durable, <1>return, <1>done DEF FenceNotSaved, history
    <2>hub. ASSUME NEW o \in Op, Cancelling(o) PROVE hub' \in [Op -> Answer \cup {"none", "underway", "lost"}]
      BY <2>hub, <1>type DEF Cancelling, Answer
    <2>todo. call[c].todo \subseteq Op
      BY <1>type DEF CallState
    <2>5. CASE CancelOne(c)
      <3>1. PICK o \in call[c].todo :
              /\ Known(o) /\ Cancelling(o)
              /\ call' = [call EXCEPT ![c].pc = "cancelled", ![c].op = o, ![c].heard = hub'[o]]
        BY <2>5 DEF CancelOne
      <3>2. o \in Op /\ hub'[o] \in Answer
        BY <3>1, <2>todo, <1>type, CancelAnswers
      <3>3. call' \in [Call -> CallState]
        BY <3>1, <3>2, <1>cancelled
      <3>4. hub' \in [Op -> Answer \cup {"none", "underway", "lost"}]
        BY <3>1, <3>2, <2>hub
      <3> QED
        BY <2>5, <3>3, <3>4, <1>type, <1>done DEF CancelOne, host, history
    <2>6. CASE CancelFails(c)
      <3>1. hub' \in [Op -> Answer \cup {"none", "underway", "lost"}]
        BY <2>6, <2>hub, <2>todo, <1>type DEF CancelFails
      <3> QED
        BY <2>6, <3>1, <1>type, <1>return, <1>done DEF CancelFails, host, history
    <2>7. CASE CancelStored(c) \/ CancelNotStored(c)
      <3>1. call[c].op \in Op /\ StateOf(call[c].heard) \in State
        BY <2>7, StateOfAnswer DEF CancelStored, CancelNotStored, OpInv, AtHead, At
      <3>2. sidecar' \in [Op -> State \cup {"none"}] /\ badStore' \in BOOLEAN
        BY <2>7, <3>1, <1>type, <1>stored DEF CancelStored, CancelNotStored, NotStored
      <3>3. queue' \in Seq(Call) /\ call' \in [Call -> CallState]
        <4> DEFINE now == [call[c] EXCEPT !.pc = "close", !.todo = @ \ {call[c].op}]
        <4>1. CASE CancelStored(c)
          <5>1. now \in CallState
            BY <1>type, <1>places DEF CallState
          <5>2. call' = [call EXCEPT ![c] = now] /\ UNCHANGED queue
            BY <4>1, <1>type DEF CancelStored
          <5> QED
            BY <5>1, <5>2, <1>moved, <1>type
        <4>2. CASE CancelNotStored(c)
          BY <4>2, <1>return DEF CancelNotStored
        <4> QED
          BY <2>7, <4>1, <4>2
      <3> QED
        BY <2>7, <3>2, <3>3, <1>type, <1>done DEF CancelStored, CancelNotStored, history
    <2>8. CASE CloseReturns(c)
      BY <2>8, <1>type, <1>return, <1>done DEF CloseReturns, host
    <2> QED
      BY <1>4, <2>1, <2>2, <2>3, <2>4, <2>5, <2>6, <2>7, <2>8 DEF Closing
  <1>5. ASSUME NEW c \in Call, NEW r \in Request, Complete(c, r) PROVE TypeOK'
    <2>1. call' \in [Call -> CallState]
      <3> DEFINE now == [call[c] EXCEPT !.pc = "prepare", !.request = r]
      <3>1. now \in CallState
        BY <1>type DEF CallState, Place
      <3>2. call' = [call EXCEPT ![c] = now]
        BY <1>5, <1>type DEF Complete
      <3> QED
        BY <3>1, <3>2, <1>moved
    <2> QED
      BY <1>5, <2>1, <1>type, <1>queue, <1>done DEF Complete, Enqueue, host, history
  <1>6. ASSUME NEW c \in Call, NEW how \in {"end", "cancel"}, Close(c, how) PROVE TypeOK'
    <2>1. how \in Place
      BY DEF Place
    <2> QED
      BY <1>6, <2>1, <1>type, <1>queue, <1>goto, <1>done DEF Close, Enqueue, history
  <1>7. CASE NextInput \/ HostSaves
    <2>1. events' \in Events /\ saved' \in Events /\ unsaved' \in BOOLEAN
      BY <1>7, <1>type DEF NextInput, HostSaves, Events
    <2> QED
      BY <1>7, <2>1, <1>type, <1>done DEF NextInput, HostSaves, history
  <1>8. CASE Crash
    <2>1. call' \in [Call -> CallState] /\ queue' \in Seq(Call) /\ crashes' \in 0..MaxCrashes
      BY <1>8, <1>type DEF Crash, Idle, CallState, Place
    <2> QED
      BY <1>8, <2>1, <1>type, <1>done DEF Crash
  <1>9. ASSUME NEW o \in Op, Hub(o) PROVE TypeOK'
    <2>1. hub' \in [Op -> Answer \cup {"none", "underway", "lost"}]
      BY <1>9, <1>type DEF Hub, Progress, Answer
    <2> QED
      BY <1>9, <2>1, <1>type, <1>done DEF Hub, host, history
  <1>10. CASE UNCHANGED vars
    BY <1>10, <1>type, <1>done DEF vars, host, history
  <1> QED
    BY <1>1, <1>2, <1>3, <1>4, <1>5, <1>6, <1>7, <1>8, <1>9, <1>10 DEF Next, Step

LEMMA InitInv ==
  ASSUME Init
  PROVE  IInv
  <1> USE DEF Init, Idle
  <1>1. TypeOK
    <2>1. Idle \in CallState
      BY DEF CallState, Place
    <2>2. events \in Events /\ saved \in Events
      BY DEF Events
    <2>3. call \in [Call -> CallState] /\ queue \in Seq(Call)
      <3> HIDE DEF Idle
      <3> QED
        BY <2>1
    <2>4. sidecar \in [Op -> State \cup {"none"}] /\ hub \in [Op -> Answer \cup {"none", "underway", "lost"}]
      OBVIOUS
    <2>5. /\ unsaved \in BOOLEAN /\ fenced \in BOOLEAN /\ badStore \in BOOLEAN
          /\ sent \subseteq Op /\ resumed \subseteq Op /\ closed \in BOOLEAN
      OBVIOUS
    <2>6. crashes \in 0..MaxCrashes
      OBVIOUS
    <2> QED
      BY <2>2, <2>3, <2>4, <2>5, <2>6 DEF TypeOK, CallState
  <1>2. HeadInv /\ MarkerInv /\ OpInv /\ SenderInv /\ HeardInv
    BY DEF HeadInv, Begun, MarkerInv, OpInv, SenderInv, HeardInv, HeardBy
  <1>3. RecordedIsTrue /\ FenceInv
    BY DEF RecordedIsTrue, FenceInv
  <1> QED
    BY <1>1, <1>2, <1>3 DEF IInv

LEMMA StepInv ==
  ASSUME IInv, [Next]_vars
  PROVE  IInv'
  <1>1. TypeOK' /\ HeadInv' /\ MarkerInv' /\ OpInv'
    BY TypeStep, HeadStep, MarkerStep, OpStep DEF IInv
  <1>2. SenderInv' /\ HeardInv' /\ RecordedIsTrue'
    BY SenderStep, HeardStep, RecordedStep DEF IInv
  <1>3. FenceInv'
    BY FenceStep DEF IInv, FenceInv
  <1> QED
    BY <1>1, <1>2, <1>3 DEF IInv

\* The invariant that everything below follows from.
THEOREM Invariance == Spec => []IInv
  BY InitInv, StepInv, PTL DEF Spec

\* Every variable has its type, for any number of calls and requests.
THEOREM TypeCorrect == Spec => []TypeOK
  BY Invariance, PTL DEF IInv

\* However often a request is retried or repeated, at once or after a restart,
\* it is sent as one operation, which its marker and its record lead back to
\* (complete, prepare: the marker is durable before the request is sent).
THEOREM SentIsTheOriginalHolds == Spec => []SentIsTheOriginal
  <1>1. ASSUME IInv PROVE SentIsTheOriginal
    <2>1. sent \subseteq Op
      BY <1>1 DEF IInv, TypeOK
    <2> QED
      BY <1>1, <2>1 DEF IInv, MarkerInv, SentIsTheOriginal, Of
  <1> QED
    BY <1>1, Invariance, PTL

\* What a record says of a finished operation is what the hub says, in every
\* order of answers, cancels and inspections (update, inspect, closeTurn).
THEOREM RecordedIsTrueHolds == Spec => []RecordedIsTrue
  BY Invariance, PTL DEF IInv

\* With a host that tells of its failures, a closed turn sends nothing and
\* resumes nothing, also after a restart (closeTurn waits for the event to be
\* durable; send and the receipt ask for the turn's end).
THEOREM ClosedHolds ==
  ASSUME Reports
  PROVE  Spec => ClosedStaysClosed
  <1>1. ASSUME IInv, [Next]_vars, fenced \/ closed
        PROVE  sent' = sent /\ resumed' = resumed
    <2>1. Closed
      BY <1>1 DEF IInv, FenceInv, Closed
    <2>2. ASSUME NEW c \in Call, Step(c) PROVE sent' = sent /\ resumed' = resumed
      <3>1. CASE Preparing(c)
        BY <3>1 DEF Preparing, PrepareAgain, PrepareNew, PrepareRefused, PrepareFails, SaveIntent,
                    SaveIntentFails, Confirm, ConfirmFails, RejectIntent, history
      <3>2. CASE Requesting(c)
        BY <2>1, <3>2 DEF Requesting, Send, NotSent, Answered, AnswerRefused, Undispatched, NoAnswer,
                          StreamBreaks, Record, RecordFails, CheckBefore, CheckAfter, Deliver, DeliverFails, history
      <3>3. CASE Inspecting(c)
        BY <3>3 DEF Inspecting, Inspect, InspectFails, InspectStored, InspectNotStored, history
      <3>4. CASE Closing(c)
        BY <3>4 DEF Closing, CloseAppends, CloseAgain, CloseBlocked, FenceSaved, FenceNotSaved, CancelOne,
                    CancelFails, CancelStored, CancelNotStored, CloseReturns, history
      <3> QED
        BY <2>2, <3>1, <3>2, <3>3, <3>4 DEF Step
    <2> QED
      BY <1>1, <2>2 DEF Next, Complete, Close, NextInput, HostSaves, Crash, Hub, vars, history
  <1>2. ASSUME IInv, [Next]_vars
        PROVE  [fenced \/ closed => sent' = sent /\ resumed' = resumed]_vars
    BY <1>1, <1>2
  <1>3. QED
    BY <1>2, Invariance, PTL DEF Spec, ClosedStaysClosed
=============================================================================
