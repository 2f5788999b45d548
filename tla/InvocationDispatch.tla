------------------------- MODULE InvocationDispatch -------------------------
(***************************************************************************)
(* One governed business call, from the tool call that creates it to its   *)
(* last receipt: executeTrackedInvocation, waitForInvocation,              *)
(* resumeTrackedInvocation and sessionInvocationAction (lib/runtime.js),   *)
(* run by several hosts over one invocation journal and one Core.          *)
(*                                                                         *)
(* The journal's operations are the atomic ones of JournalPromise, with an *)
(* answer that may be lost.  Core is external: it holds a call for         *)
(* approval, runs it, and answers resume and inspect.                      *)
(***************************************************************************)
EXTENDS Naturals

CONSTANTS
  Host,         \* runtimes that open the session
  Nobody,       \* the sender of a request whose host no longer waits for it
  MaxAttempts,  \* recovery.maxAttempts of waitForInvocation
  MaxCalls,     \* bound: operations started on the call
  MaxCrashes    \* bound: hosts that stop

ASSUME NobodyIsNoHost == Nobody \notin Host
ASSUME BoundsAreNat == MaxAttempts \in Nat /\ MaxCalls \in Nat /\ MaxCrashes \in Nat

VARIABLES
  journal,      \* the entry of this call: none, or its last known state
  failed,       \* whether a host's journal is marked as failed
  unsaved,      \* the outcome a host could not confirm as saved
  record,       \* record of the run, and of the panel action
  actor,        \* which of the two records an operation works on
  intent,       \* the operation: execute, resume, inspect
  pc,
  own,          \* reservation.created
  managed,      \* options.managed of waitForInvocation
  attempts, resumes,   \* polls, and resumes sent, within an operation
  ended,        \* the turn that owns the call has ended in this host
  stale,        \* the turn of the running operation has ended
  observed,     \* hostReceiptBindings: a panel has read the receipt
  wire, reply,  \* requests on their way, answers that came back
  core,         \* external: what Core knows of the call
  invokes,      \* history: invoke requests sent
  taskBound,    \* whether the call belongs to a task (run.taskBinding), chosen once
  calls, crashes

vars == <<journal, failed, unsaved, record, actor, intent, pc, own, managed, attempts,
          resumes, ended, stale, observed, wire, reply, core, invokes, taskBound, calls, crashes>>

Result   == {"held", "running", "done"}        \* invocation results
Known    == {"none", "unknown"} \cup Result
NeedsResume(r) == r \in {"held", "running"}    \* invocationNeedsResume
IsTerminal(r) == r \in Result /\ ~ NeedsResume(r)

Rank == [none |-> 0, unknown |-> 1, held |-> 2, running |-> 3, done |-> 4]

Empty == [invoked |-> FALSE, latest |-> "none", entry |-> "none"]
NothingUnsaved == [next |-> "none", previous |-> "none"]
Actor == {"run", "panel"}

CallRecord == [invoked : BOOLEAN, latest : {"none"} \cup Result, entry : Known]
Outcome == [next : Known, previous : Known]
Reply == {"none", "empty", "lost", "error", "refused", "notFound"} \cup Result
Request == [from : Host \cup {Nobody}, kind : {"invoke", "resume", "inspect"}]
Label == {"idle", "verify", "reserve", "gate", "invoking", "remember", "wait", "resuming",
          "inspecting", "receipt", "decide", "pause", "again"}

TypeOK ==
  /\ journal \in Known
  /\ failed \in [Host -> BOOLEAN]
  /\ unsaved \in [Host -> Outcome]
  /\ record \in [Host -> [Actor -> CallRecord]]
  /\ actor \in [Host -> Actor]
  /\ intent \in [Host -> {"execute", "resume", "inspect"}]
  /\ pc \in [Host -> Label]
  /\ own \in [Host -> BOOLEAN]
  /\ managed \in [Host -> BOOLEAN]
  /\ attempts \in [Host -> 0..MaxAttempts]
  /\ resumes \in [Host -> Nat]
  /\ ended \in [Host -> BOOLEAN]
  /\ stale \in [Host -> BOOLEAN]
  /\ observed \in [Host -> BOOLEAN]
  /\ wire \in SUBSET Request
  /\ reply \in [Host -> Reply]
  /\ core \in {"absent"} \cup Result
  /\ invokes \in Nat
  /\ taskBound \in BOOLEAN
  /\ calls \in 0..MaxCalls
  /\ crashes \in 0..MaxCrashes

Init ==
  /\ journal = "none"
  /\ failed = [h \in Host |-> FALSE]
  /\ unsaved = [h \in Host |-> NothingUnsaved]
  /\ record = [h \in Host |-> [a \in Actor |-> Empty]]
  /\ actor = [h \in Host |-> "run"]
  /\ intent = [h \in Host |-> "execute"]
  /\ pc = [h \in Host |-> "idle"]
  /\ own = [h \in Host |-> FALSE]
  /\ managed = [h \in Host |-> FALSE]
  /\ attempts = [h \in Host |-> 0]
  /\ resumes = [h \in Host |-> 0]
  /\ ended = [h \in Host |-> FALSE]
  /\ stale = [h \in Host |-> FALSE]
  /\ observed = [h \in Host |-> FALSE]
  /\ wire = {}
  /\ reply = [h \in Host |-> "none"]
  /\ core = "absent"
  /\ invokes = 0
  /\ taskBound \in BOOLEAN
  /\ calls = 0
  /\ crashes = 0

-----------------------------------------------------------------------------
(* helpers: which record, where next, what is sent *)

Rec(h) == record[h][actor[h]]
SetLatest(h, r) == record' = [record EXCEPT ![h][actor[h]].latest = r]
Ready(h) == ~ failed[h] /\ unsaved[h] = NothingUnsaved

durable == <<journal, failed, unsaved>>
operation == <<actor, intent, own, managed, attempts, resumes>>
network == <<wire, reply, core, invokes>>
bounds == <<taskBound, calls, crashes>>

Goto(h, label) == pc' = [pc EXCEPT ![h] = label]

\* The operation returns or throws; the panel's record is dropped with it.
Finish(h) ==
  /\ Goto(h, "idle")
  /\ actor' = [actor EXCEPT ![h] = "run"]
  /\ intent' = [intent EXCEPT ![h] = "execute"]
  /\ own' = [own EXCEPT ![h] = FALSE]
  /\ managed' = [managed EXCEPT ![h] = FALSE]
  /\ attempts' = [attempts EXCEPT ![h] = 0]
  /\ resumes' = [resumes EXCEPT ![h] = 0]
  /\ stale' = [stale EXCEPT ![h] = FALSE]

FinishRecord(h) == record' = [record EXCEPT ![h]["panel"] = Empty]

Post(h, kind, label) ==
  /\ wire' = wire \cup {[from |-> h, kind |-> kind]}
  /\ invokes' = IF kind = "invoke" THEN invokes + 1 ELSE invokes
  /\ resumes' = [resumes EXCEPT ![h] = IF kind = "resume" THEN @ + 1 ELSE @]
  /\ Goto(h, label)
  /\ UNCHANGED <<reply, core>>

Consume(h) == reply' = [reply EXCEPT ![h] = "none"] /\ UNCHANGED <<wire, core, invokes>>

\* verifyInvocationJournal: take over the durable entry; a result that it
\* does not confirm is forgotten.
Refreshed(h) ==
  IF Rec(h).entry = "none" THEN record
  ELSE [record EXCEPT ![h][actor[h]] =
          [invoked |-> @.invoked, entry |-> journal,
           latest |-> IF @.latest = journal THEN @.latest ELSE "none"]]

\* A record this operation did not reserve or recover has no journal entry.
JournalFails(h) ==
  /\ failed' = [failed EXCEPT ![h] = TRUE]
  /\ UNCHANGED <<journal, unsaved>>

-----------------------------------------------------------------------------
(* starting an operation *)

Start(h, what, who, label) ==
  /\ pc[h] = "idle"
  /\ calls < MaxCalls
  /\ calls' = calls + 1
  /\ intent' = [intent EXCEPT ![h] = what]
  /\ actor' = [actor EXCEPT ![h] = who]
  /\ Goto(h, label)
  /\ UNCHANGED <<durable, own, managed, attempts, resumes, ended, stale, taskBound, crashes>>

\* The model calls the tool: the invocation id is the digest of run and call.
StartExecute(h) ==
  /\ ~ ended[h]
  /\ Start(h, "execute", "run", "verify")
  /\ UNCHANGED <<record, observed, network>>

\* resume_governed_tool_invocation.  recoverInvocationBinding makes a record of
\* a call that this host does not know any more; a known one stays as it is.
StartResume(h) ==
  /\ Ready(h) /\ journal # "none"
  /\ Start(h, "resume", "run", "verify")
  /\ record' = [record EXCEPT ![h]["run"] =
       IF @.entry = "none" THEN [invoked |-> TRUE, latest |-> @.latest, entry |-> journal]
       ELSE @]
  /\ UNCHANGED <<observed, network>>

\* inspectSessionInvocation and resumeSessionInvocation, from the host's
\* panel: a record of their own, and a receipt first.
StartPanel(h, what) ==
  /\ Ready(h) /\ journal # "none"
  /\ pc[h] = "idle"
  /\ calls < MaxCalls
  /\ calls' = calls + 1
  /\ intent' = [intent EXCEPT ![h] = what]
  /\ actor' = [actor EXCEPT ![h] = "panel"]
  /\ record' = [record EXCEPT ![h]["panel"] = [Empty EXCEPT !.entry = journal]]
  /\ Post(h, "inspect", "receipt")
  /\ UNCHANGED <<durable, own, managed, attempts, ended, stale, observed, taskBound,
                 crashes>>

-----------------------------------------------------------------------------
(* executeTrackedInvocation and resumeTrackedInvocation *)

\* The authorization, the task binding, the turn or the journal is not usable.
VerifyFails(h) ==
  /\ pc[h] = "verify"
  /\ \/ UNCHANGED durable
     \/ Ready(h) /\ JournalFails(h)
  /\ Finish(h) /\ FinishRecord(h)
  /\ UNCHANGED <<ended, observed, network, bounds>>

\* receiptRecovery: the receipt decides whether the call is continued.
NeedsReceipt(h) == taskBound \/ observed[h]

Verify(h) ==
  /\ pc[h] = "verify"
  /\ Ready(h)
  /\ record' = Refreshed(h)
  /\ LET r == Refreshed(h)[h]["run"] IN
     \/ /\ IsTerminal(r.latest) \/ stale[h]
        /\ Finish(h)
        /\ UNCHANGED network
     \/ /\ ~ IsTerminal(r.latest) /\ ~ stale[h]
        /\ intent[h] = "execute" /\ ~ r.invoked
        /\ Goto(h, "reserve")
        /\ UNCHANGED <<operation, stale, network>>
     \/ /\ ~ IsTerminal(r.latest) /\ ~ stale[h]
        /\ intent[h] = "execute" /\ r.invoked
        /\ managed' = [managed EXCEPT ![h] = taskBound]
        /\ Goto(h, "wait")
        /\ UNCHANGED <<actor, intent, own, attempts, resumes, stale, network>>
     \/ /\ ~ IsTerminal(r.latest) /\ ~ stale[h]
        /\ intent[h] = "resume" /\ ~ NeedsReceipt(h)
        /\ Goto(h, "wait")
        /\ UNCHANGED <<operation, stale, network>>
     \/ /\ ~ IsTerminal(r.latest) /\ ~ stale[h]
        /\ intent[h] = "resume" /\ NeedsReceipt(h)
        /\ Post(h, "inspect", "receipt")
        /\ UNCHANGED <<actor, intent, own, managed, attempts, stale>>
  /\ UNCHANGED <<durable, ended, observed, bounds>>

NothingReserved == journal      \* a faulty Reserved

\* InvocationJournal.reserve.  Only a confirmed creation owns the call.
ReserveCreates(h) == journal = "none"
Reserved == IF journal = "none" THEN "unknown" ELSE journal

Reserve(h) ==
  /\ pc[h] = "reserve"
  /\ Ready(h)
  /\ journal' = Reserved
  /\ own' = [own EXCEPT ![h] = ReserveCreates(h)]
  /\ record' = [record EXCEPT ![h]["run"].entry = journal']
  /\ Goto(h, "gate")
  /\ UNCHANGED <<failed, unsaved, actor, intent, managed, attempts, resumes, ended, stale,
                 observed, network, bounds>>

\* There is no transport, the turn ended, or the reservation could not be
\* confirmed: nothing is sent.
ReserveFails(h) ==
  /\ pc[h] = "reserve"
  /\ \/ UNCHANGED durable
     \/ /\ failed' = [failed EXCEPT ![h] = TRUE]
        /\ journal' \in IF Ready(h) THEN {journal, Reserved} ELSE {journal}
        /\ UNCHANGED unsaved
  /\ Finish(h) /\ FinishRecord(h)
  /\ UNCHANGED <<ended, observed, network, bounds>>

MayDispatchLate(h) == TRUE      \* a faulty MayDispatch

\* Everything was awaited: the last checks before the request leaves.
MayDispatch(h) == ~ stale[h]

Dispatch(h) ==
  /\ pc[h] = "gate"
  /\ MayDispatch(h)
  /\ record' = [record EXCEPT ![h]["run"].invoked = TRUE]
  /\ \/ /\ own[h]
        /\ Post(h, "invoke", "invoking")
        /\ UNCHANGED managed
     \/ /\ ~ own[h]
        /\ managed' = [managed EXCEPT ![h] = taskBound]
        /\ Goto(h, "wait")
        /\ UNCHANGED <<resumes, network>>
  /\ UNCHANGED <<durable, actor, intent, own, attempts, ended, stale, observed, bounds>>

\* The turn ended, or the scope or the task binding is not usable any more.
\* The reservation stays.
DispatchRefused(h) ==
  /\ pc[h] = "gate"
  /\ Finish(h) /\ FinishRecord(h)
  /\ UNCHANGED <<durable, ended, observed, network, bounds>>

\* The answer to invoke.  Only a definite refusal re-opens the call.
InvokeAnswered(h) ==
  /\ pc[h] = "invoking"
  /\ reply[h] # "none"
  /\ Consume(h)
  /\ \/ /\ reply[h] \in Result
        /\ SetLatest(h, reply[h])
        /\ managed' = [managed EXCEPT ![h] = taskBound]
        /\ Goto(h, "remember")
        /\ UNCHANGED <<actor, intent, own, attempts, resumes, stale>>
     \/ /\ reply[h] \in {"lost", "empty"}    \* accepted_unknown, no valid result
        /\ managed' = [managed EXCEPT ![h] = taskBound]
        /\ Goto(h, "wait")
        /\ UNCHANGED <<record, actor, intent, own, attempts, resumes, stale>>
     \/ /\ reply[h] \in {"refused", "error", "notFound"}
        /\ record' = [record EXCEPT ![h]["run"].invoked = (reply[h] # "refused")]
        /\ Finish(h)
  /\ UNCHANGED <<durable, ended, observed, bounds>>

-----------------------------------------------------------------------------
(* rememberInvocationResult: InvocationJournal.update *)

\* Where the operation continues: a panel that resumed reads the receipt
\* again, an explicit recovery decides after its first receipt.
AfterRemember(h) ==
  IF actor[h] = "panel" THEN IF resumes[h] > 0 /\ ~ managed[h] THEN "again" ELSE "decide"
  ELSE IF intent[h] = "resume" /\ NeedsReceipt(h) /\ ~ managed[h] THEN "decide" ELSE "wait"

OverwritesAny(h) == TRUE        \* a faulty StillPrevious
StillPrevious(h) == journal = Rec(h).entry

Remember(h) ==
  /\ pc[h] = "remember"
  /\ \/ journal = Rec(h).latest
     \/ StillPrevious(h)
  /\ journal' = Rec(h).latest
  /\ record' = [record EXCEPT ![h][actor[h]].entry = Rec(h).latest]
  /\ Goto(h, AfterRemember(h))
  /\ UNCHANGED <<failed, unsaved, operation, ended, stale, observed, network, bounds>>

KeepUnsaved(h) ==
  unsaved' = [unsaved EXCEPT ![h] = [next |-> Rec(h).latest, previous |-> Rec(h).entry]]

\* A different outcome is stored, or the save was not confirmed.
RememberFails(h) ==
  /\ pc[h] = "remember"
  /\ journal' \in IF StillPrevious(h) THEN {journal, Rec(h).latest} ELSE {journal}
  /\ failed' = [failed EXCEPT ![h] = TRUE]
  /\ KeepUnsaved(h)
  /\ Finish(h) /\ FinishRecord(h)
  /\ UNCHANGED <<ended, observed, network, bounds>>

-----------------------------------------------------------------------------
(* waitForInvocation *)

MayPoll(h) == attempts[h] < MaxAttempts

WaitOver(h) ==
  /\ pc[h] = "wait"
  /\ IsTerminal(Rec(h).latest) \/ stale[h] \/ ~ MayPoll(h)
  /\ Finish(h) /\ FinishRecord(h)
  /\ UNCHANGED <<durable, ended, observed, network, bounds>>

Poll(h) ==
  /\ pc[h] = "wait"
  /\ ~ IsTerminal(Rec(h).latest) /\ ~ stale[h] /\ MayPoll(h)
  /\ attempts' = [attempts EXCEPT ![h] = @ + 1]
  /\ \/ /\ ~ managed[h]
        /\ Post(h, "resume", "resuming")
        /\ UNCHANGED record
     \/ /\ managed[h] /\ Ready(h) /\ Rec(h).entry # "none"
        /\ record' = Refreshed(h)
        /\ Post(h, "inspect", "inspecting")
  /\ UNCHANGED <<durable, actor, intent, own, managed, ended, stale, observed, bounds>>

\* The authorization or the task binding is not usable any more, or
\* inspectTrackedReceipt finds the journal not ready.
PollFails(h) ==
  /\ pc[h] = "wait"
  /\ ~ IsTerminal(Rec(h).latest) /\ ~ stale[h] /\ MayPoll(h)
  /\ \/ UNCHANGED durable
     \/ managed[h] /\ Ready(h) /\ JournalFails(h)
  /\ Finish(h) /\ FinishRecord(h)
  /\ UNCHANGED <<ended, observed, network, bounds>>

ObserveNever(h) == FALSE        \* a faulty ObserveOnly

\* An explicit resume of a receipt was sent: only observe from now on.
ObserveOnly(h) == actor[h] = "run" /\ intent[h] = "resume" /\ NeedsReceipt(h)

PollAnswered(h) ==
  /\ pc[h] \in {"resuming", "inspecting"}
  /\ reply[h] # "none"
  /\ Consume(h)
  /\ managed' = [managed EXCEPT ![h] = actor[h] = "run" /\ (@ \/ ObserveOnly(h))]
  /\ \/ /\ reply[h] \in Result
        /\ SetLatest(h, reply[h])
        /\ Goto(h, "remember")
        /\ UNCHANGED <<actor, intent, own, attempts, resumes, stale>>
     \/ /\ actor[h] = "run"
        /\ reply[h] = "empty" \/ (reply[h] = "lost" /\ attempts[h] > 0)
        /\ Goto(h, "wait")
        /\ UNCHANGED <<record, actor, intent, own, attempts, resumes, stale>>
  /\ UNCHANGED <<durable, ended, observed, bounds>>

PollRejected(h) ==
  /\ pc[h] \in {"resuming", "inspecting"}
  /\ reply[h] \notin {"none"} \cup Result
  /\ reply[h] # "empty" \/ actor[h] = "panel"
  /\ reply[h] # "lost" \/ attempts[h] = 0
  /\ Consume(h)
  /\ Finish(h) /\ FinishRecord(h)
  /\ UNCHANGED <<durable, ended, observed, bounds>>

-----------------------------------------------------------------------------
(* the receipt first: task-bound calls, observed calls and the panel *)

\* The panel compares the journal with its record around every receipt.
Guarded(h) == actor[h] = "panel" => journal = Rec(h).entry

ReceiptAnswered(h) ==
  /\ pc[h] = "receipt"
  /\ reply[h] # "none"
  /\ Consume(h)
  /\ observed' = [observed EXCEPT ![h] = @ \/ (actor[h] = "panel" /\ Guarded(h) /\ reply[h] = "empty")]
  /\ \/ /\ reply[h] \in Result /\ Guarded(h)
        /\ SetLatest(h, reply[h])
        /\ Goto(h, "remember")
        /\ UNCHANGED <<operation, stale>>
     \/ /\ reply[h] = "empty" /\ actor[h] = "run" /\ ~ stale[h]
        /\ managed' = [managed EXCEPT ![h] = TRUE]
        /\ Goto(h, "wait")
        /\ UNCHANGED <<record, actor, intent, own, attempts, resumes, stale>>
     \/ /\ reply[h] \notin Result => (actor[h] = "run" /\ reply[h] = "empty" => stale[h])
        /\ reply[h] \in Result => ~ Guarded(h)
        /\ Finish(h) /\ FinishRecord(h)
  /\ UNCHANGED <<durable, ended, bounds>>

\* dispatch_state = not_dispatched and journal_state = absent
MayContinue(h) == Rec(h).latest = "held"

Decide(h) ==
  /\ pc[h] = "decide"
  /\ observed' = [observed EXCEPT ![h] = @ \/ actor[h] = "panel"]
  /\ \/ /\ ~ stale[h] /\ Guarded(h) /\ intent[h] = "resume" /\ resumes[h] = 0
        /\ MayContinue(h)
        /\ \/ Post(h, "resume", "resuming")
           \/ actor[h] = "run" /\ Goto(h, "pause") /\ UNCHANGED <<resumes, network>>
        /\ UNCHANGED <<record, actor, intent, own, managed, attempts, stale>>
     \/ /\ ~ stale[h] /\ actor[h] = "run" /\ ~ IsTerminal(Rec(h).latest) /\ ~ MayContinue(h)
        /\ managed' = [managed EXCEPT ![h] = TRUE]
        /\ Goto(h, "wait")
        /\ UNCHANGED <<record, actor, intent, own, attempts, resumes, stale, network>>
     \/ /\ Finish(h) /\ FinishRecord(h)   \* nothing to continue, or no longer usable
        /\ UNCHANGED network
  /\ UNCHANGED <<durable, ended, bounds>>

\* After a rate limit the journal is read again, and the receipt is not.
ResumeAfterPause(h) ==
  /\ pc[h] = "pause"
  /\ \/ /\ Ready(h) /\ ~ stale[h]
        /\ record' = Refreshed(h)
        /\ Post(h, "resume", "resuming")
        /\ UNCHANGED <<durable, actor, intent, own, managed, attempts, stale>>
     \/ /\ UNCHANGED durable \/ (Ready(h) /\ JournalFails(h))
        /\ Finish(h) /\ FinishRecord(h)
        /\ UNCHANGED network
  /\ UNCHANGED <<ended, observed, bounds>>

\* The panel reads the receipt once more after its resume.
InspectAgain(h) ==
  /\ pc[h] = "again"
  /\ \/ /\ ~ stale[h] /\ Guarded(h)
        /\ managed' = [managed EXCEPT ![h] = TRUE]
        /\ Post(h, "inspect", "receipt")
        /\ UNCHANGED <<record, actor, intent, own, attempts, stale>>
     \/ /\ Finish(h) /\ FinishRecord(h)
        /\ UNCHANGED network
  /\ UNCHANGED <<durable, ended, observed, bounds>>

-----------------------------------------------------------------------------
(* restoreSessionInvocations: save what could not be confirmed *)

Restore(h) ==
  /\ failed[h]
  /\ IF unsaved[h] = NothingUnsaved THEN UNCHANGED journal
     ELSE /\ journal \in {unsaved[h].next, unsaved[h].previous}
          /\ journal' = unsaved[h].next
  /\ \/ /\ unsaved' = [unsaved EXCEPT ![h] = NothingUnsaved]
        /\ failed' = [failed EXCEPT ![h] = FALSE]
     \/ UNCHANGED <<unsaved, failed>>                   \* not confirmed
  /\ UNCHANGED <<record, pc, operation, ended, stale, observed, network, bounds>>

-----------------------------------------------------------------------------
(* the environment: turns, crashes, the network and Core *)

\* The turn ends, or the panel's action is aborted.
EndTurn(h) ==
  /\ IF pc[h] = "idle" THEN ~ ended[h] ELSE ~ stale[h]
  /\ ended' = [ended EXCEPT ![h] = TRUE]
  /\ stale' = [stale EXCEPT ![h] = pc[h] # "idle"]
  /\ UNCHANGED <<durable, record, pc, operation, observed, network, bounds>>

Orphaned(h) ==
  {IF m.from = h THEN [m EXCEPT !.from = Nobody] ELSE m : m \in wire}

\* The host stops; what it sent may still arrive.  It reopens the session.
Crash(h) ==
  /\ crashes < MaxCrashes
  /\ crashes' = crashes + 1
  /\ Finish(h)
  /\ failed' = [failed EXCEPT ![h] = FALSE]
  /\ unsaved' = [unsaved EXCEPT ![h] = NothingUnsaved]
  /\ record' = [record EXCEPT ![h] = [a \in Actor |-> Empty]]
  /\ observed' = [observed EXCEPT ![h] = FALSE]
  /\ ended' = [ended EXCEPT ![h] = FALSE]
  /\ wire' = Orphaned(h)
  /\ reply' = [reply EXCEPT ![h] = "none"]
  /\ UNCHANGED <<journal, core, invokes, taskBound, calls>>

Answer(m, answers) ==
  IF m.from = Nobody THEN UNCHANGED reply
  ELSE \E a \in answers : reply' = [reply EXCEPT ![m.from] = a]

\* Core takes a request: approval may hold the call, resume may release it.
CoreTakes(m) ==
  /\ m \in wire
  /\ wire' = wire \ {m}
  /\ core' \in CASE m.kind = "invoke" /\ core = "absent" -> {"held", "running"}
                 [] m.kind = "resume" /\ core = "held"   -> {"held", "running"}
                 [] OTHER -> {core}
  /\ Answer(m, {IF core' = "absent" THEN "notFound" ELSE core', "empty", "lost", "error"})
  /\ UNCHANGED <<durable, record, pc, operation, ended, stale, observed, invokes, bounds>>

\* The request never arrives; the SDK may be able to tell for an invoke.
RequestLost(m) ==
  /\ m \in wire
  /\ wire' = wire \ {m}
  /\ Answer(m, {"lost", "error"} \cup (IF m.kind = "invoke" THEN {"refused"} ELSE {}))
  /\ UNCHANGED <<durable, record, pc, operation, ended, stale, observed, core, invokes, bounds>>

\* The host stops waiting for an answer; the request may still arrive.
RequestTimeout(h) ==
  /\ \E m \in wire : m.from = h
  /\ wire' = Orphaned(h)
  /\ reply' \in {[reply EXCEPT ![h] = a] : a \in {"lost", "error"}}
  /\ UNCHANGED <<durable, record, pc, operation, ended, stale, observed, core, invokes, bounds>>

CoreFinishes ==
  /\ core = "running"
  /\ core' = "done"
  /\ UNCHANGED <<durable, record, pc, operation, ended, stale, observed, wire, reply, invokes, bounds>>

-----------------------------------------------------------------------------
Step(h) ==
  \/ Verify(h) \/ VerifyFails(h) \/ Reserve(h) \/ ReserveFails(h)
  \/ Dispatch(h) \/ DispatchRefused(h) \/ InvokeAnswered(h)
  \/ Remember(h) \/ RememberFails(h)
  \/ WaitOver(h) \/ Poll(h) \/ PollFails(h) \/ PollAnswered(h) \/ PollRejected(h)
  \/ ReceiptAnswered(h) \/ Decide(h) \/ ResumeAfterPause(h) \/ InspectAgain(h)

Next ==
  \/ \E h \in Host :
       \/ StartExecute(h) \/ StartResume(h) \/ StartPanel(h, "inspect") \/ StartPanel(h, "resume")
       \/ Step(h) \/ Restore(h) \/ EndTurn(h) \/ Crash(h) \/ RequestTimeout(h)
  \/ \E m \in wire : CoreTakes(m) \/ RequestLost(m)
  \/ CoreFinishes

Spec == Init /\ [][Next]_vars

-----------------------------------------------------------------------------
(* properties *)

\* Whatever is repeated, resumed, lost or restarted, one invoke request leaves.
AtMostOneInvoke == invokes <= 1

\* A late answer of one host never overwrites what another one learned.
OutcomeNeverRegresses == [][Rank[journal'] >= Rank[journal]]_vars

\* A receipt that a host goes on with is on disk, or still to be saved.
ReceiptIsKept ==
  \A h \in Host : pc[h] # "remember" /\ record[h]["run"].latest # "none" =>
    Rank[record[h]["run"].latest] <= Rank[journal] \/ record[h]["run"].latest = unsaved[h].next

Sends(h, kinds) == \E m \in wire' \ wire : m.from = h /\ m.kind \in kinds

\* A turn that has ended, or an aborted panel action, continues nothing.
NothingSentAfterTheEnd == [][\A h \in Host : Sends(h, {"invoke", "resume"}) => ~ stale[h]]_vars

\* A recovery that reads the receipt first continues the call at most once.
ContinuesOnce == \A h \in Host : intent[h] = "resume" /\ NeedsReceipt(h) => resumes[h] <= 1
=============================================================================
