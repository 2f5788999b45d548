---------------------------- MODULE TurnRuntime ----------------------------
(***************************************************************************)
(* The turns of one conversation with a single authorization               *)
(* (lib/runtime.js: onInboxClaimed, onAssemble, startRun, startRunOnce,    *)
(* onSessionEvent, completeRun): prompts are assembled while a turn's      *)
(* business run is being started, the turn may end at any time, and what   *)
(* was started for it goes on until its requests are answered.             *)
(*                                                                         *)
(* A step is what runs between two awaits that wait for a file, a request  *)
(* or a queue.  Awaits of settled promises (clearActiveTools with its      *)
(* disposers, the return of an async function) let nothing else in.        *)
(* The host runs one turn after the other; it is not part of lib/.         *)
(***************************************************************************)
EXTENDS Naturals, FiniteSets, Sequences

CONSTANTS
  Assembly,     \* prompt assemblies that may be under way at once
  MaxTurn,      \* bound: turns of the conversation
  MaxFollowUps, \* bound: further user messages within the turns
  MayFail       \* whether requests, the scope and the host's mode may fail

ASSUME MaxTurnIsNat == MaxTurn \in Nat
ASSUME MaxFollowUpsIsNat == MaxFollowUps \in Nat
ASSUME MayFailIsFlag == MayFail \in BOOLEAN

Turn == 1..MaxTurn
None == 0       \* no turn

VARIABLES
  turn,         \* external: the turn the host runs, or ran last
  followUps,    \* bounds FollowUp
  claims,       \* pendingClaims: turns with claimed messages
  ended,        \* endedTurns
  scope,        \* the scope's beginPromise: its phase and who awaits it
  queue,        \* sessionTasks.queues: the tickets of this session
  asm,          \* the assemblies: where they are, and for which turn
  start,        \* startPromises: where the start of a turn is
  runs,         \* state.runs: status of each turn's run
  current,      \* currentRun, by its turn
  tools,        \* the turn whose tools are registered
  info,         \* latestSystemInfoTurn
  reply,        \* turns with run.assistant
  completion,   \* run.completion of the run that startTurn gave
  disposed      \* state.disposed

vars == <<turn, followUps, claims, ended, scope, queue, asm, start, runs,
          current, tools, info, reply, completion, disposed>>

\* A run that startTurn gave; "demoted" is its status "degraded".
OfRun == {"active", "demoted", "completing", "completion_pending", "completed"}
\* A record without such a run.
NotOfRun == {"scope_inactive", "degraded", "ended"}

StartPc == {"none", "archive", "load", "authorize", "binding", "negotiate",
            "starting", "reauthorize"}
Dispatching == {"authorize", "binding", "negotiate", "starting", "reauthorize"}

Ticket == [kind : {"refresh"}, by : Assembly] \cup [kind : {"binding"}, by : Turn]
Refresh(a) == [kind |-> "refresh", by |-> a]
Binding(t) == [kind |-> "binding", by |-> t]

Idle == [pc |-> "idle", turn |-> None]
NotBegun == [phase |-> "none", waiters |-> <<>>]
NoCompletion == [state |-> "none", attempts |-> 0]

TypeOK ==
  /\ turn \in 0..MaxTurn /\ followUps \in 0..MaxFollowUps
  /\ claims \subseteq Turn /\ ended \subseteq Turn
  /\ scope \in [phase : {"none", "loading", "validating"}, waiters : Seq(Assembly)]
  /\ queue \in Seq(Ticket)
  /\ asm \in [Assembly -> [pc : {"idle", "begin", "refresh", "start", "usable"},
                           turn : 0..MaxTurn]]
  /\ start \in [Turn -> StartPc]
  /\ runs \in [Turn -> {"none"} \cup OfRun \cup NotOfRun]
  /\ current \in 0..MaxTurn /\ tools \in 0..MaxTurn /\ info \in 0..MaxTurn
  /\ reply \subseteq Turn
  /\ completion \in [Turn -> [state : {"none", "pending", "syncing", "synced"},
                              attempts : 0..3]]
  /\ disposed \in BOOLEAN

Init ==
  /\ turn = None /\ followUps = 0
  /\ claims = {} /\ ended = {}
  /\ scope = NotBegun
  /\ queue = <<>>
  /\ asm = [a \in Assembly |-> Idle]
  /\ start = [t \in Turn |-> "none"]
  /\ runs = [t \in Turn |-> "none"]
  /\ current = None /\ tools = None /\ info = None
  /\ reply = {}
  /\ completion = [t \in Turn |-> NoCompletion]
  /\ disposed = FALSE

host == <<turn, followUps, ended, reply, disposed>>

-----------------------------------------------------------------------------
(* the host: user messages and the events of the session *)

Running == turn # None /\ turn \notin ended /\ ~ disposed

\* onInboxClaimed: the message that opens a turn.
Claim ==
  /\ turn = None \/ turn \in ended
  /\ turn < MaxTurn /\ ~ disposed
  /\ turn' = turn + 1
  /\ claims' = claims \cup {turn + 1}
  /\ UNCHANGED <<followUps, ended, scope, queue, asm, start, runs, current,
                 tools, info, reply, completion, disposed>>

\* onInboxClaimed: another message in the running turn.
FollowUp ==
  /\ Running
  /\ followUps < MaxFollowUps
  /\ followUps' = followUps + 1
  /\ claims' = claims \cup {turn}
  /\ UNCHANGED <<turn, ended, scope, queue, asm, start, runs, current,
                 tools, info, reply, completion, disposed>>

\* onSessionEvent, assistant/message: only an active run takes it.
Reply ==
  /\ Running
  /\ runs[turn] = "active"
  /\ reply' = reply \cup {turn}
  /\ UNCHANGED <<turn, followUps, claims, ended, scope, queue, asm, start,
                 runs, current, tools, info, completion, disposed>>

\* completeRun: without a visible reply there is nothing to send.
Closing(t) == IF t \in reply THEN "completing" ELSE "completion_pending"

\* onSessionEvent, turn/end, with completeRun up to its first request: the
\* payload is frozen here.
TurnEnd ==
  /\ Running
  /\ ended' = ended \cup {turn}
  /\ IF runs[turn] = "active"
       THEN /\ tools' = None
            /\ runs' = [runs EXCEPT ![turn] = Closing(turn)]
            /\ completion' = IF turn \in reply THEN [completion EXCEPT ![turn].state = "syncing"]
                             ELSE completion
       ELSE UNCHANGED <<tools, runs, completion>>
  /\ UNCHANGED <<turn, followUps, claims, scope, queue, asm, start, current,
                 info, reply, disposed>>

\* disposeState
Dispose ==
  /\ ~ disposed
  /\ disposed' = TRUE
  /\ tools' = None
  /\ UNCHANGED <<turn, followUps, claims, ended, scope, queue, asm, start,
                 runs, current, info, reply, completion>>

-----------------------------------------------------------------------------
(* onAssemble up to startRun *)

Latest(turns) == CHOOSE t \in turns : \A u \in turns : u <= t

IsActive(r, c) == c # None /\ r[c] = "active"

NeedsStart(t) == runs[t] = "none" \/ start[t] # "none"

\* An assembly whose turn has no run yet, or whose run is being started, joins
\* the scope's begin; the others only check an active run.
Assemble(a) ==
  /\ Running
  /\ asm[a] = Idle
  /\ IF claims # {} /\ NeedsStart(Latest(claims))
       THEN /\ asm' = [asm EXCEPT ![a] = [pc |-> "begin", turn |-> Latest(claims)]]
            /\ scope' = [phase |-> IF scope.phase = "none" THEN "loading" ELSE scope.phase,
                         waiters |-> Append(scope.waiters, a)]
       ELSE /\ IsActive(runs, current)
            /\ asm' = [asm EXCEPT ![a] = [pc |-> "usable", turn |-> turn]]
            /\ UNCHANGED scope
  /\ UNCHANGED <<claims, queue, start, runs, current, tools, info,
                 completion, host>>

Waiting(a) == \E i \in DOMAIN scope.waiters : scope.waiters[i] = a

\* begin reads the record; then the gate is closed until it is revalidated.
BeginValidates ==
  /\ scope.phase = "loading"
  /\ scope' = [scope EXCEPT !.phase = "validating"]
  /\ UNCHANGED <<claims, queue, asm, start, runs, current, tools, info,
                 completion, host>>

\* Every assembly that awaits begin goes on to its refresh of the task.
BeginOpens ==
  /\ scope.phase = "validating"
  /\ scope' = NotBegun
  /\ asm' = [a \in Assembly |-> IF Waiting(a) THEN [asm[a] EXCEPT !.pc = "refresh"] ELSE asm[a]]
  /\ queue' = queue \o [i \in DOMAIN scope.waiters |-> Refresh(scope.waiters[i])]
  /\ UNCHANGED <<claims, start, runs, current, tools, info, completion, host>>

\* The scope is blocked: each waiter, in turn, makes an inactive run current.
BeginBlocks ==
  /\ MayFail
  /\ scope.phase # "none"
  /\ LET blocked == {asm[scope.waiters[i]].turn : i \in DOMAIN scope.waiters} IN
       /\ runs' = [t \in Turn |-> IF t \in blocked THEN "scope_inactive" ELSE runs[t]]
       /\ claims' = claims \ blocked
       /\ current' = asm[scope.waiters[Len(scope.waiters)]].turn
  /\ tools' = None
  /\ scope' = NotBegun
  /\ asm' = [a \in Assembly |-> IF Waiting(a) THEN Idle ELSE asm[a]]
  /\ UNCHANGED <<queue, start, info, completion, host>>

\* assertUsable returns, and assertCurrent passes, while no validation runs.
GateOpen == scope.phase # "validating"

AtHead(ticket) == queue # <<>> /\ Head(queue) = ticket

\* The refresh of an assembly ends, however it went; startRun creates the
\* start of the turn or joins the one under way.
Refreshed(a) ==
  /\ asm[a].pc = "refresh"
  /\ AtHead(Refresh(a)) /\ GateOpen
  /\ queue' = Tail(queue)
  /\ asm' = [asm EXCEPT ![a].pc = "start"]
  /\ start' = IF start[asm[a].turn] = "none" THEN [start EXCEPT ![asm[a].turn] = "archive"] ELSE start
  /\ UNCHANGED <<claims, scope, runs, current, tools, info, completion, host>>

-----------------------------------------------------------------------------
(* startRun: one start per turn at a time *)

RemainingNone(t) == {}    \* a faulty Remaining
Remaining(t) == {u \in claims : u > t}

\* The turn's start settles: claims up to it are spent, and every assembly
\* that shares it goes on to the check of an active run.
EndStart(t, r, c) ==
  /\ runs' = r
  /\ current' = c
  /\ start' = [start EXCEPT ![t] = "none"]
  /\ claims' = Remaining(t)
  /\ asm' = [a \in Assembly |->
       IF asm[a].pc = "start" /\ asm[a].turn = t
         THEN IF IsActive(r, c) THEN [asm[a] EXCEPT !.pc = "usable"] ELSE Idle
         ELSE asm[a]]

With(t, status) == [runs EXCEPT ![t] = status]

EndWith(t, status) == EndStart(t, With(t, status), t)

\* recordEndedRun: a newer current run stays.
RecordEndedRun(t) ==
  EndStart(t, With(t, "ended"), IF current <= t THEN t ELSE current)

\* archiveTurnStart is done; loadSelectedSystemInfo begins.
LoadBegins(t) ==
  /\ start[t] = "archive" /\ GateOpen
  /\ start' = [start EXCEPT ![t] = "load"]
  /\ info' = IF info < t THEN t ELSE info
  /\ UNCHANGED <<claims, scope, queue, asm, runs, current, tools, completion, host>>

IsCurrentLoad(t) == ~ disposed /\ t \notin ended /\ info = t

\* startRunOnce begins: the tools of the run before are removed; without a
\* claimed message nothing is started.
LoadEnds(t) ==
  /\ start[t] = "load" /\ GateOpen
  /\ IsCurrentLoad(t)
  /\ tools' = None
  /\ IF t \in claims
       THEN /\ start' = [start EXCEPT ![t] = "authorize"]
            /\ UNCHANGED <<claims, asm, runs, current>>
       ELSE EndStart(t, runs, current)
  /\ UNCHANGED <<scope, queue, info, completion, host>>

\* The load was aborted, by the turn's end, a newer load or the caller's
\* signal, or the scope did not let it through.
LoadFails(t) ==
  /\ start[t] = "load"
  /\ MayFail \/ ~ IsCurrentLoad(t)
  /\ tools' = IF info = t THEN None ELSE tools
  /\ \/ RecordEndedRun(t)
     \/ IsCurrentLoad(t) /\ EndWith(t, "scope_inactive")
  /\ UNCHANGED <<scope, queue, info, completion, host>>

-----------------------------------------------------------------------------
(* startRunOnce *)

StaleTurn(t) == t \in ended \/ current > t

\* assertAuthorization is done; the binding of the task is asked for.
Authorized(t) ==
  /\ start[t] = "authorize" /\ GateOpen
  /\ IF StaleTurn(t)
       THEN RecordEndedRun(t) /\ UNCHANGED queue
       ELSE /\ start' = [start EXCEPT ![t] = "binding"]
            /\ queue' = Append(queue, Binding(t))
            /\ UNCHANGED <<claims, asm, runs, current>>
  /\ UNCHANGED <<scope, tools, info, completion, host>>

NeverAfterFailure == queue    \* a faulty AfterFailure: the queue keeps a failed job
AfterFailure == Tail(queue)

\* The queue comes to the binding, which may be refused; connectionOptions
\* refuses a disposed state.
Bound(t) ==
  /\ start[t] = "binding"
  /\ AtHead(Binding(t)) /\ GateOpen
  /\ \/ /\ StaleTurn(t)
        /\ RecordEndedRun(t)
        /\ queue' = Tail(queue)
     \/ /\ ~ StaleTurn(t) /\ ~ disposed
        /\ start' = [start EXCEPT ![t] = "negotiate"]
        /\ queue' = Tail(queue)
        /\ UNCHANGED <<claims, asm, runs, current>>
     \/ /\ ~ StaleTurn(t) /\ (MayFail \/ disposed)
        /\ EndWith(t, "degraded")
        /\ queue' = AfterFailure
  /\ UNCHANGED <<scope, tools, info, completion, host>>

\* The knowledge delivery is negotiated; the turn is sent to BailingHub.
Negotiated(t) ==
  /\ start[t] = "negotiate"
  /\ IF StaleTurn(t)
       THEN RecordEndedRun(t)
       ELSE /\ GateOpen /\ ~ disposed
            /\ start' = [start EXCEPT ![t] = "starting"]
            /\ UNCHANGED <<claims, asm, runs, current>>
  /\ UNCHANGED <<scope, queue, tools, info, completion, host>>

\* The answer and its run link are recorded before the turn is looked at.
Started(t) ==
  /\ start[t] = "starting"
  /\ IF StaleTurn(t)
       THEN RecordEndedRun(t)
       ELSE /\ start' = [start EXCEPT ![t] = "reauthorize"]
            /\ UNCHANGED <<claims, asm, runs, current>>
  /\ UNCHANGED <<scope, queue, tools, info, completion, host>>

MayRegisterDisposed(t) == t \notin ended /\ current < t    \* a faulty MayRegister

\* assertRegistryTurn, for a run that is not the current one yet.
MayRegister(t) == ~ disposed /\ t \notin ended /\ current < t

\* The tools are registered and the run becomes the current one.
Activate(t) ==
  /\ start[t] = "reauthorize" /\ GateOpen
  /\ \/ StaleTurn(t) /\ RecordEndedRun(t) /\ UNCHANGED tools
     \/ ~ StaleTurn(t) /\ MayRegister(t) /\ EndWith(t, "active") /\ tools' = t
     \/ ~ StaleTurn(t) /\ ~ MayRegister(t) /\ EndWith(t, "degraded") /\ UNCHANGED tools
  /\ UNCHANGED <<scope, queue, info, completion, host>>

\* A request of the start fails, or connectionOptions finds the gate closed or
\* the state disposed.
StartFails(t) ==
  /\ start[t] \in Dispatching \ {"binding"}
  /\ MayFail \/ (start[t] = "negotiate" /\ (disposed \/ ~ GateOpen))
  /\ IF StaleTurn(t) THEN RecordEndedRun(t) ELSE EndWith(t, "degraded")
  /\ UNCHANGED <<scope, queue, tools, info, completion, host>>

-----------------------------------------------------------------------------
(* onAssemble: the check of an active run *)

\* assertUsable returns: the prompt shows the run.
Usable(a) ==
  /\ asm[a].pc = "usable" /\ GateOpen
  /\ asm' = [asm EXCEPT ![a] = Idle]
  /\ UNCHANGED <<claims, scope, queue, start, runs, current, tools, info,
                 completion, host>>

Degraded(status) == IF status \in OfRun THEN "demoted" ELSE "degraded"

\* The scope is unusable, and whatever run is current by now is degraded; or
\* the host presents tools in Code Mode, which degrades an active run.
Unusable(a) ==
  /\ MayFail
  /\ asm[a].pc = "usable"
  /\ asm' = [asm EXCEPT ![a] = Idle]
  /\ tools' = None
  /\ \/ runs' = With(current, Degraded(runs[current]))
     \/ ~ IsActive(runs, current) /\ UNCHANGED runs
  /\ UNCHANGED <<claims, scope, queue, start, current, info, completion, host>>

-----------------------------------------------------------------------------
(* syncRunCompletion and syncPendingCompletions *)

SetRun(t, status) == IF runs[t] \in OfRun THEN With(t, status) ELSE runs

Completed(t) ==
  /\ completion[t].state = "syncing" /\ GateOpen /\ ~ disposed
  /\ completion' = [completion EXCEPT ![t] = [state |-> "synced", attempts |-> @.attempts + 1]]
  /\ runs' = SetRun(t, "completed")
  /\ UNCHANGED <<claims, scope, queue, asm, start, current, tools, info, host>>

IsLast(t) == completion[t].attempts = 2

\* One of three attempts fails; after the last the completion is pending.
CompletionFails(t) ==
  /\ completion[t].state = "syncing"
  /\ MayFail \/ disposed
  /\ LET last == IsLast(t) IN
       /\ completion' = [completion EXCEPT ![t] =
            [state |-> IF last THEN "pending" ELSE "syncing", attempts |-> @.attempts + 1]]
       /\ runs' = IF last THEN SetRun(t, "completion_pending") ELSE runs
  /\ UNCHANGED <<claims, scope, queue, asm, start, current, tools, info, host>>

\* What syncPendingCompletions finds: the completions of the runs in state.runs.
Found(t) == runs[t] \in OfRun /\ completion[t].state = "pending"

SyncPending(t) ==
  /\ ~ disposed
  /\ Found(t)
  /\ completion' = [completion EXCEPT ![t] = [state |-> "syncing", attempts |-> 0]]
  /\ UNCHANGED <<claims, scope, queue, asm, start, runs, current, tools, info, host>>

-----------------------------------------------------------------------------
Host == Claim \/ FollowUp \/ Reply \/ TurnEnd \/ Dispose

Begin == BeginValidates \/ BeginOpens \/ BeginBlocks

StartStep(t) ==
  \/ LoadBegins(t) \/ LoadEnds(t) \/ LoadFails(t)
  \/ Authorized(t) \/ Bound(t) \/ Negotiated(t) \/ Started(t) \/ Activate(t)
  \/ StartFails(t)

Check(a) == Usable(a) \/ Unusable(a)

Completion(t) == Completed(t) \/ CompletionFails(t)

Next ==
  \/ Host
  \/ Begin
  \/ \E a \in Assembly : Assemble(a) \/ Refreshed(a) \/ Check(a)
  \/ \E t \in Turn : StartStep(t) \/ Completion(t) \/ SyncPending(t)

Spec == Init /\ [][Next]_vars

\* Every file, request and queue answers; the host and the user owe nothing.
Fairness ==
  /\ WF_vars(Begin)
  /\ \A a \in Assembly : WF_vars(Refreshed(a)) /\ WF_vars(Check(a))
  /\ \A t \in Turn : WF_vars(StartStep(t)) /\ WF_vars(Completion(t))

FairSpec == Spec /\ Fairness

-----------------------------------------------------------------------------
\* Tools are registered only while the turn they were loaded for runs and its
\* run is the active, current one: a start that is answered after the turn
\* ended, was overtaken or was disposed registers nothing, and no older turn
\* takes the place of a newer one whose tools are there (startRunOnce,
\* recordEndedRun, assertRegistryTurn, the shared begin).
ToolsBelongToLiveRun ==
  tools # None => /\ tools = current /\ runs[tools] = "active"
                  /\ tools \notin ended /\ ~ disposed

\* No run stays active once its turn has ended, whatever the order in which
\* the start's answers and turn/end arrive: such a run would never be completed
\* and would block every later change of the workspace (use, lib/runtime.js:3216).
RunEndsWithTurn ==
  \A t \in Turn : runs[t] = "active" => t \notin ended

\* Whatever order answers and ends arrive in, only a turn that goes on has an
\* active run, and only its run has tools.
OnlyTheLiveRunActs == ToolsBelongToLiveRun /\ RunEndsWithTurn

\* A turn that is going on and has no run yet keeps its messages, whatever the
\* starts of older turns, blocked scopes and failed loads do with theirs: its
\* next assembly starts it (startRun's finally, lib/runtime.js:1569).
NoTurnIsSkipped ==
  \A t \in 1..turn : t \notin ended /\ runs[t] = "none" => t \in claims

\* docs/AGENT_CLIENT_CONTRACT.md: "A failed completion remains pending in its
\* original run; `/bailinghub sync` starts another bounded attempt batch".
FailedCompletionStays ==
  \A t \in Turn : completion[t].state = "pending" => Found(t)

\* Every prompt assembly returns: none waits for good for the begin of the
\* scope, the task queue or a start that it shares with others.
AssemblyReturns ==
  \A a \in Assembly : asm[a].pc # "idle" ~> asm[a].pc = "idle"
=============================================================================
