---------------------------- MODULE SessionTools ----------------------------
(***************************************************************************)
(* Business tools that are kept from turn to turn (lib/session-tools.js,   *)
(* with authorizedDefinition, ensureAuthorizedTarget and the tool registry *)
(* of lib/runtime.js).  A target must be prepared in every turn before a   *)
(* call reaches the business: its run is started and the declaration is    *)
(* found in the cache or searched for.  Searches follow one another; calls *)
(* go on beside them, and what the hub answers is of the revision it had   *)
(* when it answered.                                                       *)
(*                                                                         *)
(* A step is what runs between two awaits of a request or a file.  Every   *)
(* target is a system of its own (crossSystem), so a registered tool has   *)
(* one target.                                                             *)
(***************************************************************************)
EXTENDS SessionToolCache

CONSTANTS
  Call,        \* tool calls that may be under way at once
  Catalog,     \* external: the declarations a revision has of a name
  Successors,  \* external: the revisions that may follow a revision
  MaxTurn,     \* bound: turns of the conversation
  MaxChanges   \* bound: how often a catalog is revised

ASSUME CatalogIsOfRevisions == Catalog \in [Rev -> [Name -> SUBSET Decl]]
ASSUME NoneIsNoRevision == "none" \notin Rev
ASSUME SuccessorsAreRevisions == Successors \in [Rev -> SUBSET Rev]
ASSUME MaxTurnIsNat == MaxTurn \in Nat \ {0}
ASSUME MaxChangesIsNat == MaxChanges \in Nat

Turn == 1..MaxTurn

VARIABLES
  turn,      \* the turn of the group of runs (state.currentRun)
  cache,     \* state.sessionToolCache
  run,       \* the targets' runs in this turn
  start,     \* entry.startPromise: where the start of a target's run is
  registry,  \* state.activeDefinitions: the tools the model may call
  queue,     \* group.searchPromise: the searches of this turn, in order
  call,      \* the tool calls; one that has ended keeps its id's fate
  revision,  \* external: the revision of a target's catalog
  changes,   \* bounds Revise
  finished   \* history: the targets a preparation of which has ended in this turn

toolsVars == <<turn, cache, run, start, registry, queue, call, revision, changes, finished>>

Nothing == [rev |-> "none", tools |-> <<>>]
NoStart == [state |-> "none", answer |-> Nothing]
NoRun == [status |-> "none", rev |-> "none", tools |-> {}]
Fresh == [pc |-> "idle", turn |-> 0, target |-> "none", name |-> "none", decl |-> "none",
          ready |-> FALSE, told |-> FALSE, fate |-> "none", seen |-> "none", rev |-> "none", answer |-> Nothing]

\* A call is "entered" until its first assertions are done; then it is a search
\* ("queued" to "found") or goes to the business ("business" to "refused").  It has
\* seen executionRevision when it went there; rev is the revision it is sent with.
Place == {"idle", "entered", "queued", "prepare", "starting", "authorize", "search", "found",
          "business", "sent", "refused"}
Searching == {"queued", "prepare", "starting", "authorize", "search", "found"}

\* What the hub may declare of a revision: some tools, in some order.
Answers(rev) ==
  {[rev |-> rev, tools |-> tools] : tools \in
    {s \in UNION {[1..n -> Tool] : n \in 1..Cardinality(Name)} :
       /\ \A i \in DOMAIN s : s[i].decl \in Catalog[rev][s[i].name]
       /\ \A i, j \in DOMAIN s : i # j => s[i].name # s[j].name}}

ToolsTypeOK ==
  /\ turn \in Turn
  /\ cache \in Cache
  /\ run \in [Target -> [status : {"none", "active", "degraded", "failed"}, rev : Rev \cup {"none"}, tools : SUBSET Tool]]
  /\ \A t \in Target :
       /\ start[t].state \in {"none", "asked", "answered", "lost"}
       /\ start[t].answer \in {Nothing} \cup UNION {Answers(r) : r \in Rev}
  /\ registry \subseteq [target : Target, name : Name, decl : Decl]
  /\ queue \in Seq(Call)
  /\ \A c \in Call :
       /\ call[c].pc \in Place /\ call[c].turn \in Turn \cup {0}
       /\ call[c].target \in Target \cup {"none"}
       /\ call[c].name \in Name \cup {"none"} /\ call[c].decl \in Decl \cup {"none"}
       /\ call[c].fate \in {"none", "prepared", "bound"}
       /\ call[c].seen \in Rev \cup {"none"} /\ call[c].rev \in Rev \cup {"none"}
  /\ revision \in [Target -> Rev] /\ changes \in 0..MaxChanges /\ finished \subseteq Target

ToolsInit ==
  /\ turn = 1
  /\ cache = EmptyCache
  /\ run = [t \in Target |-> NoRun]
  /\ start = [t \in Target |-> NoStart]
  /\ registry = {} /\ queue = <<>>
  /\ call = [c \in Call |-> Fresh]
  /\ revision \in [Target -> Rev] /\ changes = 0 /\ finished = {}

-----------------------------------------------------------------------------
(* What the steps share *)

At(c, pc) == call[c].pc = pc
Goto(c, pc) == call' = [call EXCEPT ![c].pc = pc]
TargetOf(c) == call[c].target
AtHead(c) == queue # <<>> /\ Head(queue) = c
ToolOf(c) == [name |-> call[c].name, decl |-> call[c].decl]

\* a faulty IsReady: knows a tool by its name
IsReadyByName(t, tool) == run[t].status = "active" /\ \E x \in run[t].tools : x.name = tool.name
\* ready: the target's run is active and has this very declaration.
IsReady(t, tool) == run[t].status = "active" /\ tool \in run[t].tools

\* assertActiveGroup: this turn's
Active(c) == call[c].turn = turn

\* The next search follows, whether this one succeeded or failed.
Released(c) == IF AtHead(c) THEN Tail(queue) ELSE queue

\* The call returns, with a result or an error.
End(c) ==
  /\ call' = [call EXCEPT ![c] = IF @.fate = "none" \/ ~ Active(c) THEN Fresh
                                ELSE [@ EXCEPT !.pc = "idle", !.ready = FALSE, !.answer = Nothing]]
  /\ queue' = Released(c)
  /\ finished' = IF call[c].pc \in Searching /\ Active(c) THEN finished \cup {TargetOf(c)} ELSE finished

\* captureSessionTools, once the response was merged: every prepared target's
\* tools become what the cache still has of its revision.
Captured(new, t, rev) ==
  [u \in Target |->
     LET r == IF u = t THEN [status |-> "active", rev |-> rev, tools |-> {}] ELSE run[u] IN
     IF r.rev = "none" THEN r
     ELSE [r EXCEPT !.tools = IF new.of[u].rev = r.rev THEN ToolsOf(new, u) ELSE {}]]

\* replaceSessionTools, reconcileDefinitions: what is cached is registered.
Registered(new) == registry' = Entries(new)

-----------------------------------------------------------------------------
(* Tool calls *)

\* search_business_capabilities, for a tool by its name or for any
Search(c, t, name) ==
  /\ At(c, "idle")
  /\ call' = [call EXCEPT ![c] = [Fresh EXCEPT !.pc = "queued", !.turn = turn, !.target = t, !.name = name]]
  /\ queue' = Append(queue, c)
  /\ UNCHANGED <<turn, cache, run, start, registry, revision, changes, finished>>

\* A registered tool is called, under a new call id.
Execute(c, e) ==
  /\ At(c, "idle")
  /\ call' = [call EXCEPT ![c] =
       [Fresh EXCEPT !.pc = "entered", !.turn = turn, !.target = e.target, !.name = e.name, !.decl = e.decl,
                     !.ready = IsReady(e.target, [name |-> e.name, decl |-> e.decl]), !.told = e.target \in finished]]
  /\ UNCHANGED <<turn, cache, run, start, registry, queue, revision, changes, finished>>

\* The host repeats a call of this turn, under its id.
Replay(c) ==
  /\ At(c, "idle") /\ call[c].fate # "none" /\ Active(c)
  /\ call' = [call EXCEPT ![c].pc = "entered", ![c].ready = IsReady(TargetOf(c), ToolOf(c))]
  /\ UNCHANGED <<turn, cache, run, start, registry, queue, revision, changes, finished>>

\* a faulty Prepared: forgets which ids were preparations
NoneIsPrepared(c) == FALSE
\* preparedCalls has this id.
IsPrepared(c) == call[c].fate = "prepared"

\* The scope was found good: to the business, with the revision that is now the
\* call's or the run's, or a preparation instead.
Enter(c) ==
  LET k == call[c] IN
  /\ At(c, "entered") /\ Active(c)
  /\ \/ /\ IsPrepared(c) /\ End(c)
        /\ UNCHANGED cache
     \/ /\ ~ IsPrepared(c)
        /\ k.fate = "bound" \/ (k.ready /\ IsReady(k.target, ToolOf(c)))
        /\ cache' = Touch(cache, k.target, k.name)
        /\ call' = [call EXCEPT ![c].pc = "business", ![c].seen = IF k.fate = "bound" THEN k.rev ELSE run[k.target].rev]
        /\ UNCHANGED <<queue, finished>>
     \/ /\ ~ IsPrepared(c)
        /\ k.fate # "bound" /\ ~ (k.ready /\ IsReady(k.target, ToolOf(c)))
        /\ call' = [call EXCEPT ![c].pc = "queued", ![c].fate = "prepared"]
        /\ queue' = Append(queue, c)
        /\ UNCHANGED <<cache, finished>>
  /\ UNCHANGED <<turn, run, start, registry, revision, changes>>

\* The turn is over, the scope is not usable, or a request failed.
Fail(c) ==
  /\ call[c].pc \notin {"idle", "sent"}
  /\ At(c, "queued") => ~ Active(c) \/ AtHead(c)
  /\ At(c, "starting") => ~ Active(c) \/ run[TargetOf(c)].status \in {"degraded", "failed"}
  /\ End(c)
  /\ UNCHANGED <<turn, cache, run, start, registry, revision, changes>>

-----------------------------------------------------------------------------
(* Preparation *)

BeginSearch(c) ==
  /\ At(c, "queued") /\ Active(c) /\ AtHead(c)
  /\ Goto(c, "prepare")
  /\ UNCHANGED <<turn, cache, run, start, registry, queue, revision, changes, finished>>

\* ensureAuthorizedTarget: a start that failed for want of a connection is made
\* again, any other is not.
Prepare(c) ==
  LET t == TargetOf(c) IN
  /\ At(c, "prepare") /\ Active(c)
  /\ \/ /\ run[t].status \in {"none", "degraded"}
        /\ start' = [start EXCEPT ![t].state = "asked"]
        /\ run' = [run EXCEPT ![t] = NoRun]
        /\ Goto(c, "starting")
     \/ /\ run[t].status = "active"
        /\ Goto(c, "authorize") /\ UNCHANGED <<start, run>>
  /\ UNCHANGED <<turn, cache, registry, queue, revision, changes, finished>>

\* external: startTurn is answered, or its answer is lost.
Started(t) ==
  /\ start[t].state = "asked"
  /\ \/ \E a \in Answers(revision[t]) : start' = [start EXCEPT ![t] = [state |-> "answered", answer |-> a]]
     \/ start' = [start EXCEPT ![t].state = "lost"]
  /\ UNCHANGED <<turn, cache, run, registry, queue, call, revision, changes, finished>>

\* startRunOnce takes the answer; the run becomes the target's.
TakeStart(t) ==
  /\ start[t].state \in {"answered", "lost"}
  /\ start' = [start EXCEPT ![t] = NoStart]
  /\ \/ /\ start[t].state = "answered"
        /\ cache' = Merge(cache, t, start[t].answer.rev, start[t].answer.tools)
        /\ run' = Captured(cache', t, start[t].answer.rev)
     \/ /\ UNCHANGED cache
        /\ \E status \in {"degraded", "failed"} : run' = [run EXCEPT ![t] = [NoRun EXCEPT !.status = status]]
  /\ UNCHANGED <<turn, registry, queue, call, revision, changes, finished>>

\* The start is over, and the turn is not.
Prepared(c) ==
  /\ At(c, "starting") /\ Active(c)
  /\ run[TargetOf(c)].status = "active"
  /\ Goto(c, "authorize")
  /\ UNCHANGED <<turn, cache, run, start, registry, queue, revision, changes, finished>>

\* assertAuthorization passed: the declaration is there, or is searched for.
Authorized(c) ==
  LET t == TargetOf(c)
      known == \E x \in run[t].tools : x.name = call[c].name
  IN
  /\ At(c, "authorize") /\ Active(c)
  /\ IF known
     THEN /\ cache' = Touch(cache, t, call[c].name)
          /\ Registered(cache')
          /\ End(c)
     ELSE Goto(c, "search") /\ UNCHANGED <<cache, registry, queue, finished>>
  /\ UNCHANGED <<turn, run, start, revision, changes>>

\* external: searchCapabilities is answered.
Answered(c) ==
  /\ At(c, "search")
  /\ \E a \in Answers(revision[TargetOf(c)]) : call' = [call EXCEPT ![c].pc = "found", ![c].answer = a]
  /\ UNCHANGED <<turn, cache, run, start, registry, queue, revision, changes, finished>>

\* The answer is taken; its tools are the last used, and registered.
TakeAnswer(c) ==
  LET a == call[c].answer
      new == Merge(cache, TargetOf(c), a.rev, a.tools)
  IN
  /\ At(c, "found") /\ Active(c)
  /\ run' = Captured(new, TargetOf(c), a.rev)
  /\ cache' = TouchAll(new, TargetOf(c), a.tools)
  /\ Registered(new)
  /\ End(c)
  /\ UNCHANGED <<turn, start, revision, changes>>

-----------------------------------------------------------------------------
(* The business call *)

\* authorizedDefinition: the declaration must still be registered and the run's;
\* the call's revision is frozen, and the invocation sent.
Dispatch(c) ==
  LET k == call[c] IN
  /\ At(c, "business") /\ Active(c)
  /\ \/ k.fate = "bound" /\ Goto(c, "sent")
     \/ /\ k.fate # "bound"
        /\ [target |-> k.target, name |-> k.name, decl |-> k.decl] \in registry
        /\ IsReady(k.target, ToolOf(c))
        /\ call' = [call EXCEPT ![c].pc = "sent", ![c].fate = "bound", ![c].rev = run[k.target].rev]
  /\ UNCHANGED <<turn, cache, run, start, registry, queue, revision, changes, finished>>

Succeed(c) ==
  /\ At(c, "sent") /\ End(c)
  /\ UNCHANGED <<turn, cache, run, start, registry, revision, changes>>

\* external: the hub no longer has the revision, and answers capability_changed.
Refused(c) ==
  /\ At(c, "sent") /\ revision[TargetOf(c)] # call[c].rev
  /\ Goto(c, "refused")
  /\ UNCHANGED <<turn, cache, run, start, registry, queue, revision, changes, finished>>

\* a faulty Outdated: any rejection counts
AlwaysOutdated(c) == TRUE
\* executionRevision, which the call had seen before its checks, is still the target's.
Outdated(c) == run[TargetOf(c)].rev = call[c].seen /\ cache.of[TargetOf(c)].rev = call[c].seen

\* The rejection arrives, in time or not.
Reject(c) ==
  /\ At(c, "refused")
  /\ IF Active(c) /\ Outdated(c)
     THEN /\ cache' = Invalidated(cache, TargetOf(c))
          /\ run' = [run EXCEPT ![TargetOf(c)].tools = {}]
          /\ Registered(cache')
     ELSE UNCHANGED <<cache, run, registry>>
  /\ End(c)
  /\ UNCHANGED <<turn, start, revision, changes>>

-----------------------------------------------------------------------------
(* The turn and the hub *)

\* startAuthorizedRuns: the cached tools are registered, no target is prepared.
NextTurn ==
  /\ turn < MaxTurn /\ turn' = turn + 1
  /\ run' = [t \in Target |-> NoRun]
  /\ start' = [t \in Target |-> NoStart]
  /\ registry' = Entries(cache)
  /\ queue' = <<>> /\ finished' = {}
  /\ call' = [c \in Call |-> IF At(c, "idle") THEN Fresh ELSE call[c]]
  /\ UNCHANGED <<cache, revision, changes>>

Revise(t) ==
  /\ changes < MaxChanges /\ changes' = changes + 1
  /\ \E r \in Successors[revision[t]] : revision' = [revision EXCEPT ![t] = r]
  /\ UNCHANGED <<turn, cache, run, start, registry, queue, call, finished>>

Step(c) ==
  \/ Enter(c) \/ Fail(c) \/ BeginSearch(c) \/ Prepare(c) \/ Prepared(c) \/ Authorized(c)
  \/ Answered(c) \/ TakeAnswer(c) \/ Dispatch(c) \/ Succeed(c)
  \/ Refused(c) \/ Reject(c)

ToolsNext ==
  \/ \E c \in Call :
       \/ Step(c)
       \/ \E t \in Target, name \in Name \cup {"none"} : Search(c, t, name)
       \/ \E e \in registry : Execute(c, e)
       \/ Replay(c)
  \/ \E t \in Target : Started(t) \/ TakeStart(t) \/ Revise(t)
  \/ NextTurn

ToolsSpec == ToolsInit /\ [][ToolsNext]_toolsVars

-----------------------------------------------------------------------------
(* Properties *)

\* A call reaches the business with a declaration that the hub published under
\* the very revision it is sent with, however old the registration it came by.
DispatchedAsPublished ==
  \A c \in Call : call[c].fate = "bound" => call[c].decl \in Catalog[call[c].rev][call[c].name]

\* "Known conflicts survive tool eviction and local invalidation; an
\* authoritative new revision can clear them" (docs/SESSION_TOOL_REUSE.md).
ConflictsStay ==
  [][ \A t \in Target : cache'.of[t].rev = cache.of[t].rev =>
        /\ cache.of[t].quarantined => cache'.of[t].quarantined
        /\ \A n \in cache.of[t].conflicts :
             cache'.of[t].quarantined \/ n \in cache'.of[t].conflicts ]_toolsVars

\* No revision comes back after another one.
NeverReturns ==
  \A r \in Rev : r \notin Successors[r] /\ \A s \in Successors[r] : Successors[s] \subseteq Successors[r]

\* The rejection of a revision takes nothing from another one, nor from another
\* target ("A late receipt cannot invalidate a newer declaration revision.",
\* session-tools.js).  The code compares with the revision seen before the call's
\* checks, not with the one it was sent with: it holds if revisions never return.
LateRejectionSparesNewer ==
  [][ \A c \in Call, t \in Target :
        At(c, "refused") /\ call'[c].pc = "idle" /\ (t # TargetOf(c) \/ run[t].rev # call[c].rev)
          => run'[t] = run[t] /\ ToolsOf(cache', t) = ToolsOf(cache, t) ]_toolsVars

\* tests/cross-turn-tools.test.mjs: "authoritative capability_changed rejection
\* removes cached handles before rediscovery": of the target's present revision,
\* nothing is left once the hub has rejected it.
RejectedGoes ==
  [][ \A c \in Call :
        Reject(c) /\ Active(c) /\ run[TargetOf(c)].rev = call[c].rev /\ cache.of[TargetOf(c)].rev = call[c].rev
          => ToolsOf(cache', TargetOf(c)) = {} ]_toolsVars

\* The id of a preparation never becomes that of a business call ("the same call
\* ID returns its preparation result, rather than turning the old attempt into a
\* write", docs/SESSION_TOOL_REUSE.md).
PreparationNeverWrites ==
  [][ \A c \in Call : call[c].fate = "prepared" => call'[c].fate # "bound" ]_toolsVars

\* docs/SESSION_TOOL_REUSE.md: "Calls that enter concurrently before preparation
\* finishes remain preparation-only."
PreparationOnlyBefore ==
  \A c \in Call : call[c].fate = "bound" => call[c].told
=============================================================================
