# A verification development for dsh-bailinghub

`dsh-bailinghub` is a plugin that lets the DeepSeek Harness (the *host*) call governed business
tools through BailingHub Core. It keeps a conversation's scope, its journal of business calls, its
task binding and its transcript in files of the host, and talks to Core through an SDK. The plugin
has no thread of its own: everything is promises in one process, several processes may share the
record files, and every `await` is a point where something else may happen. That is where this
development looks.

The modules here are TLA+ models of `lib/`, translated from the code; TLC checks them on small
instances and TLAPS proves theorems about them for all instances. Module and definition names
follow the code's. `PROJECT.json` maps each definition to the lines it stands for.

## 1. The system

| Part | Code | State it keeps | Operations | What is hard |
|---|---|---|---|---|
| Record stores | `*-store.js` (5) | one JSON record per session, with a revision; a lock file | `load`, `save(record, expectedRevision)` | two processes, a crash or a power loss at any step, errors after the rename |
| Invocation journal | `invocation-journal.js` | last seen revision, unsaved outcomes, a failure flag | `reserve`, `update`, `find`, `status`, restore | saves that take effect but report a failure, late outcomes, a deleted file |
| Invocation dispatch | `runtime.js` 1119–1343, 2226–2500, 2660–2680 | one record per call of a run, one per panel action | execute, resume, inspect, restore | a lost invoke, a retry, a turn that ends during any await, two actors on one call |
| Session scope | `session-scope.js` | record, `pending`, `blocked`, `claimed`, `retryRequired`, `generation`, validation | `set`, `markStarted`, `begin`, `get`, `restore`, `invalidate`, `assertUsable` | a user who changes the selection while the first message is sent; proofs that arrive late |
| Conversation outbox | `conversation-outbox.js`, capture in `runtime.js` | durable transcript, pending events, a job queue, one upload | `open`, `append`, `sync`, `drain` | events captured during saves and uploads, partial and repeated uploads |
| Session task binding | `session-task.js` | immutable binding, pending save, failure | `set`, `refresh`, `coordinates`, `binding` | a save whose answer is lost, sticky storage failure |
| Turn runtime | `runtime.js` 1464–2225, 2878–3513 | claimed messages, runs, the current run and its tools, start promises, ended turns, completions | claim, assemble, start, complete, sync, dispose | answers after the turn ended, assemblies that share one begin and one start, retries of the completion |
| Model gateway | `model-gateway-transport.js`, over `usage-model-transport.js` and `session-usage-store.js` | a marker per request in the session, a record beside it, a queue per session, closed turns | `complete` (plain and streamed), `recover`, `endTurn`, `cancelTurn` | a request that is repeated or lost, closing while one is out, a host that fails to save |
| Usage streams | `stream` of `usage-model-transport.js`, `usage-llm-stream.js`, `usage-provider-stream.js` | a queue of previews, the body, a promise of the receipt | `stream`, the two converters to chunks | four parties that wait for each other, a receipt after the frames, a reader that stops early |
| Context delivery | `context-delivery.js`, `runtime.js` 2822–2876 | per session the latest delivery: generation, binding, time limit, the confirmed request | `stage`, `projection`, `confirm`, `invalidate`, `forget` | a confirmation that is verified while a newer context is assembled, changed bindings, expiry |
| Session tools | `session-tool-cache.js`, `session-tools.js`, `runtime.js` 1707–1812, 1935–2120 | declarations per target with their revision, conflicts, quarantine; the runs' tools, the registry, a chain of searches | `merge`, `touch`, `invalidate`; search, prepare, execute | eviction shared by the targets, calls by old registrations, late rejections, repeated call ids |
| Artifacts | `artifacts.js`, `artifact-store.js` | a write-once record per upload, a write-once correction of it | list, deliver | uploads that arrive late, two first uploads, a correction beside another upload |
| Projections | `capability-feedback.js`, `authorizations.js`, `knowledge.js`, ... | none | pure functions | wording and tables |

How they meet: the runtime asks the *scope* before it dispatches, archives or starts anything; a
business call is reserved in the *journal* before it is sent; the journal, the scope, the task
binding and the outbox each own one *record store*; the outbox is opened with the members of the
locked scope; a task-bound call may only be continued after a receipt.

What makes each part correct:

- **stores**: a version reported as saved is never lost and never replaced by one that does not
  contain it; a conflict means nothing was written; a reader never sees a half-written record.
- **journal and dispatch**: a call reaches Core as an `invoke` at most once, in the life of all
  hosts, and never before it is recorded; an outcome never goes back; nothing is sent for a turn that
  ended; every operation returns.
- **scope**: the gate is open only for the selection the user made last, that is stored and locked,
  and that was proved since the last loss; a lost authorization closes it for good.
- **outbox**: a captured event is in memory or stored; the hub holds a prefix of the stored
  transcript; `synced` means all of it is there; it is eventually uploaded.
- **task binding**: the stored association is never switched; a runtime that learned of it never
  dispatches without it; an unsaved one blocks; a dispatch rests on what Core says at that moment.
- **turn runtime**: tools are there only for the run of the turn that is going on; no run outlives its
  turn; a turn that goes on keeps its messages until it has a run; every assembly, and every selection
  of a task behind it, returns. (Not kept: a session is not bound to a task while an unmanaged run is
  under way, and a failed completion can be found again; see section 5.)
- **model gateway**: a request is sent as one operation that can be found again after a restart; what a
  record says of it is what the hub says; a closed turn sends nothing and resumes nothing; every call
  returns.
- **usage streams**: the loop gets a tool block or an end only when the original response is recorded,
  with text that this response begins with; after the turn's end it gets none; the original response is
  taken to its end even if nobody reads it; nobody waits for ever.
- **context delivery**: context is left out only after a request that held exactly the latest assembly;
  a late answer leaves a newer delivery alone; a delivery serves one request.
- **session tools**: a prepared target offers what the cache still has of its revision; a call is sent
  with a declaration of the revision it names; a conflict stays; where no revision
  comes back, a late rejection spares what is newer; a preparation never turns into a write; every call
  returns. (Not kept: a rejection of the present revision always removes its tools; see section 5.)
- **artifacts**: what is sent is what the durable record says; a run is taken off it only when the hub
  keeps nothing under it; an image that is ready is not uploaded again.

Section 3 says which of these are checked and section 4 which are proved. No property states that the
operations of the journal, of the dispatch and of the session tools return, that a selection of a task
behind failing starts does, that an original response is taken to its end when nobody reads it, that a
delivery serves one request, that a prepared target offers what the cache still has, and that an image
that is ready is not uploaded again: the models have the steps, the runs do not ask.

## 2. Modules

| Module | What it is |
|---|---|
| `RevisionedStore` | what a record store promises: versions that contain each other, one atomic commit (this is also exactly what the memory stores are) |
| `SessionFileStore` | `createFileInvocationStore` and its four siblings, file operation by file operation |
| `JournalPromise` | what the journal promises: one entry per invocation, at most one owner |
| `InvocationJournal` | `InvocationJournal` in several processes over one revisioned store |
| `InvocationJournalProofs` | theorems about `InvocationJournal`, with the refinement of `JournalPromise` |
| `InvocationDispatch` | the operations on one business call, in several hosts, over Core and a network |
| `InvocationDispatchProofs` | theorems about `InvocationDispatch` |
| `SessionScope` | `SessionScopeCoordinator` for one session in one runtime, with other writers of the store |
| `SessionTask` | `SessionTaskCoordinator` for one session, in one runtime beside other writers |
| `ConversationOutbox` | `ConversationOutbox` for one conversation in several hosts, with the capture in the runtime |
| `ConversationOutboxProofs` | theorems about `ConversationOutbox` |
| `TurnRuntime` | the turns of one conversation with one authorization, from the claimed message to the completion |
| `ModelGateway` | the calls of one user turn to a paid model: `complete`, `recover`, `endTurn`, `cancelTurn` over the session's queue |
| `ModelGatewayProofs` | theorems about `ModelGateway` |
| `TaskSelection` | `TurnRuntime` with a selection of a task (`setSessionTaskBinding`) in the queue the starts use |
| `RuntimeAndTaskProofs` | theorems about `SessionTask` and `TurnRuntime` |
| `UsageStream` | one streamed model request, from the gateway's frames to the chunks of the agent loop |
| `StoreAndStreamProofs` | theorems about `SessionFileStore` and `UsageStream` |
| `ContextDelivery` | `ContextDeliveryCoordinator` for one session, with the awaits of `confirmContextDelivery` |
| `SessionToolCache` | the cache as values, and what its operations make of them |
| `SessionTools` | searches, preparations and business calls of the turns of a conversation over that cache |
| `ScopeAndToolsProofs` | theorems about `SessionScope`, `SessionToolCache` and `SessionTools` |
| `ArtifactDelivery` | uploads of one image, over the record store, the host's source and the hub |
| `DeliveriesProofs` | theorems about `ArtifactDelivery` and `ContextDelivery` |
| `MC*` | instances for TLC: symmetry sets, the surroundings of the outbox, the catalogs of `SessionTools`; `MCDeliveries` has `ArtifactDelivery` and `ContextDelivery` in one instance, of which the initial state sets one to work (they share no state); `MCSessionToolsCases` is the instance of `SessionTools` that is run, whose initial state chooses between one target and two |

A module of proofs has the theorems of two components where these share no name; nothing in the proofs
of one rests on the other. Where they stand in one module, the second component's initial state, next-state
relation, specification and type carry its name (`TaskSpec`, `ToolsSpec`, `StreamSpec`, `ContextSpec`).

Between the modules the promise is what is shared: `SessionFileStore` implements `RevisionedStore`,
and the journal, scope, task and outbox modules use a store whose save is one step that either takes
effect or not, and that may fail to say so. `InvocationDispatch` in turn uses the journal as one
entry that only its owner created. `TurnRuntime` uses the scope as a begin that opens or blocks and
a gate that is closed while a validation runs, and the task binding as a queue whose jobs succeed or
fail; what these decide is the business of their own modules. `TaskSelection` extends `TurnRuntime` by
one more kind of job in that queue. `UsageStream` is a detail of `ModelGateway`: what is a step there,
a streamed request that is answered, is taken apart here, and its records are one state. `SessionTools`
takes the scope and the end of a turn as one condition (`Active`), and what becomes of a call that was
sent is `InvocationDispatch`.

### State and actions against the code

**SessionFileStore.** `file` and `lock` are the two names in the directory; `fileAfterLoss` and
`lockAfterLoss` are what those names may stand for when the power goes, because a rename or an
unlink is durable only once the directory is synced. `pc` is the await a `load` or `save` is at.
`LoadStat`/`LoadRead` are the two halves of `readRecord` (no lock is taken); `BeginSave`,
`AcquireLock`, `CheckRevision`, `WriteTemp`, `FlushTemp`, `Rename`, `SyncDirectory`, `Release` are
the awaits of `save` in order, each with its failure branch. An error after the rename reports
*unavailable* although the record is replaced: `SyncFailed` and `ReleaseFailed` keep that. A record
is abstracted to its revision and the set of changes that went into it, which is what "contains"
needs. `Crash` leaves an orphan lock that nobody removes, as the code's comment demands.

**InvocationJournal.** `revisions`, `pending` and `failures` of the code are `seen`, `unsaved` and
`failed`. One operation at a time runs per process (`serial`), read and write are separate steps,
and a save may take effect without its answer arriving (`NotConfirmed`). A deleted record
(`Remove`, while no save is between its read and its write) is the case `seen` guards against. Entry checks are abstracted to "same binding".

**InvocationDispatch.** One call, identified by the digest of session, run, call and tool. `record`
is the call's record in the run and the panel's own one; `pc` is the await an operation is at. The
checks that the code repeats between awaits (`assertLiveTargetTurn`, `signal.aborted`) read `stale`,
which `EndTurn` sets at any moment; scope, task and authorization checks are refusals that may come
at any of their awaits. `CoreTakes`, `RequestLost`, `RequestTimeout` are the environment: Core takes
a request at most once, but a request nobody waits for may still arrive. `StartResume` recovers a
call the host has no record of; a record that is there stays as it is.

**SessionScope.** The variables are the fields of an entry plus the store's record and the answers
under way. `set` is split at its awaits (`SetStart`, `SetWithdraws`, `SetWithdrawn`, `SetResolved`,
`SetConfirmed`, `SetRetracts`), as are `begin`, `get`, `restore` and `revalidate`. A save is two
steps: it takes effect, then it is answered, so reads can come in between. `GateOpen` is
`assertCurrent`, the last synchronous check before a dispatch.

**SessionTask.** `entry` holds the fields of an entry (`record`, `pending`, `intendedId` as
`intended`, `failure`, and of `snapshot` only whether the task was active), `op` the operation at
the head of the session's queue, `stored` the durable record and `core` what Core would answer now.
`set`, `refresh` (plain, as `restore`, or inside `binding({dispatch: true})`) and `coordinates` share
the steps `Read`, `Verify` (Core is asked), `Confirmed` (its answer is compared, and the operation
ends or saves), `Saved`/`NotSaved` and, for `coordinates`, `ReadAgain`; `ReadFailed` and
`VerifyFailed` are their error paths. `answer` is what the last `binding` allowed to dispatch with,
until the next call. `OtherSaves`, `Remove`, `CoreChanges` and `Restart` come at any step. `held`,
`unsaved` and `during` are history: what a property compares with.

**ConversationOutbox.** `Surroundings` is the set of circumstances a behaviour may start in: whether
turns are cancelled or steered, whether the store or the network fails, how many hosts share the
conversation, and the bounds. `box` is the entry with its queue of jobs: a job at the head runs, `append`
puts the event into `pending` at once and queues a save. The capture actions are the runtime's:
the turn start and the claimed messages behind it, a second message, the reply, a run link, the
turn's end. `sync` follows one upload through its snapshot, request, acknowledgement and drain.
`hub` is the transcript Core holds; it takes any prefix of a batch, and a request nobody waits for
may arrive late.

**TurnRuntime.** A step is what runs between two awaits that wait for a file, a request or a queue;
the awaits of promises that are already settled let nothing else in. `claims`, `ended`, `start`,
`runs`, `current`, `info` and `disposed` are the fields of `createState`, a run being its turn and
its status; `tools` is the turn whose definitions are registered. `scope` is `beginPromise` with the
assemblies that await it, `queue` the session's queue in the task coordinator with the refreshes and
bindings that wait in it, `asm` where an assembly is. `Assemble`, `BeginOpens`/`BeginBlocks` and
`Refreshed` are `onAssemble` up to `startRun`; `LoadBegins` to `Activate` are the awaits of
`startRun`, `loadSelectedSystemInfo` and `startRunOnce` in order, with `LoadFails` and `StartFails`
as their `catch`; every one looks again whether the turn is over or overtaken (`StaleTurn`).
`EndStart` is the `finally` of `startRun`, with the return to the assemblies that share it. `TurnEnd`
is the whole `turn/end` event, up to the first request of the completion; `Completed`,
`CompletionFails` and `SyncPending` are `syncRunCompletion` and `/bailinghub sync`. The host runs one
turn after the other (`Claim`).

**ModelGateway.** One user turn of one session, with requests named by their `modelRequestId`. `events`
is what the module needs of `session.events` (the markers, the closing event, whether another input has
followed), `saved` what a restart finds of it, and `unsaved` whether the host's last attempt to save
failed, which `getPrimaryStatus` tells where `Reports` holds. `sidecar` holds the records' states,
`fenced` is `host.cancelled` and `host.ended`, `badStore` is `storageFailures`. `queue` is `serial`: a
call joins it when it starts and leaves it when its job ends; `Dequeue` in `Confirm` is the point where
`complete` leaves the queue to send, and `Outcome` the one where `update` joins it again. A call's
`pc` is the await it is at. `Durable` and `NotDurable` are the two ends of `host.durable`, `Stored` and
`NotStored` those of `save`; after a failure the data may be there all the same. The checks of an abort
signal are refusals that may come at any of their places. `CheckBefore` and `CheckAfter` are the awaits of
`primary` before the request and before the receipt: what is found there may be out of date at the step
behind it, which looks at `Closed` alone. `inspect` and the cancelling loop of `close`
run inside a job of the queue and save by themselves. `hub` is the environment: it accepts or loses a
request, ends it, forgets a result after a while, and may stop one that a cancel reaches while it is
pending. `Crash` empties memory and keeps `saved` and `sidecar`.

**TaskSelection.** `Select` is the synchronous part of `setSessionTaskBinding`: it looks at `runs` and
joins `queue`; `Selected` is its job at the head, which binds the session or fails. `Starts` is every step
of `TurnRuntime`, and notes in `managed` which starts found the session bound when their question was
answered.

**UsageStream.** `producer` is `complete` with `onDelta`, from frame to frame and through the record of
the operation to its delivery; `queue` is `stream`'s, and an item's acknowledgement is the step by which
the producer leaves "offered". `pump` is who takes from the stream: the pump of
`usageNativeModelChunks`, or, for deltas, the loop through `legacyChunks` (`Taking`). `header`, `body`,
`source`, `cancelled` and `receipt` are the variables and promises of `usageNativeModelChunks`, `reader`
is its generator with the parser it runs (`Parsing`), which may ask for any chunk at any time; for deltas
it is the loop's place in `legacyChunks`. `Leave` is the beginning of `stream`'s `finally`, `PumpFails`
and `LegacyLeft` what follows once the request is over. `OpensAndFails` is a piece or a receipt that opened the
response before it was refused, `AfterEnd` the closing or failing of the body by the pump, and `Waits` the
parser in front of a body that is open and has been read. A piece of the response is a number, so that a
response that differs from what was streamed can be told.

**ContextDelivery.** `entry` is `entries.get(sessionId)`: its fields, with `confirmed` as the id of the
request, `over` for the time limit and `dead` for `invalidated`. `binding` is what
`contextDeliveryBinding` would give, and changes at any step. `Report` is `confirmContextDelivery` up to
its first await, `Verified` and `Unverified` are what follows the last one; nothing else in the
coordinator waits, so everything else is one step (`Stage`, `Invalidate`, `Project`, `Reopen`). `Usable`
and `Revoked` are the two ends of `current`. `truth` is history: the latest assembly, and the requests of
the host that held it unaltered.

**SessionTools.** The cache is a value: `kept`, all entries in the order of their use, and `of`, what is
known of a target's revision; `Merge` goes over a response in its order. `run`, `start` and `registry` are
the targets' runs, their start promises and `activeDefinitions`, `queue` is `group.searchPromise`. A call
is at one of its awaits: `Enter` is the step behind its first assertions, which decides between a
preparation (a search) and the business; `BeginSearch` to `TakeAnswer` are the search, with
`ensureAuthorizedTarget` (`Prepare`, `Started`, `TakeStart`, `Prepared`); `Dispatch` is the last check
before `executeTrackedInvocation`. `Enter` takes `executionRevision` (`seen`), and `Dispatch`, behind an await,
the revision that is sent (`rev`); the two may differ. `Refused` is the hub's `capability_changed`, `Reject`
its arrival, which compares with `seen`. A call id keeps its
`fate`, so a repeated one is `Replay`. `captureSessionTools` is `Captured`, `replaceSessionTools` is
`Registered`. `NextTurn` is `startAuthorizedRuns` with lazy targets; `Revise` is the hub,
with `Successors` for what revision may follow which.

**ArtifactDelivery.** `call` is where a `deliverArtifact` is and what it has read; the places of
`Checkpoint` are its `assertActive`, after each of which it goes on or fails (`Pass`). `phase` says which
question or upload a receipt is for. `store` is the write-once record with its correction; `Reserve` and
`SaveRepair` may fail before or after they took effect. `wire` holds requests that the hub has not taken,
also those nobody waits for; `HubKeeps` and `HubRefuses` are Core as far as the code relies on it. `Init`
ranges over what earlier versions and lost files may have left: a record with a run of an earlier turn, an
object kept in either form, a correction without its object or an object without its correction.

## 3. Runs

Every run is `tlc -config <name>.cfg <module>.tla`; `CHECK_DEADLOCK FALSE` stands where a bounded
environment runs out of things to do.

| Run | Instance | Properties and what they show |
|---|---|---|
| `SessionFileStore` | 2 processes, 2 changes, a crash, a power loss, fair steps | `ConflictMeansUnsaved`. `Implements`: `RevisionedStore`, which knows no half-written record. `EveryCallAnswers`: also behind an orphan lock |
| `InvocationJournal` | 2 processes, 2 invocations, 2 bindings, the file deleted once | `Implements`: `JournalPromise`. `OutcomeKeptUntilSaved`. `StartedByNewcomers`: a process that knew the file never starts it again |
| `InvocationDispatch` | 2 hosts, 2 operations, 2 polls, a crash, with and without a task | `AtMostOneInvoke`, `OutcomeNeverRegresses`, `NothingSentAfterTheEnd`; `ContinuesOnce` for a recovery that reads the receipt first |
| `SessionScope` | 2 scopes, every fault, another writer, a restart | `OpenScopeIsTheChosenOne`: an open gate is open for the stored, locked and last chosen scope. `OnlyFreshProofOpens`, `LossIsFinal` |
| `SessionTask` | 2 tasks, 2 terms, Core changes once, a removal, a restart, other runtimes | `AssociationIsKept`: one association for good, on disk and while it waits to be saved. `OriginalBindingOnly`: never none or another once it is known. `FreshPermission` |
| `ConversationOutbox` | 2 turns; either 1 host with every fault, a cancelled turn and a turn without its start (`Faulty`), or 2 hosts with every fault and a crash (`Shared`) | `NothingIsLost`: a captured event is stored or pending, and what is not stored is shown. `HubAgrees`: the hub holds a prefix of the stored transcript, all of it when a host says synced. `TypeOK` |
| `OutboxSynced` | 1 host, 1 turn with a steering message, fair, no fault, a crash (`Steered`) | `TurnGetsSynced`: a turn that ended in order is stored and uploaded whole, unless the host dies |
| `TurnRuntime` | 2 assemblies, 2 turns, a second message, every failure, fair steps | `OnlyTheLiveRunActs`: an answer after the turn's end, or of an overtaken turn, changes nothing. `NoTurnIsSkipped`: a turn keeps its messages until it has a run. `AssemblyReturns` |
| `ModelGateway` | 2 calls of any kind, 1 request, 2 operation ids, a restart, every failure, a host that reports its failures, fair steps | `SentIsTheOriginal`: one operation per request, with a saved marker and a record. `RecordedIsTrue`: a record that says completed, rejected, cancelled or expired agrees with the hub. `ClosedStaysClosed`: nothing is sent or resumed after a close, nor after a restart that follows it. `CallsReturn` |
| `UsageStream` | up to 3 pieces, both formats, every failure, a fair producer and pump, and a parser that may wait for ever in front of an open body | `ExecutableIsRecorded`, `LateNeverActs`. `LoopGetsAnswer`: a chunk, an error or the end |
| `SessionTools` | a cache of one tool, 2 calls, catalogs that are revised twice and never go back; 1 target with 2 tools for 2 turns, a revision of which contradicts itself, or 2 targets with 1 tool for 1 turn | `DispatchedAsPublished`, `ConflictsStay`, `PreparationNeverWrites`. `LateRejectionSparesNewer`: a rejection takes nothing from another revision than the one that was sent, nor from another target, although the code compares with the revision seen before |
| `Deliveries` | artifacts: 2 calls, 2 contents, 2 turns, a crash, every failure; or context: 2 confirmations, 2 requests, 2 bindings, 2 deliveries, resets, expiry, a reopening | artifacts: `SentIsRecorded`, `NeverRebound`, `ReturnedIsExplained`; context: `OmittedWasDelivered`, `LateLeavesNewer`; `Types` of both |

A safety property that TLAPS proves for every value of the constants is in a run only where its
violation by a plausible mistake is worth keeping visible; `OneWriter`, `NeverTorn`,
`BlockedWhileUnsaved`, `ReceiptIsKept`, `AtMostOneCreator`, `OnlyReplacesWhatItSaw` and the type
invariants of all but the outbox and the deliveries are left to the proofs.

Seven more configurations are kept beside the runs, those of the divergences in section 5; TLC finds each of
their properties **violated**:

| Configuration | Module | Property | Instance |
|---|---|---|---|
| `SessionScopeReads` | `MCSessionScope` | `ReadsNeverClose` | 2 scopes, no faults |
| `OutboxCancelled` | `MCConversationOutbox` | `UnsavedGetsSaved` | fair, no fault, a turn is cancelled |
| `SessionToolsBatch` | `MCSessionTools` | `PreparationOnlyBefore` | 1 target with one tool, 2 calls, 2 turns |
| `SessionToolsStale` | `MCSessionTools` | `RejectedGoes` | 1 target with one tool, 2 calls, 1 turn, 3 revisions of which none returns |
| `SessionToolsReturn` | `MCSessionTools` | `LateRejectionSparesNewer` | 1 target with one tool, 2 calls, 1 turn, a revision that comes back |
| `TurnRuntimeSync` | `MCTurnRuntime` | `FailedCompletionStays` | 2 assemblies, 1 turn, every failure |
| `TaskSelection` | `MCTaskSelection` | `NoUnmanagedRunIsBound` | 1 assembly, 1 turn, no failure |

**Why these bounds.** Two processes (or hosts) are enough for every lost-update and
two-owners situation: the store serialises writers, and each property relates one writer with one
other. Two changes, events or turns let one be overtaken by another. `MaxRevision` ends the runs
whose records would grow for good; it is high enough for a reservation, an outcome and a competing
outcome. `MaxAttempts = 2` lets a poll succeed after one that failed; the code's default is 60 and
nothing distinguishes the third from the second. Crashes are bounded by one or two, so that one
happens before and one after a retry. In `SessionTask` one change of Core's mind is enough to fall
between any question and the use of its answer, and one removal or restart at any step; the proofs
lift all these bounds. In `TurnRuntime` two assemblies are enough for one that starts a turn and one
that comes late, two turns for one that overtakes, and a second message in a turn for a start that
finds claimed messages again; the proofs lift these bounds for the safety properties. In `ModelGateway`
two calls are enough for a request that is repeated while the first is out, an inspection beside an
answer and a close beside either; a second request adds nothing that a property relates, and a second
operation id is what a repeated send would need. The proofs lift these bounds too. In `UsageStream` three
pieces are one that is read, one that waits and one that the producer holds; the proofs hold for any
number. In `ContextDelivery` two deliveries are an older and a newer one, and two confirmations one that
is late and one that is not. In `SessionTools` a cache with room for one of two tools evicts at every
merge, two declarations of a name are what a contradiction takes, and a second turn is what revisions and
repeated ids need; the eviction is by the target's own other tool, or by
the other target's. Three revisions let a call see one, be sent with the next and be rejected under the third,
where their declarations agree (or the call would end at `Dispatch`); the next turn begins anew, so one turn is
enough for two targets and a late rejection. In `ArtifactDelivery` a second call is the one that races, a
second turn the one whose run does not fit, a second content the one under a changed reference.
`ConversationOutbox` trades hosts for turns: what two hosts do to one transcript needs no cancelled turn,
and what a cancelled turn does needs no second host. The proofs lift the bounds of every run for its safety
properties.

**Fairness.** `FairSpec` (in `UsageStream` `FairStream`) assumes what the code's scheduling gives: a promise that can settle
settles (weak fairness of the steps of an operation), and the SDK ends every request with an answer
or an error. Nothing is assumed of the network, of Core, of the user, or of a process that holds a
lock. Uploads additionally assume that a turn's end is followed by its sync and that claimed
messages are appended, which is what the event handlers do. In `TurnRuntime` every file, request and
queue answers; that a turn ends, that a user says something or that a prompt is assembled is not
assumed. In `ModelGateway` files, the host's storage and the client answer, if only with an error, and a
promise in the queue goes on after the one before it; nothing is assumed of the hub. In `UsageStream`
the gateway's stream goes on or ends (the SDK's requests have a time limit), promises that can settle do,
and a parser goes on, and ends, while
there is something to read or the body has ended. One that waits in front of an open body is assumed to do
nothing (`Parsing /\ ~ Waits`), so only the pump's closing or failing of the body lets it go on, and
`LoopGetsAnswer` fails when either is left out; the loop is assumed to do nothing, it may stop asking
at any time.

## 4. What is proved

Every safety property of every run, invariant or action property, and the two refinements, for every value
of the constants. Liveness is checked by TLC only.

`StoreAndStreamProofs` proves of `SessionFileStore`, for every set of processes and of changes:

- `TypeCorrect`: `Spec => []TypeOK`
- `OneWriterHolds`: `Spec => []OneWriter`
- `NeverTornHolds`: `Spec => []NeverTorn`
- `StoreImplements`: `Spec => Implements`, the refinement of `RevisionedStore`
- `ConflictMeansUnsavedHolds`: `Spec => []ConflictMeansUnsaved`

The assumptions are the module's own: the special values (`Free`, `Orphan`, `Torn`, `NoTemp`) are
none of the things they must be told apart from.

`OneWriter` is not inductive: a process past the lock could find the lock gone. The invariant is
`IInv == TypeOK /\ DiskInv /\ BaseInv /\ JobInv /\ HolderInv`. `HolderInv` says that a process
past `acquireLock` owns the lock, that what it checked is still the file's version until it
renames, and that its temporary file is flushed when it renames. `JobInv` says that a job extends
the version its caller last knew by one revision; `BaseInv` that this version was contained in the
file; `DiskInv` that whatever a power loss may bring back contains everything that was reported as
saved. Each step of `Next` preserves each part (`StepInv`); the refinement step (`StepImplements`)
maps `Rename` to a commit, the end of the directory sync to a promise, and everything else to a
stutter or to a power loss. `ConflictMeansUnsaved` needs one part more, `FreshInv`: a save that has not
reached the file, or ended in a conflict, carries a change that is neither in the file nor in any other
save that still may reach it; so no other process can bring it there later.

`RuntimeAndTaskProofs` proves of `SessionTask`, for every set of tasks and terms and any number of changes, removals and
restarts:

- `TaskTypeCorrect`, `OriginalBindingHolds`, `BlockedHolds`: the invariants
- `AssociationHolds` (from `BindingIsImmutable` and `PendingHolds`), `PermissionIsFresh`: the action
  properties

from the assumptions that the special values `NoTask`, `NoRecord`, `NoAnswer` are none of the tasks,
records and answers. The properties say nothing of an operation that is under way, so none of them
is inductive. The invariant `TaskInv` adds `OpInv` (an operation under way has reset `answer`, has only
heard what Core said since it began, and is not a plain one while a store failure stands) and
`MemoryInv` (`entry.record` is what was learned first; a pending record implies a store failure
except while it is being saved; an unsaved one always does). That a store failure stays until a
restore succeeds, the first branch of `fail`, is what carries `BlockedHolds` and `PendingHolds`:
without it a later error would unblock the session with the pending record still there. TLC checked
`TaskInv` before it was proved.

Of `TurnRuntime` it proves, for every set of assemblies and any number of turns and messages, the safety
properties of the run `TurnRuntime`: `TypeCorrect`, `OnlyTheLiveRunActsHolds` (from `ToolsBelongHolds`
and `RunEndsHolds`) and `NoTurnIsSkippedHolds`, from the assumptions that the bounds are natural numbers. `RunEndsWithTurn` is
inductive by itself. The others need `TurnInv` (every turn but the last has ended, and nothing refers to
a later one), `StartInv` (a start past `clearActiveTools` belongs to a turn without tools, and a load is
the newest one or overtaken), `CompletionInv` (only ended turns are completed) and `BeginInv`; TLC
checked them first. The argument for `ToolsBelongToLiveRun`: tools can only be those of the last turn,
which has not ended; a start that ends without registering belongs to another turn, and
`recordEndedRun` leaves a newer current run alone; a start that finds its turn neither ended nor
overtaken is the last turn's own, so there are no tools yet. `LatestIsClaimed`, that the greatest
claimed turn exists, follows from the well-foundedness of the natural numbers.

`ModelGatewayProofs` proves, for every set of calls and requests and any number of operation ids and
restarts, the safety properties of the run `ModelGateway`: `TypeCorrect`, `SentIsTheOriginalHolds`,
`RecordedIsTrueHolds` and, for a host that reports its failures (`Reports`), `ClosedHolds`. The invariant
has a part for each reason: `HeadInv` (a job that has begun is the head of the queue, so there is one at
a time), `MarkerInv` (sent operations are in the saved markers, those in the markers, those have a
record, and a request has one marker), `OpInv` (which of these holds of a call's operation, by where the
call is), `SenderInv` (one call brings an operation to its being sent, and until then the hub knows
nothing of it and its record says prepared), `HeardInv` (what a call is about to record is so, and stays
so whatever the hub does next) and `FenceInv` (a closing event that is not saved is being saved or has
left a failure behind that blocks the next close). `SenderInv` needs `HeadInv`, because two calls that
prepare the same request could otherwise both find no marker; `RecordedIsTrue` needs `SenderInv`, because
a record says rejected when nothing was sent, and nothing may be sent afterwards.

`InvocationJournalProofs` proves, for every set of processes, invocations and bindings and any number of
revisions and removals: `TypeCorrect`, `AtMostOneCreatorHolds`, `StartedByNewcomersHolds`,
`OutcomeKeptHolds`, `OnlyReplacesHolds` and `JournalImplements`, that every step is one of `JournalPromise`
or a stutter. A process decides on what it read before, so none of these is inductive. `IInv` adds `OpInv`
(which operation a process is in, and what it has kept of it), `SnapInv` (revisions never decrease while
the file is there, and a record that was read and has the stored revision *is* the stored record),
`WriteInv` (what is about to be saved follows from that record), `SeenInv` (a process has seen the
revision it writes over, and one that created something has seen a record) and `CreatedInv` (what was
reported as created is in the record). `SnapInv` is the heart: it is why comparing revisions stands for
comparing records, and with `WriteInv` it makes the creator unique although a save may take effect and
report a failure.

`InvocationDispatchProofs` proves, for every set of hosts and any number of operations, polls and crashes:
`TypeCorrect`, `AtMostOneInvokeHolds`, `ContinuesOnceHolds`, `ReceiptIsKeptHolds` and the action
properties `OutcomeNeverRegressesHolds` and `NothingSentAfterTheEndHolds`. The invariant has `OwnInv` (one
host at most is the owner, nothing was sent while no entry is in the journal, and nothing while the owner
is before the gate), `WireInv` (a host has one request under way, and waits for its answer), `ResumeInv`
(where an operation that resumes can be, and how often it has asked), `OrderInv` (everything the hosts know, have
in their hands or wait to save is behind what Core has done) and `KeptInv` (what a run goes on with is in
the journal or waits to be saved). `OrderInv` is what `OutcomeNeverRegresses` rests on: an answer that was
computed from the journal's present outcome cannot be behind it, and one that was not is refused.

`ScopeAndToolsProofs` proves of `SessionScope`, for every set of selections and any number of revisions, other writers and
restarts: `TypeCorrect`, `OnlyFreshProofOpensHolds`, `LossIsFinalHolds` and `OpenScopeIsTheChosenOneHolds`. `FreshInv` says that a
validation of the present generation began after the last invalidation, `ProvenInv` that a selection that
is neither blocked nor to be checked again was proved since then, `LostInv` that a confirmed loss leaves the entry blocked;
`SetInv` and `BeginInv` say where a selection and a begin may be meanwhile. The last theorem is proved on
top of these with `ChosenInv`: what the entry remembers, has loaded or is about to see saved is the stored
record or an older one (`BehindInv`), a record is written only over an unfrozen one by the call that waits
for it (`SaveInv`, `WriteInv`), and the user's last choice is followed from the question (`AskedInv`) through
the draft (`DraftInv`) and the write that freezes it (`LockInv`) to the frozen record (`FrozenInv`), unless
another runtime replaced the draft, whose freezing is then refused.

`StoreAndStreamProofs` proves of `UsageStream`, for any number of pieces and both formats: `StreamTypeCorrect`,
`ExecutableIsRecordedHolds` and `LateNeverActsHolds`. `QueueInv` (what is in the queue, at most one item, belongs to where the producer
is), `HeldInv` (the loop itself holds the last event of a legacy stream), `RecordInv` (a response that may let the loop
act was recorded first), `ReceiptInv` (the receipt is the last event, and comes before any chunk to act
on) and `TextInv` (the loop was shown how the body begins, and the body is the saved response once there is
a receipt) make it inductive.

`ConversationOutboxProofs` proves, for every set of surroundings and so for any number of hosts, turns,
events and crashes: `TypeCorrect`, `HubAgreesHolds` and `NothingIsLostHolds`. `RecordInv` says that a host's
copy of the record is an earlier state of the stored one or that one, with fewer events; `HubInv` that
nothing is with the hub or on its way there that is not on disk; `SaveInv` that a save under way extends the
copy it was made from and says synced only of what was acknowledged; `UploadInv` that an upload is in one
place only. `ShownInv` is what hides nothing: unsaved events are shown, or a job that will save them waits in
the queue, a second one when the save at its head was prepared before the last capture. A save is a fold
over the pending events, whose result is described by induction (below).

`ScopeAndToolsProofs` proves of `SessionTools`, for every set of targets, names, declarations, revisions and
calls, every catalog and any number of turns: `ToolsTypeCorrect`, `DispatchedAsPublishedHolds`,
`PreparationNeverWritesHolds`, `ConflictsStayHolds` and, where no revision comes back after another one
(`NeverReturns`, which TLC evaluates in `MCSessionToolsCases`), `LateRejectionSparesNewerHolds`. `ToolsInvariant`
follows a declaration on its way: what the cache keeps, every answer under way, what a run captured and what a
dispatched call carries are each as the hub published them for the revision they stand with; a call on its way
to the business is none whose id was a preparation's. The lemmas say what each operation of the cache does:
`Only` keeps what is asked for and the order, `Merge` never loses a conflict of its revision, `TouchAll` only
reorders. The last theorem needs `OrderInvariant`: what the hub declares now follows, or is, every revision that
a run, an answer or a call of this turn holds (`Since`), and what a call saw is not newer than what it was sent
with, nor this than what the target's run has. If the run still has what the call saw, then it has what was
sent, because no revision comes back. Without the hypothesis it is false (section 5, 7).

`DeliveriesProofs` proves of `ArtifactDelivery`, for every set of calls and images and any number of turns and
crashes, `SentIsRecordedHolds`, `NeverReboundHolds` and `ReturnedIsExplainedHolds`, and of `ContextDelivery`,
for every set of confirmations, requests and bindings, `OmittedWasDeliveredHolds` and
`LateLeavesNewerHolds`; `TypesHold` is of both. What makes the first three inductive is `CallKnows`: what a call
has read of the durable record is still so, because the record is written once and its correction never taken
back; a call that has read the image has the recorded one; and between the hub's second answer and the
correction the hub still keeps nothing that names an earlier run, because it takes no such request. For the
others, `EntryIsTrue` says that the entry is the latest assembly's and what it holds confirmed was in a
request that held all of it, `ReportsAreTrue` that so was what a confirmation under way says, if it names the
latest assembly, and `Counted` that a new assembly's id is none that was given before.

**How far the provers go.** An operation that goes over a sequence is written with `FoldLeft` of the community
modules. Induction over such data is in reach: the fold's function over the sets `1..n` exists and is unique
(`FoldExists`), and a set of natural numbers that holds 0 and every successor is all of them (`Induction`, from the
well-foundedness of `<`); the property is then that of a set of values that each element keeps (`FoldRuns`).
`RECURSIVE` operators, and `SelectSeq`, are not; no module that is proved about uses them.

Assumptions on constants are those named in the modules: bounds are natural numbers, and special values are
none of the things they must be told apart from.

Model-checked only: liveness, which is, with `ENABLED`, out of the prover's reach: `EveryCallAnswers`,
`TurnGetsSynced`, `AssemblyReturns`, `CallsReturn`, `LoopGetsAnswer`.

## 5. Findings

Each is shown by the configuration of its name in section 3.

1. **A read can close the scope** (`SessionScopeReads`, `session-scope.js:166`). `checkStored`
   compares the record it loads with the one it remembered. When `begin` is saving the lock at that
   moment, the load may already return the new record while `entry.record` is still the draft; the
   mismatch sets `blocked`, and nothing in that runtime clears it. The contract says that a read
   only reads and lists what may block.
2. **A cancelled turn can stall the outbox** (`OutboxCancelled`, `runtime.js:1460`).
   `archiveTurnStart` appends the claimed message after it awaited the save of the turn's start. If
   the turn is cancelled meanwhile, its end is appended first and the message behind it is refused
   (`ARCHIVE_EVENT_ORDER`) by every later save, with all that follows it.

3. **A call beside the preparation is not held back** (`SessionToolsBatch`, `session-tools.js:227`).
   `preparedAtEntry` asks whether the target's run is active, which it is as soon as `startTurn` was
   answered; the preparing call may go on to search and has returned nothing to the model yet. A call
   of a tool kept from an earlier turn that enters in between goes to the business, although
   `docs/SESSION_TOOL_REUSE.md:188` says that it remains a preparation.
4. **A completion can get lost for `/bailinghub sync`** (`TurnRuntimeSync`, `runtime.js:1503`). An
   assembly that still awaits the scope's begin replaces the run of its turn by an inactive one when
   the scope is then blocked, also after the turn has ended; `syncPendingCompletions` no longer finds
   the completion that `docs/AGENT_CLIENT_CONTRACT.md:685` says it sends again.
5. **A selection can bind a session with an unmanaged run** (`TaskSelection`, `runtime.js:1027`).
   `setSessionTaskBinding` looks for runs before it queues the selection; a start that has already
   been told that there is no binding has no run yet, and registers it in the bound session, which
   `docs/TASK_CONTROL.md:142` excludes.

6. **A rejection may remove nothing** (`SessionToolsStale`, `session-tools.js:244`). `executionRevision` is
   read before `business.execute`, the revision that is sent behind its await (`runtime.js:1783`, 1800). If a
   search brings the next revision in between, the rejection of what was sent is compared with the revision
   before it: the rejected tools stay registered, although
   `tests/cross-turn-tools.test.mjs:318` says that a rejection removes them.
7. **A late receipt may remove a revision that came back** (`SessionToolsReturn`, `session-tools.js:244`).
   A call saw r1 and was sent with r2 as in 6; when the catalog is back at r1 and a search has brought it,
   the late rejection of r2 finds r1 and removes it. The comment at `session-tools.js:258` says that a late
   receipt does not invalidate a newer revision. It takes a revision that comes back; where none does, this is
   excluded (section 4).

The model shows some more, for which no configuration is kept.

*Late assemblies.* `onAssemble` decides at `runtime.js:1495` whether its turn needs a start, and then
awaits the scope's begin and the task's refresh. An assembly that decided while another one's start
was under way may go on only after that start is over; `startRun` then finds no promise and starts
the turn again. Three things follow, each a short counterexample in `TurnRuntime`:

- The second start removes the active run's tools (1957) and finds no claimed message (1967), so the
  turn goes on without tools: `IsActive(runs, current) /\ ~ disposed => tools = current` fails, with
  no failure of anything. `tests/session-scope.test.mjs:517` expects concurrent assemblies to show the
  tool, for assemblies that begin together. With a second message in the turn the turn is sent to
  BailingHub twice, with other input; the tools stay removed, as `assertRegistryTurn` refuses the second
  run.
- When the turn has ended meanwhile, the second start, too, replaces the run's record by one without a
  run id, with the consequence of finding 4.
- A second assembly's begin closes the gate while it validates; the first start's
  `connectionOptions` then throws, and the turn is degraded although nothing was wrong with the scope.

A turn that ended before any assembly leaves its claim behind; when the scope is blocked only the
newest turn's claims are deleted (1504), and a later assembly starts the old turn. With three assemblies
this even puts `currentRun` back to the old turn, and a later start then activates a run for a turn that
was degraded before.

*A close that was not saved.* `close` appends its event, and only the call that appended it waits for it
to be durable (`model-gateway-transport.js:193`). If that fails and the host does not tell of it
(`getPrimaryStatus` is optional), a second close finds the event in memory, saves nothing and returns;
after a restart the turn is open again. `ClosedStaysClosed` fails so with `Reports = FALSE`.

*Records.* An `update` of a call that heard nothing may put a record that an inspection has completed
back to unknown; `status` then lists it once more. A request whose intent was saved but not sent because
the host stopped is looked up and never sent under the same `modelRequestId`.

*Captures.* A reply of a turn whose scope is blocked is
captured when an earlier turn enabled the archive, although this turn's start never was
(`runtime.js:2895`, the action `CaptureUnopened`); it is refused as in 2, so `UnsavedGetsSaved` fails
wherever `Unopened` is `TRUE`.

*Bindings that change back.* `docs/CONTEXT_DELIVERY.md` says that a binding that changed back does not
revive an old delivery. The coordinator notices a change only when it is asked in between (`current`);
a binding that changes and changes back without a projection, a manifest or a confirmation meanwhile
leaves the delivery as it was.

Two more things a reader should know, which are not disagreements with a document: a save whose
answer is lost leaves the scope's and the outbox's own copy one revision behind, so later saves of
that process conflict until it restarts; and a lock file left by a dead process makes every later
save fail until somebody deletes it.

## 6. Not modelled, and why

- Owner, mode and link checks of files, and the Windows branches: they depend on the platform and
  guard the same steps.
- Formatting, projections, public error tables, wording (`capability-feedback.js` and others).
- `verifiedSelection` and `assertUsable` as separate actions: they read what `GateOpen` reads.
- `restoreExisting` and `coverage` of the outbox; the hash conflict of an event that is appended
  twice with different text; the `unsupported` state.
- A call whose execution failed before it was reserved, but of which the host has a record without an entry:
  `InvocationDispatch` has such a call recovered with an entry; in the code its outcome stays in memory only.
- A journal without a store: `reserve` then answers `created` and nothing is recoverable.
- `SessionTaskCoordinator.view`, which a host shows, and the several members of a task, whose answers
  are one (`verify` refuses them unless they agree).
- Turns with several authorizations without a tool cache (`startAuthorizedRuns` that starts them all,
  `completeAuthorizedRuns`) and the single tools of a set: `TurnRuntime` has one authorization and
  registers a set as a whole. `SessionTools` has the lazily prepared targets, but no completions.
- In `SessionTools`: the limits of bytes, metadata and targets of the cache (they end in the same
  eviction, quarantine or refusal as the number of tools), usage guidance, a target that is started by a
  resume, declarations shared by several targets of one system, and which tools are shown.
- In `UsageStream`: what a parser makes of the bytes, usage chunks, the limit of 4 MiB as a number.
- In `ArtifactDelivery`: the file operations of the store, which writes a temporary file and links it
  under the record's name, and the checks of a descriptor's fields.
- The save whose answer is lost and leaves the scope's copy one revision behind (`session-scope.js:156`):
  that a user can select again is not kept by the code until a restart, and no document says that it is.
- The model cache, `status`, the checks of binding, hash and event, requests outside a user turn
  (`prepareRequest`): `ModelGateway` keeps the frames only as the possibility that an error comes after
  some of them, and `UsageStream` has them.
- SDK and Core: environment, as narrow as the code relies on.

## 7. Plan

In this order, most important first:

1. An abstract specification of the dispatch (what a caller may conclude from an outcome), which
   `InvocationDispatch` implements with the invariants that are proved, and one of the outbox as an append-only
   transcript.
2. `TurnRuntime` with several authorizations that are all started (`completeAuthorizedRuns`).
3. A composition of `SessionScope`'s gate with `InvocationDispatch` (a gate closed between the last
   check and the request), and of `SessionTools` with `ContextDelivery`.
4. That every call of `SessionTools` returns, and a selection of a task behind failing starts.

The set of runs stays small: a new component brings one run with its safety and, where its steps are
fair, its liveness properties, and replaces a run whose question another one can answer too.
