------------------------- MODULE ArtifactDelivery -------------------------
(***************************************************************************)
(* Uploads of one generated image under one authorization                  *)
(* (lib/artifacts.js: deliverArtifact, over lib/artifact-store.js, called  *)
(* by upload_generated_artifacts in lib/runtime.js).  The upload has one   *)
(* id for ever and a record that is written once, before the first         *)
(* request.  A record that names a run of another turn is refused by the   *)
(* hub; it is corrected by a second write-once record, never rewritten.    *)
(*                                                                         *)
(* A step is what runs between two awaits of a file or a request.  All     *)
(* reasons why assertActive fails (the turn is over, aborted, or its       *)
(* authorization lost) are one: the turn is over.                          *)
(***************************************************************************)
EXTENDS Naturals

CONSTANTS
  Call,        \* calls that may be under way at once
  Content,     \* what the host may offer under the image's reference
  MaxTurn,     \* bound: turns of the conversation
  MaxCrashes   \* bound: how often the host stops

ASSUME MaxTurnIsNat == MaxTurn \in Nat \ {0}
ASSUME MaxCrashesIsNat == MaxCrashes \in Nat
ASSUME NoneIsNoContent == "none" \notin Content

Turn == 1..MaxTurn

\* metadata.runId: absent, of the upload's own turn, or of an earlier turn
\* (only in records of versions before 0.6).
Run == {"none", "own", "earlier"}
Meta == [content : Content, turn : Turn, run : Run]
NoMeta == [content |-> "none", turn |-> 0, run |-> "none"]
Upload == [body : Content, meta : Meta]

VARIABLES
  turn,      \* the turn that is active
  source,    \* external: what artifactSource.read gives, if it does
  store,     \* the record of the upload and whether its correction is there
  call,      \* the calls: where they are and what they have read
  wire,      \* external: requests to upload that the hub has not taken
  hub,       \* external: what the hub keeps under the upload id
  returned,  \* history: what calls returned as uploaded
  crashes

vars == <<turn, source, store, call, wire, hub, returned, crashes>>

\* Where a call is.  At a place of Checkpoint it is in assertActive.
Checkpoint == {"ask", "source", "attach", "detach", "resend", "accept"}
Place == Checkpoint \cup {"idle", "record", "repair", "asked", "receipt", "read",
                          "reserve", "load", "send", "sent", "detaching", "reload"}
\* What a request or a receipt is for: the question before anything is sent,
\* the upload, the question after its refusal, and the corrected upload.
Phase == {"first", "upload", "proof", "corrected"}

Idle == [pc |-> "idle", phase |-> "first", turn |-> 0, run |-> "none", record |-> NoMeta,
         repair |-> FALSE, body |-> "none", heard |-> NoMeta, ready |-> FALSE]

TypeOK ==
  /\ turn \in Turn /\ source \in Content
  /\ store \in [record : Meta \cup {NoMeta}, repair : BOOLEAN]
  /\ call \in [Call -> [pc : Place, phase : Phase, turn : Turn \cup {0}, run : Run,
                        record : Meta \cup {NoMeta}, repair : BOOLEAN,
                        body : Content \cup {"none"}, heard : Meta \cup {NoMeta},
                        ready : BOOLEAN]]
  /\ wire \subseteq [by : Call, upload : Upload]
  /\ hub \in [state : {"none", "pending", "ready"}, meta : Meta \cup {NoMeta}]
  /\ returned \subseteq Meta
  /\ crashes \in 0..MaxCrashes

\* a faulty WithoutRun: drops the turn as well
WithoutTurn(meta) == [meta EXCEPT !.run = "none", !.turn = 0]
WithoutRun(meta) == [meta EXCEPT !.run = "none"]

\* What was left from before: nothing, or a record of turn 1 that the hub has
\* not seen, keeps, or keeps in its corrected form; the corrected object's
\* correction, or a correction's record, may have been lost on this side.
Init ==
  /\ turn = 1
  /\ source \in Content
  /\ store \in [record : {NoMeta} \cup [content : Content, turn : {1}, run : {"earlier"}],
                repair : BOOLEAN]
  /\ hub \in [state : {"none", "pending", "ready"}, meta : {NoMeta, store.record, WithoutRun(store.record)}]
  /\ hub.state = "none" <=> hub.meta = NoMeta
  /\ store.repair => hub.meta \in {NoMeta, WithoutRun(store.record)}
  /\ call = [c \in Call |-> Idle]
  /\ wire = {} /\ returned = {} /\ crashes = 0

-----------------------------------------------------------------------------
(* What the steps share *)

At(c, pc) == call[c].pc = pc
Goto(c, pc) == call' = [call EXCEPT ![c].pc = pc]

\* An error is thrown: artifactFailure makes it the item's result.
Fail(c) == call' = [call EXCEPT ![c] = Idle]

Active(c) == call[c].turn = turn

\* loadRepair: a correction without a record that needs one, or one that was
\* there before and is gone, is storage_error.
LoadRepair(c, next) ==
  IF \/ store.repair /\ call[c].record.run = "none"
     \/ ~ store.repair /\ call[c].repair
  THEN Fail(c)
  ELSE call' = [call EXCEPT ![c] = [next EXCEPT !.repair = store.repair]]

Expected(k) == IF k.repair THEN WithoutRun(k.record) ELSE k.record

-----------------------------------------------------------------------------
(* What was done before: the record, its correction, the hub's object *)

\* upload_generated_artifacts takes this image: its run is the one active in
\* this turn, if there is one.
Begin(c, run) ==
  /\ At(c, "idle")
  /\ call' = [call EXCEPT ![c] = [Idle EXCEPT !.pc = "record", !.turn = turn, !.run = run]]
  /\ UNCHANGED <<turn, source, store, wire, hub, returned, crashes>>

ReadRecord(c) ==
  /\ At(c, "record")
  /\ \/ call' = [call EXCEPT ![c].pc = "repair", ![c].record = store.record]
     \/ Fail(c)
  /\ UNCHANGED <<turn, source, store, wire, hub, returned, crashes>>

ReadRepair(c) ==
  /\ At(c, "repair")
  /\ \/ LoadRepair(c, [call[c] EXCEPT !.pc = IF call[c].record = NoMeta THEN "source" ELSE "ask"])
     \/ Fail(c)
  /\ UNCHANGED <<turn, source, store, wire, hub, returned, crashes>>

\* assertActive passes, and what follows it is begun.
Pass(c, from, to) ==
  /\ At(c, from)
  /\ IF Active(c) THEN Goto(c, to) ELSE Fail(c)
  /\ UNCHANGED <<turn, source, store, wire, hub, returned, crashes>>

Ask(c) == Pass(c, "ask", "asked")

\* What follows the answer "artifact_not_found".
NotFound(c) == Goto(c, IF call[c].phase = "first" THEN "source" ELSE "detach")

\* getArtifact is answered, or fails.
Look(c) ==
  /\ At(c, "asked")
  /\ \/ hub.state = "none" /\ NotFound(c)
     \/ /\ hub.state # "none"
        /\ call' = [call EXCEPT ![c].pc = "receipt", ![c].heard = hub.meta, ![c].ready = hub.state = "ready"]
     \/ Fail(c)
  /\ UNCHANGED <<turn, source, store, wire, hub, returned, crashes>>

\* Where a receipt that is as expected leads.
AfterReceipt(k) ==
  CASE k.ready \/ k.phase \in {"upload", "corrected"} -> "accept"
    [] ~ k.ready /\ k.phase = "first" -> "source"
    [] OTHER -> "refused"

\* a faulty CheckReceipt: takes the corrected object without its correction
CheckReceiptLoosely(c) ==
  LET k == [call[c] EXCEPT !.repair = store.repair] IN
  /\ At(c, "receipt")
  /\ \/ /\ k.heard \in {Expected(k), WithoutRun(k.record)} /\ AfterReceipt(k) # "refused"
        /\ LoadRepair(c, [k EXCEPT !.pc = AfterReceipt(k)])
     \/ Fail(c)
  /\ UNCHANGED <<turn, source, store, wire, hub, returned, crashes>>
\* checkReceipt, once loadRepair has read the correction
CheckReceipt(c) ==
  LET k == [call[c] EXCEPT !.repair = store.repair] IN
  /\ At(c, "receipt")
  /\ \/ /\ k.heard = Expected(k) /\ AfterReceipt(k) # "refused"
        /\ LoadRepair(c, [k EXCEPT !.pc = AfterReceipt(k)])
     \/ Fail(c)
  /\ UNCHANGED <<turn, source, store, wire, hub, returned, crashes>>

\* The result is returned.  (A pending receipt of an upload is, too.)
Accept(c) ==
  /\ At(c, "accept")
  /\ returned' = IF Active(c) THEN returned \cup {call[c].heard} ELSE returned
  /\ Fail(c)
  /\ UNCHANGED <<turn, source, store, wire, hub, crashes>>

-----------------------------------------------------------------------------
(* The upload *)

Source(c) == Pass(c, "source", "read")

\* The image is listed and read; its digest is that of the listed entry.
Read(c) ==
  /\ At(c, "read")
  /\ \/ /\ call[c].record.content \in {source, "none"}
        /\ call' = [call EXCEPT ![c].pc = IF call[c].record = NoMeta THEN "reserve" ELSE "attach",
                                ![c].body = source]
     \/ Fail(c)
  /\ UNCHANGED <<turn, source, store, wire, hub, returned, crashes>>

\* The record that the store holds once this one was offered.
Reserved(c) ==
  IF store.record = NoMeta
  THEN [content |-> call[c].body, turn |-> call[c].turn, run |-> call[c].run]
  ELSE store.record

\* a faulty Reserve: takes the record for its own
ReserveUnread(c) ==
  /\ At(c, "reserve")
  /\ store' = [store EXCEPT !.record = Reserved(c)]
  /\ call' = [call EXCEPT ![c].pc = "attach",
       ![c].record = [content |-> call[c].body, turn |-> call[c].turn, run |-> call[c].run]]
  /\ UNCHANGED <<turn, source, wire, hub, returned, crashes>>
\* reserve gives the record that was first; it may also fail, before or after
\* the record was written.
Reserve(c) ==
  /\ At(c, "reserve")
  /\ \/ /\ store' = [store EXCEPT !.record = Reserved(c)]
        /\ \/ /\ Reserved(c).content = call[c].body
              /\ call' = [call EXCEPT ![c].pc = "attach", ![c].record = Reserved(c)]
           \/ Fail(c)
     \/ UNCHANGED store /\ Fail(c)
  /\ UNCHANGED <<turn, source, wire, hub, returned, crashes>>

Attach(c) == Pass(c, "attach", "load")

Load(c) ==
  /\ At(c, "load")
  /\ \/ LoadRepair(c, [call[c] EXCEPT !.pc = "send"])
     \/ Fail(c)
  /\ UNCHANGED <<turn, source, store, wire, hub, returned, crashes>>

Sending(c) == wire' = wire \cup {[by |-> c, upload |-> [body |-> call[c].body, meta |-> Expected(call[c])]]}

\* uploadArtifact.  Nothing is asserted after the correction was read.
Send(c) ==
  /\ At(c, "send")
  /\ Sending(c)
  /\ call' = [call EXCEPT ![c].pc = "sent", ![c].phase = "upload"]
  /\ UNCHANGED <<turn, source, store, hub, returned, crashes>>

\* The request fails or times out; the hub may still take it.
GiveUp(c) ==
  /\ At(c, "sent")
  /\ Fail(c)
  /\ UNCHANGED <<turn, source, store, wire, hub, returned, crashes>>

-----------------------------------------------------------------------------
(* The correction of a record that names a run of another turn *)

\* a faulty Refused: corrects without asking what the hub keeps
CorrectedAtOnce(c, exact) ==
  IF exact /\ call[c].phase = "upload" /\ ~ call[c].repair /\ call[c].record.run # "none"
  THEN call' = [call EXCEPT ![c].pc = "detach", ![c].phase = "proof"]
  ELSE Fail(c)
\* The hub's refusal reaches the call that waits.  Only the exact one, of a
\* record with a run and no correction yet, is looked into.
Refused(c, exact) ==
  IF exact /\ call[c].phase = "upload" /\ ~ call[c].repair /\ call[c].record.run # "none"
  THEN call' = [call EXCEPT ![c].pc = "ask", ![c].phase = "proof"]
  ELSE Fail(c)

Detach(c) == Pass(c, "detach", "detaching")

\* reserve(repairRecord())
SaveRepair(c) ==
  /\ At(c, "detaching")
  /\ \/ store' = [store EXCEPT !.repair = TRUE] /\ (Goto(c, "reload") \/ Fail(c))
     \/ UNCHANGED store /\ Fail(c)
  /\ UNCHANGED <<turn, source, wire, hub, returned, crashes>>

Reload(c) ==
  /\ At(c, "reload")
  /\ \/ store.repair /\ LoadRepair(c, [call[c] EXCEPT !.pc = "resend"])
     \/ Fail(c)
  /\ UNCHANGED <<turn, source, store, wire, hub, returned, crashes>>

Resend(c) ==
  /\ At(c, "resend")
  /\ IF Active(c)
     THEN Sending(c) /\ call' = [call EXCEPT ![c].pc = "sent", ![c].phase = "corrected"]
     ELSE Fail(c) /\ UNCHANGED wire
  /\ UNCHANGED <<turn, source, store, hub, returned, crashes>>

-----------------------------------------------------------------------------
(* The hub, the host and the time *)

\* The call that sent m, if it still waits for the answer to it.
Waits(m) == At(m.by, "sent") /\ call[m.by].body = m.upload.body /\ Expected(call[m.by]) = m.upload.meta

\* external: the hub refuses a run of an earlier turn, an image that is not
\* what its metadata says, and other metadata for what it keeps.  Only
\* Core 0.8.0 tells the first from the others.
HubRefuses(m) ==
  /\ m \in wire /\ wire' = wire \ {m}
  /\ LET wrong == m.upload.meta.run = "earlier"
         other == m.upload.body # m.upload.meta.content \/ hub.meta \notin {NoMeta, m.upload.meta}
     IN /\ wrong \/ other
        /\ IF Waits(m) THEN \E exact \in {wrong, FALSE} : Refused(m.by, exact) ELSE UNCHANGED call
  /\ UNCHANGED <<turn, source, store, hub, returned, crashes>>

\* external: the hub keeps the image, at once or only begun.
HubKeeps(m) ==
  /\ m \in wire /\ wire' = wire \ {m}
  /\ m.upload.meta.run # "earlier" /\ m.upload.body = m.upload.meta.content
  /\ hub.meta \in {NoMeta, m.upload.meta}
  /\ \E state \in IF hub.state = "ready" THEN {"ready"} ELSE {"pending", "ready"} :
       /\ hub' = [state |-> state, meta |-> m.upload.meta]
       /\ IF Waits(m)
          THEN call' = [call EXCEPT ![m.by].pc = "receipt", ![m.by].heard = m.upload.meta,
                                    ![m.by].ready = state = "ready"]
          ELSE UNCHANGED call
  /\ UNCHANGED <<turn, source, store, returned, crashes>>

\* The turn ends, and the next begins.
NextTurn ==
  /\ turn < MaxTurn /\ turn' = turn + 1
  /\ UNCHANGED <<source, store, call, wire, hub, returned, crashes>>

\* external: the host offers another image under the reference.
SourceChanges ==
  /\ source' \in Content \ {source}
  /\ UNCHANGED <<turn, store, call, wire, hub, returned, crashes>>

Crash ==
  /\ crashes < MaxCrashes /\ crashes' = crashes + 1
  /\ call' = [c \in Call |-> Idle]
  /\ UNCHANGED <<turn, source, store, wire, hub, returned>>

Step(c) ==
  \/ \E run \in {"none", "own"} : Begin(c, run)
  \/ ReadRecord(c) \/ ReadRepair(c) \/ Ask(c) \/ Look(c) \/ CheckReceipt(c) \/ Accept(c)
  \/ Source(c) \/ Read(c) \/ Reserve(c) \/ Attach(c) \/ Load(c) \/ Send(c) \/ GiveUp(c)
  \/ Detach(c) \/ SaveRepair(c) \/ Reload(c) \/ Resend(c)

Next ==
  \/ \E c \in Call : Step(c)
  \/ \E m \in wire : HubRefuses(m) \/ HubKeeps(m)
  \/ NextTurn \/ SourceChanges \/ Crash

Spec == Init /\ [][Next]_vars

-----------------------------------------------------------------------------
(* Properties *)

\* Whatever calls of several turns race for the first record, whatever the host
\* offers under the reference meanwhile and wherever it stops: a request to
\* upload carries the image and the links of the durable record, or of its
\* durable correction (deliverArtifact, "One immutable original target per
\* receipt").
SentIsRecorded ==
  \A m \in wire :
    /\ m.upload.body = store.record.content
    /\ \/ m.upload.meta = store.record
       \/ store.repair /\ m.upload.meta = WithoutRun(store.record)

\* A run is taken off the record only when the hub keeps nothing under its link:
\* "pending" is not bound anew (docs/GENERATED_ARTIFACTS.md).  Two answers stand
\* between the refusal and the correction, and other calls between those.
NeverRebound ==
  store.repair /\ store.record.run = "earlier" => hub.meta # store.record

\* What is returned to the model is what the hub keeps, and is explained by what
\* is saved here: a corrected object whose correction was lost is not taken for
\* a success (checkReceipt, "a history gap, not permission").
ReturnedIsExplained ==
  \A meta \in returned :
    /\ hub.meta = meta
    /\ meta = store.record \/ (store.repair /\ meta = WithoutRun(store.record))
=============================================================================
