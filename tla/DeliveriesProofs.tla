-------------------------- MODULE DeliveriesProofs --------------------------
(***************************************************************************)
(* Proofs about the two delivery protocols of a session, ArtifactDelivery  *)
(* and ContextDelivery: for every set of calls, images, confirmations and  *)
(* requests, any number of turns, deliveries and crashes.                  *)
(***************************************************************************)
EXTENDS MCDeliveries, TLAPS

-----------------------------------------------------------------------------
(* Artifacts: the inductive invariant *)

\* The places at which the image has been read for the record the call has.
Bodied == {"attach", "load", "send", "sent", "detach", "detaching", "reload", "resend"}

\* What a call has read of the durable record is still so: the record is written
\* once, and its correction is never taken back.  From the reading of the image on
\* the call has the recorded image.
CallKnows(k) ==
  /\ k.run # "earlier"
  /\ k.pc # "idle" => k.turn \in Turn
  /\ k.record \in {NoMeta, store.record}
  /\ k.repair => store.repair
  /\ k.pc \in Bodied \/ k.phase # "first" => k.record # NoMeta /\ k.body = k.record.content
  /\ k.pc = "reserve" => k.body \in Content
  \* the hub was asked after its refusal, and had nothing under the earlier run
  /\ k.pc \in {"detach", "detaching"} => hub.meta = NoMeta \/ hub.meta.run # "earlier"
  \* what was heard is what the hub keeps, and, once checked, what is explained
  /\ k.pc \in {"receipt", "accept"} => k.heard = hub.meta /\ hub.meta # NoMeta
  /\ k.pc = "accept" => k.heard = Expected(k)

HubKnows == hub.state = "none" <=> hub.meta = NoMeta

ArtifactInv ==
  /\ TypeOK /\ HubKnows
  /\ \A c \in Call : CallKnows(call[c])
  /\ SentIsRecorded /\ NeverRebound /\ ReturnedIsExplained

CallRec == [pc : Place, phase : Phase, turn : Turn \cup {0}, run : Run,
            record : Meta \cup {NoMeta}, repair : BOOLEAN,
            body : Content \cup {"none"}, heard : Meta \cup {NoMeta}, ready : BOOLEAN]

\* A call that is not under way knows nothing, which is right.
LEMMA IdleIs == Idle \in CallRec /\ CallKnows(Idle)
  <1>1. Idle \in CallRec
    BY DEF Idle, CallRec, Place, Checkpoint, Phase, Run
  <1>2. /\ Idle.run = "none" /\ Idle.pc = "idle" /\ Idle.record = NoMeta /\ Idle.repair = FALSE
        /\ Idle.phase = "first"
    BY DEF Idle
  <1> QED
    BY <1>1, <1>2 DEF CallKnows, Bodied

LEMMA NoMetaIs == NoMeta.content = "none" /\ NoMeta.run = "none" /\ NoMeta \notin Meta
  <1>1. NoMeta.content = "none" /\ NoMeta.run = "none"
    BY DEF NoMeta
  <1>2. \A m \in Meta : m.content \in Content
    BY DEF Meta
  <1> QED
    BY <1>1, <1>2, NoneIsNoContent

\* The correction of a record has its image and names no run.
LEMMA WithoutRunIs ==
  /\ \A m \in Meta : /\ WithoutRun(m) \in Meta /\ WithoutRun(m).run = "none" /\ WithoutRun(m).content = m.content
                     /\ m.content \in Content
  /\ WithoutRun(NoMeta) = NoMeta
  BY DEF WithoutRun, Meta, NoMeta, Run

\* What a call expects the hub to keep: its record, or the correction of it.
LEMMA ExpectedIs ==
  ASSUME NEW k, k.record \in Meta, k.repair \in BOOLEAN
  PROVE  /\ Expected(k) \in Meta /\ Expected(k).content = k.record.content
         /\ Expected(k) = k.record \/ (k.repair /\ Expected(k) = WithoutRun(k.record))
  BY WithoutRunIs DEF Expected

LEMMA TypesAre ==
  ASSUME ArtifactInv
  PROVE  /\ turn \in Turn /\ source \in Content /\ store.record \in Meta \cup {NoMeta} /\ store.repair \in BOOLEAN
         /\ store = [record |-> store.record, repair |-> store.repair]
         /\ call \in [Call -> CallRec] /\ wire \subseteq [by : Call, upload : Upload]
         /\ hub.state \in {"none", "pending", "ready"} /\ hub.meta \in Meta \cup {NoMeta}
         /\ hub = [state |-> hub.state, meta |-> hub.meta]
         /\ returned \subseteq Meta
         /\ \A c \in Call : CallKnows(call[c]) /\ call[c] \in CallRec
  BY DEF ArtifactInv, TypeOK, CallRec

LEMMA InitArtifacts == Init => ArtifactInv
  <1> SUFFICES ASSUME Init PROVE ArtifactInv
    OBVIOUS
  <1>0. turn \in Turn /\ source \in Content /\ crashes \in 0..MaxCrashes
    BY MaxTurnIsNat, MaxCrashesIsNat DEF Init, Turn
  <1>1. PICK r \in {NoMeta} \cup [content : Content, turn : {1}, run : {"earlier"}], b \in BOOLEAN :
          store = [record |-> r, repair |-> b]
    BY DEF Init
  <1>2. r \in Meta \cup {NoMeta}
    <2>1. 1 \in Turn
      BY <1>0 DEF Init
    <2> QED
      BY <2>1 DEF Meta, Run
  <1>3. store \in [record : Meta \cup {NoMeta}, repair : BOOLEAN] /\ store.record = r /\ store.repair = b
    BY <1>1, <1>2
  <1>4. WithoutRun(r) \in Meta \cup {NoMeta} /\ WithoutRun(r).run = "none"
    BY <1>2, WithoutRunIs, NoMetaIs
  <1>5. hub \in [state : {"none", "pending", "ready"}, meta : {NoMeta, r, WithoutRun(r)}]
        /\ (hub.state = "none" <=> hub.meta = NoMeta) /\ (b => hub.meta \in {NoMeta, WithoutRun(r)})
    BY <1>3 DEF Init
  <1>6. hub \in [state : {"none", "pending", "ready"}, meta : Meta \cup {NoMeta}]
    BY <1>2, <1>4, <1>5
  <1>7. call \in [Call -> CallRec] /\ \A c \in Call : CallKnows(call[c])
    BY IdleIs DEF Init
  <1>8. NeverRebound
    BY <1>3, <1>4, <1>5, NoMetaIs DEF NeverRebound
  <1>9. SentIsRecorded /\ ReturnedIsExplained
    BY DEF Init, SentIsRecorded, ReturnedIsExplained
  <1>10. TypeOK
    BY <1>0, <1>3, <1>6, <1>7 DEF TypeOK, Init, CallRec
  <1> QED
    BY <1>5, <1>7, <1>8, <1>9, <1>10 DEF ArtifactInv, HubKnows

\* A step of one call that leaves the record and the hub.
LEMMA CallMoves ==
  ASSUME ArtifactInv, NEW c \in Call, NEW k \in CallRec, CallKnows(k), call' = [call EXCEPT ![c] = k],
         UNCHANGED <<turn, source, store, wire, hub, returned, crashes>>
  PROVE  ArtifactInv'
  <1>1. call' \in [Call -> CallRec]
    BY TypesAre
  <1>2. \A d \in Call : call'[d] = call[d] \/ call'[d] = k
    BY TypesAre
  <1>3. \A d \in Call : CallKnows(call[d])'
    BY <1>2, TypesAre DEF CallKnows, Expected
  <1>4. TypeOK'
    BY <1>1 DEF ArtifactInv, TypeOK, CallRec
  <1> QED
    BY <1>3, <1>4 DEF ArtifactInv, HubKnows, SentIsRecorded, NeverRebound, ReturnedIsExplained

LEMMA FailStep ==
  ASSUME ArtifactInv, NEW c \in Call, Fail(c), UNCHANGED <<turn, source, store, wire, hub, returned, crashes>>
  PROVE  ArtifactInv'
  BY IdleIs, CallMoves DEF Fail

\* What a place asks of a call that comes to it otherwise unchanged.
MayGo(k, pc) ==
  /\ pc \in Place \ {"idle", "reserve", "receipt", "accept"} /\ k.turn \in Turn
  /\ pc \in Bodied => k.record # NoMeta /\ k.body = k.record.content
  /\ pc \in {"detach", "detaching"} => hub.meta = NoMeta \/ hub.meta.run # "earlier"

LEMMA GoneIs ==
  ASSUME ArtifactInv, NEW c \in Call, NEW pc, MayGo(call[c], pc), NEW d,
         \/ d = [call[c] EXCEPT !.pc = pc]
         \/ d = [call[c] EXCEPT !.pc = pc, !.repair = store.repair]
  PROVE  d \in CallRec /\ CallKnows(d) /\ d.pc = pc
  <1>1. PICK k \in CallRec : k = call[c]
    BY TypesAre
  <1>2. d \in CallRec /\ d.pc = pc /\ d.phase = k.phase /\ d.turn = k.turn /\ d.run = k.run /\ d.record = k.record
        /\ d.repair \in {k.repair, store.repair} /\ d.body = k.body
    BY <1>1, TypesAre DEF CallRec, MayGo
  <1>3. CallKnows(k) /\ MayGo(k, pc)
    BY <1>1, TypesAre
  <1>4. CallKnows(d)
    BY <1>2, <1>3 DEF CallKnows, MayGo
  <1> QED
    BY <1>2, <1>4

LEMMA GotoStep ==
  ASSUME ArtifactInv, NEW c \in Call, NEW pc, MayGo(call[c], pc), Goto(c, pc),
         UNCHANGED <<turn, source, store, wire, hub, returned, crashes>>
  PROVE  ArtifactInv'
  <1>1. PICK d : d = [call[c] EXCEPT !.pc = pc]
    OBVIOUS
  <1>2. call' = [call EXCEPT ![c] = d]
    BY <1>1 DEF Goto
  <1> QED
    BY <1>1, <1>2, GoneIs, CallMoves

LEMMA LoadRepairStep ==
  ASSUME ArtifactInv, NEW c \in Call, NEW pc, MayGo(call[c], pc), LoadRepair(c, [call[c] EXCEPT !.pc = pc]),
         UNCHANGED <<turn, source, store, wire, hub, returned, crashes>>
  PROVE  ArtifactInv'
  <1>1. CASE Fail(c)
    BY <1>1, FailStep
  <1>2. CASE call' = [call EXCEPT ![c] = [[call[c] EXCEPT !.pc = pc] EXCEPT !.repair = store.repair]]
    <2>1. PICK d : d = [call[c] EXCEPT !.pc = pc, !.repair = store.repair]
      OBVIOUS
    <2>2. call' = [call EXCEPT ![c] = d]
      BY <1>2, <2>1
    <2>3. d \in CallRec /\ CallKnows(d)
      BY <2>1, GoneIs
    <2> QED
      BY <2>2, <2>3, CallMoves
  <1> QED
    BY <1>1, <1>2 DEF LoadRepair

LEMMA PassStep ==
  ASSUME ArtifactInv, NEW c \in Call, NEW from, NEW to, call[c].pc = from => MayGo(call[c], to), Pass(c, from, to)
  PROVE  ArtifactInv'
  BY FailStep, GotoStep DEF Pass, At

LEMMA Knows ==
  ASSUME ArtifactInv, NEW c \in Call, call[c].pc # "idle"
  PROVE  call[c].turn \in Turn /\ (call[c].pc \in Bodied => call[c].record # NoMeta /\ call[c].body = call[c].record.content)
  BY TypesAre DEF CallKnows

LEMMA BeginStep ==
  ASSUME ArtifactInv, NEW c \in Call, NEW run \in {"none", "own"}, Begin(c, run)
  PROVE  ArtifactInv'
  <1>1. PICK d : d = [Idle EXCEPT !.pc = "record", !.turn = turn, !.run = run]
    OBVIOUS
  <1>2. d \in CallRec /\ d.pc = "record" /\ d.turn = turn /\ d.run = run /\ d.record = Idle.record
        /\ d.repair = Idle.repair /\ d.phase = Idle.phase
    BY <1>1, IdleIs, TypesAre DEF CallRec, Place, Run
  <1>3. CallKnows(d)
    BY <1>2, TypesAre DEF CallKnows, Idle, Bodied
  <1>4. call' = [call EXCEPT ![c] = d]
    BY <1>1 DEF Begin
  <1> QED
    BY <1>2, <1>3, <1>4, CallMoves DEF Begin

LEMMA ReadRecordStep ==
  ASSUME ArtifactInv, NEW c \in Call, ReadRecord(c)
  PROVE  ArtifactInv'
  <1>1. CASE call' = [call EXCEPT ![c].pc = "repair", ![c].record = store.record]
    <2>1. PICK k \in CallRec : k = call[c]
      BY TypesAre
    <2>2. PICK d : d = [k EXCEPT !.pc = "repair", !.record = store.record]
      OBVIOUS
    <2>3. d \in CallRec /\ d.pc = "repair" /\ d.phase = k.phase /\ d.turn = k.turn /\ d.run = k.run
          /\ d.record = store.record /\ d.repair = k.repair /\ d.body = k.body
      BY <2>2, TypesAre DEF CallRec, Place
    <2>4. CallKnows(k) /\ k.pc = "record"
      BY <2>1, TypesAre DEF ReadRecord, At
    <2>5. CallKnows(d)
      BY <2>3, <2>4 DEF CallKnows, Bodied
    <2>6. call' = [call EXCEPT ![c] = d]
      BY <1>1, <2>1, <2>2
    <2> QED
      BY <2>3, <2>5, <2>6, CallMoves DEF ReadRecord
  <1> QED
    BY <1>1, FailStep DEF ReadRecord

LEMMA ReadRepairStep ==
  ASSUME ArtifactInv, NEW c \in Call, ReadRepair(c)
  PROVE  ArtifactInv'
  <1> DEFINE pc == IF call[c].record = NoMeta THEN "source" ELSE "ask"
  <1>1. MayGo(call[c], pc)
    BY Knows DEF MayGo, ReadRepair, At, Bodied, Place, Checkpoint
  <1>2. CASE LoadRepair(c, [call[c] EXCEPT !.pc = pc])
    <2> HIDE DEF pc
    <2> QED
      BY <1>1, <1>2, LoadRepairStep DEF ReadRepair
  <1> QED
    BY <1>2, FailStep DEF ReadRepair

LEMMA AskStep ==
  ASSUME ArtifactInv, NEW c \in Call, Ask(c)
  PROVE  ArtifactInv'
  <1>1. call[c].pc = "ask" => MayGo(call[c], "asked")
    BY Knows DEF MayGo, Bodied, Place
  <1> QED
    BY <1>1, PassStep DEF Ask

LEMMA LookStep ==
  ASSUME ArtifactInv, NEW c \in Call, Look(c)
  PROVE  ArtifactInv'
  <1>0. call[c].pc = "asked"
    BY DEF Look, At
  <1>1. CASE hub.state = "none" /\ NotFound(c)
    <2>1. hub.meta = NoMeta
      BY <1>1 DEF ArtifactInv, HubKnows
    <2>2. CASE call[c].phase = "first"
      <3>1. MayGo(call[c], "source")
        BY <1>0, Knows DEF MayGo, Bodied, Place, Checkpoint
      <3> QED
        BY <1>1, <2>2, <3>1, GotoStep DEF NotFound, Look
    <2>3. CASE call[c].phase # "first"
      <3>1. call[c].record # NoMeta /\ call[c].body = call[c].record.content
        BY <2>3, TypesAre DEF CallKnows
      <3>2. MayGo(call[c], "detach")
        BY <1>0, <2>1, <3>1, Knows DEF MayGo, Place, Checkpoint
      <3> QED
        BY <1>1, <2>3, <3>2, GotoStep DEF NotFound, Look
    <2> QED
      BY <2>2, <2>3
  <1>2. CASE /\ hub.state # "none"
             /\ call' = [call EXCEPT ![c].pc = "receipt", ![c].heard = hub.meta, ![c].ready = hub.state = "ready"]
    <2>1. PICK k \in CallRec : k = call[c]
      BY TypesAre
    <2>2. PICK b \in BOOLEAN : b = (hub.state = "ready")
      OBVIOUS
    <2>3. PICK d : d = [k EXCEPT !.pc = "receipt", !.heard = hub.meta, !.ready = b]
      OBVIOUS
    <2>4. d \in CallRec /\ d.pc = "receipt" /\ d.phase = k.phase /\ d.turn = k.turn /\ d.run = k.run
          /\ d.record = k.record /\ d.repair = k.repair /\ d.body = k.body /\ d.heard = hub.meta
      BY <2>3, TypesAre DEF CallRec, Place
    <2>5. CallKnows(k) /\ k.pc = "asked"
      BY <1>0, <2>1, TypesAre
    <2>6. hub.meta # NoMeta
      BY <1>2 DEF ArtifactInv, HubKnows
    <2>7. CallKnows(d)
      BY <2>4, <2>5, <2>6 DEF CallKnows, Bodied
    <2>8. call' = [call EXCEPT ![c] = d]
      BY <1>2, <2>1, <2>2, <2>3
    <2> QED
      BY <2>4, <2>7, <2>8, CallMoves DEF Look
  <1> QED
    BY <1>1, <1>2, FailStep DEF Look

LEMMA CheckReceiptStep ==
  ASSUME ArtifactInv, NEW c \in Call, CheckReceipt(c)
  PROVE  ArtifactInv'
  <1>0. call[c].pc = "receipt"
    BY DEF CheckReceipt, At
  <1>1. CASE Fail(c)
    BY <1>1, FailStep DEF CheckReceipt
  <1>2. CASE ~ Fail(c)
    <2>1. PICK old \in CallRec : old = call[c]
      BY TypesAre
    <2>2. PICK k : k = [old EXCEPT !.repair = store.repair]
      OBVIOUS
    <2>3. k.heard = Expected(k) /\ AfterReceipt(k) # "refused" /\ LoadRepair(c, [k EXCEPT !.pc = AfterReceipt(k)])
      BY <1>2, <2>1, <2>2 DEF CheckReceipt
    <2>4. k \in CallRec /\ k.pc = "receipt" /\ k.phase = old.phase /\ k.turn = old.turn /\ k.run = old.run
          /\ k.record = old.record /\ k.repair = store.repair /\ k.body = old.body /\ k.heard = old.heard
      BY <1>0, <2>1, <2>2, TypesAre DEF CallRec
    <2>5. PICK d : d = [k EXCEPT !.pc = AfterReceipt(k), !.repair = store.repair]
      OBVIOUS
    <2>6. call' = [call EXCEPT ![c] = d]
      BY <1>2, <2>3, <2>5 DEF LoadRepair
    <2>7. AfterReceipt(k) = "accept" \/ (AfterReceipt(k) = "source" /\ k.phase = "first")
      BY <2>3 DEF AfterReceipt
    <2>8. d \in CallRec /\ d.pc = AfterReceipt(k) /\ d.phase = old.phase /\ d.turn = old.turn /\ d.run = old.run
          /\ d.record = old.record /\ d.repair = store.repair /\ d.body = old.body /\ d.heard = old.heard
      BY <2>4, <2>5, <2>7, TypesAre DEF CallRec, Place, Checkpoint
    <2>9. d.heard = Expected(d)
      BY <2>3, <2>4, <2>8 DEF Expected
    <2>10. CallKnows(old) /\ old.pc = "receipt"
      BY <1>0, <2>1, TypesAre
    <2>11. CallKnows(d)
      BY <2>4, <2>7, <2>8, <2>9, <2>10 DEF CallKnows, Bodied
    <2> QED
      BY <2>6, <2>8, <2>11, CallMoves DEF CheckReceipt
  <1> QED
    BY <1>1, <1>2

LEMMA AcceptStep ==
  ASSUME ArtifactInv, NEW c \in Call, Accept(c)
  PROVE  ArtifactInv'
  <1>1. call[c].pc = "accept" /\ CallKnows(call[c]) /\ call[c] \in CallRec
    BY TypesAre DEF Accept, At
  <1>2. PICK k \in CallRec : k = call[c]
    BY <1>1
  <1>3. k.heard = hub.meta /\ hub.meta # NoMeta /\ k.heard = Expected(k) /\ k.record \in {NoMeta, store.record}
        /\ (k.repair => store.repair)
    BY <1>1, <1>2 DEF CallKnows
  <1>4. k.record \in Meta /\ k.record = store.record
    <2>1. k.record # NoMeta
      BY <1>3, WithoutRunIs DEF Expected
    <2> QED
      BY <1>3, <2>1 DEF CallRec
  <1>5. k.repair \in BOOLEAN
    BY DEF CallRec
  <1>6. k.heard \in Meta /\ (k.heard = store.record \/ (store.repair /\ k.heard = WithoutRun(store.record)))
    BY <1>3, <1>4, <1>5, ExpectedIs
  <1>7. returned' \subseteq returned \cup {k.heard}
    BY <1>2 DEF Accept
  <1>8. call' \in [Call -> CallRec] /\ \A d \in Call : call'[d] = call[d] \/ call'[d] = Idle
    BY TypesAre, IdleIs DEF Accept, Fail
  <1>9. \A d \in Call : CallKnows(call[d])'
    BY <1>8, TypesAre, IdleIs DEF CallKnows, Expected, Accept
  <1>10. returned' \subseteq Meta /\ ReturnedIsExplained'
    BY <1>3, <1>6, <1>7, TypesAre DEF ReturnedIsExplained, ArtifactInv, Accept
  <1>11. TypeOK'
    BY <1>8, <1>10 DEF ArtifactInv, TypeOK, CallRec, Accept
  <1> QED
    BY <1>9, <1>10, <1>11 DEF ArtifactInv, HubKnows, SentIsRecorded, NeverRebound, Accept

LEMMA SourceStep ==
  ASSUME ArtifactInv, NEW c \in Call, Source(c) \/ Attach(c) \/ Detach(c)
  PROVE  ArtifactInv'
  <1>1. call[c].pc = "source" => MayGo(call[c], "read")
    BY Knows DEF MayGo, Bodied, Place
  <1>2. call[c].pc = "attach" => MayGo(call[c], "load")
    BY Knows DEF MayGo, Bodied, Place
  <1>3. call[c].pc = "detach" => MayGo(call[c], "detaching")
    BY Knows, TypesAre DEF MayGo, Bodied, Place, CallKnows
  <1> QED
    BY <1>1, <1>2, <1>3, PassStep DEF Source, Attach, Detach

LEMMA ReadStep ==
  ASSUME ArtifactInv, NEW c \in Call, Read(c)
  PROVE  ArtifactInv'
  <1>1. CASE /\ call[c].record.content \in {source, "none"}
             /\ call' = [call EXCEPT ![c].pc = IF call[c].record = NoMeta THEN "reserve" ELSE "attach",
                                     ![c].body = source]
    <2>1. PICK k \in CallRec : k = call[c]
      BY TypesAre
    <2>2. PICK pc \in {"reserve", "attach"} : pc = IF k.record = NoMeta THEN "reserve" ELSE "attach"
      OBVIOUS
    <2>3. PICK d : d = [k EXCEPT !.pc = pc, !.body = source]
      OBVIOUS
    <2>4. d \in CallRec /\ d.pc = pc /\ d.phase = k.phase /\ d.turn = k.turn /\ d.run = k.run
          /\ d.record = k.record /\ d.repair = k.repair /\ d.body = source
      BY <2>3, TypesAre DEF CallRec, Place, Checkpoint
    <2>5. CallKnows(k) /\ k.pc = "read"
      BY <2>1, TypesAre DEF Read, At
    <2>6. k.record # NoMeta => k.record.content = source
      <3>1. k.record # NoMeta => k.record.content \in Content
        BY WithoutRunIs DEF CallRec
      <3> QED
        BY <1>1, <2>1, <3>1, NoneIsNoContent
    <2>7. CallKnows(d)
      BY <2>2, <2>4, <2>5, <2>6, TypesAre DEF CallKnows, Bodied
    <2>8. call' = [call EXCEPT ![c] = d]
      BY <1>1, <2>1, <2>2, <2>3
    <2> QED
      BY <2>4, <2>7, <2>8, CallMoves DEF Read
  <1> QED
    BY <1>1, FailStep DEF Read

\* The first record, once written, stays; what others have read of it is still so.
LEMMA StoreMoves ==
  ASSUME ArtifactInv, store' \in [record : Meta \cup {NoMeta}, repair : BOOLEAN],
         store.record # NoMeta => store'.record = store.record,
         store.record = NoMeta => store'.record.run # "earlier",
         store.repair => store'.repair,
         store'.repair /\ ~ store.repair => store'.record = store.record /\ (hub.meta = NoMeta \/ hub.meta.run # "earlier"),
         call' \in [Call -> CallRec],
         \A d \in Call : CallKnows(call[d]) => CallKnows(call[d])',
         UNCHANGED <<turn, source, wire, hub, returned, crashes>>
  PROVE  ArtifactInv'
  <1>1. TypeOK'
    BY DEF ArtifactInv, TypeOK, CallRec
  <1>2. \A d \in Call : CallKnows(call[d])'
    BY TypesAre
  <1>3. SentIsRecorded'
    <2> SUFFICES ASSUME NEW m \in wire
                 PROVE  /\ m.upload.body = store'.record.content
                        /\ \/ m.upload.meta = store'.record
                           \/ store'.repair /\ m.upload.meta = WithoutRun(store'.record)
      BY DEF SentIsRecorded
    <2>1. /\ m.upload.body = store.record.content
          /\ \/ m.upload.meta = store.record
             \/ store.repair /\ m.upload.meta = WithoutRun(store.record)
      BY DEF ArtifactInv, SentIsRecorded
    <2>2. m.upload.body \in Content
      BY TypesAre DEF Upload
    <2>3. store.record # NoMeta
      BY <2>1, <2>2, NoMetaIs, NoneIsNoContent
    <2> QED
      BY <2>1, <2>3
  <1>4. NeverRebound'
    <2> SUFFICES ASSUME store'.repair, store'.record.run = "earlier" PROVE hub.meta # store'.record
      BY DEF NeverRebound
    <2>1. store.record # NoMeta /\ store'.record = store.record
      OBVIOUS
    <2>2. CASE store.repair
      BY <2>1, <2>2 DEF ArtifactInv, NeverRebound
    <2>3. CASE ~ store.repair
      BY <2>1, <2>3
    <2> QED
      BY <2>2, <2>3, TypesAre
  <1>5. ReturnedIsExplained'
    <2> SUFFICES ASSUME NEW meta \in returned
                 PROVE  /\ hub.meta = meta
                        /\ meta = store'.record \/ (store'.repair /\ meta = WithoutRun(store'.record))
      BY DEF ReturnedIsExplained
    <2>1. /\ hub.meta = meta
          /\ meta = store.record \/ (store.repair /\ meta = WithoutRun(store.record))
      BY DEF ArtifactInv, ReturnedIsExplained
    <2>2. store.record # NoMeta
      BY <2>1, TypesAre, WithoutRunIs, NoMetaIs
    <2> QED
      BY <2>1, <2>2
  <1> QED
    BY <1>1, <1>2, <1>3, <1>4, <1>5 DEF ArtifactInv, HubKnows

\* A call that the step leaves stays right when the store goes on.
LEMMA OtherKnown ==
  ASSUME ArtifactInv, NEW d \in Call, call'[d] = call[d], store'.record = store.record \/ store.record = NoMeta,
         store.repair => store'.repair, UNCHANGED hub
  PROVE  CallKnows(call[d])'
  BY TypesAre DEF CallKnows, Expected

\* The record is written once: by whoever comes first.
LEMMA ReserveStep ==
  ASSUME ArtifactInv, NEW c \in Call, Reserve(c)
  PROVE  ArtifactInv'
  <1>0. call[c].pc = "reserve"
    BY DEF Reserve, At
  <1>1. CASE UNCHANGED store /\ Fail(c)
    BY <1>1, FailStep DEF Reserve
  <1>2. CASE store' = [store EXCEPT !.record = Reserved(c)]
    <2>1. PICK k \in CallRec : k = call[c]
      BY TypesAre
    <2>2. CallKnows(k) /\ k.pc = "reserve" /\ k.body \in Content /\ k.turn \in Turn /\ k.run \in Run /\ k.run # "earlier"
      BY <1>0, <2>1, TypesAre DEF CallKnows, CallRec
    <2>3. PICK r : r = Reserved(c)
      OBVIOUS
    <2>4. r \in Meta /\ (store.record # NoMeta => r = store.record) /\ (store.record = NoMeta => r.run # "earlier")
      <3>1. CASE store.record = NoMeta
        <4>1. r = [content |-> k.body, turn |-> k.turn, run |-> k.run]
          BY <2>1, <2>3, <3>1 DEF Reserved
        <4> QED
          BY <2>2, <3>1, <4>1 DEF Meta
      <3>2. CASE store.record # NoMeta
        BY <2>3, <3>2, TypesAre DEF Reserved
      <3> QED
        BY <3>1, <3>2
    <2>5. store' = [record |-> r, repair |-> store.repair] /\ store'.record = r /\ store'.repair = store.repair
      BY <1>2, <2>3, TypesAre
    <2>6. store' \in [record : Meta \cup {NoMeta}, repair : BOOLEAN]
      BY <2>4, <2>5, TypesAre
    <2>7. /\ call' \in [Call -> CallRec] /\ \A d \in Call \ {c} : call'[d] = call[d]
          /\ CallKnows(call[c])'
      <3>1. CASE Fail(c)
        <4>1. call'[c] = Idle /\ call' \in [Call -> CallRec] /\ \A d \in Call \ {c} : call'[d] = call[d]
          BY <3>1, IdleIs, TypesAre DEF Fail
        <4>2. /\ Idle.run = "none" /\ Idle.pc = "idle" /\ Idle.record = NoMeta /\ Idle.repair = FALSE
              /\ Idle.phase = "first"
          BY DEF Idle
        <4>3. CallKnows(call[c])'
          BY <4>1, <4>2 DEF CallKnows, Bodied
        <4> QED
          BY <4>1, <4>3
      <3>2. CASE /\ Reserved(c).content = call[c].body
                 /\ call' = [call EXCEPT ![c].pc = "attach", ![c].record = Reserved(c)]
        <4>1. PICK d : d = [k EXCEPT !.pc = "attach", !.record = r]
          OBVIOUS
        <4>2. d \in CallRec /\ d.pc = "attach" /\ d.phase = k.phase /\ d.turn = k.turn /\ d.run = k.run
              /\ d.record = r /\ d.repair = k.repair /\ d.body = k.body
          BY <2>4, <4>1 DEF CallRec, Place, Checkpoint
        <4>3. call' = [call EXCEPT ![c] = d]
          BY <2>1, <2>3, <3>2, <4>1
        <4>4. call'[c] = d /\ call' \in [Call -> CallRec] /\ \A e \in Call \ {c} : call'[e] = call[e]
          BY <4>2, <4>3, TypesAre
        <4>5. r.content = k.body /\ r # NoMeta
          BY <2>1, <2>3, <2>4, <3>2, NoMetaIs
        <4>6. CallKnows(call[c])'
          BY <2>2, <2>5, <4>2, <4>4, <4>5 DEF CallKnows, Bodied
        <4> QED
          BY <4>4, <4>6
      <3> QED
        BY <1>0, <1>2, <3>1, <3>2 DEF Reserve
    <2>8. UNCHANGED <<turn, source, wire, hub, returned, crashes>>
      BY DEF Reserve
    <2>9. \A d \in Call : CallKnows(call[d])'
      BY <2>4, <2>5, <2>7, <2>8, OtherKnown
    <2> QED
      BY <2>4, <2>5, <2>6, <2>7, <2>8, <2>9, StoreMoves
  <1> QED
    BY <1>1, <1>2 DEF Reserve

LEMMA LoadStep ==
  ASSUME ArtifactInv, NEW c \in Call, Load(c)
  PROVE  ArtifactInv'
  <1>1. MayGo(call[c], "send")
    BY Knows DEF MayGo, Load, At, Bodied, Place
  <1> QED
    BY <1>1, LoadRepairStep, FailStep DEF Load

\* A request is made, and waited for, in a later phase.
LEMMA SendingStep ==
  ASSUME ArtifactInv, NEW c \in Call, NEW phase \in {"upload", "corrected"}, call[c].pc \in {"send", "resend"},
         Sending(c), NEW d, d = [call[c] EXCEPT !.pc = "sent", !.phase = phase], call' = [call EXCEPT ![c] = d],
         UNCHANGED <<turn, source, store, hub, returned, crashes>>
  PROVE  ArtifactInv'
  <1>1. PICK k \in CallRec : k = call[c]
    BY TypesAre
  <1>2. d = [k EXCEPT !.pc = "sent", !.phase = phase]
    BY <1>1
  <1>3. d \in CallRec /\ d.pc = "sent" /\ d.phase = phase /\ d.turn = k.turn /\ d.run = k.run
        /\ d.record = k.record /\ d.repair = k.repair /\ d.body = k.body
    BY <1>2 DEF CallRec, Place, Phase
  <1>4. CallKnows(k) /\ k.pc \in {"send", "resend"} /\ k.turn \in Turn /\ k.record # NoMeta /\ k.body = k.record.content
        /\ k.run # "earlier" /\ k.record \in {NoMeta, store.record} /\ (k.repair => store.repair)
    <2>1. CallKnows(k) /\ k.pc \in {"send", "resend"}
      BY <1>1, TypesAre
    <2> QED
      BY <2>1 DEF CallKnows, Bodied
  <1>5. call'[c] = d /\ call' \in [Call -> CallRec] /\ \A e \in Call \ {c} : call'[e] = call[e]
    BY <1>3, TypesAre
  <1>6. CallKnows(call[c])'
    <2>1. UNCHANGED <<store, hub>>
      OBVIOUS
    <2>2. d.record = store.record /\ d.turn \in Turn /\ d.record # NoMeta /\ d.body = d.record.content
      BY <1>3, <1>4
    <2>3. d.run # "earlier" /\ (d.repair => store.repair) /\ call'[c] = d
      BY <1>3, <1>4, <1>5
    <2> QED
      BY <1>3, <2>1, <2>2, <2>3 DEF CallKnows, Bodied
  <1>7. \A e \in Call : CallKnows(call[e])'
    BY <1>5, <1>6, OtherKnown
  <1>8. k.record \in Meta /\ k.record = store.record /\ k.body = k.record.content /\ (k.repair => store.repair)
        /\ k.repair \in BOOLEAN
    BY <1>4 DEF CallKnows, Bodied, CallRec
  <1> DEFINE m == [by |-> c, upload |-> [body |-> k.body, meta |-> Expected(k)]]
  <1>9. wire' = wire \cup {m}
    BY <1>1 DEF Sending
  <1>10. m.upload.body = store.record.content /\ (m.upload.meta = store.record \/ (store.repair /\ m.upload.meta = WithoutRun(store.record)))
    BY <1>8, ExpectedIs
  <1>11. m \in [by : Call, upload : Upload]
    BY <1>8, ExpectedIs, WithoutRunIs DEF Upload
  <1> HIDE DEF m
  <1>12. TypeOK'
    BY <1>5, <1>9, <1>11 DEF ArtifactInv, TypeOK, CallRec
  <1>13. SentIsRecorded'
    BY <1>9, <1>10 DEF ArtifactInv, SentIsRecorded
  <1> QED
    BY <1>7, <1>12, <1>13 DEF ArtifactInv, HubKnows, NeverRebound, ReturnedIsExplained

LEMMA SendStep ==
  ASSUME ArtifactInv, NEW c \in Call, Send(c)
  PROVE  ArtifactInv'
  <1>1. PICK d : d = [call[c] EXCEPT !.pc = "sent", !.phase = "upload"]
    OBVIOUS
  <1>2. call' = [call EXCEPT ![c] = d]
    BY <1>1 DEF Send
  <1> QED
    BY <1>1, <1>2, SendingStep DEF Send, At

LEMMA GiveUpStep ==
  ASSUME ArtifactInv, NEW c \in Call, GiveUp(c)
  PROVE  ArtifactInv'
  BY FailStep DEF GiveUp

LEMMA SaveRepairStep ==
  ASSUME ArtifactInv, NEW c \in Call, SaveRepair(c)
  PROVE  ArtifactInv'
  <1>0. call[c].pc = "detaching"
    BY DEF SaveRepair, At
  <1>1. CASE UNCHANGED store /\ Fail(c)
    BY <1>1, FailStep DEF SaveRepair
  <1>2. CASE store' = [store EXCEPT !.repair = TRUE] /\ (Goto(c, "reload") \/ Fail(c))
    <2>1. PICK k \in CallRec : k = call[c]
      BY TypesAre
    <2>2. CallKnows(k) /\ k.pc = "detaching" /\ k.turn \in Turn
      BY <1>0, <2>1, TypesAre DEF CallKnows
    <2>3. hub.meta = NoMeta \/ hub.meta.run # "earlier"
      BY <2>2 DEF CallKnows
    <2>4. store' = [record |-> store.record, repair |-> TRUE] /\ store'.record = store.record /\ store'.repair
      BY <1>2, TypesAre
    <2>5. store' \in [record : Meta \cup {NoMeta}, repair : BOOLEAN]
      BY <2>4, TypesAre
    <2>6. UNCHANGED <<turn, source, wire, hub, returned, crashes>>
      BY DEF SaveRepair
    <2>7. /\ call' \in [Call -> CallRec] /\ \A d \in Call \ {c} : call'[d] = call[d]
          /\ CallKnows(call[c])'
      <3>1. CASE Fail(c)
        <4>1. call'[c] = Idle /\ call' \in [Call -> CallRec] /\ \A d \in Call \ {c} : call'[d] = call[d]
          BY <3>1, IdleIs, TypesAre DEF Fail
        <4>2. /\ Idle.run = "none" /\ Idle.pc = "idle" /\ Idle.record = NoMeta /\ Idle.repair = FALSE
              /\ Idle.phase = "first"
          BY DEF Idle
        <4>3. CallKnows(call[c])'
          BY <4>1, <4>2 DEF CallKnows, Bodied
        <4> QED
          BY <4>1, <4>3
      <3>2. CASE Goto(c, "reload")
        <4>1. PICK d : d = [k EXCEPT !.pc = "reload"]
          OBVIOUS
        <4>2. d \in CallRec /\ d.pc = "reload" /\ d.phase = k.phase /\ d.turn = k.turn /\ d.run = k.run
              /\ d.record = k.record /\ d.repair = k.repair /\ d.body = k.body
          BY <4>1 DEF CallRec, Place, Checkpoint
        <4>3. call' = [call EXCEPT ![c] = d]
          BY <2>1, <3>2, <4>1 DEF Goto
        <4>4. call'[c] = d /\ call' \in [Call -> CallRec] /\ \A e \in Call \ {c} : call'[e] = call[e]
          BY <4>2, <4>3, TypesAre
        <4>5. CallKnows(call[c])'
          BY <2>2, <2>4, <4>2, <4>4 DEF CallKnows, Bodied
        <4> QED
          BY <4>4, <4>5
      <3> QED
        BY <1>2, <3>1, <3>2
    <2>8. \A d \in Call : CallKnows(call[d])'
      BY <2>4, <2>6, <2>7, OtherKnown
    <2>9. store.record = NoMeta => store'.record.run # "earlier"
      BY <2>4, NoMetaIs
    <2> QED
      BY <2>3, <2>4, <2>5, <2>6, <2>7, <2>8, <2>9, StoreMoves
  <1> QED
    BY <1>1, <1>2 DEF SaveRepair

LEMMA ReloadStep ==
  ASSUME ArtifactInv, NEW c \in Call, Reload(c)
  PROVE  ArtifactInv'
  <1>1. MayGo(call[c], "resend")
    BY Knows DEF MayGo, Reload, At, Bodied, Place, Checkpoint
  <1> QED
    BY <1>1, LoadRepairStep, FailStep DEF Reload

LEMMA ResendStep ==
  ASSUME ArtifactInv, NEW c \in Call, Resend(c)
  PROVE  ArtifactInv'
  <1>1. CASE Sending(c) /\ call' = [call EXCEPT ![c].pc = "sent", ![c].phase = "corrected"]
    <2>1. PICK d : d = [call[c] EXCEPT !.pc = "sent", !.phase = "corrected"]
      OBVIOUS
    <2>2. call' = [call EXCEPT ![c] = d]
      BY <1>1, <2>1
    <2> QED
      BY <1>1, <2>1, <2>2, SendingStep DEF Resend, At
  <1>2. CASE Fail(c) /\ UNCHANGED wire
    BY <1>2, FailStep DEF Resend
  <1> QED
    BY <1>1, <1>2 DEF Resend

\* What a request waits as: its call is at "sent", with the record and the image.
LEMMA WaitingIs ==
  ASSUME ArtifactInv, NEW m \in wire, Waits(m)
  PROVE  /\ m.by \in Call /\ call[m.by] \in CallRec /\ call[m.by].pc = "sent" /\ CallKnows(call[m.by])
         /\ call[m.by].turn \in Turn /\ call[m.by].record # NoMeta /\ call[m.by].body = call[m.by].record.content
         /\ call[m.by].run # "earlier" /\ call[m.by].record \in {NoMeta, store.record}
         /\ (call[m.by].repair => store.repair)
  <1>1. m.by \in Call
    BY TypesAre
  <1>2. call[m.by] \in CallRec /\ call[m.by].pc = "sent" /\ CallKnows(call[m.by])
    BY <1>1, TypesAre DEF Waits, At
  <1> QED
    BY <1>1, <1>2 DEF CallKnows, Bodied

LEMMA WireIs ==
  ASSUME ArtifactInv, NEW m \in wire
  PROVE  m.upload.meta \in Meta /\ m.upload.meta # NoMeta
  BY TypesAre, NoMetaIs DEF Upload

\* A refusal sends the call that waits to ask again, or ends it.
LEMMA HubRefusesStep ==
  ASSUME ArtifactInv, NEW m \in wire, HubRefuses(m)
  PROVE  ArtifactInv'
  <1>1. /\ call' \in [Call -> CallRec]
        /\ \A e \in Call : CallKnows(call[e])'
    <2>1. CASE UNCHANGED call
      BY <2>1, OtherKnown, TypesAre DEF HubRefuses
    <2>2. CASE Waits(m) /\ Fail(m.by)
      <3>1. PICK c \in Call : c = m.by
        BY TypesAre
      <3>2. call'[c] = Idle /\ call' \in [Call -> CallRec] /\ \A e \in Call \ {c} : call'[e] = call[e]
        BY <2>2, <3>1, IdleIs, TypesAre DEF Fail
      <3>3. /\ Idle.run = "none" /\ Idle.pc = "idle" /\ Idle.record = NoMeta /\ Idle.repair = FALSE
            /\ Idle.phase = "first"
        BY DEF Idle
      <3>4. CallKnows(call[c])'
        BY <3>2, <3>3 DEF CallKnows, Bodied
      <3>5. UNCHANGED <<store, hub>>
        BY DEF HubRefuses
      <3> QED
        BY <3>2, <3>4, <3>5, OtherKnown
    <2>3. CASE Waits(m) /\ call' = [call EXCEPT ![m.by].pc = "ask", ![m.by].phase = "proof"]
      <3>1. PICK c \in Call, k \in CallRec : c = m.by /\ k = call[c]
        BY TypesAre
      <3>2. PICK d : d = [k EXCEPT !.pc = "ask", !.phase = "proof"]
        OBVIOUS
      <3>3. d \in CallRec /\ d.pc = "ask" /\ d.phase = "proof" /\ d.turn = k.turn /\ d.run = k.run
            /\ d.record = k.record /\ d.repair = k.repair /\ d.body = k.body
        BY <3>2 DEF CallRec, Place, Checkpoint, Phase
      <3>4. call' = [call EXCEPT ![c] = d]
        BY <2>3, <3>1, <3>2
      <3>5. call'[c] = d /\ call' \in [Call -> CallRec] /\ \A e \in Call \ {c} : call'[e] = call[e]
        BY <3>3, <3>4, TypesAre
      <3>6. d.turn \in Turn /\ d.record # NoMeta /\ d.body = d.record.content
            /\ d.run # "earlier" /\ d.record = store.record /\ (d.repair => store.repair)
        BY <2>3, <3>1, <3>3, WaitingIs
      <3>7. UNCHANGED <<store, hub>>
        BY DEF HubRefuses
      <3>8. CallKnows(call[c])'
        BY <3>3, <3>5, <3>6, <3>7 DEF CallKnows, Bodied
      <3> QED
        BY <3>5, <3>7, <3>8, OtherKnown
    <2> QED
      BY <2>1, <2>2, <2>3 DEF HubRefuses, Refused
  <1>2. wire' \subseteq wire /\ UNCHANGED <<turn, source, store, hub, returned, crashes>>
    BY DEF HubRefuses
  <1>3. TypeOK'
    BY <1>1, <1>2 DEF ArtifactInv, TypeOK, CallRec
  <1>4. SentIsRecorded' /\ NeverRebound' /\ ReturnedIsExplained' /\ HubKnows'
    BY <1>2 DEF ArtifactInv, SentIsRecorded, NeverRebound, ReturnedIsExplained, HubKnows
  <1> QED
    BY <1>1, <1>3, <1>4 DEF ArtifactInv

\* A call that waits for nothing is right about what the hub keeps now.
LEMMA StillKnown ==
  ASSUME ArtifactInv, NEW d \in Call, call'[d] = call[d], UNCHANGED store,
         hub.meta \in {NoMeta, hub'.meta}, hub'.meta.run # "earlier", hub'.meta # NoMeta
  PROVE  CallKnows(call[d])'
  <1>1. PICK k \in CallRec : k = call[d]
    BY TypesAre
  <1>2. CallKnows(k) /\ k = call'[d]
    BY <1>1, TypesAre
  <1>3. Expected(k)' = Expected(k)
    BY DEF Expected
  <1> QED
    BY <1>2, <1>3 DEF CallKnows, Expected

\* What the hub keeps names no earlier run, and is what the call expects.
LEMMA HubKeepsStep ==
  ASSUME ArtifactInv, NEW m \in wire, HubKeeps(m)
  PROVE  ArtifactInv'
  <1> DEFINE kept == m.upload.meta
  <1>1. kept \in Meta /\ kept # NoMeta /\ kept.run # "earlier" /\ hub.meta \in {NoMeta, kept}
    BY WireIs DEF HubKeeps
  <1>2. wire' \subseteq wire /\ UNCHANGED <<turn, source, store, returned, crashes>>
    BY DEF HubKeeps
  <1>3. PICK state \in {"pending", "ready"} :
          /\ hub' = [state |-> state, meta |-> kept]
          /\ IF Waits(m)
             THEN call' = [call EXCEPT ![m.by].pc = "receipt", ![m.by].heard = kept,
                                       ![m.by].ready = state = "ready"]
             ELSE UNCHANGED call
    BY DEF HubKeeps
  <1> HIDE DEF kept
  <1>4. hub' \in [state : {"none", "pending", "ready"}, meta : Meta \cup {NoMeta}]
        /\ hub'.meta = kept /\ hub'.state # "none"
    BY <1>1, <1>3
  <1>5. /\ call' \in [Call -> CallRec]
        /\ \A e \in Call : CallKnows(call[e])'
    <2>1. CASE UNCHANGED call
      BY <1>1, <1>2, <1>4, <2>1, StillKnown, TypesAre
    <2>2. CASE Waits(m)
      <3>1. PICK c \in Call, k \in CallRec : c = m.by /\ k = call[c]
        BY TypesAre
      <3>2. PICK b \in BOOLEAN : b = (state = "ready")
        OBVIOUS
      <3>3. PICK d : d = [k EXCEPT !.pc = "receipt", !.heard = kept, !.ready = b]
        OBVIOUS
      <3>4. d \in CallRec /\ d.pc = "receipt" /\ d.phase = k.phase /\ d.turn = k.turn /\ d.run = k.run
            /\ d.record = k.record /\ d.repair = k.repair /\ d.body = k.body /\ d.heard = kept
        BY <1>1, <3>3 DEF CallRec, Place
      <3>5. call' = [call EXCEPT ![c] = d]
        BY <1>3, <2>2, <3>1, <3>2, <3>3
      <3>6. call'[c] = d /\ call' \in [Call -> CallRec] /\ \A e \in Call \ {c} : call'[e] = call[e]
        BY <3>4, <3>5, TypesAre
      <3>7. d.turn \in Turn /\ d.record # NoMeta /\ d.body = d.record.content
            /\ d.run # "earlier" /\ d.record = store.record /\ (d.repair => store.repair)
        BY <2>2, <3>1, <3>4, WaitingIs
      <3>8. CallKnows(call[c])'
        BY <1>1, <1>2, <1>4, <3>4, <3>6, <3>7 DEF CallKnows, Bodied
      <3> QED
        BY <1>1, <1>2, <1>4, <3>6, <3>8, StillKnown
    <2> QED
      BY <1>3, <2>1, <2>2
  <1>6. TypeOK'
    BY <1>2, <1>4, <1>5 DEF ArtifactInv, TypeOK, CallRec
  <1>7. SentIsRecorded'
    BY <1>2 DEF ArtifactInv, SentIsRecorded
  <1>8. NeverRebound'
    BY <1>1, <1>2, <1>4 DEF NeverRebound
  <1>9. ReturnedIsExplained'
    <2>1. \A meta \in returned : meta # NoMeta /\ hub.meta = meta
      BY TypesAre, NoMetaIs DEF ArtifactInv, ReturnedIsExplained
    <2>2. \A meta \in returned : hub'.meta = meta
      BY <1>1, <1>4, <2>1
    <2> QED
      BY <1>2, <2>2 DEF ArtifactInv, ReturnedIsExplained
  <1> QED
    BY <1>1, <1>4, <1>5, <1>6, <1>7, <1>8, <1>9 DEF ArtifactInv, HubKnows

\* The next turn and another image change nothing that a call has read.
LEMMA TimeStep ==
  ASSUME ArtifactInv, NextTurn \/ SourceChanges \/ UNCHANGED vars
  PROVE  ArtifactInv'
  <1>1. turn' \in Turn /\ source' \in Content
    BY TypesAre, MaxTurnIsNat DEF NextTurn, SourceChanges, vars, Turn
  <1>2. UNCHANGED <<store, call, wire, hub, returned, crashes>>
    BY DEF NextTurn, SourceChanges, vars
  <1>3. \A d \in Call : CallKnows(call[d])'
    BY <1>2, OtherKnown
  <1>4. TypeOK'
    BY <1>1, <1>2 DEF ArtifactInv, TypeOK
  <1> QED
    BY <1>2, <1>3, <1>4 DEF ArtifactInv, HubKnows, SentIsRecorded, NeverRebound, ReturnedIsExplained

\* A crash ends every call.
LEMMA CrashStep ==
  ASSUME ArtifactInv, Crash
  PROVE  ArtifactInv'
  <1>1. UNCHANGED <<turn, source, store, wire, hub, returned>>
    BY DEF Crash
  <1>2. call' \in [Call -> CallRec] /\ \A d \in Call : call'[d] = Idle
    BY IdleIs DEF Crash
  <1>3. /\ Idle.run = "none" /\ Idle.pc = "idle" /\ Idle.record = NoMeta /\ Idle.repair = FALSE
        /\ Idle.phase = "first"
    BY DEF Idle
  <1>4. \A d \in Call : CallKnows(call[d])'
    BY <1>2, <1>3 DEF CallKnows, Bodied
  <1>5. crashes' \in 0..MaxCrashes
    BY MaxCrashesIsNat DEF Crash, ArtifactInv, TypeOK
  <1>6. TypeOK'
    BY <1>1, <1>2, <1>5 DEF ArtifactInv, TypeOK, CallRec
  <1> QED
    BY <1>1, <1>4, <1>6 DEF ArtifactInv, HubKnows, SentIsRecorded, NeverRebound, ReturnedIsExplained

LEMMA ArtifactStep == ArtifactInv /\ [Next]_vars => ArtifactInv'
  <1> SUFFICES ASSUME ArtifactInv, [Next]_vars PROVE ArtifactInv'
    OBVIOUS
  <1>1. ASSUME NEW c \in Call, Step(c) PROVE ArtifactInv'
    BY <1>1, BeginStep, ReadRecordStep, ReadRepairStep, AskStep, LookStep, CheckReceiptStep, AcceptStep,
       SourceStep, ReadStep, ReserveStep, LoadStep, SendStep, GiveUpStep, SaveRepairStep, ReloadStep, ResendStep
       DEF Step
  <1>2. ASSUME NEW m \in wire, HubRefuses(m) \/ HubKeeps(m) PROVE ArtifactInv'
    BY <1>2, HubRefusesStep, HubKeepsStep
  <1>3. ASSUME NextTurn \/ SourceChanges \/ Crash \/ UNCHANGED vars PROVE ArtifactInv'
    BY <1>3, TimeStep, CrashStep
  <1> QED
    BY <1>1, <1>2, <1>3 DEF Next

\* The inductive invariant of the artifacts holds.
LEMMA ArtifactsInvariant == Spec => []ArtifactInv
  BY InitArtifacts, ArtifactStep, PTL DEF Spec

\* A request to upload carries the image and the links of the durable record, or
\* of its durable correction, whatever calls race for the record (deliverArtifact).
THEOREM SentIsRecordedHolds == Spec => []SentIsRecorded
  BY ArtifactsInvariant, PTL DEF ArtifactInv

\* A run is taken off the record only when the hub keeps nothing under its link:
\* from the second answer of the hub on, nothing that names an earlier run gets in.
THEOREM NeverReboundHolds == Spec => []NeverRebound
  BY ArtifactsInvariant, PTL DEF ArtifactInv

\* What is returned to the model is what the hub keeps, and is explained by what is
\* saved here (checkReceipt).
THEOREM ReturnedIsExplainedHolds == Spec => []ReturnedIsExplained
  BY ArtifactsInvariant, PTL DEF ArtifactInv

-----------------------------------------------------------------------------
(* Context: the inductive invariant *)

\* A staged entry is the latest delivery's, and what it holds confirmed was in a
\* request that held all of it; a confirmation under way names a delivery that was
\* staged, and speaks true.
EntryIsTrue ==
  entry.id # None =>
    /\ entry.id = truth.id /\ entry.binding = truth.binding
    /\ entry.confirmed # "none" => entry.confirmed \in truth.held

ReportsAreTrue ==
  \A c \in Confirmation :
    LET input == confirming[c].input IN
    /\ input.id \in 0..Len(staged)
    /\ input.exact => input.id # None
    /\ input.exact /\ input.id = truth.id => input.request \in truth.held

Counted ==
  /\ entry.generation <= Len(staged) + others /\ Len(staged) <= MaxDeliveries
  /\ truth.id \in 0..Len(staged)

ContextInv ==
  ContextTypeOK /\ EntryIsTrue /\ ReportsAreTrue /\ Counted /\ OmittedWasDelivered

EntryRec == [generation : Generation, id : Delivery \cup {None}, binding : Binding \cup {NoBinding},
             over : BOOLEAN, dead : BOOLEAN, confirmed : Request \cup {"none"}]
InputRec == [id : Delivery \cup {None}, generation : Generation, request : Request \cup {"none"}, exact : BOOLEAN]
ConfirmingRec == [input : InputRec, before : Binding \cup {NoBinding}, life : 0..(MaxReopens + 1)]
TruthRec == [id : Delivery \cup {None}, binding : Binding \cup {NoBinding}, held : SUBSET Request]
OmittedRec == [id : Delivery \cup {None}, request : Request \cup {"none"}]

LEMMA ContextTypesAre ==
  ASSUME ContextInv
  PROVE  /\ binding \in Binding \cup {NoBinding} /\ entry \in EntryRec
         /\ confirming \in [Confirmation -> ConfirmingRec] /\ lives \in 1..(MaxReopens + 1)
         /\ staged \in Seq(Generation) /\ Len(staged) \in Nat /\ Len(staged) <= MaxDeliveries
         /\ others \in 0..MaxOther /\ others \in Nat /\ truth \in TruthRec /\ omitted \in OmittedRec
         /\ entry.generation \in Nat /\ entry.generation <= Len(staged) + others
  <1>1. staged \in Seq(Generation) /\ Len(staged) \in Nat
    BY DEF ContextInv, ContextTypeOK
  <1>2. entry \in EntryRec /\ entry.generation \in Nat
    BY ContextBoundsAreNat DEF ContextInv, ContextTypeOK, EntryRec, Generation
  <1>3. others \in Nat
    BY ContextBoundsAreNat DEF ContextInv, ContextTypeOK
  <1> QED
    BY <1>1, <1>2, <1>3 DEF ContextInv, ContextTypeOK, Counted, EntryRec, ConfirmingRec, InputRec, TruthRec, OmittedRec

LEMMA NothingIs ==
  /\ NoEntry \in EntryRec /\ NoEntry.id = None /\ NoEntry.generation = 0 /\ NoEntry.confirmed = "none"
  /\ NotConfirming \in ConfirmingRec /\ NotConfirming.input.id = None /\ NotConfirming.input.exact = FALSE
  /\ NothingStaged \in TruthRec /\ NothingStaged.id = None
  /\ NothingOmitted \in OmittedRec /\ NothingOmitted.id = None
  <1>1. 0 \in Generation /\ 0 \in 0..(MaxReopens + 1)
    BY ContextBoundsAreNat DEF Generation
  <1>2. NoEntry \in EntryRec /\ NoEntry.id = None /\ NoEntry.generation = 0 /\ NoEntry.confirmed = "none"
    BY <1>1 DEF NoEntry, EntryRec
  <1>3. NoInput \in InputRec /\ NoInput.id = None /\ NoInput.exact = FALSE
    BY <1>1 DEF NoInput, InputRec
  <1>4. NotConfirming \in ConfirmingRec /\ NotConfirming.input = NoInput
    BY <1>1, <1>3 DEF NotConfirming, ConfirmingRec
  <1>5. NothingStaged \in TruthRec /\ NothingStaged.id = None
    BY DEF NothingStaged, TruthRec
  <1>6. NothingOmitted \in OmittedRec /\ NothingOmitted.id = None
    BY DEF NothingOmitted, OmittedRec
  <1> QED
    BY <1>2, <1>3, <1>4, <1>5, <1>6

\* The types of the next state, from those of what changes.
LEMMA TypedContext ==
  ASSUME binding' \in Binding \cup {NoBinding}, entry' \in EntryRec, confirming' \in [Confirmation -> ConfirmingRec],
         lives' \in 1..(MaxReopens + 1), staged' \in Seq(Generation), others' \in 0..MaxOther,
         truth' \in TruthRec, omitted' \in OmittedRec
  PROVE  ContextTypeOK'
  BY DEF ContextTypeOK, EntryRec, ConfirmingRec, InputRec, TruthRec, OmittedRec

LEMMA InitContext == ContextInit => ContextInv
  <1> SUFFICES ASSUME ContextInit PROVE ContextInv
    OBVIOUS
  <1>1. confirming \in [Confirmation -> ConfirmingRec] /\ \A c \in Confirmation : confirming[c] = NotConfirming
    BY NothingIs DEF ContextInit
  <1>2. staged \in Seq(Generation) /\ Len(staged) = 0 /\ others \in 0..MaxOther /\ lives \in 1..(MaxReopens + 1)
        /\ others = 0
    BY ContextBoundsAreNat DEF ContextInit
  <1>3. ContextTypeOK
    BY <1>1, <1>2, NothingIs
       DEF ContextInit, ContextTypeOK, EntryRec, ConfirmingRec, InputRec, TruthRec, OmittedRec
  <1>4. ReportsAreTrue
    BY <1>1, <1>2, NothingIs DEF ReportsAreTrue, None
  <1>5. Counted
    BY <1>2, NothingIs, ContextBoundsAreNat DEF Counted, ContextInit, None
  <1>6. EntryIsTrue /\ OmittedWasDelivered
    BY NothingIs DEF ContextInit, EntryIsTrue, OmittedWasDelivered
  <1> QED
    BY <1>3, <1>4, <1>5, <1>6 DEF ContextInv

\* The entry may lose what it confirmed; a revoked one is no other delivery's.
LEMMA RevokedIs ==
  ASSUME ContextInv
  PROVE  /\ Revoked \in EntryRec /\ Revoked.id = entry.id /\ Revoked.binding = entry.binding
         /\ Revoked.generation = entry.generation /\ Revoked.confirmed \in {entry.confirmed, "none"}
  <1>1. CASE entry.id = None
    BY <1>1, ContextTypesAre DEF Revoked
  <1>2. CASE entry.id # None
    <2>1. PICK e : e = [entry EXCEPT !.dead = TRUE, !.confirmed = "none"]
      OBVIOUS
    <2>2. e \in EntryRec /\ e.id = entry.id /\ e.binding = entry.binding /\ e.generation = entry.generation
          /\ e.confirmed = "none"
      BY <2>1, ContextTypesAre DEF EntryRec
    <2>3. Revoked = e
      BY <1>2, <2>1 DEF Revoked
    <2> QED
      BY <2>2, <2>3
  <1> QED
    BY <1>1, <1>2

\* A new delivery is none that a confirmation under way names.
LEMMA StageStep ==
  ASSUME ContextInv, Stage
  PROVE  ContextInv'
  <1> DEFINE g == entry.generation + 1
             n == Len(staged) + 1
  <1>1. n \in Delivery /\ n \in Nat /\ g \in Generation /\ g \in Nat /\ n <= MaxDeliveries
        /\ Len(staged) \in Nat /\ n > Len(staged) /\ n # None
    BY ContextTypesAre, ContextBoundsAreNat DEF Stage, Delivery, Generation, None
  <1>2. entry' = [generation |-> g, id |-> n, binding |-> binding, over |-> FALSE, dead |-> FALSE, confirmed |-> "none"]
        /\ staged' = Append(staged, g) /\ truth' = [id |-> n, binding |-> binding, held |-> {}]
        /\ omitted' = NothingOmitted /\ UNCHANGED <<binding, confirming, lives, others>>
    BY DEF Stage, Renewed
  <1>3. staged' \in Seq(Generation) /\ Len(staged') = n
    BY <1>1, <1>2, ContextTypesAre
  <1>4. g <= n + others
    BY ContextTypesAre
  <1> HIDE DEF g, n
  <1>5. entry' \in EntryRec /\ entry'.id = n /\ entry'.generation = g /\ entry'.binding = binding
        /\ entry'.confirmed = "none"
    BY <1>1, <1>2, ContextTypesAre DEF EntryRec
  <1>6. truth' \in TruthRec /\ truth'.id = n /\ truth'.binding = binding
    BY <1>1, <1>2, ContextTypesAre DEF TruthRec
  <1>7. ContextTypeOK'
    BY <1>2, <1>3, <1>5, <1>6, NothingIs, ContextTypesAre, TypedContext
  <1>8. EntryIsTrue' /\ OmittedWasDelivered'
    BY <1>2, <1>5, <1>6, NothingIs DEF EntryIsTrue, OmittedWasDelivered
  <1>9. ReportsAreTrue'
    <2> SUFFICES ASSUME NEW c \in Confirmation, NEW input, input = confirming[c].input
                 PROVE  /\ input.id \in 0..n
                        /\ input.exact => input.id # None
                        /\ ~ (input.id = n)
      BY <1>2, <1>3, <1>6 DEF ReportsAreTrue
    <2>1. input.id \in 0..Len(staged) /\ (input.exact => input.id # None)
      BY DEF ContextInv, ReportsAreTrue
    <2> QED
      BY <1>1, <2>1
  <1>10. Counted'
    BY <1>1, <1>2, <1>3, <1>4, <1>5, <1>6 DEF Counted
  <1> QED
    BY <1>7, <1>8, <1>9, <1>10 DEF ContextInv

LEMMA ResetIs ==
  ASSUME ContextInv, others < MaxOther
  PROVE  Reset \in EntryRec /\ Reset.id = None /\ Reset.generation = entry.generation + 1
         /\ Reset.generation \in Nat /\ others + 1 \in 0..MaxOther
  <1>1. entry.generation + 1 \in Generation /\ entry.generation + 1 \in Nat /\ others + 1 \in 0..MaxOther
    BY ContextTypesAre, ContextBoundsAreNat DEF Generation
  <1>2. Reset \in EntryRec /\ Reset.id = NoEntry.id /\ Reset.generation = entry.generation + 1
    BY <1>1, NothingIs DEF Reset, EntryRec
  <1> QED
    BY <1>1, <1>2, NothingIs

LEMMA InvalidateStep ==
  ASSUME ContextInv, Invalidate
  PROVE  ContextInv'
  <1>1. entry' = Reset /\ others' = others + 1 /\ others < MaxOther /\ truth' = NothingStaged /\ omitted' = NothingOmitted
        /\ UNCHANGED <<binding, confirming, lives, staged>>
    BY DEF Invalidate
  <1>2. ContextTypeOK'
    BY <1>1, ResetIs, NothingIs, ContextTypesAre, TypedContext
  <1>3. EntryIsTrue' /\ OmittedWasDelivered'
    BY <1>1, ResetIs, NothingIs DEF EntryIsTrue, OmittedWasDelivered
  <1>4. ReportsAreTrue'
    BY <1>1, NothingIs DEF ContextInv, ReportsAreTrue
  <1>5. Reset.generation <= Len(staged) + (others + 1)
    BY <1>1, ResetIs, ContextTypesAre
  <1>6. Counted'
    BY <1>1, <1>5, NothingIs, ContextTypesAre DEF Counted, None
  <1> QED
    BY <1>2, <1>3, <1>4, <1>6 DEF ContextInv

LEMMA ReopenStep ==
  ASSUME ContextInv, Reopen
  PROVE  ContextInv'
  <1>1. entry' = NoEntry /\ truth' = NothingStaged /\ omitted' = NothingOmitted
        /\ UNCHANGED <<binding, confirming, staged, others>>
    BY DEF Reopen
  <1>2. lives' \in 1..(MaxReopens + 1)
    BY ContextTypesAre, ContextBoundsAreNat DEF Reopen
  <1>3. ContextTypeOK'
    BY <1>1, <1>2, NothingIs, ContextTypesAre, TypedContext
  <1>4. EntryIsTrue' /\ OmittedWasDelivered'
    BY <1>1, NothingIs DEF EntryIsTrue, OmittedWasDelivered
  <1>5. ReportsAreTrue'
    BY <1>1, NothingIs DEF ContextInv, ReportsAreTrue
  <1>6. Counted'
    BY <1>1, NothingIs, ContextTypesAre DEF Counted, None
  <1> QED
    BY <1>3, <1>4, <1>5, <1>6 DEF ContextInv

\* A step that leaves the delivery, the confirmations and the generations.
LEMMA EntryMoves ==
  ASSUME ContextInv, entry' \in EntryRec, entry'.id = entry.id, entry'.binding = entry.binding,
         entry'.generation = entry.generation, entry'.confirmed \in {entry.confirmed, "none"},
         binding' \in Binding \cup {NoBinding}, omitted' \in OmittedRec, OmittedWasDelivered',
         UNCHANGED <<confirming, lives, staged, others, truth>>
  PROVE  ContextInv'
  <1>1. ContextTypeOK'
    BY ContextTypesAre, TypedContext
  <1>2. EntryIsTrue'
    BY DEF ContextInv, EntryIsTrue
  <1>3. ReportsAreTrue' /\ Counted'
    BY DEF ContextInv, ReportsAreTrue, Counted
  <1> QED
    BY <1>1, <1>2, <1>3 DEF ContextInv

LEMMA ProjectStep ==
  ASSUME ContextInv, Project
  PROVE  ContextInv'
  <1>1. UNCHANGED <<binding, confirming, lives, staged, others, truth>>
    BY DEF Project
  <1>2. CASE omitted' = NothingOmitted
    <2>1. OmittedWasDelivered' /\ omitted' \in OmittedRec
      BY <1>2, NothingIs DEF OmittedWasDelivered
    <2>2. entry' \in {entry, Revoked}
      BY DEF Project
    <2> QED
      BY <1>1, <2>1, <2>2, RevokedIs, ContextTypesAre, EntryMoves
  <1>3. CASE omitted' # NothingOmitted
    <2>1. Usable(binding) /\ entry.confirmed # "none" /\ UNCHANGED entry
          /\ omitted' = [id |-> entry.id, request |-> entry.confirmed]
      BY <1>3 DEF Project
    <2>2. entry.id # None /\ entry.binding = binding
      BY <2>1 DEF Usable
    <2>3. entry.id = truth.id /\ entry.binding = truth.binding /\ entry.confirmed \in truth.held
      BY <2>1, <2>2 DEF ContextInv, EntryIsTrue
    <2>4. omitted' \in OmittedRec
      BY <2>1, ContextTypesAre DEF OmittedRec, EntryRec
    <2>5. OmittedWasDelivered'
      BY <1>1, <2>1, <2>2, <2>3 DEF OmittedWasDelivered
    <2> QED
      BY <1>1, <2>1, <2>4, <2>5, ContextTypesAre, EntryMoves
  <1> QED
    BY <1>2, <1>3

LEMMA TimePasses ==
  ASSUME ContextInv, BindingChanges \/ Expires
  PROVE  ContextInv'
  <1>1. omitted' = NothingOmitted /\ UNCHANGED <<confirming, lives, staged, others, truth>>
        /\ binding' \in Binding \cup {NoBinding}
    BY ContextTypesAre DEF BindingChanges, Expires
  <1>2. OmittedWasDelivered' /\ omitted' \in OmittedRec
    BY <1>1, NothingIs DEF OmittedWasDelivered
  <1>3. PICK e : e = [entry EXCEPT !.over = TRUE]
    OBVIOUS
  <1>4. e \in EntryRec /\ e.id = entry.id /\ e.binding = entry.binding /\ e.generation = entry.generation
        /\ e.confirmed = entry.confirmed
    BY <1>3, ContextTypesAre DEF EntryRec
  <1>5. entry' \in {entry, e}
    BY <1>3 DEF BindingChanges, Expires
  <1> QED
    BY <1>1, <1>2, <1>4, <1>5, ContextTypesAre, EntryMoves

LEMMA ReportStep ==
  ASSUME ContextInv, NEW c \in Confirmation, NEW id \in DOMAIN staged, NEW request \in Request, NEW exact \in BOOLEAN,
         Report(c, id, request, exact)
  PROVE  ContextInv'
  <1>1. UNCHANGED <<binding, entry, lives, staged, others, omitted>>
    BY DEF Report
  <1>2. id \in 1..Len(staged) /\ id \in 0..Len(staged) /\ id \in Delivery /\ id # None /\ staged[id] \in Generation
    BY ContextTypesAre, ContextBoundsAreNat DEF Delivery, None
  <1>3. PICK input : input = [id |-> id, generation |-> staged[id], request |-> request, exact |-> exact]
    OBVIOUS
  <1>4. input \in InputRec /\ input.id = id /\ input.request = request /\ input.exact = exact
    BY <1>2, <1>3 DEF InputRec
  <1>5. PICK k : k = [input |-> input, before |-> binding, life |-> lives]
    OBVIOUS
  <1>6. lives \in 0..(MaxReopens + 1)
    BY ContextTypesAre, ContextBoundsAreNat
  <1>7. k \in ConfirmingRec /\ k.input = input
    BY <1>4, <1>5, <1>6, ContextTypesAre DEF ConfirmingRec
  <1>8. confirming' = [confirming EXCEPT ![c] = k]
    BY <1>3, <1>5 DEF Report
  <1>9. confirming' \in [Confirmation -> ConfirmingRec] /\ confirming'[c] = k
        /\ \A d \in Confirmation \ {c} : confirming'[d] = confirming[d]
    BY <1>7, <1>8, ContextTypesAre
  <1>10. truth' \in TruthRec /\ truth'.id = truth.id /\ truth'.binding = truth.binding /\ truth.held \subseteq truth'.held
         /\ (id = truth.id /\ exact => request \in truth'.held)
    <2>1. PICK t : t = [truth EXCEPT !.held = truth.held \cup {request}]
      OBVIOUS
    <2>2. t \in TruthRec /\ t.id = truth.id /\ t.binding = truth.binding /\ t.held = truth.held \cup {request}
      BY <2>1, ContextTypesAre DEF TruthRec
    <2>3. truth' = IF id = truth.id /\ exact THEN t ELSE truth
      BY <2>1 DEF Report
    <2> QED
      BY <2>2, <2>3, ContextTypesAre
  <1>11. ContextTypeOK'
    BY <1>1, <1>9, <1>10, ContextTypesAre, TypedContext
  <1>12. EntryIsTrue' /\ OmittedWasDelivered' /\ Counted'
    BY <1>1, <1>10 DEF ContextInv, EntryIsTrue, OmittedWasDelivered, Counted
  <1>13. ReportsAreTrue'
    <2> SUFFICES ASSUME NEW d \in Confirmation, NEW other, other = confirming'[d].input
                 PROVE  /\ other.id \in 0..Len(staged)
                        /\ other.exact => other.id # None
                        /\ other.exact /\ other.id = truth'.id => other.request \in truth'.held
      BY <1>1 DEF ReportsAreTrue
    <2>1. CASE d = c
      BY <1>2, <1>4, <1>7, <1>9, <1>10, <2>1
    <2>2. CASE d # c
      BY <1>9, <1>10, <2>2 DEF ContextInv, ReportsAreTrue
    <2> QED
      BY <2>1, <2>2
  <1> QED
    BY <1>11, <1>12, <1>13 DEF ContextInv

\* A confirmation is over.
LEMMA Over ==
  ASSUME ContextInv, NEW c \in Confirmation, confirming' = [confirming EXCEPT ![c] = NotConfirming],
         UNCHANGED <<staged, truth>>
  PROVE  confirming' \in [Confirmation -> ConfirmingRec] /\ ReportsAreTrue'
  <1>1. confirming' \in [Confirmation -> ConfirmingRec]
        /\ \A d \in Confirmation : confirming'[d] = NotConfirming \/ confirming'[d] = confirming[d]
    BY NothingIs, ContextTypesAre
  <1>2. 0 \in 0..Len(staged)
    BY ContextTypesAre
  <1>3. ReportsAreTrue'
    <2> SUFFICES ASSUME NEW d \in Confirmation, NEW other, other = confirming'[d].input
                 PROVE  /\ other.id \in 0..Len(staged)
                        /\ other.exact => other.id # None
                        /\ other.exact /\ other.id = truth.id => other.request \in truth.held
      BY DEF ReportsAreTrue
    <2>1. CASE confirming'[d] = NotConfirming
      BY <1>2, <2>1, NothingIs DEF None
    <2>2. CASE confirming'[d] = confirming[d]
      BY <2>2 DEF ContextInv, ReportsAreTrue
    <2> QED
      BY <1>1, <2>1, <2>2
  <1> QED
    BY <1>1, <1>3

\* What is confirmed was reported of this delivery, and is true of it.
LEMMA VerifiedStep ==
  ASSUME ContextInv, NEW c \in Confirmation, Verified(c)
  PROVE  ContextInv'
  <1>1. UNCHANGED <<binding, lives, staged, others, truth, omitted>>
        /\ confirming' = [confirming EXCEPT ![c] = NotConfirming]
    BY DEF Verified
  <1>2. confirming' \in [Confirmation -> ConfirmingRec] /\ ReportsAreTrue'
    BY <1>1, Over
  <1>3. /\ entry' \in EntryRec /\ entry'.id = entry.id /\ entry'.binding = entry.binding
        /\ entry'.generation = entry.generation
        /\ entry'.id # None /\ entry'.confirmed # "none" => entry'.confirmed \in truth.held
    <2>1. CASE entry' \in {entry, Revoked}
      BY <2>1, RevokedIs, ContextTypesAre DEF ContextInv, EntryIsTrue
    <2>2. CASE entry' \notin {entry, Revoked}
      <3>1. PICK k \in ConfirmingRec : k = confirming[c]
        BY ContextTypesAre
      <3>2. Usable(binding) /\ Names(k.input) /\ entry' = Confirmed(k.input)
        BY <2>2, <3>1 DEF Verified
      <3>3. k.input.exact /\ entry' = [entry EXCEPT !.confirmed = k.input.request]
        BY <2>2, <3>2 DEF Confirmed
      <3>4. entry.id # None /\ k.input.id = entry.id
        BY <3>2 DEF Usable, Names
      <3>5. k.input.request \in truth.held
        BY <3>1, <3>3, <3>4 DEF ContextInv, EntryIsTrue, ReportsAreTrue
      <3>6. k.input.request \in Request \cup {"none"}
        BY DEF ConfirmingRec, InputRec
      <3>7. PICK r : r = k.input.request
        OBVIOUS
      <3>8. entry' \in EntryRec /\ entry'.id = entry.id /\ entry'.binding = entry.binding
            /\ entry'.generation = entry.generation /\ entry'.confirmed = r
        BY <3>3, <3>6, <3>7, ContextTypesAre DEF EntryRec
      <3> QED
        BY <3>5, <3>7, <3>8
    <2> QED
      BY <2>1, <2>2
  <1>4. ContextTypeOK'
    BY <1>1, <1>2, <1>3, ContextTypesAre, TypedContext
  <1>5. EntryIsTrue' /\ OmittedWasDelivered' /\ Counted'
    BY <1>1, <1>3 DEF ContextInv, EntryIsTrue, OmittedWasDelivered, Counted
  <1> QED
    BY <1>2, <1>4, <1>5 DEF ContextInv

LEMMA UnverifiedStep ==
  ASSUME ContextInv, NEW c \in Confirmation, Unverified(c)
  PROVE  ContextInv'
  <1>1. UNCHANGED <<binding, lives, staged, truth, omitted>>
        /\ confirming' = [confirming EXCEPT ![c] = NotConfirming] /\ others < MaxOther /\ others' = others + 1
        /\ entry' \in {entry, Reset}
    BY DEF Unverified
  <1>2. confirming' \in [Confirmation -> ConfirmingRec] /\ ReportsAreTrue'
    BY <1>1, Over
  <1>3. ContextTypeOK'
    BY <1>1, <1>2, ResetIs, ContextTypesAre, TypedContext
  <1>4. EntryIsTrue' /\ OmittedWasDelivered'
    BY <1>1, ResetIs DEF ContextInv, EntryIsTrue, OmittedWasDelivered
  <1>5. entry'.generation <= Len(staged) + (others + 1)
    BY <1>1, ResetIs, ContextTypesAre
  <1>6. Counted'
    BY <1>1, <1>5 DEF ContextInv, Counted
  <1> QED
    BY <1>2, <1>3, <1>4, <1>6 DEF ContextInv

LEMMA ContextStep == ContextInv /\ [ContextNext]_contextVars => ContextInv'
  <1> SUFFICES ASSUME ContextInv, [ContextNext]_contextVars PROVE ContextInv'
    OBVIOUS
  <1>1. CASE UNCHANGED contextVars
    BY <1>1 DEF contextVars, ContextInv, ContextTypeOK, EntryIsTrue, ReportsAreTrue, Counted, OmittedWasDelivered
  <1>2. CASE ContextNext
    BY <1>2, StageStep, InvalidateStep, ProjectStep, ReportStep, VerifiedStep, UnverifiedStep, TimePasses, ReopenStep
       DEF ContextNext
  <1> QED
    BY <1>1, <1>2

\* The inductive invariant of the context holds.
LEMMA ContextInvariant == ContextSpec => []ContextInv
  BY InitContext, ContextStep, PTL DEF ContextSpec

\* The context is left out only after a request that held exactly the latest
\* assembly's (ContextDeliveryCoordinator.projection and confirm).
THEOREM OmittedWasDeliveredHolds == ContextSpec => []OmittedWasDelivered
  BY ContextInvariant, PTL DEF ContextInv

\* The step of a late confirmation: it does not name the delivery that is staged.
LEMMA LateStep ==
  ASSUME ContextInv, [ContextNext]_contextVars, NEW c \in Confirmation,
         confirming[c] # NotConfirming, confirming'[c] = NotConfirming,
         confirming[c].input.id # entry.id, Usable(binding)
  PROVE  entry' = entry
  <1>1. \A d \in Confirmation : Verified(d) \/ Unverified(d) => d = c
    <2> SUFFICES ASSUME NEW d \in Confirmation, Verified(d) \/ Unverified(d), d # c PROVE FALSE
      OBVIOUS
    <2>1. confirming' = [confirming EXCEPT ![d] = NotConfirming]
      BY DEF Verified, Unverified
    <2> QED
      BY <2>1, ContextTypesAre
  <1>2. ~ Names(confirming[c].input)
    BY DEF Names
  <1>3. CASE Verified(c)
    BY <1>2, <1>3 DEF Verified
  <1>4. CASE Unverified(c)
    BY <1>2, <1>4 DEF Unverified
  <1>5. CASE \E d \in Confirmation, id \in DOMAIN staged, request \in Request, exact \in BOOLEAN :
               Report(d, id, request, exact)
    BY <1>5 DEF Report
  <1>6. CASE Stage \/ Invalidate \/ Project \/ BindingChanges \/ Expires \/ Reopen \/ UNCHANGED contextVars
    BY <1>6 DEF Stage, Invalidate, Project, BindingChanges, Expires, Reopen, contextVars
  <1> QED
    BY <1>1, <1>3, <1>4, <1>5, <1>6 DEF ContextNext

\* A confirmation that comes late, or cannot be verified, leaves the delivery of a
\* newer assembly as it is (confirmContextDelivery, invalidateConfirmation).
THEOREM LateLeavesNewerHolds == ContextSpec => LateLeavesNewer
  <1>1. ContextInv /\ [ContextNext]_contextVars =>
          [ \A c \in Confirmation :
              /\ confirming[c] # NotConfirming /\ confirming'[c] = NotConfirming
              /\ confirming[c].input.id # entry.id /\ Usable(binding)
              => entry' = entry ]_contextVars
    BY LateStep
  <1> QED
    BY <1>1, ContextInvariant, PTL DEF ContextSpec, LateLeavesNewer

-----------------------------------------------------------------------------
(* The two together *)

\* At work beside each other, both keep their invariants.
LEMMA BothInvariants == DSpec => [](ArtifactInv /\ ContextInv)
  <1>1. DInit => ArtifactInv /\ ContextInv
    BY InitArtifacts, InitContext DEF DInit
  <1>2. ArtifactInv /\ ContextInv /\ [DNext]_<<part, vars, contextVars>> => ArtifactInv' /\ ContextInv'
    <2> SUFFICES ASSUME ArtifactInv, ContextInv, [DNext]_<<part, vars, contextVars>>
                 PROVE  ArtifactInv' /\ ContextInv'
      OBVIOUS
    <2>1. [Next]_vars /\ [ContextNext]_contextVars
      BY DEF DNext
    <2> QED
      BY <2>1, ArtifactStep, ContextStep
  <1> QED
    BY <1>1, <1>2, PTL DEF DSpec

\* Both components keep their state in its type.
THEOREM TypesHold == DSpec => []Types
  <1>1. ArtifactInv /\ ContextInv => Types
    BY DEF Types, ArtifactInv, ContextInv
  <1> QED
    BY <1>1, BothInvariants, PTL
=============================================================================
