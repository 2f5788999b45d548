---------------------- MODULE InvocationDispatchProofs ----------------------
(***************************************************************************)
(* However many hosts open the session, and whatever is lost, repeated or  *)
(* restarted, one invoke request leaves for a governed call.               *)
(***************************************************************************)
EXTENDS InvocationDispatch, TLAPS

(* TypeOK in parts, so that a step has to show those it changes. *)

RecordType == [Host -> [Actor -> CallRecord]]

DurableTypes ==
  /\ journal \in Known
  /\ failed \in [Host -> BOOLEAN]
  /\ unsaved \in [Host -> Outcome]

OperationTypes ==
  /\ actor \in [Host -> Actor]
  /\ intent \in [Host -> {"execute", "resume", "inspect"}]
  /\ pc \in [Host -> Label]
  /\ own \in [Host -> BOOLEAN]
  /\ managed \in [Host -> BOOLEAN]
  /\ attempts \in [Host -> 0..MaxAttempts]
  /\ resumes \in [Host -> Nat]
  /\ stale \in [Host -> BOOLEAN]

NetworkTypes ==
  /\ wire \in SUBSET Request
  /\ reply \in [Host -> Reply]
  /\ core \in {"absent"} \cup Result
  /\ invokes \in Nat

OtherTypes ==
  /\ ended \in [Host -> BOOLEAN]
  /\ observed \in [Host -> BOOLEAN]
  /\ taskBound \in BOOLEAN
  /\ calls \in 0..MaxCalls
  /\ crashes \in 0..MaxCrashes

LEMMA Parts == TypeOK <=> DurableTypes /\ record \in RecordType /\ OperationTypes /\ NetworkTypes /\ OtherTypes
  BY DEF TypeOK, DurableTypes, RecordType, OperationTypes, NetworkTypes, OtherTypes

LEMMA PartsPrime ==
  TypeOK' <=> DurableTypes' /\ record' \in RecordType /\ OperationTypes' /\ NetworkTypes' /\ OtherTypes'
  BY DEF TypeOK, DurableTypes, RecordType, OperationTypes, NetworkTypes, OtherTypes

Waiting == {"invoking", "resuming", "inspecting", "receipt"}

\* Only a result is remembered, and only a result stays unsaved; a host works on
\* a call only when everything it learned of it is saved.
ResultInvOf(h) ==
  /\ pc[h] = "remember" => Rec(h).latest \in Result
  /\ unsaved[h] # NothingUnsaved => unsaved[h].next \in Result
  /\ pc[h] \notin {"idle", "verify"} => unsaved[h] = NothingUnsaved
ResultInv == \A h \in Host : ResultInvOf(h)

\* The call has one owner at most, who has sent nothing before the gate.
OwnInv ==
  /\ journal = "none" => invokes = 0 /\ \A h \in Host : ~ own[h]
  /\ \A h, g \in Host : own[h] /\ own[g] => h = g
  /\ \A h \in Host : own[h] /\ pc[h] = "gate" => invokes = 0
  /\ invokes <= 1

\* Where an operation that resumes can be: a panel never polls, and a recovery
\* that reads the receipt first polls only to observe.
ResumeInvOf(h) ==
  /\ pc[h] = "idle" => resumes[h] = 0 /\ actor[h] = "run"
  /\ pc[h] \in {"reserve", "gate", "invoking"} => intent[h] = "execute"
  /\ actor[h] = "panel" => pc[h] \in {"receipt", "remember", "decide", "resuming", "again"} /\ resumes[h] <= 1
  /\ actor[h] = "run" /\ intent[h] = "resume" /\ NeedsReceipt(h) =>
       /\ resumes[h] <= 1
       /\ pc[h] = "wait" => managed[h]
       /\ pc[h] = "pause" => resumes[h] = 0
ResumeInv == \A h \in Host : ResumeInvOf(h)

\* A host has at most one request under way, and waits for its answer.
WireInv ==
  /\ \A h \in Host : reply[h] # "none" => pc[h] \in Waiting
  /\ \A m \in wire : m.from # Nobody => pc[m.from] \in Waiting /\ reply[m.from] = "none"
  /\ \A m, n \in wire : m.from = n.from /\ m.from # Nobody => m = n

\* How far Core has got with the call; everything the hosts know is behind it.
Level == IF core = "absent" THEN 1 ELSE Rank[core]

\* What a host works from is behind the journal, what it heard is ahead of it.
OrderInvOf(h) ==
  /\ \A a \in Actor : Rank[record[h][a].entry] <= Rank[journal]
  /\ reply[h] \in Result => Rank[Rec(h).entry] <= Rank[reply[h]] /\ Rank[reply[h]] <= Level
  /\ pc[h] = "remember" => Rank[Rec(h).entry] <= Rank[Rec(h).latest] /\ Rank[Rec(h).latest] <= Level
  /\ Rank[unsaved[h].previous] <= Rank[unsaved[h].next] /\ Rank[unsaved[h].next] <= Level
OrderInv == Rank[journal] <= Level /\ \A h \in Host : OrderInvOf(h)

\* What a run goes on with is in the journal, or still to be saved.
KeptInvOf(h) ==
  record[h]["run"].latest # "none" =>
    \/ pc[h] = "remember" /\ actor[h] = "run"
    \/ Rank[record[h]["run"].latest] <= Rank[journal]
    \/ record[h]["run"].latest = unsaved[h].next
KeptInv == \A h \in Host : KeptInvOf(h)

IInv == TypeOK /\ ResultInv /\ OwnInv /\ ResumeInv /\ WireInv /\ OrderInv /\ KeptInv

-----------------------------------------------------------------------------
(* What the helpers leave. *)

LEMMA RankIs ==
  /\ Rank["none"] = 0 /\ Rank["unknown"] = 1 /\ Rank["held"] = 2 /\ Rank["running"] = 3 /\ Rank["done"] = 4
  /\ \A k \in Known : Rank[k] \in Nat
  /\ \A k \in Result : Rank[k] \in Nat /\ Rank[k] > 1 /\ k \in Known /\ k # "none"
  BY DEF Rank, Known, Result

LEMMA EmptyIs == Empty \in CallRecord /\ NothingUnsaved \in Outcome
  BY DEF Empty, CallRecord, NothingUnsaved, Outcome, Known

LEMMA RecordIs ==
  ASSUME record \in RecordType, NEW h \in Host, NEW a \in Actor, NEW c \in CallRecord
  PROVE  /\ [record EXCEPT ![h][a] = c] \in RecordType
         /\ [record EXCEPT ![h][a] = c][h][a] = c
         /\ \A g \in Host, b \in Actor : g # h \/ b # a => [record EXCEPT ![h][a] = c][g][b] = record[g][b]
  BY DEF RecordType

LEMMA FieldIs ==
  ASSUME NEW c \in CallRecord, NEW r \in {"none"} \cup Result, NEW e \in Known, NEW i \in BOOLEAN
  PROVE  /\ [c EXCEPT !.latest = r] \in CallRecord /\ [c EXCEPT !.latest = r].latest = r
         /\ [c EXCEPT !.latest = r].entry = c.entry
         /\ [c EXCEPT !.entry = e] \in CallRecord /\ [c EXCEPT !.entry = e].latest = c.latest
         /\ [c EXCEPT !.entry = e].entry = e
         /\ [c EXCEPT !.invoked = i] \in CallRecord /\ [c EXCEPT !.invoked = i].latest = c.latest
         /\ [c EXCEPT !.invoked = i].entry = c.entry
         /\ [invoked |-> i, latest |-> r, entry |-> e] \in CallRecord
  BY DEF CallRecord

LEMMA RecIs ==
  ASSUME TypeOK, NEW h \in Host
  PROVE  Rec(h) \in CallRecord /\ Rec(h) = record[h][actor[h]] /\ actor[h] \in Actor /\ record \in RecordType
  BY DEF TypeOK, Rec, RecordType

LEMMA FinishIs ==
  ASSUME OperationTypes, NEW h \in Host, Finish(h), BoundsAreNat
  PROVE  /\ OperationTypes'
         /\ pc'[h] = "idle" /\ own'[h] = FALSE /\ resumes'[h] = 0 /\ actor'[h] = "run"
         /\ stale'[h] = FALSE /\ intent'[h] = "execute" /\ managed'[h] = FALSE
         /\ \A g \in Host : g # h => /\ pc'[g] = pc[g] /\ own'[g] = own[g] /\ resumes'[g] = resumes[g]
                                    /\ actor'[g] = actor[g] /\ stale'[g] = stale[g] /\ intent'[g] = intent[g]
                                    /\ managed'[g] = managed[g]
  <1>1. 0 \in 0..MaxAttempts
    BY BoundsAreNat
  <1> QED
    BY <1>1 DEF OperationTypes, Finish, Goto, Actor, Label

LEMMA FinishRecordIs ==
  ASSUME TypeOK, NEW h \in Host, FinishRecord(h)
  PROVE  /\ record' \in RecordType
         /\ record'[h]["run"] = record[h]["run"] /\ record'[h]["panel"] = Empty
         /\ \A g \in Host : g # h => record'[g] = record[g]
  <1>1. record \in RecordType /\ "panel" \in Actor /\ "run" \in Actor /\ "run" # "panel"
    BY RecIs DEF Actor
  <1>2. record' = [record EXCEPT ![h]["panel"] = Empty]
    BY DEF FinishRecord
  <1>3. \A g \in Host : g # h => record'[g] = record[g]
    BY <1>1, <1>2 DEF RecordType
  <1>4. record' \in RecordType /\ record'[h]["panel"] = Empty
    BY <1>1, <1>2, EmptyIs DEF RecordType
  <1>5. record'[h]["run"] = record[h]["run"]
    BY <1>1, <1>2 DEF RecordType
  <1> QED
    BY <1>3, <1>4, <1>5

LEMMA PostIs ==
  ASSUME TypeOK, NEW h \in Host, NEW kind \in {"invoke", "resume", "inspect"}, NEW label \in Label, Post(h, kind, label)
  PROVE  /\ NetworkTypes'
         /\ resumes' \in [Host -> Nat] /\ pc' \in [Host -> Label]
         /\ pc'[h] = label /\ resumes'[h] = (IF kind = "resume" THEN resumes[h] + 1 ELSE resumes[h])
         /\ \A g \in Host : g # h => pc'[g] = pc[g] /\ resumes'[g] = resumes[g]
         /\ wire' = wire \cup {[from |-> h, kind |-> kind]}
         /\ invokes' = (IF kind = "invoke" THEN invokes + 1 ELSE invokes)
  <1>1. [from |-> h, kind |-> kind] \in Request
    BY DEF Request
  <1> QED
    BY <1>1 DEF Post, Goto, TypeOK, NetworkTypes

LEMMA ConsumeIs ==
  ASSUME TypeOK, NEW h \in Host, Consume(h)
  PROVE  NetworkTypes' /\ UNCHANGED <<wire, core, invokes>> /\ \A g \in Host : g # h => reply'[g] = reply[g]
  BY DEF TypeOK, NetworkTypes, Consume, Reply

LEMMA RefreshedIs ==
  ASSUME TypeOK, NEW h \in Host
  PROVE  /\ Refreshed(h) \in RecordType
         /\ Refreshed(h)[h][actor[h]].latest \in {"none"} \cup Result
         /\ \A g \in Host : g # h => Refreshed(h)[g] = record[g]
  <1>1. record \in RecordType /\ Rec(h) \in CallRecord /\ actor[h] \in Actor /\ journal \in Known /\ Rec(h) = record[h][actor[h]]
    BY RecIs DEF TypeOK
  <1> DEFINE c == [invoked |-> Rec(h).invoked, entry |-> journal,
                   latest |-> IF Rec(h).latest = journal THEN Rec(h).latest ELSE "none"]
  <1>2. c \in CallRecord
    BY <1>1 DEF CallRecord
  <1> HIDE DEF c
  <1>3. Refreshed(h) = IF Rec(h).entry = "none" THEN record ELSE [record EXCEPT ![h][actor[h]] = c]
    BY <1>1 DEF Refreshed, c, RecordType
  <1>4. Refreshed(h) \in RecordType
    BY <1>1, <1>2, <1>3, RecordIs
  <1>5. \A g \in Host : g # h => Refreshed(h)[g] = record[g]
    BY <1>1, <1>3 DEF RecordType
  <1>6. Refreshed(h)[h][actor[h]] \in CallRecord
    BY <1>1, <1>4 DEF RecordType
  <1> QED
    BY <1>4, <1>5, <1>6 DEF CallRecord

LEMMA InitInv == Init => IInv
  <1> SUFFICES ASSUME Init PROVE IInv
    OBVIOUS
  <1>1. DurableTypes
    BY EmptyIs DEF Init, DurableTypes, Known
  <1>2. record \in RecordType
    BY EmptyIs DEF Init, RecordType
  <1>3. OperationTypes
    BY BoundsAreNat DEF Init, OperationTypes, Actor, Label
  <1>4. NetworkTypes /\ OtherTypes
    BY BoundsAreNat DEF Init, NetworkTypes, OtherTypes, Reply
  <1>5. ResultInv /\ OwnInv
    BY DEF Init, ResultInv, ResultInvOf, OwnInv
  <1>6. ResumeInv /\ WireInv
    BY DEF Init, ResumeInv, ResumeInvOf, WireInv
  <1>7. OrderInv /\ KeptInv
    BY RankIs, EmptyIs DEF Init, OrderInv, OrderInvOf, KeptInv, KeptInvOf, Level, Empty, NothingUnsaved, Actor, Result
  <1> QED
    BY <1>1, <1>2, <1>3, <1>4, <1>5, <1>6, <1>7, Parts DEF IInv

-----------------------------------------------------------------------------
(* The steps keep the types. *)

LEMMA StartTypes ==
  ASSUME TypeOK, NEW h \in Host,
         StartExecute(h) \/ StartResume(h) \/ StartPanel(h, "inspect") \/ StartPanel(h, "resume")
  PROVE  TypeOK'
  <1> USE DEF durable, operation, network, bounds, Goto
  <1>0. DurableTypes /\ record \in RecordType /\ OperationTypes /\ NetworkTypes /\ OtherTypes
    BY Parts
  <1>1. ASSUME NEW what \in {"execute", "resume"}, Start(h, what, "run", "verify"), UNCHANGED observed
        PROVE  DurableTypes' /\ OperationTypes' /\ OtherTypes'
    <2>1. calls' \in 0..MaxCalls
      BY <1>0, <1>1, BoundsAreNat DEF Start, OtherTypes
    <2>2. DurableTypes' /\ OtherTypes'
      BY <1>0, <1>1, <2>1 DEF Start, DurableTypes, OtherTypes
    <2>3. pc' \in [Host -> Label] /\ actor' \in [Host -> Actor]
      BY <1>0, <1>1 DEF Start, OperationTypes, Actor, Label
    <2>4. OperationTypes'
      BY <1>0, <1>1, <2>3 DEF Start, OperationTypes
    <2> QED
      BY <2>2, <2>4
  <1>2. CASE StartExecute(h)
    <2>1. NetworkTypes' /\ record' \in RecordType
      BY <1>0, <1>2 DEF StartExecute, NetworkTypes
    <2> QED
      BY <1>1, <1>2, <2>1, PartsPrime DEF StartExecute
  <1>3. CASE StartResume(h)
    <2>1. NetworkTypes'
      BY <1>0, <1>3 DEF StartResume, NetworkTypes
    <2>2. OtherTypes' /\ DurableTypes' /\ OperationTypes'
      BY <1>0, <1>1, <1>3 DEF StartResume, OtherTypes
    <2>3. record' \in RecordType
      <3> DEFINE r == record[h]["run"]
                 c == IF r.entry = "none" THEN [invoked |-> TRUE, latest |-> r.latest, entry |-> journal]
                      ELSE r
      <3>1. r \in CallRecord /\ "run" \in Actor
        BY <1>0 DEF RecordType, Actor
      <3>2. c \in CallRecord
        BY <1>0, <3>1 DEF CallRecord, DurableTypes
      <3> HIDE DEF c
      <3>3. record' = [record EXCEPT ![h]["run"] = c]
        BY <1>0, <1>3, <3>1 DEF StartResume, c, RecordType
      <3> QED
        BY <1>0, <3>1, <3>2, <3>3, RecordIs
    <2> QED
      BY <2>1, <2>2, <2>3, PartsPrime
  <1>4. ASSUME NEW what \in {"resume", "inspect"}, StartPanel(h, what) PROVE TypeOK'
    <2>1. calls' \in 0..MaxCalls
      BY <1>0, <1>4, BoundsAreNat DEF StartPanel, OtherTypes
    <2>2. DurableTypes' /\ OtherTypes'
      BY <1>0, <1>4, <2>1 DEF StartPanel, DurableTypes, OtherTypes
    <2>3. NetworkTypes' /\ resumes' \in [Host -> Nat] /\ pc' \in [Host -> Label]
      BY <1>4, PostIs DEF StartPanel, Label
    <2>4. OperationTypes'
      BY <1>0, <1>4, <2>3 DEF StartPanel, OperationTypes, Actor
    <2>5. [Empty EXCEPT !.entry = journal] \in CallRecord
      BY <1>0, EmptyIs DEF DurableTypes, CallRecord
    <2>6. record' \in RecordType
      BY <1>0, <1>4, <2>5, RecordIs DEF StartPanel, Actor
    <2> QED
      BY <2>2, <2>3, <2>4, <2>6, PartsPrime
  <1> QED
    BY <1>2, <1>3, <1>4

\* The steps of an operation change nothing but the call and the history of it.
LEMMA DurableStep ==
  ASSUME IInv, NEW h \in Host, Step(h) \/ Restore(h)
  PROVE  DurableTypes'
  <1> USE DEF durable, JournalFails
  <1>0. TypeOK /\ DurableTypes /\ ResultInv
    BY Parts DEF IInv
  <1>1. CASE UNCHANGED durable
    BY <1>0, <1>1 DEF DurableTypes
  <1>2. CASE JournalFails(h)
    BY <1>0, <1>2 DEF DurableTypes
  <1>3. CASE Verify(h) \/ VerifyFails(h) \/ Dispatch(h) \/ DispatchRefused(h) \/ InvokeAnswered(h) \/ WaitOver(h)
              \/ Poll(h) \/ PollFails(h) \/ PollAnswered(h) \/ PollRejected(h) \/ ReceiptAnswered(h) \/ Decide(h)
              \/ ResumeAfterPause(h) \/ InspectAgain(h)
    BY <1>1, <1>2, <1>3 DEF Verify, VerifyFails, Dispatch, DispatchRefused, InvokeAnswered, WaitOver, Poll, PollFails,
       PollAnswered, PollRejected, ReceiptAnswered, Decide, ResumeAfterPause, InspectAgain
  <1>4. Reserved \in Known
    BY <1>0 DEF Reserved, DurableTypes, Known
  <1>5. CASE Reserve(h)
    BY <1>0, <1>4, <1>5 DEF Reserve, DurableTypes
  <1>6. CASE ReserveFails(h)
    BY <1>0, <1>1, <1>4, <1>6 DEF ReserveFails, DurableTypes
  <1>7. Rec(h).latest \in Known /\ Rec(h).entry \in Known /\ Rec(h) \in CallRecord
    BY <1>0, RecIs DEF CallRecord, Known
  <1>8. CASE Remember(h)
    BY <1>0, <1>7, <1>8 DEF Remember, DurableTypes
  <1>9. CASE RememberFails(h)
    <2>1. [next |-> Rec(h).latest, previous |-> Rec(h).entry] \in Outcome
      BY <1>7 DEF Outcome
    <2> QED
      BY <1>0, <1>7, <1>9, <2>1 DEF RememberFails, KeepUnsaved, DurableTypes
  <1>10. CASE Restore(h)
    BY <1>0, <1>10, EmptyIs DEF Restore, DurableTypes, Outcome
  <1> QED
    BY <1>3, <1>5, <1>6, <1>8, <1>9, <1>10 DEF Step

LEMMA RecordStep ==
  ASSUME IInv, NEW h \in Host, Step(h) \/ Restore(h)
  PROVE  record' \in RecordType
  <1>0. TypeOK /\ record \in RecordType /\ Rec(h) \in CallRecord /\ actor[h] \in Actor /\ journal \in Known
        /\ "run" \in Actor /\ reply[h] \in Reply
    BY RecIs DEF IInv, TypeOK, Actor
  <1>1. CASE UNCHANGED record
    BY <1>0, <1>1
  <1>2. CASE FinishRecord(h)
    BY <1>0, <1>2, FinishRecordIs
  <1>3. ASSUME NEW c \in CallRecord, NEW a \in Actor, record' = [record EXCEPT ![h][a] = c] PROVE record' \in RecordType
    BY <1>0, <1>3, RecordIs
  <1>4. CASE record' = Refreshed(h)
    BY <1>0, <1>4, RefreshedIs
  <1>5. ASSUME NEW r \in Result, SetLatest(h, r) PROVE record' \in RecordType
    <2>1. [Rec(h) EXCEPT !.latest = r] \in CallRecord
      BY <1>0 DEF CallRecord
    <2>2. record' = [record EXCEPT ![h][actor[h]] = [Rec(h) EXCEPT !.latest = r]]
      BY <1>0, <1>5 DEF SetLatest, Rec, RecordType
    <2> QED
      BY <1>0, <1>3, <2>1, <2>2
  <1>6. CASE VerifyFails(h) \/ ReserveFails(h) \/ DispatchRefused(h) \/ RememberFails(h) \/ WaitOver(h) \/ PollFails(h)
              \/ PollRejected(h) \/ Decide(h) \/ ResumeAfterPause(h) \/ InspectAgain(h) \/ Verify(h) \/ Poll(h) \/ Restore(h)
    BY <1>1, <1>2, <1>4, <1>6 DEF VerifyFails, ReserveFails, DispatchRefused, RememberFails, WaitOver, PollFails,
       PollRejected, Decide, ResumeAfterPause, InspectAgain, Verify, Poll, Restore
  <1>7. CASE PollAnswered(h) \/ ReceiptAnswered(h)
    BY <1>1, <1>2, <1>5, <1>7 DEF PollAnswered, ReceiptAnswered
  <1>8. record[h]["run"] \in CallRecord
    BY <1>0 DEF RecordType
  <1>9. CASE Reserve(h)
    <2>1. Reserved \in Known
      BY <1>0 DEF Reserved, Known
    <2>2. [record[h]["run"] EXCEPT !.entry = Reserved] \in CallRecord
      BY <1>8, <2>1 DEF CallRecord
    <2>3. record' = [record EXCEPT ![h]["run"] = [record[h]["run"] EXCEPT !.entry = Reserved]]
      BY <1>0, <1>9 DEF Reserve, RecordType
    <2> QED
      BY <1>0, <1>3, <2>2, <2>3
  <1>10. ASSUME NEW i \in BOOLEAN, record' = [record EXCEPT ![h]["run"].invoked = i] PROVE record' \in RecordType
    <2>1. [record[h]["run"] EXCEPT !.invoked = i] \in CallRecord
      BY <1>8 DEF CallRecord
    <2>2. record' = [record EXCEPT ![h]["run"] = [record[h]["run"] EXCEPT !.invoked = i]]
      BY <1>0, <1>10 DEF RecordType
    <2> QED
      BY <1>0, <1>3, <2>1, <2>2
  <1>11. CASE Dispatch(h)
    BY <1>10, <1>11 DEF Dispatch
  <1>12. CASE InvokeAnswered(h)
    BY <1>1, <1>5, <1>10, <1>12 DEF InvokeAnswered
  <1>13. CASE Remember(h)
    <2>1. Rec(h).latest \in Known
      BY <1>0 DEF CallRecord, Known
    <2>2. [Rec(h) EXCEPT !.entry = Rec(h).latest] \in CallRecord
      BY <1>0, <2>1 DEF CallRecord
    <2>3. record' = [record EXCEPT ![h][actor[h]] = [Rec(h) EXCEPT !.entry = Rec(h).latest]]
      BY <1>0, <1>13 DEF Remember, Rec, RecordType
    <2> QED
      BY <1>0, <1>3, <2>2, <2>3
  <1> QED
    BY <1>6, <1>7, <1>9, <1>11, <1>12, <1>13 DEF Step

LEMMA OperationStep ==
  ASSUME IInv, NEW h \in Host, Step(h) \/ Restore(h)
  PROVE  OperationTypes'
  <1> USE DEF Goto, operation
  <1>0. TypeOK /\ OperationTypes /\ MaxAttempts \in Nat
    BY Parts, BoundsAreNat DEF IInv
  <1>1. CASE Finish(h)
    BY <1>0, <1>1, FinishIs, BoundsAreNat
  <1>2. ASSUME pc' \in [Host -> Label], own' \in [Host -> BOOLEAN], managed' \in [Host -> BOOLEAN],
               attempts' \in [Host -> 0..MaxAttempts], resumes' \in [Host -> Nat], UNCHANGED <<actor, intent, stale>>
        PROVE  OperationTypes'
    BY <1>0, <1>2 DEF OperationTypes
  <1>3. ASSUME NEW kind \in {"invoke", "resume", "inspect"}, NEW label \in Label, Post(h, kind, label),
               own' \in [Host -> BOOLEAN], managed' \in [Host -> BOOLEAN],
               attempts' \in [Host -> 0..MaxAttempts], UNCHANGED <<actor, intent, stale>>
        PROVE  OperationTypes'
    BY <1>0, <1>2, <1>3, PostIs
  <1>4. ASSUME NEW label \in Label, Goto(h, label),
               own' \in [Host -> BOOLEAN], managed' \in [Host -> BOOLEAN], attempts' \in [Host -> 0..MaxAttempts],
               UNCHANGED <<actor, intent, stale, resumes>>
        PROVE  OperationTypes'
    <2>1. pc' \in [Host -> Label] /\ resumes' \in [Host -> Nat]
      BY <1>0, <1>4 DEF OperationTypes
    <2> QED
      BY <1>2, <1>4, <2>1
  <1>5. \A b \in BOOLEAN : [managed EXCEPT ![h] = b] \in [Host -> BOOLEAN]
    BY <1>0 DEF OperationTypes
  <1>6. taskBound \in BOOLEAN /\ own \in [Host -> BOOLEAN] /\ managed \in [Host -> BOOLEAN] /\ attempts \in [Host -> 0..MaxAttempts]
    BY <1>0 DEF TypeOK
  <1>7. {"reserve", "wait", "receipt", "gate", "invoking", "remember", "resuming", "inspecting", "pause", "decide", "again"} \subseteq Label
    BY DEF Label
  <1>8. CASE VerifyFails(h) \/ ReserveFails(h) \/ DispatchRefused(h) \/ RememberFails(h) \/ WaitOver(h) \/ PollFails(h)
              \/ PollRejected(h)
    BY <1>1, <1>8 DEF VerifyFails, ReserveFails, DispatchRefused, RememberFails, WaitOver, PollFails, PollRejected
  <1>9. CASE Restore(h)
    BY <1>0, <1>9 DEF Restore, OperationTypes
  <1>10. CASE Verify(h)
    BY <1>1, <1>3, <1>4, <1>5, <1>6, <1>7, <1>10 DEF Verify
  <1>11. CASE Reserve(h)
    <2>1. own' \in [Host -> BOOLEAN]
      BY <1>6, <1>11 DEF Reserve, ReserveCreates
    <2> QED
      BY <1>4, <1>6, <1>7, <1>11, <2>1 DEF Reserve
  <1>12. CASE Dispatch(h)
    BY <1>3, <1>4, <1>5, <1>6, <1>7, <1>12 DEF Dispatch
  <1>13. CASE InvokeAnswered(h)
    BY <1>1, <1>4, <1>5, <1>6, <1>7, <1>13 DEF InvokeAnswered
  <1>14. CASE Remember(h)
    <2>1. AfterRemember(h) \in Label
      BY <1>7 DEF AfterRemember
    <2> QED
      BY <1>4, <1>6, <1>14, <2>1 DEF Remember
  <1>15. CASE Poll(h)
    <2>1. attempts' \in [Host -> 0..MaxAttempts]
      BY <1>0, <1>6, <1>15 DEF Poll, MayPoll
    <2> QED
      BY <1>3, <1>6, <1>7, <1>15, <2>1 DEF Poll
  <1>16. CASE PollAnswered(h)
    <2>1. managed' \in [Host -> BOOLEAN]
      <3>1. (actor[h] = "run" /\ (managed[h] \/ ObserveOnly(h))) \in BOOLEAN
        OBVIOUS
      <3>2. managed' = [managed EXCEPT ![h] = actor[h] = "run" /\ (managed[h] \/ ObserveOnly(h))]
        BY <1>6, <1>16 DEF PollAnswered
      <3> QED
        BY <1>5, <3>1, <3>2
    <2> QED
      BY <1>4, <1>6, <1>7, <1>16, <2>1 DEF PollAnswered
  <1>17. CASE ReceiptAnswered(h)
    BY <1>1, <1>4, <1>5, <1>6, <1>7, <1>17 DEF ReceiptAnswered
  <1>18. CASE Decide(h)
    BY <1>1, <1>3, <1>4, <1>5, <1>6, <1>7, <1>18 DEF Decide
  <1>19. CASE ResumeAfterPause(h)
    BY <1>1, <1>3, <1>6, <1>7, <1>19 DEF ResumeAfterPause
  <1>20. CASE InspectAgain(h)
    BY <1>1, <1>3, <1>5, <1>6, <1>7, <1>20 DEF InspectAgain
  <1> QED
    BY <1>8, <1>9, <1>10, <1>11, <1>12, <1>13, <1>14, <1>15, <1>16, <1>17, <1>18, <1>19, <1>20 DEF Step

LEMMA NetworkStep ==
  ASSUME IInv, NEW h \in Host, Step(h) \/ Restore(h)
  PROVE  NetworkTypes' /\ OtherTypes'
  <1> USE DEF network, bounds
  <1>0. TypeOK /\ NetworkTypes /\ OtherTypes
    BY Parts DEF IInv
  <1>1. ASSUME UNCHANGED network PROVE NetworkTypes'
    BY <1>0, <1>1 DEF NetworkTypes
  <1>2. ASSUME Consume(h) PROVE NetworkTypes'
    BY <1>0, <1>2, ConsumeIs
  <1>3. ASSUME NEW kind \in {"invoke", "resume", "inspect"}, NEW label \in Label, Post(h, kind, label) PROVE NetworkTypes'
    BY <1>0, <1>3, PostIs
  <1>4. {"receipt", "invoking", "resuming", "inspecting"} \subseteq Label
    BY DEF Label
  <1>5. NetworkTypes'
    <2>1. CASE VerifyFails(h) \/ ReserveFails(h) \/ DispatchRefused(h) \/ RememberFails(h) \/ WaitOver(h) \/ PollFails(h)
                \/ Restore(h) \/ Reserve(h) \/ Remember(h) \/ PollRejected(h) \/ InvokeAnswered(h) \/ PollAnswered(h)
                \/ ReceiptAnswered(h)
      BY <1>1, <1>2, <2>1 DEF VerifyFails, ReserveFails, DispatchRefused, RememberFails, WaitOver, PollFails, Restore,
         Reserve, Remember, PollRejected, InvokeAnswered, PollAnswered, ReceiptAnswered
    <2>2. CASE Verify(h) \/ Dispatch(h) \/ Poll(h) \/ Decide(h) \/ ResumeAfterPause(h) \/ InspectAgain(h)
      BY <1>1, <1>3, <1>4, <2>2 DEF Verify, Dispatch, Poll, Decide, ResumeAfterPause, InspectAgain
    <2> QED
      BY <2>1, <2>2 DEF Step
  <1>6. CASE ReceiptAnswered(h) \/ Decide(h)
    <2>1. observed' \in [Host -> BOOLEAN]
      BY <1>0, <1>6 DEF ReceiptAnswered, Decide, OtherTypes
    <2> QED
      BY <1>0, <1>5, <1>6, <2>1 DEF ReceiptAnswered, Decide, OtherTypes
  <1>7. CASE UNCHANGED <<ended, observed, bounds>>
    BY <1>0, <1>5, <1>7 DEF OtherTypes
  <1>8. ASSUME ~ ReceiptAnswered(h), ~ Decide(h) PROVE UNCHANGED <<ended, observed, bounds>>
    BY <1>8 DEF Step, VerifyFails, ReserveFails, DispatchRefused, RememberFails, WaitOver, PollFails, Restore,
       Reserve, Remember, PollRejected, InvokeAnswered, PollAnswered, Verify, Dispatch, Poll, ResumeAfterPause, InspectAgain
  <1> QED
    BY <1>6, <1>7, <1>8

LEMMA StepTypes ==
  ASSUME IInv, NEW h \in Host, Step(h) \/ Restore(h)
  PROVE  TypeOK'
  BY DurableStep, RecordStep, OperationStep, NetworkStep, PartsPrime

\* An answer goes to the host that waits for it.
LEMMA AnswerIs ==
  ASSUME TypeOK, NEW m \in wire, NEW answers \in SUBSET Reply, Answer(m, answers)
  PROVE  reply' \in [Host -> Reply]
  BY DEF Answer, TypeOK, Request

LEMMA OrphanedIs ==
  ASSUME TypeOK, NEW h \in Host
  PROVE  Orphaned(h) \in SUBSET Request
  <1>1. ASSUME NEW m \in wire PROVE [m EXCEPT !.from = Nobody] \in Request /\ m \in Request
    BY DEF TypeOK, Request
  <1> QED
    BY <1>1 DEF Orphaned

LEMMA OutsideTypes ==
  ASSUME TypeOK, \/ \E h \in Host : EndTurn(h) \/ Crash(h) \/ RequestTimeout(h)
                 \/ \E m \in wire : CoreTakes(m) \/ RequestLost(m)
                 \/ CoreFinishes
  PROVE  TypeOK'
  <1> USE DEF durable, operation, network, bounds
  <1>0. DurableTypes /\ record \in RecordType /\ OperationTypes /\ NetworkTypes /\ OtherTypes
    BY Parts
  <1>1. ASSUME NEW h \in Host, EndTurn(h) PROVE TypeOK'
    <2>1. ended' \in [Host -> BOOLEAN] /\ stale' \in [Host -> BOOLEAN]
      BY <1>1 DEF EndTurn, TypeOK
    <2> QED
      BY <1>1, <2>1 DEF EndTurn, TypeOK
  <1>2. ASSUME NEW h \in Host, Crash(h) PROVE TypeOK'
    <2>1. OperationTypes'
      BY <1>0, <1>2, FinishIs, BoundsAreNat DEF Crash
    <2>2. DurableTypes'
      BY <1>0, <1>2, EmptyIs DEF Crash, DurableTypes
    <2>3. [a \in Actor |-> Empty] \in [Actor -> CallRecord]
      BY EmptyIs
    <2>4. record' \in RecordType
      BY <1>0, <1>2, <2>3 DEF Crash, RecordType
    <2>5. NetworkTypes'
      BY <1>0, <1>2, OrphanedIs DEF Crash, NetworkTypes, Reply
    <2>6. OtherTypes'
      BY <1>0, <1>2, BoundsAreNat DEF Crash, OtherTypes
    <2> QED
      BY <2>1, <2>2, <2>4, <2>5, <2>6, PartsPrime
  <1>3. ASSUME NetworkTypes', UNCHANGED <<durable, record, pc, operation, ended, stale, observed, bounds>> PROVE TypeOK'
    BY <1>0, <1>3, PartsPrime DEF DurableTypes, OperationTypes, OtherTypes
  <1>4. ASSUME NEW h \in Host, RequestTimeout(h) PROVE TypeOK'
    <2>1. reply' \in [Host -> Reply]
      BY <1>0, <1>4 DEF RequestTimeout, NetworkTypes, Reply
    <2>2. NetworkTypes'
      BY <1>0, <1>4, <2>1, OrphanedIs DEF RequestTimeout, NetworkTypes
    <2> QED
      BY <1>3, <1>4, <2>2 DEF RequestTimeout
  <1>5. ASSUME NEW m \in wire, CoreTakes(m) PROVE TypeOK'
    <2>1. core' \in {"absent"} \cup Result
      BY <1>0, <1>5 DEF CoreTakes, NetworkTypes, Result
    <2>2. {IF core' = "absent" THEN "notFound" ELSE core', "empty", "lost", "error"} \in SUBSET Reply
      BY <2>1 DEF Reply
    <2>3. reply' \in [Host -> Reply]
      BY <1>5, <2>2, AnswerIs DEF CoreTakes
    <2>4. NetworkTypes'
      BY <1>0, <1>5, <2>1, <2>3 DEF CoreTakes, NetworkTypes
    <2> QED
      BY <1>3, <1>5, <2>4 DEF CoreTakes
  <1>6. ASSUME NEW m \in wire, RequestLost(m) PROVE TypeOK'
    <2>1. {"lost", "error"} \cup (IF m.kind = "invoke" THEN {"refused"} ELSE {}) \in SUBSET Reply
      BY DEF Reply
    <2>2. reply' \in [Host -> Reply]
      BY <1>6, <2>1, AnswerIs DEF RequestLost
    <2>3. NetworkTypes'
      BY <1>0, <1>6, <2>2 DEF RequestLost, NetworkTypes
    <2> QED
      BY <1>3, <1>6, <2>3 DEF RequestLost
  <1>7. CASE CoreFinishes
    <2>1. NetworkTypes'
      BY <1>0, <1>7 DEF CoreFinishes, NetworkTypes, Result
    <2> QED
      BY <1>3, <1>7, <2>1 DEF CoreFinishes
  <1> QED
    BY <1>1, <1>2, <1>4, <1>5, <1>6, <1>7

LEMMA TypeStep == IInv /\ [Next]_vars => TypeOK'
  <1>1. IInv /\ UNCHANGED vars => TypeOK'
    BY DEF IInv, TypeOK, vars
  <1> QED
    BY <1>1, StartTypes, StepTypes, OutsideTypes DEF Next, IInv

-----------------------------------------------------------------------------
(* What a host's step does to the parts the invariant is about. *)

Starts(h) == StartExecute(h) \/ StartResume(h) \/ StartPanel(h, "inspect") \/ StartPanel(h, "resume")

\* A host touches nothing of the others.
LEMMA OthersUntouched ==
  ASSUME TypeOK, NEW g \in Host, NEW h \in Host, g # h,
         Starts(h) \/ Step(h) \/ Restore(h) \/ EndTurn(h) \/ Crash(h) \/ RequestTimeout(h)
  PROVE  /\ pc'[g] = pc[g] /\ own'[g] = own[g] /\ actor'[g] = actor[g] /\ intent'[g] = intent[g]
         /\ managed'[g] = managed[g] /\ resumes'[g] = resumes[g] /\ stale'[g] = stale[g]
         /\ record'[g] = record[g] /\ unsaved'[g] = unsaved[g] /\ reply'[g] = reply[g] /\ observed'[g] = observed[g]
  <1> USE DEF durable, operation, network, bounds, Goto, TypeOK
  <1>0. TypeOK
    OBVIOUS
  <1>1. CASE Starts(h)
    BY <1>1 DEF Starts, StartExecute, StartResume, StartPanel, Start, Post
  <1>2. CASE EndTurn(h) \/ RequestTimeout(h)
    BY <1>2 DEF EndTurn, RequestTimeout
  <1>3. CASE Crash(h)
    BY <1>3 DEF Crash, Finish
  <1>4. CASE Restore(h)
    BY <1>4 DEF Restore
  <1>5. CASE VerifyFails(h) \/ ReserveFails(h) \/ DispatchRefused(h) \/ WaitOver(h) \/ PollFails(h)
    BY <1>5 DEF VerifyFails, ReserveFails, DispatchRefused, WaitOver, PollFails, Finish, FinishRecord, JournalFails
  <1>6. CASE PollRejected(h) \/ RememberFails(h)
    BY <1>6 DEF PollRejected, RememberFails, Finish, FinishRecord, Consume, KeepUnsaved
  <1>7. CASE Verify(h)
    BY <1>7, RefreshedIs DEF Verify, Finish, Post
  <1>8. CASE Reserve(h) \/ Dispatch(h) \/ InvokeAnswered(h) \/ Remember(h)
    BY <1>8 DEF Reserve, Dispatch, InvokeAnswered, Remember, Finish, Post, Consume, SetLatest
  <1>9. CASE Poll(h)
    BY <1>9, RefreshedIs DEF Poll, Post
  <1>10. CASE PollAnswered(h) \/ ReceiptAnswered(h)
    BY <1>10 DEF PollAnswered, ReceiptAnswered, Finish, FinishRecord, Consume, SetLatest
  <1>11. CASE Decide(h) \/ InspectAgain(h)
    BY <1>11 DEF Decide, InspectAgain, Finish, FinishRecord, Post
  <1>12. CASE ResumeAfterPause(h)
    BY <1>12, RefreshedIs DEF ResumeAfterPause, Finish, FinishRecord, Post, JournalFails
  <1> QED
    BY <1>1, <1>2, <1>3, <1>4, <1>5, <1>6, <1>7, <1>8, <1>9, <1>10, <1>11, <1>12 DEF Step

\* A host sends when it waits for nothing, and waits until it has an answer.
LEMMA NetworkUse ==
  ASSUME TypeOK, NEW h \in Host, Starts(h) \/ Step(h)
  PROVE  \/ pc[h] \notin Waiting /\ UNCHANGED network
         \/ /\ pc[h] \notin Waiting
            /\ \E kind \in {"invoke", "resume", "inspect"}, label \in Waiting : Post(h, kind, label)
         \/ pc[h] \in Waiting /\ reply[h] # "none" /\ Consume(h)
  <1> USE DEF Waiting, network
  <1>1. CASE Starts(h)
    BY <1>1 DEF Starts, StartExecute, StartResume, StartPanel, Start
  <1>2. CASE VerifyFails(h) \/ ReserveFails(h) \/ DispatchRefused(h) \/ WaitOver(h) \/ PollFails(h) \/ Reserve(h)
             \/ RememberFails(h) \/ Remember(h)
    BY <1>2 DEF VerifyFails, ReserveFails, DispatchRefused, WaitOver, PollFails, Reserve, RememberFails, Remember
  <1>3. CASE PollRejected(h) \/ InvokeAnswered(h) \/ PollAnswered(h) \/ ReceiptAnswered(h)
    BY <1>3 DEF PollRejected, InvokeAnswered, PollAnswered, ReceiptAnswered
  <1>4. CASE Verify(h) \/ Dispatch(h)
    BY <1>4 DEF Verify, Dispatch
  <1>5. CASE Poll(h) \/ Decide(h)
    BY <1>5 DEF Poll, Decide
  <1>6. CASE ResumeAfterPause(h) \/ InspectAgain(h)
    BY <1>6 DEF ResumeAfterPause, InspectAgain
  <1> QED
    BY <1>1, <1>2, <1>3, <1>4, <1>5, <1>6 DEF Step

\* A result that was heard is all that SetLatest adds.
LEMMA SetLatestIs ==
  ASSUME TypeOK, NEW h \in Host, NEW r \in Result, SetLatest(h, r)
  PROVE  /\ record'[h][actor[h]].latest = r /\ record'[h][actor[h]].entry = Rec(h).entry
         /\ \A a \in Actor : a # actor[h] => record'[h][a] = record[h][a]
         /\ \A a \in Actor : record'[h][a].entry = record[h][a].entry
  <1>1. Rec(h) \in CallRecord /\ Rec(h) = record[h][actor[h]] /\ actor[h] \in Actor /\ record \in RecordType
    BY RecIs
  <1>2. [Rec(h) EXCEPT !.latest = r] \in CallRecord /\ [Rec(h) EXCEPT !.latest = r].latest = r
        /\ [Rec(h) EXCEPT !.latest = r].entry = Rec(h).entry
    BY <1>1 DEF CallRecord
  <1>3. record' = [record EXCEPT ![h][actor[h]] = [Rec(h) EXCEPT !.latest = r]]
    BY <1>1 DEF SetLatest, RecordType
  <1>4. \A a \in Actor : record'[h][a] = IF a = actor[h] THEN [Rec(h) EXCEPT !.latest = r] ELSE record[h][a]
    BY <1>1, <1>3 DEF RecordType
  <1> QED
    BY <1>1, <1>2, <1>4

\* Nothing but an answer brings a host to remember.
LEMMA ToRemember ==
  ASSUME TypeOK, NEW h \in Host, Starts(h) \/ Step(h), pc'[h] = "remember"
  PROVE  pc[h] \in Waiting /\ reply[h] \in Result /\ SetLatest(h, reply[h]) /\ UNCHANGED <<actor, journal>>
  <1> USE DEF Goto, TypeOK, Waiting, durable, operation
  <1>1. ~ Starts(h)
    BY DEF Starts, StartExecute, StartResume, StartPanel, Start, Post
  <1>2. ~ (VerifyFails(h) \/ ReserveFails(h) \/ DispatchRefused(h) \/ WaitOver(h) \/ PollFails(h) \/ RememberFails(h)
             \/ PollRejected(h))
    BY DEF VerifyFails, ReserveFails, DispatchRefused, WaitOver, PollFails, RememberFails, PollRejected, Finish
  <1>3. ~ (Verify(h) \/ Reserve(h) \/ Dispatch(h))
    BY DEF Verify, Reserve, Dispatch, Finish, Post
  <1>4. ~ (Remember(h) \/ Poll(h))
    BY DEF Remember, AfterRemember, Poll, Post
  <1>5. ~ (Decide(h) \/ ResumeAfterPause(h) \/ InspectAgain(h))
    BY DEF Decide, ResumeAfterPause, InspectAgain, Finish, Post
  <1>6. CASE InvokeAnswered(h) \/ PollAnswered(h) \/ ReceiptAnswered(h)
    BY <1>6 DEF InvokeAnswered, PollAnswered, ReceiptAnswered, Finish
  <1> QED
    BY <1>1, <1>2, <1>3, <1>4, <1>5, <1>6 DEF Step

\* What a record says of the journal comes from the journal.
LEMMA EntrySteps ==
  ASSUME IInv, NEW h \in Host, Starts(h) \/ Step(h) \/ Restore(h), NEW a \in Actor
  PROVE  record'[h][a].entry \in {record[h][a].entry, "none", journal'}
  <1> USE DEF durable
  <1>0. TypeOK /\ record \in RecordType /\ Rec(h) \in CallRecord /\ Rec(h) = record[h][actor[h]] /\ actor[h] \in Actor
        /\ record[h][a] \in CallRecord /\ record[h]["run"] \in CallRecord /\ "run" \in Actor /\ Empty.entry = "none"
    BY RecIs DEF IInv, Actor, RecordType, Empty
  <1>1. CASE UNCHANGED record
    BY <1>1
  <1>2. CASE FinishRecord(h)
    BY <1>0, <1>2, FinishRecordIs DEF Actor
  <1>3. ASSUME NEW c \in CallRecord, NEW b \in Actor, record' = [record EXCEPT ![h][b] = c],
               c.entry \in {record[h][b].entry, "none", journal'}
        PROVE  record'[h][a].entry \in {record[h][a].entry, "none", journal'}
    <2>1. record'[h][a] = IF a = b THEN c ELSE record[h][a]
      BY <1>0, <1>3 DEF RecordType
    <2> QED
      BY <1>3, <2>1
  <1>4. CASE record' = Refreshed(h) /\ UNCHANGED journal
    <2> DEFINE c == [invoked |-> Rec(h).invoked, entry |-> journal,
                     latest |-> IF Rec(h).latest = journal THEN Rec(h).latest ELSE "none"]
    <2>1. c \in CallRecord /\ c.entry = journal
      BY <1>0 DEF CallRecord, TypeOK
    <2> HIDE DEF c
    <2>2. record' = record \/ record' = [record EXCEPT ![h][actor[h]] = c]
      BY <1>0, <1>4 DEF Refreshed, c, RecordType
    <2> QED
      BY <1>0, <1>1, <1>3, <1>4, <2>1, <2>2
  <1>5. ASSUME NEW r \in Result, SetLatest(h, r) PROVE record'[h][a].entry = record[h][a].entry
    BY <1>0, <1>5, SetLatestIs
  <1>6. CASE VerifyFails(h) \/ ReserveFails(h) \/ DispatchRefused(h) \/ RememberFails(h) \/ WaitOver(h) \/ PollFails(h)
              \/ PollRejected(h) \/ Decide(h) \/ ResumeAfterPause(h) \/ InspectAgain(h) \/ Verify(h) \/ Poll(h) \/ Restore(h)
    BY <1>1, <1>2, <1>4, <1>6 DEF VerifyFails, ReserveFails, DispatchRefused, RememberFails, WaitOver, PollFails,
       PollRejected, Decide, ResumeAfterPause, InspectAgain, Verify, Poll, Restore
  <1>7. CASE PollAnswered(h) \/ ReceiptAnswered(h)
    BY <1>1, <1>2, <1>5, <1>7 DEF PollAnswered, ReceiptAnswered
  <1>8. CASE Reserve(h)
    <2>1. [record[h]["run"] EXCEPT !.entry = Reserved] \in CallRecord
          /\ [record[h]["run"] EXCEPT !.entry = Reserved].entry = Reserved
      BY <1>0 DEF CallRecord, Reserved, Known, TypeOK
    <2>2. record' = [record EXCEPT ![h]["run"] = [record[h]["run"] EXCEPT !.entry = Reserved]] /\ journal' = Reserved
      BY <1>0, <1>8 DEF Reserve, RecordType
    <2> QED
      BY <1>0, <1>3, <2>1, <2>2
  <1>9. ASSUME NEW i \in BOOLEAN, record' = [record EXCEPT ![h]["run"].invoked = i]
        PROVE  record'[h][a].entry \in {record[h][a].entry, "none", journal'}
    <2>1. [record[h]["run"] EXCEPT !.invoked = i] \in CallRecord
          /\ [record[h]["run"] EXCEPT !.invoked = i].entry = record[h]["run"].entry
      BY <1>0 DEF CallRecord
    <2>2. record' = [record EXCEPT ![h]["run"] = [record[h]["run"] EXCEPT !.invoked = i]]
      BY <1>0, <1>9 DEF RecordType
    <2> QED
      BY <1>0, <1>3, <2>1, <2>2
  <1>10. CASE Dispatch(h)
    BY <1>9, <1>10 DEF Dispatch
  <1>11. CASE InvokeAnswered(h)
    BY <1>1, <1>5, <1>9, <1>11 DEF InvokeAnswered
  <1>12. CASE Remember(h)
    <2>1. [Rec(h) EXCEPT !.entry = Rec(h).latest] \in CallRecord
          /\ [Rec(h) EXCEPT !.entry = Rec(h).latest].entry = Rec(h).latest
      BY <1>0 DEF CallRecord, Known
    <2>2. record' = [record EXCEPT ![h][actor[h]] = [Rec(h) EXCEPT !.entry = Rec(h).latest]] /\ journal' = Rec(h).latest
      BY <1>0, <1>12 DEF Remember, Rec, RecordType
    <2> QED
      BY <1>0, <1>3, <2>1, <2>2
  <1>13. CASE StartExecute(h)
    BY <1>1, <1>13 DEF StartExecute
  <1>14. CASE StartResume(h)
    <2> DEFINE r == record[h]["run"]
               c == IF r.entry = "none" THEN [invoked |-> TRUE, latest |-> r.latest, entry |-> journal]
                    ELSE r
    <2>1. c \in CallRecord /\ c.entry \in {r.entry, journal}
      BY <1>0 DEF CallRecord, TypeOK
    <2> HIDE DEF c
    <2>2. record' = [record EXCEPT ![h]["run"] = c] /\ UNCHANGED journal
      BY <1>0, <1>14 DEF StartResume, Start, c, RecordType
    <2> QED
      BY <1>0, <1>3, <2>1, <2>2
  <1>15. CASE StartPanel(h, "inspect") \/ StartPanel(h, "resume")
    <2>1. [Empty EXCEPT !.entry = journal] \in CallRecord /\ [Empty EXCEPT !.entry = journal].entry = journal
      BY <1>0, EmptyIs DEF CallRecord, TypeOK
    <2>2. record' = [record EXCEPT ![h]["panel"] = [Empty EXCEPT !.entry = journal]] /\ UNCHANGED journal
      BY <1>15 DEF StartPanel
    <2> QED
      BY <1>3, <2>1, <2>2 DEF Actor
  <1> QED
    BY <1>6, <1>7, <1>8, <1>10, <1>11, <1>12, <1>13, <1>14, <1>15 DEF Step, Starts

\* What a run knows of the outcome it heard, or has forgotten.
LEMMA LatestSteps ==
  ASSUME IInv, NEW h \in Host, Starts(h) \/ Step(h) \/ Restore(h)
  PROVE  \/ record'[h]["run"].latest \in {record[h]["run"].latest, "none"}
         \/ pc'[h] = "remember" /\ actor'[h] = "run"
  <1> USE DEF Goto
  <1>0. TypeOK /\ record \in RecordType /\ Rec(h) \in CallRecord /\ Rec(h) = record[h][actor[h]] /\ actor[h] \in Actor
        /\ record[h]["run"] \in CallRecord /\ "run" \in Actor /\ pc \in [Host -> Label]
    BY RecIs DEF IInv, Actor, RecordType, TypeOK
  <1>1. CASE UNCHANGED record
    BY <1>1
  <1>2. CASE FinishRecord(h)
    BY <1>0, <1>2, FinishRecordIs
  <1>3. ASSUME NEW c \in CallRecord, NEW b \in Actor, record' = [record EXCEPT ![h][b] = c],
               b = "run" => c.latest \in {record[h]["run"].latest, "none"}
        PROVE  record'[h]["run"].latest \in {record[h]["run"].latest, "none"}
    <2>1. record'[h]["run"] = IF b = "run" THEN c ELSE record[h]["run"]
      BY <1>0, <1>3 DEF RecordType
    <2> QED
      BY <1>3, <2>1
  <1>4. CASE record' = Refreshed(h)
    <2> DEFINE c == [invoked |-> Rec(h).invoked, entry |-> journal,
                     latest |-> IF Rec(h).latest = journal THEN Rec(h).latest ELSE "none"]
    <2>1. c \in CallRecord /\ c.latest \in {Rec(h).latest, "none"}
      BY <1>0 DEF CallRecord, TypeOK
    <2> HIDE DEF c
    <2>2. record' = record \/ record' = [record EXCEPT ![h][actor[h]] = c]
      BY <1>0, <1>4 DEF Refreshed, c, RecordType
    <2> QED
      BY <1>0, <1>1, <1>3, <2>1, <2>2
  <1>5. ASSUME NEW r \in Result, SetLatest(h, r), UNCHANGED actor, Goto(h, "remember")
        PROVE  \/ record'[h]["run"].latest = record[h]["run"].latest
               \/ pc'[h] = "remember" /\ actor'[h] = "run"
    BY <1>0, <1>5, SetLatestIs DEF Actor
  <1>6. CASE VerifyFails(h) \/ ReserveFails(h) \/ DispatchRefused(h) \/ RememberFails(h) \/ WaitOver(h) \/ PollFails(h)
              \/ PollRejected(h) \/ Decide(h) \/ ResumeAfterPause(h) \/ InspectAgain(h) \/ Verify(h) \/ Poll(h) \/ Restore(h)
    BY <1>1, <1>2, <1>4, <1>6 DEF VerifyFails, ReserveFails, DispatchRefused, RememberFails, WaitOver, PollFails,
       PollRejected, Decide, ResumeAfterPause, InspectAgain, Verify, Poll, Restore
  <1>7. CASE PollAnswered(h) \/ ReceiptAnswered(h)
    BY <1>1, <1>2, <1>5, <1>7 DEF PollAnswered, ReceiptAnswered, operation
  <1>8. CASE Reserve(h)
    <2>1. [record[h]["run"] EXCEPT !.entry = Reserved] \in CallRecord
          /\ [record[h]["run"] EXCEPT !.entry = Reserved].latest = record[h]["run"].latest
      BY <1>0 DEF CallRecord, Reserved, Known, TypeOK
    <2>2. record' = [record EXCEPT ![h]["run"] = [record[h]["run"] EXCEPT !.entry = Reserved]]
      BY <1>0, <1>8 DEF Reserve, RecordType
    <2> QED
      BY <1>0, <1>3, <2>1, <2>2
  <1>9. ASSUME NEW i \in BOOLEAN, record' = [record EXCEPT ![h]["run"].invoked = i]
        PROVE  record'[h]["run"].latest = record[h]["run"].latest
    <2>1. [record[h]["run"] EXCEPT !.invoked = i].latest = record[h]["run"].latest
      BY <1>0 DEF CallRecord
    <2>2. record'[h]["run"] = [record[h]["run"] EXCEPT !.invoked = i]
      BY <1>0, <1>9 DEF RecordType
    <2> QED
      BY <2>1, <2>2
  <1>10. CASE Dispatch(h)
    BY <1>9, <1>10 DEF Dispatch
  <1>11. CASE InvokeAnswered(h)
    BY <1>1, <1>5, <1>9, <1>11 DEF InvokeAnswered
  <1>12. CASE Remember(h)
    <2>1. [Rec(h) EXCEPT !.entry = Rec(h).latest] \in CallRecord
          /\ [Rec(h) EXCEPT !.entry = Rec(h).latest].latest = Rec(h).latest
      BY <1>0 DEF CallRecord, Known
    <2>2. record' = [record EXCEPT ![h][actor[h]] = [Rec(h) EXCEPT !.entry = Rec(h).latest]]
      BY <1>0, <1>12 DEF Remember, Rec, RecordType
    <2> QED
      BY <1>0, <1>3, <2>1, <2>2
  <1>13. CASE StartExecute(h)
    BY <1>1, <1>13 DEF StartExecute
  <1>14. CASE StartResume(h)
    <2> DEFINE r == record[h]["run"]
               c == IF r.entry = "none" THEN [invoked |-> TRUE, latest |-> r.latest, entry |-> journal]
                    ELSE r
    <2>1. c \in CallRecord /\ c.latest = r.latest
      BY <1>0 DEF CallRecord, TypeOK
    <2> HIDE DEF c
    <2>2. record' = [record EXCEPT ![h]["run"] = c]
      BY <1>0, <1>14 DEF StartResume, c, RecordType
    <2> QED
      BY <1>0, <1>3, <2>1, <2>2
  <1>15. CASE StartPanel(h, "inspect") \/ StartPanel(h, "resume")
    <2>1. record' = [record EXCEPT ![h]["panel"] = [Empty EXCEPT !.entry = journal]]
      BY <1>15 DEF StartPanel
    <2>2. record'[h]["run"] = record[h]["run"]
      BY <1>0, <2>1 DEF RecordType
    <2> QED
      BY <2>2
  <1> QED
    BY <1>6, <1>7, <1>8, <1>10, <1>11, <1>12, <1>13, <1>14, <1>15 DEF Step, Starts

\* Which steps write the journal, and what.
LEMMA JournalSteps ==
  ASSUME TypeOK, NEW h \in Host, Starts(h) \/ Step(h) \/ Restore(h)
  PROVE  \/ UNCHANGED <<journal, unsaved>>
         \/ journal = "none" /\ journal' = "unknown" /\ UNCHANGED unsaved
         \/ Remember(h)
         \/ RememberFails(h)
         \/ Restore(h) /\ journal' \in {journal, unsaved[h].next}
  <1> USE DEF durable
  <1>1. CASE Starts(h)
    BY <1>1 DEF Starts, StartExecute, StartResume, StartPanel, Start
  <1>2. CASE Reserve(h) \/ ReserveFails(h)
    BY <1>2 DEF Reserve, ReserveFails, Reserved
  <1>3. CASE Restore(h)
    BY <1>3 DEF Restore
  <1>4. CASE Verify(h) \/ VerifyFails(h) \/ Dispatch(h) \/ DispatchRefused(h) \/ InvokeAnswered(h) \/ WaitOver(h)
              \/ Poll(h) \/ PollFails(h) \/ PollAnswered(h) \/ PollRejected(h) \/ ReceiptAnswered(h) \/ Decide(h)
              \/ ResumeAfterPause(h) \/ InspectAgain(h)
    BY <1>4 DEF Verify, VerifyFails, Dispatch, DispatchRefused, InvokeAnswered, WaitOver, Poll, PollFails,
       PollAnswered, PollRejected, ReceiptAnswered, Decide, ResumeAfterPause, InspectAgain, JournalFails
  <1> QED
    BY <1>1, <1>2, <1>3, <1>4 DEF Step

\* The steps outside of an operation.
LEMMA OutsideSteps ==
  ASSUME TypeOK, \/ \E h \in Host : EndTurn(h) \/ RequestTimeout(h)
                 \/ \E m \in wire : CoreTakes(m) \/ RequestLost(m)
                 \/ CoreFinishes
  PROVE  UNCHANGED <<journal, unsaved, record, pc, actor, intent, own, managed, resumes, observed, taskBound, invokes>>
  BY DEF EndTurn, RequestTimeout, CoreTakes, RequestLost, CoreFinishes, durable, operation, network, bounds

\* The owner of a call is who created its entry, and only the owner invokes.
LEMMA OwnSteps ==
  ASSUME TypeOK, NEW h \in Host, Starts(h) \/ Step(h) \/ Restore(h)
  PROVE  /\ \/ ~ own'[h] \/ own'[h] = own[h]
            \/ journal = "none" /\ journal' = "unknown"
         /\ pc'[h] = "gate" => Restore(h) \/ (invokes' = invokes /\ (own'[h] => journal = "none"))
         /\ \/ invokes' = invokes
            \/ own[h] /\ pc[h] = "gate" /\ pc'[h] = "invoking" /\ invokes' = invokes + 1 /\ UNCHANGED <<own, journal>>
  <1> USE DEF Goto, TypeOK, durable, operation, network, bounds
  <1>1. CASE Starts(h)
    BY <1>1 DEF Starts, StartExecute, StartResume, StartPanel, Start, Post
  <1>2. CASE Restore(h)
    BY <1>2 DEF Restore
  <1>3. CASE VerifyFails(h) \/ ReserveFails(h) \/ DispatchRefused(h) \/ WaitOver(h) \/ PollFails(h) \/ RememberFails(h)
    BY <1>3 DEF VerifyFails, ReserveFails, DispatchRefused, WaitOver, PollFails, RememberFails, Finish
  <1>4. CASE PollRejected(h) \/ InvokeAnswered(h) \/ PollAnswered(h) \/ ReceiptAnswered(h)
    BY <1>4 DEF PollRejected, InvokeAnswered, PollAnswered, ReceiptAnswered, Finish, Consume
  <1>5. CASE Reserve(h)
    BY <1>5 DEF Reserve, ReserveCreates, Reserved
  <1>6. CASE Dispatch(h)
    BY <1>6 DEF Dispatch, Post
  <1>7. CASE Verify(h)
    BY <1>7 DEF Verify, Post, Finish
  <1>8. CASE Remember(h)
    BY <1>8 DEF Remember, AfterRemember
  <1>9. CASE Poll(h) \/ InspectAgain(h)
    BY <1>9 DEF Poll, InspectAgain, Post, Finish
  <1>10. CASE Decide(h) \/ ResumeAfterPause(h)
    BY <1>10 DEF Decide, ResumeAfterPause, Post, Finish
  <1> QED
    BY <1>1, <1>2, <1>3, <1>4, <1>5, <1>6, <1>7, <1>8, <1>9, <1>10 DEF Step

\* An operation starts with nothing left to save.
LEMMA BeginsClean ==
  ASSUME TypeOK, NEW h \in Host, Starts(h) \/ Step(h), pc[h] \in {"idle", "verify"}, pc'[h] \notin {"idle", "verify"}
  PROVE  unsaved[h] = NothingUnsaved
  <1> USE DEF Goto, TypeOK, Ready
  <1>1. CASE Starts(h)
    BY <1>1 DEF Starts, StartExecute, StartResume, StartPanel, Start
  <1>2. CASE Verify(h) \/ VerifyFails(h)
    BY <1>2 DEF Verify, VerifyFails, Finish
  <1>3. CASE Step(h)
    BY <1>2, <1>3 DEF Step, Reserve, ReserveFails, Dispatch, DispatchRefused, InvokeAnswered, Remember, RememberFails,
       WaitOver, Poll, PollFails, PollAnswered, PollRejected, ReceiptAnswered, Decide, ResumeAfterPause, InspectAgain
  <1> QED
    BY <1>1, <1>3

\* What a host saves is a result, and what it could not save stays to be saved.
LEMMA SaveSteps ==
  ASSUME IInv, NEW h \in Host, Remember(h) \/ RememberFails(h)
  PROVE  /\ Rec(h).latest \in Result /\ Rec(h) \in CallRecord /\ unsaved[h] = NothingUnsaved
         /\ Remember(h) => journal' = Rec(h).latest /\ UNCHANGED unsaved /\ journal \in {Rec(h).latest, Rec(h).entry}
         /\ RememberFails(h) => /\ journal' = journal \/ (journal' = Rec(h).latest /\ journal = Rec(h).entry)
                                /\ unsaved'[h] = [next |-> Rec(h).latest, previous |-> Rec(h).entry]
                                /\ pc'[h] = "idle"
  <1>1. TypeOK /\ Rec(h) \in CallRecord /\ pc[h] = "remember" /\ ResultInvOf(h)
    BY RecIs DEF IInv, ResultInv, Remember, RememberFails
  <1>2. Rec(h).latest \in Result /\ unsaved[h] = NothingUnsaved
    BY <1>1 DEF ResultInvOf
  <1>3. CASE Remember(h)
    BY <1>1, <1>2, <1>3 DEF Remember, RememberFails, StillPrevious, Goto, Finish, AfterRemember, TypeOK
  <1>4. CASE RememberFails(h)
    <2>1. unsaved'[h] = [next |-> Rec(h).latest, previous |-> Rec(h).entry]
      BY <1>1, <1>4 DEF RememberFails, KeepUnsaved, TypeOK
    <2>2. pc'[h] = "idle"
      BY <1>1, <1>4 DEF RememberFails, Finish, Goto, TypeOK
    <2>3. journal' = journal \/ (journal' = Rec(h).latest /\ journal = Rec(h).entry)
      BY <1>4 DEF RememberFails, StillPrevious
    <2>4. ~ Remember(h)
      BY <1>1, <2>2 DEF Remember, Goto, AfterRemember, TypeOK
    <2> QED
      BY <1>1, <1>2, <2>1, <2>2, <2>3, <2>4
  <1> QED
    BY <1>3, <1>4

LEMMA RestoreIs ==
  ASSUME TypeOK, NEW h \in Host, Restore(h)
  PROVE  /\ UNCHANGED <<record, pc, actor, intent, own, managed, resumes, stale, observed, taskBound, network>>
         /\ unsaved'[h] = unsaved[h] \/ (unsaved'[h] = NothingUnsaved /\ (unsaved[h] # NothingUnsaved => journal' = unsaved[h].next))
         /\ \/ UNCHANGED journal
            \/ unsaved[h] # NothingUnsaved /\ journal' = unsaved[h].next /\ journal \in {unsaved[h].next, unsaved[h].previous}
  BY DEF Restore, TypeOK, operation, network, bounds

-----------------------------------------------------------------------------
(* Each part of the invariant is kept. *)

Moves(h) == Starts(h) \/ Step(h) \/ Restore(h)

Outside ==
  \/ \E h \in Host : EndTurn(h) \/ RequestTimeout(h)
  \/ \E m \in wire : CoreTakes(m) \/ RequestLost(m)
  \/ CoreFinishes

LEMMA Steps == [Next]_vars => (\E h \in Host : Moves(h) \/ Crash(h)) \/ Outside \/ UNCHANGED vars
  BY DEF Next, Moves, Starts, Outside

LEMMA CrashIs ==
  ASSUME TypeOK, NEW h \in Host, Crash(h)
  PROVE  /\ pc'[h] = "idle" /\ own'[h] = FALSE /\ resumes'[h] = 0 /\ actor'[h] = "run" /\ intent'[h] = "execute"
         /\ unsaved'[h] = NothingUnsaved /\ reply'[h] = "none"
         /\ \A a \in Actor : record'[h][a] = Empty
         /\ UNCHANGED <<journal, core, invokes, taskBound>>
  BY DEF Crash, Finish, Goto, TypeOK

LEMMA ResultStep == IInv /\ [Next]_vars => ResultInv'
  <1> SUFFICES ASSUME IInv, [Next]_vars PROVE ResultInv'
    OBVIOUS
  <1>0. TypeOK /\ ResultInv
    BY DEF IInv
  <1>1. ASSUME NEW h \in Host, Moves(h) \/ Crash(h), NEW g \in Host, g # h PROVE ResultInvOf(g)'
    BY <1>0, <1>1, OthersUntouched DEF Moves, ResultInv, ResultInvOf, Rec
  <1>2. ASSUME NEW h \in Host, Starts(h) \/ Step(h), ~ Restore(h) PROVE ResultInvOf(h)'
    <2>1. ResultInvOf(h) /\ Rec(h) = record[h][actor[h]]
      BY <1>0 DEF ResultInv, Rec
    <2>2. pc'[h] = "remember" => Rec(h)'.latest \in Result
      BY <1>0, <1>2, ToRemember, SetLatestIs DEF Rec
    <2>3. CASE Remember(h)
      <3>1. unsaved'[h] = NothingUnsaved
        BY <2>3, SaveSteps
      <3> QED
        BY <2>2, <3>1 DEF ResultInvOf
    <2>5. CASE RememberFails(h)
      <3>1. /\ unsaved'[h] = [next |-> Rec(h).latest, previous |-> Rec(h).entry]
            /\ Rec(h).latest \in Result /\ pc'[h] = "idle"
        BY <2>5, SaveSteps, Zenon
      <3>2. unsaved'[h].next = Rec(h).latest
        BY <3>1
      <3> QED
        BY <3>1, <3>2 DEF ResultInvOf
    <2>4. ASSUME ~ (Remember(h) \/ RememberFails(h)) PROVE UNCHANGED unsaved
      BY <1>0, <1>2, <2>4, JournalSteps
    <2> QED
      BY <1>0, <1>2, <2>1, <2>2, <2>3, <2>4, <2>5, BeginsClean DEF ResultInvOf
  <1>3. ASSUME NEW h \in Host, Restore(h) PROVE ResultInvOf(h)'
    BY <1>0, <1>3, RestoreIs DEF ResultInv, ResultInvOf, Rec
  <1>4. ASSUME NEW h \in Host, Crash(h) PROVE ResultInvOf(h)'
    BY <1>0, <1>4, CrashIs DEF ResultInvOf
  <1>5. ASSUME NEW h \in Host, Moves(h) \/ Crash(h) PROVE ResultInv'
    BY <1>1, <1>2, <1>3, <1>4, <1>5 DEF Moves, ResultInv
  <1>6. CASE Outside
    BY <1>0, <1>6, OutsideSteps DEF Outside, ResultInv, ResultInvOf, Rec
  <1>7. CASE UNCHANGED vars
    BY <1>0, <1>7 DEF vars, ResultInv, ResultInvOf, Rec
  <1> QED
    BY <1>5, <1>6, <1>7, Steps

\* The journal never forgets the call.
LEMMA JournalStays ==
  ASSUME IInv, NEW h \in Host, Moves(h), journal' = "none"
  PROVE  journal = "none"
  <1>1. TypeOK /\ ResultInvOf(h)
    BY DEF IInv, ResultInv
  <1>2. CASE Remember(h) \/ RememberFails(h)
    BY <1>2, SaveSteps, RankIs
  <1>3. CASE Restore(h)
    BY <1>1, <1>3, RestoreIs, RankIs DEF ResultInvOf
  <1> QED
    BY <1>1, <1>2, <1>3, JournalSteps DEF Moves

LEMMA OwnStep == IInv /\ [Next]_vars => OwnInv'
  <1> SUFFICES ASSUME IInv, [Next]_vars PROVE OwnInv'
    OBVIOUS
  <1>0. TypeOK /\ OwnInv /\ invokes \in Nat /\ own \in [Host -> BOOLEAN]
    BY DEF IInv, TypeOK
  <1>1. ASSUME NEW h \in Host, Moves(h) PROVE OwnInv'
    <2>1. \A g \in Host : g # h => own'[g] = own[g] /\ pc'[g] = pc[g]
      BY <1>0, <1>1, OthersUntouched DEF Moves
    <2>2. /\ \/ ~ own'[h] \/ own'[h] = own[h]
             \/ journal = "none" /\ journal' = "unknown"
          /\ pc'[h] = "gate" => Restore(h) \/ (invokes' = invokes /\ (own'[h] => journal = "none"))
          /\ \/ invokes' = invokes
             \/ own[h] /\ pc[h] = "gate" /\ pc'[h] = "invoking" /\ invokes' = invokes + 1 /\ UNCHANGED <<own, journal>>
      BY <1>0, <1>1, OwnSteps DEF Moves
    <2>3. journal' = "none" => journal = "none"
      BY <1>1, JournalStays
    <2>4. Restore(h) => UNCHANGED <<own, pc, invokes>>
      BY <1>0, RestoreIs DEF network
    <2>5. journal' = "none" => invokes' = 0 /\ \A g \in Host : ~ own'[g]
      BY <1>0, <2>1, <2>2, <2>3 DEF OwnInv
    <2>6. \A f, g \in Host : own'[f] /\ own'[g] => f = g
      BY <1>0, <2>1, <2>2 DEF OwnInv
    <2>7. \A g \in Host : own'[g] /\ pc'[g] = "gate" => invokes' = 0
      <3> SUFFICES ASSUME NEW g \in Host, own'[g], pc'[g] = "gate" PROVE invokes' = 0
        OBVIOUS
      <3>1. CASE g = h
        BY <1>0, <2>2, <2>4, <3>1 DEF OwnInv
      <3>2. CASE g # h
        BY <1>0, <2>1, <2>2, <3>2 DEF OwnInv
      <3> QED
        BY <3>1, <3>2
    <2>8. invokes' <= 1
      BY <1>0, <2>2 DEF OwnInv
    <2> QED
      BY <2>5, <2>6, <2>7, <2>8 DEF OwnInv
  <1>2. ASSUME NEW h \in Host, Crash(h) PROVE OwnInv'
    <2>1. \A g \in Host : g # h => own'[g] = own[g] /\ pc'[g] = pc[g]
      BY <1>0, <1>2, OthersUntouched
    <2>2. pc'[h] = "idle" /\ own'[h] = FALSE /\ UNCHANGED <<journal, invokes>>
      BY <1>0, <1>2, CrashIs
    <2>3. \A g \in Host : own'[g] => own[g]
      BY <1>0, <2>1, <2>2
    <2>4. \A g \in Host : own'[g] /\ pc'[g] = "gate" => own[g] /\ pc[g] = "gate"
      BY <1>0, <2>1, <2>2
    <2> QED
      BY <1>0, <2>2, <2>3, <2>4 DEF OwnInv
  <1>3. CASE Outside
    BY <1>0, <1>3, OutsideSteps DEF Outside, OwnInv
  <1>4. CASE UNCHANGED vars
    BY <1>0, <1>4 DEF vars, OwnInv
  <1> QED
    BY <1>1, <1>2, <1>3, <1>4, Steps

LEMMA WireStep == IInv /\ [Next]_vars => WireInv'
  <1> SUFFICES ASSUME IInv, [Next]_vars PROVE WireInv'
    OBVIOUS
  <1>0. TypeOK /\ WireInv /\ wire \in SUBSET Request /\ reply \in [Host -> Reply] /\ pc \in [Host -> Label]
    BY DEF IInv, TypeOK
  <1>1. ASSUME NEW h \in Host, Starts(h) \/ Step(h) PROVE WireInv'
    <2>1. \A g \in Host : g # h => pc'[g] = pc[g] /\ reply'[g] = reply[g]
      BY <1>0, <1>1, OthersUntouched
    <2>2. CASE pc[h] \notin Waiting /\ UNCHANGED network
      BY <1>0, <2>1, <2>2 DEF WireInv, network, Request
    <2>3. CASE pc[h] \notin Waiting /\ \E kind \in {"invoke", "resume", "inspect"}, label \in Waiting : Post(h, kind, label)
      <3>1. PICK kind \in {"invoke", "resume", "inspect"}, label \in Waiting : Post(h, kind, label)
        BY <2>3
      <3>2. wire' = wire \cup {[from |-> h, kind |-> kind]} /\ reply' = reply /\ pc'[h] \in Waiting
        BY <1>0, <3>1 DEF Post, Goto
      <3>3. reply[h] = "none" /\ \A m \in wire : m.from # h
        BY <1>0, <2>3, NobodyIsNoHost DEF WireInv
      <3>4. \A g \in Host : reply'[g] # "none" => pc'[g] \in Waiting
        BY <1>0, <2>1, <3>2 DEF WireInv
      <3>5. \A m \in wire' : m.from # Nobody => pc'[m.from] \in Waiting /\ reply'[m.from] = "none"
        BY <1>0, <2>1, <3>2, <3>3 DEF WireInv, Request
      <3>6. \A m, n \in wire' : m.from = n.from /\ m.from # Nobody => m = n
        BY <1>0, <3>2, <3>3 DEF WireInv
      <3> QED
        BY <3>4, <3>5, <3>6 DEF WireInv
    <2>4. CASE pc[h] \in Waiting /\ reply[h] # "none" /\ Consume(h)
      <3>1. wire' = wire /\ reply'[h] = "none" /\ \A m \in wire : m.from # h
        BY <1>0, <2>4, NobodyIsNoHost DEF Consume, WireInv
      <3> QED
        BY <1>0, <2>1, <3>1 DEF WireInv, Request
    <2> QED
      BY <1>0, <1>1, <2>2, <2>3, <2>4, NetworkUse
  <1>2. ASSUME NEW h \in Host, Restore(h) PROVE WireInv'
    BY <1>0, <1>2, RestoreIs DEF WireInv, network
  <1>3. ASSUME NEW h \in Host, wire' = Orphaned(h), \A g \in Host : g # h => pc'[g] = pc[g] /\ reply'[g] = reply[g],
               reply'[h] # "none" => pc'[h] \in Waiting
        PROVE  WireInv'
    <2>1. \A m \in wire' : m.from # Nobody => m \in wire /\ m.from # h
      BY <1>0, <1>3, NobodyIsNoHost DEF Orphaned, Request
    <2> QED
      BY <1>0, <1>3, <2>1 DEF WireInv, Request
  <1>4. ASSUME NEW h \in Host, Crash(h) PROVE WireInv'
    <2>1. wire' = Orphaned(h)
      BY <1>4 DEF Crash
    <2> QED
      BY <1>0, <1>3, <1>4, <2>1, OthersUntouched, CrashIs
  <1>5. ASSUME NEW h \in Host, RequestTimeout(h) PROVE WireInv'
    <2>1. wire' = Orphaned(h) /\ pc' = pc /\ pc[h] \in Waiting
      BY <1>0, <1>5, NobodyIsNoHost DEF RequestTimeout, WireInv
    <2> QED
      BY <1>0, <1>3, <1>5, <2>1, OthersUntouched
  <1>6. ASSUME NEW m \in wire, CoreTakes(m) \/ RequestLost(m) PROVE WireInv'
    <2>1. wire' = wire \ {m} /\ pc' = pc
      BY <1>6 DEF CoreTakes, RequestLost
    <2>2. reply' = reply \/ (m.from # Nobody /\ \E a : reply' = [reply EXCEPT ![m.from] = a])
      BY <1>6 DEF CoreTakes, RequestLost, Answer
    <2>3. CASE reply' = reply
      BY <1>0, <2>1, <2>3 DEF WireInv
    <2>4. CASE m.from # Nobody /\ \E a : reply' = [reply EXCEPT ![m.from] = a]
      <3>1. m.from \in Host /\ pc[m.from] \in Waiting /\ \A n \in wire' : n.from # m.from
        BY <1>0, <2>1, <2>4 DEF WireInv, Request
      <3>2. \A g \in Host : g # m.from => reply'[g] = reply[g]
        BY <1>0, <2>4
      <3> QED
        BY <1>0, <2>1, <3>1, <3>2 DEF WireInv, Request
    <2> QED
      BY <2>2, <2>3, <2>4
  <1>7. CASE UNCHANGED <<wire, pc, reply>>
    BY <1>0, <1>7 DEF WireInv
  <1>8. ASSUME NEW h \in Host, EndTurn(h) PROVE WireInv'
    BY <1>7, <1>8 DEF EndTurn, network
  <1>9. CASE CoreFinishes \/ UNCHANGED vars
    BY <1>7, <1>9 DEF CoreFinishes, vars
  <1> QED
    BY <1>1, <1>2, <1>4, <1>5, <1>6, <1>8, <1>9, Steps DEF Moves, Outside

\* Only a panel's reading of a receipt makes a host's next recovery read it first.
LEMMA ObservedSteps ==
  ASSUME TypeOK, NEW h \in Host, Starts(h) \/ Step(h)
  PROVE  taskBound' = taskBound /\ (actor[h] = "run" => observed'[h] = observed[h])
  <1> USE DEF TypeOK, bounds
  <1>1. CASE Starts(h)
    BY <1>1 DEF Starts, StartExecute, StartResume, StartPanel, Start
  <1>2. CASE ReceiptAnswered(h) \/ Decide(h)
    BY <1>2 DEF ReceiptAnswered, Decide
  <1>3. CASE VerifyFails(h) \/ ReserveFails(h) \/ DispatchRefused(h) \/ RememberFails(h) \/ WaitOver(h) \/ PollFails(h)
             \/ Reserve(h) \/ Remember(h) \/ PollRejected(h) \/ InvokeAnswered(h) \/ PollAnswered(h) \/ Verify(h)
             \/ Dispatch(h) \/ Poll(h) \/ ResumeAfterPause(h) \/ InspectAgain(h)
    BY <1>3 DEF VerifyFails, ReserveFails, DispatchRefused, RememberFails, WaitOver, PollFails,
       Reserve, Remember, PollRejected, InvokeAnswered, PollAnswered, Verify, Dispatch, Poll, ResumeAfterPause, InspectAgain
  <1> QED
    BY <1>1, <1>2, <1>3 DEF Step

\* The steps of an operation keep it where it can be.
LEMMA ResumeOwn ==
  ASSUME IInv, NEW h \in Host, Starts(h) \/ Step(h)
  PROVE  ResumeInvOf(h)'
  <1> USE DEF Goto, TypeOK, operation
  <1>0. TypeOK /\ ResumeInvOf(h) /\ actor[h] \in Actor /\ resumes[h] \in Nat
    BY DEF IInv, ResumeInv
  <1>1. taskBound' = taskBound /\ (actor[h] = "run" => NeedsReceipt(h)' = NeedsReceipt(h))
    BY <1>0, ObservedSteps DEF NeedsReceipt
  <1>2. ASSUME Finish(h) PROVE ResumeInvOf(h)'
    <2>1. pc'[h] = "idle" /\ resumes'[h] = 0 /\ actor'[h] = "run" /\ intent'[h] = "execute"
      BY <1>0, <1>2, FinishIs, BoundsAreNat, Parts
    <2> QED
      BY <2>1 DEF ResumeInvOf
  <1>3. CASE VerifyFails(h) \/ ReserveFails(h) \/ DispatchRefused(h) \/ WaitOver(h) \/ PollFails(h) \/ RememberFails(h)
             \/ PollRejected(h)
    BY <1>2, <1>3 DEF VerifyFails, ReserveFails, DispatchRefused, WaitOver, PollFails, RememberFails, PollRejected
  <1>4. CASE StartExecute(h) \/ StartResume(h)
    <2>1. pc'[h] = "verify" /\ actor'[h] = "run" /\ resumes'[h] = 0
      BY <1>0, <1>4 DEF StartExecute, StartResume, Start, ResumeInvOf
    <2> QED
      BY <2>1 DEF ResumeInvOf
  <1>5. CASE StartPanel(h, "inspect") \/ StartPanel(h, "resume")
    <2>1. pc'[h] = "receipt" /\ actor'[h] = "panel" /\ resumes'[h] = 0
      BY <1>0, <1>5 DEF StartPanel, Post, ResumeInvOf
    <2> QED
      BY <2>1 DEF ResumeInvOf
  <1>6. CASE Verify(h)
    <2>1. pc[h] = "verify" /\ actor[h] = "run"
      BY <1>0, <1>6 DEF Verify, ResumeInvOf, Actor
    <2>2. CASE Finish(h)
      BY <1>2, <2>2
    <2>3. CASE intent[h] = "execute" /\ (Goto(h, "reserve") \/ Goto(h, "wait")) /\ UNCHANGED <<actor, intent, resumes>>
      <3>1. pc'[h] \in {"reserve", "wait"} /\ actor'[h] = "run" /\ intent'[h] = "execute"
        BY <1>0, <2>1, <2>3
      <3> QED
        BY <3>1 DEF ResumeInvOf
    <2>4. CASE ~ NeedsReceipt(h) /\ Goto(h, "wait") /\ UNCHANGED operation
      <3>1. pc'[h] = "wait" /\ actor'[h] = "run" /\ ~ NeedsReceipt(h)'
        BY <1>0, <1>1, <2>1, <2>4
      <3> QED
        BY <3>1 DEF ResumeInvOf
    <2>5. CASE Post(h, "inspect", "receipt") /\ UNCHANGED <<actor, intent>>
      <3>1. pc'[h] = "receipt" /\ actor'[h] = "run" /\ resumes'[h] = resumes[h] /\ intent'[h] = intent[h]
        BY <1>0, <2>1, <2>5 DEF Post
      <3> QED
        BY <1>0, <1>1, <2>1, <3>1 DEF ResumeInvOf
    <2> QED
      BY <1>6, <2>2, <2>3, <2>4, <2>5 DEF Verify
  <1>7. CASE Reserve(h)
    <2>1. pc[h] = "reserve" /\ pc'[h] = "gate" /\ UNCHANGED <<actor, intent, resumes>>
      BY <1>0, <1>7 DEF Reserve
    <2> QED
      BY <1>0, <1>1, <2>1 DEF ResumeInvOf
  <1>8. CASE Dispatch(h)
    <2>1. pc[h] = "gate" /\ pc'[h] \in {"invoking", "wait"} /\ UNCHANGED <<actor, intent>>
      BY <1>0, <1>8 DEF Dispatch, Post
    <2>2. intent'[h] = "execute" /\ actor'[h] # "panel"
      BY <1>0, <2>1 DEF ResumeInvOf
    <2> QED
      BY <2>1, <2>2 DEF ResumeInvOf
  <1>9. CASE InvokeAnswered(h)
    <2>1. pc[h] = "invoking" /\ (Finish(h) \/ (pc'[h] \in {"remember", "wait"} /\ UNCHANGED <<actor, intent>>))
      BY <1>0, <1>9 DEF InvokeAnswered
    <2>2. intent[h] = "execute" /\ actor[h] # "panel"
      BY <1>0, <2>1 DEF ResumeInvOf
    <2> QED
      BY <1>2, <2>1, <2>2 DEF ResumeInvOf
  <1>10. CASE Remember(h)
    <2>1. pc[h] = "remember" /\ pc'[h] = AfterRemember(h) /\ UNCHANGED <<actor, intent, resumes, managed>>
      BY <1>0, <1>10 DEF Remember
    <2> QED
      BY <1>0, <1>1, <2>1 DEF ResumeInvOf, AfterRemember, Actor
  <1>11. CASE Poll(h)
    <2>1. pc[h] = "wait" /\ pc'[h] \in {"resuming", "inspecting"} /\ UNCHANGED <<actor, intent, managed>>
          /\ (managed[h] => resumes'[h] = resumes[h])
      BY <1>0, <1>11 DEF Poll, Post
    <2> QED
      BY <1>0, <1>1, <2>1 DEF ResumeInvOf
  <1>12. CASE PollAnswered(h)
    <2>1. /\ pc[h] \in {"resuming", "inspecting"} /\ pc'[h] \in {"remember", "wait"} /\ UNCHANGED <<actor, intent, resumes>>
          /\ managed'[h] = (actor[h] = "run" /\ (managed[h] \/ ObserveOnly(h)))
          /\ pc'[h] = "wait" => actor[h] = "run"
      BY <1>0, <1>12 DEF PollAnswered
    <2> QED
      BY <1>0, <1>1, <2>1 DEF ResumeInvOf, ObserveOnly
  <1>13. CASE ReceiptAnswered(h)
    <2>1. \/ Finish(h)
          \/ pc'[h] = "remember" /\ UNCHANGED <<actor, intent, resumes>>
          \/ pc'[h] = "wait" /\ managed'[h] /\ actor[h] = "run" /\ UNCHANGED <<actor, intent, resumes>>
      BY <1>0, <1>13 DEF ReceiptAnswered
    <2> QED
      BY <1>0, <1>1, <1>2, <2>1 DEF ResumeInvOf
  <1>14. CASE Decide(h)
    <2>1. \/ Finish(h)
          \/ resumes[h] = 0 /\ pc'[h] = "resuming" /\ resumes'[h] = 1 /\ UNCHANGED <<actor, intent>>
          \/ resumes[h] = 0 /\ pc'[h] = "pause" /\ actor[h] = "run" /\ UNCHANGED <<actor, intent, resumes>>
          \/ pc'[h] = "wait" /\ managed'[h] /\ actor[h] = "run" /\ UNCHANGED <<actor, intent, resumes>>
      BY <1>0, <1>14 DEF Decide, Post
    <2> QED
      BY <1>0, <1>1, <1>2, <2>1 DEF ResumeInvOf, Actor
  <1>15. CASE ResumeAfterPause(h)
    <2>1. pc[h] = "pause" /\ \/ Finish(h)
                             \/ pc'[h] = "resuming" /\ resumes'[h] = resumes[h] + 1 /\ UNCHANGED <<actor, intent>>
      BY <1>0, <1>15 DEF ResumeAfterPause, Post
    <2> QED
      BY <1>0, <1>1, <1>2, <2>1 DEF ResumeInvOf, Actor
  <1>16. CASE InspectAgain(h)
    <2>1. \/ Finish(h)
          \/ pc[h] = "again" /\ pc'[h] = "receipt" /\ UNCHANGED <<actor, intent>> /\ resumes'[h] = resumes[h]
      BY <1>0, <1>16 DEF InspectAgain, Post
    <2> QED
      BY <1>0, <1>1, <1>2, <2>1 DEF ResumeInvOf, Actor
  <1> QED
    BY <1>3, <1>4, <1>5, <1>6, <1>7, <1>8, <1>9, <1>10, <1>11, <1>12, <1>13, <1>14, <1>15, <1>16 DEF Starts, Step

LEMMA ResumeStep == IInv /\ [Next]_vars => ResumeInv'
  <1> SUFFICES ASSUME IInv, [Next]_vars PROVE ResumeInv'
    OBVIOUS
  <1>0. TypeOK /\ ResumeInv
    BY DEF IInv
  <1>1. ASSUME NEW h \in Host, Moves(h) \/ Crash(h), NEW g \in Host, g # h PROVE ResumeInvOf(g)'
    <2>1. taskBound' = taskBound
      BY <1>0, <1>1, ObservedSteps, RestoreIs, CrashIs DEF Moves
    <2> QED
      BY <1>0, <1>1, <2>1, OthersUntouched DEF Moves, ResumeInv, ResumeInvOf, NeedsReceipt
  <1>2. ASSUME NEW h \in Host, Moves(h) \/ Crash(h) PROVE ResumeInvOf(h)'
    <2>1. CASE Restore(h)
      BY <1>0, <2>1, RestoreIs DEF ResumeInv, ResumeInvOf, NeedsReceipt
    <2>2. CASE Crash(h)
      BY <1>0, <2>2, CrashIs DEF ResumeInvOf
    <2> QED
      BY <1>2, <2>1, <2>2, ResumeOwn DEF Moves
  <1>3. CASE Outside
    BY <1>0, <1>3, OutsideSteps DEF Outside, ResumeInv, ResumeInvOf, NeedsReceipt
  <1>4. CASE UNCHANGED vars
    BY <1>0, <1>4 DEF vars, ResumeInv, ResumeInvOf, NeedsReceipt
  <1> QED
    BY <1>1, <1>2, <1>3, <1>4, Steps DEF ResumeInv

\* The level is a rank, and a host's step leaves it.
LEMMA LevelIs ==
  ASSUME TypeOK
  PROVE  /\ Level \in Nat /\ Level >= 1 /\ Rank[journal] \in Nat
         /\ core \in Result => Level = Rank[core]
  <1>1. core \in {"absent"} \cup Result /\ journal \in Known /\ "absent" \notin Result
    BY DEF TypeOK, Result
  <1> QED
    BY <1>1, RankIs DEF Level

\* The journal only moves on, and never past Core.
LEMMA JournalGrows ==
  ASSUME IInv, NEW h \in Host, Moves(h)
  PROVE  Rank[journal] <= Rank[journal'] /\ Rank[journal'] <= Level /\ Rank[journal'] \in Nat
  <1>0. TypeOK /\ OrderInvOf(h) /\ Rank[journal] <= Level /\ Level \in Nat /\ Level >= 1 /\ Rank[journal] \in Nat
        /\ ResultInvOf(h)
    BY LevelIs DEF IInv, OrderInv, ResultInv
  <1>1. CASE UNCHANGED journal
    BY <1>0, <1>1
  <1>2. CASE journal = "none" /\ journal' = "unknown"
    BY <1>0, <1>2, RankIs
  <1>3. CASE Remember(h) \/ RememberFails(h)
    <2>1. Rec(h).latest \in Result /\ pc[h] = "remember" /\ Rec(h) \in CallRecord
      BY <1>3, SaveSteps DEF Remember, RememberFails
    <2>2. journal' = journal \/ (journal' = Rec(h).latest /\ journal \in {Rec(h).latest, Rec(h).entry})
      BY <1>3, SaveSteps
    <2>3. Rank[Rec(h).entry] <= Rank[Rec(h).latest] /\ Rank[Rec(h).latest] <= Level /\ Rank[Rec(h).latest] \in Nat
      BY <1>0, <2>1, RankIs DEF OrderInvOf
    <2> QED
      BY <1>0, <1>1, <2>2, <2>3
  <1>4. CASE Restore(h)
    <2>1. \/ UNCHANGED journal
          \/ unsaved[h] # NothingUnsaved /\ journal' = unsaved[h].next /\ journal \in {unsaved[h].next, unsaved[h].previous}
      BY <1>0, <1>4, RestoreIs
    <2>2. unsaved[h] # NothingUnsaved => Rank[unsaved[h].next] \in Nat
      BY <1>0, RankIs DEF ResultInvOf
    <2>3. Rank[unsaved[h].previous] <= Rank[unsaved[h].next] /\ Rank[unsaved[h].next] <= Level
      BY <1>0 DEF OrderInvOf
    <2> QED
      BY <1>0, <1>1, <2>1, <2>2, <2>3
  <1> QED
    BY <1>0, <1>1, <1>2, <1>3, <1>4, JournalSteps DEF Moves

\* Core's step leaves the hosts behind it.
LEMMA LevelGrows ==
  ASSUME TypeOK, Outside
  PROVE  /\ Level' \in Nat /\ Level <= Level'
         /\ \A h \in Host : reply'[h] \in Result => reply'[h] = reply[h] \/ (core' \in Result /\ reply'[h] = core')
  <1>0. core \in {"absent"} \cup Result /\ reply \in [Host -> Reply] /\ wire \in SUBSET Request
    BY DEF TypeOK
  <1>1. Level \in Nat /\ (core \in Result => Level = Rank[core]) /\ (core = "absent" => Level = 1)
    BY LevelIs DEF Level
  <1>2. CASE UNCHANGED core
    <2>1. Level' = Level
      BY <1>2 DEF Level
    <2>2. CASE UNCHANGED reply
      BY <1>1, <2>1, <2>2
    <2>3. ASSUME NEW h \in Host, RequestTimeout(h) PROVE \A g \in Host : reply'[g] \in Result => reply'[g] = reply[g]
      BY <1>0, <2>3 DEF RequestTimeout, Result
    <2>4. ASSUME NEW m \in wire, RequestLost(m) PROVE \A g \in Host : reply'[g] \in Result => reply'[g] = reply[g]
      BY <1>0, <2>4 DEF RequestLost, Answer, Result, Request
    <2>5. ASSUME NEW m \in wire, CoreTakes(m)
          PROVE  \A g \in Host : reply'[g] \in Result => reply'[g] = reply[g] \/ (core' \in Result /\ reply'[g] = core')
      BY <1>0, <1>2, <2>5 DEF CoreTakes, Answer, Result, Request
    <2>6. ~ CoreFinishes
      BY <1>2 DEF CoreFinishes
    <2>7. ASSUME NEW h \in Host, EndTurn(h) PROVE UNCHANGED reply
      BY <2>7 DEF EndTurn, network
    <2> QED
      BY <1>1, <2>1, <2>2, <2>3, <2>4, <2>5, <2>6, <2>7 DEF Outside
  <1>3. ASSUME ~ UNCHANGED core
        PROVE  /\ Level' \in Nat /\ Level <= Level'
               /\ \A h \in Host : reply'[h] \in Result => reply'[h] = reply[h] \/ (core' \in Result /\ reply'[h] = core')
    <2>1. ASSUME NEW m \in wire, CoreTakes(m)
          PROVE  /\ core' \in {"held", "running"} /\ core \in {"absent", "held"}
                 /\ \A h \in Host : reply'[h] \in Result => reply'[h] = reply[h] \/ reply'[h] = core'
      BY <1>0, <1>3, <2>1 DEF CoreTakes, Answer, Result, Request
    <2>2. ASSUME CoreFinishes PROVE core = "running" /\ core' = "done" /\ UNCHANGED reply
      BY <2>2 DEF CoreFinishes
    <2>3. ASSUME NEW h \in Host, EndTurn(h) \/ RequestTimeout(h) PROVE FALSE
      BY <1>3, <2>3 DEF EndTurn, RequestTimeout, network
    <2>4. ASSUME NEW m \in wire, RequestLost(m) PROVE FALSE
      BY <1>3, <2>4 DEF RequestLost
    <2>5. /\ core' \in {"held", "running", "done"} /\ core # core'
          /\ core = "absent" \/ (core = "held" /\ core' = "running") \/ (core = "running" /\ core' = "done")
          /\ \A h \in Host : reply'[h] \in Result => reply'[h] = reply[h] \/ reply'[h] = core'
      BY <1>3, <2>1, <2>2, <2>3, <2>4 DEF Outside
    <2>6. Level' = Rank[core'] /\ core' \in Result
      BY <2>5 DEF Level, Result
    <2>7. "held" \in Result /\ "running" \in Result /\ "done" \in Result
      BY DEF Result
    <2>8. Level <= Level' /\ Level' \in Nat
      BY <1>1, <2>5, <2>6, <2>7, RankIs
    <2> QED
      BY <2>5, <2>6, <2>8
  <1> QED
    BY <1>2, <1>3

LEMMA OrderOwn ==
  ASSUME IInv, NEW h \in Host, Starts(h) \/ Step(h), ~ Restore(h)
  PROVE  OrderInvOf(h)'
  <1>0. TypeOK /\ OrderInvOf(h) /\ ResultInvOf(h) /\ WireInv /\ record \in RecordType /\ Rec(h) = record[h][actor[h]]
        /\ actor[h] \in Actor /\ Rec(h) \in CallRecord /\ Level \in Nat
    BY RecIs, LevelIs DEF IInv, OrderInv, ResultInv
  <1>1. UNCHANGED core /\ (reply'[h] = "none" \/ (pc[h] \notin Waiting /\ UNCHANGED reply))
    <2>1. reply \in [Host -> Reply]
      BY <1>0 DEF TypeOK
    <2>2. \/ pc[h] \notin Waiting /\ UNCHANGED network
          \/ /\ pc[h] \notin Waiting
             /\ \E kind \in {"invoke", "resume", "inspect"}, label \in Waiting : Post(h, kind, label)
          \/ pc[h] \in Waiting /\ reply[h] # "none" /\ Consume(h)
      BY <1>0, NetworkUse
    <2> QED
      BY <2>1, <2>2 DEF network, Post, Consume
  <1>2. reply'[h] = "none" /\ Level' = Level
    BY <1>0, <1>1 DEF WireInv, Level
  <1>3. Rank[journal] <= Rank[journal'] /\ Rank[journal'] \in Nat /\ Rank[journal] \in Nat
    BY <1>0, JournalGrows, LevelIs DEF Moves
  <1>4. ASSUME NEW a \in Actor PROVE Rank[record'[h][a].entry] <= Rank[journal']
    <2>1. record'[h][a].entry \in {record[h][a].entry, "none", journal'}
      BY EntrySteps
    <2>2. Rank[record[h][a].entry] <= Rank[journal] /\ Rank[record[h][a].entry] \in Nat
      BY <1>0, RankIs DEF OrderInvOf, RecordType, CallRecord
    <2> QED
      BY <1>3, <2>1, <2>2, RankIs
  <1>5. reply'[h] \notin Result
    BY <1>2 DEF Result
  <1>6. pc'[h] = "remember" => Rank[Rec(h)'.entry] <= Rank[Rec(h)'.latest] /\ Rank[Rec(h)'.latest] <= Level'
    <2> SUFFICES ASSUME pc'[h] = "remember"
                 PROVE  Rank[Rec(h)'.entry] <= Rank[Rec(h)'.latest] /\ Rank[Rec(h)'.latest] <= Level'
      OBVIOUS
    <2>1. reply[h] \in Result /\ SetLatest(h, reply[h]) /\ UNCHANGED actor
      BY <1>0, ToRemember
    <2>2. Rec(h)'.latest = reply[h] /\ Rec(h)'.entry = Rec(h).entry
      BY <1>0, <2>1, SetLatestIs DEF Rec
    <2> QED
      BY <1>0, <1>2, <2>1, <2>2 DEF OrderInvOf
  <1>7. Rank[unsaved'[h].previous] <= Rank[unsaved'[h].next] /\ Rank[unsaved'[h].next] <= Level'
    <2>1. CASE UNCHANGED unsaved
      BY <1>0, <1>2, <2>1 DEF OrderInvOf
    <2>2. CASE Remember(h)
      BY <2>1, <2>2, SaveSteps
    <2>3. CASE RememberFails(h)
      <3>1. unsaved'[h] = [next |-> Rec(h).latest, previous |-> Rec(h).entry] /\ pc[h] = "remember"
        BY <2>3, SaveSteps DEF RememberFails
      <3>2. unsaved'[h].next = Rec(h).latest /\ unsaved'[h].previous = Rec(h).entry
        BY <3>1
      <3> QED
        BY <1>0, <1>2, <3>1, <3>2 DEF OrderInvOf
    <2> QED
      BY <1>0, <2>1, <2>2, <2>3, JournalSteps
  <1> QED
    BY <1>4, <1>5, <1>6, <1>7 DEF OrderInvOf

LEMMA OrderStep == IInv /\ [Next]_vars => OrderInv'
  <1> SUFFICES ASSUME IInv, [Next]_vars PROVE OrderInv'
    OBVIOUS
  <1>0. TypeOK /\ OrderInv /\ record \in RecordType /\ Level \in Nat /\ Level >= 1 /\ Rank[journal] \in Nat
    BY RecIs, LevelIs DEF IInv, TypeOK, RecordType
  <1>1. \A h \in Host, a \in Actor : Rank[record[h][a].entry] \in Nat
    BY <1>0, RankIs DEF RecordType, CallRecord
  <1>2. ASSUME NEW h \in Host, Moves(h) PROVE OrderInv'
    <2>1. Rank[journal] <= Rank[journal'] /\ Rank[journal'] <= Level /\ Rank[journal'] \in Nat
      BY <1>2, JournalGrows
    <2>2. Level' = Level
      BY <1>0, <1>2, NetworkUse, RestoreIs DEF Moves, network, Post, Consume, Level
    <2>3. ASSUME NEW g \in Host, g # h PROVE OrderInvOf(g)'
      <3>1. /\ record'[g] = record[g] /\ reply'[g] = reply[g] /\ pc'[g] = pc[g] /\ actor'[g] = actor[g]
            /\ unsaved'[g] = unsaved[g] /\ OrderInvOf(g)
        BY <1>0, <1>2, <2>3, OthersUntouched DEF Moves, OrderInv
      <3>2. \A a \in Actor : Rank[record'[g][a].entry] <= Rank[journal']
        BY <1>0, <1>1, <2>1, <3>1 DEF OrderInvOf
      <3> QED
        BY <2>2, <3>1, <3>2 DEF OrderInvOf, Rec
    <2>4. OrderInvOf(h)'
      <3>1. CASE Restore(h)
        <4>1. /\ record' = record /\ reply' = reply /\ pc' = pc /\ actor' = actor /\ OrderInvOf(h)
              /\ unsaved'[h] \in {unsaved[h], NothingUnsaved}
          BY <1>0, <3>1, RestoreIs DEF network, OrderInv
        <4>2. \A a \in Actor : Rank[record'[h][a].entry] <= Rank[journal']
          BY <1>0, <1>1, <2>1, <4>1 DEF OrderInvOf
        <4>3. NothingUnsaved.next = "none" /\ NothingUnsaved.previous = "none"
          BY DEF NothingUnsaved
        <4>4. Rank[unsaved'[h].previous] <= Rank[unsaved'[h].next] /\ Rank[unsaved'[h].next] <= Level'
          BY <1>0, <2>2, <4>1, <4>3, RankIs DEF OrderInvOf
        <4> QED
          BY <2>2, <4>1, <4>2, <4>4 DEF OrderInvOf, Rec
      <3> QED
        BY <1>2, <3>1, OrderOwn DEF Moves
    <2> QED
      BY <2>1, <2>2, <2>3, <2>4 DEF OrderInv
  <1>3. ASSUME NEW h \in Host, Crash(h) PROVE OrderInv'
    <2>1. UNCHANGED <<journal, core>> /\ Level' = Level
      BY <1>0, <1>3, CrashIs DEF Level
    <2>2. ASSUME NEW g \in Host, g # h PROVE OrderInvOf(g)'
      BY <1>0, <1>3, <2>1, <2>2, OthersUntouched DEF OrderInv, OrderInvOf, Rec
    <2>3. OrderInvOf(h)'
      <3>1. /\ pc'[h] = "idle" /\ unsaved'[h] = NothingUnsaved /\ reply'[h] = "none"
            /\ \A a \in Actor : record'[h][a] = Empty
        BY <1>0, <1>3, CrashIs
      <3>2. Empty.entry = "none" /\ NothingUnsaved.next = "none" /\ NothingUnsaved.previous = "none" /\ "none" \notin Result
        BY DEF Empty, NothingUnsaved, Result
      <3> QED
        BY <1>0, <2>1, <3>1, <3>2, RankIs DEF OrderInvOf
    <2> QED
      BY <1>0, <2>1, <2>2, <2>3 DEF OrderInv
  <1>4. CASE Outside
    <2>1. UNCHANGED <<journal, unsaved, record, pc, actor>> /\ Level' \in Nat /\ Level <= Level'
          /\ Rank[journal] <= Level'
      BY <1>0, <1>4, OutsideSteps, LevelGrows DEF Outside, OrderInv
    <2>2. ASSUME NEW h \in Host PROVE OrderInvOf(h)'
      <3>1. OrderInvOf(h) /\ TypeOK /\ Rec(h)' = Rec(h) /\ Rec(h) \in CallRecord /\ unsaved[h] \in Outcome
            /\ Rec(h) = record[h][actor[h]] /\ actor[h] \in Actor
        BY <1>0, <2>1, RecIs DEF OrderInv, Rec, TypeOK
      <3>2. reply'[h] \in Result => Rank[Rec(h).entry] <= Rank[reply'[h]] /\ Rank[reply'[h]] <= Level'
        <4>1. CASE reply'[h] = reply[h]
          BY <1>0, <2>1, <3>1, <4>1, RankIs DEF OrderInvOf
        <4>2. CASE core' \in Result /\ reply'[h] = core'
          <5>1. TypeOK'
            BY <1>0, <1>4, OutsideTypes DEF Outside
          <5>2. Level' = Rank[core']
            BY <4>2, <5>1 DEF Level, Result
          <5>3. Rank[Rec(h).entry] <= Rank[journal] /\ Rank[Rec(h).entry] \in Nat
            BY <1>0, <1>1, <3>1 DEF OrderInvOf
          <5> QED
            BY <1>0, <2>1, <4>2, <5>2, <5>3
        <4> QED
          BY <1>0, <1>4, <4>1, <4>2, LevelGrows
      <3>3. pc'[h] = "remember" => Rank[Rec(h)'.entry] <= Rank[Rec(h)'.latest] /\ Rank[Rec(h)'.latest] <= Level'
        <4>1. Rec(h).latest \in Known
          BY <3>1 DEF CallRecord, Known
        <4> QED
          BY <1>0, <2>1, <3>1, <4>1, RankIs DEF OrderInvOf
      <3>4. Rank[unsaved'[h].previous] <= Rank[unsaved'[h].next] /\ Rank[unsaved'[h].next] <= Level'
        <4>1. unsaved[h].next \in Known
          BY <3>1 DEF Outcome
        <4> QED
          BY <1>0, <2>1, <3>1, <4>1, RankIs DEF OrderInvOf
      <3> QED
        BY <2>1, <3>1, <3>2, <3>3, <3>4 DEF OrderInvOf
    <2> QED
      BY <2>1, <2>2 DEF OrderInv
  <1>5. CASE UNCHANGED vars
    BY <1>0, <1>5 DEF vars, OrderInv, OrderInvOf, Level, Rec
  <1> QED
    BY <1>2, <1>3, <1>4, <1>5, Steps

LEMMA KeptStep == IInv /\ [Next]_vars => KeptInv'
  <1> SUFFICES ASSUME IInv, [Next]_vars PROVE KeptInv'
    OBVIOUS
  <1>0. TypeOK /\ KeptInv /\ ResultInv /\ Rank[journal] \in Nat
    BY LevelIs DEF IInv
  <1>1. ASSUME NEW h \in Host, Moves(h) PROVE KeptInv'
    <2>1. Rank[journal] <= Rank[journal'] /\ Rank[journal'] \in Nat
      BY <1>1, JournalGrows
    <2>2. ASSUME NEW g \in Host, record'[g]["run"].latest = record[g]["run"].latest, record[g]["run"].latest # "none",
                 Rank[record[g]["run"].latest] <= Rank[journal]
          PROVE  Rank[record'[g]["run"].latest] <= Rank[journal']
      <3>1. record[g]["run"] \in CallRecord
        BY <1>0, RecIs DEF RecordType, Actor
      <3>2. Rank[record[g]["run"].latest] \in Nat
        BY <2>2, <3>1, RankIs DEF CallRecord
      <3> QED
        BY <1>0, <2>1, <2>2, <3>2
    <2>3. ASSUME NEW g \in Host, g # h PROVE KeptInvOf(g)'
      <3>1. /\ record'[g] = record[g] /\ pc'[g] = pc[g] /\ actor'[g] = actor[g] /\ unsaved'[g] = unsaved[g] /\ KeptInvOf(g)
        BY <1>0, <1>1, <2>3, OthersUntouched DEF Moves, KeptInv
      <3> QED
        BY <2>2, <3>1 DEF KeptInvOf
    <2>4. KeptInvOf(h)'
      <3> DEFINE known == record[h]["run"].latest
      <3>1. CASE \/ record'[h]["run"].latest = "none"
                 \/ pc'[h] = "remember" /\ actor'[h] = "run"
        BY <3>1 DEF KeptInvOf
      <3>2. CASE record'[h]["run"].latest = known /\ known # "none"
        <4>1. KeptInvOf(h) /\ ResultInvOf(h)
          BY <1>0 DEF KeptInv, ResultInv
        <4>2. CASE Rank[known] <= Rank[journal]
          BY <2>2, <3>2, <4>2 DEF KeptInvOf
        <4>3. CASE Restore(h)
          <5>1. /\ pc' = pc /\ actor' = actor
                /\ \/ unsaved'[h] = unsaved[h]
                   \/ unsaved[h] # NothingUnsaved /\ journal' = unsaved[h].next
                   \/ unsaved[h] = NothingUnsaved
            BY <1>0, <4>3, RestoreIs
          <5>2. unsaved[h] = NothingUnsaved => unsaved[h].next = "none"
            BY DEF NothingUnsaved
          <5>3. known = unsaved[h].next /\ journal' = unsaved[h].next => Rank[known] <= Rank[journal']
            BY <2>1
          <5> QED
            BY <3>2, <4>1, <4>2, <5>1, <5>2, <5>3 DEF KeptInvOf
        <4>4. CASE ~ Restore(h) /\ Remember(h)
          <5>3. journal' = Rec(h).latest /\ UNCHANGED unsaved /\ unsaved[h] = NothingUnsaved
            BY <4>4, SaveSteps
          <5>1. journal' = Rec(h).latest /\ UNCHANGED unsaved /\ unsaved[h].next = "none"
            BY <5>3 DEF NothingUnsaved
          <5>2. actor[h] = "run" => Rank[known] <= Rank[journal']
            BY <2>1, <5>1 DEF Rec
          <5> QED
            BY <3>2, <4>1, <4>2, <5>1, <5>2 DEF KeptInvOf
        <4>5. CASE ~ Restore(h) /\ RememberFails(h)
          <5>1. unsaved'[h] = [next |-> Rec(h).latest, previous |-> Rec(h).entry] /\ unsaved[h].next = "none"
            BY <4>5, SaveSteps DEF NothingUnsaved
          <5>2. unsaved'[h].next = Rec(h).latest
            BY <5>1
          <5> QED
            BY <3>2, <4>1, <4>2, <5>1, <5>2 DEF KeptInvOf, Rec
        <4>6. CASE ~ Restore(h) /\ ~ Remember(h) /\ ~ RememberFails(h)
          <5>1. UNCHANGED unsaved
            BY <1>0, <1>1, <4>6, JournalSteps DEF Moves
          <5>2. pc[h] = "remember" => FALSE
            BY <1>1, <4>6 DEF Moves, Starts, StartExecute, StartResume, StartPanel, Start, Step, Verify, VerifyFails, Reserve,
               ReserveFails, Dispatch, DispatchRefused, InvokeAnswered, WaitOver, Poll, PollFails, PollAnswered, PollRejected,
               ReceiptAnswered, Decide, ResumeAfterPause, InspectAgain
          <5> QED
            BY <3>2, <4>1, <4>2, <5>1, <5>2 DEF KeptInvOf
        <4> QED
          BY <4>3, <4>4, <4>5, <4>6
      <3> QED
        BY <1>0, <1>1, <3>1, <3>2, LatestSteps DEF Moves
    <2> QED
      BY <2>3, <2>4 DEF KeptInv
  <1>2. ASSUME NEW h \in Host, Crash(h) PROVE KeptInv'
    <2>1. UNCHANGED journal /\ record'[h]["run"] = Empty
      BY <1>0, <1>2, CrashIs DEF Actor
    <2>2. KeptInvOf(h)'
      BY <2>1 DEF KeptInvOf, Empty
    <2>3. ASSUME NEW g \in Host, g # h PROVE KeptInvOf(g)'
      BY <1>0, <1>2, <2>1, <2>3, OthersUntouched DEF KeptInv, KeptInvOf
    <2> QED
      BY <2>2, <2>3 DEF KeptInv
  <1>3. CASE Outside
    BY <1>0, <1>3, OutsideSteps DEF Outside, KeptInv, KeptInvOf
  <1>4. CASE UNCHANGED vars
    BY <1>0, <1>4 DEF vars, KeptInv, KeptInvOf
  <1> QED
    BY <1>1, <1>2, <1>3, <1>4, Steps

-----------------------------------------------------------------------------
(* The theorems. *)

LEMMA Invariance == Spec => []IInv
  <1>1. Init => IInv
    BY InitInv
  <1>2. IInv /\ [Next]_vars => IInv'
    BY TypeStep, ResultStep, OwnStep, ResumeStep, WireStep, OrderStep, KeptStep DEF IInv
  <1> QED
    BY <1>1, <1>2, PTL DEF Spec

\* A call is always in a state the code has a name for: the types of the
\* journal's entry, of the hosts' records and operations, and of the requests.
THEOREM TypeCorrect == Spec => []TypeOK
  <1>1. IInv => TypeOK
    BY DEF IInv
  <1> QED
    BY <1>1, Invariance, PTL

\* executeTrackedInvocation, on however many hosts, sends the call once.
THEOREM AtMostOneInvokeHolds == Spec => []AtMostOneInvoke
  <1>1. IInv => AtMostOneInvoke
    BY DEF IInv, OwnInv, AtMostOneInvoke
  <1> QED
    BY <1>1, Invariance, PTL

\* Nobody continues a call twice after one reading of its receipt.
THEOREM ContinuesOnceHolds == Spec => []ContinuesOnce
  <1>1. IInv => ContinuesOnce
    <2> SUFFICES ASSUME IInv, NEW h \in Host, intent[h] = "resume", NeedsReceipt(h) PROVE resumes[h] <= 1
      BY DEF ContinuesOnce
    <2>1. actor[h] \in Actor /\ ResumeInvOf(h)
      BY DEF IInv, TypeOK, ResumeInv
    <2> QED
      BY <2>1 DEF ResumeInvOf, Actor
  <1> QED
    BY <1>1, Invariance, PTL

\* A receipt that a run goes on with is in the journal, or kept to be saved.
THEOREM ReceiptIsKeptHolds == Spec => []ReceiptIsKept
  <1>1. IInv => ReceiptIsKept
    BY DEF IInv, KeptInv, KeptInvOf, ReceiptIsKept
  <1> QED
    BY <1>1, Invariance, PTL

\* The journal's outcome of a call only moves on, whoever saves it.
THEOREM OutcomeNeverRegressesHolds == Spec => OutcomeNeverRegresses
  <1>1. IInv /\ [Next]_vars => [Rank[journal'] >= Rank[journal]]_vars
    <2> SUFFICES ASSUME IInv, [Next]_vars, ~ UNCHANGED vars PROVE Rank[journal'] >= Rank[journal]
      OBVIOUS
    <2>1. TypeOK /\ Rank[journal] \in Nat
      BY LevelIs DEF IInv
    <2>2. ASSUME NEW h \in Host, Moves(h) PROVE Rank[journal'] >= Rank[journal]
      BY <2>1, <2>2, JournalGrows
    <2>3. ASSUME UNCHANGED journal PROVE Rank[journal'] >= Rank[journal]
      BY <2>1, <2>3
    <2> QED
      BY <2>1, <2>2, <2>3, Steps, CrashIs, OutsideSteps DEF Outside
  <1> QED
    BY <1>1, Invariance, PTL DEF Spec, OutcomeNeverRegresses

\* What a host posts in a step is its own, and the last check before it is
\* that its turn has not ended.
LEMMA SendSteps ==
  ASSUME TypeOK, NEW h \in Host, Starts(h) \/ Step(h), NEW m \in wire', m \notin wire
  PROVE  m.from = h /\ (m.kind \in {"invoke", "resume"} => ~ stale[h])
  <1> USE DEF durable, operation, network, bounds
  <1>1. CASE Starts(h)
    BY <1>1 DEF Starts, StartExecute, StartResume, StartPanel, Start, Post
  <1>2. CASE VerifyFails(h) \/ ReserveFails(h) \/ DispatchRefused(h) \/ WaitOver(h) \/ PollFails(h) \/ RememberFails(h)
             \/ Reserve(h) \/ Remember(h)
    BY <1>2 DEF VerifyFails, ReserveFails, DispatchRefused, WaitOver, PollFails, RememberFails, Reserve, Remember
  <1>3. CASE PollRejected(h) \/ InvokeAnswered(h) \/ PollAnswered(h) \/ ReceiptAnswered(h)
    BY <1>3 DEF PollRejected, InvokeAnswered, PollAnswered, ReceiptAnswered, Consume
  <1>4. CASE Verify(h) \/ Dispatch(h)
    BY <1>4 DEF Verify, Dispatch, MayDispatch, Post
  <1>5. CASE Poll(h) \/ InspectAgain(h)
    BY <1>5 DEF Poll, InspectAgain, Post
  <1>6. CASE Decide(h) \/ ResumeAfterPause(h)
    BY <1>6 DEF Decide, ResumeAfterPause, Post
  <1> QED
    BY <1>1, <1>2, <1>3, <1>4, <1>5, <1>6 DEF Step

\* A turn that has ended, or an aborted panel action, sends nothing that
\* would make Core act.
THEOREM NothingSentAfterTheEndHolds == Spec => NothingSentAfterTheEnd
  <1>1. IInv /\ [Next]_vars => [\A h \in Host : Sends(h, {"invoke", "resume"}) => ~ stale[h]]_vars
    <2> SUFFICES ASSUME IInv, [Next]_vars, ~ UNCHANGED vars, NEW g \in Host, NEW m \in wire', m \notin wire,
                        m.from = g, m.kind \in {"invoke", "resume"}
                 PROVE  ~ stale[g]
      BY DEF Sends
    <2>1. TypeOK
      BY DEF IInv
    <2>2. ASSUME NEW h \in Host, Starts(h) \/ Step(h) PROVE ~ stale[g]
      BY <2>1, <2>2, SendSteps
    <2>3. ASSUME NEW h \in Host, wire' = Orphaned(h) PROVE FALSE
      BY <2>1, <2>3, NobodyIsNoHost DEF Orphaned, TypeOK, Request
    <2>4. ASSUME wire' \subseteq wire PROVE FALSE
      BY <2>4
    <2>5. ASSUME NEW h \in Host, Restore(h) \/ EndTurn(h) PROVE wire' = wire
      BY <2>5 DEF Restore, EndTurn, network
    <2>6. ASSUME NEW h \in Host, Crash(h) \/ RequestTimeout(h) PROVE wire' = Orphaned(h)
      BY <2>6 DEF Crash, RequestTimeout
    <2>7. ASSUME NEW n \in wire, CoreTakes(n) \/ RequestLost(n) PROVE wire' \subseteq wire
      BY <2>7 DEF CoreTakes, RequestLost
    <2>8. ASSUME CoreFinishes PROVE wire' = wire
      BY <2>8 DEF CoreFinishes
    <2> QED
      BY <2>2, <2>3, <2>4, <2>5, <2>6, <2>7, <2>8, Steps DEF Moves, Outside
  <1> QED
    BY <1>1, Invariance, PTL DEF Spec, NothingSentAfterTheEnd
=============================================================================
