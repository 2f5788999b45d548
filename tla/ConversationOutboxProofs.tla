----------------------- MODULE ConversationOutboxProofs -----------------------
(***************************************************************************)
(* The conversation outbox loses no captured event and agrees with the     *)
(* hub's transcript, for any number of hosts, turns, events and crashes.   *)
(*                                                                         *)
(* What a save adds is a fold over the pending events; that it keeps the   *)
(* stored ones and holds all the pending ones is proved by induction over  *)
(* the sets 1..n, on which the fold is defined.                            *)
(***************************************************************************)
EXTENDS ConversationOutbox, WellFoundedInduction, SequenceTheorems, TLAPS

-----------------------------------------------------------------------------
(* The inductive invariant.                                                *)

Entry == [record : Record, pending : Seq(Event), status : {"pending", "synced", "storage_error"},
          queue : Seq(Job), saving : [record : Record, count : Nat] \cup {NoSave}]
Upload == [phase : {"none", "queued", "sending"}, snapshot : Batch, last : Nat]

Types ==
  /\ around \in Surroundings
  /\ store \in Record
  /\ hub \in Seq(Event)
  /\ stray \in SUBSET Batch
  /\ box \in [Host -> Entry]
  /\ sync \in [Host -> Upload]
  /\ todo \in [Host -> Seq(Event)]
  /\ captured \in [Host -> SUBSET Event]
  /\ begun \in SUBSET Turn
  /\ wants \in SUBSET Host
  /\ crashes \in 0..MaxCrashes

\* What a host knows of the record is an earlier state of it, or the present one.
Behind(r) ==
  /\ r.revision <= store.revision
  /\ IsPrefix(r.events, store.events)
  /\ r.revision = store.revision => r = store

RecordInv ==
  /\ Behind(NoRecord)
  /\ store.acknowledged <= Len(store.events)
  /\ \A h \in Host : Behind(box[h].record) /\ box[h].record.acknowledged <= Len(box[h].record.events)

\* Nothing is on its way to the hub that is not on disk first.
HubInv ==
  /\ IsPrefix(hub, store.events)
  /\ store.syncState = "synced" => Len(store.events) <= Len(hub)
  /\ \A batch \in stray : IsPrefix(batch.events, store.events)

\* A save under way extends the record its host knows by what is pending, and
\* says "synced" only of what the hub has acknowledged.
Extends(b) ==
  b.saving # NoSave =>
    /\ b.queue # <<>>
    /\ b.saving.record.revision = b.record.revision + 1
    /\ IsPrefix(b.record.events, b.saving.record.events)
    /\ b.saving.record.acknowledged <= Len(b.saving.record.events)
    /\ b.saving.record.syncState = "synced" => Len(b.saving.record.events) <= Len(hub)
    /\ b.saving.count <= Len(b.pending)
    /\ \A i \in 1..b.saving.count : Contains(b.saving.record.events, b.pending[i])

SaveInv == \A h \in Host : Extends(box[h])

\* The upload of a host is in one place, and what it sent is known to the host.
Uploading == {"snapshot", "ack", "drain", "failure"}

UploadOf(b, s) ==
  /\ IsPrefix(s.snapshot.events, b.record.events)
  /\ s.last <= Len(hub)
  /\ \A i, j \in DOMAIN b.queue : b.queue[i] \in Uploading /\ b.queue[j] \in Uploading => i = j
  /\ \A i \in DOMAIN b.queue : b.queue[i] \in Uploading => s.phase = "queued"
  /\ \A i \in DOMAIN b.queue : b.queue[i] = "ack" => s.last <= Len(s.snapshot.events)

UploadInv == \A h \in Host : UploadOf(box[h], sync[h])

\* Unsaved events are shown, or a job of the queue will still save them.
ShowsUnsaved(b) ==
  /\ b.pending # <<>> /\ b.status # "storage_error" => \E i \in DOMAIN b.queue : b.queue[i] \in Persisting
  /\ b.record # NoRecord /\ b.saving # NoSave /\ Head(b.queue) \in Persisting /\ Len(b.pending) > b.saving.count =>
       \E i \in DOMAIN b.queue : i # 1 /\ b.queue[i] \in Persisting

ShownInv == \A h \in Host : ShowsUnsaved(box[h])

IInv == Types /\ RecordInv /\ HubInv /\ SaveInv /\ UploadInv /\ CapturedIsKept /\ ShownInv
-----------------------------------------------------------------------------
(* Sequences: prefixes, and the fold that extends the stored events.       *)

\* Induction over the natural numbers, for a set of them.
LEMMA Induction ==
  ASSUME NEW S, 0 \in S, \A n \in Nat : n \in S => n + 1 \in S
  PROVE  Nat \subseteq S
  <1> DEFINE T == Nat \ S
  <1> SUFFICES ASSUME T # {} PROVE FALSE
    OBVIOUS
  <1>1. PICK n \in T : \A m \in T : ~ (<<m, n>> \in OpToRel(<, Nat))
    <2>1. T \subseteq Nat
      OBVIOUS
    <2> HIDE DEF T
    <2> QED
      BY <2>1, NatLessThanWellFounded, WFMin
  <1>a. n \in Nat /\ n \notin S
    BY <1>1
  <1>b. n # 0
    BY <1>a
  <1>2. n \in Nat /\ n - 1 \in Nat /\ n - 1 < n
    BY <1>a, <1>b
  <1>3. n - 1 \in S
    BY <1>1, <1>2 DEF OpToRel
  <1>4. (n - 1) + 1 = n
    BY <1>2
  <1> QED
    BY <1>1, <1>2, <1>3, <1>4

\* A prefix, position by position.
LEMMA PrefixIs ==
  ASSUME NEW S, NEW s \in Seq(S), NEW t \in Seq(S)
  PROVE  IsPrefix(s, t) <=> Len(s) <= Len(t) /\ \A i \in 1..Len(s) : s[i] = t[i]
  <1>1. ASSUME Len(s) <= Len(t)
        PROVE  /\ \A i \in 1..Len(s) : SubSeq(s, 1, Len(s))[i] = s[i] /\ SubSeq(t, 1, Len(s))[i] = t[i]
               /\ Len(SubSeq(s, 1, Len(s))) = Len(s) /\ Len(SubSeq(t, 1, Len(s))) = Len(s)
               /\ SubSeq(s, 1, Len(s)) \in Seq(S) /\ SubSeq(t, 1, Len(s)) \in Seq(S)
    BY <1>1
  <1>2. ASSUME Len(s) <= Len(t), \A i \in 1..Len(s) : s[i] = t[i]
        PROVE  SubSeq(s, 1, Len(s)) = SubSeq(t, 1, Len(s))
    BY <1>1, <1>2, SeqEqual
  <1> QED
    BY <1>1, <1>2 DEF IsPrefix

LEMMA PrefixOfPrefix ==
  ASSUME NEW S, NEW s \in Seq(S), NEW t \in Seq(S), NEW u \in Seq(S), IsPrefix(s, t), IsPrefix(t, u)
  PROVE  IsPrefix(s, u)
  <1>1. Len(s) \in Nat /\ Len(t) \in Nat /\ Len(u) \in Nat
    OBVIOUS
  <1>2. Len(s) <= Len(t) /\ Len(t) <= Len(u)
        /\ (\A i \in 1..Len(s) : s[i] = t[i]) /\ (\A i \in 1..Len(t) : t[i] = u[i])
    BY PrefixIs
  <1> QED
    BY <1>1, <1>2, PrefixIs

LEMMA PrefixOfItself ==
  ASSUME NEW S, NEW s \in Seq(S)
  PROVE  IsPrefix(s, s) /\ IsPrefix(<<>>, s)
  <1>1. <<>> \in Seq(S) /\ Len(<<>>) = 0 /\ Len(s) \in Nat
    OBVIOUS
  <1>2. Len(s) <= Len(s) /\ Len(<<>>) <= Len(s) /\ \A i \in 1..Len(<<>>) : FALSE
    BY <1>1
  <1> QED
    BY <1>1, <1>2, PrefixIs

\* What a prefix contains, the whole contains.
LEMMA PrefixContains ==
  ASSUME NEW S, NEW s \in Seq(S), NEW t \in Seq(S), IsPrefix(s, t), NEW e, Contains(s, e)
  PROVE  Contains(t, e)
  BY PrefixIs DEF Contains

\* WithEvent keeps what is there and adds what is not.
LEMMA WithEventIs ==
  ASSUME NEW s \in Seq(Event), NEW e \in Event
  PROVE  WithEvent(s, e) \in Seq(Event) /\ IsPrefix(s, WithEvent(s, e)) /\ Contains(WithEvent(s, e), e)
  <1>1. CASE Contains(s, e)
    BY <1>1, PrefixOfItself DEF WithEvent
  <1>2. CASE ~ Contains(s, e)
    <2>1. WithEvent(s, e) = Append(s, e) /\ Append(s, e) \in Seq(Event)
      BY <1>2 DEF WithEvent
    <2>2. Len(Append(s, e)) = Len(s) + 1 /\ Append(s, e)[Len(s) + 1] = e /\ Len(s) \in Nat
          /\ \A i \in 1..Len(s) : Append(s, e)[i] = s[i]
      OBVIOUS
    <2>3. IsPrefix(s, Append(s, e))
      <3> DEFINE t == Append(s, e)
      <3>1. t \in Seq(Event) /\ Len(s) <= Len(t) /\ \A i \in 1..Len(s) : s[i] = t[i]
        BY <2>1, <2>2
      <3> HIDE DEF t
      <3>2. IsPrefix(s, t)
        BY <3>1, PrefixIs
      <3> QED
        BY <3>2 DEF t
    <2>4. Len(s) + 1 \in 1..Len(Append(s, e))
      BY <2>2
    <2>5. Contains(Append(s, e), e)
      BY <2>2, <2>4 DEF Contains
    <2> QED
      BY <2>1, <2>3, <2>5
  <1> QED
    BY <1>1, <1>2

LEMMA MaxIs ==
  ASSUME NEW k \in Nat, NEW s \in SUBSET (1..(k + 1)), k + 1 \in s
  PROVE  Max(s) = k + 1
  <1>1. \A x, y \in s : x >= y /\ y >= x => x = y
    OBVIOUS
  <1>2. \A y \in s : k + 1 >= y
    OBVIOUS
  <1>3. (CHOOSE x \in s : \A y \in s : x >= y) \in s
        /\ \A y \in s : (CHOOSE x \in s : \A z \in s : x >= z) >= y
    BY <1>2
  <1> QED
    BY <1>1, <1>2, <1>3 DEF Max

FoldStep(base, more, iter, s) == IF s = {} THEN base ELSE WithEvent(iter[s \ {Max(s)}], more[Max(s)])

\* The recursion behind the fold has a solution.
LEMMA FoldExists ==
  ASSUME NEW base, NEW more
  PROVE  \A n \in Nat : \E iter : iter = [s \in SUBSET (1..n) |-> FoldStep(base, more, iter, s)]
  <1> DEFINE Solves(g, n) == g = [s \in SUBSET (1..n) |-> FoldStep(base, more, g, s)]
             Good == {n \in Nat : \E iter : Solves(iter, n)}
  <1>1. 0 \in Good
    <2>1. 1..0 = {} /\ SUBSET (1..0) = {{}}
      OBVIOUS
    <2>2. Solves([s \in SUBSET (1..0) |-> base], 0)
      BY <2>1 DEF FoldStep
    <2> QED
      BY <2>2
  <1>2. ASSUME NEW n \in Nat, n \in Good PROVE n + 1 \in Good
    <2>1. PICK g : Solves(g, n)
      BY <1>2
    <2> DEFINE h == [s \in SUBSET (1..(n + 1)) |->
                       IF n + 1 \in s THEN WithEvent(g[s \ {n + 1}], more[n + 1]) ELSE g[s]]
    <2>2. ASSUME NEW s \in SUBSET (1..(n + 1)) PROVE h[s] = FoldStep(base, more, h, s)
      <3>1. CASE n + 1 \in s
        <4>1. Max(s) = n + 1 /\ s # {}
          BY <2>2, <3>1, MaxIs
        <4>2. s \ {n + 1} \in SUBSET (1..(n + 1)) /\ n + 1 \notin s \ {n + 1}
          BY <2>2
        <4>3. h[s \ {n + 1}] = g[s \ {n + 1}]
          BY <4>2
        <4> QED
          BY <2>2, <3>1, <4>1, <4>3 DEF FoldStep
      <3>2. CASE n + 1 \notin s
        <4>1. s \in SUBSET (1..n)
          BY <2>2, <3>2
        <4>2. h[s] = g[s] /\ g[s] = FoldStep(base, more, g, s)
          BY <2>1, <2>2, <3>2, <4>1
        <4>3. h[s \ {Max(s)}] = g[s \ {Max(s)}]
          <5>1. s \ {Max(s)} \in SUBSET (1..(n + 1)) /\ n + 1 \notin s \ {Max(s)}
            BY <2>2, <3>2
          <5> QED
            BY <5>1
        <4> QED
          BY <4>2, <4>3 DEF FoldStep
      <3> QED
        BY <3>1, <3>2
    <2>3. Solves(h, n + 1)
      <3>1. \A s \in SUBSET (1..(n + 1)) : h[s] = FoldStep(base, more, h, s)
        BY <2>2
      <3>2. h = [s \in SUBSET (1..(n + 1)) |-> h[s]]
        OBVIOUS
      <3> HIDE DEF h
      <3> QED
        BY <3>1, <3>2
    <2> HIDE DEF h, Solves
    <2> QED
      BY <2>3
  <1> HIDE DEF Solves
  <1>3. Nat \subseteq Good
    BY <1>1, <1>2, Induction
  <1>4. \A n \in Nat : \E iter : Solves(iter, n)
    BY <1>3
  <1> QED
    BY <1>4 DEF Solves

\* The fold extends the events it starts from, and holds every event it adds.
LEMMA ExtendedIs ==
  ASSUME NEW base \in Seq(Event), NEW more \in Seq(Event)
  PROVE  LET all == FoldLeft(WithEvent, base, more) IN
           /\ all \in Seq(Event) /\ IsPrefix(base, all)
           /\ \A i \in 1..Len(more) : Contains(all, more[i])
  <1> DEFINE n == Len(more)
             iter == CHOOSE g : g = [s \in SUBSET (1..n) |-> FoldStep(base, more, g, s)]
             Good == {k \in Nat : k <= n =>
                        /\ iter[1..k] \in Seq(Event) /\ IsPrefix(base, iter[1..k])
                        /\ \A i \in 1..k : Contains(iter[1..k], more[i])}
  <1>1. n \in Nat /\ DOMAIN more = 1..n
    OBVIOUS
  <1>2. FoldLeft(WithEvent, base, more) = iter[1..n]
    BY <1>1 DEF FoldLeft, MapThenFoldSet, FoldStep
  <1>3. iter = [s \in SUBSET (1..n) |-> FoldStep(base, more, iter, s)]
    BY <1>1, FoldExists
  <1> HIDE DEF iter
  <1>4. 0 \in Good
    <2>1. 1..0 = {} /\ {} \in SUBSET (1..n)
      OBVIOUS
    <2>2. iter[1..0] = base
      BY <1>3, <2>1 DEF FoldStep
    <2> QED
      BY <2>2, PrefixOfItself
  <1>5. ASSUME NEW k \in Nat, k \in Good PROVE k + 1 \in Good
    <2> SUFFICES ASSUME k + 1 <= n
                 PROVE  /\ iter[1..(k + 1)] \in Seq(Event) /\ IsPrefix(base, iter[1..(k + 1)])
                        /\ \A i \in 1..(k + 1) : Contains(iter[1..(k + 1)], more[i])
      BY <1>5
    <2>1. /\ 1..(k + 1) \in SUBSET (1..n) /\ 1..(k + 1) # {}
          /\ (1..(k + 1)) \ {k + 1} = 1..k /\ more[k + 1] \in Event
      BY <1>1
    <2>2. Max(1..(k + 1)) = k + 1
      BY MaxIs
    <2>3. iter[1..(k + 1)] = WithEvent(iter[1..k], more[k + 1])
      BY <1>3, <2>1, <2>2 DEF FoldStep
    <2>4. /\ iter[1..k] \in Seq(Event) /\ IsPrefix(base, iter[1..k])
          /\ \A i \in 1..k : Contains(iter[1..k], more[i])
      BY <1>1, <1>5
    <2>5. /\ iter[1..(k + 1)] \in Seq(Event) /\ IsPrefix(iter[1..k], iter[1..(k + 1)])
          /\ Contains(iter[1..(k + 1)], more[k + 1])
      BY <2>1, <2>3, <2>4, WithEventIs
    <2>6. IsPrefix(base, iter[1..(k + 1)])
      BY <2>4, <2>5, PrefixOfPrefix
    <2>7. \A i \in 1..k : Contains(iter[1..(k + 1)], more[i])
      BY <2>4, <2>5, PrefixContains
    <2>8. \A i \in 1..(k + 1) : i \in 1..k \/ i = k + 1
      OBVIOUS
    <2> QED
      BY <2>5, <2>6, <2>7, <2>8
  <1>6. n \in Good
    <2> HIDE DEF Good, n
    <2> QED
      BY <1>1, <1>4, <1>5, Induction
  <1> QED
    BY <1>2, <1>6

USE DEF Uploading

-----------------------------------------------------------------------------
(* What is true of the pieces.                                             *)

LEMMA NoRecordIs == NoRecord \in Record /\ NewRecord \in Record /\ NewRecord.revision = 1
                    /\ NewRecord.events = <<>> /\ NewRecord.acknowledged = 0 /\ NewRecord.syncState = "pending"
                    /\ NoRecord.revision = 0 /\ NoRecord.events = <<>> /\ NoRecord.acknowledged = 0
  <1>1. NewRecord = [revision |-> 1, events |-> <<>>, acknowledged |-> 0, syncState |-> "pending"]
    BY DEF NoRecord, NewRecord
  <1>2. <<>> \in Seq(Event)
    OBVIOUS
  <1> QED
    BY <1>1, <1>2 DEF NoRecord, Record

LEMMA ClosedIs == Closed \in Entry /\ Closed.record = NoRecord /\ Closed.pending = <<>> /\ Closed.queue = <<>>
                  /\ Closed.saving = NoSave
  BY NoRecordIs DEF Closed, Entry

LEMMA NotSyncingIs == NotSyncing \in Upload /\ NotSyncing.snapshot.events = <<>> /\ NotSyncing.last = 0
                      /\ NotSyncing.phase = "none"
  BY NoRecordIs DEF NotSyncing, Upload, Batch, BatchOf

LEMMA InitInv == Init => IInv
  <1> SUFFICES ASSUME Init PROVE IInv
    OBVIOUS
  <1>0. store = NoRecord /\ hub = <<>> /\ stray = {} /\ box = [h \in Host |-> Closed] /\ sync = [h \in Host |-> NotSyncing]
        /\ captured = [h \in Host |-> {}]
    BY DEF Init
  <1>1. Types
    <2>1. crashes \in 0..MaxCrashes
      BY CrashesAreBounded DEF Init, MaxCrashes
    <2>2. todo \in [Host -> Seq(Event)] /\ captured \in [Host -> SUBSET Event]
      BY DEF Init
    <2> QED
      BY <1>0, <2>1, <2>2, NoRecordIs, ClosedIs, NotSyncingIs DEF Init, Types
  <1>2. Behind(NoRecord)
    BY <1>0, NoRecordIs, PrefixOfItself DEF Behind, Record
  <1>3. <<>> \in Seq(Event) /\ Len(<<>>) = 0 /\ DOMAIN <<>> = {}
    OBVIOUS
  <1>4. IsPrefix(<<>>, <<>>)
    BY <1>3, PrefixOfItself
  <1>5. RecordInv
    BY <1>0, <1>2, <1>3, NoRecordIs, ClosedIs DEF RecordInv
  <1>6. HubInv
    BY <1>0, <1>3, <1>4, NoRecordIs DEF HubInv
  <1>7. SaveInv
    BY <1>0, ClosedIs DEF SaveInv, Extends
  <1>8. UploadInv
    BY <1>0, <1>3, <1>4, ClosedIs, NotSyncingIs, NoRecordIs DEF UploadInv, UploadOf
  <1>9. CapturedIsKept /\ ShownInv
    BY <1>0, ClosedIs DEF CapturedIsKept, ShownInv, ShowsUnsaved
  <1> QED
    BY <1>1, <1>5, <1>6, <1>7, <1>8, <1>9 DEF IInv

\* A step of one host, which may replace the durable record by the next one
\* and add to the hub's transcript.
LEMMA Local ==
  ASSUME IInv, Types', NEW h \in Host,
         \A g \in Host : g # h => box'[g] = box[g] /\ sync'[g] = sync[g] /\ captured'[g] = captured[g],
         store' = store \/ store'.revision = store.revision + 1,
         IsPrefix(store.events, store'.events), store'.acknowledged <= Len(store'.events),
         Len(hub) <= Len(hub'), HubInv',
         Behind(box[h].record)', box'[h].record.acknowledged <= Len(box'[h].record.events),
         Extends(box[h])', UploadOf(box[h], sync[h])', ShowsUnsaved(box[h])',
         \A e \in captured'[h] : Contains(store'.events, e) \/ Contains(box'[h].pending, e)
  PROVE  IInv'
  <1>0. Types /\ RecordInv /\ HubInv /\ SaveInv /\ UploadInv /\ CapturedIsKept /\ ShownInv
    BY DEF IInv
  <1>2. ASSUME NEW r \in Record, Behind(r) PROVE Behind(r)'
    <2>1. store \in Record /\ store.events \in Seq(Event) /\ store'.events \in Seq(Event) /\ r.events \in Seq(Event)
      BY <1>0 DEF Types, Record
    <2>2. IsPrefix(r.events, store'.events)
      BY <1>2, <2>1, PrefixOfPrefix DEF Behind
    <2>3. r.revision <= store'.revision /\ (r.revision = store'.revision => r = store')
      <3>1. r.revision \in Nat /\ store.revision \in Nat
        BY <2>1 DEF Record
      <3> QED
        BY <1>2, <3>1 DEF Behind
    <2> QED
      BY <2>2, <2>3 DEF Behind
  <1>3. \A g \in Host : box[g] \in Entry /\ sync[g] \in Upload /\ box[g].record \in Record
    BY <1>0 DEF Types, Entry
  <1>4. RecordInv'
    <2>1. Behind(NoRecord)'
      BY <1>0, <1>2, NoRecordIs DEF RecordInv
    <2>2. ASSUME NEW g \in Host PROVE Behind(box[g].record)' /\ box'[g].record.acknowledged <= Len(box'[g].record.events)
      <3>1. CASE g = h
        BY <3>1
      <3>2. CASE g # h
        <4>1. Behind(box[g].record) /\ box'[g] = box[g]
          BY <1>0, <3>2 DEF RecordInv
        <4>2. PICK r \in Record : r = box[g].record
          BY <1>3
        <4>3. Behind(r)'
          BY <1>2, <4>1, <4>2
        <4> QED
          BY <1>0, <4>1, <4>2, <4>3 DEF RecordInv, Behind
      <3> QED
        BY <3>1, <3>2
    <2> QED
      BY <2>1, <2>2 DEF RecordInv
  <1>5. SaveInv'
    <2> SUFFICES ASSUME NEW g \in Host PROVE Extends(box[g])'
      BY DEF SaveInv
    <2>1. CASE g = h
      BY <2>1
    <2>2. CASE g # h /\ box[g].saving = NoSave
      BY <2>2 DEF Extends
    <2>3. CASE g # h /\ box[g].saving # NoSave
      <3>0. box[g].saving \in [record : Record, count : Nat]
        BY <1>3, <2>3 DEF Entry
      <3>a. box[g].saving.record \in Record
        BY <3>0
      <3>b. box[g].saving.record.events \in Seq(Event)
        BY <3>a DEF Record
      <3>c. hub \in Seq(Event) /\ hub' \in Seq(Event)
        BY <1>0 DEF Types
      <3>1. Len(box[g].saving.record.events) \in Nat /\ Len(hub) \in Nat /\ Len(hub') \in Nat
        BY <3>b, <3>c
      <3> QED
        BY <1>0, <2>3, <3>1 DEF SaveInv, Extends
    <2> QED
      BY <2>1, <2>2, <2>3
  <1>6. UploadInv'
    <2> SUFFICES ASSUME NEW g \in Host PROVE UploadOf(box[g], sync[g])'
      BY DEF UploadInv
    <2>1. CASE g = h
      BY <2>1
    <2>2. CASE g # h
      <3>1. sync[g].last \in Nat /\ Len(hub) \in Nat /\ Len(hub') \in Nat
        BY <1>0, <1>3 DEF Upload, Types
      <3>2. UploadOf(box[g], sync[g]) /\ box'[g] = box[g] /\ sync'[g] = sync[g]
        BY <1>0, <2>2 DEF UploadInv
      <3> QED
        BY <3>1, <3>2 DEF UploadOf
    <2> QED
      BY <2>1, <2>2
  <1>7. CapturedIsKept'
    <2> SUFFICES ASSUME NEW g \in Host, NEW e \in Event, e \in captured'[g]
                 PROVE  Contains(store'.events, e) \/ Contains(box'[g].pending, e)
      BY DEF CapturedIsKept
    <2>1. CASE g = h
      BY <2>1
    <2>2. CASE g # h
      <3>1. Contains(store.events, e) \/ Contains(box[g].pending, e)
        BY <1>0, <2>2 DEF CapturedIsKept
      <3>2. Contains(store.events, e) => Contains(store'.events, e)
        BY <1>0, PrefixContains DEF Types, Record
      <3> QED
        BY <2>2, <3>1, <3>2
    <2> QED
      BY <2>1, <2>2
  <1>8. ShownInv'
    <2> SUFFICES ASSUME NEW g \in Host PROVE ShowsUnsaved(box[g])'
      BY DEF ShownInv
    <2>1. CASE g = h
      BY <2>1
    <2>2. CASE g # h
      BY <1>0, <2>2 DEF ShownInv, ShowsUnsaved
    <2> QED
      BY <2>1, <2>2
  <1> QED
    BY <1>4, <1>5, <1>6, <1>7, <1>8 DEF IInv

\* The queue without its head, with what follows an upload's job behind it.
LEMMA TailThen ==
  ASSUME NEW q \in Seq(Job), q # <<>>, NEW f \in Seq(Job), Len(f) \in 0..1
  PROVE  LET r == Tail(q) \o f IN
           /\ r \in Seq(Job) /\ Len(r) = Len(q) - 1 + Len(f)
           /\ \A i \in DOMAIN q : i # 1 => i - 1 \in DOMAIN r /\ r[i - 1] = q[i]
           /\ \A i \in DOMAIN r : \/ i + 1 \in DOMAIN q /\ r[i] = q[i + 1]
                                  \/ i = Len(q) /\ Len(f) = 1 /\ r[i] = f[1]
  <1>1. /\ Tail(q) \in Seq(Job) /\ Len(q) \in Nat /\ Len(q) > 0 /\ Len(Tail(q)) = Len(q) - 1
        /\ \A i \in 1..(Len(q) - 1) : Tail(q)[i] = q[i + 1]
        /\ DOMAIN q = 1..Len(q)
    OBVIOUS
  <1> DEFINE t == Tail(q)
             r == t \o f
  <1>2. t \in Seq(Job) /\ Len(t) = Len(q) - 1 /\ \A i \in 1..(Len(q) - 1) : t[i] = q[i + 1]
    BY <1>1
  <1> HIDE DEF t
  <1>3. /\ r \in Seq(Job) /\ Len(r) = Len(t) + Len(f)
        /\ \A i \in 1..(Len(t) + Len(f)) : r[i] = IF i <= Len(t) THEN t[i] ELSE f[i - Len(t)]
    BY <1>2, ConcatProperties
  <1>4. DOMAIN r = 1..Len(r)
    BY <1>3
  <1> HIDE DEF r
  <1>5. \A i \in DOMAIN q : i # 1 => i - 1 \in DOMAIN r /\ r[i - 1] = q[i]
    <2> SUFFICES ASSUME NEW i \in DOMAIN q, i # 1 PROVE i - 1 \in DOMAIN r /\ r[i - 1] = q[i]
      OBVIOUS
    <2>1. i - 1 \in 1..(Len(q) - 1) /\ (i - 1) + 1 = i
      BY <1>1
    <2>2. r[i - 1] = t[i - 1] /\ i - 1 \in 1..Len(r)
      BY <1>1, <1>2, <1>3, <2>1
    <2>3. t[i - 1] = q[i]
      BY <1>2, <2>1
    <2> QED
      BY <1>4, <2>2, <2>3
  <1>6. \A i \in DOMAIN r : \/ i + 1 \in DOMAIN q /\ r[i] = q[i + 1]
                            \/ i = Len(q) /\ Len(f) = 1 /\ r[i] = f[1]
    <2> SUFFICES ASSUME NEW i \in DOMAIN r
                 PROVE  \/ i + 1 \in DOMAIN q /\ r[i] = q[i + 1]
                        \/ i = Len(q) /\ Len(f) = 1 /\ r[i] = f[1]
      OBVIOUS
    <2>1. i \in 1..(Len(t) + Len(f))
      BY <1>3, <1>4
    <2>2. CASE i <= Len(t)
      <3>1. i \in 1..(Len(q) - 1) /\ i + 1 \in DOMAIN q
        BY <1>1, <1>2, <2>1, <2>2
      <3>2. r[i] = t[i] /\ t[i] = q[i + 1]
        BY <1>2, <1>3, <2>1, <2>2, <3>1
      <3> QED
        BY <3>1, <3>2
    <2>3. CASE ~ (i <= Len(t))
      <3>1. i = Len(q) /\ Len(f) = 1 /\ i - Len(t) = 1
        <4>1. Len(q) \in Nat /\ Len(q) > 0 /\ Len(t) = Len(q) - 1
          BY <1>1, <1>2
        <4>2. ASSUME NEW m \in Nat, NEW n \in 0..1, NEW k \in 1..(m + n), ~ (k <= m)
              PROVE  k = m + 1 /\ n = 1
          BY <4>2
        <4>3. Len(t) \in Nat /\ Len(f) \in 0..1 /\ i \in 1..(Len(t) + Len(f)) /\ ~ (i <= Len(t))
          BY <4>1, <2>1, <2>3
        <4>4. i = Len(t) + 1 /\ Len(f) = 1
          BY <4>2, <4>3
        <4> QED
          BY <4>1, <4>4
      <3> QED
        BY <1>3, <2>1, <2>3, <3>1
    <2> QED
      BY <2>2, <2>3
  <1> QED
    BY <1>1, <1>2, <1>3, <1>5, <1>6 DEF r, t

\* The end of a job: everything but the queue and the upload is as it left it.
LEMMA OverIs ==
  ASSUME Types, NEW h \in Host, NEW b \in Entry, b.queue = box[h].queue, b.queue # <<>>,
         UploadOf(b, sync[h]), NEW ok \in BOOLEAN, Over(h, b, ok), hub' = hub
  PROVE  /\ box' \in [Host -> Entry] /\ sync' \in [Host -> Upload] /\ wants' \in SUBSET Host
         /\ \A g \in Host : g # h => box'[g] = box[g] /\ sync'[g] = sync[g]
         /\ box'[h].record = b.record /\ box'[h].pending = b.pending /\ box'[h].status = b.status
         /\ box'[h].saving = NoSave
         /\ UploadOf(box[h], sync[h])'
         /\ \A i \in DOMAIN b.queue : i # 1 => \E j \in DOMAIN box'[h].queue : box'[h].queue[j] = b.queue[i]
  <1> DEFINE q == b.queue
             job == Head(q)
             again == job = "drain" /\ ok /\ MoreToSend(h, b.record)
             f == Follow(job, ok, again)
             r == Tail(q) \o f
             s == sync'[h]
  <1>1. q \in Seq(Job) /\ q # <<>> /\ job \in Job /\ job = q[1] /\ 1 \in DOMAIN q
    BY DEF Entry
  <1>2. f \in Seq(Job) /\ Len(f) \in 0..1 /\ (Len(f) = 1 => f[1] \in {"snapshot", "drain", "failure"} /\ job \in {"ack", "drain"})
    <2>1. f \in {<<>>, <<"snapshot">>, <<"drain">>, <<"failure">>} /\ (f # <<>> => job \in {"ack", "drain"})
      BY DEF Follow
    <2> HIDE DEF f
    <2>2. CASE f = <<>>
      BY <2>2
    <2>3. CASE f # <<>>
      <3>1. PICK x \in {"snapshot", "drain", "failure"} : f = <<x>>
        BY <2>1, <2>3
      <3>2. x \in Job
        BY DEF Job
      <3>3. f \in Seq(Job) /\ Len(f) = 1 /\ f[1] = x
        BY <3>1, <3>2
      <3> QED
        BY <2>1, <2>3, <3>3
    <2> QED
      BY <2>2, <2>3
  <1>3. box' = [box EXCEPT ![h] = [b EXCEPT !.queue = r, !.saving = NoSave]]
    BY DEF Over
  <1>4. sync' = [sync EXCEPT ![h] =
          IF job = "snapshot" /\ ok
            THEN [phase |-> "sending", snapshot |-> BatchOf(b.record), last |-> 0]
          ELSE IF job \in {"snapshot", "failure"} \/ (job = "drain" /\ ok /\ ~ again)
            THEN NotSyncing
          ELSE @]
    BY DEF Over
  <1>5. wants' \in SUBSET Host
    BY DEF Over, Types
  <1> HIDE DEF f
  <1>6. /\ r \in Seq(Job) /\ Len(r) = Len(q) - 1 + Len(f)
        /\ \A i \in DOMAIN q : i # 1 => i - 1 \in DOMAIN r /\ r[i - 1] = q[i]
        /\ \A i \in DOMAIN r : \/ i + 1 \in DOMAIN q /\ r[i] = q[i + 1]
                               \/ i = Len(q) /\ Len(f) = 1 /\ r[i] = f[1]
    BY <1>1, <1>2, TailThen
  <1> HIDE DEF r, again
  <1>7. [b EXCEPT !.queue = r, !.saving = NoSave] \in Entry
    BY <1>6 DEF Entry
  <1>8. box' \in [Host -> Entry]
    BY <1>3, <1>7 DEF Types
  <1>9. /\ \A g \in Host : g # h => box'[g] = box[g]
        /\ box'[h].queue = r /\ box'[h].record = b.record /\ box'[h].pending = b.pending /\ box'[h].status = b.status
        /\ box'[h].saving = NoSave
    <2>1. \A g \in Host : box'[g] = IF g = h THEN [b EXCEPT !.queue = r, !.saving = NoSave] ELSE box[g]
      BY <1>3 DEF Types
    <2>2. b = [record |-> b.record, pending |-> b.pending, status |-> b.status, queue |-> b.queue, saving |-> b.saving]
      BY DEF Entry
    <2> QED
      BY <2>1, <2>2
  <1>10. b.record \in Record /\ b.record.events \in Seq(Event) /\ BatchOf(b.record) \in Batch
         /\ BatchOf(b.record).events = b.record.events
    BY DEF Entry, Record, Batch, BatchOf
  <1> HIDE DEF job
  <1>11. \/ s = sync[h] /\ (Len(f) = 1 => job \in {"ack", "drain"}) /\ (job \in Uploading => Len(f) = 1)
         \/ /\ s \in {NotSyncing, [phase |-> "sending", snapshot |-> BatchOf(b.record), last |-> 0]}
            /\ Len(f) = 0 /\ job \in Uploading
    <2>1. s = IF job = "snapshot" /\ ok
            THEN [phase |-> "sending", snapshot |-> BatchOf(b.record), last |-> 0]
          ELSE IF job \in {"snapshot", "failure"} \/ (job = "drain" /\ ok /\ ~ again)
            THEN NotSyncing
          ELSE sync[h]
      BY <1>4 DEF Types
    <2>2. CASE job = "snapshot"
      <3>1. f = <<>>
        BY <2>2 DEF f, Follow, again
      <3> QED
        BY <2>1, <2>2, <3>1
    <2>3. CASE job = "ack"
      <3>1. f \in {<<"drain">>, <<"failure">>}
        BY <2>3 DEF f, Follow, again
      <3>2. Len(f) = 1
        BY <3>1
      <3> QED
        BY <2>1, <2>3, <3>2
    <2>4. CASE job = "drain" /\ ok /\ ~ again
      <3>1. f = <<>>
        BY <2>4 DEF f, Follow
      <3> QED
        BY <2>1, <2>4, <3>1
    <2>5. CASE job = "drain" /\ ~ (ok /\ ~ again)
      <3>1. f \in {<<"snapshot">>, <<"failure">>}
        BY <2>5 DEF f, Follow, again
      <3>2. Len(f) = 1
        BY <3>1
      <3> QED
        BY <2>1, <2>5, <3>2
    <2>6. CASE job = "failure"
      <3>1. f = <<>>
        BY <2>6 DEF f, Follow, again
      <3> QED
        BY <2>1, <2>6, <3>1
    <2>7. CASE job \notin Uploading
      <3>1. f = <<>>
        BY <2>7 DEF f, Follow, again
      <3> QED
        BY <2>1, <2>7, <3>1
    <2> QED
      BY <2>2, <2>3, <2>4, <2>5, <2>6, <2>7
  <1>12. sync' \in [Host -> Upload] /\ \A g \in Host : g # h => sync'[g] = sync[g]
    <2>1. [phase |-> "sending", snapshot |-> BatchOf(b.record), last |-> 0] \in Upload
      BY <1>10 DEF Upload
    <2>2. s \in Upload
      BY <1>11, <2>1, NotSyncingIs DEF Types
    <2> QED
      BY <1>4, <2>2 DEF Types
  <1>13. /\ \A i, j \in DOMAIN r : r[i] \in Uploading /\ r[j] \in Uploading => i = j
         /\ \A i \in DOMAIN r : r[i] \in Uploading => s = sync[h]
         /\ \A i \in DOMAIN r : r[i] \in Uploading => sync[h].phase = "queued"
         /\ \A i \in DOMAIN r : r[i] = "ack" => sync[h].last <= Len(sync[h].snapshot.events)
    <2>0. /\ \A i, j \in DOMAIN q : q[i] \in Uploading /\ q[j] \in Uploading => i = j
          /\ \A i \in DOMAIN q : q[i] \in Uploading => sync[h].phase = "queued"
          /\ \A i \in DOMAIN q : q[i] = "ack" => sync[h].last <= Len(sync[h].snapshot.events)
      BY DEF UploadOf
    <2>1. \A i \in DOMAIN r : i + 1 # 1 /\ i \in Nat
      BY <1>6
    <2>2. CASE job \in Uploading
      <3>1. \A i \in DOMAIN r : r[i] \in Uploading => i = Len(q) /\ Len(f) = 1 /\ r[i] = f[1]
        BY <1>1, <1>6, <2>0, <2>1, <2>2 DEF job
      <3> QED
        BY <1>1, <1>2, <1>11, <2>0, <2>2, <3>1 DEF job
    <2>3. CASE job \notin Uploading
      <3>1. Len(f) = 0 /\ s = sync[h]
        BY <1>2, <1>11, <2>3
      <3>2. \A i \in DOMAIN r : i + 1 \in DOMAIN q /\ r[i] = q[i + 1]
        BY <1>6, <3>1
      <3>3. \A i, j \in DOMAIN r : i + 1 = j + 1 => i = j
        BY <2>1
      <3> QED
        BY <2>0, <3>1, <3>2, <3>3
    <2> QED
      BY <2>2, <2>3
  <1>14. IsPrefix(s.snapshot.events, b.record.events) /\ s.last <= Len(hub)
    <2>1. IsPrefix(<<>>, b.record.events) /\ IsPrefix(b.record.events, b.record.events) /\ Len(hub) >= 0
      BY <1>10, PrefixOfItself DEF Types
    <2>2. CASE s = sync[h]
      BY <2>2 DEF UploadOf
    <2>3. CASE s = NotSyncing
      BY <2>1, <2>3, NotSyncingIs
    <2>4. CASE s = [phase |-> "sending", snapshot |-> BatchOf(b.record), last |-> 0]
      BY <1>10, <2>1, <2>4
    <2> QED
      BY <1>11, <2>2, <2>3, <2>4
  <1>15. UploadOf(box[h], sync[h])'
    BY <1>9, <1>13, <1>14 DEF UploadOf
  <1>16. \A i \in DOMAIN b.queue : i # 1 => \E j \in DOMAIN box'[h].queue : box'[h].queue[j] = b.queue[i]
    BY <1>6, <1>9
  <1> QED
    BY <1>5, <1>8, <1>9, <1>12, <1>15, <1>16

LEMMA AppendIs ==
  ASSUME NEW S, NEW q \in Seq(S), NEW x \in S
  PROVE  LET r == Append(q, x) IN
           /\ r \in Seq(S) /\ r # <<>> /\ Len(r) = Len(q) + 1
           /\ \A i \in DOMAIN q : i \in DOMAIN r /\ r[i] = q[i]
           /\ \A i \in DOMAIN r : i \in DOMAIN q \/ i = Len(q) + 1
           /\ Len(q) + 1 \in DOMAIN r /\ Len(q) + 1 \notin DOMAIN q /\ r[Len(q) + 1] = x
           /\ q # <<>> => Head(r) = Head(q) /\ Len(q) + 1 # 1
  OBVIOUS

\* What a host knows stays behind when the durable record moves on.
LEMMA StillBehind ==
  ASSUME Types, NEW r \in Record, Behind(r), store' \in Record,
         store' = store \/ store'.revision = store.revision + 1,
         IsPrefix(store.events, store'.events)
  PROVE  r.revision <= store'.revision /\ IsPrefix(r.events, store'.events) /\ (r.revision = store'.revision => r = store')
  <1>1. store \in Record /\ store.events \in Seq(Event) /\ store'.events \in Seq(Event) /\ r.events \in Seq(Event)
    BY DEF Types, Record
  <1>2. IsPrefix(r.events, store'.events)
    BY <1>1, PrefixOfPrefix DEF Behind
  <1>3. r.revision \in Nat /\ store.revision \in Nat
    BY <1>1 DEF Record
  <1> QED
    BY <1>2, <1>3 DEF Behind

\* A step of one host beside the durable record and the hub.
LEMMA Quiet ==
  ASSUME IInv, Types', NEW h \in Host,
         \A g \in Host : g # h => box'[g] = box[g] /\ sync'[g] = sync[g] /\ captured'[g] = captured[g],
         store' = store, hub' = hub, stray' = stray,
         box'[h].record \in {box[h].record, store},
         Extends(box[h])', UploadOf(box[h], sync[h])', ShowsUnsaved(box[h])',
         \A e \in captured'[h] : Contains(store.events, e) \/ Contains(box'[h].pending, e)
  PROVE  IInv'
  <1>1. Types /\ RecordInv /\ HubInv
    BY DEF IInv
  <1>2. store \in Record /\ store.events \in Seq(Event) /\ Len(hub) <= Len(hub)
    BY <1>1 DEF Types, Record
  <1>3. IsPrefix(store.events, store.events)
    BY <1>2, PrefixOfItself
  <1>4. HubInv'
    BY <1>1 DEF HubInv
  <1>5. store'.acknowledged <= Len(store'.events)
    BY <1>1 DEF RecordInv
  <1>6. Behind(box[h].record)' /\ box'[h].record.acknowledged <= Len(box'[h].record.events)
    <2>1. CASE box'[h].record = box[h].record
      BY <1>1, <2>1 DEF RecordInv, Behind
    <2>2. CASE box'[h].record = store
      <3>1. store.revision <= store.revision
        BY <1>2 DEF Record
      <3> QED
        BY <1>1, <1>3, <2>2, <3>1 DEF RecordInv, Behind
    <2> QED
      BY <2>1, <2>2
  <1> QED
    BY <1>2, <1>3, <1>4, <1>5, <1>6, Local

\* A job that is over, while the durable record may have moved on.
LEMMA OverLocal ==
  ASSUME IInv, NEW h \in Host, NEW b \in Entry, b.queue = box[h].queue, b.queue # <<>>,
         UploadOf(b, sync[h]), NEW ok \in BOOLEAN, Over(h, b, ok),
         UNCHANGED <<around, hub, stray, todo, captured, begun, crashes>>,
         store' \in Record, store' = store \/ store'.revision = store.revision + 1,
         IsPrefix(store.events, store'.events), store'.acknowledged <= Len(store'.events), HubInv',
         b.record \in {box[h].record, store'},
         b.pending # <<>> /\ b.status # "storage_error" => \E i \in DOMAIN b.queue : i # 1 /\ b.queue[i] \in Persisting,
         \A e \in captured[h] : Contains(store'.events, e) \/ Contains(b.pending, e)
  PROVE  IInv'
  <1>1. Types /\ RecordInv
    BY DEF IInv
  <1>2. /\ box' \in [Host -> Entry] /\ sync' \in [Host -> Upload] /\ wants' \in SUBSET Host
        /\ \A g \in Host : g # h => box'[g] = box[g] /\ sync'[g] = sync[g]
        /\ box'[h].record = b.record /\ box'[h].pending = b.pending /\ box'[h].status = b.status
        /\ box'[h].saving = NoSave
        /\ UploadOf(box[h], sync[h])'
        /\ \A i \in DOMAIN b.queue : i # 1 => \E j \in DOMAIN box'[h].queue : box'[h].queue[j] = b.queue[i]
    BY <1>1, OverIs
  <1>3. Types'
    BY <1>1, <1>2 DEF Types, MaxCrashes
  <1>4. Behind(box[h].record)' /\ box'[h].record.acknowledged <= Len(box'[h].record.events)
    <2>1. CASE b.record = box[h].record
      <3>1. b.record \in Record /\ Behind(b.record) /\ b.record.acknowledged <= Len(b.record.events)
        BY <1>1, <2>1 DEF RecordInv, Entry
      <3> QED
        BY <1>1, <1>2, <3>1, StillBehind DEF Behind
    <2>2. CASE b.record = store'
      <3>1. store'.revision <= store'.revision /\ store'.events \in Seq(Event)
        BY DEF Record
      <3>2. IsPrefix(store'.events, store'.events)
        BY <3>1, PrefixOfItself
      <3> QED
        BY <1>2, <2>2, <3>1, <3>2 DEF Behind
    <2> QED
      BY <2>1, <2>2
  <1>5. Extends(box[h])'
    BY <1>2 DEF Extends
  <1>6. ShowsUnsaved(box[h])'
    BY <1>2 DEF ShowsUnsaved
  <1>7. Len(hub) <= Len(hub')
    BY <1>1 DEF Types
  <1> QED
    BY <1>2, <1>3, <1>4, <1>5, <1>6, <1>7, Local

\* The same when the durable record does not move.
LEMMA OverQuiet ==
  ASSUME IInv, NEW h \in Host, NEW b \in Entry, b.queue = box[h].queue, b.queue # <<>>,
         b.record = box[h].record, NEW ok \in BOOLEAN, Over(h, b, ok),
         UNCHANGED <<around, store, hub, stray, todo, captured, begun, crashes>>,
         b.pending # <<>> /\ b.status # "storage_error" => \E i \in DOMAIN b.queue : i # 1 /\ b.queue[i] \in Persisting,
         \A e \in captured[h] : Contains(store.events, e) \/ Contains(b.pending, e)
  PROVE  IInv'
  <1>1. Types /\ RecordInv /\ HubInv /\ UploadInv
    BY DEF IInv
  <1>2. store' \in Record /\ store'.acknowledged <= Len(store'.events) /\ store'.events \in Seq(Event)
    BY <1>1 DEF Types, RecordInv, Record
  <1>3. IsPrefix(store.events, store'.events)
    BY <1>2, PrefixOfItself
  <1>4. HubInv'
    BY <1>1 DEF HubInv
  <1>5. UploadOf(b, sync[h])
    BY <1>1 DEF UploadInv, UploadOf
  <1> QED
    BY <1>2, <1>3, <1>4, <1>5, OverLocal

\* What an entry's queue and pending events were, are in the entry.
LEMMA EntryIs ==
  ASSUME IInv, NEW h \in Host
  PROVE  /\ box[h] \in Entry /\ sync[h] \in Upload
         /\ box[h].record \in Record /\ box[h].record.events \in Seq(Event) /\ box[h].pending \in Seq(Event)
         /\ box[h].queue \in Seq(Job) /\ sync[h].snapshot \in Batch /\ sync[h].snapshot.events \in Seq(Event)
         /\ store \in Record /\ store.events \in Seq(Event) /\ hub \in Seq(Event)
         /\ Behind(box[h].record) /\ Extends(box[h]) /\ UploadOf(box[h], sync[h]) /\ ShowsUnsaved(box[h])
         /\ \A e \in captured[h] : e \in Event /\ (Contains(store.events, e) \/ Contains(box[h].pending, e))
         /\ IsPrefix(sync[h].snapshot.events, store.events)
  <1>0. Types /\ RecordInv /\ SaveInv /\ UploadInv /\ CapturedIsKept /\ ShownInv
    BY DEF IInv
  <1>1. box[h] \in Entry /\ sync[h] \in Upload /\ store \in Record /\ hub \in Seq(Event) /\ captured[h] \in SUBSET Event
    BY <1>0 DEF Types
  <1>2. box[h].record \in Record /\ box[h].pending \in Seq(Event) /\ box[h].queue \in Seq(Job) /\ sync[h].snapshot \in Batch
    BY <1>1 DEF Entry, Upload
  <1>3. box[h].record.events \in Seq(Event) /\ store.events \in Seq(Event) /\ sync[h].snapshot.events \in Seq(Event)
    BY <1>1, <1>2 DEF Record, Batch
  <1>4. Behind(box[h].record) /\ Extends(box[h]) /\ UploadOf(box[h], sync[h]) /\ ShowsUnsaved(box[h])
    BY <1>0 DEF RecordInv, SaveInv, UploadInv, ShownInv
  <1>5. IsPrefix(sync[h].snapshot.events, store.events)
    BY <1>3, <1>4, PrefixOfPrefix DEF UploadOf, Behind
  <1> QED
    BY <1>0, <1>1, <1>2, <1>3, <1>4, <1>5 DEF CapturedIsKept

-----------------------------------------------------------------------------
(* Captures and uploads.                                                   *)

LEMMA CaptureOne ==
  ASSUME IInv, NEW h \in Host, NEW e \in Event, NEW job \in Persisting, job \notin Uploading, Capture1(h, e, job),
         UNCHANGED <<around, store, hub, stray, sync, wants, crashes>>,
         todo' \in [Host -> Seq(Event)], begun' \in SUBSET Turn
  PROVE  IInv'
  <1> DEFINE q == box[h].queue
             p == box[h].pending
             rq == Append(q, job)
             rp == Append(p, e)
  <1>0. Types
    BY DEF IInv
  <1>1. /\ box[h] \in Entry /\ p \in Seq(Event) /\ q \in Seq(Job) /\ job \in Job
        /\ Extends(box[h]) /\ UploadOf(box[h], sync[h])
        /\ \A x \in captured[h] : Contains(store.events, x) \/ Contains(p, x)
    BY EntryIs DEF Persisting, Job
  <1>2. /\ rq \in Seq(Job) /\ rq # <<>>
        /\ \A i \in DOMAIN q : i \in DOMAIN rq /\ rq[i] = q[i]
        /\ \A i \in DOMAIN rq : i \in DOMAIN q \/ i = Len(q) + 1
        /\ Len(q) + 1 \in DOMAIN rq /\ rq[Len(q) + 1] = job
        /\ q # <<>> => Len(q) + 1 # 1
    BY <1>1, AppendIs
  <1>3. /\ rp \in Seq(Event) /\ Len(rp) = Len(p) + 1 /\ Len(p) \in Nat
        /\ \A i \in 1..Len(p) : rp[i] = p[i]
        /\ Contains(rp, e) /\ \A x : Contains(p, x) => Contains(rp, x)
    <2>1. /\ rp \in Seq(Event) /\ Len(rp) = Len(p) + 1 /\ Len(p) \in Nat /\ rp[Len(p) + 1] = e
          /\ \A i \in 1..Len(p) : rp[i] = p[i]
      BY <1>1
    <2> HIDE DEF rp
    <2>2. Contains(rp, e)
      BY <2>1 DEF Contains
    <2>3. ASSUME NEW x, Contains(p, x) PROVE Contains(rp, x)
      <3>1. PICK i \in 1..Len(p) : p[i] = x
        BY <2>3 DEF Contains
      <3>2. i \in 1..Len(rp) /\ rp[i] = x
        BY <2>1, <3>1
      <3> QED
        BY <3>2 DEF Contains
    <2> QED
      BY <2>1, <2>2, <2>3
  <1>4. box' = [box EXCEPT ![h] = [box[h] EXCEPT !.pending = rp, !.queue = rq]]
        /\ captured' = [captured EXCEPT ![h] = @ \cup {e}]
    BY DEF Capture1
  <1> HIDE DEF rp, rq
  <1>5. [box[h] EXCEPT !.pending = rp, !.queue = rq] \in Entry
    BY <1>1, <1>2, <1>3 DEF Entry
  <1>6. /\ box'[h].pending = rp /\ box'[h].queue = rq /\ box'[h].record = box[h].record
        /\ box'[h].saving = box[h].saving /\ box'[h].status = box[h].status
        /\ \A g \in Host : g # h => box'[g] = box[g] /\ captured'[g] = captured[g]
        /\ captured'[h] = captured[h] \cup {e}
        /\ box' \in [Host -> Entry] /\ captured' \in [Host -> SUBSET Event]
    <2>1. box[h] = [record |-> box[h].record, pending |-> p, status |-> box[h].status, queue |-> q, saving |-> box[h].saving]
      BY <1>1 DEF Entry
    <2> QED
      BY <1>0, <1>4, <1>5, <2>1 DEF Types
  <1>7. Types'
    BY <1>0, <1>6 DEF Types, MaxCrashes
  <1>8. Extends(box[h])'
    <2> SUFFICES ASSUME box[h].saving # NoSave PROVE Extends(box[h])'
      BY <1>6 DEF Extends
    <2>1. box[h].saving \in [record : Record, count : Nat]
      BY <1>1 DEF Entry
    <2>2. box[h].saving.count \in Nat /\ box[h].saving.count <= Len(p)
      BY <1>1, <2>1 DEF Extends
    <2>3. box[h].saving.count <= Len(rp) /\ \A i \in 1..box[h].saving.count : rp[i] = p[i]
      BY <1>3, <2>2
    <2> QED
      BY <1>1, <1>2, <1>6, <2>3 DEF Extends
  <1>9. UploadOf(box[h], sync[h])'
    <2>1. job \notin Uploading
      OBVIOUS
    <2>2. \A i \in DOMAIN rq : rq[i] \in Uploading => i \in DOMAIN q /\ rq[i] = q[i]
      BY <1>2, <2>1
    <2> QED
      BY <1>1, <1>6, <2>2 DEF UploadOf
  <1>10. ShowsUnsaved(box[h])'
    BY <1>1, <1>2, <1>6 DEF ShowsUnsaved, Extends
  <1> QED
    BY <1>1, <1>3, <1>6, <1>7, <1>8, <1>9, <1>10, Quiet

LEMMA CaptureStep ==
  ASSUME IInv, NEW h \in Host, Capture(h), UNCHANGED around
  PROVE  IInv'
  <1>0. Types /\ \A t \in Turn, k \in Kind : E(t, k) \in Event
    BY DEF IInv, E, Event
  <1>a. todo[h] \in Seq(Event) /\ todo \in [Host -> Seq(Event)] /\ begun \in SUBSET Turn
    BY <1>0 DEF Types
  <1>1. ASSUME NEW t \in Turn, CaptureStart(h, t) PROVE IInv'
    <2>1. E(t, "turn_start") \in Event /\ E(t, "user_message") \in Event
      BY <1>0 DEF Kind
    <2>2. todo' \in [Host -> Seq(Event)]
      <3>1. <<E(t, "user_message")>> \in Seq(Event)
        BY <2>1
      <3> QED
        BY <1>a, <1>1, <3>1 DEF CaptureStart, Persisting
    <2> QED
      BY <1>a, <1>1, <2>1, <2>2, CaptureOne DEF CaptureStart, Persisting
  <1>2. ASSUME NEW t \in Turn, CaptureSecond(h, t) PROVE IInv'
    <2>1. E(t, "second_message") \in Event
      BY <1>0 DEF Kind
    <2>2. todo' \in [Host -> Seq(Event)]
      BY <1>a, <1>2, <2>1 DEF CaptureSecond, Persisting
    <2> QED
      BY <1>a, <1>2, <2>1, <2>2, CaptureOne DEF CaptureSecond, Persisting
  <1>3. ASSUME NEW t \in Turn, CaptureAssistant(h, t) PROVE IInv'
    BY <1>0, <1>a, <1>3, CaptureOne DEF CaptureAssistant, Persisting, Kind
  <1>4. ASSUME NEW t \in Turn, CaptureUnopened(h, t) PROVE IInv'
    BY <1>0, <1>a, <1>4, CaptureOne DEF CaptureUnopened, Persisting, Kind
  <1>5. ASSUME NEW t \in Turn, CaptureLink(h, t) PROVE IInv'
    BY <1>0, <1>a, <1>5, CaptureOne DEF CaptureLink, Persisting, Kind
  <1>6. ASSUME NEW t \in Turn, CaptureEnd(h, t) PROVE IInv'
    BY <1>0, <1>a, <1>6, CaptureOne DEF CaptureEnd, Persisting, Kind
  <1>7. ASSUME CaptureClaimed(h) PROVE IInv'
    <2>1. Head(todo[h]) \in Event /\ Tail(todo[h]) \in Seq(Event)
      BY <1>a, <1>7 DEF CaptureClaimed, Persisting
    <2>2. todo' \in [Host -> Seq(Event)]
      BY <1>a, <1>7, <2>1 DEF CaptureClaimed, Persisting
    <2> QED
      BY <1>a, <1>7, <2>1, <2>2, CaptureOne DEF CaptureClaimed, Persisting
  <1> QED
    BY <1>1, <1>2, <1>3, <1>4, <1>5, <1>6, <1>7 DEF Capture

\* A job of an upload goes to the end of the queue; the upload waits for it.
LEMMA AppendUpload ==
  ASSUME IInv, NEW h \in Host, NEW x \in Uploading, sync[h].phase # "queued",
         box' = [box EXCEPT ![h].queue = Append(@, x)],
         sync' \in [Host -> Upload], \A g \in Host : g # h => sync'[g] = sync[g],
         sync'[h].phase = "queued", sync'[h].snapshot = sync[h].snapshot,
         sync'[h].last <= Len(hub'), x = "ack" => sync'[h].last <= Len(sync[h].snapshot.events),
         UNCHANGED <<around, store, todo, captured, begun, crashes>>,
         wants' \in SUBSET Host, stray' \in SUBSET Batch, hub' \in Seq(Event),
         Len(hub) <= Len(hub'), HubInv'
  PROVE  IInv'
  <1> DEFINE q == box[h].queue
             r == Append(q, x)
  <1>0. Types /\ RecordInv /\ HubInv
    BY DEF IInv
  <1>1. /\ box[h] \in Entry /\ q \in Seq(Job) /\ x \in Job
        /\ Extends(box[h]) /\ UploadOf(box[h], sync[h]) /\ ShowsUnsaved(box[h]) /\ Behind(box[h].record)
        /\ \A e \in captured[h] : Contains(store.events, e) \/ Contains(box[h].pending, e)
    BY EntryIs DEF Job
  <1>2. /\ r \in Seq(Job) /\ r # <<>>
        /\ \A i \in DOMAIN q : i \in DOMAIN r /\ r[i] = q[i]
        /\ \A i \in DOMAIN r : i \in DOMAIN q \/ i = Len(q) + 1
        /\ q # <<>> => Head(r) = Head(q)
    BY <1>1, AppendIs
  <1>3. box' = [box EXCEPT ![h] = [box[h] EXCEPT !.queue = r]]
    OBVIOUS
  <1> HIDE DEF r
  <1>4. [box[h] EXCEPT !.queue = r] \in Entry
    BY <1>1, <1>2 DEF Entry
  <1>5. /\ box'[h].pending = box[h].pending /\ box'[h].queue = r /\ box'[h].record = box[h].record
        /\ box'[h].saving = box[h].saving /\ box'[h].status = box[h].status
        /\ \A g \in Host : g # h => box'[g] = box[g]
        /\ box' \in [Host -> Entry]
    <2>1. box[h] = [record |-> box[h].record, pending |-> box[h].pending, status |-> box[h].status, queue |-> q, saving |-> box[h].saving]
      BY <1>1 DEF Entry
    <2> QED
      BY <1>0, <1>3, <1>4, <2>1 DEF Types
  <1>6. Types'
    BY <1>0, <1>5 DEF Types, MaxCrashes
  <1>7. Extends(box[h])'
    <2> SUFFICES ASSUME box[h].saving # NoSave PROVE Extends(box[h])'
      BY <1>5 DEF Extends
    <2>1. box[h].saving \in [record : Record, count : Nat]
      BY <1>1 DEF Entry
    <2>2. box[h].saving.record.events \in Seq(Event)
      BY <2>1 DEF Record
    <2>3. Len(box[h].saving.record.events) \in Nat /\ Len(hub) \in Nat /\ Len(hub') \in Nat
      BY <1>0, <2>2 DEF Types
    <2> QED
      BY <1>1, <1>2, <1>5, <2>3 DEF Extends
  <1>8. UploadOf(box[h], sync[h])'
    <2>1. \A i \in DOMAIN q : q[i] \notin Uploading
      BY <1>1 DEF UploadOf
    <2>2. \A i \in DOMAIN r : r[i] \in Uploading => i = Len(q) + 1
      BY <1>2, <2>1
    <2>3. \A i \in DOMAIN r : r[i] = "ack" => x = "ack"
      BY <1>1, <1>2, <2>1, AppendIs DEF r
    <2> QED
      BY <1>1, <1>5, <2>2, <2>3 DEF UploadOf
  <1>9. ShowsUnsaved(box[h])'
    <2>1. box[h].saving # NoSave => q # <<>>
      BY <1>1 DEF Extends
    <2> QED
      BY <1>1, <1>2, <1>5, <2>1 DEF ShowsUnsaved
  <1>10. store' \in Record /\ IsPrefix(store.events, store'.events) /\ store'.acknowledged <= Len(store'.events)
    BY <1>0, PrefixOfItself DEF Types, Record, RecordInv
  <1>11. Behind(box[h].record)' /\ box'[h].record.acknowledged <= Len(box'[h].record.events)
    BY <1>0, <1>1, <1>5 DEF Behind, RecordInv
  <1> QED
    BY <1>1, <1>5, <1>6, <1>7, <1>8, <1>9, <1>10, <1>11, Local

LEMMA UploadStep ==
  ASSUME IInv, NEW h \in Host, Open(h) \/ SyncRequested(h) \/ SyncFollows(h), UNCHANGED around
  PROVE  IInv'
  <1>0. Types /\ HubInv /\ UploadInv
    BY DEF IInv
  <1>a. /\ sync[h] \in Upload /\ wants \in SUBSET Host /\ stray \in SUBSET Batch /\ hub \in Seq(Event) /\ Len(hub) <= Len(hub)
        /\ sync[h].last <= Len(hub)
    BY <1>0 DEF Types, UploadInv, UploadOf
  <1>b. ASSUME StartUpload(h), sync[h].phase = "none",
               UNCHANGED <<around, store, hub, stray, todo, captured, begun, crashes>>, wants' \in SUBSET Host
        PROVE  IInv'
    <2>1. sync' = [sync EXCEPT ![h] = [sync[h] EXCEPT !.phase = "queued"]]
      BY <1>b DEF StartUpload
    <2>2. [sync[h] EXCEPT !.phase = "queued"] \in Upload
      BY <1>a DEF Upload
    <2>3. sync' \in [Host -> Upload] /\ (\A g \in Host : g # h => sync'[g] = sync[g])
          /\ sync'[h].phase = "queued" /\ sync'[h].snapshot = sync[h].snapshot /\ sync'[h].last = sync[h].last
      BY <1>0, <1>a, <2>1, <2>2 DEF Types, Upload
    <2>4. HubInv'
      BY <1>0, <1>b DEF HubInv
    <2>5. box' = [box EXCEPT ![h].queue = Append(@, "snapshot")]
      BY <1>b DEF StartUpload
    <2> QED
      BY <1>a, <1>b, <2>3, <2>4, <2>5, AppendUpload
  <1>1. CASE Open(h)
    <2> DEFINE r == Append(<<>>, "open")
    <2>1. box[h].queue = <<>> /\ box' = [box EXCEPT ![h] = [box[h] EXCEPT !.queue = r]]
      BY <1>1 DEF Open
    <2>2. r \in Seq(Job) /\ r # <<>> /\ DOMAIN r = {1} /\ r[1] = "open"
      BY DEF Job
    <2> HIDE DEF r
    <2>3. /\ box[h] \in Entry /\ Extends(box[h]) /\ UploadOf(box[h], sync[h]) /\ ShowsUnsaved(box[h])
          /\ \A e \in captured[h] : Contains(store.events, e) \/ Contains(box[h].pending, e)
      BY EntryIs
    <2>4. [box[h] EXCEPT !.queue = r] \in Entry
      BY <2>2, <2>3 DEF Entry
    <2>5. /\ box'[h].pending = box[h].pending /\ box'[h].queue = r /\ box'[h].record = box[h].record
          /\ box'[h].saving = box[h].saving /\ box'[h].status = box[h].status
          /\ \A g \in Host : g # h => box'[g] = box[g]
          /\ box' \in [Host -> Entry]
      <3>1. box[h] = [record |-> box[h].record, pending |-> box[h].pending, status |-> box[h].status,
                      queue |-> box[h].queue, saving |-> box[h].saving]
        BY <2>3 DEF Entry
      <3> QED
        BY <1>0, <2>1, <2>4, <3>1 DEF Types
    <2>6. Types'
      BY <1>0, <1>1, <2>5 DEF Types, Open, MaxCrashes
    <2>7. box[h].saving = NoSave /\ (box[h].pending # <<>> => box[h].status = "storage_error")
      <3>1. \A i \in DOMAIN <<>> : FALSE
        OBVIOUS
      <3> QED
        BY <2>1, <2>3, <3>1 DEF Extends, ShowsUnsaved
    <2>8. Extends(box[h])' /\ ShowsUnsaved(box[h])'
      BY <2>5, <2>7 DEF Extends, ShowsUnsaved
    <2>9. UploadOf(box[h], sync[h])'
      BY <1>1, <2>2, <2>3, <2>5 DEF UploadOf, Open
    <2> QED
      BY <1>1, <2>3, <2>5, <2>6, <2>8, <2>9, Quiet DEF Open
  <1>2. CASE SyncRequested(h)
    BY <1>a, <1>b, <1>2 DEF SyncRequested
  <1>3. CASE SyncFollows(h) /\ sync[h].phase = "none"
    BY <1>a, <1>b, <1>3 DEF SyncFollows
  <1>4. CASE SyncFollows(h) /\ sync[h].phase # "none"
    <2>1. UNCHANGED <<around, store, hub, stray, box, sync, todo, captured, begun, crashes>> /\ wants' \in SUBSET Host
      BY <1>a, <1>4 DEF SyncFollows
    <2>2. Types' /\ RecordInv' /\ HubInv'
      BY <2>1 DEF IInv, Types, RecordInv, HubInv, Behind, MaxCrashes
    <2>3. SaveInv' /\ UploadInv' /\ CapturedIsKept' /\ ShownInv'
      BY <2>1 DEF IInv, SaveInv, UploadInv, CapturedIsKept, ShownInv, Extends, UploadOf, ShowsUnsaved
    <2> QED
      BY <2>2, <2>3 DEF IInv
  <1> QED
    BY <1>1, <1>2, <1>3, <1>4

\* What the hub makes of a batch: it only ever grows, by stored events.
LEMMA HubHoldsIs ==
  ASSUME hub \in Seq(Event), store.events \in Seq(Event), NEW batch \in Batch, NEW n \in 0..Len(batch.events),
         IsPrefix(batch.events, store.events), IsPrefix(hub, store.events), HubHolds(batch, n)
  PROVE  hub' \in Seq(Event) /\ Len(hub) <= Len(hub') /\ IsPrefix(hub', store.events)
  <1> DEFINE s == batch.events
             t == SubSeq(s, Len(hub) + 1, n)
             u == store.events
  <1>0. s \in Seq(Event) /\ Len(s) \in Nat /\ Len(hub) \in Nat /\ n \in Nat /\ n <= Len(s) /\ Len(u) \in Nat
    BY DEF Batch
  <1>1. CASE hub' = hub
    BY <1>0, <1>1
  <1>2. CASE hub' = hub \o t /\ n > Len(hub)
    <2>1. /\ Len(hub) <= Len(u) /\ Len(s) <= Len(u) /\ (\A i \in 1..Len(hub) : hub[i] = u[i])
          /\ (\A i \in 1..Len(s) : s[i] = u[i])
      BY <1>0, PrefixIs
    <2>2. /\ t \in Seq(Event) /\ Len(t) = n - Len(hub)
          /\ \A i \in 1..(n - Len(hub)) : t[i] = s[Len(hub) + i]
      <3>1. Len(hub) + 1 \in Nat /\ Len(hub) + 1 >= 1
        BY <1>0
      <3>2. \A i \in (Len(hub) + 1)..n : s[i] \in Event
        BY <1>0
      <3> QED
        BY <1>0, <1>2, <3>1, <3>2
    <2> HIDE DEF t
    <2>3. /\ hub' \in Seq(Event) /\ Len(hub') = n
          /\ \A i \in 1..n : hub'[i] = IF i <= Len(hub) THEN hub[i] ELSE t[i - Len(hub)]
      BY <1>0, <1>2, <2>2, ConcatProperties
    <2>4. ASSUME NEW i \in 1..n PROVE hub'[i] = u[i]
      <3>1. CASE i <= Len(hub)
        BY <1>0, <2>1, <2>3, <3>1
      <3>2. CASE ~ (i <= Len(hub))
        <4>1. i - Len(hub) \in 1..(n - Len(hub)) /\ Len(hub) + (i - Len(hub)) = i /\ i \in 1..Len(s)
          BY <1>0, <1>2, <3>2
        <4> QED
          BY <2>1, <2>2, <2>3, <3>2, <4>1
      <3> QED
        BY <3>1, <3>2
    <2>5. n <= Len(u)
      BY <1>0, <2>1
    <2> DEFINE v == hub'
    <2>6. v \in Seq(Event) /\ Len(v) <= Len(u) /\ \A i \in 1..Len(v) : v[i] = u[i]
      BY <2>3, <2>4, <2>5
    <2> HIDE DEF v
    <2>7. IsPrefix(v, u)
      BY <1>0, <2>6, PrefixIs
    <2> QED
      BY <1>0, <1>2, <2>3, <2>7 DEF v
  <1> QED
    BY <1>1, <1>2 DEF HubHolds

-----------------------------------------------------------------------------
(* The jobs of the queue.                                                  *)

LEMMA BeginSave ==
  ASSUME IInv, NEW h \in Host, NEW r \in Record, NEW n \in Nat,
         box' = [box EXCEPT ![h].saving = [record |-> r, count |-> n]],
         UNCHANGED <<around, store, hub, stray, sync, todo, captured, begun, wants, crashes>>,
         box[h].queue # <<>>, r.revision = box[h].record.revision + 1,
         IsPrefix(box[h].record.events, r.events), r.acknowledged <= Len(r.events),
         r.syncState = "synced" => Len(r.events) <= Len(hub),
         n <= Len(box[h].pending), \A i \in 1..n : Contains(r.events, box[h].pending[i]),
         box[h].record # NoRecord /\ Head(box[h].queue) \in Persisting => n = Len(box[h].pending)
  PROVE  IInv'
  <1> DEFINE s == [record |-> r, count |-> n]
  <1>0. Types
    BY DEF IInv
  <1>1. /\ box[h] \in Entry /\ UploadOf(box[h], sync[h]) /\ ShowsUnsaved(box[h]) /\ box[h].pending \in Seq(Event)
        /\ \A e \in captured[h] : Contains(store.events, e) \/ Contains(box[h].pending, e)
    BY EntryIs
  <1>2. s \in [record : Record, count : Nat] /\ s # NoSave /\ s.record = r /\ s.count = n
    BY NoSaveIsNone
  <1>3. box' = [box EXCEPT ![h] = [box[h] EXCEPT !.saving = s]]
    OBVIOUS
  <1> HIDE DEF s
  <1>4. [box[h] EXCEPT !.saving = s] \in Entry
    BY <1>1, <1>2 DEF Entry
  <1>5. /\ box'[h].pending = box[h].pending /\ box'[h].queue = box[h].queue /\ box'[h].record = box[h].record
        /\ box'[h].saving = s /\ box'[h].status = box[h].status
        /\ \A g \in Host : g # h => box'[g] = box[g]
        /\ box' \in [Host -> Entry]
    <2>1. box[h] = [record |-> box[h].record, pending |-> box[h].pending, status |-> box[h].status,
                    queue |-> box[h].queue, saving |-> box[h].saving]
      BY <1>1 DEF Entry
    <2> QED
      BY <1>0, <1>3, <1>4, <2>1 DEF Types
  <1>6. Types'
    BY <1>0, <1>5 DEF Types, MaxCrashes
  <1>7. Extends(box[h])'
    BY <1>2, <1>5 DEF Extends
  <1>8. UploadOf(box[h], sync[h])'
    BY <1>1, <1>5 DEF UploadOf
  <1>9. ShowsUnsaved(box[h])'
    <2>1. ~ (Len(box[h].pending) > n) \/ box[h].record = NoRecord \/ Head(box[h].queue) \notin Persisting
      BY <1>1
    <2> QED
      BY <1>1, <1>2, <1>5, <2>1 DEF ShowsUnsaved
  <1> QED
    BY <1>1, <1>5, <1>6, <1>7, <1>8, <1>9, Quiet

LEMMA LoadStep ==
  ASSUME IInv, NEW h \in Host, LoadStored(h), UNCHANGED around
  PROVE  IInv'
  <1>0. Types
    BY DEF IInv
  <1>1. /\ box[h] \in Entry /\ UploadOf(box[h], sync[h]) /\ ShowsUnsaved(box[h]) /\ box[h].pending \in Seq(Event)
        /\ store \in Record /\ store.events \in Seq(Event) /\ sync[h].snapshot.events \in Seq(Event)
        /\ IsPrefix(sync[h].snapshot.events, store.events)
        /\ \A e \in captured[h] : Contains(store.events, e) \/ Contains(box[h].pending, e)
    BY EntryIs
  <1>2. box[h].record = NoRecord /\ box[h].saving = NoSave /\ box[h].queue # <<>>
    BY DEF LoadStored, Opened, Running
  <1>3. CASE store = NoRecord
    <2>1. box' = [box EXCEPT ![h].saving = [record |-> NewRecord, count |-> 0]]
      BY <1>3 DEF LoadStored
    <2>2. <<>> \in Seq(Event) /\ Len(<<>>) = 0 /\ 0 <= Len(box[h].pending)
      BY <1>1
    <2>3. IsPrefix(<<>>, <<>>)
      BY <2>2, PrefixOfItself
    <2>4. /\ NewRecord.revision = box[h].record.revision + 1 /\ \A i \in 1..0 : FALSE
          /\ IsPrefix(box[h].record.events, NewRecord.events) /\ NewRecord.acknowledged <= Len(NewRecord.events)
          /\ NewRecord.syncState # "synced"
      BY <1>2, <2>2, <2>3, NoRecordIs
    <2>5. UNCHANGED <<around, store, hub, stray, sync, todo, captured, begun, wants, crashes>>
      BY DEF LoadStored
    <2> QED
      BY <1>2, <2>1, <2>2, <2>4, <2>5, NoRecordIs, BeginSave
  <1>4. CASE store # NoRecord
    <2>1. box' = [box EXCEPT ![h] = [box[h] EXCEPT !.record = store]]
      BY <1>4 DEF LoadStored
    <2>2. [box[h] EXCEPT !.record = store] \in Entry
      BY <1>1 DEF Entry
    <2>3. /\ box'[h].pending = box[h].pending /\ box'[h].queue = box[h].queue /\ box'[h].record = store
          /\ box'[h].saving = NoSave /\ box'[h].status = box[h].status
          /\ \A g \in Host : g # h => box'[g] = box[g]
          /\ box' \in [Host -> Entry]
      <3>1. box[h] = [record |-> box[h].record, pending |-> box[h].pending, status |-> box[h].status,
                      queue |-> box[h].queue, saving |-> box[h].saving]
        BY <1>1 DEF Entry
      <3> QED
        BY <1>0, <1>2, <2>1, <2>2, <3>1 DEF Types
    <2>4. Types'
      BY <1>0, <2>3 DEF Types, LoadStored, MaxCrashes
    <2>5. Extends(box[h])' /\ ShowsUnsaved(box[h])'
      BY <1>1, <2>3 DEF Extends, ShowsUnsaved
    <2>6. UploadOf(box[h], sync[h])'
      BY <1>1, <2>3 DEF UploadOf, LoadStored
    <2> QED
      BY <1>1, <2>3, <2>4, <2>5, <2>6, Quiet DEF LoadStored
  <1> QED
    BY <1>3, <1>4

\* What the entry's events are extended to, in a state.
LEMMA ExtendedHere ==
  ASSUME IInv, NEW h \in Host
  PROVE  /\ Extended(h) \in Seq(Event) /\ IsPrefix(box[h].record.events, Extended(h))
         /\ \A i \in 1..Len(box[h].pending) : Contains(Extended(h), box[h].pending[i])
  <1>1. PICK base \in Seq(Event), more \in Seq(Event) : base = box[h].record.events /\ more = box[h].pending
    BY EntryIs
  <1>2. /\ FoldLeft(WithEvent, base, more) \in Seq(Event) /\ IsPrefix(base, FoldLeft(WithEvent, base, more))
        /\ \A i \in 1..Len(more) : Contains(FoldLeft(WithEvent, base, more), more[i])
    BY ExtendedIs
  <1>3. Extended(h) = FoldLeft(WithEvent, base, more)
    BY <1>1 DEF Extended
  <1> QED
    BY <1>1, <1>2, <1>3

\* Records, field by field.
LEMMA NextEvents ==
  ASSUME NEW r \in Record, NEW e, NEW s
  PROVE  [r EXCEPT !.revision = @ + 1, !.events = e, !.syncState = s]
         = [revision |-> r.revision + 1, events |-> e, acknowledged |-> r.acknowledged, syncState |-> s]
  <1>1. PICK n, x, k, y : r = [revision |-> n, events |-> x, acknowledged |-> k, syncState |-> y]
    BY DEF Record
  <1> DEFINE v == [r EXCEPT !.revision = @ + 1, !.events = e, !.syncState = s]
  <1>2. v \in [revision : {n + 1}, events : {e}, acknowledged : {k}, syncState : {s}]
    BY <1>1
  <1> HIDE DEF v
  <1>3. v = [revision |-> n + 1, events |-> e, acknowledged |-> k, syncState |-> s]
    BY <1>2
  <1>4. r.revision = n /\ r.events = x /\ r.acknowledged = k
    BY <1>1
  <1> QED
    BY <1>3, <1>4 DEF v

LEMMA NextAck ==
  ASSUME NEW r \in Record, NEW a, NEW s
  PROVE  [r EXCEPT !.revision = @ + 1, !.acknowledged = a, !.syncState = s]
         = [revision |-> r.revision + 1, events |-> r.events, acknowledged |-> a, syncState |-> s]
  <1>1. PICK n, x, k, y : r = [revision |-> n, events |-> x, acknowledged |-> k, syncState |-> y]
    BY DEF Record
  <1> DEFINE v == [r EXCEPT !.revision = @ + 1, !.acknowledged = a, !.syncState = s]
  <1>2. v \in [revision : {n + 1}, events : {x}, acknowledged : {a}, syncState : {s}]
    BY <1>1
  <1> HIDE DEF v
  <1>3. v = [revision |-> n + 1, events |-> x, acknowledged |-> a, syncState |-> s]
    BY <1>2
  <1>4. r.revision = n /\ r.events = x /\ r.acknowledged = k
    BY <1>1
  <1> QED
    BY <1>3, <1>4 DEF v

LEMMA NextState ==
  ASSUME NEW r \in Record, NEW s
  PROVE  [r EXCEPT !.revision = @ + 1, !.syncState = s]
         = [revision |-> r.revision + 1, events |-> r.events, acknowledged |-> r.acknowledged, syncState |-> s]
  <1>1. PICK n, x, k, y : r = [revision |-> n, events |-> x, acknowledged |-> k, syncState |-> y]
    BY DEF Record
  <1> DEFINE v == [r EXCEPT !.revision = @ + 1, !.syncState = s]
  <1>2. v \in [revision : {n + 1}, events : {x}, acknowledged : {k}, syncState : {s}]
    BY <1>1
  <1> HIDE DEF v
  <1>3. v = [revision |-> n + 1, events |-> x, acknowledged |-> k, syncState |-> s]
    BY <1>2
  <1>4. r.revision = n /\ r.events = x /\ r.acknowledged = k
    BY <1>1
  <1> QED
    BY <1>3, <1>4 DEF v

LEMMA BeginStep ==
  ASSUME IInv, NEW h \in Host, PersistBegin(h) \/ AckBegin(h) \/ FailureBegin(h), UNCHANGED around
  PROVE  IInv'
  <1>p. PICK old \in Record : old = box[h].record
    BY EntryIs
  <1>a. /\ old = [revision |-> old.revision, events |-> old.events, acknowledged |-> old.acknowledged, syncState |-> old.syncState]
        /\ old.revision \in Nat /\ old.revision + 1 \in Nat /\ old.events \in Seq(Event) /\ old.acknowledged \in Nat
    BY DEF Record
  <1>0. Types /\ old.acknowledged <= Len(old.events)
    BY <1>p DEF IInv, RecordInv
  <1>1. /\ old \in Record /\ old.events \in Seq(Event) /\ box[h].pending \in Seq(Event) /\ box[h].queue \in Seq(Job)
        /\ sync[h] \in Upload /\ UploadOf(box[h], sync[h]) /\ sync[h].last \in Nat /\ sync[h].snapshot.events \in Seq(Event)
    BY <1>p, EntryIs DEF Upload
  <1>2. IsPrefix(old.events, old.events) /\ 0 <= Len(box[h].pending)
    BY <1>1, PrefixOfItself
  <1>3. CASE PersistBegin(h)
    <2>1. /\ Extended(h) \in Seq(Event) /\ IsPrefix(old.events, Extended(h))
          /\ \A i \in 1..Len(box[h].pending) : Contains(Extended(h), box[h].pending[i])
      BY <1>p, ExtendedHere
    <2>2. [old EXCEPT !.revision = @ + 1, !.events = Extended(h), !.syncState = "pending"]
          = [revision |-> old.revision + 1, events |-> Extended(h), acknowledged |-> old.acknowledged, syncState |-> "pending"]
      BY NextEvents
    <2>3. PICK r \in Record : r = [revision |-> old.revision + 1, events |-> Extended(h),
                                   acknowledged |-> old.acknowledged, syncState |-> "pending"]
      BY <1>a, <2>1 DEF Record
    <2>4. PICK n \in Nat : n = Len(box[h].pending)
      BY <1>1
    <2>5. box' = [box EXCEPT ![h].saving = [record |-> r, count |-> n]] /\ box[h].queue # <<>>
      BY <1>p, <1>3, <2>2, <2>3, <2>4 DEF PersistBegin, Running
    <2>6. r.acknowledged <= Len(r.events)
      <3>1. Len(old.events) <= Len(Extended(h)) /\ Len(old.events) \in Nat /\ Len(Extended(h)) \in Nat /\ old.acknowledged \in Nat
        BY <1>1, <2>1, PrefixIs DEF Record
      <3> QED
        BY <1>0, <2>3, <3>1
    <2>7. n <= Len(box[h].pending)
      BY <2>4
    <2>8. UNCHANGED <<around, store, hub, stray, sync, todo, captured, begun, wants, crashes>>
      BY <1>3 DEF PersistBegin
    <2> QED
      BY <1>p, <2>1, <2>3, <2>4, <2>5, <2>6, <2>7, <2>8, BeginSave
  <1>4. CASE AckBegin(h)
    <2> DEFINE state == IF UploadIsComplete(h, sync[h].last, old) THEN "synced" ELSE "pending"
    <2>0. Acknowledged(h) = sync[h].last
      BY DEF Acknowledged
    <2>1. [old EXCEPT !.revision = @ + 1, !.acknowledged = Acknowledged(h), !.syncState = state]
          = [revision |-> old.revision + 1, events |-> old.events, acknowledged |-> sync[h].last, syncState |-> state]
      <3>1. PICK a, z : a = sync[h].last /\ z = state
        OBVIOUS
      <3> HIDE DEF state
      <3>2. [old EXCEPT !.revision = @ + 1, !.acknowledged = a, !.syncState = z]
            = [revision |-> old.revision + 1, events |-> old.events, acknowledged |-> a, syncState |-> z]
        BY NextAck
      <3> QED
        BY <2>0, <3>1, <3>2
    <2>2. PICK r \in Record : r = [revision |-> old.revision + 1, events |-> old.events,
                                   acknowledged |-> sync[h].last, syncState |-> state]
      BY <1>1, <1>a DEF Record
    <2>3. box' = [box EXCEPT ![h].saving = [record |-> r, count |-> 0]] /\ box[h].queue # <<>> /\ Head(box[h].queue) = "ack"
      BY <1>p, <1>4, <2>1, <2>2 DEF AckBegin, Running
    <2>4. sync[h].last <= Len(old.events) /\ (state = "synced" => Len(old.events) <= Len(hub))
      <3>1. 1 \in DOMAIN box[h].queue /\ box[h].queue[1] = "ack"
        BY <1>1, <2>3
      <3>2. sync[h].last <= Len(sync[h].snapshot.events) /\ IsPrefix(sync[h].snapshot.events, old.events) /\ sync[h].last <= Len(hub)
        BY <1>1, <1>p, <3>1 DEF UploadOf
      <3>3. Len(sync[h].snapshot.events) <= Len(old.events) /\ Len(sync[h].snapshot.events) \in Nat
            /\ Len(old.events) \in Nat /\ sync[h].last \in Nat
        BY <1>1, <3>2, PrefixIs DEF Upload
      <3> QED
        BY <3>2, <3>3 DEF UploadIsComplete
    <2>5. "ack" \notin Persisting /\ \A i \in 1..0 : FALSE
      BY DEF Persisting
    <2>6. UNCHANGED <<around, store, hub, stray, sync, todo, captured, begun, wants, crashes>>
      BY <1>4 DEF AckBegin
    <2> HIDE DEF state
    <2> QED
      BY <1>p, <1>2, <2>2, <2>3, <2>4, <2>5, <2>6, BeginSave
  <1>5. CASE FailureBegin(h)
    <2>1. [old EXCEPT !.revision = @ + 1, !.syncState = "pending"]
          = [revision |-> old.revision + 1, events |-> old.events, acknowledged |-> old.acknowledged, syncState |-> "pending"]
      BY NextState
    <2>2. PICK r \in Record : r = [revision |-> old.revision + 1, events |-> old.events,
                                   acknowledged |-> old.acknowledged, syncState |-> "pending"]
      BY <1>a DEF Record
    <2>3. box' = [box EXCEPT ![h].saving = [record |-> r, count |-> 0]] /\ box[h].queue # <<>> /\ Head(box[h].queue) = "failure"
      BY <1>p, <1>5, <2>1, <2>2 DEF FailureBegin, Running
    <2>5. "failure" \notin Persisting /\ \A i \in 1..0 : FALSE
      BY DEF Persisting
    <2>6. UNCHANGED <<around, store, hub, stray, sync, todo, captured, begun, wants, crashes>>
      BY <1>5 DEF FailureBegin
    <2> QED
      BY <1>p, <1>0, <1>2, <2>2, <2>3, <2>5, <2>6, BeginSave
  <1> QED
    BY <1>3, <1>4, <1>5

LEMMA OverStep ==
  ASSUME IInv, NEW h \in Host, LoadFailed(h) \/ OpenDone(h) \/ PersistRefused(h) \/ PersistNothing(h), UNCHANGED around
  PROVE  IInv'
  <1>1. /\ box[h] \in Entry /\ store \in Record /\ store.events \in Seq(Event) /\ box[h].pending \in Seq(Event)
        /\ box[h].record \in Record /\ box[h].record.events \in Seq(Event) /\ Behind(box[h].record)
        /\ \A e \in captured[h] : Contains(store.events, e) \/ Contains(box[h].pending, e)
    BY EntryIs
  <1>2. box[h] = [record |-> box[h].record, pending |-> box[h].pending, status |-> box[h].status,
                  queue |-> box[h].queue, saving |-> box[h].saving]
    BY <1>1 DEF Entry
  <1>3. CASE LoadFailed(h) \/ PersistRefused(h)
    <2>1. PICK b \in Entry : b = [box[h] EXCEPT !.status = "storage_error"]
      BY <1>1 DEF Entry
    <2>2. /\ b.queue = box[h].queue /\ b.record = box[h].record /\ b.pending = box[h].pending
          /\ b.status = "storage_error"
      BY <1>2, <2>1
    <2>3. Over(h, b, FALSE) /\ b.queue # <<>> /\ UNCHANGED <<around, store, hub, stray, todo, captured, begun, crashes>>
      BY <1>3, <2>1, <2>2 DEF LoadFailed, PersistRefused, Running
    <2> QED
      BY <1>1, <2>2, <2>3, OverQuiet
  <1>4. CASE OpenDone(h)
    <2>1. PICK b \in Entry : b = [box[h] EXCEPT !.status = Shown(box[h])]
      BY <1>1 DEF Entry, Shown, Record
    <2>2. /\ b.queue = box[h].queue /\ b.record = box[h].record /\ b.pending = box[h].pending
          /\ (b.pending # <<>> => b.status = "storage_error")
      BY <1>2, <2>1 DEF Shown
    <2>3. Over(h, b, TRUE) /\ b.queue # <<>> /\ UNCHANGED <<around, store, hub, stray, todo, captured, begun, crashes>>
      BY <1>4, <2>1, <2>2 DEF OpenDone, Running
    <2> QED
      BY <1>1, <2>2, <2>3, OverQuiet
  <1>5. CASE PersistNothing(h)
    <2>1. PICK b \in Entry : b = [box[h] EXCEPT !.pending = <<>>, !.status = box[h].record.syncState]
      <3>1. <<>> \in Seq(Event) /\ box[h].record.syncState \in {"pending", "synced", "storage_error"}
        BY <1>1 DEF Record
      <3> QED
        BY <1>1, <3>1 DEF Entry
    <2>2. /\ b.queue = box[h].queue /\ b.record = box[h].record /\ b.pending = <<>>
      BY <1>2, <2>1
    <2>3. Over(h, b, TRUE) /\ b.queue # <<>> /\ UNCHANGED <<around, store, hub, stray, todo, captured, begun, crashes>>
      BY <1>5, <2>1, <2>2 DEF PersistNothing, Running
    <2>4. ASSUME NEW e, Contains(box[h].pending, e) PROVE Contains(store.events, e)
      <3>1. Contains(box[h].record.events, e)
        BY <1>5, <2>4, ExtendedHere DEF PersistNothing, Contains
      <3> QED
        BY <1>1, <3>1, PrefixContains DEF Behind
    <2> QED
      BY <1>1, <2>2, <2>3, <2>4, OverQuiet
  <1> QED
    BY <1>3, <1>4, <1>5

\* A save that its revision admits replaces the durable record by the next.
LEMMA SavingIs ==
  ASSUME IInv, NEW h \in Host, box[h].saving # NoSave, RevisionMatches(h), store' = box[h].saving.record,
         UNCHANGED <<hub, stray>>
  PROVE  /\ store' \in Record /\ store'.revision = store.revision + 1
         /\ IsPrefix(store.events, store'.events) /\ store'.acknowledged <= Len(store'.events) /\ HubInv'
         /\ box[h].record = store /\ store'.events \in Seq(Event)
  <1>0. Types /\ HubInv
    BY DEF IInv
  <1>1. box[h] \in Entry /\ box[h].record \in Record /\ store \in Record /\ Behind(box[h].record) /\ Extends(box[h])
        /\ store.events \in Seq(Event) /\ hub \in Seq(Event)
    BY EntryIs
  <1>2. box[h].saving \in [record : Record, count : Nat]
    BY <1>1 DEF Entry
  <1>3. store' \in Record /\ store'.events \in Seq(Event)
    BY <1>2 DEF Record
  <1>4. box[h].record = store /\ store'.revision = store.revision + 1
    <2>1. box[h].record.revision \in Nat /\ store.revision \in Nat
      BY <1>1 DEF Record
    <2>2. box[h].saving.record.revision = box[h].record.revision + 1
      BY <1>1 DEF Extends
    <2>3. store.revision = box[h].record.revision
      BY <2>1, <2>2 DEF RevisionMatches
    <2> QED
      BY <1>1, <2>1, <2>2, <2>3 DEF Behind
  <1>5. IsPrefix(store.events, store'.events) /\ store'.acknowledged <= Len(store'.events)
        /\ (store'.syncState = "synced" => Len(store'.events) <= Len(hub))
    BY <1>1, <1>4 DEF Extends
  <1>6. HubInv'
    <2>1. IsPrefix(hub, store'.events)
      BY <1>0, <1>1, <1>3, <1>5, PrefixOfPrefix DEF HubInv
    <2>2. \A batch \in stray : IsPrefix(batch.events, store'.events)
      <3> SUFFICES ASSUME NEW batch \in stray PROVE IsPrefix(batch.events, store'.events)
        OBVIOUS
      <3>1. batch.events \in Seq(Event) /\ IsPrefix(batch.events, store.events)
        BY <1>0 DEF Types, Batch, HubInv
      <3> QED
        BY <1>1, <1>3, <1>5, <3>1, PrefixOfPrefix
    <2> QED
      BY <1>5, <2>1, <2>2 DEF HubInv
  <1> QED
    BY <1>3, <1>4, <1>5, <1>6

\* What a save took from the pending events, and what it left.
LEMMA StillPendingIs ==
  ASSUME IInv, NEW h \in Host, box[h].saving # NoSave
  PROVE  /\ StillPending(h) \in Seq(Event)
         /\ StillPending(h) # <<>> => box[h].pending # <<>> /\ Len(box[h].pending) > box[h].saving.count
         /\ \A e : Contains(box[h].pending, e) => Contains(box[h].saving.record.events, e) \/ Contains(StillPending(h), e)
  <1> DEFINE p == box[h].pending
             n == box[h].saving.count
             t == SubSeq(p, n + 1, Len(p))
  <1>1. box[h] \in Entry /\ p \in Seq(Event) /\ Extends(box[h])
    BY EntryIs
  <1>2. n \in Nat /\ n <= Len(p) /\ Len(p) \in Nat
    BY <1>1 DEF Entry, Extends
  <1>3. \A i \in 1..n : Contains(box[h].saving.record.events, p[i])
    BY <1>1 DEF Extends
  <1>4. t \in Seq(Event) /\ Len(t) = Len(p) - n /\ \A i \in 1..(Len(p) - n) : t[i] = p[n + i]
    <2>1. \A i \in (n + 1)..Len(p) : p[i] \in Event
      BY <1>1, <1>2
    <2>2. n + 1 \in Int /\ Len(p) \in Int /\ Len(p) - (n + 1) + 1 = Len(p) - n /\ (n + 1 <= Len(p) \/ Len(p) - n = 0)
      <3>1. \A k, m \in Nat : k <= m => k + 1 \in Int /\ m \in Int /\ m - (k + 1) + 1 = m - k /\ (k + 1 <= m \/ m - k = 0)
        OBVIOUS
      <3> QED
        BY <1>2, <3>1
    <2>3. /\ t \in Seq(Event)
          /\ Len(t) = IF n + 1 <= Len(p) THEN Len(p) - (n + 1) + 1 ELSE 0
          /\ \A i \in 1..(Len(p) - (n + 1) + 1) : t[i] = p[(n + 1) + i - 1]
      BY <2>1, <2>2, SubSeqProperties
    <2> HIDE DEF t
    <2>4. \A i \in 1..(Len(p) - n) : (n + 1) + i - 1 = n + i
      BY <1>2
    <2> QED
      BY <2>2, <2>3, <2>4
  <1>5. StillPending(h) = t
    BY DEF StillPending
  <1> HIDE DEF t
  <1>6. t # <<>> => Len(p) > n
    BY <1>2, <1>4
  <1>7. p = <<>> => Len(p) = 0
    OBVIOUS
  <1>8. ASSUME NEW e, Contains(p, e) PROVE Contains(box[h].saving.record.events, e) \/ Contains(t, e)
    <2>1. PICK i \in 1..Len(p) : p[i] = e
      BY <1>8 DEF Contains
    <2>2. CASE i <= n
      BY <1>2, <1>3, <2>1, <2>2
    <2>3. CASE ~ (i <= n)
      <3>1. i - n \in 1..Len(t) /\ n + (i - n) = i
        BY <1>2, <1>4, <2>3
      <3>2. t[i - n] = e
        BY <1>4, <2>1, <3>1
      <3> QED
        BY <3>1, <3>2 DEF Contains
    <2> QED
      BY <2>2, <2>3
  <1> QED
    BY <1>2, <1>4, <1>5, <1>6, <1>7, <1>8

LEMMA SavedStep ==
  ASSUME IInv, NEW h \in Host, Saved(h), UNCHANGED around
  PROVE  IInv'
  <1> DEFINE new == box[h].saving.record
             rest == StillPending(h)
  <1>0. Types /\ UNCHANGED <<hub, stray, todo, captured, begun, crashes>>
    BY DEF IInv, Saved
  <1>1. /\ box[h] \in Entry /\ Extends(box[h]) /\ UploadOf(box[h], sync[h]) /\ ShowsUnsaved(box[h])
        /\ box[h].queue \in Seq(Job) /\ box[h].queue # <<>> /\ box[h].saving # NoSave /\ box[h].pending \in Seq(Event)
        /\ sync[h].snapshot.events \in Seq(Event) /\ IsPrefix(sync[h].snapshot.events, store.events)
        /\ store.events \in Seq(Event)
        /\ \A e \in captured[h] : Contains(store.events, e) \/ Contains(box[h].pending, e)
    BY EntryIs DEF Saved, Extends
  <1>2. /\ store' = new /\ store' \in Record /\ store'.revision = store.revision + 1
        /\ IsPrefix(store.events, store'.events) /\ store'.acknowledged <= Len(store'.events) /\ HubInv'
        /\ box[h].record = store /\ store'.events \in Seq(Event)
    BY <1>0, SavingIs DEF Saved
  <1>3. /\ rest \in Seq(Event)
        /\ rest # <<>> => box[h].pending # <<>> /\ Len(box[h].pending) > box[h].saving.count
        /\ \A e : Contains(box[h].pending, e) => Contains(new.events, e) \/ Contains(rest, e)
    BY <1>1, StillPendingIs
  <1>4. \A e \in captured[h] : Contains(store'.events, e) \/ Contains(rest, e)
    BY <1>1, <1>2, <1>3, PrefixContains
  <1>5. IsPrefix(sync[h].snapshot.events, new.events)
    BY <1>1, <1>2, PrefixOfPrefix
  <1> HIDE DEF new, rest
  <1>6. box[h] = [record |-> box[h].record, pending |-> box[h].pending, status |-> box[h].status,
                  queue |-> box[h].queue, saving |-> box[h].saving]
    BY <1>1 DEF Entry
  <1>7. CASE ~ Opened(h)
    <2>1. box' = [box EXCEPT ![h] = [[box[h] EXCEPT !.record = new, !.pending = rest] EXCEPT !.saving = NoSave]]
          /\ UNCHANGED <<sync, wants>>
      BY <1>7 DEF Saved, new, rest
    <2>2. [[box[h] EXCEPT !.record = new, !.pending = rest] EXCEPT !.saving = NoSave] \in Entry
      BY <1>1, <1>2, <1>3 DEF Entry
    <2>3. /\ box'[h].pending = rest /\ box'[h].queue = box[h].queue /\ box'[h].record = new
          /\ box'[h].saving = NoSave /\ box'[h].status = box[h].status
          /\ \A g \in Host : g # h => box'[g] = box[g]
          /\ box' \in [Host -> Entry]
      BY <1>0, <1>6, <2>1, <2>2 DEF Types
    <2>4. Types'
      BY <1>0, <1>2, <2>1, <2>3 DEF Types, MaxCrashes
    <2>5. Extends(box[h])' /\ ShowsUnsaved(box[h])'
      BY <1>1, <1>3, <2>3 DEF Extends, ShowsUnsaved
    <2>6. UploadOf(box[h], sync[h])'
      BY <1>0, <1>1, <1>5, <2>1, <2>3 DEF UploadOf
    <2>7. Behind(box[h].record)' /\ box'[h].record.acknowledged <= Len(box'[h].record.events)
      <3>1. store'.revision <= store'.revision
        BY <1>2 DEF Record
      <3>2. IsPrefix(store'.events, store'.events)
        BY <1>2, PrefixOfItself
      <3> QED
        BY <1>2, <2>3, <3>1, <3>2 DEF Behind
    <2>8. Len(hub) <= Len(hub')
      BY <1>0 DEF Types
    <2> QED
      BY <1>0, <1>2, <1>4, <2>1, <2>3, <2>4, <2>5, <2>6, <2>7, <2>8, Local
  <1>8. CASE Opened(h)
    <2> DEFINE st == IF Running(h, Persisting) THEN new.syncState
                     ELSE IF rest = <<>> THEN new.syncState ELSE "storage_error"
    <2>1. PICK b \in Entry : b = [box[h] EXCEPT !.record = new, !.pending = rest, !.status = st]
      <3>1. st \in {"pending", "synced", "storage_error"}
        BY <1>2 DEF Record
      <3> QED
        BY <1>1, <1>2, <1>3, <3>1 DEF Entry
    <2>2. b.record = new /\ b.pending = rest /\ b.status = st /\ b.queue = box[h].queue
      BY <1>6, <2>1
    <2>3. Over(h, b, TRUE)
      <3> DEFINE c == [box[h] EXCEPT !.record = new, !.pending = rest]
      <3>1. c.record = new /\ c.pending = rest
        BY <1>6
      <3>2. [c EXCEPT !.status = IF Running(h, Persisting) THEN c.record.syncState ELSE Shown(c)] = b
        BY <2>1, <3>1 DEF Shown
      <3>3. Over(h, [c EXCEPT !.status = IF Running(h, Persisting) THEN c.record.syncState ELSE Shown(c)], TRUE)
        BY <1>8 DEF Saved, new, rest
      <3> QED
        BY <3>2, <3>3
    <2>4. UploadOf(b, sync[h])
      BY <1>1, <1>5, <2>2 DEF UploadOf
    <2>5. ASSUME b.pending # <<>>, b.status # "storage_error"
          PROVE  \E i \in DOMAIN b.queue : i # 1 /\ b.queue[i] \in Persisting
      <3>1. Running(h, Persisting)
        BY <2>2, <2>5
      <3> QED
        BY <1>1, <1>3, <1>8, <2>2, <2>5, <3>1 DEF ShowsUnsaved, Opened, Running
    <2>6. b.queue # <<>> /\ \A e \in captured[h] : Contains(store'.events, e) \/ Contains(b.pending, e)
      BY <1>1, <1>4, <2>2
    <2> QED
      BY <1>0, <1>2, <2>2, <2>3, <2>4, <2>5, <2>6, OverLocal
  <1> QED
    BY <1>7, <1>8

LEMMA NotSavedStep ==
  ASSUME IInv, NEW h \in Host, NotSaved(h), UNCHANGED around
  PROVE  IInv'
  <1>0. Types /\ HubInv /\ RecordInv /\ UNCHANGED <<hub, stray, todo, captured, begun, crashes>> /\ box[h].saving # NoSave
    BY DEF IInv, NotSaved
  <1>1. /\ box[h] \in Entry /\ Extends(box[h]) /\ UploadOf(box[h], sync[h]) /\ ShowsUnsaved(box[h])
        /\ box[h].queue \in Seq(Job) /\ box[h].queue # <<>>
        /\ store \in Record /\ store.events \in Seq(Event)
        /\ \A e \in captured[h] : Contains(store.events, e) \/ Contains(box[h].pending, e)
    BY <1>0, EntryIs DEF Extends
  <1>2. /\ store' \in Record /\ (store' = store \/ store'.revision = store.revision + 1)
        /\ IsPrefix(store.events, store'.events) /\ store'.acknowledged <= Len(store'.events) /\ HubInv'
        /\ store'.events \in Seq(Event)
    <2>1. CASE store' = store
      <3>1. HubInv' /\ store'.acknowledged <= Len(store'.events)
        BY <1>0, <2>1 DEF HubInv, RecordInv
      <3> QED
        BY <1>1, <2>1, <3>1, PrefixOfItself
    <2>2. CASE RevisionMatches(h) /\ store' = box[h].saving.record
      BY <1>0, <2>2, SavingIs
    <2> QED
      BY <2>1, <2>2 DEF NotSaved
  <1>3. \A e \in captured[h] : Contains(store'.events, e) \/ Contains(box[h].pending, e)
    BY <1>1, <1>2, PrefixContains
  <1>4. box[h] = [record |-> box[h].record, pending |-> box[h].pending, status |-> box[h].status,
                  queue |-> box[h].queue, saving |-> box[h].saving]
    BY <1>1 DEF Entry
  <1> DEFINE st == IF Running(h, {"ack"}) THEN box[h].status ELSE "storage_error"
  <1>5. PICK b \in Entry : b = [box[h] EXCEPT !.status = st]
    BY <1>1 DEF Entry
  <1>6. b.record = box[h].record /\ b.pending = box[h].pending /\ b.status = st /\ b.queue = box[h].queue
    BY <1>4, <1>5
  <1>7. Over(h, b, FALSE)
    BY <1>5 DEF NotSaved
  <1>8. ASSUME b.pending # <<>>, b.status # "storage_error"
        PROVE  \E i \in DOMAIN b.queue : i # 1 /\ b.queue[i] \in Persisting
    <2>1. box[h].queue[1] = "ack" /\ box[h].status # "storage_error" /\ box[h].pending # <<>>
      BY <1>1, <1>6, <1>8 DEF Running
    <2>2. "ack" \notin Persisting
      BY DEF Persisting
    <2> QED
      BY <1>1, <1>6, <2>1, <2>2 DEF ShowsUnsaved
  <1>9. UploadOf(b, sync[h])
    BY <1>1, <1>6 DEF UploadOf
  <1>10. b.queue # <<>> /\ \A e \in captured[h] : Contains(store'.events, e) \/ Contains(b.pending, e)
    BY <1>1, <1>3, <1>6
  <1> QED
    BY <1>0, <1>2, <1>6, <1>7, <1>8, <1>9, <1>10, OverLocal

-----------------------------------------------------------------------------
(* The hub, its requests and crashes.                                      *)

LEMMA AnswerStep ==
  ASSUME IInv, NEW h \in Host, NEW n \in 0..Len(sync[h].snapshot.events), HubAnswers(h, n), UNCHANGED around
  PROVE  IInv'
  <1>0. Types /\ HubInv
    BY DEF IInv
  <1>1. /\ sync[h] \in Upload /\ sync[h].snapshot \in Batch /\ sync[h].snapshot.events \in Seq(Event)
        /\ hub \in Seq(Event) /\ store.events \in Seq(Event) /\ store \in Record
        /\ IsPrefix(sync[h].snapshot.events, store.events)
    BY EntryIs
  <1>2. PICK batch \in Batch : batch = sync[h].snapshot
    BY <1>1
  <1>3. hub' \in Seq(Event) /\ Len(hub) <= Len(hub') /\ IsPrefix(hub', store.events)
    BY <1>0, <1>1, <1>2, HubHoldsIs DEF HubAnswers, HubInv
  <1>4. /\ HubInv'
    <2>1. Len(hub) \in Nat /\ Len(hub') \in Nat /\ Len(store.events) \in Nat
      BY <1>1, <1>3
    <2> QED
      BY <1>0, <1>3, <2>1 DEF HubInv, HubAnswers
  <1>5. /\ sync' \in [Host -> Upload] /\ \A g \in Host : g # h => sync'[g] = sync[g]
        /\ sync'[h].phase = "queued" /\ sync'[h].snapshot = sync[h].snapshot /\ sync'[h].last = Len(hub')
    <2>1. sync' = [sync EXCEPT ![h] = [sync[h] EXCEPT !.phase = "queued", !.last = Len(hub')]]
      BY DEF HubAnswers
    <2>2. Len(hub') \in Nat
      BY <1>3
    <2>3. [sync[h] EXCEPT !.phase = "queued", !.last = Len(hub')] \in Upload
      BY <1>1, <2>2 DEF Upload
    <2>4. sync[h] = [phase |-> sync[h].phase, snapshot |-> sync[h].snapshot, last |-> sync[h].last]
      BY <1>1 DEF Upload
    <2> QED
      BY <1>0, <2>1, <2>3, <2>4 DEF Types
  <1>6. PICK x \in {"ack", "failure"} : x = IF AckIsValid(h, Len(hub')) THEN "ack" ELSE "failure"
    OBVIOUS
  <1>7. x = "ack" => Len(hub') <= Len(sync[h].snapshot.events)
    BY <1>6 DEF AckIsValid
  <1>8. Len(hub') <= Len(hub')
    BY <1>3
  <1>9. /\ box' = [box EXCEPT ![h].queue = Append(@, x)] /\ x \in Uploading /\ sync[h].phase # "queued"
        /\ UNCHANGED <<around, store, todo, captured, begun, crashes>>
        /\ wants' \in SUBSET Host /\ stray' \in SUBSET Batch
    BY <1>0, <1>6 DEF HubAnswers, Types
  <1> QED
    BY <1>3, <1>4, <1>5, <1>7, <1>8, <1>9, AppendUpload

LEMMA FailsStep ==
  ASSUME IInv, NEW h \in Host, RequestFails(h), UNCHANGED around
  PROVE  IInv'
  <1>0. Types /\ HubInv
    BY DEF IInv
  <1>1. /\ sync[h] \in Upload /\ sync[h].snapshot \in Batch /\ hub \in Seq(Event) /\ UploadOf(box[h], sync[h])
        /\ IsPrefix(sync[h].snapshot.events, store.events)
    BY EntryIs
  <1>2. stray' \in SUBSET Batch /\ \A batch \in stray' : batch \in stray \/ batch = sync[h].snapshot
    BY <1>0, <1>1 DEF RequestFails, Types
  <1>3. HubInv'
    BY <1>0, <1>1, <1>2 DEF HubInv, RequestFails
  <1>4. /\ sync' \in [Host -> Upload] /\ \A g \in Host : g # h => sync'[g] = sync[g]
        /\ sync'[h].phase = "queued" /\ sync'[h].snapshot = sync[h].snapshot /\ sync'[h].last = sync[h].last
    <2>1. sync' = [sync EXCEPT ![h] = [sync[h] EXCEPT !.phase = "queued"]]
      BY DEF RequestFails
    <2>2. [sync[h] EXCEPT !.phase = "queued"] \in Upload
      BY <1>1 DEF Upload
    <2>3. sync[h] = [phase |-> sync[h].phase, snapshot |-> sync[h].snapshot, last |-> sync[h].last]
      BY <1>1 DEF Upload
    <2> QED
      BY <1>0, <2>1, <2>2, <2>3 DEF Types
  <1>5. /\ box' = [box EXCEPT ![h].queue = Append(@, "failure")] /\ sync[h].phase # "queued" /\ hub' = hub
        /\ UNCHANGED <<around, store, todo, captured, begun, crashes>> /\ wants' \in SUBSET Host
    BY <1>0 DEF RequestFails, Types
  <1>6. Len(hub) <= Len(hub') /\ sync'[h].last <= Len(hub') /\ hub' \in Seq(Event)
    BY <1>1, <1>4, <1>5 DEF UploadOf
  <1> QED
    BY <1>2, <1>3, <1>4, <1>5, <1>6, AppendUpload

LEMMA StrayStep ==
  ASSUME IInv, NEW batch \in stray, NEW n \in 0..Len(batch.events), StrayArrives(batch, n), UNCHANGED around
  PROVE  IInv'
  <1>0. /\ Types /\ RecordInv /\ HubInv /\ SaveInv /\ UploadInv /\ CapturedIsKept /\ ShownInv
        /\ UNCHANGED <<around, store, box, sync, todo, captured, begun, wants, crashes>>
    BY DEF IInv, StrayArrives
  <1>1. batch \in Batch /\ hub \in Seq(Event) /\ store.events \in Seq(Event)
    BY <1>0 DEF Types, Record
  <1>2. hub' \in Seq(Event) /\ Len(hub) <= Len(hub') /\ IsPrefix(hub', store.events)
    BY <1>0, <1>1, HubHoldsIs DEF HubInv, StrayArrives
  <1>3. Len(hub) \in Nat /\ Len(hub') \in Nat /\ Len(store.events) \in Nat
    BY <1>1, <1>2
  <1>4. Types'
    BY <1>0, <1>2 DEF Types, StrayArrives, MaxCrashes
  <1>5. HubInv'
    BY <1>0, <1>2, <1>3 DEF HubInv, StrayArrives
  <1>6. SaveInv'
    <2> SUFFICES ASSUME NEW g \in Host, box[g].saving # NoSave PROVE Extends(box[g])'
      BY <1>0 DEF SaveInv, Extends
    <2>1. box[g].saving \in [record : Record, count : Nat]
      BY <1>0 DEF Types, Entry
    <2>2. box[g].saving.record \in Record
      BY <2>1
    <2>3. Len(box[g].saving.record.events) \in Nat
      BY <2>2 DEF Record
    <2> QED
      BY <1>0, <1>2, <1>3, <2>3 DEF SaveInv, Extends
  <1>7. UploadInv'
    <2> SUFFICES ASSUME NEW g \in Host PROVE UploadOf(box[g], sync[g])'
      BY DEF UploadInv
    <2>1. sync[g].last \in Nat
      BY <1>0 DEF Types, Upload
    <2> QED
      BY <1>0, <1>2, <1>3, <2>1 DEF UploadInv, UploadOf
  <1>8. RecordInv' /\ CapturedIsKept' /\ ShownInv'
    BY <1>0 DEF RecordInv, CapturedIsKept, ShownInv, Behind, ShowsUnsaved
  <1> QED
    BY <1>4, <1>5, <1>6, <1>7, <1>8 DEF IInv

LEMMA CrashStep ==
  ASSUME IInv, NEW h \in Host, Crash(h), UNCHANGED around
  PROVE  IInv'
  <1>0. /\ Types /\ RecordInv /\ HubInv /\ around' = around
        /\ store' = store /\ hub' = hub /\ begun' = begun
        /\ box' = [box EXCEPT ![h] = Closed] /\ sync' = [sync EXCEPT ![h] = NotSyncing]
        /\ captured' = [captured EXCEPT ![h] = {}]
    BY DEF IInv, Crash
  <1>1. /\ sync[h].snapshot \in Batch /\ hub \in Seq(Event) /\ IsPrefix(sync[h].snapshot.events, store.events)
        /\ store \in Record /\ store.events \in Seq(Event)
    BY EntryIs
  <1>2. /\ box' \in [Host -> Entry] /\ sync' \in [Host -> Upload] /\ captured' \in [Host -> SUBSET Event]
        /\ box'[h] = Closed /\ sync'[h] = NotSyncing /\ captured'[h] = {}
        /\ \A g \in Host : g # h => box'[g] = box[g] /\ sync'[g] = sync[g] /\ captured'[g] = captured[g]
    BY <1>0, ClosedIs, NotSyncingIs DEF Types
  <1>3. stray' \in SUBSET Batch /\ \A batch \in stray' : batch \in stray \/ batch = sync[h].snapshot
    BY <1>0, <1>1 DEF Crash, Types
  <1>4. HubInv'
    BY <1>0, <1>1, <1>3 DEF HubInv
  <1>5. crashes' \in 0..MaxCrashes
    <2>1. crashes \in Nat /\ MaxCrashes \in Nat
      BY <1>0, CrashesAreBounded DEF Types, MaxCrashes
    <2> QED
      BY <2>1 DEF Crash
  <1>6. Types'
    <2>1. todo' \in [Host -> Seq(Event)] /\ wants' \in SUBSET Host
      BY <1>0 DEF Types, Crash
    <2> QED
      BY <1>0, <1>2, <1>3, <1>5, <2>1 DEF Types, MaxCrashes
  <1>7. Behind(box[h].record)' /\ box'[h].record.acknowledged <= Len(box'[h].record.events)
    <2>1. Behind(NoRecord)'
      BY <1>0 DEF RecordInv, Behind
    <2>2. NoRecord.acknowledged <= Len(NoRecord.events)
      BY NoRecordIs
    <2> QED
      BY <1>2, <2>1, <2>2, ClosedIs DEF Behind
  <1>8. Extends(box[h])' /\ ShowsUnsaved(box[h])'
    BY <1>2, ClosedIs DEF Extends, ShowsUnsaved
  <1>9. UploadOf(box[h], sync[h])'
    <2>1. <<>> \in Seq(Event) /\ DOMAIN <<>> = {} /\ 0 <= Len(hub')
      BY <1>0, <1>1
    <2>2. IsPrefix(<<>>, <<>>)
      BY <2>1, PrefixOfItself
    <2> QED
      BY <1>2, <2>1, <2>2, ClosedIs, NotSyncingIs, NoRecordIs DEF UploadOf
  <1>10. IsPrefix(store.events, store'.events) /\ store'.acknowledged <= Len(store'.events) /\ Len(hub) <= Len(hub')
    BY <1>0, <1>1, PrefixOfItself DEF RecordInv
  <1> QED
    BY <1>0, <1>2, <1>4, <1>6, <1>7, <1>8, <1>9, <1>10, Local

-----------------------------------------------------------------------------

LEMMA StepInv == IInv /\ [Next]_<<vars, around>> => IInv'
  <1> SUFFICES ASSUME IInv, [Next]_<<vars, around>> PROVE IInv'
    OBVIOUS
  <1>1. CASE UNCHANGED <<vars, around>>
    <2>1. Types' /\ RecordInv' /\ HubInv'
      BY <1>1 DEF IInv, Types, RecordInv, HubInv, Behind, MaxCrashes, vars
    <2>2. SaveInv' /\ UploadInv' /\ CapturedIsKept' /\ ShownInv'
      BY <1>1 DEF IInv, SaveInv, UploadInv, CapturedIsKept, ShownInv, Extends, UploadOf, ShowsUnsaved, vars
    <2> QED
      BY <2>1, <2>2 DEF IInv
  <1>2. CASE Step /\ UNCHANGED around
    <2>1. ASSUME NEW h \in Host, Work(h) PROVE IInv'
      BY <1>2, <2>1, LoadStep, BeginStep, OverStep, SavedStep, NotSavedStep DEF Work
    <2>2. ASSUME NEW h \in Host, RequestEnds(h) PROVE IInv'
      BY <1>2, <2>2, AnswerStep, FailsStep DEF RequestEnds
    <2> QED
      BY <1>2, <2>1, <2>2, CaptureStep, UploadStep, StrayStep, CrashStep DEF Step
  <1> QED
    BY <1>1, <1>2 DEF Next

LEMMA Invariance == Spec => []IInv
  <1> QED
    BY InitInv, StepInv, PTL DEF Spec

LEMMA InvImpliesTypes == IInv => TypeOK
  <1> SUFFICES ASSUME IInv PROVE TypeOK
    OBVIOUS
  <1>1. Types /\ RecordInv
    BY DEF IInv
  <1>2. ASSUME NEW h \in Host
        PROVE  /\ box[h].record \in Record /\ box[h].pending \in Seq(Event)
               /\ box[h].status \in {"pending", "synced", "storage_error"} /\ box[h].queue \in Seq(Job)
               /\ box[h].saving \in [record : Record, count : Nat] \cup {NoSave}
               /\ sync[h].phase \in {"none", "queued", "sending"} /\ sync[h].snapshot \in Batch /\ sync[h].last \in Nat
    BY <1>1 DEF Types, Entry, Upload
  <1> QED
    BY <1>1, <1>2 DEF TypeOK, Types, RecordInv

\* The durable record, what every host keeps of it and what is on its way keep
\* their shapes, and no host acknowledges more events than its record has.
THEOREM TypeCorrect == Spec => []TypeOK
  <1> QED
    BY Invariance, InvImpliesTypes, PTL

LEMMA InvImpliesAgrees == IInv => HubAgrees
  <1> SUFFICES ASSUME IInv PROVE HubAgrees
    OBVIOUS
  <1>1. Types /\ HubInv
    BY DEF IInv
  <1>2. hub \in Seq(Event) /\ store.events \in Seq(Event)
    BY <1>1 DEF Types, Record
  <1>3. ASSUME store.syncState = "synced" PROVE hub = store.events
    <2> DEFINE s == hub
               t == store.events
    <2>1. s \in Seq(Event) /\ t \in Seq(Event) /\ Len(s) \in Nat /\ Len(t) \in Nat
      BY <1>2
    <2>2. Len(t) <= Len(s) /\ Len(s) <= Len(t) /\ \A i \in 1..Len(s) : s[i] = t[i]
      BY <1>1, <1>2, <1>3, PrefixIs DEF HubInv
    <2> HIDE DEF s, t
    <2>3. s = t
      BY <2>1, <2>2, SeqEqual
    <2> QED
      BY <2>3 DEF s, t
  <1> QED
    BY <1>1, <1>3 DEF HubAgrees, HubHoldsAPrefix, SyncedMeansHeld, HubInv

\* Whatever interleaves with the save that records an upload's outcome - captures,
\* other hosts' saves, lost answers, late requests, crashes - BailingHub holds a
\* prefix of the durable transcript, and all of it when the record says "synced"
\* (sync and persist in lib/conversation-outbox.js).
THEOREM HubAgreesHolds == Spec => []HubAgrees
  <1> QED
    BY Invariance, InvImpliesAgrees, PTL

LEMMA InvImpliesKept == IInv => NothingIsLost
  <1> SUFFICES ASSUME IInv PROVE NothingIsLost
    OBVIOUS
  <1>1. ASSUME NEW h \in Host, box[h].queue = <<>>, box[h].pending # <<>> PROVE box[h].status = "storage_error"
    <2>1. ShowsUnsaved(box[h])
      BY DEF IInv, ShownInv
    <2>2. DOMAIN box[h].queue = {}
      BY <1>1
    <2> QED
      BY <1>1, <2>1, <2>2 DEF ShowsUnsaved
  <1> QED
    BY <1>1 DEF IInv, NothingIsLost, UnsavedIsShown

\* No event a living host captured is ever neither stored nor pending, and an
\* entry with nothing under way and unsaved events shows a storage error,
\* whatever failed and whatever was captured while it was being saved
\* (persist's splice and its status in lib/conversation-outbox.js).
THEOREM NothingIsLostHolds == Spec => []NothingIsLost
  <1> QED
    BY Invariance, InvImpliesKept, PTL
=============================================================================
