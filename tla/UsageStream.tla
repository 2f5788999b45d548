---------------------------- MODULE UsageStream ----------------------------
(***************************************************************************)
(* One streamed model request on its way to the agent loop: complete with  *)
(* onDelta (lib/model-gateway-transport.js), the queue of stream           *)
(* (lib/usage-model-transport.js), and the conversion to chunks            *)
(* (lib/usage-llm-stream.js, lib/usage-provider-stream.js).  Four parties  *)
(* wait for each other: the producer for the acknowledgement of every      *)
(* preview, the pump for the stream, the parser for the body, the loop for *)
(* a chunk.                                                                *)
(*                                                                         *)
(* A preview is a piece of the response, known by its number.  A gateway   *)
(* sends the provider's own bytes, which the host's parser reads, or       *)
(* deltas; the format of a request never changes.  Text chunks may be      *)
(* shown early, "tool" and "finish" let the loop act.                      *)
(***************************************************************************)
EXTENDS Naturals, Sequences, SequencesExt

CONSTANT MaxPieces    \* bound: pieces of a response

ASSUME MaxPiecesIsNat == MaxPieces \in Nat

VARIABLES
  format,   \* "provider" or "delta"
  sent,     \* external: pieces the gateway has sent
  result,   \* the operation it has answered with, and the response it has saved
  producer, \* complete: where it is, and the piece in its hands
  record,   \* the state of the request in the local records
  closed,   \* the user's turn was ended or cancelled
  aborted,  \* the stream's signal
  queue,    \* stream's queue of previews and the last event
  pump,     \* who takes from the stream: the pump, or the loop itself
  header,   \* a provider response was opened
  body,     \* what has been put in the body
  source,   \* the body's stream: "open", "closed" or "errored"
  cancelled,\* the body is not read any more
  receipt,  \* receiptReady
  reader,   \* the chunk generator, and the chunk that waits for the receipt
  read,     \* pieces of the body the parser has read
  shown,    \* history: the text the loop was given
  released  \* history: the chunks to act on it was given

hub == <<format, sent, result>>
turn == <<closed, aborted>>
response == <<header, body, source, cancelled, receipt>>
loop == <<read, shown, released>>
streamVars == <<hub, producer, record, turn, queue, pump, response, reader, loop>>

Pieces == {[i \in 1..n |-> i] : n \in 0..MaxPieces}
Unknown == [state |-> "none", saved |-> <<>>]
Preview(p) == [kind |-> "preview", piece |-> p]
Receipt(active) == [kind |-> "operation", active |-> active]
Error == [kind |-> "error"]
Result == [state : {"none", "complete", "other", "failed"}, saved : Pieces]
Producer == [pc : {"idle", "frame", "primary", "offered", "record", "deliver", "unknown", "over"},
             piece : 0..MaxPieces]
Reader == [pc : {"idle", "opening", "parsing", "gate", "held", "tail", "leaving", "final", "over"},
           chunk : {"none", "tool", "finish"}]
Text == Seq(1..MaxPieces)
Queue == {<<>>, <<Error>>} \cup {<<Preview(p)>> : p \in 1..MaxPieces} \cup {<<Receipt(b)>> : b \in BOOLEAN}

StreamTypeOK ==
  /\ format \in {"provider", "delta"} /\ sent \in 0..MaxPieces
  /\ result \in Result /\ producer \in Producer /\ queue \in Queue /\ reader \in Reader
  /\ record \in {"prepared", "completed", "unknown"} /\ closed \in BOOLEAN /\ aborted \in BOOLEAN
  /\ pump \in {"idle", "waiting", "holding", "leaving", "done", "failed"}
  /\ header \in BOOLEAN /\ body \in Text
  /\ source \in {"open", "closed", "errored"} /\ cancelled \in BOOLEAN
  /\ receipt \in {"awaited", "ready", "refused"}
  /\ read \in Nat /\ shown \in Text /\ released \subseteq {"tool", "finish"}

StreamInit ==
  /\ format \in {"provider", "delta"} /\ sent = 0 /\ result = Unknown
  /\ producer = [pc |-> "idle", piece |-> 0] /\ record = "prepared"
  /\ closed = FALSE /\ aborted = FALSE /\ queue = <<>> /\ pump = "idle"
  /\ header = FALSE /\ body = <<>> /\ source = "open" /\ cancelled = FALSE /\ receipt = "awaited"
  /\ reader = [pc |-> "idle", chunk |-> "none"]
  /\ read = 0 /\ shown = <<>> /\ released = {}

-----------------------------------------------------------------------------
(* The producer: complete *)

Silenced == aborted \/ closed
To(pc) == producer' = [producer EXCEPT !.pc = pc]

\* onDelta waits for the acknowledgement.
Acknowledged == IF producer.pc = "offered" THEN [producer EXCEPT !.pc = "frame"] ELSE producer

\* external: the gateway sends the next piece.
Frame ==
  /\ producer.pc = "frame" /\ result.state = "none" /\ sent < MaxPieces
  /\ sent' = sent + 1
  /\ IF Silenced THEN UNCHANGED producer ELSE producer' = [pc |-> "primary", piece |-> sent + 1]
  /\ UNCHANGED <<format, result, record, turn, queue, pump, response, reader, loop>>

Offered == "offered"

\* The host is sound, and the piece is offered; nobody waits for a stream that
\* is stopped.
Offer ==
  /\ producer.pc = "primary"
  /\ IF pump \in {"leaving", "done", "failed"} THEN To("frame") /\ UNCHANGED queue
     ELSE To(Offered) /\ queue' = Append(queue, Preview(producer.piece))
  /\ UNCHANGED <<hub, record, turn, pump, response, reader, loop>>

\* external: the operation; the response the hub saved need not be what it sent.
Operation ==
  /\ producer.pc = "frame" /\ result.state = "none"
  /\ \E state \in {"complete", "other", "failed"}, saved \in Pieces :
       /\ state # "complete" => saved = <<>>
       /\ result' = [state |-> state, saved |-> saved]
  /\ UNCHANGED <<format, sent, producer, record, turn, queue, pump, response, reader, loop>>

\* The gateway's stream ends with an operation; or it ends or breaks without one,
\* or was refused before it was sent.
StreamEnds ==
  /\ producer.pc = "frame"
  /\ \/ result.state # "none" /\ To("record")
     \/ To("unknown")
  /\ UNCHANGED <<hub, record, turn, queue, pump, response, reader, loop>>

HostUnsound ==
  /\ producer.pc = "primary" /\ To("unknown")
  /\ UNCHANGED <<hub, record, turn, queue, pump, response, reader, loop>>

\* The operation is recorded, and only then delivered.
Record ==
  /\ producer.pc = "record" /\ To("deliver")
  /\ record' = IF result.state = "complete" THEN "completed" ELSE "unknown"
  /\ UNCHANGED <<hub, turn, queue, pump, response, reader, loop>>

Put(item) == queue' = Append(queue, item) /\ To("over")

\* a faulty MayResume: a turn that ended meanwhile goes on
MayResumeComplete == result.state = "complete"
\* delivery: the response may resume the turn
MayResume == result.state = "complete" /\ ~ Silenced

Deliver ==
  /\ producer.pc = "deliver" /\ Put(Receipt(MayResume))
  /\ UNCHANGED <<hub, record, turn, pump, response, reader, loop>>

\* A save, a check or the host's status fails.
Fails ==
  /\ producer.pc \in {"record", "deliver", "unknown"} /\ Put(Error)
  /\ record' \in IF producer.pc = "unknown" THEN {record, "unknown"} ELSE {record}
  /\ UNCHANGED <<hub, turn, pump, response, reader, loop>>

-----------------------------------------------------------------------------
(* stream, and who takes from it *)

\* A preview of a turn that is over is acknowledged and dropped.
Drop ==
  /\ pump = "waiting" /\ queue # <<>> /\ Head(queue).kind = "preview" /\ Silenced
  /\ queue' = <<>> /\ producer' = Acknowledged
  /\ UNCHANGED <<hub, record, turn, pump, response, reader, loop>>

\* The stream is left: by an error, by its reader or by its last event; who waits
\* for an acknowledgement is let go.
Leave ==
  /\ aborted' = TRUE /\ UNCHANGED closed
  /\ queue' = <<>> /\ producer' = Acknowledged
  /\ pump' = "leaving"

Takes(kind) ==
  /\ pump = "waiting" /\ queue # <<>> /\ Head(queue).kind = kind
  /\ kind = "preview" => ~ Silenced

\* The pieces are the saved response's.
Matches(text) == text = result.saved

\* open may fail, or append after it: not of this response, or too much.
OpensAndFails ==
  /\ Leave /\ header' \in {header, TRUE}
  /\ UNCHANGED <<body, source, cancelled, receipt>>

\* usageNativeModelChunks, the pump: a piece goes to the body.
PumpPreview ==
  LET p == Head(queue).piece IN
  /\ format = "provider" /\ Takes("preview")
  /\ \/ /\ header' = TRUE /\ body' = Append(body, p)
        /\ queue' = <<>> /\ producer' = Acknowledged
        /\ UNCHANGED <<pump, turn, source, cancelled, receipt>>
     \/ OpensAndFails
  /\ UNCHANGED <<hub, record, reader, loop>>

\* a faulty AfterEnd: the body is left open
AfterEndOpen(state) == source
\* The body is closed or failed, unless nobody reads it any more.
AfterEnd(state) == IF cancelled THEN source ELSE state

\* The receipt: an active one, whose response is the body, closes the body.
PumpReceipt ==
  LET text == IF header THEN body ELSE result.saved IN
  /\ format = "provider" /\ Takes("operation")
  /\ \/ /\ Head(queue).active /\ Matches(text)
        /\ header' = TRUE /\ body' = text /\ source' = AfterEnd("closed")
        /\ receipt' = "ready" /\ pump' = "done"
        /\ aborted' = TRUE /\ queue' = <<>> /\ UNCHANGED <<closed, cancelled, producer>>
     \/ Head(queue).active /\ OpensAndFails
     \/ ~ Head(queue).active /\ Leave /\ UNCHANGED response
  /\ UNCHANGED <<hub, record, reader, loop>>

\* An error of the request, in either format.
TakeError ==
  /\ Takes("error") /\ Leave
  /\ reader' = IF format = "delta" THEN [reader EXCEPT !.pc = "leaving"] ELSE reader
  /\ UNCHANGED <<hub, record, response, loop>>

\* a faulty AfterFailure: only the response is refused
AfterFailureAwaited == receipt
AfterFailure == "refused"

\* The stream has waited for the request; the pump fails, and what waits for the
\* response or the receipt with it.
PumpFails ==
  /\ format = "provider" /\ pump = "leaving" /\ producer.pc = "over"
  /\ pump' = "failed" /\ receipt' = AfterFailure
  /\ source' = IF header THEN AfterEnd("errored") ELSE source
  /\ UNCHANGED <<hub, producer, record, turn, queue, header, body, cancelled, reader, loop>>

-----------------------------------------------------------------------------
(* usageNativeModelChunks, the generator, with the parser of the host *)

Reading(pc) == format = "provider" /\ reader.pc = pc
ReaderTo(pc) == reader' = [reader EXCEPT !.pc = pc]
Give(chunk) ==
  /\ reader' = [pc |-> "held", chunk |-> "none"]
  /\ released' = released \cup {chunk}

\* The response is there, or never will be.
Open ==
  /\ Reading("opening")
  /\ \/ header /\ ReaderTo("parsing") /\ UNCHANGED cancelled
     \/ ~ header /\ pump = "failed" /\ ReaderTo("final") /\ cancelled' = TRUE
  /\ UNCHANGED <<hub, producer, record, turn, queue, pump, header, body, source, receipt, loop>>

\* The parser has read what is there, and waits for more of it or for its end.
Waits == Reading("parsing") /\ source = "open" /\ ~ cancelled /\ read = Len(body)

\* The parser reads a piece and shows its text.
ParseText ==
  /\ Reading("parsing") /\ ~ cancelled /\ source # "errored" /\ read < Len(body)
  /\ read' = read + 1 /\ shown' = Append(shown, body[read + 1])
  /\ ReaderTo("held")
  /\ UNCHANGED <<hub, producer, record, turn, queue, pump, response, released>>

\* It has seen [DONE], and closes its reader.
ParseDone ==
  /\ Reading("parsing") /\ ~ cancelled /\ (read > 0 \/ source = "closed")
  /\ cancelled' = TRUE
  /\ UNCHANGED <<hub, producer, record, turn, queue, pump, header, body, source, receipt, reader, loop>>

\* It has a tool call or the end for the loop: not before the receipt.
ParseExecutable ==
  /\ Reading("parsing") /\ "finish" \notin released
  /\ \E chunk \in {"tool", "finish"} \ released : reader' = [pc |-> "gate", chunk |-> chunk]
  /\ UNCHANGED <<hub, producer, record, turn, queue, pump, response, loop>>

\* a faulty GateOpens: opens with the response
GateOpensEarly == header
GateOpens == receipt = "ready"

Gate ==
  /\ Reading("gate")
  /\ \/ GateOpens /\ Give(reader.chunk) /\ UNCHANGED cancelled
     \/ receipt = "refused" /\ ReaderTo("final") /\ cancelled' = TRUE /\ UNCHANGED released
  /\ UNCHANGED <<hub, producer, record, turn, queue, pump, header, body, source, receipt, read, shown>>

\* It returns, with or without an end; or it throws, or the body has failed.
ParserReturns ==
  /\ Reading("parsing") /\ ReaderTo("tail")
  /\ UNCHANGED <<hub, producer, record, turn, queue, pump, response, loop>>

ParserThrows ==
  /\ Reading("parsing") /\ ReaderTo("final") /\ cancelled' = TRUE
  /\ UNCHANGED <<hub, producer, record, turn, queue, pump, header, body, source, receipt, loop>>

ReturnsAfterReceipt ==
  /\ Reading("tail") /\ receipt # "awaited"
  /\ ReaderTo("final") /\ cancelled' = TRUE
  /\ UNCHANGED <<hub, producer, record, turn, queue, pump, header, body, source, receipt, loop>>

\* finally: the original operation is drained.
Drained ==
  /\ Reading("final") /\ pump \in {"done", "failed"}
  /\ ReaderTo("over")
  /\ UNCHANGED <<hub, producer, record, turn, queue, pump, response, loop>>

-----------------------------------------------------------------------------
(* legacyChunks: the loop itself takes from the stream *)

\* The chunk is held with its event, which is acknowledged when the loop goes on.
LegacyDelta ==
  /\ format = "delta" /\ Takes("preview")
  /\ \/ /\ pump' = "holding" /\ queue' = <<>> /\ ReaderTo("held")
        /\ shown' = Append(shown, Head(queue).piece)
        /\ UNCHANGED <<producer, turn, read, released>>
     \/ Leave /\ ReaderTo("leaving") /\ UNCHANGED loop
  /\ UNCHANGED <<hub, record, response>>

\* What was shown must be how the whole response begins.
Continues == IsPrefix(shown, result.saved)

\* The whole response is checked before a chunk of it is given.
LegacyReceipt ==
  /\ format = "delta" /\ Takes("operation")
  /\ IF Head(queue).active /\ Continues
     THEN /\ pump' = "holding" /\ queue' = <<>>
          /\ shown' = result.saved
          /\ ReaderTo("held") /\ receipt' = "ready"
          /\ UNCHANGED <<producer, turn, read, released, header, body, source, cancelled>>
     ELSE Leave /\ ReaderTo("leaving") /\ UNCHANGED <<loop, response>>
  /\ UNCHANGED <<hub, record>>

LegacyLeft ==
  /\ format = "delta" /\ reader.pc = "leaving" /\ producer.pc = "over"
  /\ ReaderTo("over") /\ pump' = "failed"
  /\ UNCHANGED <<hub, producer, record, turn, queue, response, loop>>

-----------------------------------------------------------------------------
(* The agent loop *)

Start ==
  /\ reader.pc = "idle" /\ ReaderTo("opening")
  /\ pump' = "waiting" /\ producer.pc = "idle" /\ To("frame")
  /\ UNCHANGED <<hub, record, turn, queue, response, loop>>

Held(f) == format = f /\ reader.pc = "held"

\* The loop asks for the next chunk: of the parser,
PullParsed ==
  /\ Held("provider") /\ ReaderTo("parsing")
  /\ UNCHANGED <<hub, producer, record, turn, queue, pump, response, loop>>

\* of the deltas,
PullDelta ==
  /\ Held("delta") /\ receipt = "awaited"
  /\ ReaderTo("opening") /\ pump' = "waiting" /\ producer' = Acknowledged
  /\ UNCHANGED <<hub, record, turn, queue, response, loop>>

\* of the whole response,
PullBlock ==
  /\ Held("delta") /\ receipt = "ready" /\ "finish" \notin released
  /\ \E chunk \in {"tool", "finish"} \ released : Give(chunk)
  /\ UNCHANGED <<hub, producer, record, turn, queue, pump, response, read, shown>>

\* or learns that there is none.
PullEnd ==
  /\ Held("delta") /\ "finish" \in released
  /\ ReaderTo("over") /\ pump' = "done" /\ aborted' = TRUE
  /\ UNCHANGED <<hub, producer, record, closed, queue, response, loop>>

\* It stops before the end: the pump goes on, the legacy stream is left.
Stop ==
  /\ \/ /\ Held("provider") /\ ReaderTo("final") /\ cancelled' = TRUE
        /\ UNCHANGED <<producer, turn, queue, pump>>
     \/ /\ Held("delta") /\ Leave /\ ReaderTo("leaving") /\ UNCHANGED cancelled
  /\ UNCHANGED <<hub, record, header, body, source, receipt, loop>>

\* The user's turn ends or is cancelled; the host gives its signal.
Close ==
  /\ ~ closed /\ closed' = TRUE
  /\ UNCHANGED <<hub, producer, record, aborted, queue, pump, response, reader, loop>>

Abort ==
  /\ ~ aborted /\ aborted' = TRUE
  /\ UNCHANGED <<hub, producer, record, closed, queue, pump, response, reader, loop>>

-----------------------------------------------------------------------------
Producing == Frame \/ Offer \/ Operation \/ StreamEnds \/ HostUnsound \/ Record \/ Deliver \/ Fails
Taking == Drop \/ PumpPreview \/ PumpReceipt \/ TakeError \/ PumpFails \/ LegacyDelta \/ LegacyReceipt \/ LegacyLeft
Parsing == Open \/ ParseText \/ ParseDone \/ ParseExecutable \/ Gate \/ ParserReturns \/ ParserThrows \/ ReturnsAfterReceipt \/ Drained
Asking == PullParsed \/ PullDelta \/ PullBlock \/ PullEnd

StreamNext == Producing \/ Taking \/ Parsing \/ Start \/ Asking \/ Stop \/ Close \/ Abort

StreamSpec == StreamInit /\ [][StreamNext]_streamVars

\* The gateway's stream ends, and promises go on.  A parser goes on and ends while
\* there is something to read, or the body has ended; one that waits may wait for
\* ever.  Of the loop nothing is assumed.
FairStream ==
  StreamSpec /\ WF_streamVars(Producing) /\ WF_streamVars(Taking) /\ WF_streamVars(Parsing /\ ~ Waits)

-----------------------------------------------------------------------------
(* Properties *)

\* Whatever the parser and the loop do: a tool block or an end is given only
\* when the original response was recorded as complete, and with text that this
\* response begins with ("executable tool blocks and finish wait for the original
\* durable receipt", docs/USAGE_SERVICE.md).
ExecutableIsRecorded ==
  released # {} => record = "completed" /\ result.state = "complete" /\ IsPrefix(shown, result.saved)

\* A result that comes after the turn's end never lets the loop act ("Ending/
\* cancelling the user input immediately fences late results").
LateNeverActs == [](closed /\ producer.pc # "over" => [](released = {}))

\* Nobody waits for ever, not even for an open body in which nothing comes any more:
\* the loop gets a chunk, an error or the end each time it asks or stops
\* (controller.close and controller.error, usage-provider-stream.js).
LoopGetsAnswer == reader.pc # "idle" ~> reader.pc \in {"held", "over"}
============================================================================
