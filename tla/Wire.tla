-------------------------------- MODULE Wire --------------------------------
(***************************************************************************)
(* The frames of crates/core/src/wire.rs on one direction of a stream: who *)
(* writes them (the writer task of the host, the joiner's write loop), the *)
(* buffer the stream keeps until it is flushed, the bytes on their way,    *)
(* and who reads them (read_frame under READ_TIMEOUT in the host's and in  *)
(* the joiner's reader, then decode_message).                              *)
(*                                                                         *)
(* Bytes pass in pieces of any length.  The stream may close at any        *)
(* moment, and then loses what it likes of the end of what was written.    *)
(* A foreign writer puts any bytes on it.                                  *)
(*                                                                         *)
(* A payload is a sequence of bytes; the sets JsonBytes and NotUtf8 stand  *)
(* for what serde_json and from_utf8 make of it.                           *)
(***************************************************************************)
EXTENDS Integers, Sequences, SequencesExt

CONSTANTS
  MaxPayload,   \* MAX_PAYLOAD_BYTES
  Payloads,     \* what serde_json::to_vec makes of the messages
  JsonBytes,    \* a payload of these bytes only is the JSON of a message
  NotUtf8,      \* a payload with one of these bytes is not UTF-8
  MaxMsgs,      \* bound: messages given to the writer
  ForeignBytes, \* the bytes a foreign writer uses
  MaxForeign    \* bound: how many of them

Byte == 0 .. 255

\* A number without its lowest byte; a u32 has four of them.
Upper(n) == n \div 256
Fits32(n) == Upper(Upper(Upper(n))) < 256

ASSUME WireAssumption ==
  /\ MaxPayload \in Nat \ {0} /\ Fits32(MaxPayload)
  /\ JsonBytes \subseteq Byte /\ NotUtf8 \subseteq Byte
  /\ JsonBytes \cap NotUtf8 = {}
  /\ Payloads \subseteq Seq(JsonBytes) /\ <<>> \notin Payloads
  /\ ForeignBytes \subseteq Byte /\ MaxMsgs \in Nat /\ MaxForeign \in Nat

VARIABLES
  from,       \* "host", "joiner" or "foreign"
  to,         \* "host" or "joiner"
  writer,     \* "greet", "greeting", "idle", "writing", "flushing", "stopped"
  given,      \* messages the writer has taken
  sent,       \* history: the payloads of the frames it has begun to write
  done,       \* how many of them write_frame has returned Ok for
  rest,       \* what is left of the frame being written
  buffer,     \* bytes the stream holds until they are flushed
  net,        \* bytes on their way
  open,       \* the stream is open
  reader,     \* "header", "payload", "decode", "ended"
  rejected,   \* it ended on what it had read
  frame,      \* what read_frame has read of the present frame
  delivered   \* history: the payloads decode_message accepted

writeVars == <<writer, given, sent, done, rest>>
readVars  == <<reader, rejected, frame, delivered>>
vars == <<from, to, writer, given, sent, done, rest, buffer, net, open, reader,
          rejected, frame, delivered>>

-----------------------------------------------------------------------------
(* The frame *)

\* u32::to_be_bytes and u32::from_be_bytes.
ToBe(n) == <<Upper(Upper(Upper(n))), Upper(Upper(n)) % 256, Upper(n) % 256, n % 256>>
FromBe(h) == ((h[1] * 256 + h[2]) * 256 + h[3]) * 256 + h[4]

\* encode_message: a payload within the limit gets its length in front.
Encodes(p) == Len(p) <= MaxPayload
Encode(p)  == ToBe(Len(p)) \o p

\* The length that a frame's header announces, and the test of it that
\* decode_message and read_frame share.
Announced(d) == FromBe(SubSeq(d, 1, 4))
InLimits(n)  == n # 0 /\ n <= MaxPayload

\* decode_message: the tests of the framing, the payload, and serde_json.
Framed(d)  == Len(d) >= 4 /\ InLimits(Announced(d)) /\ Len(d) >= 4 + Announced(d)
Payload(d) == SubSeq(d, 5, 4 + Announced(d))
IsJson(p)  == \A i \in DOMAIN p : p[i] \in JsonBytes
Decodes(d) == Framed(d) /\ IsJson(Payload(d))

IsUtf8(p) == \A i \in DOMAIN p : p[i] \notin NotUtf8

Pieces(s) == {<<SubSeq(s, 1, k), SubSeq(s, k + 1, Len(s))>> : k \in 1 .. Len(s)}

-----------------------------------------------------------------------------
Init ==
  /\ from \in {"host", "joiner", "foreign"} /\ to \in {"host", "joiner"} \ {from}
  /\ writer = IF from = "host" THEN "greet" ELSE "idle"
  /\ given = 0 /\ sent = <<>> /\ done = 0 /\ rest = <<>>
  /\ buffer = <<>> /\ net = <<>> /\ open = TRUE
  /\ reader = "header" /\ rejected = FALSE /\ frame = <<>> /\ delivered = <<>>

-----------------------------------------------------------------------------
(* The writer *)

Begin(p, state) ==
  /\ sent' = Append(sent, p) /\ rest' = Encode(p) /\ writer' = state

\* The notice that the host writes to a peer it has admitted.  Its failures are
\* ignored, here and below.
Greet(p) ==
  /\ writer = "greet"
  /\ IF Encodes(p) THEN Begin(p, "greeting")
                   ELSE writer' = "idle" /\ UNCHANGED <<sent, rest>>
  /\ UNCHANGED <<from, to, given, done, buffer, net, open, readVars>>

\* The next message.  What does not encode the host leaves out; the joiner's
\* loop ends with it.
Take(p) ==
  /\ writer = "idle" /\ from # "foreign" /\ given < MaxMsgs
  /\ given' = given + 1
  /\ IF Encodes(p) THEN Begin(p, "writing")
     ELSE /\ writer' = IF from = "host" THEN "idle" ELSE "stopped"
          /\ UNCHANGED <<sent, rest>>
  /\ UNCHANGED <<from, to, done, buffer, net, open, readVars>>

\* Mutant: the end of the write is not followed by a flush.
WritePieceNoFlush ==
  /\ writer \in {"greeting", "writing"} /\ open
  /\ \E s \in Pieces(rest) :
       /\ buffer' = buffer \o s[1] /\ rest' = s[2]
       /\ IF s[2] # <<>> THEN UNCHANGED <<writer, done>>
          ELSE /\ writer' = "idle"
               /\ done' = IF writer = "writing" THEN Len(sent) ELSE done
  /\ UNCHANGED <<from, to, given, sent, net, open, readVars>>

\* write_all hands over a piece.  The notice is not flushed.
WritePiece ==
  /\ writer \in {"greeting", "writing"} /\ open
  /\ \E s \in Pieces(rest) :
       /\ buffer' = buffer \o s[1] /\ rest' = s[2]
       /\ writer' = IF s[2] # <<>> THEN writer
                    ELSE IF writer = "greeting" THEN "idle" ELSE "flushing"
  /\ UNCHANGED <<from, to, given, sent, done, net, open, readVars>>

Flush ==
  /\ writer = "flushing" /\ open
  /\ net' = net \o buffer /\ buffer' = <<>>
  /\ writer' = "idle" /\ done' = Len(sent)
  /\ UNCHANGED <<from, to, given, sent, rest, open, readVars>>

\* Mutant: a frame that timed out is written again, in place of the next.
WriteTimesOutRetries ==
  /\ writer \in {"writing", "flushing"} /\ given < MaxMsgs
  /\ given' = given + 1
  /\ writer' = "writing" /\ rest' = Encode(Last(sent))
  /\ UNCHANGED <<from, to, sent, done, buffer, net, open, readVars>>

\* WRITE_TIMEOUT expires, in the middle of a frame or on the flush: the host's
\* writer breaks its loop, the joiner's returns the error.
WriteTimesOut ==
  /\ writer \in {"writing", "flushing"}
  /\ writer' = "stopped"
  /\ UNCHANGED <<from, to, given, sent, done, rest, buffer, net, open, readVars>>

\* The stream refuses.  The host's writer does not look at the error and takes
\* the next message.
WriteFails ==
  /\ writer \in {"greeting", "writing", "flushing"} /\ ~open
  /\ writer' = IF from = "host" THEN "idle" ELSE "stopped"
  /\ UNCHANGED <<from, to, given, sent, done, rest, buffer, net, open, readVars>>

-----------------------------------------------------------------------------
(* The stream *)

\* A full buffer goes out without a flush.
Spill ==
  /\ open
  /\ \E s \in Pieces(buffer) : net' = net \o s[1] /\ buffer' = s[2]
  /\ UNCHANGED <<from, to, writeVars, open, readVars>>

\* A refused write finds no stream: nothing is added to it any more.
Close ==
  /\ open
  /\ open' = FALSE /\ buffer' = <<>>
  /\ \E k \in 0 .. Len(net) : net' = SubSeq(net, 1, k)
  /\ UNCHANGED <<from, to, writeVars, readVars>>

Foreign(b) ==
  /\ from = "foreign" /\ open /\ given < MaxForeign
  /\ given' = given + 1
  /\ net' = Append(net, b)
  /\ UNCHANGED <<from, to, writer, sent, done, rest, buffer, open, readVars>>

-----------------------------------------------------------------------------
(* The reader *)

\* How much read_exact waits for.
Wanted == IF reader = "header" THEN 4 ELSE 4 + Announced(frame)

\* read_exact takes a piece of what it still needs.
ReadPiece ==
  /\ reader \in {"header", "payload"} /\ Len(frame) < Wanted
  /\ \E s \in Pieces(net) :
       /\ Len(frame) + Len(s[1]) <= Wanted
       /\ frame' = frame \o s[1] /\ net' = s[2]
  /\ UNCHANGED <<from, to, writeVars, buffer, open, reader, rejected, delivered>>

Reject == reader' = "ended" /\ rejected' = TRUE

\* Mutant: the announced length is not tested.
CheckHeaderNoLimit ==
  /\ reader = "header" /\ Len(frame) = 4
  /\ IF Announced(frame) # 0 THEN reader' = "payload" /\ UNCHANGED rejected
     ELSE Reject
  /\ UNCHANGED <<from, to, writeVars, buffer, net, open, frame, delivered>>

\* The header is complete: a length of zero or above the limit is an error.
CheckHeader ==
  /\ reader = "header" /\ Len(frame) = 4
  /\ IF InLimits(Announced(frame)) THEN reader' = "payload" /\ UNCHANGED rejected
     ELSE Reject
  /\ UNCHANGED <<from, to, writeVars, buffer, net, open, frame, delivered>>

\* Mutant: a read that came up short counts as the payload.
CheckPayloadShort ==
  /\ reader = "payload" /\ Len(frame) > 4
  /\ IF IsUtf8(SubSeq(frame, 5, Len(frame))) THEN reader' = "decode" /\ UNCHANGED rejected
     ELSE Reject
  /\ UNCHANGED <<from, to, writeVars, buffer, net, open, frame, delivered>>

\* The payload is complete: what is not UTF-8 is an error.
CheckPayload ==
  /\ reader = "payload" /\ Len(frame) = Wanted
  /\ IF IsUtf8(Payload(frame)) THEN reader' = "decode" /\ UNCHANGED rejected
     ELSE Reject
  /\ UNCHANGED <<from, to, writeVars, buffer, net, open, frame, delivered>>

\* read_frame has returned.  What does not decode ends the host's reader; the
\* joiner's goes on to the next frame.
Decode ==
  /\ reader = "decode"
  /\ IF Decodes(frame)
     THEN delivered' = Append(delivered, Payload(frame)) /\ reader' = "header"
          /\ UNCHANGED rejected
     ELSE /\ IF to = "host" THEN Reject ELSE reader' = "header" /\ UNCHANGED rejected
          /\ UNCHANGED delivered
  /\ frame' = <<>>
  /\ UNCHANGED <<from, to, writeVars, buffer, net, open>>

\* The end of the stream, or an error of it.
ReadEnds ==
  /\ reader \in {"header", "payload"} /\ Len(frame) < Wanted
  /\ ~open /\ net = <<>>
  /\ reader' = "ended"
  /\ UNCHANGED <<from, to, writeVars, buffer, net, open, rejected, frame, delivered>>

\* READ_TIMEOUT, which counts for the frame as a whole.
ReadTimesOut ==
  /\ reader \in {"header", "payload"} /\ Len(frame) < Wanted
  /\ reader' = "ended"
  /\ UNCHANGED <<from, to, writeVars, buffer, net, open, rejected, frame, delivered>>

-----------------------------------------------------------------------------
WriterStep == WritePiece \/ Flush \/ WriteFails
ReaderStep == ReadPiece \/ CheckHeader \/ CheckPayload \/ Decode \/ ReadEnds

Next ==
  \/ \E p \in Payloads : Greet(p) \/ Take(p)
  \/ WriterStep \/ WriteTimesOut
  \/ Spill \/ Close \/ \E b \in ForeignBytes : Foreign(b)
  \/ ReaderStep \/ ReadTimesOut

Spec == Init /\ [][Next]_vars

\* The tasks run and an open stream accepts and carries bytes.  Nobody owes a
\* message, and a buffer need not go out before it is flushed.
FairSpec == Spec /\ WF_vars(WriterStep) /\ WF_vars(ReaderStep)

-----------------------------------------------------------------------------
(* Properties *)

\* Every variable stays in its domain, and a reader never holds more than one
\* frame within the limit, whatever arrives (read_frame).
TypeOK ==
  /\ from \in {"host", "joiner", "foreign"} /\ to \in {"host", "joiner"}
  /\ writer \in {"greet", "greeting", "idle", "writing", "flushing", "stopped"}
  /\ given \in Nat /\ sent \in Seq(Seq(Byte)) /\ done \in Nat
  /\ rest \in Seq(Byte) /\ buffer \in Seq(Byte) /\ net \in Seq(Byte)
  /\ open \in BOOLEAN /\ rejected \in BOOLEAN
  /\ reader \in {"header", "payload", "decode", "ended"}
  /\ frame \in Seq(Byte) /\ Len(frame) <= 4 + MaxPayload
  /\ delivered \in Seq(Seq(Byte))

\* What read_frame returns is one whole frame: decode_message cuts exactly the
\* payload out of it, and none of its tests of the framing can fail after those
\* of read_frame, whatever the pieces were.
ReadFramesWhole ==
  reader = "decode" => Framed(frame) /\ Len(frame) = 4 + Len(Payload(frame))

\* What one of this program's writers sends, the reader gets: the same payloads
\* in the same order, and at most the last ones are missing.  read_frame and
\* decode_message refuse none of it, not even after a frame was cut off.
FramesSurvive == from # "foreign" => IsPrefix(delivered, sent) /\ ~rejected

\* A message that was written and flushed arrives while the stream lives, with
\* everything written before it, the unflushed notice included.
FlushedArrives ==
  \A n \in 1 .. MaxMsgs + 1 :
    done >= n ~> Len(delivered) >= n \/ reader = "ended" \/ ~open

-----------------------------------------------------------------------------
(* What the frames implement *)

\* Where a payload arrived that was sent in that place it is that item; any
\* other would be one that was never put.
Arrived == [j \in DOMAIN delivered |->
              IF j \in DOMAIN sent /\ delivered[j] = sent[j] THEN j ELSE 0]

\* The stream as a line for each of this program's writers.
Frames == INSTANCE Delivery WITH
  Lines <- {"host", "joiner"}, MaySkip <- FALSE,
  put <- [l \in {"host", "joiner"} |-> IF l = from THEN Len(sent) ELSE 0],
  got <- [l \in {"host", "joiner"} |-> IF l = from THEN Arrived ELSE <<>>]

\* encode_message, the stream and read_frame hand on what one of this program's
\* writers sends without leaving a message out, repeating or changing one.
DeliversFrames == Frames!Spec
=============================================================================
