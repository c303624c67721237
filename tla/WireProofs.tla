----------------------------- MODULE WireProofs -----------------------------
(***************************************************************************)
(* Theorems about Wire for every limit, every payload and every way a      *)
(* stream cuts and loses bytes.                                            *)
(***************************************************************************)
EXTENDS Wire, SequenceTheorems, TLAPS

-----------------------------------------------------------------------------
(* The frame *)

\* A number is made of its lowest byte and the others.
LEMMA LowestByte ==
  ASSUME NEW n \in Nat
  PROVE  /\ Upper(n) \in Nat /\ n % 256 \in Byte
         /\ n = 256 * Upper(n) + (n % 256)
BY SMT DEF Upper, Byte

\* to_be_bytes writes four bytes, and from_be_bytes reads what it wrote.
LEMMA BigEndian ==
  ASSUME NEW n \in Nat, Fits32(n)
  PROVE  /\ ToBe(n) \in Seq(Byte) /\ Len(ToBe(n)) = 4
         /\ FromBe(ToBe(n)) = n
<1> DEFINE u == Upper(n)
           v == Upper(u)
           w == Upper(v)
<1>1. /\ u \in Nat /\ n % 256 \in Byte
      /\ n = 256 * u + (n % 256)
  BY LowestByte
<1>2. /\ v \in Nat /\ u % 256 \in Byte
      /\ u = 256 * v + (u % 256)
  BY <1>1, LowestByte
<1>3. /\ w \in Nat /\ v % 256 \in Byte
      /\ v = 256 * w + (v % 256)
  BY <1>2, LowestByte
<1>4. w \in Byte
  BY <1>3, SMT DEF Fits32, Byte
<1>5. ToBe(n) = <<w, v % 256, u % 256, n % 256>>
  BY DEF ToBe
<1> HIDE DEF u, v, w
<1>6. ToBe(n) \in Seq(Byte) /\ Len(ToBe(n)) = 4
  BY <1>1, <1>2, <1>3, <1>4, <1>5
<1>7. FromBe(ToBe(n)) = ((w * 256 + (v % 256)) * 256 + (u % 256)) * 256 + (n % 256)
  BY <1>5 DEF FromBe
<1>8. FromBe(ToBe(n)) = n
  BY <1>1, <1>2, <1>3, <1>7, SMT DEF Byte
<1> QED
  BY <1>6, <1>8

\* The limit bounds the length that a header has to hold.
LEMMA LimitFits ==
  ASSUME NEW n \in Nat, n <= MaxPayload
  PROVE  Fits32(n)
<1>1. \A a, b \in Nat : a <= b => Upper(a) <= Upper(b) /\ Upper(a) \in Nat /\ Upper(b) \in Nat
  BY SMT DEF Upper
<1>2. MaxPayload \in Nat /\ Upper(Upper(Upper(MaxPayload))) < 256
  BY WireAssumption DEF WireAssumption, Fits32
<1>3. Upper(n) <= Upper(MaxPayload) /\ Upper(n) \in Nat /\ Upper(MaxPayload) \in Nat
  BY <1>1, <1>2
<1>4. /\ Upper(Upper(n)) <= Upper(Upper(MaxPayload))
      /\ Upper(Upper(n)) \in Nat /\ Upper(Upper(MaxPayload)) \in Nat
  BY <1>1, <1>3
<1>5. /\ Upper(Upper(Upper(n))) <= Upper(Upper(Upper(MaxPayload)))
      /\ Upper(Upper(Upper(n))) \in Nat /\ Upper(Upper(Upper(MaxPayload))) \in Nat
  BY <1>1, <1>4
<1> QED
  BY <1>2, <1>5, SMT DEF Fits32

\* The first four bytes.
LEMMA HeaderBytes ==
  ASSUME NEW d \in Seq(Byte), Len(d) >= 4
  PROVE  \A i \in 1 .. 4 : d[i] \in Byte /\ SubSeq(d, 1, 4)[i] = d[i]
<1>1. \A i \in 1 .. 4 : d[i] \in Byte
  BY ElementOfSeq, LenProperties
<1>2. \A i \in 1 .. 4 - 1 + 1 : SubSeq(d, 1, 4)[i] = d[1 + i - 1]
  BY <1>1, SubSeqProperties
<1> QED
  BY <1>1, <1>2

\* A byte is a number.
LEMMA ByteNat == \A b \in Byte : b \in Nat
BY DEF Byte

\* Four bytes announce a number.
LEMMA HeaderType ==
  ASSUME NEW d \in Seq(Byte), Len(d) >= 4
  PROVE  Announced(d) \in Nat
<1>1. d[1] \in Nat /\ d[2] \in Nat /\ d[3] \in Nat /\ d[4] \in Nat
  <2>1. d[1] \in Byte /\ d[2] \in Byte /\ d[3] \in Byte /\ d[4] \in Byte
    BY HeaderBytes
  <2> QED
    BY <2>1, ByteNat
<1>2. Announced(d) = ((d[1] * 256 + d[2]) * 256 + d[3]) * 256 + d[4]
  BY HeaderBytes DEF Announced, FromBe
<1> QED
  BY <1>1, <1>2

\* What comes after the header does not change what it announces.
LEMMA HeaderPrefix ==
  ASSUME NEW d \in Seq(Byte), NEW x \in Seq(Byte), Len(d) >= 4
  PROVE  Announced(d \o x) = Announced(d)
<1>1. /\ SubSeq(d \o x, 1, 4)[1] = SubSeq(d, 1, 4)[1]
      /\ SubSeq(d \o x, 1, 4)[2] = SubSeq(d, 1, 4)[2]
      /\ SubSeq(d \o x, 1, 4)[3] = SubSeq(d, 1, 4)[3]
      /\ SubSeq(d \o x, 1, 4)[4] = SubSeq(d, 1, 4)[4]
  OBVIOUS
<1> QED
  BY <1>1 DEF Announced, FromBe

\* A header and a payload come apart as they were put together.
LEMMA Split ==
  ASSUME NEW h \in Seq(Byte), NEW p \in Seq(Byte), Len(h) = 4
  PROVE  /\ h \o p \in Seq(Byte) /\ Len(h \o p) = 4 + Len(p)
         /\ Announced(h \o p) = FromBe(h)
         /\ SubSeq(h \o p, 5, 4 + Len(p)) = p
<1> DEFINE d == h \o p
<1>0. Len(p) \in Nat
  BY LenProperties
<1>1. /\ d \in Seq(Byte) /\ Len(d) = 4 + Len(p)
      /\ \A i \in 1 .. 4 + Len(p) : d[i] = IF i <= 4 THEN h[i] ELSE p[i - 4]
  <2>1. /\ d \in Seq(Byte) /\ Len(d) = Len(h) + Len(p)
        /\ \A i \in 1 .. Len(h) + Len(p) :
             d[i] = IF i <= Len(h) THEN h[i] ELSE p[i - Len(h)]
    BY ConcatProperties, Zenon
  <2> QED
    BY <2>1
<1>2. \A i \in 1 .. 4 + Len(p) : d[i] \in Byte
  BY <1>1, ElementOfSeq
<1> HIDE DEF d
<1>3. Announced(d) = FromBe(h)
  <2>1. \A i \in 1 .. 4 : SubSeq(d, 1, 4)[i] = d[i] /\ d[i] = h[i]
    BY <1>0, <1>1, <1>2, SubSeqProperties
  <2> QED
    BY <2>1 DEF Announced, FromBe
<1>4. SubSeq(d, 5, 4 + Len(p)) = p
  <2>1. /\ SubSeq(d, 5, 4 + Len(p)) \in Seq(Byte)
        /\ Len(SubSeq(d, 5, 4 + Len(p))) = Len(p)
        /\ \A i \in 1 .. Len(p) : SubSeq(d, 5, 4 + Len(p))[i] = d[i + 4]
    BY <1>0, <1>2, SubSeqProperties
  <2>2. \A i \in 1 .. Len(p) : d[i + 4] = p[i]
    BY <1>0, <1>1
  <2> QED
    BY <2>1, <2>2, SeqEqual
<1> QED
  BY <1>1, <1>3, <1>4 DEF d

\* encode_message puts the length of the payload into the header.
LEMMA EncodedFrame ==
  ASSUME NEW p \in Seq(Byte), p # <<>>, Encodes(p)
  PROVE  /\ Len(p) \in Nat /\ Len(p) # 0 /\ Len(p) <= MaxPayload
         /\ Encode(p) \in Seq(Byte) /\ Len(Encode(p)) = 4 + Len(p)
         /\ Announced(Encode(p)) = Len(p)
         /\ SubSeq(Encode(p), 5, 4 + Len(p)) = p
<1>1. Len(p) \in Nat /\ Len(p) # 0 /\ Len(p) <= MaxPayload
  BY DEF Encodes
<1>2. PICK h \in Seq(Byte) : Len(h) = 4 /\ FromBe(h) = Len(p) /\ h = ToBe(Len(p))
  BY <1>1, LimitFits, BigEndian
<1>3. Encode(p) = h \o p
  BY <1>2 DEF Encode
<1> QED
  BY <1>1, <1>2, <1>3, Split

\* What encode_message accepts, the tests of read_frame and of decode_message
\* let pass, and decode_message cuts the same payload out of it: for every
\* payload and every limit that a u32 can announce.
THEOREM RoundTrip ==
  ASSUME NEW p \in Seq(Byte), p # <<>>, Encodes(p)
  PROVE  /\ Encode(p) \in Seq(Byte) /\ Len(Encode(p)) = 4 + Len(p)
         /\ InLimits(Announced(Encode(p))) /\ Framed(Encode(p))
         /\ Payload(Encode(p)) = p
BY EncodedFrame DEF Framed, InLimits, Payload

-----------------------------------------------------------------------------
(* The reader *)

\* Both parts of a cut are sequences of bytes.
LEMMA PiecesType ==
  ASSUME NEW s \in Seq(Byte), NEW t \in Pieces(s)
  PROVE  t[1] \in Seq(Byte) /\ t[2] \in Seq(Byte)
<1>1. PICK k \in 1 .. Len(s) : t = <<SubSeq(s, 1, k), SubSeq(s, k + 1, Len(s))>>
  BY DEF Pieces
<1>2. \A i \in 1 .. Len(s) : s[i] \in Byte
  BY ElementOfSeq
<1>3. Len(s) \in Nat /\ k \in Nat /\ k <= Len(s)
  BY LenProperties
<1>4. SubSeq(s, 1, k) \in Seq(Byte)
  <2>1. \A i \in 1 .. k : s[i] \in Byte
    BY <1>2, <1>3
  <2> QED
    BY <1>3, <2>1, SubSeqProperties
<1>5. SubSeq(s, k + 1, Len(s)) \in Seq(Byte)
  <2>1. \A i \in k + 1 .. Len(s) : s[i] \in Byte
    BY <1>2, <1>3
  <2> QED
    BY <1>3, <2>1, SubSeqProperties
<1> QED
  BY <1>1, <1>4, <1>5

\* The types of what the writer and the stream keep, and of what the reader
\* keeps.
StreamType ==
  /\ from \in {"host", "joiner", "foreign"} /\ to \in {"host", "joiner"}
  /\ writer \in {"greet", "greeting", "idle", "writing", "flushing", "stopped"}
  /\ given \in Nat /\ sent \in Seq(Seq(Byte)) /\ done \in Nat
  /\ rest \in Seq(Byte) /\ buffer \in Seq(Byte) /\ net \in Seq(Byte)
  /\ open \in BOOLEAN

ReaderType ==
  /\ rejected \in BOOLEAN /\ reader \in {"header", "payload", "decode", "ended"}
  /\ frame \in Seq(Byte) /\ delivered \in Seq(Seq(Byte))

\* How much a reader may have: up to four bytes of a header, and after it only
\* what a header within the limit announced.
Within ==
  /\ reader = "header" => Len(frame) <= 4
  /\ reader \in {"payload", "decode"} =>
       /\ Len(frame) >= 4 /\ InLimits(Announced(frame))
       /\ Len(frame) <= 4 + Announced(frame)
  /\ reader = "decode" => Len(frame) = 4 + Announced(frame)
  /\ Len(frame) <= 4 + MaxPayload

WireInv == StreamType /\ ReaderType /\ Within

\* The steps of the writer keep the types; what they write is a frame.
LEMMA WriterKeeps ==
  ASSUME StreamType,
         \/ \E p \in Payloads : Greet(p) \/ Take(p)
         \/ WriterStep \/ WriteTimesOut
  PROVE  StreamType' /\ UNCHANGED readVars
<1> USE DEF StreamType, readVars
<1>1. ASSUME NEW p \in Payloads, Greet(p) \/ Take(p)
      PROVE  StreamType' /\ UNCHANGED readVars
  <2>1. p \in Seq(Byte) /\ p # <<>>
    BY WireAssumption, SeqMonotonic DEF WireAssumption
  <2>2. Encodes(p) => Encode(p) \in Seq(Byte)
    BY <2>1, RoundTrip
  <2>3. Append(sent, p) \in Seq(Seq(Byte))
    BY <2>1
  <2>4. UNCHANGED <<readVars, from, to, done, buffer, net, open>> /\ given' \in Nat
    BY <1>1 DEF Greet, Take
  <2>5. CASE Encodes(p)
    <3>1. sent' = Append(sent, p) /\ rest' = Encode(p) /\ writer' \in {"greeting", "writing"}
      BY <1>1, <2>5 DEF Greet, Take, Begin
    <3> QED
      BY <2>2, <2>3, <2>4, <2>5, <3>1
  <2>6. CASE ~Encodes(p)
    <3>1. sent' = sent /\ rest' = rest /\ writer' \in {"idle", "stopped"}
      BY <1>1, <2>6 DEF Greet, Take
    <3> QED
      BY <2>4, <3>1
  <2> QED
    BY <2>5, <2>6
<1>2. CASE WritePiece
  <2>1. PICK s \in Pieces(rest) : buffer' = buffer \o s[1] /\ rest' = s[2]
    BY <1>2 DEF WritePiece
  <2>2. buffer' \in Seq(Byte) /\ rest' \in Seq(Byte)
    BY <2>1, PiecesType, ConcatProperties
  <2>3. writer' \in {"greeting", "writing", "idle", "flushing"}
    BY <1>2 DEF WritePiece
  <2> QED
    BY <1>2, <2>2, <2>3 DEF WritePiece
<1>3. CASE Flush
  <2>1. net' \in Seq(Byte) /\ buffer' \in Seq(Byte) /\ done' \in Nat
    BY <1>3, ConcatProperties, LenProperties DEF Flush
  <2> QED
    BY <1>3, <2>1 DEF Flush
<1>4. CASE WriteFails
  BY <1>4 DEF WriteFails
<1>5. CASE WriteTimesOut
  BY <1>5 DEF WriteTimesOut
<1> QED
  BY <1>1, <1>2, <1>3, <1>4, <1>5 DEF WriterStep

\* So does the stream, whatever it carries or loses.
LEMMA StreamKeeps ==
  ASSUME StreamType,
         Spill \/ Close \/ \E b \in ForeignBytes : Foreign(b)
  PROVE  StreamType' /\ UNCHANGED readVars
<1> USE DEF StreamType, readVars, writeVars
<1>1. CASE Spill
  <2>1. PICK s \in Pieces(buffer) : net' = net \o s[1] /\ buffer' = s[2]
    BY <1>1 DEF Spill
  <2>2. net' \in Seq(Byte) /\ buffer' \in Seq(Byte)
    BY <2>1, PiecesType, ConcatProperties
  <2> QED
    BY <1>1, <2>2 DEF Spill
<1>2. CASE Close
  <2>1. PICK k \in 0 .. Len(net) : net' = SubSeq(net, 1, k)
    BY <1>2 DEF Close
  <2>2. \A i \in 1 .. k : net[i] \in Byte
    BY ElementOfSeq, LenProperties
  <2>3. net' \in Seq(Byte)
    BY <2>1, <2>2, LenProperties, SubSeqProperties
  <2>4. open' \in BOOLEAN /\ buffer' = <<>> /\ UNCHANGED <<from, to, writeVars, readVars>>
    BY <1>2 DEF Close
  <2> QED
    BY <2>3, <2>4
<1>3. ASSUME NEW b \in ForeignBytes, Foreign(b) PROVE StreamType' /\ UNCHANGED readVars
  <2>1. b \in Byte
    BY WireAssumption DEF WireAssumption
  <2>2. net' \in Seq(Byte) /\ given' \in Nat
    BY <1>3, <2>1 DEF Foreign
  <2>3. UNCHANGED <<from, to, writer, sent, done, rest, buffer, open, readVars>>
    BY <1>3 DEF Foreign
  <2> QED
    BY <2>2, <2>3
<1> QED
  BY <1>1, <1>2, <1>3

\* Without a step of the reader what it has stays.
LEMMA WithinFrame == Within /\ UNCHANGED readVars => Within'
BY DEF Within, readVars, Announced

\* The reader takes no more than it wants, and looks at the length before it
\* wants the payload.
LEMMA ReaderKeeps ==
  ASSUME WireInv, ReaderStep \/ ReadTimesOut
  PROVE  WireInv'
<1> USE DEF WireInv, ReaderType
<1>1. CASE ReadPiece
  <2>1. PICK s \in Pieces(net) :
          /\ Len(frame) + Len(s[1]) <= Wanted
          /\ frame' = frame \o s[1] /\ net' = s[2]
    BY <1>1 DEF ReadPiece
  <2>2. s[1] \in Seq(Byte) /\ s[2] \in Seq(Byte)
    BY <2>1, PiecesType DEF StreamType
  <2>3. /\ frame' \in Seq(Byte) /\ Len(frame') = Len(frame) + Len(s[1])
        /\ Len(frame) \in Nat /\ Len(s[1]) \in Nat
    BY <2>1, <2>2, ConcatProperties, LenProperties
  <2>4. UNCHANGED <<from, to, writeVars, buffer, open, reader, rejected, delivered>>
    BY <1>1 DEF ReadPiece
  <2>5. StreamType' /\ ReaderType'
    BY <2>1, <2>2, <2>3, <2>4 DEF StreamType, writeVars
  <2>6. CASE reader = "header"
    <3>1. Len(frame') <= 4
      BY <2>1, <2>3, <2>6 DEF Wanted
    <3> QED
      BY <2>3, <2>4, <2>5, <2>6, <3>1, WireAssumption DEF Within, WireAssumption
  <2>7. CASE reader = "payload"
    <3>1. Announced(frame') = Announced(frame) /\ Announced(frame) \in Nat
      BY <2>1, <2>2, <2>7, HeaderPrefix, HeaderType DEF Within
    <3>2. Len(frame') <= 4 + Announced(frame) /\ Len(frame') >= 4
      BY <2>1, <2>3, <2>7 DEF Within, Wanted
    <3>3. Announced(frame) <= MaxPayload /\ InLimits(Announced(frame))
      BY <2>7 DEF Within, InLimits
    <3>4. Len(frame') <= 4 + MaxPayload
      BY <2>3, <3>1, <3>2, <3>3, WireAssumption DEF WireAssumption
    <3> QED
      BY <2>4, <2>5, <2>7, <3>1, <3>2, <3>3, <3>4 DEF Within
  <2> QED
    BY <1>1, <2>6, <2>7 DEF ReadPiece
<1>2. CASE CheckHeader
  <2>1. UNCHANGED <<from, to, writeVars, buffer, net, open, frame, delivered>>
    BY <1>2 DEF CheckHeader
  <2>2. StreamType' /\ Announced(frame') = Announced(frame)
    BY <2>1 DEF StreamType, writeVars
  <2>3. CASE InLimits(Announced(frame))
    <3>1. reader' = "payload" /\ rejected' = rejected /\ Len(frame) = 4
      BY <1>2, <2>3 DEF CheckHeader
    <3>2. Announced(frame) \in Nat
      <4>1. Len(frame) >= 4 /\ frame \in Seq(Byte)
        BY <3>1
      <4> QED
        BY <4>1, HeaderType
    <3> QED
      BY <2>1, <2>2, <2>3, <3>1, <3>2 DEF Within
  <2>4. CASE ~InLimits(Announced(frame))
    <3>1. reader' = "ended" /\ rejected' = TRUE
      BY <1>2, <2>4 DEF CheckHeader, Reject
    <3> QED
      BY <2>1, <2>2, <3>1 DEF Within
  <2> QED
    BY <2>3, <2>4
<1>3. CASE CheckPayload
  <2>1. /\ UNCHANGED <<from, to, writeVars, buffer, net, open, frame, delivered>>
        /\ reader = "payload" /\ Len(frame) = 4 + Announced(frame)
        /\ \/ reader' = "decode" /\ rejected' = rejected
           \/ reader' = "ended" /\ rejected' = TRUE
    BY <1>3 DEF CheckPayload, Reject, Wanted
  <2>2. StreamType' /\ ReaderType' /\ Announced(frame') = Announced(frame)
    BY <2>1 DEF StreamType, writeVars
  <2> QED
    BY <2>1, <2>2 DEF Within
<1>4. CASE Decode
  <2>1. /\ UNCHANGED <<from, to, writeVars, buffer, net, open>>
        /\ frame' = <<>> /\ reader = "decode"
        /\ reader' \in {"header", "ended"} /\ rejected' \in BOOLEAN
        /\ delivered' \in {delivered, Append(delivered, Payload(frame))}
    BY <1>4 DEF Decode, Reject
  <2>2. Payload(frame) \in Seq(Byte)
    <3>1. /\ Announced(frame) \in Nat /\ Len(frame) = 4 + Announced(frame)
      BY <2>1, HeaderType DEF Within
    <3>2. \A i \in 5 .. 4 + Announced(frame) : frame[i] \in Byte
      BY <3>1, ElementOfSeq
    <3> QED
      BY <3>1, <3>2, SubSeqProperties DEF Payload
  <2>3. StreamType'
    BY <2>1 DEF StreamType, writeVars
  <2>4. delivered' \in Seq(Seq(Byte))
    <3>1. delivered \in Seq(Seq(Byte))
      OBVIOUS
    <3>2. Append(delivered, Payload(frame)) \in Seq(Seq(Byte))
      BY <3>1, <2>2, AppendProperties
    <3> QED
      BY <2>1, <3>1, <3>2
  <2>5. frame' \in Seq(Byte) /\ Len(frame') = 0
    BY <2>1
  <2>6. ReaderType'
    BY <2>1, <2>4, <2>5
  <2> QED
    BY <2>1, <2>3, <2>5, <2>6, WireAssumption DEF Within, WireAssumption
<1>5. CASE ReadEnds \/ ReadTimesOut
  <2>1. /\ UNCHANGED <<from, to, writeVars, buffer, net, open, rejected, frame, delivered>>
        /\ reader' = "ended"
    BY <1>5 DEF ReadEnds, ReadTimesOut
  <2>2. StreamType' /\ ReaderType'
    BY <2>1 DEF StreamType, writeVars
  <2> QED
    BY <2>1, <2>2 DEF Within
<1> QED
  BY <1>1, <1>2, <1>3, <1>4, <1>5 DEF ReaderStep

\* A connection starts between two frames.
LEMMA WireInit == Init => WireInv
<1> SUFFICES ASSUME Init PROVE WireInv
  OBVIOUS
<1>1. StreamType
  <2>1. to \in {"host", "joiner"} /\ writer \in {"greet", "idle"}
    BY DEF Init
  <2> QED
    BY <2>1 DEF Init, StreamType
<1>2. ReaderType /\ Len(frame) = 0 /\ reader = "header"
  <2>1. frame = <<>> /\ delivered = <<>> /\ reader = "header" /\ rejected = FALSE
    BY DEF Init
  <2>2. frame \in Seq(Byte) /\ delivered \in Seq(Seq(Byte)) /\ Len(frame) = 0
    BY <2>1
  <2> QED
    BY <2>1, <2>2 DEF ReaderType
<1> QED
  BY <1>1, <1>2, WireAssumption DEF WireInv, Within, WireAssumption

\* Every step keeps a whole frame or the beginning of one.
LEMMA WireStep == WireInv /\ [Next]_vars => WireInv'
<1> SUFFICES ASSUME WireInv, [Next]_vars PROVE WireInv'
  OBVIOUS
<1>1. StreamType' /\ UNCHANGED readVars => WireInv'
  BY WithinFrame DEF WireInv, ReaderType, readVars
<1>2. CASE UNCHANGED vars
  <2>1. StreamType' /\ UNCHANGED readVars
    BY <1>2 DEF vars, readVars, WireInv, StreamType
  <2> QED
    BY <1>1, <2>1
<1>3. CASE Next
  BY <1>1, <1>3, WriterKeeps, StreamKeeps, ReaderKeeps DEF Next, WireInv
<1> QED
  BY <1>2, <1>3

\* Whatever bytes arrive, in whatever pieces, a reader holds at most one frame
\* within the limit; and every variable stays in its domain.
THEOREM TypeCorrect == Spec => []TypeOK
<1>1. WireInv => TypeOK
  BY DEF WireInv, StreamType, ReaderType, Within, TypeOK
<1> QED
  BY WireInit, WireStep, <1>1, PTL DEF Spec

\* What read_frame returns is one whole frame, for every limit and every stream:
\* the tests of the framing in decode_message cannot fail on it.
THEOREM WholeFrames == Spec => []ReadFramesWhole
<1>1. WireInv => ReadFramesWhole
  <2> SUFFICES ASSUME WireInv, reader = "decode"
               PROVE  Framed(frame) /\ Len(frame) = 4 + Len(Payload(frame))
    BY DEF ReadFramesWhole
  <2>1. /\ frame \in Seq(Byte) /\ Len(frame) >= 4
        /\ InLimits(Announced(frame)) /\ Len(frame) = 4 + Announced(frame)
    BY DEF WireInv, ReaderType, Within
  <2>2. Announced(frame) \in Nat
    BY <2>1, HeaderType
  <2>3. \A i \in 5 .. 4 + Announced(frame) : frame[i] \in Byte
    BY <2>1, <2>2, ElementOfSeq
  <2>4. Len(Payload(frame)) = Announced(frame)
    <3>1. Len(SubSeq(frame, 5, 4 + Announced(frame)))
            = IF 5 <= 4 + Announced(frame) THEN 4 + Announced(frame) - 5 + 1 ELSE 0
      BY <2>2, <2>3, SubSeqProperties
    <3> QED
      BY <2>1, <2>2, <3>1 DEF Payload, InLimits
  <2> QED
    BY <2>1, <2>2, <2>4 DEF Framed
<1> QED
  BY WireInit, WireStep, <1>1, PTL DEF Spec

-----------------------------------------------------------------------------
(* From the writer to the reader *)

\* x stands in st after the first o places.
At(x, st, o) == \A i \in 1 .. Len(x) : x[i] = st[o + i]

\* Two stretches that follow one another make one.
LEMMA AtConcat ==
  ASSUME NEW x \in Seq(Byte), NEW y \in Seq(Byte), NEW st, NEW o \in Nat,
         At(x, st, o), At(y, st, o + Len(x))
  PROVE  /\ At(x \o y, st, o) /\ x \o y \in Seq(Byte)
         /\ Len(x \o y) = Len(x) + Len(y)
<1>1. /\ Len(x) \in Nat /\ Len(y) \in Nat
      /\ x \o y \in Seq(Byte) /\ Len(x \o y) = Len(x) + Len(y)
      /\ \A i \in 1 .. Len(x) + Len(y) :
           (x \o y)[i] = IF i <= Len(x) THEN x[i] ELSE y[i - Len(x)]
  BY ConcatProperties, LenProperties, Zenon
<1>2. ASSUME NEW i \in 1 .. Len(x \o y) PROVE (x \o y)[i] = st[o + i]
  <2>1. CASE i <= Len(x)
    <3>1. i \in 1 .. Len(x) /\ (x \o y)[i] = x[i]
      BY <1>1, <2>1
    <3> QED
      BY <3>1 DEF At
  <2>2. CASE ~(i <= Len(x))
    <3>1. i - Len(x) \in 1 .. Len(y) /\ (x \o y)[i] = y[i - Len(x)]
      BY <1>1, <2>2
    <3>2. (o + Len(x)) + (i - Len(x)) = o + i
      BY <1>1
    <3> QED
      BY <3>1, <3>2 DEF At
  <2> QED
    BY <2>1, <2>2
<1> QED
  BY <1>1, <1>2 DEF At

\* A beginning stands where the whole does.
LEMMA AtPrefix ==
  ASSUME NEW x \in Seq(Byte), NEW k \in 0 .. Len(x), NEW st, NEW o \in Nat, At(x, st, o)
  PROVE  /\ At(SubSeq(x, 1, k), st, o) /\ SubSeq(x, 1, k) \in Seq(Byte)
         /\ Len(SubSeq(x, 1, k)) = k
<1>1. Len(x) \in Nat /\ k \in Nat /\ k <= Len(x) /\ \A i \in 1 .. k : x[i] \in Byte
  BY ElementOfSeq, LenProperties
<1>2. /\ SubSeq(x, 1, k) \in Seq(Byte) /\ Len(SubSeq(x, 1, k)) = k
      /\ \A i \in 1 .. k : SubSeq(x, 1, k)[i] = x[i]
  <2>1. /\ SubSeq(x, 1, k) \in Seq(Byte)
        /\ Len(SubSeq(x, 1, k)) = IF 1 <= k THEN k - 1 + 1 ELSE 0
        /\ \A i \in 1 .. k - 1 + 1 : SubSeq(x, 1, k)[i] = x[1 + i - 1]
    BY <1>1, SubSeqProperties
  <2> QED
    BY <1>1, <2>1
<1>3. \A i \in 1 .. k : x[i] = st[o + i]
  BY <1>1 DEF At
<1> QED
  BY <1>2, <1>3 DEF At

\* Both pieces of a cut stand where they stood.
LEMMA AtPieces ==
  ASSUME NEW x \in Seq(Byte), NEW t \in Pieces(x), NEW st, NEW o \in Nat, At(x, st, o)
  PROVE  \E a \in Seq(Byte), b \in Seq(Byte) :
           /\ t[1] = a /\ t[2] = b /\ Len(a) \in Nat /\ Len(b) \in Nat
           /\ Len(a) + Len(b) = Len(x) /\ At(a, st, o) /\ At(b, st, o + Len(a))
<1>1. PICK k \in 1 .. Len(x) : t = <<SubSeq(x, 1, k), SubSeq(x, k + 1, Len(x))>>
  BY DEF Pieces
<1>2. Len(x) \in Nat /\ k \in Nat /\ k <= Len(x) /\ k \in 0 .. Len(x)
  BY LenProperties
<1>3. t[1] = SubSeq(x, 1, k) /\ t[2] = SubSeq(x, k + 1, Len(x))
  BY <1>1
<1>4. At(t[1], st, o) /\ Len(t[1]) = k
  BY <1>2, <1>3, AtPrefix
<1>5. Len(t[2]) = Len(x) - k /\ \A i \in 1 .. Len(x) - k : t[2][i] = x[k + i]
  <2>1. \A i \in k + 1 .. Len(x) : x[i] \in Byte
    BY <1>2, ElementOfSeq
  <2>2. /\ Len(SubSeq(x, k + 1, Len(x))) =
             IF k + 1 <= Len(x) THEN Len(x) - (k + 1) + 1 ELSE 0
        /\ \A i \in 1 .. Len(x) - (k + 1) + 1 : SubSeq(x, k + 1, Len(x))[i] = x[k + 1 + i - 1]
    BY <1>2, <2>1, SubSeqProperties
  <2>3. Len(SubSeq(x, k + 1, Len(x))) = Len(x) - k
    BY <1>2, <2>2
  <2>4. \A i \in 1 .. Len(x) - k : SubSeq(x, k + 1, Len(x))[i] = x[k + i]
    <3> SUFFICES ASSUME NEW i \in 1 .. Len(x) - k
                 PROVE  SubSeq(x, k + 1, Len(x))[i] = x[k + i]
      OBVIOUS
    <3>1. i \in 1 .. Len(x) - (k + 1) + 1 /\ k + 1 + i - 1 = k + i
      BY <1>2
    <3> QED
      BY <2>2, <3>1
  <2> QED
    BY <1>3, <2>3, <2>4
<1>6. At(t[2], st, o + Len(t[1]))
  <2> SUFFICES ASSUME NEW i \in 1 .. Len(t[2]) PROVE t[2][i] = st[(o + k) + i]
    BY <1>4 DEF At
  <2>1. k + i \in 1 .. Len(x) /\ o + (k + i) = (o + k) + i
    BY <1>2, <1>5
  <2>2. x[k + i] = st[o + (k + i)]
    BY <2>1 DEF At
  <2> QED
    BY <1>5, <2>1, <2>2
<1>7. Len(t[1]) + Len(t[2]) = Len(x)
  BY <1>2, <1>4, <1>5
<1>8. t[1] \in Seq(Byte) /\ t[2] \in Seq(Byte)
  BY PiecesType
<1>9. Len(t[1]) \in Nat /\ Len(t[2]) \in Nat
  BY <1>8, LenProperties
<1> QED
  BY <1>4, <1>6, <1>7, <1>8, <1>9

\* What is added at the end moves nothing.
LEMMA AtExtend ==
  ASSUME NEW x \in Seq(Byte), NEW st \in Seq(Byte), NEW z \in Seq(Byte), NEW o \in Nat,
         o + Len(x) <= Len(st), At(x, st, o)
  PROVE  At(x, st \o z, o)
<1>1. /\ Len(x) \in Nat /\ Len(st) \in Nat /\ Len(z) \in Nat
      /\ \A i \in 1 .. Len(st) + Len(z) :
           (st \o z)[i] = IF i <= Len(st) THEN st[i] ELSE z[i - Len(st)]
  BY ConcatProperties, LenProperties, Zenon
<1>2. ASSUME NEW i \in 1 .. Len(x) PROVE x[i] = (st \o z)[o + i]
  <2>1. o + i \in 1 .. Len(st) + Len(z) /\ o + i <= Len(st)
    BY <1>1
  <2>2. (st \o z)[o + i] = st[o + i]
    BY <1>1, <2>1
  <2> QED
    BY <2>2 DEF At
<1> QED
  BY <1>2 DEF At

\* The bytes that are in the reader's hands, on their way and in the buffer follow
\* one another in st after the first o.  While the stream is open they reach to
\* the end of st, or to the rest of the frame that is being written.
Reached(o) == o + Len(frame) + Len(net) + Len(buffer)

OnWay(st, o) ==
  /\ At(frame, st, o) /\ At(net, st, o + Len(frame))
  /\ At(buffer, st, o + Len(frame) + Len(net))
  /\ Reached(o) <= Len(st)
  /\ open /\ writer \in {"greet", "idle", "flushing"} => Reached(o) = Len(st)
  /\ open /\ writer \in {"greeting", "writing"} =>
       Reached(o) + Len(rest) = Len(st) /\ At(rest, st, Reached(o))

\* st is made of the frames of the payloads that were sent; pos[j] is where the
\* frame of payload j ends.
Boundaries(st, pos) ==
  /\ pos[0] = 0 /\ pos[Len(sent)] = Len(st)
  /\ \A j \in 1 .. Len(sent) :
       /\ pos[j] = pos[j - 1] + 4 + Len(sent[j]) /\ pos[j] <= Len(st)
       /\ At(Encode(sent[j]), st, pos[j - 1])

Flow(st, pos) ==
  /\ Boundaries(st, pos)
  /\ Len(delivered) <= Len(sent) /\ \A j \in 1 .. Len(delivered) : delivered[j] = sent[j]
  /\ OnWay(st, pos[Len(delivered)])

\* The inductive invariant behind FramesSurvive.
FlowInv ==
  /\ WireInv
  /\ \A j \in 1 .. Len(sent) : sent[j] \in Payloads /\ Encodes(sent[j])
  /\ from # "foreign" =>
       /\ ~rejected
       /\ \E st \in Seq(Byte), pos \in [0 .. Len(sent) -> Nat] : Flow(st, pos)

\* The lengths are numbers.
LEMMA Lengths ==
  ASSUME WireInv
  PROVE  /\ Len(frame) \in Nat /\ Len(net) \in Nat /\ Len(buffer) \in Nat
         /\ Len(rest) \in Nat /\ Len(sent) \in Nat /\ Len(delivered) \in Nat
         /\ frame \in Seq(Byte) /\ net \in Seq(Byte) /\ buffer \in Seq(Byte)
         /\ rest \in Seq(Byte) /\ sent \in Seq(Seq(Byte)) /\ delivered \in Seq(Seq(Byte))
BY LenProperties DEF WireInv, StreamType, ReaderType

\* write_all and flush move bytes towards the stream and add none.
LEMMA WritesOnWay ==
  ASSUME WireInv, NEW st \in Seq(Byte), NEW o \in Nat, OnWay(st, o),
         WriterStep \/ WriteTimesOut
  PROVE  OnWay(st, o)'
<1>0. Len(st) \in Nat
  BY LenProperties
<1>1. CASE WritePiece
  <2>1. /\ open /\ open' = open /\ frame' = frame /\ net' = net
        /\ Reached(o) + Len(rest) = Len(st) /\ At(rest, st, Reached(o))
    BY <1>1 DEF WritePiece, OnWay, readVars
  <2>2. PICK s \in Pieces(rest) :
          /\ buffer' = buffer \o s[1] /\ rest' = s[2]
          /\ writer' = IF s[2] # <<>> THEN writer
                       ELSE IF writer = "greeting" THEN "idle" ELSE "flushing"
    BY <1>1 DEF WritePiece
  <2>3. Reached(o) \in Nat /\ o + Len(frame) + Len(net) \in Nat
    BY Lengths DEF Reached
  <2>4. PICK a \in Seq(Byte), b \in Seq(Byte) :
          /\ s[1] = a /\ s[2] = b /\ Len(a) \in Nat /\ Len(b) \in Nat
          /\ Len(a) + Len(b) = Len(rest)
          /\ At(a, st, Reached(o)) /\ At(b, st, Reached(o) + Len(a))
    BY <2>1, <2>2, <2>3, Lengths, AtPieces
  <2>5. /\ At(buffer', st, o + Len(frame) + Len(net))
        /\ Len(buffer') = Len(buffer) + Len(a)
    <3>1. /\ At(buffer, st, o + Len(frame) + Len(net)) /\ buffer \in Seq(Byte)
          /\ At(a, st, (o + Len(frame) + Len(net)) + Len(buffer))
      BY <2>4, Lengths DEF OnWay, Reached
    <3> QED
      BY <2>2, <2>3, <2>4, <3>1, AtConcat
  <2>6. Reached(o)' = Reached(o) + Len(a)
    <3>1. /\ Len(frame) \in Nat /\ Len(net) \in Nat /\ Len(buffer) \in Nat
          /\ Len(a) \in Nat /\ Len(buffer') = Len(buffer) + Len(a)
          /\ Len(frame') = Len(frame) /\ Len(net') = Len(net)
      BY <2>1, <2>4, <2>5, Lengths
    <3> QED
      BY <3>1 DEF Reached
  <2>7. Reached(o)' + Len(b) = Len(st) /\ At(b, st, Reached(o)')
    BY <2>1, <2>3, <2>4, <2>6, <1>0, Lengths
  <2>8. Reached(o)' <= Len(st) /\ (b = <<>> => Reached(o)' = Len(st))
    BY <2>3, <2>4, <2>6, <2>7, <1>0
  <2>9. writer' \in {"greet", "idle", "flushing"} => b = <<>>
    BY <1>1, <2>2, <2>4 DEF WritePiece
  <2>10. At(frame', st, o) /\ At(net', st, o + Len(frame'))
    BY <2>1 DEF OnWay
  <2> QED
    BY <2>1, <2>2, <2>4, <2>5, <2>7, <2>8, <2>9, <2>10 DEF OnWay
<1>2. CASE Flush
  <2>1. /\ frame' = frame /\ net' = net \o buffer /\ buffer' = <<>> /\ writer' = "idle"
        /\ open /\ Reached(o) = Len(st)
    BY <1>2 DEF Flush, OnWay, readVars
  <2>2. o + Len(frame) \in Nat
    BY Lengths
  <2>3. At(net', st, o + Len(frame)) /\ Len(net') = Len(net) + Len(buffer)
    BY <2>1, <2>2, Lengths, AtConcat DEF OnWay
  <2>4. Len(buffer') = 0 /\ At(buffer', st, o + Len(frame') + Len(net'))
    BY <2>1 DEF At
  <2>5. Reached(o)' = Reached(o)
    BY <2>1, <2>3, <2>4, Lengths DEF Reached
  <2>6. Reached(o)' <= Len(st) /\ At(frame', st, o)
    BY <1>0, <2>1, <2>5 DEF OnWay
  <2> QED
    BY <2>1, <2>3, <2>4, <2>5, <2>6 DEF OnWay
<1>3. CASE WriteFails \/ WriteTimesOut
  <2>1. /\ UNCHANGED <<frame, net, buffer, rest, open>>
        /\ ~open \/ writer' = "stopped"
    BY <1>3 DEF WriteFails, WriteTimesOut, readVars
  <2> QED
    BY <2>1 DEF OnWay, Reached
<1> QED
  BY <1>1, <1>2, <1>3 DEF WriterStep

\* The stream passes bytes on, or loses some of the last ones as it closes.
LEMMA StreamOnWay ==
  ASSUME WireInv, NEW st \in Seq(Byte), NEW o \in Nat, OnWay(st, o), Spill \/ Close
  PROVE  OnWay(st, o)'
<1>0. Len(st) \in Nat
  BY LenProperties
<1>1. CASE Spill
  <2>1. UNCHANGED <<frame, writer, rest, open>>
    BY <1>1 DEF Spill, readVars, writeVars
  <2>2. PICK s \in Pieces(buffer) : net' = net \o s[1] /\ buffer' = s[2]
    BY <1>1 DEF Spill
  <2>3. o + Len(frame) \in Nat /\ o + Len(frame) + Len(net) \in Nat
    BY Lengths
  <2>4. PICK a \in Seq(Byte), b \in Seq(Byte) :
          /\ s[1] = a /\ s[2] = b /\ Len(a) \in Nat /\ Len(b) \in Nat
          /\ Len(a) + Len(b) = Len(buffer)
          /\ At(a, st, o + Len(frame) + Len(net))
          /\ At(b, st, o + Len(frame) + Len(net) + Len(a))
    <3>1. buffer \in Seq(Byte) /\ At(buffer, st, o + Len(frame) + Len(net))
      BY Lengths DEF OnWay
    <3> QED
      BY <2>2, <2>3, <3>1, AtPieces
  <2>5. At(net', st, o + Len(frame)) /\ Len(net') = Len(net) + Len(a)
    <3>1. net \in Seq(Byte) /\ At(net, st, o + Len(frame))
      BY Lengths DEF OnWay
    <3> QED
      BY <2>2, <2>3, <2>4, <3>1, AtConcat
  <2>6. /\ Len(frame) \in Nat /\ Len(net) \in Nat /\ Len(buffer) \in Nat
        /\ Len(a) \in Nat /\ Len(b) \in Nat /\ Len(a) + Len(b) = Len(buffer)
        /\ Len(net') = Len(net) + Len(a) /\ Len(frame') = Len(frame)
        /\ Len(buffer') = Len(b)
    BY <2>1, <2>2, <2>4, <2>5, Lengths
  <2>7. o + Len(frame') + Len(net') = o + Len(frame) + Len(net) + Len(a)
    BY <2>6
  <2>8. Reached(o)' = Reached(o)
    <3>1. Reached(o)' = (o + Len(frame) + Len(net) + Len(a)) + Len(b)
      BY <2>6, <2>7 DEF Reached
    <3>2. Reached(o) = o + Len(frame) + Len(net) + (Len(a) + Len(b))
      BY <2>6 DEF Reached
    <3> QED
      BY <2>6, <3>1, <3>2
  <2> QED
    BY <2>1, <2>2, <2>4, <2>5, <2>7, <2>8 DEF OnWay
<1>2. CASE Close
  <2>1. UNCHANGED frame /\ open' = FALSE /\ buffer' = <<>>
    BY <1>2 DEF Close, readVars
  <2>2. PICK k \in 0 .. Len(net) : net' = SubSeq(net, 1, k)
    BY <1>2 DEF Close
  <2>3. o + Len(frame) \in Nat
    BY Lengths
  <2>4. At(net', st, o + Len(frame)) /\ Len(net') = k
    BY <2>2, <2>3, Lengths, AtPrefix DEF OnWay
  <2>5. Len(buffer') = 0 /\ At(buffer', st, o + Len(frame') + Len(net'))
    BY <2>1 DEF At
  <2>6. Reached(o)' <= Reached(o)
    BY <2>1, <2>4, <2>5, Lengths DEF Reached
  <2>7. Reached(o)' \in Nat /\ Reached(o) \in Nat
    BY <2>1, <2>4, <2>5, Lengths DEF Reached
  <2>8. Reached(o)' <= Len(st)
    BY <1>0, <2>6, <2>7 DEF OnWay
  <2> QED
    BY <2>1, <2>4, <2>5, <2>8 DEF OnWay
<1> QED
  BY <1>1, <1>2

\* read_exact takes the bytes in the order in which they stand.
LEMMA ReadOnWay ==
  ASSUME WireInv, NEW st \in Seq(Byte), NEW o \in Nat, OnWay(st, o), ReadPiece
  PROVE  OnWay(st, o)'
<1>1. UNCHANGED <<writer, rest, buffer, open>>
  BY DEF ReadPiece, writeVars
<1>2. PICK s \in Pieces(net) : frame' = frame \o s[1] /\ net' = s[2]
  BY DEF ReadPiece
<1>3. o + Len(frame) \in Nat
  BY Lengths
<1>4. PICK a \in Seq(Byte), b \in Seq(Byte) :
        /\ s[1] = a /\ s[2] = b /\ Len(a) \in Nat /\ Len(b) \in Nat
        /\ Len(a) + Len(b) = Len(net)
        /\ At(a, st, o + Len(frame)) /\ At(b, st, o + Len(frame) + Len(a))
  BY <1>2, <1>3, Lengths, AtPieces DEF OnWay
<1>5. At(frame', st, o) /\ Len(frame') = Len(frame) + Len(a)
  BY <1>2, <1>4, Lengths, AtConcat DEF OnWay
<1>6. /\ o + Len(frame') = o + Len(frame) + Len(a)
      /\ o + Len(frame') + Len(net') = o + Len(frame) + Len(net)
  <2>1. /\ Len(frame) \in Nat /\ Len(net) \in Nat
        /\ Len(a) \in Nat /\ Len(b) \in Nat /\ Len(a) + Len(b) = Len(net)
        /\ Len(frame') = Len(frame) + Len(a) /\ Len(net') = Len(b)
    BY <1>2, <1>4, <1>5, Lengths
  <2> QED
    BY <2>1
<1>7. Reached(o)' = Reached(o)
  BY <1>1, <1>6 DEF Reached
<1> QED
  BY <1>1, <1>2, <1>4, <1>5, <1>6, <1>7 DEF OnWay

\* What can be encoded: every payload is JSON, and so UTF-8.
LEMMA PayloadFacts ==
  ASSUME NEW p \in Payloads
  PROVE  p \in Seq(Byte) /\ p # <<>> /\ IsJson(p) /\ IsUtf8(p)
<1>1. p \in Seq(JsonBytes) /\ p # <<>> /\ JsonBytes \subseteq Byte
      /\ JsonBytes \cap NotUtf8 = {}
  BY WireAssumption DEF WireAssumption
<1>2. p \in Seq(Byte)
  BY <1>1, SeqMonotonic
<1>3. \A i \in DOMAIN p : p[i] \in JsonBytes
  BY <1>1, ElementOfSeq, LenProperties
<1> QED
  BY <1>1, <1>2, <1>3 DEF IsJson, IsUtf8

\* A reader that has a header has that of the next payload, and a whole frame is
\* the frame of it.
LEMMA NextFrame ==
  ASSUME WireInv, \A j \in 1 .. Len(sent) : sent[j] \in Payloads /\ Encodes(sent[j]),
         NEW st \in Seq(Byte), NEW pos \in [0 .. Len(sent) -> Nat], Flow(st, pos),
         Len(frame) >= 4
  PROVE  /\ Len(delivered) + 1 \in 1 .. Len(sent)
         /\ \E p \in Payloads :
              /\ p = sent[Len(delivered) + 1] /\ Encodes(p) /\ Announced(frame) = Len(p)
              /\ Len(frame) = 4 + Len(p) => Payload(frame) = p /\ Framed(frame)
<1>0. /\ Len(st) \in Nat /\ Len(delivered) \in Nat /\ Len(sent) \in Nat
      /\ Len(frame) \in Nat /\ Len(net) \in Nat /\ Len(buffer) \in Nat
      /\ Len(delivered) <= Len(sent) /\ frame \in Seq(Byte)
  BY Lengths, LenProperties DEF Flow
<1>1. PICK o \in Nat : o = pos[Len(delivered)]
  <2>1. Len(delivered) \in 0 .. Len(sent)
    BY <1>0
  <2> QED
    BY <2>1
<1>2. At(frame, st, o) /\ o + Len(frame) + Len(net) + Len(buffer) <= Len(st)
  BY <1>1 DEF Flow, OnWay, Reached
<1>3. pos[Len(sent)] = Len(st)
  BY DEF Flow, Boundaries
<1>4. Len(delivered) # Len(sent)
  <2>1. o < Len(st)
    BY <1>0, <1>2
  <2> QED
    BY <1>0, <1>1, <1>3, <2>1
<1>5. Len(delivered) + 1 \in 1 .. Len(sent)
  BY <1>0, <1>4
<1>6. PICK p \in Payloads : p = sent[Len(delivered) + 1] /\ Encodes(p)
  BY <1>5
<1>7. p \in Seq(Byte) /\ p # <<>>
  BY PayloadFacts
<1>8. /\ Len(p) \in Nat /\ Len(p) # 0 /\ Encode(p) \in Seq(Byte)
      /\ Len(Encode(p)) = 4 + Len(p) /\ Announced(Encode(p)) = Len(p)
      /\ Payload(Encode(p)) = p /\ Framed(Encode(p))
  BY <1>6, <1>7, EncodedFrame, RoundTrip
<1>9. At(Encode(p), st, o)
  <2>1. At(Encode(sent[Len(delivered) + 1]), st, pos[(Len(delivered) + 1) - 1])
    BY <1>5 DEF Flow, Boundaries
  <2>2. (Len(delivered) + 1) - 1 = Len(delivered)
    BY <1>0
  <2> QED
    BY <1>1, <1>6, <2>1, <2>2
<1>10. \A i \in 1 .. 4 : frame[i] = Encode(p)[i]
  <2> SUFFICES ASSUME NEW i \in 1 .. 4 PROVE frame[i] = Encode(p)[i]
    OBVIOUS
  <2>1. i \in 1 .. Len(frame) /\ i \in 1 .. Len(Encode(p))
    BY <1>0, <1>8
  <2>2. frame[i] = st[o + i]
    BY <1>2, <2>1 DEF At
  <2>3. Encode(p)[i] = st[o + i]
    BY <1>9, <2>1 DEF At
  <2> QED
    BY <2>2, <2>3
<1>11. Announced(frame) = Announced(Encode(p))
  <2>1. \A i \in 1 .. 4 : SubSeq(frame, 1, 4)[i] = frame[i]
    BY <1>0, HeaderBytes
  <2>2. \A i \in 1 .. 4 : SubSeq(Encode(p), 1, 4)[i] = Encode(p)[i]
    <3>1. Len(Encode(p)) >= 4
      BY <1>8
    <3> QED
      BY <1>8, <3>1, HeaderBytes
  <2> QED
    BY <1>10, <2>1, <2>2 DEF Announced, FromBe
<1>12. ASSUME Len(frame) = 4 + Len(p) PROVE frame = Encode(p)
  <2>1. Len(frame) = Len(Encode(p))
    BY <1>8, <1>12
  <2>2. \A i \in 1 .. Len(frame) : frame[i] = Encode(p)[i]
    BY <1>2, <1>9, <2>1 DEF At
  <2> QED
    BY <1>0, <1>8, <2>1, <2>2, SeqEqual
<1> QED
  BY <1>5, <1>6, <1>8, <1>11, <1>12

\* Where nothing is sent or delivered, only the bytes on their way matter.
LEMMA FlowStays ==
  ASSUME NEW st, NEW pos, Flow(st, pos), NEW o, o = pos[Len(delivered)],
         UNCHANGED <<sent, delivered>>, OnWay(st, o)'
  PROVE  Flow(st, pos)'
<1>1. Boundaries(st, pos)'
  BY DEF Flow, Boundaries
<1>2. OnWay(st, pos[Len(delivered)])'
  BY DEF OnWay, Reached
<1> QED
  BY <1>1, <1>2 DEF Flow

\* A whole frame becomes a payload that is delivered: the bytes after it are the
\* next ones.
LEMMA DecodeFlow ==
  ASSUME WireInv, \A j \in 1 .. Len(sent) : sent[j] \in Payloads /\ Encodes(sent[j]),
         NEW st \in Seq(Byte), NEW pos \in [0 .. Len(sent) -> Nat], Flow(st, pos), Decode
  PROVE  UNCHANGED <<rejected, sent>> /\ Flow(st, pos)'
<1>1. /\ frame \in Seq(Byte) /\ Len(frame) >= 4 /\ Len(frame) = 4 + Announced(frame)
  BY DEF Decode, WireInv, Within, ReaderType
<1>2. PICK p \in Payloads :
        /\ p = sent[Len(delivered) + 1] /\ Announced(frame) = Len(p)
        /\ Len(frame) = 4 + Len(p) => Payload(frame) = p /\ Framed(frame)
  BY <1>1, NextFrame
<1>3. Payload(frame) = p /\ Framed(frame) /\ Len(frame) = 4 + Len(p)
  BY <1>1, <1>2
<1>4. Decodes(frame)
  BY <1>3, PayloadFacts DEF Decodes
<1>5. /\ delivered' = Append(delivered, p) /\ frame' = <<>> /\ rejected' = rejected
      /\ UNCHANGED <<writer, sent, rest, buffer, net, open>>
  BY <1>3, <1>4 DEF Decode, writeVars
<1>6. /\ Len(delivered) \in Nat /\ Len(delivered') = Len(delivered) + 1
      /\ delivered'[Len(delivered) + 1] = p
      /\ \A j \in 1 .. Len(delivered) : delivered'[j] = delivered[j]
  <2>1. p \in Seq(Byte) /\ delivered \in Seq(Seq(Byte))
    BY PayloadFacts, Lengths
  <2> QED
    BY <1>5, <2>1
<1>7. Len(delivered) + 1 \in 1 .. Len(sent) /\ Len(sent) \in Nat
  BY <1>1, NextFrame, Lengths
<1>8. Len(delivered') <= Len(sent') /\ \A j \in 1 .. Len(delivered') : delivered'[j] = sent'[j]
  BY <1>2, <1>5, <1>6, <1>7 DEF Flow
<1>9. PICK o \in Nat : o = pos[Len(delivered)]
  <2>1. Len(delivered) \in 0 .. Len(sent)
    BY <1>6, <1>7
  <2> QED
    BY <2>1
<1>10. PICK q \in Nat : q = o + Len(frame)
  BY <1>9, Lengths
<1>11. q = pos[Len(delivered')]
  <2>1. pos[Len(delivered) + 1] = pos[(Len(delivered) + 1) - 1] + 4 + Len(sent[Len(delivered) + 1])
    BY <1>7 DEF Flow, Boundaries
  <2>2. (Len(delivered) + 1) - 1 = Len(delivered)
    BY <1>6
  <2>3. pos[Len(delivered) + 1] = o + 4 + Len(p)
    BY <1>2, <1>9, <2>1, <2>2
  <2>4. Len(p) \in Nat
    BY PayloadFacts, LenProperties
  <2> QED
    BY <1>3, <1>6, <1>10, <2>3, <2>4
<1>12. OnWay(st, q)'
  <2>1. OnWay(st, o)
    BY <1>9 DEF Flow, OnWay, Reached
  <2>2. /\ Len(frame') = 0 /\ q + Len(frame') = o + Len(frame)
        /\ Len(frame) \in Nat /\ Len(net) \in Nat /\ Len(buffer) \in Nat
    BY <1>5, <1>9, <1>10, Lengths
  <2>3. Reached(q)' = Reached(o)
    BY <1>5, <2>2 DEF Reached
  <2>4. At(frame', st, q) /\ At(net', st, q + Len(frame'))
        /\ At(buffer', st, q + Len(frame') + Len(net'))
    <3>1. At(frame', st, q)
      BY <2>2 DEF At
    <3> QED
      BY <1>5, <2>1, <2>2, <3>1 DEF OnWay
  <2> QED
    BY <1>5, <2>1, <2>3, <2>4 DEF OnWay
<1>13. Boundaries(st, pos)'
  BY <1>5 DEF Flow, Boundaries
<1>14. OnWay(st, pos[Len(delivered)])'
  BY <1>11, <1>12 DEF OnWay, Reached
<1> QED
  BY <1>5, <1>8, <1>13, <1>14 DEF Flow

\* What is added at the end stands at the end.
LEMMA AtEnd ==
  ASSUME NEW st \in Seq(Byte), NEW z \in Seq(Byte)
  PROVE  /\ At(z, st \o z, Len(st)) /\ st \o z \in Seq(Byte)
         /\ Len(st \o z) = Len(st) + Len(z)
<1>1. /\ Len(st) \in Nat /\ Len(z) \in Nat
      /\ st \o z \in Seq(Byte) /\ Len(st \o z) = Len(st) + Len(z)
      /\ \A i \in 1 .. Len(st) + Len(z) :
           (st \o z)[i] = IF i <= Len(st) THEN st[i] ELSE z[i - Len(st)]
  BY ConcatProperties, LenProperties, Zenon
<1>2. ASSUME NEW i \in 1 .. Len(z) PROVE z[i] = (st \o z)[Len(st) + i]
  <2>1. /\ Len(st) + i \in 1 .. Len(st) + Len(z) /\ ~(Len(st) + i <= Len(st))
        /\ (Len(st) + i) - Len(st) = i
    BY <1>1
  <2> QED
    BY <1>1, <2>1
<1> QED
  BY <1>1, <1>2 DEF At

\* A payload that is sent adds its frame at the end.
LEMMA BeginFlow ==
  ASSUME WireInv, \A j \in 1 .. Len(sent) : sent[j] \in Payloads /\ Encodes(sent[j]),
         NEW st \in Seq(Byte), NEW pos \in [0 .. Len(sent) -> Nat], Flow(st, pos),
         NEW p \in Payloads, Encodes(p), writer \in {"greet", "idle"},
         sent' = Append(sent, p), rest' = Encode(p), writer' \in {"greeting", "writing"},
         UNCHANGED <<frame, net, buffer, open, delivered>>
  PROVE  \E z \in Seq(Byte), d \in [0 .. Len(sent') -> Nat] : Flow(z, d)'
<1>0. /\ Len(st) \in Nat /\ Len(delivered) \in Nat /\ Len(sent) \in Nat
      /\ Len(frame) \in Nat /\ Len(net) \in Nat /\ Len(buffer) \in Nat
      /\ Len(delivered) <= Len(sent)
      /\ frame \in Seq(Byte) /\ net \in Seq(Byte) /\ buffer \in Seq(Byte)
  BY Lengths, LenProperties DEF Flow
<1>1. /\ p \in Seq(Byte) /\ Len(p) \in Nat /\ Encode(p) \in Seq(Byte)
      /\ Len(Encode(p)) = 4 + Len(p)
  BY PayloadFacts, EncodedFrame
<1>2. PICK z \in Seq(Byte) :
        /\ z = st \o Encode(p) /\ Len(z) = Len(st) + (4 + Len(p)) /\ Len(z) \in Nat
        /\ At(Encode(p), z, Len(st))
  <2>1. /\ At(Encode(p), st \o Encode(p), Len(st)) /\ st \o Encode(p) \in Seq(Byte)
        /\ Len(st \o Encode(p)) = Len(st) + Len(Encode(p))
    BY <1>1, AtEnd
  <2>2. Len(st) + (4 + Len(p)) \in Nat
    BY <1>0, <1>1
  <2> QED
    BY <1>1, <2>1, <2>2
<1>3. /\ Len(sent') = Len(sent) + 1 /\ sent'[Len(sent) + 1] = p
      /\ \A j \in 1 .. Len(sent) : sent'[j] = sent[j]
  BY <1>1, Lengths
<1>4. PICK d \in [0 .. Len(sent) + 1 -> Nat] :
        d[Len(sent) + 1] = Len(z) /\ \A j \in 0 .. Len(sent) : d[j] = pos[j]
  <2> DEFINE e == [j \in 0 .. Len(sent) + 1 |-> IF j = Len(sent) + 1 THEN Len(z) ELSE pos[j]]
  <2>1. \A j \in 0 .. Len(sent) + 1 : j = Len(sent) + 1 \/ j \in 0 .. Len(sent)
    BY <1>0
  <2>2. e \in [0 .. Len(sent) + 1 -> Nat]
    BY <1>2, <2>1
  <2>3. e[Len(sent) + 1] = Len(z) /\ \A j \in 0 .. Len(sent) : e[j] = pos[j]
    BY <1>0
  <2> HIDE DEF e
  <2> QED
    BY <2>2, <2>3
<1>5. /\ pos[0] = 0 /\ pos[Len(sent)] = Len(st)
      /\ \A j \in 1 .. Len(sent) :
           /\ pos[j] = pos[j - 1] + 4 + Len(sent[j]) /\ pos[j] <= Len(st)
           /\ At(Encode(sent[j]), st, pos[j - 1])
  BY DEF Flow, Boundaries
<1>6. \A j \in 1 .. Len(sent') :
        /\ d[j] = d[j - 1] + 4 + Len(sent'[j]) /\ d[j] <= Len(z)
        /\ At(Encode(sent'[j]), z, d[j - 1])
  <2> SUFFICES ASSUME NEW j \in 1 .. Len(sent')
               PROVE  /\ d[j] = d[j - 1] + 4 + Len(sent'[j]) /\ d[j] <= Len(z)
                      /\ At(Encode(sent'[j]), z, d[j - 1])
    OBVIOUS
  <2>1. CASE j = Len(sent) + 1
    <3>1. j - 1 = Len(sent) /\ d[j - 1] = Len(st) /\ d[j] = Len(z) /\ sent'[j] = p
      BY <1>0, <1>3, <1>4, <1>5, <2>1
    <3>2. Len(z) = Len(st) + 4 + Len(p)
      BY <1>0, <1>1, <1>2
    <3> QED
      BY <1>2, <3>1, <3>2
  <2>2. CASE j # Len(sent) + 1
    <3>1. j \in 1 .. Len(sent) /\ j \in 0 .. Len(sent) /\ j - 1 \in 0 .. Len(sent)
      <4>1. j \in 1 .. Len(sent) + 1 /\ Len(sent) \in Nat
        BY <1>0, <1>3
      <4> QED
        BY <2>2, <4>1
    <3>2. d[j] = pos[j] /\ d[j - 1] = pos[j - 1] /\ sent'[j] = sent[j]
      BY <1>3, <1>4, <3>1
    <3>3. pos[j] \in Nat /\ pos[j - 1] \in Nat
      BY <3>1
    <3>4. pos[j] <= Len(z)
      <4>1. pos[j] <= Len(st)
        BY <1>5, <3>1
      <4> QED
        BY <1>0, <1>1, <1>2, <3>3, <4>1
    <3>5. PICK x \in Payloads : x = sent[j] /\ Encodes(x)
      BY <3>1
    <3>6. Len(x) \in Nat /\ Encode(x) \in Seq(Byte) /\ Len(Encode(x)) = 4 + Len(x)
      BY <3>5, PayloadFacts, EncodedFrame
    <3>7. pos[j - 1] + Len(Encode(x)) <= Len(st) /\ At(Encode(x), st, pos[j - 1])
      <4>1. /\ pos[j] = pos[j - 1] + 4 + Len(x) /\ pos[j] <= Len(st)
            /\ At(Encode(x), st, pos[j - 1])
        BY <1>5, <3>1, <3>5
      <4> QED
        BY <1>0, <3>3, <3>6, <4>1
    <3>8. At(Encode(x), z, pos[j - 1])
      BY <1>1, <1>2, <3>3, <3>6, <3>7, AtExtend
    <3> QED
      BY <1>5, <3>1, <3>2, <3>4, <3>5, <3>8
  <2> QED
    BY <2>1, <2>2
<1>7. Boundaries(z, d)'
  <2>1. d[0] = 0 /\ d[Len(sent')] = Len(z)
    BY <1>0, <1>3, <1>4, <1>5
  <2> QED
    BY <1>6, <2>1 DEF Boundaries
<1>8. PICK o \in Nat : o = pos[Len(delivered)] /\ o = d[Len(delivered)]
  <2>1. Len(delivered) \in 0 .. Len(sent)
    BY <1>0
  <2> QED
    BY <1>4, <2>1
<1>9. OnWay(z, o)'
  <2>1. /\ At(frame, st, o) /\ At(net, st, o + Len(frame))
        /\ At(buffer, st, o + Len(frame) + Len(net)) /\ Reached(o) <= Len(st)
        /\ open => Reached(o) = Len(st)
    BY <1>8 DEF Flow, OnWay, Reached
  <2>2. /\ o + Len(frame) \in Nat /\ o + Len(frame) + Len(net) \in Nat
        /\ o + Len(frame) <= Reached(o) /\ o + Len(frame) + Len(net) <= Reached(o)
        /\ Reached(o) = o + Len(frame) + Len(net) + Len(buffer) /\ Reached(o) \in Nat
    BY <1>0 DEF Reached
  <2>3. /\ o + Len(frame) <= Len(st) /\ o + Len(frame) + Len(net) <= Len(st)
        /\ o + Len(frame) + Len(net) + Len(buffer) <= Len(st)
    BY <1>0, <2>1, <2>2
  <2>4. /\ At(frame, z, o) /\ At(net, z, o + Len(frame))
        /\ At(buffer, z, o + Len(frame) + Len(net))
    BY <1>0, <1>1, <1>2, <2>1, <2>2, <2>3, AtExtend
  <2>5. Reached(o)' = Reached(o) /\ Reached(o) <= Len(z)
    BY <1>0, <1>1, <1>2, <2>1, <2>2 DEF Reached
  <2>6. open => Reached(o) + Len(rest') = Len(z) /\ At(rest', z, Reached(o))
    BY <1>0, <1>1, <1>2, <2>1
  <2> QED
    BY <2>4, <2>5, <2>6 DEF OnWay
<1>10. OnWay(z, d[Len(delivered)])'
  BY <1>8, <1>9 DEF OnWay, Reached
<1>11. Len(delivered') <= Len(sent') /\ \A j \in 1 .. Len(delivered') : delivered'[j] = sent'[j]
  <2>1. \A j \in 1 .. Len(delivered) : j \in 1 .. Len(sent) /\ delivered[j] = sent[j]
    BY <1>0 DEF Flow
  <2> QED
    BY <1>0, <1>3, <2>1
<1>12. Flow(z, d)'
  BY <1>7, <1>10, <1>11 DEF Flow
<1>13. d \in [0 .. Len(sent') -> Nat]
  BY <1>3
<1> QED
  BY <1>12, <1>13

\* The tests of read_frame let a frame of this program pass.
LEMMA ChecksPass ==
  ASSUME WireInv, \A j \in 1 .. Len(sent) : sent[j] \in Payloads /\ Encodes(sent[j]),
         NEW st \in Seq(Byte), NEW pos \in [0 .. Len(sent) -> Nat], Flow(st, pos),
         CheckHeader \/ CheckPayload
  PROVE  UNCHANGED rejected
<1>1. frame \in Seq(Byte) /\ Len(frame) >= 4
  BY DEF CheckHeader, CheckPayload, WireInv, Within, ReaderType
<1>2. PICK p \in Payloads :
        /\ Encodes(p) /\ Announced(frame) = Len(p)
        /\ Len(frame) = 4 + Len(p) => Payload(frame) = p
  BY <1>1, NextFrame
<1>3. Len(p) # 0 /\ Len(p) <= MaxPayload /\ IsUtf8(p)
  BY <1>2, PayloadFacts, EncodedFrame
<1>4. CASE CheckHeader
  BY <1>2, <1>3, <1>4 DEF CheckHeader, InLimits
<1>5. CASE CheckPayload
  <2>1. reader = "payload" /\ Len(frame) = 4 + Announced(frame)
    BY <1>5 DEF CheckPayload, Wanted
  <2>2. IsUtf8(Payload(frame))
    BY <1>2, <1>3, <2>1
  <2> QED
    BY <1>5, <2>2 DEF CheckPayload
<1> QED
  BY <1>4, <1>5

\* Every step keeps the frames whole and in order.
LEMMA FlowStep == FlowInv /\ [Next]_vars => FlowInv'
<1> SUFFICES ASSUME FlowInv, [Next]_vars PROVE FlowInv'
  OBVIOUS
<1>0. WireInv /\ WireInv' /\ from' = from
  <2>1. from' = from
    BY DEF FlowInv, vars, Next, Greet, Take, WriterStep, WritePiece, Flush, WriteFails,
       WriteTimesOut, Spill, Close, Foreign, ReaderStep, ReadPiece, CheckHeader,
       CheckPayload, Decode, ReadEnds, ReadTimesOut
  <2> QED
    BY <2>1, WireStep DEF FlowInv
<1>1. \A j \in 1 .. Len(sent) : sent[j] \in Payloads /\ Encodes(sent[j])
  BY DEF FlowInv
<1>2. \/ sent' = sent
      \/ \E p \in Payloads :
           /\ Encodes(p) /\ sent' = Append(sent, p) /\ rest' = Encode(p)
           /\ writer \in {"greet", "idle"} /\ writer' \in {"greeting", "writing"}
           /\ UNCHANGED <<frame, net, buffer, open, delivered, rejected>>
  <2>1. CASE \E p \in Payloads : Greet(p) \/ Take(p)
    BY <2>1 DEF Greet, Take, Begin, readVars
  <2>2. CASE WriterStep \/ WriteTimesOut
    BY <2>2 DEF WriterStep, WritePiece, Flush, WriteFails, WriteTimesOut
  <2>3. CASE Spill \/ Close \/ \E b \in ForeignBytes : Foreign(b)
    BY <2>3 DEF Spill, Close, Foreign, writeVars
  <2>4. CASE ReaderStep \/ ReadTimesOut
    BY <2>4 DEF ReaderStep, ReadPiece, CheckHeader, CheckPayload, Decode, ReadEnds,
       ReadTimesOut, writeVars
  <2>5. CASE UNCHANGED vars
    BY <2>5 DEF vars
  <2> QED
    BY <2>1, <2>2, <2>3, <2>4, <2>5 DEF Next
<1>3. \A j \in 1 .. Len(sent') : sent'[j] \in Payloads /\ Encodes(sent'[j])
  <2>1. ASSUME NEW p \in Payloads, Encodes(p), sent' = Append(sent, p)
        PROVE  \A j \in 1 .. Len(sent') : sent'[j] \in Payloads /\ Encodes(sent'[j])
    <3>1. /\ Len(sent) \in Nat /\ Len(sent') = Len(sent) + 1 /\ sent'[Len(sent) + 1] = p
          /\ \A j \in 1 .. Len(sent) : sent'[j] = sent[j]
      BY <1>0, <2>1, Lengths, PayloadFacts
    <3>2. \A j \in 1 .. Len(sent') : j \in 1 .. Len(sent) \/ j = Len(sent) + 1
      BY <3>1
    <3> QED
      BY <1>1, <2>1, <3>1, <3>2
  <2> QED
    BY <1>1, <1>2, <2>1
<1>4. ASSUME from # "foreign"
      PROVE  /\ ~rejected'
             /\ \E st \in Seq(Byte), pos \in [0 .. Len(sent') -> Nat] : Flow(st, pos)'
  <2>1. PICK st \in Seq(Byte), pos \in [0 .. Len(sent) -> Nat] : Flow(st, pos)
    BY <1>4 DEF FlowInv
  <2>2. ~rejected
    BY <1>4 DEF FlowInv
  <2>3. PICK o \in Nat : o = pos[Len(delivered)]
    <3>1. Len(delivered) \in 0 .. Len(sent)
      BY <1>0, <2>1, Lengths DEF Flow
    <3> QED
      BY <3>1
  <2>4. OnWay(st, o)
    BY <2>1, <2>3 DEF Flow, OnWay, Reached
  <2>5. ASSUME UNCHANGED <<sent, delivered, rejected>>, OnWay(st, o)'
        PROVE  /\ ~rejected'
               /\ \E z \in Seq(Byte), d \in [0 .. Len(sent') -> Nat] : Flow(z, d)'
    <3>1. Flow(st, pos)'
      BY <2>1, <2>3, <2>5, FlowStays
    <3>2. pos \in [0 .. Len(sent') -> Nat]
      BY <2>5
    <3>3. ~rejected'
      BY <2>2, <2>5
    <3> QED
      BY <3>1, <3>2, <3>3
  <2>6. ASSUME UNCHANGED <<sent, delivered, rejected, frame, net, buffer, open, rest>>,
               \/ writer' = writer \/ writer' = "stopped"
               \/ writer = "greet" /\ writer' = "idle"
        PROVE  /\ ~rejected'
               /\ \E z \in Seq(Byte), d \in [0 .. Len(sent') -> Nat] : Flow(z, d)'
    <3>1. OnWay(st, o)'
      BY <2>4, <2>6 DEF OnWay, Reached
    <3> QED
      BY <2>5, <2>6, <3>1
  <2>7. ASSUME NEW p \in Payloads, Greet(p) \/ Take(p)
        PROVE  /\ ~rejected'
               /\ \E z \in Seq(Byte), d \in [0 .. Len(sent') -> Nat] : Flow(z, d)'
    <3>1. CASE Encodes(p)
      <4>1. /\ sent' = Append(sent, p) /\ rest' = Encode(p)
            /\ writer \in {"greet", "idle"} /\ writer' \in {"greeting", "writing"}
            /\ UNCHANGED <<frame, net, buffer, open, delivered, rejected>>
        BY <2>7, <3>1 DEF Greet, Take, Begin, readVars
      <4>2. \E z \in Seq(Byte), d \in [0 .. Len(sent') -> Nat] : Flow(z, d)'
        BY <1>0, <1>1, <2>1, <3>1, <4>1, BeginFlow
      <4>3. ~rejected'
        BY <2>2, <4>1
      <4> QED
        BY <4>2, <4>3
    <3>2. CASE ~Encodes(p)
      <4>1. /\ UNCHANGED <<sent, delivered, rejected, frame, net, buffer, open, rest>>
            /\ \/ writer' = writer \/ writer' = "stopped"
               \/ writer = "greet" /\ writer' = "idle"
        BY <2>7, <3>2 DEF Greet, Take, readVars
      <4> QED
        BY <2>6, <4>1
    <3> QED
      BY <3>1, <3>2
  <2>8. CASE WriterStep \/ WriteTimesOut
    <3>1. UNCHANGED <<sent, delivered, rejected>>
      BY <2>8 DEF WriterStep, WritePiece, Flush, WriteFails, WriteTimesOut, readVars
    <3>2. OnWay(st, o)'
      BY <1>0, <2>4, <2>8, WritesOnWay
    <3> QED
      BY <2>5, <3>1, <3>2
  <2>9. CASE Spill \/ Close
    <3>1. UNCHANGED <<sent, delivered, rejected>>
      BY <2>9 DEF Spill, Close, readVars, writeVars
    <3>2. OnWay(st, o)'
      BY <1>0, <2>4, <2>9, StreamOnWay
    <3> QED
      BY <2>5, <3>1, <3>2
  <2>10. CASE ReadPiece
    <3>1. UNCHANGED <<sent, delivered, rejected>>
      BY <2>10 DEF ReadPiece, writeVars
    <3>2. OnWay(st, o)'
      BY <1>0, <2>4, <2>10, ReadOnWay
    <3> QED
      BY <2>5, <3>1, <3>2
  <2>11. CASE CheckHeader \/ CheckPayload \/ ReadEnds \/ ReadTimesOut \/ UNCHANGED vars
    <3>1. UNCHANGED <<sent, delivered, frame, net, buffer, open, rest, writer>>
      BY <2>11 DEF CheckHeader, CheckPayload, ReadEnds, ReadTimesOut, vars, writeVars
    <3>2. CASE CheckHeader \/ CheckPayload
      BY <1>0, <1>1, <2>1, <2>6, <3>1, <3>2, ChecksPass
    <3>3. CASE ReadEnds \/ ReadTimesOut \/ UNCHANGED vars
      <4>1. UNCHANGED rejected
        BY <3>3 DEF ReadEnds, ReadTimesOut, vars
      <4> QED
        BY <2>6, <3>1, <4>1
    <3> QED
      BY <2>11, <3>2, <3>3
  <2>12. CASE Decode
    <3>1. UNCHANGED <<rejected, sent>> /\ Flow(st, pos)'
      BY <1>0, <1>1, <2>1, <2>12, DecodeFlow
    <3>2. pos \in [0 .. Len(sent') -> Nat]
      BY <3>1
    <3>3. ~rejected'
      BY <2>2, <3>1
    <3> QED
      BY <3>1, <3>2, <3>3
  <2>13. ~ \E b \in ForeignBytes : Foreign(b)
    BY <1>4 DEF Foreign
  <2> QED
    BY <2>7, <2>8, <2>9, <2>10, <2>11, <2>12, <2>13 DEF Next, ReaderStep
<1> QED
  BY <1>0, <1>3, <1>4 DEF FlowInv

\* Nothing is on its way when the stream is opened.
LEMMA FlowInit == Init => FlowInv
<1> SUFFICES ASSUME Init PROVE FlowInv
  OBVIOUS
<1>1. /\ sent = <<>> /\ delivered = <<>> /\ frame = <<>> /\ net = <<>> /\ buffer = <<>>
      /\ writer \in {"greet", "idle"} /\ ~rejected
  BY DEF Init
<1>2. /\ Len(sent) = 0 /\ Len(delivered) = 0 /\ Len(frame) = 0 /\ Len(net) = 0
      /\ Len(buffer) = 0
  BY <1>1
<1>3. PICK st \in Seq(Byte) : Len(st) = 0
  BY <1>1, <1>2, WireInit DEF WireInv, ReaderType
<1>4. PICK pos \in [0 .. Len(sent) -> Nat] : pos[0] = 0
  <2>1. [j \in 0 .. Len(sent) |-> 0] \in [0 .. Len(sent) -> Nat]
    OBVIOUS
  <2>2. [j \in 0 .. Len(sent) |-> 0][0] = 0
    BY <1>2
  <2> QED
    BY <2>1, <2>2
<1>5. Boundaries(st, pos)
  BY <1>2, <1>3, <1>4 DEF Boundaries
<1>6. OnWay(st, pos[Len(delivered)])
  BY <1>1, <1>2, <1>3, <1>4 DEF OnWay, Reached, At
<1>7. Flow(st, pos)
  BY <1>2, <1>5, <1>6 DEF Flow
<1> QED
  BY <1>1, <1>2, <1>7, WireInit DEF FlowInv

\* What the host or a joiner writes, the reader at the other end gets: the same
\* payloads in the same order, none of them refused, for every limit and every
\* payload and however the stream cuts the bytes, holds them back or loses the
\* end of them.
THEOREM FramesArriveWhole == Spec => []FramesSurvive
<1>1. FlowInv => FramesSurvive
  <2> SUFFICES ASSUME FlowInv, from # "foreign" PROVE IsPrefix(delivered, sent)
    BY DEF FramesSurvive, FlowInv
  <2>1. /\ Len(delivered) <= Len(sent)
        /\ \A j \in 1 .. Len(delivered) : delivered[j] = sent[j]
    BY DEF FlowInv, Flow
  <2>2. /\ Len(delivered) \in Nat /\ Len(sent) \in Nat
        /\ delivered \in Seq(Seq(Byte)) /\ sent \in Seq(Seq(Byte))
    BY Lengths DEF FlowInv
  <2>3. SubSeq(delivered, 1, Len(delivered)) = SubSeq(sent, 1, Len(delivered))
    BY <2>1, <2>2
  <2> QED
    BY <2>1, <2>3 DEF IsPrefix
<1> QED
  BY FlowInit, FlowStep, <1>1, PTL DEF Spec

-----------------------------------------------------------------------------
(* The stream implements Delivery *)

\* A step begins a frame, delivers one or does neither.
LEMMA FlowMoves ==
  ASSUME WireInv, [Next]_vars
  PROVE  /\ from' = from
         /\ \/ delivered' = delivered /\ Len(sent) <= Len(sent')
            \/ sent' = sent /\ Len(delivered') = Len(delivered) + 1
<1>0. /\ Len(sent) \in Nat /\ Len(delivered) \in Nat
      /\ sent \in Seq(Seq(Byte)) /\ delivered \in Seq(Seq(Byte))
  BY Lengths
<1>1. CASE \E p \in Payloads : Greet(p) \/ Take(p)
  <2>1. /\ from' = from /\ delivered' = delivered
        /\ sent' = sent \/ \E p \in Payloads : sent' = Append(sent, p)
    BY <1>1 DEF Greet, Take, Begin, readVars
  <2>2. \A p \in Payloads : Len(Append(sent, p)) = Len(sent) + 1
    BY <1>0
  <2> QED
    BY <1>0, <2>1, <2>2
<1>2. CASE WriterStep \/ WriteTimesOut
  BY <1>0, <1>2 DEF WriterStep, WritePiece, Flush, WriteFails, WriteTimesOut, readVars
<1>3. CASE Spill \/ Close \/ \E b \in ForeignBytes : Foreign(b)
  BY <1>0, <1>3 DEF Spill, Close, Foreign, writeVars, readVars
<1>4. CASE ReadPiece \/ CheckHeader \/ CheckPayload \/ ReadEnds \/ ReadTimesOut
  BY <1>0, <1>4 DEF ReadPiece, CheckHeader, CheckPayload, ReadEnds, ReadTimesOut, writeVars
<1>5. CASE Decode
  <2>1. /\ from' = from /\ sent' = sent
        /\ delivered' = delivered \/ delivered' = Append(delivered, Payload(frame))
    BY <1>5 DEF Decode, writeVars
  <2>2. Len(Append(delivered, Payload(frame))) = Len(delivered) + 1
    BY <1>0
  <2> QED
    BY <1>0, <2>1, <2>2
<1>6. CASE UNCHANGED vars
  BY <1>0, <1>6 DEF vars
<1> QED
  BY <1>1, <1>2, <1>3, <1>4, <1>5, <1>6 DEF Next, ReaderStep

\* What was delivered is what was sent, place by place.
AllArrived ==
  from # "foreign" =>
    /\ Len(delivered) \in Nat /\ Len(sent) \in Nat /\ Len(delivered) <= Len(sent)
    /\ Arrived = [j \in 1 .. Len(delivered) |-> j]

LEMMA ArrivedIs == FlowInv => AllArrived
<1> SUFFICES ASSUME FlowInv, from # "foreign"
             PROVE  /\ Len(delivered) \in Nat /\ Len(sent) \in Nat
                    /\ Len(delivered) <= Len(sent)
                    /\ Arrived = [j \in 1 .. Len(delivered) |-> j]
  BY DEF AllArrived
<1>1. /\ Len(delivered) \in Nat /\ Len(sent) \in Nat
      /\ DOMAIN delivered = 1 .. Len(delivered) /\ DOMAIN sent = 1 .. Len(sent)
  BY Lengths DEF FlowInv
<1>2. /\ Len(delivered) <= Len(sent)
      /\ \A j \in 1 .. Len(delivered) : delivered[j] = sent[j]
  BY DEF FlowInv, Flow
<1> QED
  BY <1>1, <1>2 DEF Arrived

\* Every step puts a frame on the line, takes the next one from it or leaves it
\* as it is.
LEMMA FramesStep ==
  FlowInv /\ FlowInv' /\ [Next]_vars => [Frames!Next]_(Frames!vars)
<1> SUFFICES ASSUME FlowInv, FlowInv', [Next]_vars PROVE Frames!Next
  OBVIOUS
<1> DEFINE L == {"host", "joiner"}
           put == [l \in L |-> IF l = from THEN Len(sent) ELSE 0]
           got == [l \in L |-> IF l = from THEN Arrived ELSE <<>>]
<1>0. AllArrived /\ AllArrived'
  <2>1. FlowInv' => AllArrived'
    BY ArrivedIs, PTL
  <2> QED
    BY <2>1, ArrivedIs
<1>1. /\ from' = from
      /\ \/ delivered' = delivered /\ Len(sent) <= Len(sent')
         \/ sent' = sent /\ Len(delivered') = Len(delivered) + 1
  BY FlowMoves DEF FlowInv
<1>2. from \in {"host", "joiner", "foreign"} /\ Len(sent) \in Nat /\ Len(sent') \in Nat
  BY Lengths DEF FlowInv, WireInv, StreamType
<1>3. put' \in [L -> Nat] /\ DOMAIN got' = L
  BY <1>2
<1>4. ASSUME NEW l \in L, l # from PROVE Frames!Put(l)
  BY <1>1, <1>4 DEF Frames!Put
<1>5. ASSUME NEW l \in L, l = from PROVE Frames!Put(l) \/ Frames!Get(l)
  <2>1. /\ Len(delivered) \in Nat /\ Len(sent) \in Nat /\ Len(delivered) <= Len(sent)
        /\ Arrived = [j \in 1 .. Len(delivered) |-> j]
    BY <1>0, <1>5 DEF AllArrived
  <2>2. /\ Len(delivered') \in Nat /\ Len(sent') \in Nat /\ Len(delivered') <= Len(sent')
        /\ Arrived' = [j \in 1 .. Len(delivered') |-> j]
    BY <1>0, <1>1, <1>5 DEF AllArrived
  <2>3. /\ put[l] = Len(sent) /\ put'[l] = Len(sent')
        /\ got[l] = Arrived /\ got'[l] = Arrived'
    BY <1>1, <1>5
  <2>4. CASE delivered' = delivered /\ Len(sent) <= Len(sent')
    BY <2>1, <2>2, <2>3, <2>4 DEF Frames!Put
  <2>5. CASE sent' = sent /\ Len(delivered') = Len(delivered) + 1
    <3> DEFINE n == Len(delivered) + 1
    <3>1. DOMAIN Arrived = 1 .. n - 1 /\ DOMAIN Arrived' = 1 .. n
      BY <2>1, <2>2, <2>5
    <3>2. /\ \A p \in 1 .. n - 1 : Arrived[p] = p
          /\ \A p \in 1 .. n : Arrived'[p] = p
      BY <2>1, <2>2, <2>5
    <3>3. n \in DOMAIN got'[l] /\ n \in 1 .. put[l] /\ n \in Nat
      BY <2>1, <2>2, <2>3, <2>5, <3>1
    <3>4. \A p \in DOMAIN got[l] : p < n /\ got[l][p] < n
      BY <2>1, <2>3, <3>1, <3>2
    <3>5. Frames!CaughtUp(l, n)
      BY <2>1, <2>3, <3>1, <3>2 DEF Frames!CaughtUp
    <3>6. /\ DOMAIN got'[l] = DOMAIN got[l] \cup {n} /\ got'[l][n] = n
          /\ \A p \in DOMAIN got[l] : got'[l][p] = got[l][p]
      BY <2>1, <2>3, <3>1, <3>2
    <3>7. put'[l] = put[l]
      BY <2>3, <2>5
    <3> QED
      BY <3>3, <3>4, <3>5, <3>6, <3>7 DEF Frames!Get
  <2> QED
    BY <1>1, <2>4, <2>5
<1> QED
  BY <1>3, <1>4, <1>5 DEF Frames!Next

\* What encode_message wrote and read_frame read is a line that leaves nothing
\* out, for every limit and payload and whatever happens to the bytes.
THEOREM FramesDelivered == Spec => DeliversFrames
<1>1. Init => Frames!Init
  <2> SUFFICES ASSUME Init PROVE Frames!Init
    OBVIOUS
  <2>1. sent = <<>> /\ delivered = <<>> /\ from \in {"host", "joiner", "foreign"}
    BY DEF Init
  <2>2. Len(sent) = 0 /\ DOMAIN Arrived = {}
    BY <2>1 DEF Arrived
  <2>3. Arrived \in [{} -> Nat] /\ <<>> \in [{} -> Nat]
    BY <2>1, <2>2 DEF Arrived
  <2> QED
    BY <2>2, <2>3 DEF Frames!Init
<1> QED
  BY <1>1, FlowInit, FlowStep, FramesStep, PTL DEF Spec, DeliversFrames, Frames!Spec
=============================================================================
