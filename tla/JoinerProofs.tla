---------------------------- MODULE JoinerProofs ----------------------------
(***************************************************************************)
(* Theorems about Joiner for any number of messages of the user and of the *)
(* hub and any capacity of its channels.                                   *)
(***************************************************************************)
EXTENDS Joiner, SequenceTheorems, TLAPS

USE DEF handleVars, loopVars, readVars, eventVars

-----------------------------------------------------------------------------
(* Type correctness *)

\* The message in process_outgoing_message is one that the user sent: what makes
\* TypeOK inductive.
WritesMessage == loop = "writing" => cur \in Sends

TypeInv == TypeOK /\ WritesMessage

\* Every event the joiner builds is an event of the model.
LEMMA EventTypes ==
  /\ SelfJoined \in Event /\ Error \in Event /\ RoomClosed \in Event
  /\ \A n \in Nat : Own(n) \in Event /\ FromHub(n) \in Event
BY DEF Event, SelfJoined, Error, RoomClosed, Own, FromHub

\* The events are at most one longer after a step that had room for one.
LEMMA AppendEvent ==
  ASSUME EventTypeOK, NEW e \in Event, EventRoom, events' = Append(events, e),
         evRead' = evRead, evOpen' = evOpen, pending' \in Seq(Event)
  PROVE  EventTypeOK'
<1>1. events' \in Seq(Event) /\ Len(events') = Len(events) + 1
  BY DEF EventTypeOK
<1> QED
  BY <1>1, JoinerAssumption DEF EventTypeOK, EventRoom, JoinerAssumption

\* try_emit keeps the event channel and the buffer well-typed.
LEMMA TryEmitType ==
  ASSUME EventTypeOK, NEW e \in Event, TryEmit(e)
  PROVE  EventTypeOK'
<1>1. CASE EventRoom /\ events' = Append(events, e) /\ UNCHANGED pending
  BY <1>1, AppendEvent DEF TryEmit, EventTypeOK
<1>2. CASE pending' = Append(pending, e) /\ UNCHANGED events
  BY <1>2 DEF TryEmit, EventTypeOK
<1> QED
  BY <1>1, <1>2 DEF TryEmit

\* try_send of joiner_task keeps the event channel well-typed.
LEMMA TrySendType ==
  ASSUME EventTypeOK, NEW e \in Event, TrySend(e), UNCHANGED pending
  PROVE  EventTypeOK'
<1>1. CASE EventRoom
  BY <1>1, AppendEvent DEF TrySend, EventTypeOK
<1>2. CASE ~EventRoom
  BY <1>2 DEF TrySend, EventTypeOK
<1> QED
  BY <1>1, <1>2

\* The state in which joiner_task calls run() is well-typed.
LEMMA TypeInit == Init => TypeInv
<1> SUFFICES ASSUME Init PROVE TypeInv
  OBVIOUS
<1>1. HandleTypeOK
  <2>1. sendQ \in Seq(Sends) /\ Len(sendQ) <= SendCap
    BY JoinerAssumption DEF Init, JoinerAssumption
  <2> QED
    BY <2>1 DEF Init, HandleTypeOK
<1>2. LoopTypeOK /\ WritesMessage
  <2>1. loop = "polled" /\ failed = FALSE /\ cur = 0 /\ wire = <<>>
    BY DEF Init
  <2>2. failed \in BOOLEAN
    BY <2>1
  <2>3. cur \in Sends \cup {0} /\ wire \in Seq(Sends)
    BY <2>1
  <2> QED
    BY <2>1, <2>2, <2>3 DEF LoopTypeOK, WritesMessage
<1>3. ReadTypeOK
  BY JoinerAssumption DEF Init, ReadTypeOK, JoinerAssumption
<1>4. EventTypeOK
  BY EventTypes, JoinerAssumption DEF Init, EventTypeOK, JoinerAssumption
<1> QED
  BY <1>1, <1>2, <1>3, <1>4 DEF TypeInv, TypeOK

\* The head of the send channel is a message, the rest is within the capacity.
LEMMA TakeType ==
  ASSUME HandleTypeOK, sendQ # <<>>
  PROVE  /\ Head(sendQ) \in Sends /\ Own(Head(sendQ)) \in Event
         /\ Tail(sendQ) \in Seq(Sends) /\ Len(Tail(sendQ)) <= SendCap
<1>1. /\ Head(sendQ) \in Sends /\ Tail(sendQ) \in Seq(Sends)
      /\ Len(Tail(sendQ)) <= SendCap
  BY JoinerAssumption DEF HandleTypeOK, JoinerAssumption
<1>2. Head(sendQ) \in Nat
  BY <1>1, JoinerAssumption DEF JoinerAssumption
<1> QED
  BY <1>1, <1>2, EventTypes

\* The steps of the user interface keep the types.
LEMMA TypeUser ==
  ASSUME TypeInv,
         \/ \E s \in Sends : SendBegin(s) \/ SendComplete(s)
         \/ Quit \/ DropSendTx \/ DropShutdownTx \/ Consume \/ DropStream
  PROVE  TypeInv'
<1> USE DEF TypeInv, TypeOK, LoopTypeOK, ReadTypeOK, WritesMessage
<1>1. ASSUME NEW s \in Sends, SendBegin(s) PROVE TypeInv'
  BY <1>1 DEF SendBegin, HandleTypeOK, EventTypeOK
<1>2. ASSUME NEW s \in Sends, SendComplete(s) PROVE TypeInv'
  <2>1. HandleTypeOK'
    <3>1. CASE Returned
      BY <1>2, <3>1 DEF HandleTypeOK, SendComplete
    <3>2. CASE ~Returned
      <4>1. /\ sendQ' = Append(sendQ, s) /\ Len(sendQ) < SendCap
            /\ taken' = Append(taken, s)
            /\ send' = [send EXCEPT ![s] = "ok"]
            /\ connected' = connected /\ handle' = handle /\ shutdown' = shutdown
        BY <1>2, <3>2 DEF SendComplete
      <4>2. /\ sendQ' \in Seq(Sends) /\ Len(sendQ') = Len(sendQ) + 1
            /\ taken' \in Seq(Sends)
        BY <4>1 DEF HandleTypeOK
      <4>3. Len(sendQ') <= SendCap
        BY <4>1, <4>2, JoinerAssumption DEF JoinerAssumption, HandleTypeOK
      <4> QED
        BY <4>1, <4>2, <4>3 DEF HandleTypeOK
    <3> QED
      BY <3>1, <3>2
  <2> QED
    BY <1>2, <2>1 DEF SendComplete, EventTypeOK
<1>3. CASE Quit \/ DropSendTx \/ DropShutdownTx
  BY <1>3 DEF Quit, DropSendTx, DropShutdownTx, HandleTypeOK, EventTypeOK
<1>4. CASE Consume
  <2>1. /\ evRead' = evRead + 1 /\ evRead < Len(events) /\ events' = events
        /\ evOpen' = evOpen /\ events \in Seq(Event) /\ evRead \in Nat
        /\ pending' = pending /\ Len(events) - evRead <= EventCap
    BY <1>4 DEF Consume, EventTypeOK
  <2>2. evRead + 1 \in 0 .. Len(events) /\ Len(events) - (evRead + 1) <= EventCap
    BY <2>1, JoinerAssumption DEF JoinerAssumption
  <2>3. EventTypeOK'
    BY <2>1, <2>2 DEF EventTypeOK
  <2> QED
    BY <1>4, <2>3 DEF Consume, HandleTypeOK
<1>5. CASE DropStream
  BY <1>5 DEF DropStream, HandleTypeOK, EventTypeOK
<1> QED
  BY <1>1, <1>2, <1>3, <1>4, <1>5

\* The steps of the loop keep the types.
LEMMA TypeLoop ==
  ASSUME TypeInv, LoopStep
  PROVE  TypeInv'
<1> USE DEF TypeInv, TypeOK, ReadTypeOK, WritesMessage
<1>1. CASE LoopShutdown \/ LoopReaderDone \/ LoopClosed \/ LoopStreamDropped
  BY <1>1 DEF LoopShutdown, LoopReaderDone, LoopClosed, LoopStreamDropped, HandleTypeOK,
     LoopTypeOK, EventTypeOK
<1>2. CASE LoopMessage
  <2>1. HandleTypeOK'
    BY <1>2, TakeType DEF LoopMessage, HandleTypeOK
  <2>2. LoopTypeOK' /\ WritesMessage'
    BY <1>2, TakeType DEF LoopMessage, LoopTypeOK
  <2> QED
    BY <1>2, <2>1, <2>2 DEF LoopMessage, EventTypeOK
<1>3. CASE EchoMessage
  <2>1. HandleTypeOK'
    BY <1>3, TakeType DEF EchoMessage, HandleTypeOK
  <2>2. LoopTypeOK' /\ WritesMessage'
    BY <1>3 DEF EchoMessage, LoopTypeOK, AfterPoll
  <2>3. EventTypeOK'
    BY <1>3, TakeType, TryEmitType DEF EchoMessage
  <2> QED
    BY <1>3, <2>1, <2>2, <2>3 DEF EchoMessage
<1>4. CASE Write
  <2>1. cur \in Sends /\ Own(cur) \in Event
    BY <1>4, EventTypes, JoinerAssumption DEF Write, JoinerAssumption
  <2>2. LoopTypeOK' /\ WritesMessage'
    BY <1>4, <2>1 DEF Write, LoopTypeOK, AfterPoll
  <2>3. EventTypeOK'
    BY <1>4, <2>1, TryEmitType DEF Write
  <2> QED
    BY <1>4, <2>2, <2>3 DEF Write, HandleTypeOK
<1>5. CASE WriteFails
  <2>1. cur \in Sends
    BY <1>5 DEF WriteFails
  <2>2. wire' \in Seq(Sends)
    BY <1>5, <2>1 DEF WriteFails, LoopTypeOK
  <2> QED
    BY <1>5, <2>2 DEF WriteFails, HandleTypeOK, LoopTypeOK, EventTypeOK
<1>6. CASE Drain
  <2>1. CASE sendQ # <<>>
    <3>1. HandleTypeOK'
      BY <1>6, <2>1, TakeType DEF Drain, HandleTypeOK
    <3>2. EventTypeOK'
      BY <1>6, <2>1, TakeType, TryEmitType DEF Drain
    <3> QED
      BY <1>6, <2>1, <3>1, <3>2 DEF Drain, LoopTypeOK
  <2>2. CASE sendQ = <<>>
    BY <1>6, <2>2 DEF Drain, HandleTypeOK, LoopTypeOK, EventTypeOK
  <2> QED
    BY <2>1, <2>2
<1>7. CASE Flush
  <2>1. EventTypeOK'
    <3>1. CASE pending = <<>>
      BY <1>7, <3>1 DEF Flush, EventTypeOK
    <3>2. CASE pending # <<>> /\ EventRoom /\ events' = Append(events, Last(pending))
               /\ pending' = Front(pending)
      <4>1. Last(pending) \in Event /\ Front(pending) \in Seq(Event)
        BY <3>2 DEF Last, Front, EventTypeOK
      <4> QED
        BY <1>7, <3>2, <4>1, AppendEvent DEF Flush
    <3>3. CASE pending' = <<>> /\ UNCHANGED events
      BY <1>7, <3>3 DEF Flush, EventTypeOK
    <3> QED
      BY <1>7, <3>1, <3>2, <3>3 DEF Flush
  <2> QED
    BY <1>7, <2>1 DEF Flush, HandleTypeOK, LoopTypeOK
<1>8. CASE StopReader
  BY <1>8 DEF StopReader, HandleTypeOK, LoopTypeOK, EventTypeOK
<1>9. CASE ReportError
  <2>1. EventTypeOK'
    <3>1. CASE failed
      BY <1>9, <3>1, EventTypes, TrySendType DEF ReportError
    <3>2. CASE ~failed
      BY <1>9, <3>2 DEF ReportError, EventTypeOK
    <3> QED
      BY <3>1, <3>2
  <2> QED
    BY <1>9, <2>1 DEF ReportError, HandleTypeOK, LoopTypeOK
<1>10. CASE EmitClosed
  BY <1>10, EventTypes, TrySendType DEF EmitClosed, HandleTypeOK, LoopTypeOK
<1> QED
  BY <1>1, <1>2, <1>3, <1>4, <1>5, <1>6, <1>7, <1>8, <1>9, <1>10 DEF LoopStep

\* The steps of the reader task keep the types.
LEMMA TypeReader ==
  ASSUME TypeInv, ReaderFrame \/ ReaderForward \/ ReaderEnds
  PROVE  TypeInv'
<1> USE DEF TypeInv, TypeOK, LoopTypeOK, WritesMessage
<1>1. CASE ReaderFrame
  <2>1. ReadTypeOK'
    BY <1>1, JoinerAssumption DEF ReaderFrame, ReadTypeOK, JoinerAssumption
  <2> QED
    BY <1>1, <2>1 DEF ReaderFrame, HandleTypeOK, EventTypeOK
<1>2. CASE ReaderForward
  <2>1. FromHub(frames) \in Event
    BY EventTypes DEF ReadTypeOK
  <2>2. EventTypeOK'
    BY <1>2, <2>1, AppendEvent DEF ReaderForward, EventTypeOK
  <2> QED
    BY <1>2, <2>2 DEF ReaderForward, HandleTypeOK, ReadTypeOK
<1>3. CASE ReaderEnds
  BY <1>3 DEF ReaderEnds, ReadTypeOK, HandleTypeOK, EventTypeOK
<1> QED
  BY <1>1, <1>2, <1>3

\* Every step of the joiner keeps the types and the channel capacities.
LEMMA TypeStep == TypeInv /\ [Next]_vars => TypeInv'
<1> SUFFICES ASSUME TypeInv, [Next]_vars PROVE TypeInv'
  OBVIOUS
<1>1. CASE UNCHANGED vars
  BY <1>1 DEF vars, TypeInv, TypeOK, HandleTypeOK, LoopTypeOK, ReadTypeOK, EventTypeOK,
     WritesMessage
<1> QED
  BY <1>1, TypeUser, TypeLoop, TypeReader DEF Next, Terminated

\* Every reachable state of a joiner is well-typed and neither its send channel
\* nor its event channel holds more than its capacity.
THEOREM TypeCorrect == Spec => []TypeOK
<1>1. TypeInv => TypeOK
  BY DEF TypeInv
<1> QED
  BY TypeInit, TypeStep, <1>1, PTL DEF Spec

-----------------------------------------------------------------------------
(* The end of the stream *)

\* The inductive invariant behind RoomClosedLast: only echoes are buffered, the
\* reader is gone before joiner_task reports, and RoomClosed is on the stream
\* only when the task is over.
ClosedInv ==
  /\ TypeInv
  /\ \A i \in DOMAIN pending : pending[i].type = "Own"
  /\ loop \in {"report", "closing", "done"} => reader = "gone"
  /\ \A i \in DOMAIN events : events[i] = RoomClosed => i = Len(events) /\ loop = "done"

\* Which steps put something on the stream or into the buffer.
LEMMA EventMoves ==
  ASSUME [Next]_vars
  PROVE  \/ UNCHANGED <<events, pending>>
         \/ EchoMessage \/ Write \/ Drain \/ Flush \/ ReportError \/ EmitClosed
         \/ ReaderForward
<1>1. CASE UNCHANGED vars
  BY <1>1 DEF vars
<1>2. CASE \/ \E s \in Sends : SendBegin(s) \/ SendComplete(s)
           \/ Quit \/ DropSendTx \/ DropShutdownTx \/ Consume \/ DropStream
  BY <1>2 DEF SendBegin, SendComplete, Quit, DropSendTx, DropShutdownTx, Consume, DropStream
<1>3. CASE LoopShutdown \/ LoopReaderDone \/ LoopMessage \/ LoopClosed \/ LoopStreamDropped
           \/ WriteFails \/ StopReader
  BY <1>3 DEF LoopShutdown, LoopReaderDone, LoopMessage, LoopClosed, LoopStreamDropped,
     WriteFails, StopReader
<1>4. CASE ReaderFrame \/ ReaderEnds
  BY <1>4 DEF ReaderFrame, ReaderEnds
<1> QED
  BY <1>1, <1>2, <1>3, <1>4 DEF Next, LoopStep, Terminated

\* A task that reports has no reader, and a task that is over stays so.
LEMMA LoopEnds ==
  ASSUME ClosedInv, [Next]_vars
  PROVE  /\ loop' \in {"report", "closing", "done"} => reader' = "gone"
         /\ loop = "done" => loop' = "done"
<1> USE DEF ClosedInv, TypeInv, TypeOK, LoopTypeOK, ReadTypeOK
<1>1. CASE UNCHANGED vars
  BY <1>1 DEF vars
<1>2. CASE \/ \E s \in Sends : SendBegin(s) \/ SendComplete(s)
           \/ Quit \/ DropSendTx \/ DropShutdownTx \/ Consume \/ DropStream
  BY <1>2 DEF SendBegin, SendComplete, Quit, DropSendTx, DropShutdownTx, Consume, DropStream
<1>3. CASE LoopStep
  BY <1>3 DEF LoopStep, LoopShutdown, LoopReaderDone, LoopMessage, EchoMessage, LoopClosed,
     LoopStreamDropped, Write, WriteFails, Drain, Flush, StopReader, ReportError,
     EmitClosed, AfterPoll
<1>4. CASE ReaderFrame \/ ReaderForward \/ ReaderEnds
  BY <1>4 DEF ReaderFrame, ReaderForward, ReaderEnds
<1> QED
  BY <1>1, <1>2, <1>3, <1>4 DEF Next, Terminated

\* What a task that is not over adds to the stream, except RoomClosed, keeps the
\* stream free of RoomClosed.
LEMMA StillOpen ==
  ASSUME ClosedInv, loop # "done",
         UNCHANGED events \/ \E e \in Event : e # RoomClosed /\ events' = Append(events, e)
  PROVE  \A i \in DOMAIN events' : events'[i] # RoomClosed
<1>1. \A i \in DOMAIN events : events[i] # RoomClosed
  BY DEF ClosedInv
<1>2. CASE UNCHANGED events
  BY <1>1, <1>2
<1>3. ASSUME NEW e \in Event, e # RoomClosed, events' = Append(events, e)
      PROVE  \A i \in DOMAIN events' : events'[i] # RoomClosed
  BY <1>1, <1>3 DEF ClosedInv, TypeInv, TypeOK, EventTypeOK
<1> QED
  BY <1>2, <1>3

\* try_emit adds its event to the stream or to the buffer.
LEMMA TryEmitShape ==
  ASSUME NEW e, TryEmit(e)
  PROVE  \/ events' = Append(events, e) /\ pending' = pending
         \/ events' = events /\ pending' = Append(pending, e)
BY DEF TryEmit

\* The invariant of the end of the stream is inductive.
LEMMA ClosedStep == ClosedInv /\ [Next]_vars => ClosedInv'
<1> SUFFICES ASSUME ClosedInv, [Next]_vars
             PROVE  /\ \A i \in DOMAIN pending' : pending'[i].type = "Own"
                    /\ \A i \in DOMAIN events' :
                         events'[i] = RoomClosed => i = Len(events') /\ loop' = "done"
  BY TypeStep, LoopEnds DEF ClosedInv
<1>0. /\ events \in Seq(Event) /\ pending \in Seq(Event)
      /\ \A i \in DOMAIN pending : pending[i].type = "Own"
  BY DEF ClosedInv, TypeInv, TypeOK, EventTypeOK
<1>1. CASE UNCHANGED <<events, pending>>
  BY <1>1, LoopEnds DEF ClosedInv
<1>2. ASSUME NEW n \in Sends, TryEmit(Own(n)), loop # "done"
      PROVE  /\ \A i \in DOMAIN pending' : pending'[i].type = "Own"
             /\ \A i \in DOMAIN events' : events'[i] # RoomClosed
  <2>1. Own(n) \in Event /\ Own(n) # RoomClosed /\ Own(n).type = "Own"
    BY EventTypes, JoinerAssumption DEF JoinerAssumption, Own, RoomClosed
  <2>2. \A i \in DOMAIN pending' : pending'[i].type = "Own"
    BY <1>0, <1>2, <2>1, TryEmitShape
  <2> QED
    BY <1>2, <2>1, <2>2, TryEmitShape, StillOpen
<1>3. CASE EchoMessage
  BY <1>2, <1>3, TakeType DEF EchoMessage, ClosedInv, TypeInv, TypeOK
<1>4. CASE Write
  BY <1>2, <1>4 DEF Write, ClosedInv, TypeInv, WritesMessage
<1>5. CASE Drain
  BY <1>1, <1>2, <1>5, TakeType DEF Drain, ClosedInv, TypeInv, TypeOK
<1>6. CASE Flush
  <2>1. CASE pending # <<>> /\ events' = Append(events, Last(pending))
             /\ pending' = Front(pending)
    <3>1. Last(pending) \in Event /\ Last(pending).type = "Own"
      BY <1>0, <2>1 DEF Last
    <3>2. \A i \in DOMAIN pending' : pending'[i].type = "Own"
      BY <1>0, <2>1 DEF Front
    <3>3. Last(pending) # RoomClosed
      BY <3>1 DEF RoomClosed
    <3> QED
      BY <1>6, <2>1, <3>1, <3>2, <3>3, StillOpen DEF Flush
  <2>2. CASE pending' = <<>> /\ UNCHANGED events
    BY <1>6, <2>2, StillOpen DEF Flush
  <2> QED
    BY <1>1, <1>6, <2>1, <2>2 DEF Flush
<1>7. CASE ReportError
  <2>1. UNCHANGED events \/ events' = Append(events, Error)
    BY <1>7 DEF ReportError, TrySend
  <2>2. Error \in Event /\ Error # RoomClosed
    BY EventTypes DEF Error, RoomClosed
  <2> QED
    BY <1>0, <1>7, <2>1, <2>2, StillOpen DEF ReportError
<1>8. CASE EmitClosed
  <2>1. \A i \in DOMAIN events : events[i] # RoomClosed
    BY <1>8 DEF EmitClosed, ClosedInv
  <2>2. UNCHANGED events \/ events' = Append(events, RoomClosed)
    BY <1>8 DEF EmitClosed, TrySend
  <2>3. \A i \in DOMAIN events' : events'[i] = RoomClosed => i = Len(events')
    BY <1>0, <2>1, <2>2, EventTypes
  <2> QED
    BY <1>0, <1>8, <2>3 DEF EmitClosed
<1>9. CASE ReaderForward
  <2>1. loop # "done" /\ pending' = pending
    BY <1>9 DEF ReaderForward, ClosedInv
  <2>2. UNCHANGED events \/ events' = Append(events, FromHub(frames))
    BY <1>9 DEF ReaderForward
  <2>3. FromHub(frames) \in Event /\ FromHub(frames) # RoomClosed
    BY EventTypes DEF FromHub, RoomClosed, ClosedInv, TypeInv, TypeOK, ReadTypeOK
  <2> QED
    BY <1>0, <2>1, <2>2, <2>3, StillOpen
<1> QED
  BY <1>1, <1>3, <1>4, <1>5, <1>6, <1>7, <1>8, <1>9, EventMoves

\* Nothing follows RoomClosed, whatever the reader and the user do while the
\* task stops: stop_reader awaits the reader before joiner_task emits it.
THEOREM ClosedComesLast == Spec => []RoomClosedLast
<1>1. Init => ClosedInv
  BY TypeInit DEF Init, ClosedInv, SelfJoined, RoomClosed
<1>2. ClosedInv => RoomClosedLast
  BY DEF ClosedInv, RoomClosedLast
<1> QED
  BY ClosedStep, <1>1, <1>2, PTL DEF Spec

-----------------------------------------------------------------------------
(* The echoes *)

Once(s)    == \A i, j \in DOMAIN s : s[i] = s[j] => i = j
OwnOnce(s) == \A i, j \in DOMAIN s : s[i] = s[j] /\ s[i].type = "Own" => i = j

\* What Append, Tail and Front do to the members of a sequence without
\* repetition.
LEMMA AppendOnce ==
  ASSUME NEW S, NEW s \in Seq(S), NEW e \in S
  PROVE  /\ ToSet(Append(s, e)) = ToSet(s) \cup {e}
         /\ Once(s) /\ e \notin ToSet(s) => Once(Append(s, e))
<1>1. /\ Len(s) \in Nat /\ DOMAIN s = 1 .. Len(s)
      /\ DOMAIN Append(s, e) = 1 .. Len(s) + 1
      /\ \A i \in 1 .. Len(s) : Append(s, e)[i] = s[i]
      /\ Append(s, e)[Len(s) + 1] = e
  OBVIOUS
<1>2. ToSet(Append(s, e)) = ToSet(s) \cup {e}
  BY <1>1 DEF ToSet
<1>3. Once(s) /\ e \notin ToSet(s) => Once(Append(s, e))
  BY <1>1 DEF Once, ToSet
<1> QED
  BY <1>2, <1>3

LEMMA TailOnce ==
  ASSUME NEW S, NEW s \in Seq(S), s # <<>>, Once(s)
  PROVE  /\ Head(s) \in ToSet(s) /\ Head(s) \notin ToSet(Tail(s))
         /\ ToSet(Tail(s)) \subseteq ToSet(s) /\ Once(Tail(s))
<1>1. /\ Len(s) \in Nat \ {0} /\ DOMAIN s = 1 .. Len(s) /\ Head(s) = s[1]
      /\ DOMAIN Tail(s) = 1 .. Len(s) - 1
      /\ \A i \in 1 .. Len(s) - 1 : Tail(s)[i] = s[i + 1]
  OBVIOUS
<1>2. Head(s) \in ToSet(s)
  BY <1>1 DEF ToSet
<1>3. ToSet(Tail(s)) \subseteq ToSet(s)
  BY <1>1 DEF ToSet
<1>4. Head(s) \notin ToSet(Tail(s))
  BY <1>1 DEF ToSet, Once
<1>5. Once(Tail(s))
  BY <1>1 DEF Once
<1> QED
  BY <1>2, <1>3, <1>4, <1>5

LEMMA FrontOnce ==
  ASSUME NEW S, NEW s \in Seq(S), s # <<>>, Once(s)
  PROVE  /\ Last(s) \in ToSet(s) /\ Last(s) \notin ToSet(Front(s))
         /\ ToSet(Front(s)) \subseteq ToSet(s) /\ Once(Front(s))
         /\ Last(s) \in S /\ Front(s) \in Seq(S)
<1>1. /\ Len(s) \in Nat \ {0} /\ DOMAIN s = 1 .. Len(s) /\ Last(s) = s[Len(s)]
      /\ DOMAIN Front(s) = 1 .. Len(s) - 1 /\ Front(s) \in Seq(S)
      /\ \A i \in 1 .. Len(s) - 1 : Front(s)[i] = s[i]
  BY DEF Last, Front
<1>2. Last(s) \in ToSet(s) /\ Last(s) \in S
  BY <1>1 DEF ToSet
<1>3. ToSet(Front(s)) \subseteq ToSet(s)
  BY <1>1 DEF ToSet
<1>4. Last(s) \notin ToSet(Front(s))
  BY <1>1 DEF ToSet, Once
<1>5. Once(Front(s))
  BY <1>1 DEF Once
<1> QED
  BY <1>1, <1>2, <1>3, <1>4, <1>5

\* Each message of the user is in one place only: in the send channel, in the
\* hands of the loop, in the buffer or on the stream; and only messages whose
\* send() returned Ok are in any of them.
Fresh(n) == Own(n) \notin ToSet(events) /\ Own(n) \notin ToSet(pending)

Echoes ==
  /\ OwnOnce(events) /\ Once(pending)
  /\ \A e \in ToSet(pending) : e.type = "Own" /\ e \notin ToSet(events)
  /\ \A e \in ToSet(events) \cup ToSet(pending) :
       e.type = "Own" => e.n \in Sends /\ send[e.n] = "ok"

Queued ==
  /\ Once(sendQ)
  /\ \A n \in ToSet(sendQ) : n \in Sends /\ send[n] = "ok" /\ Fresh(n)
  /\ loop = "writing" => send[cur] = "ok" /\ cur \notin ToSet(sendQ) /\ Fresh(cur)

EchoInv == TypeInv /\ Echoes /\ Queued

\* An event on the stream that is not an echo does not disturb the echoes.
LEMMA OtherEvent ==
  ASSUME EchoInv, NEW e \in Event, e.type # "Own", events' = Append(events, e),
         UNCHANGED <<pending, send>>
  PROVE  Echoes' /\ \A n : Fresh(n) => Fresh(n)'
<1>0. events \in Seq(Event) /\ pending \in Seq(Event)
  BY DEF EchoInv, TypeInv, TypeOK, EventTypeOK
<1>1. ToSet(events') = ToSet(events) \cup {e}
  BY <1>0, AppendOnce
<1>2. OwnOnce(events')
  <2>1. /\ Len(events) \in Nat /\ DOMAIN events = 1 .. Len(events)
        /\ DOMAIN events' = 1 .. Len(events) + 1
        /\ \A i \in 1 .. Len(events) : events'[i] = events[i]
        /\ events'[Len(events) + 1] = e
    BY <1>0
  <2> QED
    BY <2>1 DEF OwnOnce, EchoInv, Echoes
<1>3. \A n : Own(n) # e
  BY DEF Own
<1> QED
  BY <1>1, <1>2, <1>3 DEF EchoInv, Echoes, Fresh

\* The echo of a message that is nowhere else is a new one.
LEMMA OwnEvent ==
  ASSUME EchoInv, NEW n \in Sends, send[n] = "ok", Fresh(n), TryEmit(Own(n)),
         UNCHANGED send
  PROVE  Echoes' /\ \A m : m # n /\ Fresh(m) => Fresh(m)'
<1>0. events \in Seq(Event) /\ pending \in Seq(Event) /\ Own(n) \in Event
  BY EventTypes, JoinerAssumption DEF EchoInv, TypeInv, TypeOK, EventTypeOK, JoinerAssumption
<1>1. Own(n).type = "Own" /\ Own(n).n = n /\ \A m : m # n => Own(m) # Own(n)
  BY DEF Own
<1>2. CASE events' = Append(events, Own(n)) /\ pending' = pending
  <2>1. ToSet(events') = ToSet(events) \cup {Own(n)}
    BY <1>0, <1>2, AppendOnce
  <2>2. OwnOnce(events')
    <3>1. /\ Len(events) \in Nat /\ DOMAIN events = 1 .. Len(events)
          /\ DOMAIN events' = 1 .. Len(events) + 1
          /\ \A i \in 1 .. Len(events) : events'[i] = events[i] /\ events[i] # Own(n)
          /\ events'[Len(events) + 1] = Own(n)
      BY <1>0, <1>2 DEF Fresh, ToSet
    <3> QED
      BY <3>1 DEF OwnOnce, EchoInv, Echoes
  <2> QED
    BY <1>1, <1>2, <2>1, <2>2 DEF EchoInv, Echoes, Fresh
<1>3. CASE events' = events /\ pending' = Append(pending, Own(n))
  <2>1. ToSet(pending') = ToSet(pending) \cup {Own(n)}
    BY <1>0, <1>3, AppendOnce
  <2>2. Once(pending')
    BY <1>0, <1>3, AppendOnce DEF Fresh, EchoInv, Echoes
  <2> QED
    BY <1>1, <1>3, <2>1, <2>2 DEF EchoInv, Echoes, Fresh
<1> QED
  BY <1>2, <1>3, TryEmitShape

\* A message that leaves the send channel is in no other place.
LEMMA TakeOnce ==
  ASSUME EchoInv, sendQ # <<>>
  PROVE  /\ Head(sendQ) \in Sends /\ send[Head(sendQ)] = "ok" /\ Fresh(Head(sendQ))
         /\ Once(Tail(sendQ)) /\ Head(sendQ) \notin ToSet(Tail(sendQ))
         /\ ToSet(Tail(sendQ)) \subseteq ToSet(sendQ)
BY TailOnce DEF EchoInv, Queued, TypeInv, TypeOK, HandleTypeOK

\* A message is echoed as it leaves the send channel.
LEMMA EchoTaken ==
  ASSUME EchoInv, sendQ # <<>>, sendQ' = Tail(sendQ), TryEmit(Own(Head(sendQ))),
         UNCHANGED send, loop' # "writing"
  PROVE  Echoes' /\ Queued'
<1>1. Echoes' /\ \A m : m # Head(sendQ) /\ Fresh(m) => Fresh(m)'
  BY TakeOnce, OwnEvent
<1> QED
  BY <1>1, TakeOnce DEF EchoInv, Queued

\* The steps of the user interface: only send() moves a message.
LEMMA EchoUser ==
  ASSUME EchoInv,
         \/ \E s \in Sends : SendBegin(s) \/ SendComplete(s)
         \/ Quit \/ DropSendTx \/ DropShutdownTx \/ Consume \/ DropStream
  PROVE  Echoes' /\ Queued'
<1>0. send \in [Sends -> {"idle", "sending", "ok", "err"}] /\ sendQ \in Seq(Sends)
  BY DEF EchoInv, TypeInv, TypeOK, HandleTypeOK
<1>1. CASE Quit \/ DropSendTx \/ DropShutdownTx \/ Consume \/ DropStream
  BY <1>1 DEF Quit, DropSendTx, DropShutdownTx, Consume, DropStream, EchoInv, Echoes,
     Queued, Fresh
<1>2. ASSUME NEW s \in Sends, send[s] \in {"idle", "sending"},
             UNCHANGED <<loop, cur, events, pending, sendQ>>,
             \E v : send' = [send EXCEPT ![s] = v]
      PROVE  Echoes' /\ Queued'
  <2>1. \A t \in Sends : send[t] = "ok" => send'[t] = "ok"
    BY <1>0, <1>2
  <2>2. loop = "writing" => cur \in Sends
    BY DEF EchoInv, TypeInv, WritesMessage
  <2> QED
    BY <1>2, <2>1, <2>2 DEF EchoInv, Echoes, Queued, Fresh
<1>3. ASSUME NEW s \in Sends, SendBegin(s) PROVE Echoes' /\ Queued'
  BY <1>2, <1>3 DEF SendBegin
<1>4. ASSUME NEW s \in Sends, SendComplete(s) PROVE Echoes' /\ Queued'
  <2>1. CASE UNCHANGED sendQ
    BY <1>2, <1>4, <2>1 DEF SendComplete
  <2>2. CASE sendQ' = Append(sendQ, s) /\ send' = [send EXCEPT ![s] = "ok"]
    <3>1. /\ UNCHANGED <<loop, cur, events, pending>> /\ send[s] # "ok"
          /\ send'[s] = "ok" /\ \A t \in Sends : send[t] = "ok" => send'[t] = "ok"
      BY <1>0, <1>4, <2>2 DEF SendComplete
    <3>2. /\ s \notin ToSet(sendQ) /\ Fresh(s)
          /\ loop = "writing" => cur # s /\ cur \in Sends
      <4>1. Own(s).type = "Own" /\ Own(s).n = s
        BY DEF Own
      <4> QED
        BY <3>1, <4>1 DEF EchoInv, TypeInv, WritesMessage, Echoes, Queued, Fresh
    <3>3. ToSet(sendQ') = ToSet(sendQ) \cup {s} /\ Once(sendQ')
      BY <1>0, <2>2, <3>2, AppendOnce DEF EchoInv, Queued
    <3> QED
      BY <3>1, <3>2, <3>3 DEF EchoInv, Echoes, Queued, Fresh
  <2> QED
    BY <1>4, <2>1, <2>2 DEF SendComplete
<1> QED
  BY <1>1, <1>3, <1>4

\* The steps of the loop: a message goes from one place to the next.
LEMMA EchoLoop ==
  ASSUME EchoInv, LoopStep
  PROVE  Echoes' /\ Queued'
<1>0. pending \in Seq(Event) /\ events \in Seq(Event)
  BY DEF EchoInv, TypeInv, TypeOK, EventTypeOK
<1>1. CASE LoopShutdown \/ LoopReaderDone \/ LoopClosed \/ LoopStreamDropped \/ WriteFails
           \/ StopReader
  BY <1>1 DEF LoopShutdown, LoopReaderDone, LoopClosed, LoopStreamDropped, WriteFails,
     StopReader, EchoInv, Echoes, Queued, Fresh
<1>2. CASE LoopMessage
  <2>1. /\ UNCHANGED <<events, pending, send>> /\ sendQ # <<>> /\ sendQ' = Tail(sendQ)
        /\ cur' = Head(sendQ) \/ loop' = "returned"
    BY <1>2 DEF LoopMessage
  <2> QED
    BY <2>1, TakeOnce DEF EchoInv, Echoes, Queued, Fresh
<1>3. CASE EchoMessage
  BY <1>3, EchoTaken DEF EchoMessage, AfterPoll
<1>4. CASE Write
  <2>1. cur \in Sends /\ send[cur] = "ok" /\ cur \notin ToSet(sendQ) /\ Fresh(cur)
    BY <1>4 DEF Write, EchoInv, Queued, TypeInv, WritesMessage
  <2>2. /\ TryEmit(Own(cur)) /\ UNCHANGED <<send, sendQ>> /\ loop' # "writing"
    BY <1>4 DEF Write, AfterPoll
  <2>3. Echoes' /\ \A m : m # cur /\ Fresh(m) => Fresh(m)'
    BY <2>1, <2>2, OwnEvent
  <2> QED
    BY <2>1, <2>2, <2>3 DEF EchoInv, Queued
<1>5. CASE Drain
  <2>1. CASE sendQ # <<>>
    BY <1>5, <2>1, EchoTaken DEF Drain
  <2>2. CASE sendQ = <<>>
    BY <1>5, <2>2 DEF Drain, EchoInv, Echoes, Queued, Fresh
  <2> QED
    BY <2>1, <2>2
<1>6. CASE Flush
  <2>1. UNCHANGED <<send, sendQ>> /\ loop' # "writing"
    BY <1>6 DEF Flush
  <2>2. CASE UNCHANGED <<events, pending>>
    BY <2>1, <2>2 DEF EchoInv, Echoes, Queued, Fresh
  <2>3. CASE pending' = <<>> /\ UNCHANGED events
    <3>1. ToSet(pending') = {} /\ Once(pending')
      BY <2>3 DEF ToSet, Once
    <3> QED
      BY <2>1, <2>3, <3>1 DEF EchoInv, Echoes, Queued, Fresh
  <2>4. CASE pending # <<>> /\ events' = Append(events, Last(pending))
             /\ pending' = Front(pending)
    <3> DEFINE e == Last(pending)
    <3>1. /\ e \in ToSet(pending) /\ e \notin ToSet(pending') /\ e \in Event
          /\ ToSet(pending') \subseteq ToSet(pending) /\ Once(pending')
      BY <1>0, <2>4, FrontOnce DEF EchoInv, Echoes
    <3>2. ToSet(events') = ToSet(events) \cup {e} /\ e \notin ToSet(events)
      BY <1>0, <2>4, <3>1, AppendOnce DEF EchoInv, Echoes
    <3>3. OwnOnce(events')
      <4>1. /\ Len(events) \in Nat /\ DOMAIN events = 1 .. Len(events)
            /\ DOMAIN events' = 1 .. Len(events) + 1
            /\ \A i \in 1 .. Len(events) : events'[i] = events[i] /\ events[i] # e
            /\ events'[Len(events) + 1] = e
        BY <1>0, <2>4, <3>1, <3>2 DEF ToSet
      <4> QED
        BY <4>1 DEF OwnOnce, EchoInv, Echoes
    <3>4. Echoes'
      BY <2>1, <3>1, <3>2, <3>3 DEF EchoInv, Echoes
    <3>5. \A n : Fresh(n) => Fresh(n)'
      BY <3>1, <3>2 DEF Fresh
    <3> QED
      BY <2>1, <3>4, <3>5 DEF EchoInv, Queued
  <2> QED
    BY <1>6, <2>2, <2>3, <2>4 DEF Flush
<1>7. CASE ReportError \/ EmitClosed
  <2>1. UNCHANGED <<send, sendQ, pending>> /\ loop' # "writing"
    BY <1>7 DEF ReportError, EmitClosed
  <2>2. \/ UNCHANGED events
        \/ \E e \in Event : e.type # "Own" /\ events' = Append(events, e)
    BY <1>7, EventTypes DEF ReportError, EmitClosed, TrySend, Error, RoomClosed
  <2>3. Echoes' /\ \A n : Fresh(n) => Fresh(n)'
    <3>1. CASE UNCHANGED events
      BY <2>1, <3>1 DEF EchoInv, Echoes, Fresh
    <3> QED
      BY <2>1, <2>2, <3>1, OtherEvent
  <2> QED
    BY <2>1, <2>3 DEF EchoInv, Queued
<1> QED
  BY <1>1, <1>2, <1>3, <1>4, <1>5, <1>6, <1>7 DEF LoopStep

\* The reader does not touch the user's messages.
LEMMA EchoReader ==
  ASSUME EchoInv, ReaderFrame \/ ReaderForward \/ ReaderEnds
  PROVE  Echoes' /\ Queued'
<1>1. UNCHANGED <<send, sendQ, pending, loop, cur>>
  BY DEF ReaderFrame, ReaderForward, ReaderEnds
<1>2. CASE UNCHANGED events
  BY <1>1, <1>2 DEF EchoInv, Echoes, Queued, Fresh
<1>3. CASE events' = Append(events, FromHub(frames))
  <2>1. FromHub(frames) \in Event /\ FromHub(frames).type # "Own"
    BY EventTypes DEF FromHub, EchoInv, TypeInv, TypeOK, ReadTypeOK
  <2> QED
    BY <1>1, <1>3, <2>1, OtherEvent DEF EchoInv, Queued
<1> QED
  BY <1>2, <1>3 DEF ReaderFrame, ReaderForward, ReaderEnds

\* Every message is in one place before and after every step.
LEMMA EchoStep == EchoInv /\ [Next]_vars => EchoInv'
<1> SUFFICES ASSUME EchoInv, [Next]_vars PROVE Echoes' /\ Queued'
  BY TypeStep DEF EchoInv
<1>1. CASE UNCHANGED vars
  BY <1>1 DEF vars, EchoInv, Echoes, Queued, Fresh
<1> QED
  BY <1>1, EchoUser, EchoLoop, EchoReader DEF Next, Terminated

\* A message of the user is shown to him at most once, for any number of
\* messages and any interleaving of send(), the loop, the reader and the
\* consumer of the events: the loop, the drain, the buffer and the flush hand
\* the echo on and none keeps a copy.
THEOREM EchoAtMostOnce == Spec => []EchoedOnce
<1>1. Init => EchoInv
  <2> SUFFICES ASSUME Init PROVE EchoInv
    OBVIOUS
  <2>1. /\ sendQ = <<>> /\ pending = <<>> /\ loop = "polled"
        /\ DOMAIN events = {1} /\ events[1] = SelfJoined
    BY DEF Init
  <2>2. ToSet(sendQ) = {} /\ ToSet(pending) = {} /\ ToSet(events) = {SelfJoined}
    BY <2>1 DEF ToSet
  <2>3. Once(sendQ) /\ Once(pending) /\ OwnOnce(events)
    BY <2>1 DEF Once, OwnOnce
  <2> QED
    BY <2>1, <2>2, <2>3, TypeInit DEF EchoInv, Echoes, Queued, SelfJoined
<1>2. EchoInv => EchoedOnce
  <2> SUFFICES ASSUME EchoInv, NEW n \in Sends
               PROVE  LET echoes == events \o pending IN
                        /\ \A i, j \in DOMAIN echoes :
                             echoes[i] = Own(n) /\ echoes[j] = Own(n) => i = j
                        /\ n \in ToSet(sendQ) => Own(n) \notin ToSet(echoes)
    BY DEF EchoedOnce
  <2> DEFINE echoes == events \o pending
  <2>1. /\ Len(events) \in Nat /\ Len(pending) \in Nat
        /\ DOMAIN events = 1 .. Len(events) /\ DOMAIN pending = 1 .. Len(pending)
        /\ DOMAIN echoes = 1 .. Len(events) + Len(pending)
        /\ \A i \in DOMAIN echoes :
             echoes[i] = IF i <= Len(events) THEN events[i] ELSE pending[i - Len(events)]
    BY DEF EchoInv, TypeInv, TypeOK, EventTypeOK
  <2>2. ASSUME NEW i \in DOMAIN echoes, NEW j \in DOMAIN echoes,
               echoes[i] = Own(n), echoes[j] = Own(n)
        PROVE  i = j
    <3>1. CASE i <= Len(events) /\ j <= Len(events)
      <4>1. i \in DOMAIN events /\ j \in DOMAIN events /\ events[i] = events[j]
            /\ events[i].type = "Own"
        BY <2>1, <2>2, <3>1 DEF Own
      <4> QED
        BY <4>1 DEF EchoInv, Echoes, OwnOnce
    <3>2. CASE i > Len(events) /\ j > Len(events)
      <4>1. /\ i - Len(events) \in DOMAIN pending /\ j - Len(events) \in DOMAIN pending
            /\ pending[i - Len(events)] = pending[j - Len(events)]
        BY <2>1, <2>2, <3>2
      <4>2. i - Len(events) = j - Len(events)
        BY <4>1 DEF EchoInv, Echoes, Once
      <4> QED
        BY <2>1, <4>2
    <3>3. ~(Own(n) \in ToSet(events) /\ Own(n) \in ToSet(pending))
      BY DEF EchoInv, Echoes
    <3>4. /\ i <= Len(events) => Own(n) \in ToSet(events)
          /\ j <= Len(events) => Own(n) \in ToSet(events)
          /\ i > Len(events) => Own(n) \in ToSet(pending)
          /\ j > Len(events) => Own(n) \in ToSet(pending)
      BY <2>1, <2>2 DEF ToSet
    <3> QED
      BY <2>1, <3>1, <3>2, <3>3, <3>4
  <2>3. ToSet(echoes) = ToSet(events) \cup ToSet(pending)
    <3>1. ToSet(echoes) \subseteq ToSet(events) \cup ToSet(pending)
      BY <2>1 DEF ToSet
    <3>2. ToSet(events) \subseteq ToSet(echoes)
      BY <2>1 DEF ToSet
    <3>3. ToSet(pending) \subseteq ToSet(echoes)
      <4> SUFFICES ASSUME NEW k \in DOMAIN pending PROVE pending[k] \in ToSet(echoes)
        BY DEF ToSet
      <4>1. k + Len(events) \in DOMAIN echoes /\ echoes[k + Len(events)] = pending[k]
        BY <2>1
      <4> QED
        BY <4>1 DEF ToSet
    <3> QED
      BY <3>1, <3>2, <3>3
  <2> QED
    BY <2>2, <2>3 DEF EchoInv, Queued, Fresh
<1> QED
  BY EchoStep, <1>1, <1>2, PTL DEF Spec

-----------------------------------------------------------------------------
(* Both ways *)

\* The send channel holds the last of what send() took, and what was handed to
\* the stream is a beginning of what left the channel: all of it while the loop
\* polls, all but the message in hand while it writes.
Waiting ==
  /\ Len(sendQ) <= Len(taken)
  /\ \A i \in DOMAIN sendQ : sendQ[i] = taken[Len(taken) - Len(sendQ) + i]

TakenOnce ==
  /\ \A i \in DOMAIN taken : send[taken[i]] = "ok"
  /\ \A i, j \in DOMAIN taken : taken[i] = taken[j] => i = j

Written ==
  /\ Len(wire) <= Len(taken) - Len(sendQ)
  /\ \A i \in DOMAIN wire : wire[i] = taken[i]
  /\ connected /\ loop \in {"polled", "top"} => Len(wire) = Len(taken) - Len(sendQ)
  /\ loop = "writing" => /\ connected /\ Len(wire) + 1 = Len(taken) - Len(sendQ)
                         /\ cur = taken[Len(wire) + 1]

WayOut == Waiting /\ TakenOnce /\ Written

\* The frames on the stream are some that were read; while the stream is open and
\* the reader lives, all but the one in its hands.
WayIn ==
  /\ reader = "sending" => frames >= 1
  /\ \A i \in DOMAIN events :
       events[i].type = "Hub" =>
         events[i].n \in 1 .. frames /\ (reader = "sending" => events[i].n < frames)
  /\ evOpen /\ reader \in {"reading", "sending"} =>
       \A m \in 1 .. frames :
         (m = frames /\ reader = "sending")
         \/ \E i \in DOMAIN events : events[i].type = "Hub" /\ events[i].n = m

LinesInv == ClosedInv /\ WayOut /\ WayIn

\* The types this section works with.
LEMMA LineTypes ==
  ASSUME TypeInv
  PROVE  /\ sendQ \in Seq(Sends) /\ taken \in Seq(Sends) /\ wire \in Seq(Sends)
         /\ events \in Seq(Event) /\ pending \in Seq(Event) /\ frames \in Nat
         /\ Len(sendQ) \in Nat /\ Len(taken) \in Nat /\ Len(wire) \in Nat
         /\ DOMAIN sendQ = 1 .. Len(sendQ) /\ DOMAIN taken = 1 .. Len(taken)
         /\ DOMAIN wire = 1 .. Len(wire)
         /\ send \in [Sends -> {"idle", "sending", "ok", "err"}]
BY JoinerAssumption DEF TypeInv, TypeOK, HandleTypeOK, LoopTypeOK, ReadTypeOK, EventTypeOK,
   JoinerAssumption

\* A step that moves no message may only take the loop away from its polls.
LEMMA OutStays ==
  ASSUME WayOut, UNCHANGED <<connected, send, sendQ, taken, wire, cur>>,
         loop' = loop \/ loop' \notin {"polled", "top", "writing"}
  PROVE  WayOut'
BY DEF WayOut, Waiting, TakenOnce, Written

\* send() that has not returned yet changes nothing of what was taken.
LEMMA OutSending ==
  ASSUME TypeInv, WayOut, NEW s \in Sends, NEW v, send[s] \in {"idle", "sending"},
         send' = [send EXCEPT ![s] = v],
         UNCHANGED <<connected, sendQ, taken, wire, cur, loop>>
  PROVE  WayOut'
<1>1. \A i \in DOMAIN taken : taken[i] \in Sends /\ send[taken[i]] = "ok"
  BY LineTypes DEF WayOut, TakenOnce
<1>2. \A i \in DOMAIN taken : send'[taken[i]] = "ok"
  BY <1>1, LineTypes
<1> QED
  BY <1>2 DEF WayOut, Waiting, TakenOnce, Written

\* send() puts a message that was not taken before at the end.
LEMMA OutTakes ==
  ASSUME TypeInv, WayOut, NEW s \in Sends, send[s] = "sending",
         send' = [send EXCEPT ![s] = "ok"],
         sendQ' = Append(sendQ, s), taken' = Append(taken, s),
         UNCHANGED <<connected, wire, cur, loop>>
  PROVE  WayOut'
<1>1. /\ Len(sendQ') = Len(sendQ) + 1 /\ Len(taken') = Len(taken) + 1
      /\ DOMAIN sendQ' = 1 .. Len(sendQ) + 1 /\ DOMAIN taken' = 1 .. Len(taken) + 1
      /\ \A i \in 1 .. Len(sendQ) : sendQ'[i] = sendQ[i]
      /\ \A i \in 1 .. Len(taken) : taken'[i] = taken[i]
      /\ sendQ'[Len(sendQ) + 1] = s /\ taken'[Len(taken) + 1] = s
  BY LineTypes
<1>2. Len(taken') - Len(sendQ') = Len(taken) - Len(sendQ)
  BY <1>1, LineTypes
<1>3. Waiting'
  <2>1. Len(sendQ') <= Len(taken')
    BY <1>1, LineTypes DEF WayOut, Waiting
  <2>2. ASSUME NEW i \in DOMAIN sendQ'
        PROVE  sendQ'[i] = taken'[Len(taken) - Len(sendQ) + i]
    <3>1. CASE i \in 1 .. Len(sendQ)
      <4>1. /\ sendQ[i] = taken[Len(taken) - Len(sendQ) + i]
            /\ Len(taken) - Len(sendQ) + i \in 1 .. Len(taken)
        BY <3>1, LineTypes DEF WayOut, Waiting
      <4> QED
        BY <1>1, <3>1, <4>1
    <3>2. CASE i = Len(sendQ) + 1
      <4>1. Len(taken) - Len(sendQ) + i = Len(taken) + 1
        BY <3>2, LineTypes
      <4> QED
        BY <1>1, <3>2, <4>1
    <3>3. i \in 1 .. Len(sendQ) \/ i = Len(sendQ) + 1
      <4>1. i \in 1 .. Len(sendQ) + 1
        BY <1>1
      <4>2. Len(sendQ) \in Nat
        BY LineTypes
      <4> QED
        BY <4>1, <4>2
    <3> QED
      BY <3>1, <3>2, <3>3
  <2> QED
    BY <1>2, <2>1, <2>2 DEF Waiting
<1>4. TakenOnce'
  <2>1. \A i \in 1 .. Len(taken) : taken[i] \in Sends /\ send[taken[i]] = "ok" /\ taken[i] # s
    <3> SUFFICES ASSUME NEW i \in 1 .. Len(taken)
                 PROVE  taken[i] \in Sends /\ send[taken[i]] = "ok" /\ taken[i] # s
      OBVIOUS
    <3>1. taken[i] \in Sends
      BY LineTypes
    <3>2. send[taken[i]] = "ok"
      BY LineTypes DEF WayOut, TakenOnce
    <3> QED
      BY <3>1, <3>2
  <2>2. send'[s] = "ok" /\ \A i \in 1 .. Len(taken) : send'[taken[i]] = "ok"
    BY <2>1, LineTypes
  <2>3. \A i \in DOMAIN taken' : send'[taken'[i]] = "ok"
    BY <1>1, <2>2, LineTypes
  <2>4. \A i, j \in DOMAIN taken' : taken'[i] = taken'[j] => i = j
    BY <1>1, <2>1, LineTypes DEF WayOut, TakenOnce
  <2> QED
    BY <2>3, <2>4 DEF TakenOnce
<1>5. Written'
  <2>1. \A i \in DOMAIN wire : i \in 1 .. Len(taken) /\ wire[i] = taken[i]
    <3>1. Len(wire) <= Len(taken)
      <4>1. Len(wire) <= Len(taken) - Len(sendQ)
        BY DEF WayOut, Written
      <4>2. Len(wire) \in Nat /\ Len(taken) \in Nat /\ Len(sendQ) \in Nat
        BY LineTypes
      <4> QED
        BY <4>1, <4>2
    <3>2. \A i \in DOMAIN wire : wire[i] = taken[i]
      BY DEF WayOut, Written
    <3> QED
      BY <3>1, <3>2, LineTypes
  <2>2. loop = "writing" => Len(wire) + 1 \in 1 .. Len(taken)
    BY LineTypes DEF WayOut, Waiting, Written
  <2> QED
    BY <1>1, <1>2, <2>1, <2>2 DEF WayOut, Written
<1> QED
  BY <1>3, <1>4, <1>5 DEF WayOut

\* A message leaves the channel: into the hands of the loop, or to be echoed only.
LEMMA OutLeaves ==
  ASSUME TypeInv, WayOut, sendQ # <<>>, sendQ' = Tail(sendQ),
         UNCHANGED <<connected, send, taken, wire>>,
         \/ /\ connected /\ loop = "polled" /\ loop' = "writing" /\ cur' = Head(sendQ)
         \/ loop' \notin {"polled", "top", "writing"}
         \/ ~connected /\ loop' # "writing"
  PROVE  WayOut'
<1>1. /\ Len(sendQ) >= 1 /\ Len(sendQ') = Len(sendQ) - 1
      /\ DOMAIN sendQ' = 1 .. Len(sendQ) - 1 /\ Head(sendQ) = sendQ[1]
      /\ \A i \in 1 .. Len(sendQ) - 1 : sendQ'[i] = sendQ[i + 1]
  BY LineTypes
<1>2. Len(taken) - Len(sendQ') = Len(taken) - Len(sendQ) + 1
  BY <1>1, LineTypes
<1>3. Waiting'
  <2>1. ASSUME NEW i \in DOMAIN sendQ'
        PROVE  sendQ'[i] = taken[Len(taken) - Len(sendQ') + i]
    <3>1. i + 1 \in DOMAIN sendQ /\ sendQ'[i] = sendQ[i + 1]
      BY <1>1, LineTypes
    <3>2. Len(taken) - Len(sendQ') + i = Len(taken) - Len(sendQ) + (i + 1)
      BY <1>1, LineTypes
    <3> QED
      BY <3>1, <3>2 DEF WayOut, Waiting
  <2>2. Len(sendQ') <= Len(taken)
    BY <1>1, LineTypes DEF WayOut, Waiting
  <2> QED
    BY <2>1, <2>2 DEF Waiting
<1>4. Written'
  <2>1. Len(wire) <= Len(taken) - Len(sendQ')
    <3>1. Len(wire) <= Len(taken) - Len(sendQ)
      BY DEF WayOut, Written
    <3>2. Len(wire) \in Nat /\ Len(taken) \in Nat /\ Len(sendQ) \in Nat
      BY LineTypes
    <3> QED
      BY <1>2, <3>1, <3>2
  <2>2. sendQ[1] = taken[Len(taken) - Len(sendQ) + 1]
    <3>1. 1 \in DOMAIN sendQ
      BY <1>1, LineTypes
    <3> QED
      BY <3>1 DEF WayOut, Waiting
  <2>3. connected /\ loop = "polled" =>
          /\ Len(wire) = Len(taken) - Len(sendQ)
          /\ Len(wire) + 1 = Len(taken) - Len(sendQ')
          /\ Head(sendQ) = taken[Len(wire) + 1]
    BY <1>1, <1>2, <2>2, LineTypes DEF WayOut, Written
  <2> QED
    BY <2>1, <2>3 DEF WayOut, Written
<1> QED
  BY <1>3, <1>4 DEF WayOut, TakenOnce

\* The message in hand is handed to the stream, and no other.
LEMMA OutWrites ==
  ASSUME TypeInv, WayOut, loop = "writing",
         UNCHANGED <<connected, send, sendQ, taken, cur>>,
         \/ wire' = Append(wire, cur) /\ loop' # "writing"
         \/ wire' = wire /\ loop' = "returned"
  PROVE  /\ WayOut'
         /\ wire' = wire \/ (Len(wire) + 1 \in DOMAIN taken /\ cur = taken[Len(wire) + 1])
<1>1. /\ connected /\ Len(wire) + 1 = Len(taken) - Len(sendQ)
      /\ cur = taken[Len(wire) + 1] /\ Len(wire) + 1 \in DOMAIN taken /\ cur \in Sends
  BY LineTypes DEF WayOut, Written, TypeInv, WritesMessage
<1>2. CASE wire' = wire /\ loop' = "returned"
  BY <1>2, OutStays DEF WayOut, Waiting, TakenOnce, Written
<1>3. CASE wire' = Append(wire, cur) /\ loop' # "writing"
  <2>1. /\ Len(wire') = Len(wire) + 1 /\ DOMAIN wire' = 1 .. Len(wire) + 1
        /\ \A i \in 1 .. Len(wire) : wire'[i] = wire[i]
        /\ wire'[Len(wire) + 1] = cur
    <3>1. wire \in Seq(Sends) /\ cur \in Sends /\ wire' = Append(wire, cur)
      BY <1>1, <1>3, LineTypes
    <3> QED
      BY ONLY <3>1
  <2>2. Len(wire') = Len(taken) - Len(sendQ)
    BY <1>1, <2>1
  <2>3. \A i \in DOMAIN wire' : wire'[i] = taken[i]
    BY <1>1, <2>1, LineTypes DEF WayOut, Written
  <2>4. Len(wire') <= Len(taken) - Len(sendQ)
    BY <2>1, <2>2, LineTypes
  <2> QED
    BY <1>1, <1>3, <2>2, <2>3, <2>4 DEF WayOut, Waiting, TakenOnce, Written
<1> QED
  BY <1>1, <1>2, <1>3

\* The way to the stream: each step keeps it as it is, takes a message of send()
\* or hands the message in the loop's hands on.
LEMMA OutStep ==
  ASSUME TypeInv, WayOut, [Next]_vars
  PROVE  /\ WayOut'
         /\ \/ UNCHANGED <<taken, wire>>
            \/ wire' = wire /\ \E s \in Sends : taken' = Append(taken, s)
            \/ /\ taken' = taken /\ wire' = Append(wire, cur) /\ cur \in Sends
               /\ Len(wire) + 1 \in DOMAIN taken /\ cur = taken[Len(wire) + 1]
<1>1. CASE \/ UNCHANGED vars \/ Quit \/ DropSendTx \/ DropShutdownTx \/ Consume \/ DropStream
           \/ ReaderFrame \/ ReaderForward \/ ReaderEnds
  BY <1>1, OutStays DEF vars, Quit, DropSendTx, DropShutdownTx, Consume, DropStream,
     ReaderFrame, ReaderForward, ReaderEnds
<1>2. ASSUME NEW s \in Sends, SendBegin(s) PROVE WayOut' /\ UNCHANGED <<taken, wire>>
  BY <1>2, OutSending DEF SendBegin
<1>3. ASSUME NEW s \in Sends, SendComplete(s)
      PROVE  /\ WayOut' /\ wire' = wire
             /\ taken' = taken \/ taken' = Append(taken, s)
  <2>1. CASE UNCHANGED <<sendQ, taken>>
    BY <1>3, <2>1, OutSending DEF SendComplete
  <2>2. CASE sendQ' = Append(sendQ, s) /\ taken' = Append(taken, s)
             /\ send' = [send EXCEPT ![s] = "ok"]
    BY <1>3, <2>2, OutTakes DEF SendComplete
  <2> QED
    BY <1>3, <2>1, <2>2 DEF SendComplete
<1>4. CASE LoopShutdown \/ LoopReaderDone \/ LoopClosed \/ LoopStreamDropped \/ Flush
           \/ StopReader \/ ReportError \/ EmitClosed
  BY <1>4, OutStays DEF LoopShutdown, LoopReaderDone, LoopClosed, LoopStreamDropped, Flush,
     StopReader, ReportError, EmitClosed
<1>5. CASE LoopMessage
  BY <1>5, OutLeaves DEF LoopMessage
<1>6. CASE EchoMessage
  BY <1>6, OutLeaves DEF EchoMessage, AfterPoll
<1>7. CASE Drain
  <2>1. CASE sendQ # <<>>
    BY <1>7, <2>1, OutLeaves DEF Drain
  <2>2. CASE sendQ = <<>>
    BY <1>7, <2>2, OutStays DEF Drain
  <2> QED
    BY <2>1, <2>2
<1>8. CASE Write \/ WriteFails
  <2>1. /\ loop = "writing" /\ UNCHANGED <<connected, send, sendQ, taken, cur>>
        /\ \/ wire' = Append(wire, cur) /\ loop' # "writing"
           \/ wire' = wire /\ loop' = "returned"
        /\ cur \in Sends
    BY <1>8 DEF Write, WriteFails, AfterPoll, TypeInv, WritesMessage
  <2>2. wire' = wire \/ wire' = Append(wire, cur)
    BY <2>1
  <2> QED
    BY <2>1, <2>2, OutWrites
<1> QED
  BY <1>1, <1>2, <1>3, <1>4, <1>5, <1>6, <1>7, <1>8 DEF Next, LoopStep, Terminated

\* Which steps touch the way from the hub.
LEMMA InMoves ==
  ASSUME ClosedInv, [Next]_vars
  PROVE  \/ /\ UNCHANGED <<reader, frames, evOpen>>
            /\ UNCHANGED events
               \/ \E e \in Event : e.type # "Hub" /\ events' = Append(events, e)
         \/ UNCHANGED <<events, frames, reader>> /\ evOpen' = FALSE
         \/ UNCHANGED <<events, frames, evOpen>> /\ reader' \in {"done", "gone"}
         \/ ReaderFrame \/ ReaderForward
<1>0. TypeInv /\ TypeOK /\ pending \in Seq(Event)
      /\ \A i \in DOMAIN pending : pending[i].type = "Own"
  BY LineTypes DEF ClosedInv, TypeInv
<1>1. ASSUME NEW n \in Sends, TryEmit(Own(n))
      PROVE  /\ evOpen' = evOpen
             /\ UNCHANGED events
                \/ \E e \in Event : e.type # "Hub" /\ events' = Append(events, e)
  <2>1. Own(n) \in Event /\ Own(n).type # "Hub"
    BY EventTypes, JoinerAssumption DEF JoinerAssumption, Own
  <2> QED
    BY <1>1, <2>1 DEF TryEmit
<1>2. CASE \/ UNCHANGED vars \/ \E s \in Sends : SendBegin(s) \/ SendComplete(s)
           \/ Quit \/ DropSendTx \/ DropShutdownTx \/ Consume \/ DropStream
  BY <1>2 DEF vars, SendBegin, SendComplete, Quit, DropSendTx, DropShutdownTx, Consume,
     DropStream
<1>3. CASE LoopShutdown \/ LoopReaderDone \/ LoopMessage \/ LoopClosed \/ LoopStreamDropped
           \/ WriteFails \/ StopReader \/ ReaderEnds
  BY <1>3 DEF LoopShutdown, LoopReaderDone, LoopMessage, LoopClosed, LoopStreamDropped,
     WriteFails, StopReader, ReaderEnds
<1>4. CASE EchoMessage
  BY <1>0, <1>1, <1>4, TakeType DEF EchoMessage, TypeOK
<1>5. CASE Write
  BY <1>0, <1>1, <1>5 DEF Write, TypeInv, WritesMessage
<1>6. CASE Drain
  BY <1>0, <1>1, <1>6, TakeType DEF Drain, TypeOK
<1>7. CASE Flush
  <2>1. pending # <<>> => Last(pending) \in Event /\ Last(pending).type # "Hub"
    BY <1>0 DEF Last
  <2> QED
    BY <1>7, <2>1 DEF Flush
<1>8. CASE ReportError \/ EmitClosed
  BY <1>8, EventTypes DEF ReportError, EmitClosed, TrySend, Error, RoomClosed
<1> QED
  BY <1>2, <1>3, <1>4, <1>5, <1>6, <1>7, <1>8 DEF Next, LoopStep, Terminated

\* The way from the hub is kept by every step.
LEMMA InStep ==
  ASSUME ClosedInv, WayIn, [Next]_vars
  PROVE  WayIn'
<1>0. frames \in Nat /\ events \in Seq(Event)
  BY LineTypes DEF ClosedInv
<1>1. CASE UNCHANGED <<reader, frames, evOpen, events>>
  BY <1>1 DEF WayIn
<1>2. ASSUME NEW e \in Event, e.type # "Hub", events' = Append(events, e),
             UNCHANGED <<reader, frames, evOpen>>
      PROVE  WayIn'
  <2>1. /\ DOMAIN events \subseteq DOMAIN events'
        /\ \A i \in DOMAIN events : events'[i] = events[i]
        /\ \A i \in DOMAIN events' : i \in DOMAIN events \/ events'[i] = e
    BY <1>0, <1>2
  <2> QED
    BY <1>2, <2>1 DEF WayIn
<1>3. CASE UNCHANGED <<events, frames, reader>> /\ evOpen' = FALSE
  BY <1>3 DEF WayIn
<1>4. CASE UNCHANGED <<events, frames, evOpen>> /\ reader' \in {"done", "gone"}
  BY <1>4 DEF WayIn
<1>5. CASE ReaderFrame
  <2>1. /\ reader = "reading" /\ reader' = "sending" /\ frames' = frames + 1
        /\ events' = events /\ evOpen' = evOpen
    BY <1>5 DEF ReaderFrame
  <2>2. \A i \in DOMAIN events : events[i].type = "Hub" =>
          events[i].n \in 1 .. frames' /\ events[i].n < frames'
    BY <1>0, <2>1 DEF WayIn
  <2>3. \A m \in 1 .. frames' : m = frames' \/ m \in 1 .. frames
    BY <1>0, <2>1
  <2>4. frames' >= 1
    BY <1>0, <2>1
  <2> QED
    BY <2>1, <2>2, <2>3, <2>4 DEF WayIn
<1>6. CASE ReaderForward
  <2>1. reader = "sending" /\ reader' = "reading" /\ frames' = frames /\ evOpen' = evOpen
    BY <1>6 DEF ReaderForward
  <2>2. CASE ~evOpen /\ UNCHANGED events
    BY <2>1, <2>2 DEF WayIn
  <2>3. CASE events' = Append(events, FromHub(frames))
    <3>1. FromHub(frames).type = "Hub" /\ FromHub(frames).n = frames
      BY DEF FromHub
    <3>2. /\ DOMAIN events \subseteq DOMAIN events'
          /\ \A i \in DOMAIN events : events'[i] = events[i]
          /\ \A i \in DOMAIN events' : i \in DOMAIN events \/ events'[i] = FromHub(frames)
          /\ Len(events) + 1 \in DOMAIN events'
          /\ events'[Len(events) + 1] = FromHub(frames)
      BY <1>0, <2>3
    <3>3. \A i \in DOMAIN events' : events'[i].type = "Hub" => events'[i].n \in 1 .. frames
      BY <1>0, <2>1, <3>1, <3>2 DEF WayIn
    <3>4. evOpen => \A m \in 1 .. frames :
            \E i \in DOMAIN events' : events'[i].type = "Hub" /\ events'[i].n = m
      BY <2>1, <3>1, <3>2 DEF WayIn
    <3> QED
      BY <2>1, <3>3, <3>4 DEF WayIn
  <2> QED
    BY <1>6, <2>2, <2>3 DEF ReaderForward
<1> QED
  BY <1>1, <1>2, <1>3, <1>4, <1>5, <1>6, InMoves

\* Both ways keep their order at every step.
LEMMA LinesStep == LinesInv /\ [Next]_vars => LinesInv'
BY ClosedStep, OutStep, InStep DEF LinesInv, ClosedInv

\* Where no message is taken twice, what was written stands at its own number.
LEMMA OwnNumber ==
  ASSUME NEW S, NEW w \in Seq(S), NEW t \in Seq(S),
         \A i \in DOMAIN w : i \in DOMAIN t /\ w[i] = t[i],
         \A i, j \in DOMAIN t : t[i] = t[j] => i = j,
         NEW i \in DOMAIN w
  PROVE  (CHOOSE k \in DOMAIN t : t[k] = w[i]) = i
OBVIOUS

\* The messages on the stream are numbered as send() took them.
LEMMA ToHubIs ==
  ASSUME NEW w \in Seq(Sends), NEW t \in Seq(Sends), NEW q \in Nat,
         Len(w) <= Len(t) - q,
         \A i \in DOMAIN w : w[i] = t[i],
         \A i, j \in DOMAIN t : t[i] = t[j] => i = j
  PROVE  \A i \in DOMAIN w : (CHOOSE k \in DOMAIN t : t[k] = w[i]) = i
<1>1. /\ Len(w) \in Nat /\ Len(t) \in Nat /\ DOMAIN w = 1 .. Len(w)
      /\ DOMAIN t = 1 .. Len(t)
  OBVIOUS
<1>2. Len(w) <= Len(t)
  BY <1>1
<1>3. \A i \in DOMAIN w : i \in DOMAIN t /\ w[i] = t[i]
  BY <1>1, <1>2
<1> QED
  BY <1>3, OwnNumber

\* A step of the joiner takes a message or hands one on on the way to the hub,
\* and reads a frame or shows it on the way from the hub; both may happen to no
\* line, never two to one.
LEMMA BothWaysStep ==
  LinesInv /\ LinesInv' /\ [Next]_vars => [BothWays!Next]_(BothWays!vars)
<1> SUFFICES ASSUME LinesInv, LinesInv', [Next]_vars PROVE BothWays!Next
  OBVIOUS
<1> DEFINE put == [l \in {"toHub", "fromHub"} |-> IF l = "toHub" THEN Len(taken) ELSE frames]
           got == [l \in {"toHub", "fromHub"} |-> IF l = "toHub" THEN ToHub ELSE Shown]
<1>0. /\ Len(taken) \in Nat /\ Len(wire) \in Nat /\ frames \in Nat
      /\ taken \in Seq(Sends) /\ wire \in Seq(Sends) /\ events \in Seq(Event)
      /\ DOMAIN taken = 1 .. Len(taken) /\ DOMAIN wire = 1 .. Len(wire)
  BY LineTypes DEF LinesInv, ClosedInv
<1>1. /\ Len(taken') \in Nat /\ frames' \in Nat
      /\ taken' \in Seq(Sends) /\ wire' \in Seq(Sends) /\ sendQ' \in Seq(Sends)
  BY JoinerAssumption DEF LinesInv, ClosedInv, TypeInv, TypeOK, HandleTypeOK, LoopTypeOK,
     ReadTypeOK, JoinerAssumption
<1>2. /\ put["toHub"] = Len(taken) /\ put["fromHub"] = frames
      /\ put'["toHub"] = Len(taken') /\ put'["fromHub"] = frames'
      /\ got["toHub"] = ToHub /\ got["fromHub"] = Shown
      /\ got'["toHub"] = ToHub' /\ got'["fromHub"] = Shown'
  OBVIOUS
<1>3. put' \in [{"toHub", "fromHub"} -> Nat] /\ DOMAIN got' = {"toHub", "fromHub"}
  BY <1>1
<1>4. /\ DOMAIN ToHub = DOMAIN wire /\ \A i \in DOMAIN wire : ToHub[i] = i
  <2>1. Len(sendQ) \in Nat
    BY LineTypes DEF LinesInv, ClosedInv
  <2>2. \A i \in DOMAIN wire : (CHOOSE k \in DOMAIN taken : taken[k] = wire[i]) = i
    BY <1>0, <2>1, ToHubIs DEF LinesInv, WayOut, Written, TakenOnce
  <2> QED
    BY <2>2 DEF ToHub
<1>5. /\ DOMAIN ToHub' = DOMAIN wire' /\ \A i \in DOMAIN wire' : ToHub'[i] = i
  <2>1. Len(sendQ') \in Nat
    BY <1>1
  <2>2. \A i \in DOMAIN wire' : (CHOOSE k \in DOMAIN taken' : taken'[k] = wire'[i]) = i
    BY <1>1, <2>1, ToHubIs DEF LinesInv, WayOut, Written, TakenOnce
  <2> QED
    BY <2>2 DEF ToHub
<1>6. DOMAIN Shown = ShownAt /\ DOMAIN Shown' = ShownAt'
  BY DEF Shown
<1>7. BothWays!Put("toHub") \/ BothWays!Get("toHub")
  <2>1. CASE UNCHANGED <<taken, wire>>
    <3>1. ToHub' = ToHub
      BY <2>1 DEF ToHub
    <3> QED
      BY <1>0, <1>2, <2>1, <3>1 DEF BothWays!Put
  <2>2. ASSUME wire' = wire, NEW s \in Sends, taken' = Append(taken, s)
        PROVE  BothWays!Put("toHub")
    <3>1. Len(taken') >= Len(taken)
      BY <1>0, <2>2
    <3>2. ToHub' = ToHub
      <4>1. ToHub = [i \in DOMAIN wire |-> i]
        BY <1>4 DEF ToHub
      <4>2. ToHub' = [i \in DOMAIN wire |-> i]
        BY <1>5, <2>2 DEF ToHub
      <4> QED
        BY <4>1, <4>2
    <3> QED
      BY <1>2, <3>1, <3>2 DEF BothWays!Put
  <2>3. CASE /\ taken' = taken /\ wire' = Append(wire, cur) /\ cur \in Sends
             /\ Len(wire) + 1 \in DOMAIN taken /\ cur = taken[Len(wire) + 1]
    <3>1. PICK at \in 1 .. Len(taken) : at = Len(wire) + 1
      BY <1>0, <2>3
    <3>2. DOMAIN wire' = DOMAIN wire \cup {at}
      BY <1>0, <2>3, <3>1
    <3>3. /\ put'["toHub"] = put["toHub"] /\ at \in 1 .. put["toHub"] /\ at \in Nat
          /\ DOMAIN got["toHub"] = DOMAIN wire
          /\ DOMAIN got'["toHub"] = DOMAIN got["toHub"] \cup {at}
          /\ got'["toHub"][at] = at
          /\ \A p \in DOMAIN got["toHub"] : got'["toHub"][p] = got["toHub"][p]
      BY <1>2, <1>4, <1>5, <2>3, <3>1, <3>2
    <3>4. \A p \in DOMAIN got["toHub"] : p < at /\ got["toHub"][p] < at
      BY <1>0, <1>2, <1>4, <3>1
    <3>5. BothWays!CaughtUp("toHub", at)
      <4>1. \A m \in 1 .. at - 1 : m \in DOMAIN got["toHub"] /\ got["toHub"][m] = m
        BY <1>0, <1>2, <1>4, <3>1
      <4> HIDE DEF got
      <4> QED
        BY <4>1 DEF BothWays!CaughtUp, got
    <3> HIDE DEF got, put
    <3> QED
      BY <3>3, <3>4, <3>5 DEF BothWays!Get, got, put
  <2> QED
    BY <2>1, <2>2, <2>3, OutStep DEF LinesInv, ClosedInv
<1>8. BothWays!Put("fromHub") \/ BothWays!Get("fromHub")
  <2>1. ASSUME frames' >= frames, ShownAt' = ShownAt,
               \A i \in ShownAt : events'[i].n = events[i].n
        PROVE  BothWays!Put("fromHub")
    <3>1. Shown' = Shown
      BY <2>1 DEF Shown
    <3> QED
      BY <1>2, <2>1, <3>1 DEF BothWays!Put
  <2>2. CASE UNCHANGED events /\ frames' \in {frames, frames + 1}
    BY <1>0, <2>1, <2>2 DEF ShownAt
  <2>3. ASSUME UNCHANGED frames, NEW e \in Event, e.type # "Hub", events' = Append(events, e)
        PROVE  BothWays!Put("fromHub")
    <3>1. /\ DOMAIN events \subseteq DOMAIN events'
          /\ \A i \in DOMAIN events : events'[i] = events[i]
          /\ \A i \in DOMAIN events' : i \in DOMAIN events \/ events'[i] = e
      BY <1>0, <2>3
    <3>2. ShownAt' = ShownAt /\ \A i \in ShownAt : events'[i].n = events[i].n
      BY <2>3, <3>1 DEF ShownAt
    <3>3. frames' >= frames
      BY <1>0, <2>3
    <3> QED
      BY <2>1, <3>2, <3>3
  <2>4. CASE ReaderForward /\ events' # events
    <3>1. /\ reader = "sending" /\ frames' = frames /\ evOpen
          /\ events' = Append(events, FromHub(frames))
      BY <2>4 DEF ReaderForward, EventRoom
    <3>2. PICK at \in Nat : at = Len(events) + 1
      BY <1>0
    <3>3. /\ DOMAIN events' = DOMAIN events \cup {at}
          /\ \A p \in DOMAIN events : p < at /\ events'[p] = events[p]
          /\ events'[at] = FromHub(frames)
      BY <1>0, <3>1, <3>2
    <3>4. events'[at].type = "Hub" /\ events'[at].n = frames
      BY <3>3 DEF FromHub
    <3>5. ShownAt' = ShownAt \cup {at}
      BY <3>3, <3>4 DEF ShownAt
    <3>6. Shown'[at] = frames /\ \A p \in ShownAt : Shown'[p] = Shown[p]
      BY <3>3, <3>4, <3>5 DEF Shown, ShownAt
    <3>7. PICK n \in 1 .. frames : n = frames
      BY <1>0, <3>1 DEF LinesInv, WayIn
    <3>8. \A p \in ShownAt : p < at /\ Shown[p] < n
      BY <3>1, <3>3, <3>7 DEF Shown, ShownAt, LinesInv, WayIn
    <3>9. BothWays!CaughtUp("fromHub", n)
      <4> SUFFICES ASSUME NEW m \in 1 .. n - 1
                   PROVE  \E p \in DOMAIN Shown : Shown[p] = m
        BY <1>2 DEF BothWays!CaughtUp
      <4>1. m \in 1 .. frames /\ m # frames
        BY <1>0, <3>7
      <4>2. PICK p \in DOMAIN events : events[p].type = "Hub" /\ events[p].n = m
        BY <3>1, <4>1 DEF LinesInv, WayIn
      <4>3. p \in ShownAt /\ Shown[p] = m
        BY <4>2 DEF ShownAt, Shown
      <4> QED
        BY <1>6, <4>3
    <3>10. /\ put'["fromHub"] = put["fromHub"] /\ n \in 1 .. put["fromHub"]
           /\ DOMAIN got["fromHub"] = ShownAt
           /\ DOMAIN got'["fromHub"] = DOMAIN got["fromHub"] \cup {at}
           /\ got'["fromHub"][at] = n
           /\ \A p \in DOMAIN got["fromHub"] : got'["fromHub"][p] = got["fromHub"][p]
           /\ \A p \in DOMAIN got["fromHub"] : p < at /\ got["fromHub"][p] < n
      BY <1>2, <1>6, <3>1, <3>5, <3>6, <3>7, <3>8
    <3> HIDE DEF got, put
    <3> QED
      BY <3>9, <3>10 DEF BothWays!Get, got, put
  <2>5. frames' = frames \/ ReaderFrame
    BY InMoves DEF LinesInv, ReaderForward
  <2>6. ReaderFrame => UNCHANGED events /\ frames' = frames + 1
    BY DEF ReaderFrame
  <2> QED
    BY <2>2, <2>3, <2>4, <2>5, <2>6, InMoves DEF LinesInv
<1> QED
  BY <1>2, <1>3, <1>7, <1>8 DEF BothWays!Next

\* Neither the way from send() to the hub's stream nor the way from the hub's
\* frames to the event stream leaves a message out between two others, repeats
\* one or changes their order, for any number of messages and any capacity of
\* the channels: what a failed write, a drain or an end of the reader loses is
\* always a suffix.
THEOREM DeliveryBothWays == Spec => DeliversBothWays
<1>1. Init => LinesInv /\ BothWays!Init
  <2> SUFFICES ASSUME Init PROVE LinesInv /\ BothWays!Init
    OBVIOUS
  <2>1. /\ sendQ = <<>> /\ taken = <<>> /\ wire = <<>> /\ pending = <<>> /\ loop = "polled"
        /\ frames = 0 /\ reader # "sending" /\ DOMAIN events = {1} /\ events[1] = SelfJoined
    BY DEF Init
  <2>2. ClosedInv
    BY <2>1, TypeInit DEF ClosedInv, SelfJoined, RoomClosed
  <2>3. WayOut
    BY <2>1 DEF WayOut, Waiting, TakenOnce, Written
  <2>4. WayIn
    BY <2>1 DEF WayIn, SelfJoined
  <2>5. ToHub \in [{} -> Nat]
    BY <2>1 DEF ToHub
  <2>6. Shown \in [{} -> Nat]
    <3>1. ShownAt = {}
      BY <2>1 DEF ShownAt, SelfJoined
    <3> QED
      BY <3>1 DEF Shown
  <2>7. Len(taken) = 0
    BY <2>1
  <2> QED
    BY <2>1, <2>2, <2>3, <2>4, <2>5, <2>6, <2>7 DEF LinesInv, BothWays!Init
<1> QED
  BY <1>1, LinesStep, BothWaysStep, PTL DEF Spec, DeliversBothWays, BothWays!Spec
=============================================================================
