--------------------------- MODULE HostRoomProofs ---------------------------
(***************************************************************************)
(* Theorems about HostRoom for any number of connections, nonces, sends    *)
(* and frames, and any channel capacity: its types, the admission of a     *)
(* stream, the event stream, and that the room implements Delivery to each *)
(* of its peers and Admission of its guests.                               *)
(***************************************************************************)
EXTENDS HostRoom, TLAPS

USE DEF roomVars, ctxVars, coreVars

-----------------------------------------------------------------------------
(* Type correctness *)

\* A handler that is about to test its nonce has read one: what makes TypeOK
\* inductive (used only ever receives members of Nonces).
NonceRead == \A c \in Conns : conn[c] = "nonce" => nonce[c] \in Nonces

TypeInv == TypeOK /\ NonceRead

\* Each part of the state keeps its type in a step that leaves it alone.
LEMMA Frame ==
  ASSUME TypeOK
  PROVE  /\ UNCHANGED handleVars => HandleTypeOK'
         /\ UNCHANGED taskVars => TaskTypeOK'
         /\ UNCHANGED admitVars => AdmitTypeOK'
         /\ UNCHANGED readVars => ReadTypeOK'
         /\ UNCHANGED wireVars => WireTypeOK'
         /\ UNCHANGED eventVars => EventTypeOK'
<1>1. UNCHANGED handleVars => HandleTypeOK'
  BY DEF TypeOK, HandleTypeOK, handleVars
<1>2. UNCHANGED taskVars => TaskTypeOK'
  BY DEF TypeOK, TaskTypeOK, taskVars
<1>3. UNCHANGED admitVars => AdmitTypeOK'
  BY DEF TypeOK, AdmitTypeOK, admitVars
<1>4. UNCHANGED readVars => ReadTypeOK'
  BY DEF TypeOK, ReadTypeOK, readVars
<1>5. UNCHANGED wireVars => WireTypeOK'
  BY DEF TypeOK, WireTypeOK, wireVars
<1>6. UNCHANGED eventVars => EventTypeOK'
  BY DEF TypeOK, EventTypeOK, eventVars
<1> QED
  BY <1>1, <1>2, <1>3, <1>4, <1>5, <1>6

\* Every event the code builds is a ChatEvent of the model (types.rs).
LEMMA EventTypes ==
  /\ RoomReady \in Event /\ RoomClosed \in Event
  /\ \A c \in Conns : PeerJoin(c) \in Event /\ PeerLeave(c) \in Event
  /\ \A p \in Senders, n \in Nat : Message(p, n) \in Event
BY DEF Event, Senders, RoomReady, RoomClosed, PeerJoin, PeerLeave, Message

\* try_send keeps the event channel well-typed and within its capacity.
LEMMA TryEmitType ==
  ASSUME EventTypeOK, NEW e \in Event, TryEmit(e)
  PROVE  EventTypeOK'
<1>1. CASE evOpen /\ Len(events) - evRead < EventCap
  <2>1. events' = Append(events, e) /\ lost' = lost /\ evRead' = evRead /\ evOpen' = evOpen
    BY <1>1 DEF TryEmit
  <2>2. events' \in Seq(Event) /\ Len(events') = Len(events) + 1
    BY <2>1 DEF EventTypeOK
  <2> QED
    BY <1>1, <2>1, <2>2, ConstAssumption DEF EventTypeOK, ConstAssumption
<1>2. CASE ~(evOpen /\ Len(events) - evRead < EventCap)
  <2>1. events' = events /\ lost' = lost \cup {e} /\ evRead' = evRead /\ evOpen' = evOpen
    BY <1>2 DEF TryEmit
  <2> QED
    BY <2>1 DEF EventTypeOK
<1> QED
  BY <1>1, <1>2

\* The state in which run_host_loop enters its loop is well-typed.
LEMMA TypeInit == Init => TypeInv
<1> SUFFICES ASSUME Init PROVE TypeInv
  OBVIOUS
<1>1. HandleTypeOK
  <2>1. sendQ \in Seq(Sends) /\ Len(sendQ) <= SendCap
    BY ConstAssumption DEF Init, ConstAssumption
  <2> QED
    BY <2>1 DEF Init, HandleTypeOK
<1>2. TaskTypeOK
  BY DEF Init, TaskTypeOK, ConnState
<1>3. AdmitTypeOK /\ NonceRead
  BY DEF Init, AdmitTypeOK, NonceRead
<1>4. ReadTypeOK
  BY ConstAssumption DEF Init, ReadTypeOK, ConstAssumption, WireMsg, Senders
<1>5. WireTypeOK
  BY DEF Init, WireTypeOK
<1>6. EventTypeOK
  BY ConstAssumption, EventTypes DEF Init, EventTypeOK, ConstAssumption
<1> QED
  BY <1>1, <1>2, <1>3, <1>4, <1>5, <1>6 DEF TypeOK, TypeInv

\* The steps of the user interface keep the types.
LEMMA TypeUser ==
  ASSUME TypeOK,
         \/ \E s \in Sends : SendBegin(s) \/ SendComplete(s)
         \/ Quit \/ DropSendTx \/ DropShutdownTx \/ Consume \/ DropStream
  PROVE  TypeOK'
<1>1. ASSUME NEW s \in Sends, SendBegin(s) PROVE TypeOK'
  <2>1. HandleTypeOK'
    BY <1>1 DEF TypeOK, HandleTypeOK, SendBegin
  <2> QED
    BY <1>1, <2>1, Frame DEF TypeOK, SendBegin
<1>2. ASSUME NEW s \in Sends, SendComplete(s) PROVE TypeOK'
  <2>1. HandleTypeOK'
    <3>1. CASE main = "done"
      BY <1>2, <3>1 DEF TypeOK, HandleTypeOK, SendComplete
    <3>2. CASE main # "done"
      <4>1. /\ sendQ' = Append(sendQ, s) /\ Len(sendQ) < SendCap
            /\ send' = [send EXCEPT ![s] = "ok"]
            /\ handle' = handle /\ shutdown' = shutdown
        BY <1>2, <3>2 DEF SendComplete
      <4> QED
        BY <4>1, ConstAssumption DEF TypeOK, HandleTypeOK, ConstAssumption
    <3> QED
      BY <3>1, <3>2
  <2> QED
    BY <1>2, <2>1, Frame DEF TypeOK, SendComplete
<1>3. CASE Quit
  BY <1>3, Frame DEF TypeOK, HandleTypeOK, Quit
<1>4. CASE DropSendTx
  BY <1>4, Frame DEF TypeOK, HandleTypeOK, DropSendTx
<1>5. CASE DropShutdownTx
  BY <1>5, Frame DEF TypeOK, HandleTypeOK, DropShutdownTx
<1>6. CASE Consume
  <2>1. /\ evRead' = evRead + 1 /\ evRead < Len(events)
        /\ events' = events /\ evOpen' = evOpen /\ lost' = lost
    BY <1>6 DEF Consume
  <2>2. EventTypeOK'
    <3>1. events \in Seq(Event) /\ evRead \in Nat /\ Len(events) - evRead <= EventCap
      BY DEF TypeOK, EventTypeOK
    <3>2. Len(events) \in Nat
      BY <3>1
    <3>3. evRead + 1 \in 0 .. Len(events) /\ Len(events) - (evRead + 1) <= EventCap
      BY <2>1, <3>1, <3>2, ConstAssumption DEF ConstAssumption
    <3> QED
      BY <2>1, <3>3 DEF TypeOK, EventTypeOK
  <2> QED
    BY <1>6, <2>2, Frame DEF TypeOK, Consume
<1>7. CASE DropStream
  <2>1. EventTypeOK'
    BY <1>7 DEF TypeOK, EventTypeOK, DropStream
  <2> QED
    BY <1>7, <2>1, Frame DEF TypeOK, DropStream
<1> QED
  BY <1>1, <1>2, <1>3, <1>4, <1>5, <1>6, <1>7

\* The steps of the main loop and of the accept loop keep the types.
LEMMA TypeLoops ==
  ASSUME TypeOK,
         \/ MainStep \/ AcceptShutdown \/ AcceptClosed
         \/ \E c \in Conns : AcceptStream(c)
  PROVE  TypeOK'
<1>1. CASE MainShutdown
  <2>1. TaskTypeOK'
    BY <1>1 DEF TypeOK, TaskTypeOK, MainShutdown
  <2>2. EventTypeOK'
    BY <1>1, EventTypes, TryEmitType DEF TypeOK, MainShutdown
  <2> QED
    BY <1>1, <2>1, <2>2, Frame DEF TypeOK, MainShutdown
<1>2. CASE MainSend
  <2>1. /\ Head(sendQ) \in Sends /\ Tail(sendQ) \in Seq(Sends)
        /\ Len(Tail(sendQ)) <= SendCap
    BY <1>2, ConstAssumption DEF MainSend, TypeOK, HandleTypeOK, ConstAssumption
  <2>2. Head(sendQ) \in Nat /\ Hub \in Senders
    BY <2>1, ConstAssumption DEF ConstAssumption, Senders
  <2>3. HandleTypeOK'
    BY <1>2, <2>1 DEF TypeOK, HandleTypeOK, MainSend
  <2>4. TaskTypeOK'
    BY <1>2 DEF TypeOK, TaskTypeOK, MainSend, AfterPoll
  <2>5. WireTypeOK'
    <3>1. [kind |-> "Chat", from |-> Hub, n |-> Head(sendQ)] \in WireMsg
      BY <2>2 DEF WireMsg
    <3> QED
      BY <1>2, <3>1 DEF TypeOK, WireTypeOK, MainSend
  <2>6. EventTypeOK'
    BY <1>2, <2>2, EventTypes, TryEmitType DEF TypeOK, MainSend
  <2> QED
    BY <1>2, <2>3, <2>4, <2>5, <2>6, Frame DEF TypeOK, MainSend
<1>3. CASE MainSendClosed
  BY <1>3, Frame DEF TypeOK, TaskTypeOK, MainSendClosed
<1>4. CASE MainMsg
  <2>1. /\ Head(msgQ) \in WireMsg /\ Tail(msgQ) \in Seq(WireMsg)
        /\ Len(Tail(msgQ)) <= MsgCap
    BY <1>4, ConstAssumption DEF MainMsg, TypeOK, ReadTypeOK, ConstAssumption
  <2>2. Head(msgQ).from \in Senders /\ Head(msgQ).n \in Nat
    BY <2>1 DEF WireMsg
  <2>3. ReadTypeOK'
    BY <1>4, <2>1 DEF MainMsg, TypeOK, ReadTypeOK
  <2>4. TaskTypeOK'
    BY <1>4 DEF TypeOK, TaskTypeOK, MainMsg, AfterPoll
  <2>5. EventTypeOK'
    <3>1. CASE Head(msgQ).kind = "Chat"
      BY <1>4, <2>2, <3>1, EventTypes, TryEmitType DEF MainMsg, TypeOK
    <3>2. CASE Head(msgQ).kind # "Chat"
      BY <1>4, <3>2, Frame DEF MainMsg
    <3> QED
      BY <3>1, <3>2
  <2> QED
    BY <1>4, <2>3, <2>4, <2>5, Frame DEF TypeOK, MainMsg
<1>5. CASE MainReturn
  BY <1>5, Frame DEF TypeOK, TaskTypeOK, MainReturn
<1>6. CASE AcceptShutdown
  BY <1>6, Frame DEF TypeOK, TaskTypeOK, AcceptShutdown
<1>7. CASE AcceptClosed
  BY <1>7, Frame DEF TypeOK, TaskTypeOK, AcceptClosed
<1>8. ASSUME NEW c \in Conns, AcceptStream(c) PROVE TypeOK'
  <2>1. TaskTypeOK'
    BY <1>8 DEF TypeOK, TaskTypeOK, AcceptStream, AfterPoll, ConnState
  <2> QED
    BY <1>8, <2>1, Frame DEF TypeOK, AcceptStream
<1> QED
  BY <1>1, <1>2, <1>3, <1>4, <1>5, <1>6, <1>7, <1>8 DEF MainStep

\* The steps of a handler keep the types; the handshake needs NonceRead.
LEMMA TypeHandler ==
  ASSUME TypeInv, NEW c \in Conns, Handshake(c) \/ Serve(c)
  PROVE  TypeOK'
<1> USE DEF Goto
<1>1. CASE ReadHandshake(c)
  BY <1>1, Frame DEF TypeInv, TypeOK, TaskTypeOK, AdmitTypeOK, ReadHandshake, ConnState
<1>2. CASE CheckNonce(c)
  <2>1. TaskTypeOK'
    BY <1>2 DEF TypeInv, TypeOK, TaskTypeOK, CheckNonce, ConnState
  <2>2. AdmitTypeOK'
    BY <1>2 DEF TypeInv, TypeOK, AdmitTypeOK, NonceRead, CheckNonce
  <2> QED
    BY <1>2, <2>1, <2>2, Frame DEF TypeInv, TypeOK, CheckNonce
<1>3. CASE Reject(c)
  BY <1>3, Frame DEF TypeInv, TypeOK, TaskTypeOK, AdmitTypeOK, Reject, ConnState
<1>4. CASE WriteAck(c)
  BY <1>4, Frame DEF TypeInv, TypeOK, TaskTypeOK, WriteAck, ConnState
<1>5. CASE ReadName(c)
  BY <1>5, Frame DEF TypeInv, TypeOK, TaskTypeOK, ReadName, ConnState
<1>6. CASE HandshakeFails(c)
  BY <1>6, Frame DEF TypeInv, TypeOK, TaskTypeOK, HandshakeFails, ConnState
<1>7. CASE Register(c)
  BY <1>7, Frame DEF TypeInv, TypeOK, TaskTypeOK, Register, ConnState
<1>8. CASE EmitJoin(c)
  <2>1. EventTypeOK'
    BY <1>8, EventTypes, TryEmitType DEF TypeInv, TypeOK, EmitJoin
  <2> QED
    BY <1>8, <2>1, Frame DEF TypeInv, TypeOK, TaskTypeOK, EmitJoin, ConnState
<1>9. CASE GreetAndSpawnReader(c)
  <2>1. ReadTypeOK'
    BY <1>9 DEF TypeInv, TypeOK, ReadTypeOK, GreetAndSpawnReader
  <2> QED
    BY <1>9, <2>1, Frame DEF TypeInv, TypeOK, TaskTypeOK, GreetAndSpawnReader, ConnState
<1>10. CASE SubscribeWriter(c)
  <2>1. WireTypeOK'
    BY <1>10 DEF TypeInv, TypeOK, WireTypeOK, SubscribeWriter
  <2> QED
    BY <1>10, <2>1, Frame DEF TypeInv, TypeOK, TaskTypeOK, SubscribeWriter, ConnState
<1>11. CASE StopServing(c)
  BY <1>11, Frame DEF TypeInv, TypeOK, TaskTypeOK, StopServing, ConnState
<1>12. CASE Deregister(c)
  BY <1>12, Frame DEF TypeInv, TypeOK, TaskTypeOK, Deregister, ConnState
<1>13. CASE EmitLeave(c)
  <2>1. EventTypeOK'
    BY <1>13, EventTypes, TryEmitType DEF TypeInv, TypeOK, EmitLeave
  <2> QED
    BY <1>13, <2>1, Frame DEF TypeInv, TypeOK, TaskTypeOK, EmitLeave, ConnState
<1> QED
  BY <1>1, <1>2, <1>3, <1>4, <1>5, <1>6, <1>7, <1>8, <1>9, <1>10, <1>11, <1>12,
     <1>13 DEF Handshake, Serve

\* The steps of a reader and of a writer keep the types.
LEMMA TypeStreams ==
  ASSUME TypeOK, NEW c \in Conns,
         \/ \E k \in FrameKind : ReaderFrame(c, k)
         \/ ReaderForward(c) \/ ReaderEnds(c) \/ ReaderAborted(c)
         \/ WriterStep(c)
  PROVE  TypeOK'
<1>1. ASSUME NEW k \in FrameKind, ReaderFrame(c, k) PROVE TypeOK'
  <2>1. frames' \in [Conns -> 0 .. MaxFrames]
    BY <1>1, ConstAssumption DEF TypeOK, ReadTypeOK, ReaderFrame, ConstAssumption
  <2>2. reader' \in [Conns -> {"none", "reading", "sending", "done"}]
    BY <1>1 DEF TypeOK, ReadTypeOK, ReaderFrame
  <2>3. held' \in [Conns -> WireMsg]
    <3>1. k # "Malformed" => [kind |-> k, from |-> c, n |-> frames[c] + 1] \in WireMsg
      BY DEF TypeOK, ReadTypeOK, FrameKind, WireMsg, Senders
    <3> QED
      BY <1>1, <3>1 DEF TypeOK, ReadTypeOK, ReaderFrame
  <2>4. ReadTypeOK'
    BY <1>1, <2>1, <2>2, <2>3 DEF TypeOK, ReadTypeOK, ReaderFrame
  <2> QED
    BY <1>1, <2>4, Frame DEF TypeOK, ReaderFrame
<1>2. CASE ReaderForward(c)
  <2>1. msgQ' \in Seq(WireMsg) /\ Len(msgQ') <= MsgCap
    <3>1. CASE main = "done"
      BY <1>2, <3>1 DEF TypeOK, ReadTypeOK, ReaderForward
    <3>2. CASE main # "done"
      <4>1. msgQ' = Append(msgQ, held[c]) /\ Len(msgQ) < MsgCap /\ held[c] \in WireMsg
        BY <1>2, <3>2 DEF TypeOK, ReadTypeOK, ReaderForward
      <4> QED
        BY <4>1, ConstAssumption DEF TypeOK, ReadTypeOK, ConstAssumption
    <3> QED
      BY <3>1, <3>2
  <2>2. ReadTypeOK'
    BY <1>2, <2>1 DEF TypeOK, ReadTypeOK, ReaderForward
  <2> QED
    BY <1>2, <2>2, Frame DEF TypeOK, ReaderForward
<1>3. CASE ReaderEnds(c)
  <2>1. ReadTypeOK'
    BY <1>3 DEF TypeOK, ReadTypeOK, ReaderEnds
  <2> QED
    BY <1>3, <2>1, Frame DEF TypeOK, ReaderEnds
<1>4. CASE ReaderAborted(c)
  <2>1. ReadTypeOK'
    BY <1>4 DEF TypeOK, ReadTypeOK, ReaderAborted
  <2> QED
    BY <1>4, <2>1, Frame DEF TypeOK, ReaderAborted
<1>5. CASE WriterLagged(c)
  <2>1. Len(bcast) - BcastCap + 1 \in Nat
    BY <1>5, ConstAssumption DEF TypeOK, WireTypeOK, WriterLagged, Lags, ConstAssumption
  <2>2. WireTypeOK'
    BY <1>5, <2>1 DEF TypeOK, WireTypeOK, WriterLagged
  <2> QED
    BY <1>5, <2>2, Frame DEF TypeOK, WriterLagged
<1>6. CASE WriterWrites(c)
  <2>1. WireTypeOK'
    BY <1>6 DEF TypeOK, WireTypeOK, WriterWrites
  <2> QED
    BY <1>6, <2>1, Frame DEF TypeOK, WriterWrites
<1>7. CASE WriterSkips(c)
  <2>1. WireTypeOK'
    BY <1>7 DEF TypeOK, WireTypeOK, WriterSkips
  <2> QED
    BY <1>7, <2>1, Frame DEF TypeOK, WriterSkips
<1>8. CASE WriterTimesOut(c)
  <2>1. WireTypeOK'
    <3>1. /\ bcast' = bcast
          /\ writer' = [writer EXCEPT ![c] = "exited"]
          /\ cursor' = [cursor EXCEPT ![c] = @ + 1]
      BY <1>8 DEF WriterTimesOut
    <3>2. out' \in [Conns -> Seq(Nat)]
      <4>1. CASE out' = out
        BY <4>1 DEF TypeOK, WireTypeOK
      <4>2. CASE out' = [out EXCEPT ![c] = Append(@, cursor[c])]
        BY <4>2 DEF TypeOK, WireTypeOK
      <4> QED
        BY <1>8, <4>1, <4>2 DEF WriterTimesOut
    <3>3. bcast' \in Seq(WireMsg)
      BY <3>1 DEF TypeOK, WireTypeOK
    <3>4. writer' \in [Conns -> {"none", "running", "exited"}]
      BY <3>1 DEF TypeOK, WireTypeOK
    <3>5. cursor' \in [Conns -> Nat]
      BY <3>1 DEF TypeOK, WireTypeOK
    <3> QED
      BY <3>2, <3>3, <3>4, <3>5 DEF WireTypeOK
  <2> QED
    BY <1>8, <2>1, Frame DEF TypeOK, WriterTimesOut
<1>9. CASE WriterAborted(c)
  <2>1. WireTypeOK'
    BY <1>9 DEF TypeOK, WireTypeOK, WriterAborted
  <2> QED
    BY <1>9, <2>1, Frame DEF TypeOK, WriterAborted
<1> QED
  BY <1>1, <1>2, <1>3, <1>4, <1>5, <1>6, <1>7, <1>8, <1>9 DEF WriterStep

\* Only the accept loop and the handlers touch the state of a handshake and the
\* registry.
LEMMA GuestFrame ==
  ASSUME [Next]_vars
  PROVE  \/ UNCHANGED <<conn, nonce, used, accepted, peers>>
         \/ \E c \in Conns : AcceptStream(c) \/ Handshake(c) \/ Serve(c)
<1> USE DEF admitVars, taskVars
<1>1. CASE UNCHANGED vars
  BY <1>1 DEF vars
<1>2. CASE \E s \in Sends : SendBegin(s) \/ SendComplete(s)
  BY <1>2 DEF SendBegin, SendComplete
<1>3. CASE Quit \/ DropSendTx \/ DropShutdownTx \/ Consume \/ DropStream
  BY <1>3 DEF Quit, DropSendTx, DropShutdownTx, Consume, DropStream
<1>4. CASE MainStep \/ AcceptShutdown \/ AcceptClosed
  BY <1>4 DEF MainStep, MainShutdown, MainSend, MainSendClosed, MainMsg, MainReturn,
     AcceptShutdown, AcceptClosed
<1>5. ASSUME NEW c \in Conns,
             \/ \E k \in FrameKind : ReaderFrame(c, k)
             \/ ReaderForward(c) \/ ReaderEnds(c) \/ ReaderAborted(c)
      PROVE  UNCHANGED <<conn, nonce, used, accepted, peers>>
  BY <1>5 DEF ReaderFrame, ReaderForward, ReaderEnds, ReaderAborted
<1>6. ASSUME NEW c \in Conns, WriterStep(c)
      PROVE  UNCHANGED <<conn, nonce, used, accepted, peers>>
  BY <1>6 DEF WriterStep, WriterLagged, WriterWrites, WriterSkips, WriterTimesOut,
     WriterAborted
<1> QED
  BY <1>1, <1>2, <1>3, <1>4, <1>5, <1>6 DEF Next, Terminated

\* Only ReadHandshake brings a handler in front of the nonce test.
LEMMA NonceReadStep == TypeInv /\ [Next]_vars => NonceRead'
<1> SUFFICES ASSUME TypeInv, [Next]_vars PROVE NonceRead'
  OBVIOUS
<1> USE DEF TypeInv, TypeOK, TaskTypeOK, AdmitTypeOK, NonceRead, Goto
<1>1. CASE UNCHANGED <<conn, nonce, used, accepted, peers>>
  BY <1>1
<1>2. ASSUME NEW c \in Conns, AcceptStream(c) PROVE NonceRead'
  BY <1>2 DEF AcceptStream, admitVars
<1>3. ASSUME NEW c \in Conns, Handshake(c) PROVE NonceRead'
  BY <1>3 DEF Handshake, ReadHandshake, CheckNonce, Reject, WriteAck, ReadName,
     HandshakeFails, admitVars
<1>4. ASSUME NEW c \in Conns, Serve(c) PROVE NonceRead'
  BY <1>4 DEF Serve, Register, EmitJoin, GreetAndSpawnReader, SubscribeWriter,
     StopServing, Deregister, EmitLeave, admitVars
<1> QED
  BY <1>1, <1>2, <1>3, <1>4, GuestFrame

\* Every step of the room keeps the types and the channel capacities.
LEMMA TypeStep == TypeInv /\ [Next]_vars => TypeInv'
<1> SUFFICES ASSUME TypeInv, [Next]_vars PROVE TypeOK'
  BY NonceReadStep DEF TypeInv
<1>1. CASE UNCHANGED vars
  BY <1>1, Frame DEF vars, TypeInv, TypeOK, taskVars, handleVars, admitVars, readVars, wireVars,
     eventVars
<1>2. CASE Next
  BY <1>1, <1>2, TypeUser, TypeLoops, TypeHandler, TypeStreams
  DEF Next, Terminated, TypeInv
<1> QED
  BY <1>1, <1>2

\* Every reachable state of the host is well-typed and no bounded channel holds
\* more than its capacity, whatever the capacities are.
THEOREM TypeCorrect == Spec => []TypeOK
<1>1. TypeInv => TypeOK
  BY DEF TypeInv
<1> QED
  BY TypeInit, TypeStep, <1>1, PTL DEF Spec

-----------------------------------------------------------------------------
(* Admission *)

\* The states of a handler before its nonce is accepted, and the ones it can
\* only reach after.
Unaccepted == {"none", "handshake", "nonce", "reject"}
AcceptedStates == {"ack", "name"} \cup Admitted

\* The inductive invariant behind NonceSingleUse and OnlyAcceptedServed: an
\* accepted stream's nonce is in used_nonces, its handler cannot read another,
\* and a handler past the test belongs to an accepted stream.
AdmissionInv ==
  /\ TypeInv
  /\ \A c \in accepted : nonce[c] \in used /\ conn[c] \notin Unaccepted
  /\ \A c \in Conns : conn[c] \in AcceptedStates => c \in accepted
  /\ NonceSingleUse
  /\ OnlyAcceptedServed

\* No stream is accepted when the room starts.
LEMMA AdmissionInit == Init => AdmissionInv
BY TypeInit DEF Init, AdmissionInv, NonceSingleUse, OnlyAcceptedServed,
   AcceptedStates, Admitted

\* The nonce part of the invariant is kept by every step.
LEMMA AdmissionNonces ==
  ASSUME AdmissionInv, [Next]_vars
  PROVE  /\ \A c \in accepted' : nonce'[c] \in used' /\ conn'[c] \notin Unaccepted
         /\ \A c \in Conns : conn'[c] \in AcceptedStates => c \in accepted'
         /\ NonceSingleUse'
         /\ accepted \subseteq accepted'
<1> USE DEF AdmissionInv, TypeInv, TypeOK, TaskTypeOK, AdmitTypeOK, NonceSingleUse,
        Unaccepted, AcceptedStates, Admitted, Goto
<1>1. CASE UNCHANGED <<conn, nonce, used, accepted, peers>>
  BY <1>1
<1>2. ASSUME NEW d \in Conns, AcceptStream(d) \/ Handshake(d) \/ Serve(d)
      PROVE  /\ \A c \in accepted' : nonce'[c] \in used' /\ conn'[c] \notin Unaccepted
             /\ \A c \in Conns : conn'[c] \in AcceptedStates => c \in accepted'
             /\ NonceSingleUse'
             /\ accepted \subseteq accepted'
  <2>1. CASE AcceptStream(d)
    BY <2>1 DEF AcceptStream, admitVars
  <2>2. CASE ReadHandshake(d)
    BY <2>2 DEF ReadHandshake
  <2>3. CASE CheckNonce(d)
    BY <2>3 DEF CheckNonce
  <2>4. CASE Reject(d) \/ WriteAck(d) \/ ReadName(d) \/ HandshakeFails(d)
    BY <2>4 DEF Reject, WriteAck, ReadName, HandshakeFails, admitVars
  <2>5. CASE Serve(d)
    BY <2>5 DEF Serve, Register, EmitJoin, GreetAndSpawnReader, SubscribeWriter,
       StopServing, Deregister, EmitLeave, admitVars
  <2> QED
    BY <1>2, <2>1, <2>2, <2>3, <2>4, <2>5 DEF Handshake
<1> QED
  BY <1>1, <1>2, GuestFrame

\* Nobody enters the registry, and no reader or writer starts, before the nonce
\* of the stream was accepted.
LEMMA AdmissionServed ==
  ASSUME AdmissionInv, [Next]_vars
  PROVE  OnlyAcceptedServed'
<1> SUFFICES ASSUME NEW d \in Conns,
                    d \in peers' \/ reader'[d] # "none" \/ writer'[d] # "none",
                    d \notin accepted
             PROVE  d \in accepted'
  BY AdmissionNonces DEF OnlyAcceptedServed
<1>0. d \notin peers /\ reader[d] = "none" /\ writer[d] = "none"
      /\ conn[d] \notin AcceptedStates
  BY DEF AdmissionInv, OnlyAcceptedServed
<1> USE DEF AdmissionInv, TypeInv, TypeOK, TaskTypeOK, ReadTypeOK, WireTypeOK,
        AcceptedStates, Admitted, taskVars
<1>1. CASE UNCHANGED <<peers, reader, writer>>
  BY <1>0, <1>1
<1>2. ASSUME NEW c \in Conns, Serve(c) PROVE FALSE
  BY <1>0, <1>2 DEF Serve, Register, EmitJoin, GreetAndSpawnReader, SubscribeWriter,
     StopServing, Deregister, EmitLeave, readVars, wireVars
<1>3. ASSUME NEW c \in Conns,
             \/ \E k \in FrameKind : ReaderFrame(c, k)
             \/ ReaderForward(c) \/ ReaderEnds(c) \/ ReaderAborted(c)
      PROVE  FALSE
  BY <1>0, <1>3 DEF ReaderFrame, ReaderForward, ReaderEnds, ReaderAborted, wireVars
<1>4. ASSUME NEW c \in Conns, WriterStep(c) PROVE FALSE
  BY <1>0, <1>4 DEF WriterStep, WriterLagged, WriterWrites, WriterSkips,
     WriterTimesOut, WriterAborted, readVars
<1>5. ASSUME NEW c \in Conns, AcceptStream(c) \/ Handshake(c)
      PROVE  UNCHANGED <<peers, reader, writer>>
  BY <1>5 DEF AcceptStream, Handshake, ReadHandshake, CheckNonce, Reject, WriteAck,
     ReadName, HandshakeFails, readVars, wireVars
<1>6. CASE \/ \E s \in Sends : SendBegin(s) \/ SendComplete(s)
           \/ Quit \/ DropSendTx \/ DropShutdownTx \/ Consume \/ DropStream
  BY <1>1, <1>6 DEF SendBegin, SendComplete, Quit, DropSendTx, DropShutdownTx, Consume,
     DropStream, readVars, wireVars
<1>7. CASE MainStep \/ AcceptShutdown \/ AcceptClosed
  BY <1>1, <1>7 DEF MainStep, MainShutdown, MainSend, MainSendClosed, MainMsg,
     MainReturn, AcceptShutdown, AcceptClosed, readVars, wireVars
<1>8. CASE UNCHANGED vars
  BY <1>1, <1>8 DEF vars
<1> QED
  BY <1>1, <1>2, <1>3, <1>4, <1>5, <1>6, <1>7, <1>8 DEF Next, Terminated

\* The admission invariant is inductive.
LEMMA AdmissionStep == AdmissionInv /\ [Next]_vars => AdmissionInv'
BY TypeStep, AdmissionNonces, AdmissionServed DEF AdmissionInv

\* An invite admits at most one stream, for any number of concurrent
\* handshakes: the test and the insertion in hub_handshake are one step under
\* the mutex, and no later step takes a nonce out of used_nonces.
THEOREM SingleUse == Spec => []NonceSingleUse
<1>1. AdmissionInv => NonceSingleUse
  BY DEF AdmissionInv
<1> QED
  BY AdmissionInit, AdmissionStep, <1>1, PTL DEF Spec

\* A stream that was not accepted is never registered, read or written to.
THEOREM ServedWereAccepted == Spec => []OnlyAcceptedServed
<1>1. AdmissionInv => OnlyAcceptedServed
  BY DEF AdmissionInv
<1> QED
  BY AdmissionInit, AdmissionStep, <1>1, PTL DEF Spec
-----------------------------------------------------------------------------
(* The event stream *)

\* The states of a handler that has handed its PeerJoin to the event channel,
\* and the ones between the two updates of the registry.
Announced  == {"greet", "subscribe", "serve", "deregister", "leave", "closed"}
Registered == {"join", "greet", "subscribe", "serve", "deregister"}

\* A peer has a reader, and messages on their way to the main loop, only once
\* its join has been announced; the registry holds it from Register to
\* Deregister.
PeersKnown ==
  /\ \A c \in Conns : reader[c] # "none" => conn[c] \in Announced
  /\ \A c \in Conns : held[c].from = c
  /\ \A i \in DOMAIN msgQ : msgQ[i].from \in Conns /\ conn[msgQ[i].from] \in Announced
  /\ \A c \in Conns : c \in peers <=> conn[c] \in Registered

\* What an event on the stream says of the handler it came from ...
EventsFromHandlers ==
  \A i \in DOMAIN events :
    /\ events[i].who \in Conns => conn[events[i].who] \in Announced
    /\ events[i].type = "PeerJoin" => events[i].who \in Conns
    /\ events[i].type = "PeerLeave" =>
         events[i].who \in Conns /\ conn[events[i].who] = "closed"

\* ... and what the state of a handler says of the events: each was accepted
\* by the channel or lost.
Said(e) == Emitted(e) \/ e \in lost

HandlersSaid ==
  \A c \in Conns :
    /\ conn[c] \in Announced => Said(PeerJoin(c))
    /\ conn[c] = "closed" => Said(PeerLeave(c))

\* The inductive invariant behind JoinFirst, ViewAgrees and ClosedIsAnnounced.
StreamInv ==
  /\ TypeInv
  /\ PeersKnown
  /\ EventsFromHandlers
  /\ HandlersSaid
  /\ JoinFirst
  /\ ClosedIsAnnounced

\* The stream starts with RoomReady, about no peer.
LEMMA StreamInit == Init => StreamInv
<1> SUFFICES ASSUME Init PROVE StreamInv
  OBVIOUS
<1>1. TypeInv
  BY TypeInit
<1>2. PeersKnown
  BY DEF Init, PeersKnown, Announced, Registered
<1>3. DOMAIN events = {1} /\ events[1] = RoomReady
  BY DEF Init
<1>4. EventsFromHandlers /\ JoinFirst
  BY <1>3, ConstAssumption DEF ConstAssumption, EventsFromHandlers, JoinFirst, RoomReady
<1>5. HandlersSaid /\ ClosedIsAnnounced
  BY DEF Init, HandlersSaid, Announced, ClosedIsAnnounced
<1> QED
  BY <1>1, <1>2, <1>4, <1>5 DEF StreamInv

\* A handler becomes Announced by EmitJoin and closed by EmitLeave, and neither
\* is undone; no other step of a handler or of a loop moves it across.
LEMMA HandlerMoves ==
  ASSUME TypeInv, [Next]_vars, NEW c \in Conns
  PROVE  /\ conn[c] \in Announced => conn'[c] \in Announced
         /\ conn[c] = "closed" => conn'[c] = "closed"
         /\ conn'[c] \in Announced /\ conn[c] \notin Announced => EmitJoin(c)
         /\ conn'[c] = "closed" /\ conn[c] # "closed" => EmitLeave(c)
<1> USE DEF TypeInv, TypeOK, TaskTypeOK, Announced, Goto
<1>1. CASE UNCHANGED <<conn, nonce, used, accepted, peers>>
  BY <1>1
<1>2. ASSUME NEW d \in Conns, AcceptStream(d) \/ Handshake(d)
      PROVE  /\ conn[c] \in Announced => conn'[c] = conn[c]
             /\ conn[c] \notin Announced => conn'[c] \notin Announced
  BY <1>2 DEF AcceptStream, Handshake, ReadHandshake, CheckNonce, Reject, WriteAck,
     ReadName, HandshakeFails
<1>3. ASSUME NEW d \in Conns, Serve(d)
      PROVE  /\ conn[c] \in Announced => conn'[c] \in Announced
             /\ conn[c] = "closed" => conn'[c] = "closed"
             /\ conn'[c] \in Announced /\ conn[c] \notin Announced => EmitJoin(c)
             /\ conn'[c] = "closed" /\ conn[c] # "closed" => EmitLeave(c)
  <2>1. CASE EmitJoin(d)
    BY <2>1 DEF EmitJoin
  <2>2. CASE EmitLeave(d)
    BY <2>2 DEF EmitLeave
  <2>3. CASE Register(d) \/ GreetAndSpawnReader(d) \/ SubscribeWriter(d)
             \/ StopServing(d) \/ Deregister(d)
    BY <2>3 DEF Register, GreetAndSpawnReader, SubscribeWriter, StopServing, Deregister
  <2> QED
    BY <1>3, <2>1, <2>2, <2>3 DEF Serve
<1> QED
  BY <1>1, <1>2, <1>3, GuestFrame

\* What try_send does to the stream: it appends one event or loses it.
LEMMA EmitShape ==
  ASSUME EventTypeOK, NEW e \in Event, TryEmit(e)
  PROVE  /\ \A i \in DOMAIN events : i \in DOMAIN events' /\ events'[i] = events[i]
         /\ \A i \in DOMAIN events' :
              i \in DOMAIN events \/ (i = Len(events) + 1 /\ events'[i] = e)
         /\ lost \subseteq lost'
         /\ Said(e)'
<1>1. CASE evOpen /\ Len(events) - evRead < EventCap
  <2>1. events' = Append(events, e) /\ lost' = lost
    BY <1>1 DEF TryEmit
  <2>2. /\ Len(events) \in Nat /\ DOMAIN events = 1 .. Len(events)
        /\ DOMAIN events' = 1 .. Len(events) + 1
        /\ \A i \in 1 .. Len(events) : events'[i] = events[i]
        /\ events'[Len(events) + 1] = e
    BY <2>1 DEF EventTypeOK
  <2> QED
    BY <2>1, <2>2 DEF Said, Emitted
<1>2. CASE ~(evOpen /\ Len(events) - evRead < EventCap)
  BY <1>2 DEF TryEmit, Said
<1> QED
  BY <1>1, <1>2

\* Which events a step puts on the stream.
LEMMA EventSteps ==
  ASSUME StreamInv, [Next]_vars
  PROVE  \/ UNCHANGED <<events, lost>>
         \/ TryEmit(RoomClosed)
         \/ \E p \in Senders, n \in Nat :
              TryEmit(Message(p, n)) /\ (p \in Conns => conn[p] \in Announced)
         \/ \E c \in Conns : EmitJoin(c) \/ EmitLeave(c)
<1> USE DEF eventVars
<1>1. CASE UNCHANGED vars
  BY <1>1 DEF vars
<1>2. CASE \/ \E s \in Sends : SendBegin(s) \/ SendComplete(s)
           \/ Quit \/ DropSendTx \/ DropShutdownTx \/ Consume \/ DropStream
  BY <1>2 DEF SendBegin, SendComplete, Quit, DropSendTx, DropShutdownTx, Consume, DropStream
<1>3. CASE MainShutdown \/ MainSendClosed \/ MainReturn \/ AcceptShutdown \/ AcceptClosed
  BY <1>3 DEF MainShutdown, MainSendClosed, MainReturn, AcceptShutdown, AcceptClosed
<1>4. CASE MainSend
  <2>1. Head(sendQ) \in Sends
    BY <1>4 DEF MainSend, StreamInv, TypeInv, TypeOK, HandleTypeOK
  <2>2. Head(sendQ) \in Nat /\ Hub \in Senders /\ Hub \notin Conns
    BY <2>1, ConstAssumption DEF ConstAssumption, Senders
  <2> QED
    BY <1>4, <2>2 DEF MainSend
<1>5. CASE MainMsg
  <2>1. Head(msgQ) = msgQ[1] /\ 1 \in DOMAIN msgQ /\ msgQ[1] \in WireMsg
    BY <1>5 DEF MainMsg, StreamInv, TypeInv, TypeOK, ReadTypeOK
  <2>2. /\ Head(msgQ).from \in Senders /\ Head(msgQ).n \in Nat
        /\ conn[Head(msgQ).from] \in Announced
    BY <2>1 DEF StreamInv, PeersKnown, WireMsg
  <2> QED
    BY <1>5, <2>2 DEF MainMsg
<1>6. ASSUME NEW c \in Conns, AcceptStream(c) \/ Handshake(c)
      PROVE  UNCHANGED <<events, lost>>
  BY <1>6 DEF AcceptStream, Handshake, ReadHandshake, CheckNonce, Reject, WriteAck,
     ReadName, HandshakeFails
<1>7. ASSUME NEW c \in Conns, Serve(c)
      PROVE  UNCHANGED <<events, lost>> \/ EmitJoin(c) \/ EmitLeave(c)
  BY <1>7 DEF Serve, Register, GreetAndSpawnReader, SubscribeWriter, StopServing,
     Deregister
<1>8. ASSUME NEW c \in Conns,
             \/ \E k \in FrameKind : ReaderFrame(c, k)
             \/ ReaderForward(c) \/ ReaderEnds(c) \/ ReaderAborted(c)
      PROVE  UNCHANGED <<events, lost>>
  BY <1>8 DEF ReaderFrame, ReaderForward, ReaderEnds, ReaderAborted
<1>9. ASSUME NEW c \in Conns, WriterStep(c) PROVE UNCHANGED <<events, lost>>
  BY <1>9 DEF WriterStep, WriterLagged, WriterWrites, WriterSkips, WriterTimesOut,
     WriterAborted
<1> QED
  BY <1>1, <1>2, <1>3, <1>4, <1>5, <1>6, <1>7, <1>8, <1>9 DEF Next, MainStep, Terminated

\* Nothing that was said is taken back.
LEMMA SaidStays ==
  ASSUME StreamInv, [Next]_vars, NEW e, Said(e)
  PROVE  Said(e)'
<1>1. CASE UNCHANGED <<events, lost>>
  BY <1>1 DEF Said, Emitted
<1>2. ASSUME NEW f \in Event, TryEmit(f) PROVE Said(e)'
  BY <1>2, EmitShape DEF Said, Emitted, StreamInv, TypeInv, TypeOK
<1> QED
  BY <1>1, <1>2, EventSteps, EventTypes DEF EmitJoin, EmitLeave

\* An event about a peer follows its join, and only EmitJoin puts a PeerJoin on
\* the stream, when nothing was said of the peer yet.
LEMMA StreamOrder ==
  ASSUME StreamInv, [Next]_vars
  PROVE  EventsFromHandlers' /\ JoinFirst'
<1>0. /\ EventTypeOK /\ EventsFromHandlers /\ JoinFirst
      /\ DOMAIN events = 1 .. Len(events) /\ Len(events) \in Nat
  BY DEF StreamInv, TypeInv, TypeOK, EventTypeOK
<1>1. \A c \in Conns : /\ conn[c] \in Announced => conn'[c] \in Announced
                       /\ conn[c] = "closed" => conn'[c] = "closed"
  BY HandlerMoves DEF StreamInv
<1>2. CASE UNCHANGED <<events, lost>>
  BY <1>0, <1>1, <1>2 DEF EventsFromHandlers, JoinFirst
<1>3. ASSUME NEW e \in Event, TryEmit(e),
             e.who \in Conns => conn'[e.who] \in Announced,
             e.type = "PeerJoin" => e.who \in Conns /\ conn[e.who] \notin Announced,
             e.type = "PeerLeave" => e.who \in Conns /\ conn'[e.who] = "closed"
      PROVE  EventsFromHandlers' /\ JoinFirst'
  <2>1. /\ \A i \in DOMAIN events : i \in DOMAIN events' /\ events'[i] = events[i]
        /\ \A i \in DOMAIN events' :
             i \in DOMAIN events \/ (i = Len(events) + 1 /\ events'[i] = e)
    BY <1>0, <1>3, EmitShape
  <2>2. EventsFromHandlers'
    <3> SUFFICES ASSUME NEW i \in DOMAIN events'
                 PROVE  /\ events'[i].who \in Conns => conn'[events'[i].who] \in Announced
                        /\ events'[i].type = "PeerJoin" => events'[i].who \in Conns
                        /\ events'[i].type = "PeerLeave" =>
                             events'[i].who \in Conns /\ conn'[events'[i].who] = "closed"
      BY DEF EventsFromHandlers
    <3>1. CASE i \in DOMAIN events
      BY <1>0, <1>1, <2>1, <3>1 DEF EventsFromHandlers
    <3>2. CASE events'[i] = e
      BY <1>3, <3>2
    <3> QED
      BY <2>1, <3>1, <3>2
  <2>3. JoinFirst'
    <3> SUFFICES ASSUME NEW i \in DOMAIN events', NEW j \in DOMAIN events',
                        events'[i].type = "PeerJoin",
                        events'[j].who = events'[i].who
                 PROVE  i <= j /\ (events'[j].type = "PeerJoin" => i = j)
      BY DEF JoinFirst
    <3>1. CASE i \in DOMAIN events /\ j \in DOMAIN events
      BY <1>0, <2>1, <3>1 DEF JoinFirst
    <3>2. CASE i \in DOMAIN events /\ j \notin DOMAIN events
      <4>1. events'[i] = events[i] /\ events'[j] = e /\ j = Len(events) + 1 /\ i < j
        BY <1>0, <2>1, <3>2
      <4>2. conn[e.who] \in Announced
        BY <1>0, <3>2, <4>1 DEF EventsFromHandlers
      <4> QED
        BY <1>0, <1>3, <3>2, <4>1, <4>2
    <3>3. CASE i \notin DOMAIN events /\ j \in DOMAIN events
      <4>1. events'[i] = e /\ events'[j] = events[j]
        BY <2>1, <3>3
      <4>2. conn[e.who] \in Announced /\ conn[e.who] \notin Announced
        BY <1>0, <1>3, <3>3, <4>1 DEF EventsFromHandlers
      <4> QED
        BY <4>2
    <3>4. CASE i \notin DOMAIN events /\ j \notin DOMAIN events
      BY <1>0, <2>1, <3>4
    <3> QED
      BY <3>1, <3>2, <3>3, <3>4
  <2> QED
    BY <2>2, <2>3
<1>4. CASE TryEmit(RoomClosed)
  BY <1>3, <1>4, EventTypes, ConstAssumption DEF ConstAssumption, RoomClosed
<1>5. ASSUME NEW p \in Senders, NEW n \in Nat, TryEmit(Message(p, n)),
             p \in Conns => conn[p] \in Announced
      PROVE  EventsFromHandlers' /\ JoinFirst'
  BY <1>1, <1>3, <1>5, EventTypes DEF Message
<1>6. ASSUME NEW c \in Conns, EmitJoin(c) PROVE EventsFromHandlers' /\ JoinFirst'
  <2>1. conn[c] \notin Announced /\ conn'[c] \in Announced /\ TryEmit(PeerJoin(c))
    BY <1>6 DEF EmitJoin, Goto, Announced, StreamInv, TypeInv, TypeOK, TaskTypeOK
  <2> QED
    BY <1>3, <2>1, EventTypes DEF PeerJoin
<1>7. ASSUME NEW c \in Conns, EmitLeave(c) PROVE EventsFromHandlers' /\ JoinFirst'
  <2>1. conn'[c] = "closed" /\ TryEmit(PeerLeave(c))
    BY <1>7 DEF EmitLeave, Goto, StreamInv, TypeInv, TypeOK, TaskTypeOK
  <2> QED
    BY <1>3, <2>1, EventTypes DEF PeerLeave, Announced
<1> QED
  BY <1>2, <1>4, <1>5, <1>6, <1>7, EventSteps

\* A handler that passed EmitJoin or EmitLeave has said so, and the main loop
\* stops with RoomClosed unless the handle is gone.
LEMMA StreamSaid ==
  ASSUME StreamInv, [Next]_vars
  PROVE  HandlersSaid' /\ ClosedIsAnnounced'
<1>1. \A c \in Conns : conn'[c] \in Announced => Said(PeerJoin(c))'
  <2> SUFFICES ASSUME NEW c \in Conns, conn'[c] \in Announced PROVE Said(PeerJoin(c))'
    OBVIOUS
  <2>1. CASE conn[c] \in Announced
    BY <2>1, SaidStays DEF StreamInv, HandlersSaid, PeerJoin
  <2>2. CASE EmitJoin(c)
    BY <2>2, EmitShape, EventTypes DEF EmitJoin, StreamInv, TypeInv, TypeOK
  <2> QED
    BY <2>1, <2>2, HandlerMoves DEF StreamInv
<1>2. \A c \in Conns : conn'[c] = "closed" => Said(PeerLeave(c))'
  <2> SUFFICES ASSUME NEW c \in Conns, conn'[c] = "closed" PROVE Said(PeerLeave(c))'
    OBVIOUS
  <2>1. CASE conn[c] = "closed"
    BY <2>1, SaidStays DEF StreamInv, HandlersSaid, PeerLeave
  <2>2. CASE EmitLeave(c)
    BY <2>2, EmitShape, EventTypes DEF EmitLeave, StreamInv, TypeInv, TypeOK
  <2> QED
    BY <2>1, <2>2, HandlerMoves DEF StreamInv
<1>3. ClosedIsAnnounced'
  <2> SUFFICES ASSUME main' \in {"stopping", "done"}, handle' = "held"
               PROVE  Said(RoomClosed)'
    BY DEF ClosedIsAnnounced, Said, Emitted, RoomClosed
  <2>1. CASE main \in {"stopping", "done"} /\ handle = "held"
    BY <2>1, SaidStays DEF StreamInv, ClosedIsAnnounced, Said
  <2>2. CASE MainShutdown
    BY <2>2, EmitShape, EventTypes DEF MainShutdown, StreamInv, TypeInv, TypeOK
  <2>3. handle = "held"
    BY DEF Next, vars, SendBegin, SendComplete, Quit, DropSendTx, DropShutdownTx, Consume,
       DropStream, MainStep, MainShutdown, MainSend, MainSendClosed, MainMsg, MainReturn,
       AcceptShutdown, AcceptClosed, AcceptStream, Handshake, ReadHandshake, CheckNonce,
       Reject, WriteAck, ReadName, HandshakeFails, Serve, Register, EmitJoin,
       GreetAndSpawnReader, SubscribeWriter, StopServing, Deregister, EmitLeave,
       ReaderFrame, ReaderForward, ReaderEnds, ReaderAborted, WriterStep, WriterLagged,
       WriterWrites, WriterSkips, WriterTimesOut, WriterAborted, Terminated, handleVars
  <2>4. main \in {"stopping", "done"} \/ MainShutdown
    BY <2>3 DEF Next, vars, SendBegin, SendComplete, Quit, DropSendTx, DropShutdownTx, Consume,
       DropStream, MainStep, MainSend, MainSendClosed, MainMsg, MainReturn, AfterPoll,
       AcceptShutdown, AcceptClosed, AcceptStream, Handshake, ReadHandshake, CheckNonce,
       Reject, WriteAck, ReadName, HandshakeFails, Serve, Register, EmitJoin,
       GreetAndSpawnReader, SubscribeWriter, StopServing, Deregister, EmitLeave,
       ReaderFrame, ReaderForward, ReaderEnds, ReaderAborted, WriterStep, WriterLagged,
       WriterWrites, WriterSkips, WriterTimesOut, WriterAborted, Terminated, taskVars
  <2> QED
    BY <2>1, <2>2, <2>3, <2>4
<1> QED
  BY <1>1, <1>2, <1>3 DEF HandlersSaid

\* Who touches the readers, the messages they hold and the channel to the main
\* loop.
LEMMA ReadersMove ==
  ASSUME [Next]_vars
  PROVE  \/ UNCHANGED <<reader, held, msgQ>>
         \/ MainMsg /\ UNCHANGED <<reader, held>>
         \/ \E c \in Conns :
              \/ GreetAndSpawnReader(c)
              \/ \E k \in FrameKind : ReaderFrame(c, k)
              \/ ReaderForward(c) \/ ReaderEnds(c) \/ ReaderAborted(c)
<1> USE DEF readVars
<1>1. CASE UNCHANGED vars
  BY <1>1 DEF vars
<1>2. CASE \/ \E s \in Sends : SendBegin(s) \/ SendComplete(s)
           \/ Quit \/ DropSendTx \/ DropShutdownTx \/ Consume \/ DropStream
  BY <1>2 DEF SendBegin, SendComplete, Quit, DropSendTx, DropShutdownTx, Consume, DropStream
<1>3. CASE MainStep \/ AcceptShutdown \/ AcceptClosed
  BY <1>3 DEF MainStep, MainShutdown, MainSend, MainSendClosed, MainMsg, MainReturn,
     AcceptShutdown, AcceptClosed
<1>4. ASSUME NEW c \in Conns, AcceptStream(c) \/ Handshake(c)
      PROVE  UNCHANGED <<reader, held, msgQ>>
  BY <1>4 DEF AcceptStream, Handshake, ReadHandshake, CheckNonce, Reject, WriteAck,
     ReadName, HandshakeFails
<1>5. ASSUME NEW c \in Conns, Serve(c)
      PROVE  UNCHANGED <<reader, held, msgQ>> \/ GreetAndSpawnReader(c)
  BY <1>5 DEF Serve, Register, EmitJoin, SubscribeWriter, StopServing, Deregister, EmitLeave
<1>6. ASSUME NEW c \in Conns, WriterStep(c) PROVE UNCHANGED <<reader, held, msgQ>>
  BY <1>6 DEF WriterStep, WriterLagged, WriterWrites, WriterSkips, WriterTimesOut,
     WriterAborted
<1> QED
  BY <1>1, <1>2, <1>3, <1>4, <1>5, <1>6 DEF Next, Terminated

\* A reader starts after EmitJoin, forwards messages of its own peer only, and
\* the registry is updated by Register and Deregister alone.
LEMMA PeersKnownStep ==
  ASSUME StreamInv, [Next]_vars
  PROVE  PeersKnown'
<1>0. /\ \A c \in Conns : conn[c] \in Announced => conn'[c] \in Announced
      /\ PeersKnown /\ TypeInv
      /\ msgQ \in Seq(WireMsg) /\ conn \in [Conns -> ConnState]
  BY HandlerMoves DEF StreamInv, TypeInv, TypeOK, ReadTypeOK, TaskTypeOK
<1>1. \A c \in Conns : reader'[c] # "none" => conn'[c] \in Announced
  <2> SUFFICES ASSUME NEW c \in Conns, reader'[c] # "none", reader[c] = "none"
               PROVE  conn'[c] \in Announced
    BY <1>0 DEF PeersKnown
  <2>1. ASSUME NEW d \in Conns,
               \/ \E k \in FrameKind : ReaderFrame(d, k)
               \/ ReaderForward(d) \/ ReaderEnds(d) \/ ReaderAborted(d)
        PROVE  FALSE
    BY <2>1 DEF ReaderFrame, ReaderForward, ReaderEnds, ReaderAborted, StreamInv, TypeInv,
       TypeOK, ReadTypeOK
  <2>2. ASSUME NEW d \in Conns, GreetAndSpawnReader(d) PROVE conn'[c] \in Announced
    BY <1>0, <2>2 DEF GreetAndSpawnReader, Goto, Announced, StreamInv, TypeInv, TypeOK,
       ReadTypeOK
  <2> QED
    BY <2>1, <2>2, ReadersMove
<1>2. \A c \in Conns : held'[c].from = c
  <2>1. CASE UNCHANGED held
    BY <1>0, <2>1 DEF PeersKnown
  <2>2. ASSUME NEW d \in Conns, NEW k \in FrameKind, ReaderFrame(d, k)
        PROVE  \A c \in Conns : held'[c].from = c
    <3>1. \A c \in Conns : c # d => held'[c] = held[c]
      BY <1>0, <2>2 DEF ReaderFrame, TypeInv, TypeOK, ReadTypeOK
    <3>2. held'[d] = held[d] \/ held'[d] = [kind |-> k, from |-> d, n |-> frames[d] + 1]
      BY <1>0, <2>2 DEF ReaderFrame, TypeInv, TypeOK, ReadTypeOK
    <3> QED
      BY <1>0, <3>1, <3>2 DEF PeersKnown
  <2> QED
    BY <2>1, <2>2, ReadersMove DEF ReaderForward, ReaderEnds, ReaderAborted,
       GreetAndSpawnReader
<1>3. \A i \in DOMAIN msgQ' : msgQ'[i].from \in Conns /\ conn'[msgQ'[i].from] \in Announced
  <2>1. CASE UNCHANGED msgQ
    BY <1>0, <2>1 DEF PeersKnown
  <2>2. CASE MainMsg
    <3>1. /\ msgQ' = Tail(msgQ) /\ msgQ # <<>>
      BY <2>2 DEF MainMsg
    <3>2. \A i \in DOMAIN msgQ' : i + 1 \in DOMAIN msgQ /\ msgQ'[i] = msgQ[i + 1]
      BY <1>0, <3>1
    <3> QED
      BY <1>0, <3>2 DEF PeersKnown
  <2>3. ASSUME NEW d \in Conns, ReaderForward(d), msgQ' # msgQ
        PROVE  \A i \in DOMAIN msgQ' : msgQ'[i].from \in Conns /\ conn'[msgQ'[i].from] \in Announced
    <3>1. msgQ' = Append(msgQ, held[d]) /\ reader[d] = "sending"
      BY <2>3 DEF ReaderForward
    <3>2. held[d] \in WireMsg /\ held[d].from = d /\ conn[d] \in Announced
      BY <1>0, <3>1 DEF PeersKnown, TypeInv, TypeOK, ReadTypeOK
    <3>3. \A i \in DOMAIN msgQ' : (i \in DOMAIN msgQ /\ msgQ'[i] = msgQ[i]) \/ msgQ'[i] = held[d]
      BY <1>0, <3>1, <3>2
    <3> QED
      BY <1>0, <3>2, <3>3 DEF PeersKnown
  <2> QED
    BY <2>1, <2>2, <2>3, ReadersMove DEF ReaderFrame, ReaderEnds, ReaderAborted,
       GreetAndSpawnReader
<1>4. \A c \in Conns : c \in peers' <=> conn'[c] \in Registered
  <2>1. CASE UNCHANGED <<conn, nonce, used, accepted, peers>>
    BY <1>0, <2>1 DEF PeersKnown
  <2>2. ASSUME NEW d \in Conns, AcceptStream(d) \/ Handshake(d)
        PROVE  \A c \in Conns : c \in peers' <=> conn'[c] \in Registered
    BY <1>0, <2>2 DEF PeersKnown, Registered, Goto, AcceptStream, Handshake, ReadHandshake,
       CheckNonce, Reject, WriteAck, ReadName, HandshakeFails
  <2>3. ASSUME NEW d \in Conns, Serve(d)
        PROVE  \A c \in Conns : c \in peers' <=> conn'[c] \in Registered
    BY <1>0, <2>3 DEF PeersKnown, Registered, Goto, Serve, Register, EmitJoin,
       GreetAndSpawnReader, SubscribeWriter, StopServing, Deregister, EmitLeave
  <2> QED
    BY <2>1, <2>2, <2>3, GuestFrame
<1> QED
  BY <1>1, <1>2, <1>3, <1>4 DEF PeersKnown

\* The invariant of the event stream is inductive.
LEMMA StreamStep == StreamInv /\ [Next]_vars => StreamInv'
BY TypeStep, PeersKnownStep, StreamOrder, StreamSaid DEF StreamInv

\* For any number of peers, however their handlers and readers interleave with
\* the main loop: a peer's PeerJoin is the first event about it on the stream,
\* and the only PeerJoin.
THEOREM JoinComesFirst == Spec => []JoinFirst
<1>1. StreamInv => JoinFirst
  BY DEF StreamInv
<1> QED
  BY StreamInit, StreamStep, <1>1, PTL DEF Spec

\* The peers a user interface counts from the stream are the ones of the
\* registry, for every peer none of whose events was dropped by try_send.
THEOREM ViewIsRegistry == Spec => []ViewAgrees
<1>1. StreamInv => ViewAgrees
  <2> SUFFICES ASSUME StreamInv, NEW c \in Conns, conn[c] \notin {"join", "leave"},
                      PeerJoin(c) \notin lost, PeerLeave(c) \notin lost
               PROVE  c \in peers <=> Emitted(PeerJoin(c)) /\ ~Emitted(PeerLeave(c))
    BY DEF ViewAgrees
  <2>1. c \in peers <=> conn[c] \in Registered
    BY DEF StreamInv, PeersKnown
  <2>2. Emitted(PeerJoin(c)) <=> conn[c] \in Announced
    BY DEF StreamInv, EventsFromHandlers, HandlersSaid, Said, Emitted, PeerJoin
  <2>3. Emitted(PeerLeave(c)) <=> conn[c] = "closed"
    BY DEF StreamInv, EventsFromHandlers, HandlersSaid, Said, Emitted, PeerLeave
  <2> QED
    BY <2>1, <2>2, <2>3 DEF Announced, Registered
<1> QED
  BY StreamInit, StreamStep, <1>1, PTL DEF Spec

\* A main loop that stopped under a held handle has sent RoomClosed, or found no
\* room for it on the event channel.
THEOREM ClosedWasAnnounced == Spec => []ClosedIsAnnounced
<1>1. StreamInv => ClosedIsAnnounced
  BY DEF StreamInv
<1> QED
  BY StreamInit, StreamStep, <1>1, PTL DEF Spec
-----------------------------------------------------------------------------
(* The room implements Delivery to its peers *)

\* The inductive invariant of the writers: a cursor is at most one past the end
\* of the broadcast, a running writer has one, and what was written to a peer is
\* behind its cursor.
OutInv ==
  /\ TypeInv
  /\ \A c \in Conns :
       /\ cursor[c] <= Len(bcast) + 1
       /\ writer[c] = "running" => cursor[c] >= 1
       /\ \A p \in DOMAIN out[c] : out[c][p] < cursor[c]

\* Nobody has subscribed when the room starts.
LEMMA OutInit == Init => OutInv
<1> SUFFICES ASSUME Init PROVE OutInv
  OBVIOUS
<1>1. /\ cursor = [c \in Conns |-> 0] /\ bcast = <<>>
      /\ writer = [c \in Conns |-> "none"] /\ out = [c \in Conns |-> <<>>]
  BY DEF Init
<1>2. Len(bcast) = 0
  BY <1>1
<1> QED
  BY <1>1, <1>2, TypeInit DEF OutInv

\* Only the main loop puts messages on the broadcast, only SubscribeWriter and
\* the writers take them off.
LEMMA WireFrame ==
  ASSUME [Next]_vars
  PROVE  \/ UNCHANGED wireVars
         \/ MainSend
         \/ \E c \in Conns : SubscribeWriter(c) \/ WriterStep(c)
<1> USE DEF wireVars
<1>1. CASE UNCHANGED vars
  BY <1>1 DEF vars
<1>2. CASE \E s \in Sends : SendBegin(s) \/ SendComplete(s)
  BY <1>2 DEF SendBegin, SendComplete
<1>3. CASE Quit \/ DropSendTx \/ DropShutdownTx \/ Consume \/ DropStream
  BY <1>3 DEF Quit, DropSendTx, DropShutdownTx, Consume, DropStream
<1>4. CASE MainStep \/ AcceptShutdown \/ AcceptClosed
  BY <1>4 DEF MainStep, MainShutdown, MainSendClosed, MainMsg, MainReturn,
     AcceptShutdown, AcceptClosed
<1>5. ASSUME NEW c \in Conns, AcceptStream(c) \/ Handshake(c) PROVE UNCHANGED wireVars
  BY <1>5 DEF AcceptStream, Handshake, ReadHandshake, CheckNonce, Reject, WriteAck,
     ReadName, HandshakeFails
<1>6. ASSUME NEW c \in Conns, Serve(c) PROVE UNCHANGED wireVars \/ SubscribeWriter(c)
  BY <1>6 DEF Serve, Register, EmitJoin, GreetAndSpawnReader, StopServing, Deregister,
     EmitLeave
<1>7. ASSUME NEW c \in Conns,
             \/ \E k \in FrameKind : ReaderFrame(c, k)
             \/ ReaderForward(c) \/ ReaderEnds(c) \/ ReaderAborted(c)
      PROVE  UNCHANGED wireVars
  BY <1>7 DEF ReaderFrame, ReaderForward, ReaderEnds, ReaderAborted
<1> QED
  BY <1>1, <1>2, <1>3, <1>4, <1>5, <1>6, <1>7 DEF Next, Terminated

\* What a step of one writer does to its line: nothing comes out, or the message
\* at the cursor does, and the cursor never moves back.
LEMMA WriterMoves ==
  ASSUME OutInv, NEW c \in Conns, WriterStep(c)
  PROVE  /\ bcast' = bcast
         /\ \E k \in Nat : cursor' = [cursor EXCEPT ![c] = k]
                           /\ cursor[c] <= k /\ k <= Len(bcast) + 1
         /\ writer' \in {writer, [writer EXCEPT ![c] = "exited"]}
         /\ writer[c] = "running"
         /\ \/ out' = out
            \/ /\ cursor[c] <= Len(bcast) /\ cursor'[c] = cursor[c] + 1
               /\ out' = [out EXCEPT ![c] = Append(@, cursor[c])]
<1>1. /\ cursor \in [Conns -> Nat] /\ Len(bcast) \in Nat /\ cursor[c] <= Len(bcast) + 1
      /\ BcastCap \in Nat \ {0}
  BY ConstAssumption DEF OutInv, TypeInv, TypeOK, WireTypeOK, ConstAssumption
<1>2. CASE WriterLagged(c)
  <2>1. Len(bcast) - BcastCap + 1 \in Nat /\ cursor[c] <= Len(bcast) - BcastCap + 1
        /\ Len(bcast) - BcastCap + 1 <= Len(bcast) + 1
    BY <1>1, <1>2 DEF WriterLagged, Lags
  <2> QED
    BY <1>2, <2>1 DEF WriterLagged
<1>3. CASE WriterAborted(c)
  <2>1. cursor' = [cursor EXCEPT ![c] = cursor[c]] /\ bcast' = bcast /\ out' = out
    BY <1>1, <1>3 DEF WriterAborted
  <2> QED
    BY <1>1, <1>3, <2>1 DEF WriterAborted
<1>4. CASE WriterWrites(c) \/ WriterSkips(c) \/ WriterTimesOut(c)
  <2>1. /\ cursor' = [cursor EXCEPT ![c] = cursor[c] + 1] /\ bcast' = bcast
        /\ cursor[c] <= Len(bcast) /\ writer[c] = "running"
        /\ writer' \in {writer, [writer EXCEPT ![c] = "exited"]}
        /\ \/ out' = out
           \/ out' = [out EXCEPT ![c] = Append(@, cursor[c])]
    BY <1>4 DEF WriterWrites, WriterSkips, WriterTimesOut, HasNext
  <2>2. cursor[c] + 1 \in Nat /\ cursor[c] + 1 <= Len(bcast) + 1 /\ cursor'[c] = cursor[c] + 1
    BY <1>1, <2>1
  <2>3. \E k \in Nat : cursor' = [cursor EXCEPT ![c] = k]
                      /\ cursor[c] <= k /\ k <= Len(bcast) + 1
    <3>1. cursor[c] <= cursor[c] + 1
      BY <1>1
    <3> QED
      BY <2>1, <2>2, <3>1
  <2> QED
    BY <2>1, <2>2, <2>3
<1> QED
  BY <1>2, <1>3, <1>4 DEF WriterStep

\* The invariant is inductive.
LEMMA OutStep == OutInv /\ [Next]_vars => OutInv'
<1> SUFFICES ASSUME OutInv, [Next]_vars, NEW d \in Conns
             PROVE  /\ cursor'[d] <= Len(bcast') + 1
                    /\ writer'[d] = "running" => cursor'[d] >= 1
                    /\ \A p \in DOMAIN out'[d] : out'[d][p] < cursor'[d]
  BY TypeStep DEF OutInv
<1>1. /\ cursor[d] \in Nat /\ Len(bcast) \in Nat /\ cursor[d] <= Len(bcast) + 1
      /\ writer[d] = "running" => cursor[d] >= 1
      /\ \A p \in DOMAIN out[d] : out[d][p] < cursor[d]
      /\ out[d] \in Seq(Nat)
  BY DEF OutInv, TypeInv, TypeOK, WireTypeOK
<1>2. CASE UNCHANGED wireVars
  BY <1>1, <1>2 DEF wireVars
<1>3. CASE MainSend
  <2>1. UNCHANGED <<writer, cursor, out>> /\ Len(bcast') = Len(bcast) + 1
    BY <1>3 DEF MainSend, OutInv, TypeInv, TypeOK, WireTypeOK
  <2> QED
    BY <1>1, <2>1
<1>4. ASSUME NEW c \in Conns, SubscribeWriter(c)
      PROVE  /\ cursor'[d] <= Len(bcast') + 1
             /\ writer'[d] = "running" => cursor'[d] >= 1
             /\ \A p \in DOMAIN out'[d] : out'[d][p] < cursor'[d]
  <2>1. /\ bcast' = bcast /\ out' = out
        /\ writer' = [writer EXCEPT ![c] = "running"]
        /\ cursor' = [cursor EXCEPT ![c] = Len(bcast) + 1]
    BY <1>4 DEF SubscribeWriter
  <2>2. \A p \in DOMAIN out[d] : out[d][p] \in Nat
    BY <1>1
  <2>3. CASE d = c
    <3>1. cursor'[d] = Len(bcast) + 1
      BY <2>1, <2>3 DEF OutInv, TypeInv, TypeOK, WireTypeOK
    <3> QED
      BY <1>1, <2>1, <2>2, <3>1
  <2>4. CASE d # c
    <3>1. cursor'[d] = cursor[d] /\ writer'[d] = writer[d]
      BY <2>1, <2>4 DEF OutInv, TypeInv, TypeOK, WireTypeOK
    <3> QED
      BY <1>1, <2>1, <3>1
  <2> QED
    BY <2>3, <2>4
<1>5. ASSUME NEW c \in Conns, WriterStep(c)
      PROVE  /\ cursor'[d] <= Len(bcast') + 1
             /\ writer'[d] = "running" => cursor'[d] >= 1
             /\ \A p \in DOMAIN out'[d] : out'[d][p] < cursor'[d]
  <2>1. PICK k \in Nat : cursor' = [cursor EXCEPT ![c] = k]
                         /\ cursor[c] <= k /\ k <= Len(bcast) + 1
    BY <1>5, WriterMoves
  <2>2. /\ bcast' = bcast /\ writer[c] = "running"
        /\ writer' \in {writer, [writer EXCEPT ![c] = "exited"]}
        /\ \/ out' = out
           \/ /\ cursor'[c] = cursor[c] + 1
              /\ out' = [out EXCEPT ![c] = Append(@, cursor[c])]
    BY <1>5, WriterMoves
  <2>3. CASE d = c
    <3>1. cursor'[d] = k
      BY <2>1, <2>3 DEF OutInv, TypeInv, TypeOK, WireTypeOK
    <3>2. CASE out' = out
      <4>1. \A p \in DOMAIN out[d] : out[d][p] \in Nat
        BY <1>1
      <4> QED
        BY <1>1, <2>1, <2>2, <2>3, <3>1, <3>2, <4>1
    <3>3. CASE /\ cursor'[c] = cursor[c] + 1
               /\ out' = [out EXCEPT ![c] = Append(@, cursor[c])]
      <4>1. out'[d] = Append(out[d], cursor[d])
        BY <2>3, <3>3 DEF OutInv, TypeInv, TypeOK, WireTypeOK
      <4>2. \A p \in DOMAIN out'[d] : out'[d][p] <= cursor[d]
        <5>1. DOMAIN out'[d] = 1 .. Len(out[d]) + 1 /\ DOMAIN out[d] = 1 .. Len(out[d])
          BY <1>1, <4>1
        <5>2. \A p \in DOMAIN out[d] : out'[d][p] = out[d][p] /\ out[d][p] \in Nat
          BY <1>1, <4>1
        <5>3. out'[d][Len(out[d]) + 1] = cursor[d]
          BY <1>1, <4>1
        <5>4. \A p \in DOMAIN out'[d] : p \in DOMAIN out[d] \/ p = Len(out[d]) + 1
          BY <1>1, <5>1
        <5> QED
          BY <1>1, <5>2, <5>3, <5>4
      <4>3. \A p \in DOMAIN out'[d] : out'[d][p] \in Nat
        BY <1>1, <4>1
      <4> QED
        BY <1>1, <2>1, <2>2, <2>3, <3>1, <3>3, <4>2, <4>3
    <3> QED
      BY <2>2, <3>2, <3>3
  <2>4. CASE d # c
    <3>1. cursor'[d] = cursor[d] /\ writer'[d] = writer[d] /\ out'[d] = out[d]
      BY <2>1, <2>2, <2>4 DEF OutInv, TypeInv, TypeOK, WireTypeOK
    <3> QED
      BY <1>1, <2>2, <3>1
  <2> QED
    BY <2>3, <2>4
<1> QED
  BY <1>2, <1>3, <1>4, <1>5, WireFrame

\* A step of the room puts messages on the lines to the peers, takes one off one
\* line, or leaves the lines alone.
LEMMA ToPeersStep == OutInv /\ OutInv' /\ [Next]_vars => [ToPeers!Next]_(ToPeers!vars)
<1> SUFFICES ASSUME OutInv, OutInv', [Next]_vars
             PROVE  [ToPeers!Next]_(ToPeers!vars)
  OBVIOUS
<1> DEFINE put == [c \in Conns |-> Len(bcast)]
<1>1. put' \in [Conns -> Nat] /\ DOMAIN out' = Conns
  BY DEF OutInv, TypeInv, TypeOK, WireTypeOK
<1>2. /\ out \in [Conns -> Seq(Nat)] /\ Len(bcast) \in Nat /\ Len(bcast') \in Nat
      /\ cursor \in [Conns -> Nat]
  BY DEF OutInv, TypeInv, TypeOK, WireTypeOK
<1>3. CASE UNCHANGED <<bcast, out>>
  BY <1>3 DEF ToPeers!vars
<1>4. CASE MainSend
  <2>1. out' = out /\ Len(bcast') = Len(bcast) + 1
    BY <1>4 DEF MainSend, OutInv, TypeInv, TypeOK, WireTypeOK
  <2>2. \A l \in Conns : ToPeers!Put(l)
    BY <1>2, <2>1 DEF ToPeers!Put
  <2> QED
    BY <1>1, <2>2 DEF ToPeers!Next
<1>5. ASSUME NEW c \in Conns, WriterStep(c)
      PROVE  [ToPeers!Next]_(ToPeers!vars)
  <2>1. CASE out' = out
    BY <1>3, <1>5, <2>1, WriterMoves
  <2>2. CASE /\ cursor[c] <= Len(bcast)
             /\ out' = [out EXCEPT ![c] = Append(@, cursor[c])]
    <3>1. bcast' = bcast /\ writer[c] = "running"
      BY <1>5, WriterMoves
    <3>2. cursor[c] \in 1 .. Len(bcast) /\ \A p \in DOMAIN out[c] : out[c][p] < cursor[c]
      BY <1>2, <2>2, <3>1 DEF OutInv
    <3>3. /\ out[c] \in Seq(Nat) /\ cursor[c] \in Nat
          /\ out'[c] = Append(out[c], cursor[c])
      BY <1>2, <2>2
    <3>4. ToPeers!Get(c)
      <4> DEFINE at == Len(out[c]) + 1
      <4>1. /\ at \in Nat /\ DOMAIN out'[c] = DOMAIN out[c] \cup {at}
            /\ \A p \in DOMAIN out[c] : p < at
        BY <3>3
      <4>2. out'[c][at] = cursor[c] /\ \A p \in DOMAIN out[c] : out'[c][p] = out[c][p]
        BY <3>3
      <4>3. put'[c] = put[c] /\ put[c] = Len(bcast)
        BY <3>1
      <4> HIDE DEF at
      <4> QED
        BY <3>2, <4>1, <4>2, <4>3 DEF ToPeers!Get
    <3>5. \A l \in Conns \ {c} : ToPeers!Put(l)
      <4> SUFFICES ASSUME NEW l \in Conns, l # c PROVE ToPeers!Put(l)
        OBVIOUS
      <4>1. out'[l] = out[l]
        BY <1>2, <2>2
      <4> QED
        BY <1>2, <3>1, <4>1 DEF ToPeers!Put
    <3> QED
      BY <1>1, <3>4, <3>5 DEF ToPeers!Next
  <2> QED
    BY <1>5, <2>1, <2>2, WriterMoves
<1>6. ASSUME NEW c \in Conns, SubscribeWriter(c) PROVE UNCHANGED <<bcast, out>>
  BY <1>6 DEF SubscribeWriter
<1> QED
  BY <1>3, <1>4, <1>5, <1>6, WireFrame DEF wireVars

\* The broadcast channel and the writer of each peer form a line that delivers
\* in order and without repetition, whatever the capacity of the channel, and
\* however often a writer lags, skips a message or times out.
THEOREM DeliveryToPeers == Spec => DeliversToPeers
<1>1. Init => ToPeers!Init
  <2> SUFFICES ASSUME Init PROVE ToPeers!Init
    OBVIOUS
  <2>1. bcast = <<>> /\ out = [c \in Conns |-> <<>>]
    BY DEF Init
  <2>2. Len(bcast) = 0
    BY <2>1
  <2> QED
    BY <2>1, <2>2 DEF ToPeers!Init
<1> QED
  BY <1>1, OutInit, OutStep, ToPeersStep, PTL DEF Spec, DeliversToPeers, ToPeers!Spec

-----------------------------------------------------------------------------
(* The room implements Delivery from its peers *)

\* The number n is one of f frames, and has left a reader in state r.
Left(n, f, r) == n \in 1 .. f /\ (r = "sending" => n < f)

\* The messages of a peer on their way: what is shown is older than what waits
\* in msg_tx, which is in order and older than what the reader holds.
InFlight ==
  /\ \A c \in Conns : reader[c] = "sending" => held[c].n = frames[c] /\ frames[c] >= 1
  /\ \A i \in DOMAIN msgQ : Left(msgQ[i].n, frames[msgQ[i].from], reader[msgQ[i].from])
  /\ \A i, j \in DOMAIN msgQ :
       i < j /\ msgQ[i].from = msgQ[j].from => msgQ[i].n < msgQ[j].n
  /\ \A i \in DOMAIN events :
       events[i].type = "Message" /\ events[i].who \in Conns =>
         /\ Left(events[i].n, frames[events[i].who], reader[events[i].who])
         /\ \A j \in DOMAIN msgQ : msgQ[j].from = events[i].who => events[i].n < msgQ[j].n

\* The inductive invariant of the lines from the peers.
FromInv == StreamInv /\ InFlight

\* Nothing is on its way when the room starts.
LEMMA FromInit == Init => FromInv
<1> SUFFICES ASSUME Init PROVE InFlight
  BY StreamInit DEF FromInv
<1>1. /\ reader = [c \in Conns |-> "none"] /\ msgQ = <<>>
      /\ DOMAIN events = {1} /\ events[1] = RoomReady
  BY DEF Init
<1> QED
  BY <1>1 DEF InFlight, RoomReady

\* The steps that move a message of a peer; any other leaves the readers and
\* their channel alone and shows at most something else.
LEMMA LineSteps ==
  ASSUME FromInv, [Next]_vars
  PROVE  \/ /\ UNCHANGED <<reader, held, frames, msgQ>>
            /\ \/ UNCHANGED events
               \/ \E e \in Event : TryEmit(e) /\ ~(e.type = "Message" /\ e.who \in Conns)
         \/ MainMsg
         \/ \E c \in Conns : \/ GreetAndSpawnReader(c)
                             \/ \E k \in FrameKind : ReaderFrame(c, k)
                             \/ ReaderForward(c) \/ ReaderEnds(c) \/ ReaderAborted(c)
<1> USE DEF readVars, eventVars
<1>1. CASE UNCHANGED vars
  BY <1>1 DEF vars
<1>2. CASE \/ \E s \in Sends : SendBegin(s) \/ SendComplete(s)
           \/ Quit \/ DropSendTx \/ DropShutdownTx \/ Consume \/ DropStream
  BY <1>2 DEF SendBegin, SendComplete, Quit, DropSendTx, DropShutdownTx, Consume,
     DropStream, roomVars
<1>3. CASE MainSendClosed \/ MainReturn \/ AcceptShutdown \/ AcceptClosed
  BY <1>3 DEF MainSendClosed, MainReturn, AcceptShutdown, AcceptClosed
<1>4. CASE MainShutdown
  BY <1>4, EventTypes DEF MainShutdown, RoomClosed
<1>5. CASE MainSend
  <2>1. Head(sendQ) \in Sends
    BY <1>5 DEF MainSend, FromInv, StreamInv, TypeInv, TypeOK, HandleTypeOK
  <2>2. Head(sendQ) \in Nat /\ Hub \in Senders /\ Hub \notin Conns
    BY <2>1, ConstAssumption DEF ConstAssumption, Senders
  <2>3. /\ Message(Hub, Head(sendQ)) \in Event
        /\ Message(Hub, Head(sendQ)).who \notin Conns
    BY <2>2 DEF Message, Event
  <2> QED
    BY <1>5, <2>3 DEF MainSend
<1>6. ASSUME NEW c \in Conns, AcceptStream(c) \/ Handshake(c)
      PROVE  UNCHANGED <<reader, held, frames, msgQ, events>>
  BY <1>6 DEF AcceptStream, Handshake, ReadHandshake, CheckNonce, Reject, WriteAck,
     ReadName, HandshakeFails
<1>7. ASSUME NEW c \in Conns, Register(c) \/ SubscribeWriter(c) \/ StopServing(c)
                              \/ Deregister(c)
      PROVE  UNCHANGED <<reader, held, frames, msgQ, events>>
  BY <1>7 DEF Register, SubscribeWriter, StopServing, Deregister
<1>8. ASSUME NEW c \in Conns, EmitJoin(c) \/ EmitLeave(c)
      PROVE  /\ UNCHANGED <<reader, held, frames, msgQ>>
             /\ \E e \in Event : TryEmit(e) /\ ~(e.type = "Message" /\ e.who \in Conns)
  BY <1>8, EventTypes DEF EmitJoin, EmitLeave, PeerJoin, PeerLeave
<1>9. ASSUME NEW c \in Conns, WriterStep(c)
      PROVE  UNCHANGED <<reader, held, frames, msgQ, events>>
  BY <1>9 DEF WriterStep, WriterLagged, WriterWrites, WriterSkips, WriterTimesOut,
     WriterAborted
<1> QED
  BY <1>1, <1>2, <1>3, <1>4, <1>5, <1>6, <1>7, <1>8, <1>9 DEF Next, MainStep, Serve,
     Terminated

\* A number that has left its reader has left it for good.
LEMMA LeftStays ==
  ASSUME TypeInv, NEW c \in Conns,
         \/ GreetAndSpawnReader(c)
         \/ \E k \in FrameKind : ReaderFrame(c, k)
         \/ ReaderForward(c) \/ ReaderEnds(c) \/ ReaderAborted(c)
  PROVE  \A d \in Conns, n \in Nat :
           Left(n, frames[d], reader[d]) => Left(n, frames'[d], reader'[d])
<1> SUFFICES ASSUME NEW d \in Conns, NEW n \in Nat, Left(n, frames[d], reader[d])
             PROVE  Left(n, frames'[d], reader'[d])
  OBVIOUS
<1>1. /\ reader \in [Conns -> {"none", "reading", "sending", "done"}]
      /\ frames \in [Conns -> Nat]
  BY ConstAssumption DEF TypeInv, TypeOK, ReadTypeOK, ConstAssumption
<1>2. n \in 1 .. frames[d] /\ (reader[d] = "sending" => n < frames[d])
  BY DEF Left
<1>3. CASE GreetAndSpawnReader(c) \/ ReaderForward(c) \/ ReaderEnds(c) \/ ReaderAborted(c)
  <2>1. frames' = frames /\ (reader'[d] = "sending" => reader[d] = "sending")
    BY <1>1, <1>3 DEF GreetAndSpawnReader, ReaderForward, ReaderEnds, ReaderAborted
  <2> QED
    BY <1>2, <2>1 DEF Left
<1>4. CASE \E k \in FrameKind : ReaderFrame(c, k)
  <2>1. /\ frames' = [frames EXCEPT ![c] = @ + 1]
        /\ d # c => reader'[d] = reader[d]
    BY <1>1, <1>4 DEF ReaderFrame
  <2>2. CASE d = c
    BY <1>1, <1>2, <2>1, <2>2 DEF Left
  <2>3. CASE d # c
    BY <1>1, <1>2, <2>1, <2>3 DEF Left
  <2> QED
    BY <2>2, <2>3
<1> QED
  BY <1>3, <1>4

\* The steps of the readers keep the messages of each peer in order.
LEMMA ReadersInOrder ==
  ASSUME FromInv, NEW c \in Conns,
         \/ GreetAndSpawnReader(c)
         \/ \E k \in FrameKind : ReaderFrame(c, k)
         \/ ReaderForward(c) \/ ReaderEnds(c) \/ ReaderAborted(c)
  PROVE  InFlight'
<1>1. /\ reader \in [Conns -> {"none", "reading", "sending", "done"}]
      /\ frames \in [Conns -> Nat] /\ held \in [Conns -> WireMsg]
      /\ msgQ \in Seq(WireMsg) /\ events \in Seq(Event) /\ TypeInv
  BY ConstAssumption DEF FromInv, StreamInv, TypeInv, TypeOK, ReadTypeOK, EventTypeOK,
     ConstAssumption
<1>2. /\ \A d \in Conns : held[d].from = d
      /\ \A i \in DOMAIN msgQ : msgQ[i].from \in Conns /\ msgQ[i].n \in Nat
      /\ \A i \in DOMAIN events : events[i].n \in Nat
  <2>1. \A i \in DOMAIN msgQ : msgQ[i] \in WireMsg
    BY <1>1
  <2>2. \A i \in DOMAIN events : events[i] \in Event
    BY <1>1
  <2> QED
    BY <2>1, <2>2 DEF FromInv, StreamInv, PeersKnown, WireMsg, Event
<1>3. events' = events
  <2>1. CASE GreetAndSpawnReader(c) \/ ReaderForward(c) \/ ReaderEnds(c) \/ ReaderAborted(c)
    BY <2>1 DEF GreetAndSpawnReader, ReaderForward, ReaderEnds, ReaderAborted, eventVars
  <2>2. CASE \E k \in FrameKind : ReaderFrame(c, k)
    BY <2>2 DEF ReaderFrame, eventVars
  <2> QED
    BY <2>1, <2>2
<1>4. \A d \in Conns, n \in Nat :
        Left(n, frames[d], reader[d]) => Left(n, frames'[d], reader'[d])
  BY <1>1, LeftStays
<1>5. \A d \in Conns : reader'[d] = "sending" => held'[d].n = frames'[d] /\ frames'[d] >= 1
  <2> SUFFICES ASSUME NEW d \in Conns, reader'[d] = "sending"
               PROVE  held'[d].n = frames'[d] /\ frames'[d] >= 1
    OBVIOUS
  <2>1. CASE GreetAndSpawnReader(c) \/ ReaderForward(c) \/ ReaderEnds(c) \/ ReaderAborted(c)
    <3>1. UNCHANGED <<held, frames>> /\ reader[d] = "sending"
      BY <1>1, <2>1 DEF GreetAndSpawnReader, ReaderForward, ReaderEnds, ReaderAborted
    <3> QED
      BY <3>1 DEF FromInv, InFlight
  <2>2. ASSUME NEW k \in FrameKind, ReaderFrame(c, k)
        PROVE  held'[d].n = frames'[d] /\ frames'[d] >= 1
    <3>1. frames' = [frames EXCEPT ![c] = @ + 1]
      BY <2>2 DEF ReaderFrame
    <3>2. CASE d = c
      <4>1. k # "Malformed"
        BY <1>1, <2>2, <3>2 DEF ReaderFrame
      <4>2. held' = [held EXCEPT ![c] = [kind |-> k, from |-> c, n |-> frames[c] + 1]]
        BY <2>2, <4>1 DEF ReaderFrame
      <4>3. held'[d].n = frames[d] + 1
        BY <1>1, <3>2, <4>2
      <4>4. frames'[d] = frames[d] + 1 /\ frames[d] \in Nat
        BY <1>1, <3>1, <3>2
      <4> QED
        BY <4>3, <4>4
    <3>3. CASE d # c
      <4>1. reader'[d] = reader[d] /\ held'[d] = held[d] /\ frames'[d] = frames[d]
        BY <1>1, <2>2, <3>3 DEF ReaderFrame
      <4> QED
        BY <4>1 DEF FromInv, InFlight
    <3> QED
      BY <3>2, <3>3
  <2> QED
    BY <2>1, <2>2
<1>6. CASE msgQ' = msgQ
  BY <1>2, <1>3, <1>4, <1>5, <1>6 DEF FromInv, InFlight
<1>7. CASE reader[c] = "sending" /\ reader'[c] # "sending" /\ frames' = frames
           /\ msgQ' = Append(msgQ, held[c])
  <2> DEFINE last == Len(msgQ) + 1
  <2>1. /\ last \in Nat /\ DOMAIN msgQ = 1 .. Len(msgQ) /\ DOMAIN msgQ' = 1 .. last
        /\ msgQ'[last] = held[c] /\ \A i \in DOMAIN msgQ : msgQ'[i] = msgQ[i] /\ i < last
    BY <1>1, <1>7
  <2>2. \A i \in DOMAIN msgQ' : i \in DOMAIN msgQ \/ i = last
    BY <2>1
  <2>3. held[c].from = c /\ held[c].n = frames[c] /\ frames[c] \in 1 .. frames[c]
    BY <1>1, <1>2, <1>7 DEF FromInv, InFlight
  <2> HIDE DEF last
  <2>4. Left(frames[c], frames'[c], reader'[c])
    BY <1>7, <2>3 DEF Left
  <2>5. \A i \in DOMAIN msgQ' : Left(msgQ'[i].n, frames'[msgQ'[i].from], reader'[msgQ'[i].from])
    <3>1. \A i \in DOMAIN msgQ : Left(msgQ[i].n, frames'[msgQ[i].from], reader'[msgQ[i].from])
      BY <1>2, <1>4 DEF FromInv, InFlight
    <3> QED
      BY <2>1, <2>2, <2>3, <2>4, <3>1
  <2>6. \A i \in DOMAIN msgQ : msgQ[i].from = c => msgQ[i].n < frames[c]
    BY <1>7 DEF FromInv, InFlight, Left
  <2>7. ASSUME NEW i \in DOMAIN msgQ', NEW j \in DOMAIN msgQ', i < j,
               msgQ'[i].from = msgQ'[j].from
        PROVE  msgQ'[i].n < msgQ'[j].n
    <3>1. i \in DOMAIN msgQ
      <4>1. i \in 1 .. last /\ j \in 1 .. last
        BY <2>1
      <4>2. i # last
        BY <2>1, <2>7, <4>1
      <4> QED
        BY <2>2, <4>2
    <3>2. CASE j \in DOMAIN msgQ
      BY <2>1, <2>7, <3>1, <3>2 DEF FromInv, InFlight
    <3>3. CASE j = last
      BY <2>1, <2>3, <2>6, <2>7, <3>1, <3>3
    <3> QED
      BY <2>2, <3>2, <3>3
  <2>8. ASSUME NEW i \in DOMAIN events, events[i].type = "Message", events[i].who \in Conns
        PROVE  /\ Left(events[i].n, frames'[events[i].who], reader'[events[i].who])
               /\ \A j \in DOMAIN msgQ' :
                    msgQ'[j].from = events[i].who => events[i].n < msgQ'[j].n
    <3>1. /\ Left(events[i].n, frames[events[i].who], reader[events[i].who])
          /\ \A j \in DOMAIN msgQ : msgQ[j].from = events[i].who => events[i].n < msgQ[j].n
      BY <2>8 DEF FromInv, InFlight
    <3>2. events[i].who = c => events[i].n < frames[c]
      BY <1>7, <3>1 DEF Left
    <3>3. Left(events[i].n, frames'[events[i].who], reader'[events[i].who])
      <4>1. \A n \in Nat :
              Left(n, frames[events[i].who], reader[events[i].who])
              => Left(n, frames'[events[i].who], reader'[events[i].who])
        BY <1>3, <1>4, <2>8
      <4> QED
        BY <1>2, <3>1, <4>1
    <3> QED
      BY <2>1, <2>2, <2>3, <3>1, <3>2, <3>3
  <2> QED
    BY <1>3, <1>5, <2>5, <2>7, <2>8 DEF InFlight
<1>8. msgQ' = msgQ \/ (/\ reader[c] = "sending" /\ reader'[c] # "sending"
                       /\ frames' = frames /\ msgQ' = Append(msgQ, held[c]))
  <2>1. CASE ReaderForward(c)
    BY <1>1, <2>1 DEF ReaderForward
  <2>2. CASE GreetAndSpawnReader(c) \/ ReaderEnds(c) \/ ReaderAborted(c)
    BY <2>2 DEF GreetAndSpawnReader, ReaderEnds, ReaderAborted
  <2>3. CASE \E k \in FrameKind : ReaderFrame(c, k)
    BY <2>3 DEF ReaderFrame
  <2> QED
    BY <2>1, <2>2, <2>3
<1> QED
  BY <1>6, <1>7, <1>8

\* The main loop takes the oldest message of the channel, and shows it or not.
LEMMA MainInOrder ==
  ASSUME FromInv, MainMsg
  PROVE  /\ InFlight'
         /\ Len(events) \in Nat /\ DOMAIN events = 1 .. Len(events)
         /\ \A i \in DOMAIN events : i \in DOMAIN events' /\ events'[i] = events[i]
         /\ \A i \in DOMAIN events' : i \in DOMAIN events
               \/ /\ i = Len(events) + 1 /\ events'[i] = Message(msgQ[1].from, msgQ[1].n)
                  /\ DOMAIN events' = DOMAIN events \cup {i}
         /\ 1 \in DOMAIN msgQ
<1>1. /\ msgQ \in Seq(WireMsg) /\ events \in Seq(Event) /\ EventTypeOK
  BY DEF FromInv, StreamInv, TypeInv, TypeOK, ReadTypeOK, EventTypeOK
<1>2. /\ UNCHANGED <<reader, held, frames>> /\ msgQ # <<>> /\ msgQ' = Tail(msgQ)
      /\ events' = events \/ TryEmit(Message(Head(msgQ).from, Head(msgQ).n))
  BY DEF MainMsg, eventVars
<1>3. /\ 1 \in DOMAIN msgQ /\ Head(msgQ) = msgQ[1] /\ msgQ[1] \in WireMsg
      /\ \A j \in DOMAIN msgQ' : /\ j + 1 \in DOMAIN msgQ /\ 1 < j + 1
                                 /\ msgQ'[j] = msgQ[j + 1]
      /\ DOMAIN msgQ' \subseteq Nat
  BY <1>1, <1>2
<1>4. Len(events) \in Nat /\ DOMAIN events = 1 .. Len(events)
  BY <1>1
<1>5. Message(msgQ[1].from, msgQ[1].n) \in Event
  BY <1>3, EventTypes DEF WireMsg
<1>6. events' = events \/ events' = Append(events, Message(msgQ[1].from, msgQ[1].n))
  BY <1>2, <1>3 DEF TryEmit
<1> DEFINE e == Message(msgQ[1].from, msgQ[1].n)
<1>7. /\ \A i \in DOMAIN events : i \in DOMAIN events' /\ events'[i] = events[i]
      /\ \A i \in DOMAIN events' : i \in DOMAIN events
            \/ /\ i = Len(events) + 1 /\ events'[i] = e
               /\ DOMAIN events' = DOMAIN events \cup {i}
  <2>1. CASE events' = events
    BY <2>1
  <2>2. CASE events' = Append(events, e)
    <3>1. DOMAIN events' = 1 .. Len(events) + 1 /\ events'[Len(events) + 1] = e
      BY <1>1, <1>5, <2>2
    <3>2. \A i \in DOMAIN events : i \in DOMAIN events' /\ events'[i] = events[i]
      BY <1>1, <1>5, <2>2
    <3>3. DOMAIN events' = DOMAIN events \cup {Len(events) + 1}
      BY <1>4, <3>1
    <3> QED
      BY <3>1, <3>2, <3>3
  <2> QED
    BY <1>6, <2>1, <2>2
<1>8. e.type = "Message" /\ e.who = msgQ[1].from /\ e.n = msgQ[1].n
  BY DEF Message
<1> HIDE DEF e
<1>9. \A c \in Conns : reader'[c] = "sending" => held'[c].n = frames'[c] /\ frames'[c] >= 1
  BY <1>2 DEF FromInv, InFlight
<1>10. \A j \in DOMAIN msgQ' : Left(msgQ'[j].n, frames'[msgQ'[j].from], reader'[msgQ'[j].from])
  BY <1>2, <1>3 DEF FromInv, InFlight
<1>11. ASSUME NEW i \in DOMAIN msgQ', NEW j \in DOMAIN msgQ', i < j,
              msgQ'[i].from = msgQ'[j].from
       PROVE  msgQ'[i].n < msgQ'[j].n
  <2>1. i + 1 < j + 1
    BY <1>3, <1>11
  <2> QED
    BY <1>3, <1>11, <2>1 DEF FromInv, InFlight
<1>12. ASSUME NEW i \in DOMAIN events', events'[i].type = "Message", events'[i].who \in Conns
       PROVE  /\ Left(events'[i].n, frames'[events'[i].who], reader'[events'[i].who])
              /\ \A j \in DOMAIN msgQ' :
                   msgQ'[j].from = events'[i].who => events'[i].n < msgQ'[j].n
  <2>1. CASE i \in DOMAIN events
    BY <1>2, <1>3, <1>7, <1>12, <2>1 DEF FromInv, InFlight
  <2>2. CASE events'[i] = e
    <3>1. Left(e.n, frames[e.who], reader[e.who])
      BY <1>3, <1>8 DEF FromInv, InFlight
    <3>2. \A j \in DOMAIN msgQ' : msgQ'[j].from = e.who => e.n < msgQ'[j].n
      BY <1>3, <1>8 DEF FromInv, InFlight
    <3> QED
      BY <1>2, <2>2, <3>1, <3>2
  <2> QED
    BY <1>7, <2>1, <2>2
<1>13. InFlight'
  BY <1>9, <1>10, <1>11, <1>12 DEF InFlight
<1> QED
  BY <1>3, <1>4, <1>7, <1>13 DEF e

\* Whatever else is shown leaves the lines from the peers as they are.
LEMMA OthersInOrder ==
  ASSUME FromInv, UNCHANGED <<reader, held, frames, msgQ>>, NEW e \in Event, TryEmit(e),
         ~(e.type = "Message" /\ e.who \in Conns)
  PROVE  /\ InFlight'
         /\ \A i \in DOMAIN events : i \in DOMAIN events' /\ events'[i] = events[i]
         /\ \A i \in DOMAIN events' : i \in DOMAIN events \/ events'[i] = e
<1>1. /\ \A i \in DOMAIN events : i \in DOMAIN events' /\ events'[i] = events[i]
      /\ \A i \in DOMAIN events' : i \in DOMAIN events \/ events'[i] = e
  BY EmitShape DEF FromInv, StreamInv, TypeInv, TypeOK
<1>2. InFlight'
  BY <1>1 DEF FromInv, InFlight
<1> QED
  BY <1>1, <1>2

\* The invariant is inductive.
LEMMA FromStep == FromInv /\ [Next]_vars => FromInv'
<1> SUFFICES ASSUME FromInv, [Next]_vars PROVE InFlight'
  BY StreamStep DEF FromInv
<1>1. CASE UNCHANGED <<reader, held, frames, msgQ, events>>
  BY <1>1 DEF FromInv, InFlight
<1> QED
  BY <1>1, LineSteps, MainInOrder, OthersInOrder, ReadersInOrder

\* What is shown of c stays when nothing new of c is shown.
LEMMA ShownStays ==
  ASSUME NEW c \in Conns,
         \A i \in DOMAIN events : i \in DOMAIN events' /\ events'[i] = events[i],
         \A i \in DOMAIN events' : i \in DOMAIN events
                                   \/ ~(events'[i].type = "Message" /\ events'[i].who = c)
  PROVE  Shown(c)' = Shown(c)
<1>1. ShownAt(c)' = ShownAt(c)
  BY DEF ShownAt
<1>2. \A i \in ShownAt(c) : events'[i].n = events[i].n
  BY DEF ShownAt
<1> QED
  BY <1>1, <1>2 DEF Shown

\* A step of the room puts frames on the lines from the peers, shows one message
\* of one peer, or leaves the lines alone.
LEMMA FromPeersStep == FromInv /\ FromInv' /\ [Next]_vars => [FromPeers!Next]_(FromPeers!vars)
<1> SUFFICES ASSUME FromInv, FromInv', [Next]_vars
             PROVE  [FromPeers!Next]_(FromPeers!vars)
  OBVIOUS
<1> DEFINE got == [c \in Conns |-> Shown(c)]
<1>1. /\ frames \in [Conns -> Nat] /\ frames' \in [Conns -> Nat]
      /\ DOMAIN got' = Conns
      /\ \A c \in Conns : got[c] = Shown(c) /\ got'[c] = Shown(c)'
      /\ \A c \in Conns : DOMAIN Shown(c) = ShownAt(c) /\ DOMAIN Shown(c)' = ShownAt(c)'
  BY ConstAssumption DEF FromInv, StreamInv, TypeInv, TypeOK, ReadTypeOK, ConstAssumption,
     Shown
<1>2. ASSUME \A c \in Conns : Shown(c)' = Shown(c) /\ frames'[c] >= frames[c]
      PROVE  FromPeers!Next
  BY <1>1, <1>2 DEF FromPeers!Next, FromPeers!Put
<1>3. CASE UNCHANGED <<frames, events>>
  BY <1>3 DEF FromPeers!vars, Shown, ShownAt
<1>4. ASSUME UNCHANGED <<reader, held, frames, msgQ>>, NEW e \in Event, TryEmit(e),
             ~(e.type = "Message" /\ e.who \in Conns)
      PROVE  FromPeers!Next
  <2>1. ASSUME NEW c \in Conns PROVE Shown(c)' = Shown(c)
    BY <1>4, OthersInOrder, ShownStays
  <2>2. \A c \in Conns : frames'[c] >= frames[c]
    BY <1>1, <1>4
  <2> QED
    BY <1>2, <2>1, <2>2
<1>5. ASSUME NEW c \in Conns,
             \/ GreetAndSpawnReader(c)
             \/ \E k \in FrameKind : ReaderFrame(c, k)
             \/ ReaderForward(c) \/ ReaderEnds(c) \/ ReaderAborted(c)
      PROVE  FromPeers!Next
  <2>1. events' = events /\ \A d \in Conns : frames'[d] >= frames[d]
    <3>1. CASE GreetAndSpawnReader(c) \/ ReaderForward(c) \/ ReaderEnds(c) \/ ReaderAborted(c)
      BY <1>1, <3>1 DEF GreetAndSpawnReader, ReaderForward, ReaderEnds, ReaderAborted,
         eventVars
    <3>2. CASE \E k \in FrameKind : ReaderFrame(c, k)
      <4>1. events' = events /\ frames' = [frames EXCEPT ![c] = @ + 1]
        BY <3>2 DEF ReaderFrame, eventVars
      <4> QED
        BY <1>1, <4>1
    <3> QED
      BY <1>5, <3>1, <3>2
  <2>2. \A d \in Conns : Shown(d)' = Shown(d)
    BY <2>1, ShownStays
  <2> QED
    BY <1>2, <2>1, <2>2
<1>6. CASE MainMsg
  <2>1. /\ Len(events) \in Nat /\ DOMAIN events = 1 .. Len(events) /\ 1 \in DOMAIN msgQ
        /\ \A i \in DOMAIN events : i \in DOMAIN events' /\ events'[i] = events[i]
        /\ \A i \in DOMAIN events' : i \in DOMAIN events
              \/ /\ i = Len(events) + 1 /\ events'[i] = Message(msgQ[1].from, msgQ[1].n)
                 /\ DOMAIN events' = DOMAIN events \cup {i}
    BY <1>6, MainInOrder
  <2>2. frames' = frames
    BY <1>6 DEF MainMsg
  <2>3. msgQ[1].from \in Conns /\ msgQ[1].n \in 1 .. frames[msgQ[1].from]
    BY <2>1 DEF FromInv, StreamInv, PeersKnown, InFlight, Left
  <2>4. CASE DOMAIN events' = DOMAIN events
    <3>1. \A c \in Conns : Shown(c)' = Shown(c)
      BY <2>1, <2>4, ShownStays
    <3>2. \A c \in Conns : frames'[c] >= frames[c]
      BY <1>1, <2>2
    <3> QED
      BY <1>2, <3>1, <3>2
  <2>5. CASE DOMAIN events' # DOMAIN events
    <3>1. PICK c \in Conns : c = msgQ[1].from
      BY <2>3
    <3>2. PICK n \in 1 .. frames[c] : n = msgQ[1].n
      BY <2>3, <3>1
    <3>3. PICK at \in Nat : at = Len(events) + 1
      BY <2>1
    <3>4. /\ at \in DOMAIN events' /\ DOMAIN events' = DOMAIN events \cup {at}
          /\ events'[at] = Message(c, n)
      BY <2>1, <2>5, <3>1, <3>2, <3>3
    <3>5. events'[at].type = "Message" /\ events'[at].who = c /\ events'[at].n = n
      BY <3>4 DEF Message
    <3>6. at \notin DOMAIN events /\ \A p \in DOMAIN events : p < at
      BY <2>1, <3>3
    <3>7. \A p \in ShownAt(c) : p \in DOMAIN events /\ p < at /\ events[p].n < n
      BY <2>1, <3>1, <3>2, <3>6 DEF ShownAt, FromInv, InFlight
    <3>8. ShownAt(c)' = ShownAt(c) \cup {at}
      BY <2>1, <3>4, <3>5 DEF ShownAt
    <3>9. Shown(c)'[at] = n /\ \A p \in ShownAt(c) : Shown(c)'[p] = Shown(c)[p]
      BY <2>1, <3>5, <3>7, <3>8 DEF Shown
    <3>10. FromPeers!Get(c)
      <4>1. /\ frames'[c] = frames[c] /\ DOMAIN got[c] = ShownAt(c)
            /\ DOMAIN got'[c] = ShownAt(c) \cup {at}
            /\ got'[c][at] = n /\ \A p \in ShownAt(c) : got'[c][p] = got[c][p]
        BY <1>1, <2>2, <3>8, <3>9
      <4>2. \A p \in DOMAIN got[c] : p < at /\ got[c][p] < n
        BY <1>1, <3>7, <4>1 DEF Shown
      <4> HIDE DEF got
      <4> QED
        BY <4>1, <4>2 DEF FromPeers!Get, got
    <3>11. \A d \in Conns \ {c} : FromPeers!Put(d)
      <4> SUFFICES ASSUME NEW d \in Conns, d # c PROVE FromPeers!Put(d)
        OBVIOUS
      <4>1. Shown(d)' = Shown(d)
        BY <2>1, <3>4, <3>5, ShownStays
      <4>2. frames'[d] >= frames[d]
        BY <1>1, <2>2
      <4> QED
        BY <1>1, <4>1, <4>2 DEF FromPeers!Put
    <3> QED
      BY <1>1, <3>10, <3>11 DEF FromPeers!Next
  <2> QED
    BY <2>4, <2>5
<1> QED
  BY <1>3, <1>4, <1>5, <1>6, LineSteps

\* The reader of each peer, msg_tx, the main loop and the event channel form a
\* line that shows a peer's messages in order and each at most once, for any
\* number of peers and any capacities, whatever is dropped on the way.
THEOREM DeliveryFromPeers == Spec => DeliversFromPeers
<1>1. Init => FromPeers!Init
  <2> SUFFICES ASSUME Init PROVE FromPeers!Init
    OBVIOUS
  <2>1. frames = [c \in Conns |-> 0] /\ DOMAIN events = {1} /\ events[1] = RoomReady
    BY DEF Init
  <2>2. \A c \in Conns : ShownAt(c) = {}
    BY <2>1 DEF ShownAt, RoomReady
  <2>3. \A c \in Conns : Shown(c) \in [{} -> Nat]
    BY <2>2 DEF Shown
  <2> QED
    BY <2>1, <2>3 DEF FromPeers!Init
<1> QED
  BY <1>1, FromInit, FromStep, FromPeersStep, PTL DEF Spec, DeliversFromPeers, FromPeers!Spec

-----------------------------------------------------------------------------
(* The room implements Admission *)

GuestInv ==
  /\ AdmissionInv
  /\ \A c \in Conns : c \in peers <=> conn[c] \in Registered

\* What one step of a handler does: it tests a nonce, enters or leaves the
\* registry, or moves between two states on the same side of it.
LEMMA GuestMoves ==
  ASSUME GuestInv, NEW c \in Conns, AcceptStream(c) \/ Handshake(c) \/ Serve(c)
  PROVE  \/ /\ conn[c] = "nonce" /\ nonce[c] \notin used
            /\ conn' = [conn EXCEPT ![c] = "ack"] /\ peers' = peers /\ nonce' = nonce
            /\ used' = used \cup {nonce[c]} /\ accepted' = accepted \cup {c}
         \/ /\ conn[c] = "register"
            /\ conn' = [conn EXCEPT ![c] = "join"] /\ peers' = peers \cup {c}
            /\ UNCHANGED <<nonce, used, accepted>>
         \/ /\ conn[c] = "deregister"
            /\ conn' = [conn EXCEPT ![c] = "leave"] /\ peers' = peers \ {c}
            /\ UNCHANGED <<nonce, used, accepted>>
         \/ \E s \in ConnState :
              /\ conn' = [conn EXCEPT ![c] = s]
              /\ s \in Registered <=> conn[c] \in Registered
              /\ s \in {"leave", "closed"} <=> conn[c] \in {"leave", "closed"}
              /\ UNCHANGED <<used, accepted, peers>>
              /\ \/ nonce' = nonce
                 \/ conn[c] = "handshake" /\ \E n \in Nonces : nonce' = [nonce EXCEPT ![c] = n]
<1> USE DEF Goto, admitVars, Registered, ConnState
<1>1. CASE AcceptStream(c)
  BY <1>1 DEF AcceptStream
<1>2. CASE ReadHandshake(c)
  BY <1>2 DEF ReadHandshake
<1>3. CASE CheckNonce(c)
  BY <1>3 DEF CheckNonce
<1>4. CASE Reject(c)
  BY <1>4 DEF Reject
<1>5. CASE WriteAck(c) \/ ReadName(c)
  BY <1>5 DEF WriteAck, ReadName
<1>6. CASE HandshakeFails(c)
  BY <1>6 DEF HandshakeFails
<1>7. CASE Register(c)
  BY <1>7 DEF Register
<1>8. CASE EmitJoin(c)
  BY <1>8 DEF EmitJoin
<1>9. CASE GreetAndSpawnReader(c)
  BY <1>9 DEF GreetAndSpawnReader
<1>10. CASE SubscribeWriter(c)
  BY <1>10 DEF SubscribeWriter
<1>11. CASE StopServing(c)
  BY <1>11 DEF StopServing
<1>12. CASE Deregister(c)
  BY <1>12 DEF Deregister
<1>13. CASE EmitLeave(c)
  BY <1>13 DEF EmitLeave
<1> QED
  BY <1>1, <1>2, <1>3, <1>4, <1>5, <1>6, <1>7, <1>8, <1>9, <1>10, <1>11, <1>12,
     <1>13 DEF Handshake, Serve

\* The registry is empty when the room starts.
LEMMA GuestInit == Init => GuestInv
BY AdmissionInit DEF Init, GuestInv, Registered

\* The invariant is inductive.
LEMMA GuestStep == GuestInv /\ [Next]_vars => GuestInv'
<1> SUFFICES ASSUME GuestInv, [Next]_vars
             PROVE  \A d \in Conns : d \in peers' <=> conn'[d] \in Registered
  BY AdmissionStep DEF GuestInv
<1> USE DEF Registered
<1>1. conn \in [Conns -> ConnState] /\ \A d \in Conns : d \in peers <=> conn[d] \in Registered
  BY DEF GuestInv, AdmissionInv, TypeInv, TypeOK, TaskTypeOK
<1>2. CASE UNCHANGED <<conn, nonce, used, accepted, peers>>
  BY <1>1, <1>2
<1>3. ASSUME NEW c \in Conns, AcceptStream(c) \/ Handshake(c) \/ Serve(c)
      PROVE  \A d \in Conns : d \in peers' <=> conn'[d] \in Registered
  BY <1>1, <1>3, GuestMoves
<1> QED
  BY <1>2, <1>3, GuestFrame

\* The owner of a nonce is the one accepted stream that presented it.
OwnerInv ==
  /\ \A n \in Nonces : Owner[n] # NoConn <=> \E c \in accepted : nonce[c] = n
  /\ \A c \in accepted : nonce[c] \in Nonces /\ Owner[nonce[c]] = c
  /\ \A n \in Nonces, c \in Conns : Owner[n] = c <=> c \in accepted /\ nonce[c] = n

\* It is, because no two streams are accepted on one nonce.
LEMMA OwnerIs == AdmissionInv => OwnerInv
<1> SUFFICES ASSUME AdmissionInv PROVE OwnerInv
  OBVIOUS
<1>1. /\ accepted \subseteq Conns /\ NoConn \notin Conns
      /\ \A c, d \in accepted : nonce[c] = nonce[d] => c = d
      /\ \A c \in accepted : nonce[c] \in Nonces
  BY ConstAssumption DEF AdmissionInv, NonceSingleUse, TypeInv, TypeOK, AdmitTypeOK,
     ConstAssumption
<1>2. ASSUME NEW c \in accepted PROVE Owner[nonce[c]] = c
  <2> DEFINE o == CHOOSE d \in accepted : nonce[d] = nonce[c]
  <2>1. o \in accepted /\ nonce[o] = nonce[c]
    OBVIOUS
  <2>2. o = c
    BY <1>1, <2>1
  <2>3. Owner[nonce[c]] = o
    BY <1>1 DEF Owner
  <2> QED
    BY <2>2, <2>3
<1>3. ASSUME NEW n \in Nonces, ~\E c \in accepted : nonce[c] = n PROVE Owner[n] = NoConn
  BY <1>3 DEF Owner
<1>4. \A n \in Nonces : Owner[n] # NoConn <=> \E c \in accepted : nonce[c] = n
  BY <1>1, <1>2, <1>3
<1>5. ASSUME NEW n \in Nonces, NEW c \in Conns, Owner[n] = c
      PROVE  c \in accepted /\ nonce[c] = n
  BY <1>1, <1>2, <1>4, <1>5
<1> QED
  BY <1>1, <1>2, <1>4, <1>5 DEF OwnerInv

\* While the accepted streams and their nonces stay, so do the owners.
LEMMA OwnerStays ==
  ASSUME AdmissionInv, AdmissionInv', accepted' = accepted,
         \A c \in accepted : nonce'[c] = nonce[c]
  PROVE  Owner' = Owner
<1>0. OwnerInv /\ OwnerInv'
  BY OwnerIs, PTL
<1>1. ASSUME NEW n \in Nonces PROVE Owner'[n] = Owner[n]
  <2>1. CASE \E c \in accepted : nonce[c] = n
    <3>1. PICK c \in accepted : nonce[c] = n
      BY <2>1
    <3>2. Owner[n] = c
      BY <1>0, <3>1 DEF OwnerInv
    <3>3. c \in accepted' /\ nonce'[c] = n
      BY <3>1
    <3>4. Owner'[n] = c
      BY <1>0, <3>3 DEF OwnerInv
    <3> QED
      BY <3>2, <3>4
  <2>2. CASE ~\E c \in accepted : nonce[c] = n
    BY <2>2 DEF Owner
  <2> QED
    BY <2>1, <2>2
<1> QED
  BY <1>1 DEF Owner

\* Every step of the room admits, lets in or lets out one stream, or changes
\* nothing that Admission can see.
LEMMA GuestsStep == GuestInv /\ GuestInv' /\ [Next]_vars => [Guests!Next]_(Guests!vars)
<1> SUFFICES ASSUME GuestInv, GuestInv', [Next]_vars
             PROVE  [Guests!Next]_(Guests!vars)
  OBVIOUS
<1>0. AdmissionInv /\ AdmissionInv' /\ OwnerInv /\ OwnerInv'
  BY OwnerIs, PTL DEF GuestInv
<1>1. /\ conn \in [Conns -> ConnState] /\ accepted \subseteq Conns
      /\ nonce \in [Conns -> Nonces \cup {NoNonce}] /\ peers \subseteq Conns
      /\ \A d \in Conns : d \in peers <=> conn[d] \in Registered
      /\ \A d \in accepted : nonce[d] \in used /\ conn[d] \notin Unaccepted
      /\ \A d \in Conns : conn[d] \in AcceptedStates => d \in accepted
      /\ NoConn \notin Conns
  BY ConstAssumption DEF GuestInv, AdmissionInv, TypeInv, TypeOK, TaskTypeOK, AdmitTypeOK,
     ConstAssumption
<1>2. CASE UNCHANGED <<conn, nonce, used, accepted, peers>>
  <2>1. Owner' = Owner
    BY <1>0, <1>2, OwnerStays
  <2>2. Place' = Place
    BY <1>2 DEF Place
  <2> QED
    BY <2>1, <2>2 DEF Guests!vars
<1>3. ASSUME NEW c \in Conns,
             conn[c] = "nonce", nonce[c] \notin used,
             conn' = [conn EXCEPT ![c] = "ack"], peers' = peers, nonce' = nonce,
             accepted' = accepted \cup {c}
      PROVE  Guests!Next
  <2>1. c \notin accepted /\ c \notin peers /\ nonce[c] \in Nonces
    <3>1. c \in accepted'
      BY <1>3
    <3>2. nonce'[c] \in Nonces
      BY <1>0, <3>1 DEF OwnerInv
    <3> QED
      BY <1>1, <1>3, <3>2 DEF Unaccepted, Registered
  <2>2. Owner[nonce[c]] = NoConn
    BY <1>0, <1>1, <1>3, <2>1 DEF OwnerInv
  <2>3. ~Guests!HasInvite(c)
    BY <1>0, <2>1 DEF Guests!HasInvite, OwnerInv
  <2>4. Owner' = [Owner EXCEPT ![nonce[c]] = c]
    <3>1. ASSUME NEW n \in Nonces
          PROVE  Owner'[n] = IF n = nonce[c] THEN c ELSE Owner[n]
      <4>1. CASE n = nonce[c]
        <5>1. c \in accepted' /\ nonce'[c] = n
          BY <1>3, <4>1
        <5> QED
          BY <1>0, <4>1, <5>1 DEF OwnerInv
      <4>2. CASE n # nonce[c] /\ Owner[n] # NoConn
        <5>1. PICK d \in accepted : nonce[d] = n
          BY <1>0, <4>2 DEF OwnerInv
        <5>2. d \in accepted' /\ nonce'[d] = n
          BY <1>3, <5>1
        <5>3. Owner[n] = d /\ Owner'[n] = d
          BY <1>0, <5>1, <5>2 DEF OwnerInv
        <5> QED
          BY <4>2, <5>3
      <4>3. CASE n # nonce[c] /\ Owner[n] = NoConn
        <5>1. ~\E d \in accepted' : nonce'[d] = n
          BY <1>0, <1>3, <4>3 DEF OwnerInv
        <5>2. Owner'[n] = NoConn
          BY <1>0, <5>1 DEF OwnerInv
        <5> QED
          BY <4>3, <5>2
      <4> QED
        BY <4>1, <4>2, <4>3
    <3> QED
      BY <2>1, <3>1 DEF Owner
  <2>5. Place[c] = "outside" /\ Place' = Place
    BY <1>1, <1>3, <2>1 DEF Place
  <2>6. Guests!Admit(nonce[c], c)
    BY <2>2, <2>3, <2>4, <2>5 DEF Guests!Admit
  <2> QED
    BY <2>1, <2>6 DEF Guests!Next
<1>4. ASSUME NEW c \in Conns, conn[c] = "register",
             conn' = [conn EXCEPT ![c] = "join"], peers' = peers \cup {c},
             UNCHANGED <<nonce, used, accepted>>
      PROVE  Guests!Next
  <2>1. c \in accepted /\ c \notin peers
    BY <1>1, <1>4 DEF AcceptedStates, Admitted, Registered
  <2>2. Guests!HasInvite(c)
    BY <1>0, <2>1 DEF Guests!HasInvite, OwnerInv
  <2>3. Owner' = Owner
    BY <1>0, <1>4, OwnerStays
  <2>4. Place[c] = "outside" /\ Place' = [Place EXCEPT ![c] = "inside"]
    BY <1>1, <1>4, <2>1 DEF Place
  <2> QED
    BY <2>2, <2>3, <2>4 DEF Guests!Next, Guests!Enter
<1>5. ASSUME NEW c \in Conns, conn[c] = "deregister",
             conn' = [conn EXCEPT ![c] = "leave"], peers' = peers \ {c},
             UNCHANGED <<nonce, used, accepted>>
      PROVE  Guests!Next
  <2>1. c \in peers
    BY <1>1, <1>5 DEF Registered
  <2>2. Owner' = Owner
    BY <1>0, <1>5, OwnerStays
  <2>3. Place[c] = "inside" /\ Place' = [Place EXCEPT ![c] = "left"]
    BY <1>1, <1>5, <2>1 DEF Place
  <2> QED
    BY <2>2, <2>3 DEF Guests!Next, Guests!Leave
<1>6. ASSUME NEW c \in Conns, NEW s \in ConnState,
             conn' = [conn EXCEPT ![c] = s],
             s \in {"leave", "closed"} <=> conn[c] \in {"leave", "closed"},
             UNCHANGED <<used, accepted, peers>>,
             \/ nonce' = nonce
             \/ conn[c] = "handshake" /\ \E n \in Nonces : nonce' = [nonce EXCEPT ![c] = n]
      PROVE  UNCHANGED Guests!vars
  <2>1. \A d \in accepted : nonce'[d] = nonce[d]
    BY <1>1, <1>6 DEF Unaccepted
  <2>2. Owner' = Owner
    BY <1>0, <1>6, <2>1, OwnerStays
  <2>3. Place' = Place
    BY <1>1, <1>6 DEF Place
  <2> QED
    BY <2>2, <2>3 DEF Guests!vars
<1>7. ASSUME NEW c \in Conns, AcceptStream(c) \/ Handshake(c) \/ Serve(c)
      PROVE  [Guests!Next]_(Guests!vars)
  BY <1>3, <1>4, <1>5, <1>6, <1>7, GuestMoves
<1> QED
  BY <1>2, <1>7, GuestFrame

\* The handshake, the used nonces and the registry admit by invite, for any
\* number of streams that present any invites at the same time: an invite gets
\* one stream in, once, and who has left stays out.
THEOREM AdmissionByInvite == Spec => AdmitsByInvite
<1>1. Init => Guests!Init
  BY DEF Init, Guests!Init, Owner, Place
<1> QED
  BY <1>1, GuestInit, GuestStep, GuestsStep, PTL DEF Spec, AdmitsByInvite, Guests!Spec
=============================================================================
