----------------------------- MODULE HubProofs -----------------------------
(***************************************************************************)
(* Theorems about the legacy Hub for any number of streams, nonces and     *)
(* frames and any channel capacity.                                        *)
(***************************************************************************)
EXTENDS Hub, SequenceTheorems, TLAPS

USE DEF callVars, admitVars, readVars, wireVars

-----------------------------------------------------------------------------
(* Type correctness *)

\* A handshake that is about to test its nonce has read one: what makes TypeOK
\* inductive.
NonceRead == \A c \in Conns : conn[c] = "nonce" => nonce[c] \in Nonces

TypeInv == TypeOK /\ NonceRead

\* Every event of the broadcast channel is well-typed.
LEMMA EventTypes ==
  /\ \A c \in Conns : PeerJoin(c) \in Event /\ PeerLeave(c) \in Event
  /\ \A p \in Conns \cup {HubId}, n \in Nat : Message(p, n) \in Event
BY DEF Event, PeerJoin, PeerLeave, Message

\* The Hub that Hub::new returns is well-typed.
LEMMA TypeInit == Init => TypeInv
<1> SUFFICES ASSUME Init PROVE TypeInv
  OBVIOUS
<1>1. CallTypeOK
  <2>1. running \in BOOLEAN /\ open \in BOOLEAN /\ run = "idle"
    BY DEF Init
  <2>2. texts \in 0 .. MaxTexts
    BY HubAssumption DEF Init, HubAssumption
  <2> QED
    BY <2>1, <2>2 DEF CallTypeOK
<1>2. ConnTypeOK /\ NonceRead
  BY DEF Init, ConnTypeOK, NonceRead, ConnState
<1>3. ReadTypeOK
  BY HubAssumption DEF Init, ReadTypeOK, HubAssumption
<1>4. WireTypeOK
  BY DEF Init, WireTypeOK
<1> QED
  BY <1>1, <1>2, <1>3, <1>4 DEF TypeInv, TypeOK

\* Each part of the state keeps its type in a step that leaves it alone.
LEMMA Frame ==
  ASSUME TypeOK
  PROVE  /\ UNCHANGED callVars => CallTypeOK'
         /\ UNCHANGED <<conn, admitVars, peers>> => ConnTypeOK'
         /\ UNCHANGED <<readVars, msgQ>> => ReadTypeOK'
         /\ UNCHANGED <<direct, wireVars>> => WireTypeOK'
<1>1. UNCHANGED callVars => CallTypeOK'
  BY DEF TypeOK, CallTypeOK
<1>2. UNCHANGED <<conn, admitVars, peers>> => ConnTypeOK'
  BY DEF TypeOK, ConnTypeOK
<1>3. UNCHANGED <<readVars, msgQ>> => ReadTypeOK'
  BY DEF TypeOK, ReadTypeOK
<1>4. UNCHANGED <<direct, wireVars>> => WireTypeOK'
  BY DEF TypeOK, WireTypeOK
<1> QED
  BY <1>1, <1>2, <1>3, <1>4

\* An entry for next_event that had room leaves the channel within its capacity.
LEMMA QueueType ==
  ASSUME TypeOK, NEW p \in Conns \cup {HubId}, Len(msgQ) < MsgCap, msgQ' = Append(msgQ, p)
  PROVE  msgQ' \in Seq(Conns \cup {HubId}) /\ Len(msgQ') <= MsgCap
<1>1. msgQ' \in Seq(Conns \cup {HubId}) /\ Len(msgQ') = Len(msgQ) + 1
  BY DEF TypeOK, ReadTypeOK
<1> QED
  BY <1>1, HubAssumption DEF HubAssumption, TypeOK, ReadTypeOK

\* An event put on the broadcast channel keeps it well-typed.
LEMMA CastType ==
  ASSUME TypeOK, NEW e \in Event, bcast' = Append(bcast, e),
         UNCHANGED <<direct, cursor, out>>
  PROVE  WireTypeOK'
<1>1. bcast' \in Seq(Event)
  BY DEF TypeOK, WireTypeOK
<1> QED
  BY <1>1 DEF TypeOK, WireTypeOK

\* The steps of the caller keep the types.
LEMMA TypeCaller ==
  ASSUME TypeOK,
         \/ Run \/ RunReturns \/ RunDropped \/ NextEvent \/ Shutdown
         \/ BroadcastHub \/ BroadcastPing
         \/ \E c \in Conns : AcceptNext(c)
  PROVE  TypeOK'
<1>1. CASE Run \/ RunReturns \/ RunDropped
  <2>1. CallTypeOK'
    BY <1>1 DEF Run, RunReturns, RunDropped, TypeOK, CallTypeOK
  <2> QED
    BY <1>1, <2>1, Frame DEF Run, RunReturns, RunDropped, TypeOK
<1>2. CASE Shutdown
  <2>1. CallTypeOK'
    BY <1>2 DEF Shutdown, TypeOK, CallTypeOK
  <2> QED
    BY <1>2, <2>1, Frame DEF Shutdown, TypeOK
<1>3. CASE NextEvent
  <2>1. Tail(msgQ) \in Seq(Conns \cup {HubId}) /\ Len(Tail(msgQ)) <= MsgCap
    BY <1>3, HubAssumption DEF NextEvent, TypeOK, ReadTypeOK, HubAssumption
  <2>2. ReadTypeOK'
    BY <1>3, <2>1 DEF NextEvent, TypeOK, ReadTypeOK
  <2> QED
    BY <1>3, <2>2, Frame DEF NextEvent, TypeOK
<1>4. ToAll => direct' \in [Conns -> Nat]
  BY DEF ToAll, TypeOK, WireTypeOK
<1>5. texts < MaxTexts /\ texts' = texts + 1 => texts' \in 0 .. MaxTexts
  BY HubAssumption DEF HubAssumption, TypeOK, CallTypeOK
<1>6. CASE BroadcastHub
  <2>1. CallTypeOK'
    BY <1>5, <1>6 DEF BroadcastHub, TypeOK, CallTypeOK
  <2>2. Message(HubId, texts + 1) \in Event
    BY EventTypes DEF TypeOK, CallTypeOK
  <2>3. bcast' \in Seq(Event)
    BY <1>6, <2>2 DEF BroadcastHub, TypeOK, WireTypeOK
  <2>4. WireTypeOK'
    BY <1>4, <1>6, <2>3 DEF BroadcastHub, TypeOK, WireTypeOK
  <2> QED
    BY <1>6, <2>1, <2>4, Frame DEF BroadcastHub, TypeOK
<1>7. CASE BroadcastPing
  <2>1. CallTypeOK'
    BY <1>5, <1>7 DEF BroadcastPing, TypeOK, CallTypeOK
  <2>2. WireTypeOK'
    BY <1>4, <1>7 DEF BroadcastPing, TypeOK, WireTypeOK
  <2> QED
    BY <1>7, <2>1, <2>2, Frame DEF BroadcastPing, TypeOK
<1>8. ASSUME NEW c \in Conns, AcceptNext(c) PROVE TypeOK'
  <2>1. ConnTypeOK'
    BY <1>8 DEF AcceptNext, TypeOK, ConnTypeOK, ConnState
  <2> QED
    BY <1>8, <2>1, Frame DEF AcceptNext, TypeOK
<1> QED
  BY <1>1, <1>2, <1>3, <1>6, <1>7, <1>8

\* writer_task writes the event at its cursor or fails to.
LEMMA WriteEventShape ==
  ASSUME TypeOK, NEW c \in Conns, WriteEvent(c)
  PROVE  \/ out' = out
         \/ out' = [out EXCEPT ![c] = Append(@, cursor[c])]
<1>1. out \in [Conns -> Seq(Nat)] /\ cursor[c] \in Nat
  BY DEF TypeOK, WireTypeOK
<1>2. PICK f \in {<<>>, <<cursor[c]>>} : out' = [out EXCEPT ![c] = @ \o f]
  BY DEF WriteEvent
<1>3. out[c] \in Seq(Nat)
  BY <1>1
<1>4. out[c] \o <<>> = out[c]
  BY <1>3, ConcatEmptySeq
<1>5. out[c] \o <<cursor[c]>> = Append(out[c], cursor[c])
  BY <1>1, <1>3, AppendIsConcat
<1>6. CASE f = <<>>
  BY <1>1, <1>2, <1>4, <1>6
<1>7. CASE f = <<cursor[c]>>
  BY <1>1, <1>2, <1>5, <1>7
<1> QED
  BY <1>6, <1>7

\* The steps of a connection keep the types.
LEMMA TypeConnection ==
  ASSUME TypeInv, NEW c \in Conns, Connection(c)
  PROVE  TypeOK'
<1> USE DEF TypeInv, Goto
<1>0. \A s \in ConnState : Goto(c, s) => conn' \in [Conns -> ConnState]
  BY DEF TypeOK, ConnTypeOK
<1>1. CASE ReadHello(c) \/ Reject(c) \/ WriteAck(c) \/ HandshakeFails(c)
  <2>1. ConnTypeOK'
    BY <1>1 DEF ReadHello, Reject, WriteAck, HandshakeFails, TypeOK, ConnTypeOK, ConnState
  <2> QED
    BY <1>1, <2>1, Frame DEF ReadHello, Reject, WriteAck, HandshakeFails, TypeOK
<1>2. CASE CheckNonce(c)
  <2>1. ConnTypeOK'
    BY <1>2 DEF CheckNonce, TypeOK, ConnTypeOK, ConnState, NonceRead
  <2> QED
    BY <1>2, <2>1, Frame DEF CheckNonce, TypeOK
<1>3. CASE Register(c) \/ Deregister(c)
  <2>1. ConnTypeOK'
    BY <1>3 DEF Register, Deregister, TypeOK, ConnTypeOK, ConnState
  <2> QED
    BY <1>3, <2>1, Frame DEF Register, Deregister, TypeOK
<1>4. CASE AnnounceJoin(c) \/ AnnounceLeave(c)
  <2>1. ConnTypeOK'
    BY <1>4 DEF AnnounceJoin, AnnounceLeave, TypeOK, ConnTypeOK, ConnState
  <2>2. WireTypeOK'
    BY <1>4, EventTypes, CastType DEF AnnounceJoin, AnnounceLeave
  <2> QED
    BY <1>4, <2>1, <2>2, Frame DEF AnnounceJoin, AnnounceLeave, TypeOK
<1>5. CASE SpawnReader(c)
  <2>1. ConnTypeOK'
    BY <1>5 DEF SpawnReader, TypeOK, ConnTypeOK, ConnState
  <2>2. ReadTypeOK'
    BY <1>5 DEF SpawnReader, TypeOK, ReadTypeOK
  <2> QED
    BY <1>5, <2>1, <2>2, Frame DEF SpawnReader, TypeOK
<1>6. CASE Subscribe(c)
  <2>1. ConnTypeOK'
    BY <1>6 DEF Subscribe, TypeOK, ConnTypeOK, ConnState
  <2>2. WireTypeOK'
    BY <1>6 DEF Subscribe, TypeOK, WireTypeOK
  <2> QED
    BY <1>6, <2>1, <2>2, Frame DEF Subscribe, TypeOK
<1>7. CASE WriteDirect(c)
  <2>1. WireTypeOK'
    BY <1>7 DEF WriteDirect, TypeOK, WireTypeOK
  <2> QED
    BY <1>7, <2>1, Frame DEF WriteDirect, TypeOK
<1>8. CASE WriteEvent(c)
  <2>1. out' \in [Conns -> Seq(Nat)]
    <3>1. out \in [Conns -> Seq(Nat)] /\ Append(out[c], cursor[c]) \in Seq(Nat)
      BY DEF TypeOK, WireTypeOK
    <3>2. out' = out \/ out' = [out EXCEPT ![c] = Append(@, cursor[c])]
      BY <1>8, WriteEventShape
    <3> QED
      BY <3>1, <3>2
  <2>2. WireTypeOK'
    BY <1>8, <2>1 DEF WriteEvent, TypeOK, WireTypeOK
  <2> QED
    BY <1>8, <2>2, Frame DEF WriteEvent, TypeOK
<1>9. CASE WriteLagged(c)
  <2>1. Len(bcast) - BcastCap + 1 \in Nat
    BY <1>9, HubAssumption DEF WriteLagged, Lags, TypeOK, WireTypeOK, HubAssumption
  <2>2. WireTypeOK'
    BY <1>9, <2>1 DEF WriteLagged, TypeOK, WireTypeOK
  <2> QED
    BY <1>9, <2>2, Frame DEF WriteLagged, TypeOK
<1>10. CASE WriteTimesOut(c)
  <2>1. ConnTypeOK'
    BY <1>10 DEF WriteTimesOut, TypeOK, ConnTypeOK, ConnState
  <2>2. WireTypeOK'
    BY <1>10 DEF WriteTimesOut, TypeOK, WireTypeOK
  <2> QED
    BY <1>10, <2>1, <2>2, Frame DEF WriteTimesOut, TypeOK
<1>11. CASE SystemLeft(c)
  <2>1. ConnTypeOK'
    BY <1>11 DEF SystemLeft, TypeOK, ConnTypeOK, ConnState
  <2>2. ReadTypeOK'
    BY <1>11, QueueType DEF SystemLeft, TypeOK, ReadTypeOK
  <2> QED
    BY <1>11, <2>1, <2>2, Frame DEF SystemLeft, TypeOK
<1> QED
  BY <1>1, <1>2, <1>3, <1>4, <1>5, <1>6, <1>7, <1>8, <1>9, <1>10, <1>11 DEF Connection

\* The steps of a reader keep the types.
LEMMA TypeReader ==
  ASSUME TypeOK, NEW c \in Conns,
         \/ \E k \in {"Chat", "Other", "Ping", "Malformed"} : ReaderFrame(c, k)
         \/ ReaderForward(c) \/ ReaderCast(c) \/ ReaderEnds(c)
  PROVE  TypeOK'
<1>1. ASSUME NEW k \in {"Chat", "Other", "Ping", "Malformed"}, ReaderFrame(c, k)
      PROVE  TypeOK'
  <2>1. frames' \in [Conns -> 0 .. MaxFrames]
    BY <1>1, HubAssumption DEF ReaderFrame, TypeOK, ReadTypeOK, HubAssumption
  <2>2. ReadTypeOK'
    BY <1>1, <2>1 DEF ReaderFrame, TypeOK, ReadTypeOK
  <2>3. WireTypeOK'
    <3>1. direct' = direct \/ direct' = [direct EXCEPT ![c] = @ + 1]
      BY <1>1 DEF ReaderFrame
    <3>2. direct' \in [Conns -> Nat]
      <4>1. direct \in [Conns -> Nat] /\ direct[c] + 1 \in Nat
        BY DEF TypeOK, WireTypeOK
      <4> QED
        BY <3>1, <4>1
    <3>3. UNCHANGED wireVars
      BY <1>1 DEF ReaderFrame
    <3> QED
      BY <3>2, <3>3 DEF TypeOK, WireTypeOK
  <2> QED
    BY <1>1, <2>2, <2>3, Frame DEF ReaderFrame, TypeOK
<1>2. CASE ReaderForward(c)
  <2>1. msgQ' \in Seq(Conns \cup {HubId}) /\ Len(msgQ') <= MsgCap
    BY <1>2, QueueType DEF ReaderForward
  <2>2. ReadTypeOK'
    BY <1>2, <2>1 DEF ReaderForward, TypeOK, ReadTypeOK
  <2> QED
    BY <1>2, <2>2, Frame DEF ReaderForward, TypeOK
<1>3. CASE ReaderCast(c)
  <2>1. Message(c, frames[c]) \in Event
    BY EventTypes DEF TypeOK, ReadTypeOK
  <2>2. WireTypeOK'
    BY <1>3, <2>1, CastType DEF ReaderCast
  <2>3. ReadTypeOK'
    BY <1>3 DEF ReaderCast, TypeOK, ReadTypeOK
  <2> QED
    BY <1>3, <2>2, <2>3, Frame DEF ReaderCast, TypeOK
<1>4. CASE ReaderEnds(c)
  <2>1. ReadTypeOK'
    BY <1>4 DEF ReaderEnds, TypeOK, ReadTypeOK
  <2> QED
    BY <1>4, <2>1, Frame DEF ReaderEnds, TypeOK
<1> QED
  BY <1>1, <1>2, <1>3, <1>4

\* Only the accept loop and the connections touch the state of a handshake and
\* the registry.
LEMMA GuestFrame ==
  ASSUME [Next]_vars
  PROVE  \/ UNCHANGED <<conn, nonce, used, accepted, peers>>
         \/ \E c \in Conns : AcceptNext(c) \/ Connection(c)
<1>1. CASE UNCHANGED vars
  BY <1>1 DEF vars
<1>2. CASE \/ Run \/ RunReturns \/ RunDropped \/ NextEvent \/ Shutdown
           \/ BroadcastHub \/ BroadcastPing
  BY <1>2 DEF Run, RunReturns, RunDropped, NextEvent, Shutdown, BroadcastHub, BroadcastPing
<1>3. ASSUME NEW c \in Conns,
             \/ \E k \in {"Chat", "Other", "Ping", "Malformed"} : ReaderFrame(c, k)
             \/ ReaderForward(c) \/ ReaderCast(c) \/ ReaderEnds(c)
      PROVE  UNCHANGED <<conn, nonce, used, accepted, peers>>
  BY <1>3 DEF ReaderFrame, ReaderForward, ReaderCast, ReaderEnds
<1> QED
  BY <1>1, <1>2, <1>3 DEF Next

\* Only ReadHello brings a connection in front of the nonce test.
LEMMA NonceReadStep == TypeInv /\ [Next]_vars => NonceRead'
<1> SUFFICES ASSUME TypeInv, [Next]_vars PROVE NonceRead'
  OBVIOUS
<1> USE DEF TypeInv, TypeOK, ConnTypeOK, NonceRead, Goto
<1>1. CASE UNCHANGED <<conn, nonce, used, accepted, peers>>
  BY <1>1
<1>2. ASSUME NEW c \in Conns, AcceptNext(c) PROVE NonceRead'
  BY <1>2 DEF AcceptNext
<1>3. ASSUME NEW c \in Conns, ReadHello(c) PROVE NonceRead'
  BY <1>3 DEF ReadHello
<1>4. ASSUME NEW c \in Conns, Connection(c), ~ReadHello(c) PROVE NonceRead'
  <2>1. nonce' = nonce /\ \E s \in ConnState \ {"nonce"} : conn' = [conn EXCEPT ![c] = s] \/ conn' = conn
    BY <1>4 DEF Connection, CheckNonce, Reject, WriteAck, HandshakeFails, Register,
       AnnounceJoin, SpawnReader, Subscribe, WriteDirect, WriteEvent, WriteLagged,
       WriteTimesOut, Deregister, SystemLeft, AnnounceLeave, ConnState
  <2> QED
    BY <2>1
<1> QED
  BY <1>1, <1>2, <1>3, <1>4, GuestFrame

\* Every step of the Hub keeps the types and the capacity of next_event.
LEMMA TypeStep == TypeInv /\ [Next]_vars => TypeInv'
<1> SUFFICES ASSUME TypeInv, [Next]_vars PROVE TypeOK'
  BY NonceReadStep DEF TypeInv
<1>1. CASE UNCHANGED vars
  BY <1>1, Frame DEF vars, TypeInv, TypeOK
<1> QED
  BY <1>1, TypeCaller, TypeConnection, TypeReader DEF Next, TypeInv

\* Every reachable state of the Hub is well-typed and the channel of next_event
\* stays within its capacity.
THEOREM TypeCorrect == Spec => []TypeOK
<1>1. TypeInv => TypeOK
  BY DEF TypeInv
<1> QED
  BY TypeInit, TypeStep, <1>1, PTL DEF Spec

-----------------------------------------------------------------------------
(* The Hub implements Admission *)

\* The states of a connection before its nonce is accepted, the ones it can only
\* reach after, and the ones in which it is in the registry.
Unaccepted     == {"none", "hello", "nonce", "reject"}
AcceptedStates == ConnState \ (Unaccepted \cup {"refused"})
Registered     == {"join", "split", "subscribe", "write", "deregister"}

\* The inductive invariant: an accepted stream's nonce is in used_nonces and is
\* no other accepted stream's, its connection cannot read another, a connection
\* past the test belongs to an accepted stream, and the registry holds the
\* connections between register_peer and deregister_peer.
GuestInv ==
  /\ TypeInv
  /\ \A c \in accepted : nonce[c] \in used /\ conn[c] \notin Unaccepted
  /\ \A c, d \in accepted : nonce[c] = nonce[d] => c = d
  /\ \A c \in Conns : conn[c] \in AcceptedStates => c \in accepted
  /\ \A c \in Conns : c \in peers <=> conn[c] \in Registered

\* What one step of a connection does: it tests a nonce, enters or leaves the
\* registry, or moves between two states on the same side of it.
LEMMA GuestMoves ==
  ASSUME TypeInv, NEW c \in Conns, AcceptNext(c) \/ Connection(c)
  PROVE  \/ /\ conn[c] = "nonce" /\ nonce[c] \notin used
            /\ conn' = [conn EXCEPT ![c] = "ack"] /\ peers' = peers /\ nonce' = nonce
            /\ used' = used \cup {nonce[c]} /\ accepted' = accepted \cup {c}
         \/ /\ conn[c] = "register"
            /\ conn' = [conn EXCEPT ![c] = "join"] /\ peers' = peers \cup {c}
            /\ UNCHANGED <<nonce, used, accepted>>
         \/ /\ conn[c] = "deregister"
            /\ conn' = [conn EXCEPT ![c] = "system"] /\ peers' = peers \ {c}
            /\ UNCHANGED <<nonce, used, accepted>>
         \/ \E s \in ConnState :
              /\ conn' = [conn EXCEPT ![c] = s]
              /\ s \in Registered <=> conn[c] \in Registered
              /\ s \in {"system", "leave", "closed"} <=> conn[c] \in {"system", "leave", "closed"}
              /\ s \in AcceptedStates => conn[c] \in AcceptedStates
              /\ s \in Unaccepted => conn[c] \in Unaccepted
              /\ UNCHANGED <<used, accepted, peers>>
              /\ \/ nonce' = nonce
                 \/ conn[c] = "hello" /\ \E n \in Nonces : nonce' = [nonce EXCEPT ![c] = n]
<1> USE DEF Goto, Registered, ConnState, Unaccepted, AcceptedStates
<1>0. conn \in [Conns -> ConnState]
  BY DEF TypeInv, TypeOK, ConnTypeOK
<1>1. CASE AcceptNext(c)
  BY <1>0, <1>1 DEF AcceptNext
<1>2. CASE ReadHello(c)
  BY <1>0, <1>2 DEF ReadHello
<1>3. CASE CheckNonce(c)
  BY <1>0, <1>3 DEF CheckNonce
<1>4. CASE Reject(c)
  BY <1>0, <1>4 DEF Reject
<1>5. CASE WriteAck(c)
  BY <1>0, <1>5 DEF WriteAck
<1>6. CASE HandshakeFails(c)
  BY <1>0, <1>6 DEF HandshakeFails
<1>7. CASE Register(c)
  BY <1>0, <1>7 DEF Register
<1>8. CASE AnnounceJoin(c)
  BY <1>0, <1>8 DEF AnnounceJoin
<1>9. CASE SpawnReader(c)
  BY <1>0, <1>9 DEF SpawnReader
<1>10. CASE Subscribe(c)
  BY <1>0, <1>10 DEF Subscribe
<1>11. CASE WriteDirect(c) \/ WriteEvent(c) \/ WriteLagged(c)
  <2>1. conn' = [conn EXCEPT ![c] = conn[c]] /\ UNCHANGED <<nonce, used, accepted, peers>>
    BY <1>0, <1>11 DEF WriteDirect, WriteEvent, WriteLagged
  <2> QED
    BY <1>0, <2>1
<1>12. CASE WriteTimesOut(c)
  BY <1>0, <1>12 DEF WriteTimesOut
<1>13. CASE Deregister(c)
  BY <1>0, <1>13 DEF Deregister
<1>14. CASE SystemLeft(c)
  BY <1>0, <1>14 DEF SystemLeft
<1>15. CASE AnnounceLeave(c)
  BY <1>0, <1>15 DEF AnnounceLeave
<1> QED
  BY <1>1, <1>2, <1>3, <1>4, <1>5, <1>6, <1>7, <1>8, <1>9, <1>10, <1>11, <1>12,
     <1>13, <1>14, <1>15 DEF Connection

\* Nobody is accepted or registered when the Hub starts.
LEMMA GuestInit == Init => GuestInv
BY TypeInit DEF Init, GuestInv, Registered, AcceptedStates, Unaccepted, ConnState

\* The invariant is inductive.
LEMMA GuestStep == GuestInv /\ [Next]_vars => GuestInv'
<1> SUFFICES ASSUME GuestInv, [Next]_vars
             PROVE  /\ \A d \in accepted' : nonce'[d] \in used' /\ conn'[d] \notin Unaccepted
                    /\ \A d, e \in accepted' : nonce'[d] = nonce'[e] => d = e
                    /\ \A d \in Conns : conn'[d] \in AcceptedStates => d \in accepted'
                    /\ \A d \in Conns : d \in peers' <=> conn'[d] \in Registered
  BY TypeStep DEF GuestInv
<1>1. /\ conn \in [Conns -> ConnState] /\ nonce \in [Conns -> Nonces \cup {NoNonce}]
      /\ accepted \subseteq Conns
      /\ \A d \in accepted : nonce[d] \in used /\ conn[d] \notin Unaccepted
      /\ \A d, e \in accepted : nonce[d] = nonce[e] => d = e
      /\ \A d \in Conns : conn[d] \in AcceptedStates => d \in accepted
      /\ \A d \in Conns : d \in peers <=> conn[d] \in Registered
  BY DEF GuestInv, TypeInv, TypeOK, ConnTypeOK
<1>2. CASE UNCHANGED <<conn, nonce, used, accepted, peers>>
  BY <1>1, <1>2
<1>3. ASSUME NEW c \in Conns, conn[c] = "nonce", nonce[c] \notin used,
             conn' = [conn EXCEPT ![c] = "ack"], peers' = peers, nonce' = nonce,
             used' = used \cup {nonce[c]}, accepted' = accepted \cup {c}
      PROVE  /\ \A d \in accepted' : nonce'[d] \in used' /\ conn'[d] \notin Unaccepted
             /\ \A d, e \in accepted' : nonce'[d] = nonce'[e] => d = e
             /\ \A d \in Conns : conn'[d] \in AcceptedStates => d \in accepted'
             /\ \A d \in Conns : d \in peers' <=> conn'[d] \in Registered
  BY <1>1, <1>3 DEF Unaccepted, AcceptedStates, Registered
<1>4. ASSUME NEW c \in Conns, conn[c] = "register",
             conn' = [conn EXCEPT ![c] = "join"], peers' = peers \cup {c},
             UNCHANGED <<nonce, used, accepted>>
      PROVE  /\ \A d \in accepted' : nonce'[d] \in used' /\ conn'[d] \notin Unaccepted
             /\ \A d, e \in accepted' : nonce'[d] = nonce'[e] => d = e
             /\ \A d \in Conns : conn'[d] \in AcceptedStates => d \in accepted'
             /\ \A d \in Conns : d \in peers' <=> conn'[d] \in Registered
  BY <1>1, <1>4 DEF Unaccepted, AcceptedStates, Registered
<1>5. ASSUME NEW c \in Conns, conn[c] = "deregister",
             conn' = [conn EXCEPT ![c] = "system"], peers' = peers \ {c},
             UNCHANGED <<nonce, used, accepted>>
      PROVE  /\ \A d \in accepted' : nonce'[d] \in used' /\ conn'[d] \notin Unaccepted
             /\ \A d, e \in accepted' : nonce'[d] = nonce'[e] => d = e
             /\ \A d \in Conns : conn'[d] \in AcceptedStates => d \in accepted'
             /\ \A d \in Conns : d \in peers' <=> conn'[d] \in Registered
  BY <1>1, <1>5 DEF Unaccepted, AcceptedStates, Registered
<1>6. ASSUME NEW c \in Conns, NEW s \in ConnState,
             conn' = [conn EXCEPT ![c] = s],
             s \in Registered <=> conn[c] \in Registered,
             s \in AcceptedStates => conn[c] \in AcceptedStates,
             s \in Unaccepted => conn[c] \in Unaccepted,
             UNCHANGED <<used, accepted, peers>>,
             \/ nonce' = nonce
             \/ conn[c] = "hello" /\ \E n \in Nonces : nonce' = [nonce EXCEPT ![c] = n]
      PROVE  /\ \A d \in accepted' : nonce'[d] \in used' /\ conn'[d] \notin Unaccepted
             /\ \A d, e \in accepted' : nonce'[d] = nonce'[e] => d = e
             /\ \A d \in Conns : conn'[d] \in AcceptedStates => d \in accepted'
             /\ \A d \in Conns : d \in peers' <=> conn'[d] \in Registered
  <2>1. \A d \in accepted : nonce'[d] = nonce[d]
    BY <1>1, <1>6 DEF Unaccepted
  <2> QED
    BY <1>1, <1>6, <2>1
<1>7. TypeInv
  BY DEF GuestInv
<1> QED
  BY <1>2, <1>3, <1>4, <1>5, <1>6, <1>7, GuestMoves, GuestFrame

\* The owner of a nonce is the one accepted stream that presented it.
OwnerInv ==
  /\ \A n \in Nonces : Owner[n] # NoConn <=> \E c \in accepted : nonce[c] = n
  /\ \A c \in accepted : nonce[c] \in Nonces /\ Owner[nonce[c]] = c
  /\ \A n \in Nonces, c \in Conns : Owner[n] = c <=> c \in accepted /\ nonce[c] = n

\* It is, because no two streams are accepted on one nonce.
LEMMA OwnerIs == GuestInv => OwnerInv
<1> SUFFICES ASSUME GuestInv PROVE OwnerInv
  OBVIOUS
<1>1. /\ accepted \subseteq Conns /\ NoConn \notin Conns
      /\ \A c, d \in accepted : nonce[c] = nonce[d] => c = d
      /\ \A c \in accepted : nonce[c] \in Nonces
  BY HubAssumption DEF GuestInv, TypeInv, TypeOK, ConnTypeOK, HubAssumption
<1>2. ASSUME NEW c \in accepted PROVE Owner[nonce[c]] = c
  <2> DEFINE o == CHOOSE d \in accepted : nonce[d] = nonce[c]
  <2>1. o \in accepted /\ nonce[o] = nonce[c]
    OBVIOUS
  <2>2. o = c
    BY <1>1, <2>1
  <2>3. Owner[nonce[c]] = o
    BY <1>1 DEF Owner
  <2> QED
    BY <2>2, <2>3
<1>3. ASSUME NEW n \in Nonces, ~\E c \in accepted : nonce[c] = n PROVE Owner[n] = NoConn
  BY <1>3 DEF Owner
<1>4. \A n \in Nonces : Owner[n] # NoConn <=> \E c \in accepted : nonce[c] = n
  BY <1>1, <1>2, <1>3
<1>5. ASSUME NEW n \in Nonces, NEW c \in Conns, Owner[n] = c
      PROVE  c \in accepted /\ nonce[c] = n
  BY <1>1, <1>2, <1>4, <1>5
<1> QED
  BY <1>1, <1>2, <1>4, <1>5 DEF OwnerInv

\* While the accepted streams and their nonces stay, so do the owners.
LEMMA OwnerStays ==
  ASSUME GuestInv, GuestInv', accepted' = accepted,
         \A c \in accepted : nonce'[c] = nonce[c]
  PROVE  Owner' = Owner
<1>0. OwnerInv /\ OwnerInv'
  BY OwnerIs, PTL
<1>1. ASSUME NEW n \in Nonces PROVE Owner'[n] = Owner[n]
  <2>1. CASE \E c \in accepted : nonce[c] = n
    <3>1. PICK c \in accepted : nonce[c] = n
      BY <2>1
    <3>2. Owner[n] = c
      BY <1>0, <3>1 DEF OwnerInv
    <3>3. c \in accepted' /\ nonce'[c] = n
      BY <3>1
    <3>4. Owner'[n] = c
      BY <1>0, <3>3 DEF OwnerInv
    <3> QED
      BY <3>2, <3>4
  <2>2. CASE ~\E c \in accepted : nonce[c] = n
    BY <2>2 DEF Owner
  <2> QED
    BY <2>1, <2>2
<1> QED
  BY <1>1 DEF Owner

\* Every step of the Hub admits, lets in or lets out one stream, or changes
\* nothing that Admission can see.
LEMMA GuestsStep == GuestInv /\ GuestInv' /\ [Next]_vars => [Guests!Next]_(Guests!vars)
<1> SUFFICES ASSUME GuestInv, GuestInv', [Next]_vars
             PROVE  [Guests!Next]_(Guests!vars)
  OBVIOUS
<1>0. OwnerInv /\ OwnerInv'
  BY OwnerIs, PTL
<1>1. /\ conn \in [Conns -> ConnState] /\ accepted \subseteq Conns
      /\ nonce \in [Conns -> Nonces \cup {NoNonce}] /\ peers \subseteq Conns
      /\ \A d \in Conns : d \in peers <=> conn[d] \in Registered
      /\ \A d \in accepted : nonce[d] \in used /\ conn[d] \notin Unaccepted
      /\ \A d \in Conns : conn[d] \in AcceptedStates => d \in accepted
      /\ NoConn \notin Conns
  BY HubAssumption DEF GuestInv, TypeInv, TypeOK, ConnTypeOK, HubAssumption
<1>2. CASE UNCHANGED <<conn, nonce, used, accepted, peers>>
  <2>1. Owner' = Owner
    BY <1>0, <1>2, OwnerStays
  <2>2. Place' = Place
    BY <1>2 DEF Place
  <2> QED
    BY <2>1, <2>2 DEF Guests!vars
<1>3. ASSUME NEW c \in Conns,
             conn[c] = "nonce", nonce[c] \notin used,
             conn' = [conn EXCEPT ![c] = "ack"], peers' = peers, nonce' = nonce,
             accepted' = accepted \cup {c}
      PROVE  Guests!Next
  <2>1. c \notin accepted /\ c \notin peers /\ nonce[c] \in Nonces
    <3>1. c \in accepted'
      BY <1>3
    <3>2. nonce'[c] \in Nonces
      BY <1>0, <3>1 DEF OwnerInv
    <3> QED
      BY <1>1, <1>3, <3>2 DEF Unaccepted, Registered
  <2>2. Owner[nonce[c]] = NoConn
    BY <1>0, <1>1, <1>3, <2>1 DEF OwnerInv
  <2>3. ~Guests!HasInvite(c)
    BY <1>0, <2>1 DEF Guests!HasInvite, OwnerInv
  <2>4. Owner' = [Owner EXCEPT ![nonce[c]] = c]
    <3>1. ASSUME NEW n \in Nonces
          PROVE  Owner'[n] = IF n = nonce[c] THEN c ELSE Owner[n]
      <4>1. CASE n = nonce[c]
        <5>1. c \in accepted' /\ nonce'[c] = n
          BY <1>3, <4>1
        <5> QED
          BY <1>0, <4>1, <5>1 DEF OwnerInv
      <4>2. CASE n # nonce[c] /\ Owner[n] # NoConn
        <5>1. PICK d \in accepted : nonce[d] = n
          BY <1>0, <4>2 DEF OwnerInv
        <5>2. d \in accepted' /\ nonce'[d] = n
          BY <1>3, <5>1
        <5>3. Owner[n] = d /\ Owner'[n] = d
          BY <1>0, <5>1, <5>2 DEF OwnerInv
        <5> QED
          BY <4>2, <5>3
      <4>3. CASE n # nonce[c] /\ Owner[n] = NoConn
        <5>1. ~\E d \in accepted' : nonce'[d] = n
          BY <1>0, <1>3, <4>3 DEF OwnerInv
        <5>2. Owner'[n] = NoConn
          BY <1>0, <5>1 DEF OwnerInv
        <5> QED
          BY <4>3, <5>2
      <4> QED
        BY <4>1, <4>2, <4>3
    <3> QED
      BY <2>1, <3>1 DEF Owner
  <2>5. Place[c] = "outside" /\ Place' = Place
    BY <1>1, <1>3, <2>1 DEF Place
  <2>6. Guests!Admit(nonce[c], c)
    BY <2>2, <2>3, <2>4, <2>5 DEF Guests!Admit
  <2> QED
    BY <2>1, <2>6 DEF Guests!Next
<1>4. ASSUME NEW c \in Conns, conn[c] = "register",
             conn' = [conn EXCEPT ![c] = "join"], peers' = peers \cup {c},
             UNCHANGED <<nonce, used, accepted>>
      PROVE  Guests!Next
  <2>1. c \in accepted /\ c \notin peers
    BY <1>1, <1>4 DEF AcceptedStates, Registered, ConnState, Unaccepted
  <2>2. Guests!HasInvite(c)
    BY <1>0, <2>1 DEF Guests!HasInvite, OwnerInv
  <2>3. Owner' = Owner
    BY <1>0, <1>4, OwnerStays
  <2>4. Place[c] = "outside" /\ Place' = [Place EXCEPT ![c] = "inside"]
    BY <1>1, <1>4, <2>1 DEF Place
  <2> QED
    BY <2>2, <2>3, <2>4 DEF Guests!Next, Guests!Enter
<1>5. ASSUME NEW c \in Conns, conn[c] = "deregister",
             conn' = [conn EXCEPT ![c] = "system"], peers' = peers \ {c},
             UNCHANGED <<nonce, used, accepted>>
      PROVE  Guests!Next
  <2>1. c \in peers
    BY <1>1, <1>5 DEF Registered
  <2>2. Owner' = Owner
    BY <1>0, <1>5, OwnerStays
  <2>3. Place[c] = "inside" /\ Place' = [Place EXCEPT ![c] = "left"]
    BY <1>1, <1>5, <2>1 DEF Place
  <2> QED
    BY <2>2, <2>3 DEF Guests!Next, Guests!Leave
<1>6. ASSUME NEW c \in Conns, NEW s \in ConnState,
             conn' = [conn EXCEPT ![c] = s],
             s \in {"system", "leave", "closed"} <=> conn[c] \in {"system", "leave", "closed"},
             UNCHANGED <<used, accepted, peers>>,
             \/ nonce' = nonce
             \/ conn[c] = "hello" /\ \E n \in Nonces : nonce' = [nonce EXCEPT ![c] = n]
      PROVE  UNCHANGED Guests!vars
  <2>1. \A d \in accepted : nonce'[d] = nonce[d]
    BY <1>1, <1>6 DEF Unaccepted
  <2>2. Owner' = Owner
    BY <1>0, <1>6, <2>1, OwnerStays
  <2>3. Place' = Place
    BY <1>1, <1>6 DEF Place
  <2> QED
    BY <2>2, <2>3 DEF Guests!vars
<1>7. ASSUME NEW c \in Conns, AcceptNext(c) \/ Connection(c)
      PROVE  [Guests!Next]_(Guests!vars)
  BY <1>3, <1>4, <1>5, <1>6, <1>7, GuestMoves DEF GuestInv
<1> QED
  BY <1>2, <1>7, GuestFrame

\* The handshake, the used nonces and the registry admit by invite, for any
\* number of streams that present any invites at the same time: an invite gets
\* one stream in, once, and who has left stays out.
THEOREM AdmissionByInvite == Spec => AdmitsByInvite
<1>1. Init => Guests!Init
  BY DEF Init, Guests!Init, Owner, Place
<1> QED
  BY <1>1, GuestInit, GuestStep, GuestsStep, PTL DEF Spec, AdmitsByInvite, Guests!Spec

-----------------------------------------------------------------------------
(* What a peer is told *)

\* The join of c is among the first k events of b.
JoinedBy(b, c, k) == \E j \in 1 .. k : b[j] = PeerJoin(c)

\* What was written to c lies behind its cursor and after its join, in order.
ToldInOrder(c) ==
  \A i \in DOMAIN out[c] :
    /\ out[c][i] < cursor[c]
    /\ JoinedBy(bcast, c, out[c][i] - 1)
    /\ \A j \in 1 .. i - 1 : out[c][j] < out[c][i]

\* The inductive invariant behind ToldLaterInOrder: the join of a connection is
\* on the channel before it subscribes, and behind its cursor from then on.
ToldInv ==
  /\ TypeInv
  /\ \A c \in Conns :
       /\ cursor[c] <= Len(bcast) + 1
       /\ conn[c] \in {"split", "subscribe"} => JoinedBy(bcast, c, Len(bcast))
       /\ conn[c] = "write" => JoinedBy(bcast, c, cursor[c] - 1)
       /\ ToldInOrder(c)

\* Nothing was written when the Hub starts.
LEMMA ToldInit == Init => ToldInv
<1> SUFFICES ASSUME Init PROVE ToldInv
  OBVIOUS
<1>1. /\ cursor = [c \in Conns |-> 0] /\ bcast = <<>>
      /\ conn = [c \in Conns |-> "none"] /\ out = [c \in Conns |-> <<>>]
  BY DEF Init
<1>2. Len(bcast) = 0
  BY <1>1
<1>3. \A c \in Conns : ToldInOrder(c)
  BY <1>1 DEF ToldInOrder
<1> QED
  BY <1>1, <1>2, <1>3, TypeInit DEF ToldInv

\* A step puts at most one event at the end of the broadcast channel.
LEMMA BcastGrows ==
  ASSUME TypeInv, [Next]_vars
  PROVE  bcast' = bcast \/ \E e \in Event : bcast' = Append(bcast, e)
<1>1. CASE UNCHANGED vars
  BY <1>1 DEF vars
<1>2. CASE Run \/ RunReturns \/ RunDropped \/ NextEvent \/ Shutdown \/ BroadcastPing
  BY <1>2 DEF Run, RunReturns, RunDropped, NextEvent, Shutdown, BroadcastPing
<1>3. CASE BroadcastHub
  <2>1. Message(HubId, texts + 1) \in Event
    BY EventTypes DEF TypeInv, TypeOK, CallTypeOK
  <2> QED
    BY <1>3, <2>1 DEF BroadcastHub
<1>4. ASSUME NEW c \in Conns, AcceptNext(c) \/ Connection(c)
      PROVE  bcast' = bcast \/ \E e \in Event : bcast' = Append(bcast, e)
  BY <1>4, EventTypes DEF AcceptNext, Connection, ReadHello, CheckNonce, Reject, WriteAck,
     HandshakeFails, Register, AnnounceJoin, SpawnReader, Subscribe, WriteDirect,
     WriteEvent, WriteLagged, WriteTimesOut, Deregister, SystemLeft, AnnounceLeave
<1>5. ASSUME NEW c \in Conns, ReaderCast(c)
      PROVE  bcast' = bcast \/ \E e \in Event : bcast' = Append(bcast, e)
  <2>1. Message(c, frames[c]) \in Event
    BY EventTypes DEF TypeInv, TypeOK, ReadTypeOK
  <2> QED
    BY <1>5, <2>1 DEF ReaderCast
<1>6. ASSUME NEW c \in Conns,
             \/ \E k \in {"Chat", "Other", "Ping", "Malformed"} : ReaderFrame(c, k)
             \/ ReaderForward(c) \/ ReaderEnds(c)
      PROVE  bcast' = bcast
  BY <1>6 DEF ReaderFrame, ReaderForward, ReaderEnds
<1> QED
  BY <1>1, <1>2, <1>3, <1>4, <1>5, <1>6 DEF Next

\* What is on the broadcast channel stays where it is.
LEMMA JoinStays ==
  ASSUME TypeInv, bcast' = bcast \/ \E e \in Event : bcast' = Append(bcast, e)
  PROVE  /\ Len(bcast') \in Nat /\ Len(bcast) <= Len(bcast')
         /\ \A c \in Conns, k \in Int :
              k <= Len(bcast) /\ JoinedBy(bcast, c, k) => JoinedBy(bcast', c, k)
<1>1. bcast \in Seq(Event)
  BY DEF TypeInv, TypeOK, WireTypeOK
<1>2. CASE bcast' = bcast
  BY <1>1, <1>2 DEF JoinedBy, PeerJoin
<1>3. ASSUME NEW e \in Event, bcast' = Append(bcast, e)
      PROVE  /\ Len(bcast') = Len(bcast) + 1
             /\ \A j \in 1 .. Len(bcast) : bcast'[j] = bcast[j]
  BY <1>1, <1>3
<1>4. ASSUME NEW e \in Event, bcast' = Append(bcast, e), NEW c \in Conns, NEW k \in Int,
             k <= Len(bcast), JoinedBy(bcast, c, k)
      PROVE  JoinedBy(bcast', c, k)
  <2>1. PICK j \in 1 .. k : bcast[j] = PeerJoin(c)
    BY <1>4 DEF JoinedBy
  <2>2. j \in 1 .. Len(bcast)
    BY <1>1, <1>4
  <2>3. bcast'[j] = PeerJoin(c)
    BY <1>3, <1>4, <2>1, <2>2
  <2> QED
    BY <2>3 DEF JoinedBy, PeerJoin
<1> QED
  BY <1>1, <1>2, <1>3, <1>4

\* The steps that matter to what c is told; any other leaves its cursor and what
\* was written to it alone, and does not let it subscribe.
LEMMA WriterFrame ==
  ASSUME TypeInv, [Next]_vars, NEW c \in Conns
  PROVE  \/ AnnounceJoin(c) \/ Subscribe(c) \/ WriteEvent(c) \/ WriteLagged(c)
         \/ /\ cursor'[c] = cursor[c] /\ out'[c] = out[c]
            /\ \/ conn'[c] = conn[c]
               \/ conn'[c] \notin {"split", "subscribe", "write"}
               \/ conn[c] = "split" /\ conn'[c] = "subscribe"
<1>0. /\ conn \in [Conns -> ConnState] /\ cursor \in [Conns -> Nat]
      /\ out \in [Conns -> Seq(Nat)]
  BY DEF TypeInv, TypeOK, ConnTypeOK, WireTypeOK
<1>1. CASE UNCHANGED vars
  BY <1>1 DEF vars
<1>2. CASE \/ Run \/ RunReturns \/ RunDropped \/ NextEvent \/ Shutdown
           \/ BroadcastHub \/ BroadcastPing
  BY <1>2 DEF Run, RunReturns, RunDropped, NextEvent, Shutdown, BroadcastHub, BroadcastPing
<1>3. ASSUME NEW d \in Conns,
             \/ \E k \in {"Chat", "Other", "Ping", "Malformed"} : ReaderFrame(d, k)
             \/ ReaderForward(d) \/ ReaderCast(d) \/ ReaderEnds(d)
      PROVE  UNCHANGED <<conn, cursor, out>>
  BY <1>3 DEF ReaderFrame, ReaderForward, ReaderCast, ReaderEnds
<1>4. ASSUME NEW d \in Conns, AcceptNext(d) \/ ReadHello(d) \/ CheckNonce(d) \/ Reject(d)
                              \/ WriteAck(d) \/ HandshakeFails(d) \/ Register(d)
      PROVE  /\ UNCHANGED <<cursor, out>>
             /\ conn'[c] = conn[c] \/ conn'[c] \notin {"split", "subscribe", "write"}
  BY <1>0, <1>4 DEF AcceptNext, ReadHello, CheckNonce, Reject, WriteAck, HandshakeFails,
     Register, Goto
<1>5. ASSUME NEW d \in Conns, WriteDirect(d) \/ WriteTimesOut(d) \/ Deregister(d)
                              \/ SystemLeft(d) \/ AnnounceLeave(d)
      PROVE  /\ UNCHANGED <<cursor, out>>
             /\ conn'[c] = conn[c] \/ conn'[c] \notin {"split", "subscribe", "write"}
  BY <1>0, <1>5 DEF WriteDirect, WriteTimesOut, Deregister, SystemLeft, AnnounceLeave, Goto
<1>6. ASSUME NEW d \in Conns, SpawnReader(d)
      PROVE  /\ UNCHANGED <<cursor, out>>
             /\ \/ conn'[c] = conn[c]
                \/ conn[c] = "split" /\ conn'[c] = "subscribe"
  BY <1>0, <1>6 DEF SpawnReader, Goto
<1>7. ASSUME NEW d \in Conns, d # c,
             AnnounceJoin(d) \/ Subscribe(d) \/ WriteEvent(d) \/ WriteLagged(d)
      PROVE  cursor'[c] = cursor[c] /\ out'[c] = out[c] /\ conn'[c] = conn[c]
  BY <1>0, <1>7 DEF AnnounceJoin, Subscribe, WriteEvent, WriteLagged, Goto
<1> QED
  BY <1>1, <1>2, <1>3, <1>4, <1>5, <1>6, <1>7 DEF Next, Connection

\* The invariant is inductive.
LEMMA ToldStep == ToldInv /\ [Next]_vars => ToldInv'
<1> SUFFICES ASSUME ToldInv, [Next]_vars, NEW c \in Conns
             PROVE  /\ cursor'[c] <= Len(bcast') + 1
                    /\ conn'[c] \in {"split", "subscribe"} => JoinedBy(bcast', c, Len(bcast'))
                    /\ conn'[c] = "write" => JoinedBy(bcast', c, cursor'[c] - 1)
                    /\ ToldInOrder(c)'
  BY TypeStep DEF ToldInv
<1>1. /\ conn \in [Conns -> ConnState] /\ cursor \in [Conns -> Nat]
      /\ out \in [Conns -> Seq(Nat)] /\ bcast \in Seq(Event) /\ TypeInv
  BY DEF ToldInv, TypeInv, TypeOK, ConnTypeOK, WireTypeOK
<1>2. /\ cursor[c] <= Len(bcast) + 1
      /\ conn[c] \in {"split", "subscribe"} => JoinedBy(bcast, c, Len(bcast))
      /\ conn[c] = "write" => JoinedBy(bcast, c, cursor[c] - 1)
      /\ ToldInOrder(c)
  BY DEF ToldInv
<1>3. /\ Len(bcast') \in Nat /\ Len(bcast) \in Nat /\ Len(bcast) <= Len(bcast')
      /\ \A k \in Int : k <= Len(bcast) /\ JoinedBy(bcast, c, k) => JoinedBy(bcast', c, k)
  BY <1>1, BcastGrows, JoinStays
<1>4. \A k, l \in Int : k <= l /\ JoinedBy(bcast', c, k) => JoinedBy(bcast', c, l)
  BY DEF JoinedBy
<1>5. \A i \in DOMAIN out[c] :
        /\ out[c][i] \in Nat /\ out[c][i] < cursor[c]
        /\ JoinedBy(bcast', c, out[c][i] - 1)
        /\ \A j \in 1 .. i - 1 : out[c][j] < out[c][i]
  <2> TAKE i \in DOMAIN out[c]
  <2>1. /\ out[c][i] \in Nat /\ out[c][i] < cursor[c] /\ JoinedBy(bcast, c, out[c][i] - 1)
        /\ \A j \in 1 .. i - 1 : out[c][j] < out[c][i]
    BY <1>1, <1>2 DEF ToldInOrder
  <2>2. out[c][i] - 1 \in Int /\ out[c][i] - 1 <= Len(bcast)
    BY <1>1, <1>2, <1>3, <2>1
  <2> QED
    BY <1>3, <2>1, <2>2
<1>6. CASE AnnounceJoin(c)
  <2>1. UNCHANGED <<cursor, out>> /\ conn'[c] = "split" /\ bcast' = Append(bcast, PeerJoin(c))
    BY <1>1, <1>6 DEF AnnounceJoin, Goto
  <2>2. Len(bcast') = Len(bcast) + 1 /\ bcast'[Len(bcast')] = PeerJoin(c)
    BY <1>1, <2>1, EventTypes
  <2>3. JoinedBy(bcast', c, Len(bcast'))
    BY <1>3, <2>2 DEF JoinedBy
  <2> QED
    BY <1>1, <1>2, <1>3, <1>5, <2>1, <2>2, <2>3 DEF ToldInOrder
<1>7. CASE Subscribe(c)
  <2>1. /\ UNCHANGED <<bcast, out>> /\ conn[c] = "subscribe" /\ conn'[c] = "write"
        /\ cursor'[c] = Len(bcast) + 1
    BY <1>1, <1>7 DEF Subscribe, Goto
  <2>2. cursor'[c] - 1 = Len(bcast)
    BY <1>3, <2>1
  <2>3. ToldInOrder(c)'
    <3>1. \A i \in DOMAIN out[c] : out[c][i] < cursor'[c]
      BY <1>1, <1>2, <1>3, <1>5, <2>1
    <3> QED
      BY <1>5, <2>1, <3>1 DEF ToldInOrder
  <2> QED
    BY <1>2, <1>3, <2>1, <2>2, <2>3
<1>8. CASE WriteLagged(c)
  <2>1. /\ UNCHANGED <<bcast, out, conn>> /\ conn[c] = "write"
        /\ cursor'[c] = Len(bcast) - BcastCap + 1 /\ Len(bcast) - cursor[c] >= BcastCap
    BY <1>1, <1>8 DEF WriteLagged, Lags
  <2>2. cursor'[c] \in Nat /\ cursor[c] <= cursor'[c] /\ cursor'[c] <= Len(bcast) + 1
    BY <1>1, <1>3, <2>1, HubAssumption DEF HubAssumption
  <2>3. JoinedBy(bcast', c, cursor'[c] - 1)
    <3>1. JoinedBy(bcast', c, cursor[c] - 1)
      BY <1>2, <2>1
    <3>2. cursor[c] - 1 \in Int /\ cursor'[c] - 1 \in Int /\ cursor[c] - 1 <= cursor'[c] - 1
      BY <1>1, <2>2
    <3> QED
      BY <1>4, <3>1, <3>2
  <2>4. ToldInOrder(c)'
    <3>1. \A i \in DOMAIN out[c] : out[c][i] < cursor'[c]
      BY <1>1, <1>5, <2>2
    <3> QED
      BY <1>5, <2>1, <3>1 DEF ToldInOrder
  <2> QED
    BY <2>1, <2>2, <2>3, <2>4
<1>9. CASE WriteEvent(c)
  <2>1. /\ UNCHANGED <<bcast, conn>> /\ conn[c] = "write"
        /\ cursor'[c] = cursor[c] + 1 /\ cursor[c] <= Len(bcast)
    BY <1>1, <1>9 DEF WriteEvent, HasNext
  <2>2. /\ cursor'[c] \in Nat /\ cursor[c] \in Nat /\ cursor[c] < cursor'[c]
        /\ cursor'[c] <= Len(bcast) + 1
    BY <1>1, <1>3, <2>1
  <2>3. JoinedBy(bcast', c, cursor[c] - 1) /\ JoinedBy(bcast', c, cursor'[c] - 1)
    <3>1. JoinedBy(bcast', c, cursor[c] - 1)
      BY <1>2, <2>1
    <3>2. cursor[c] - 1 \in Int /\ cursor'[c] - 1 \in Int /\ cursor[c] - 1 <= cursor'[c] - 1
      BY <2>2
    <3> QED
      BY <1>4, <3>1, <3>2
  <2>4. \A i \in DOMAIN out[c] : out[c][i] < cursor'[c]
    BY <1>5, <2>2
  <2>5. CASE out' = out
    BY <1>5, <2>1, <2>2, <2>3, <2>4, <2>5 DEF ToldInOrder
  <2>6. CASE out' = [out EXCEPT ![c] = Append(@, cursor[c])]
    <3>1. out'[c] = Append(out[c], cursor[c]) /\ out[c] \in Seq(Nat)
      BY <1>1, <2>6
    <3>2. /\ Len(out[c]) \in Nat /\ DOMAIN out[c] = 1 .. Len(out[c])
          /\ DOMAIN out'[c] = 1 .. Len(out[c]) + 1
          /\ \A i \in 1 .. Len(out[c]) : out'[c][i] = out[c][i]
          /\ out'[c][Len(out[c]) + 1] = cursor[c]
      BY <2>2, <3>1
    <3>3. ASSUME NEW i \in DOMAIN out'[c]
          PROVE  /\ out'[c][i] < cursor'[c] /\ JoinedBy(bcast', c, out'[c][i] - 1)
                 /\ \A j \in 1 .. i - 1 : out'[c][j] < out'[c][i]
      <4>1. CASE i \in DOMAIN out[c]
        <5>1. out'[c][i] = out[c][i] /\ \A j \in 1 .. i - 1 : out'[c][j] = out[c][j]
          <6>1. i \in 1 .. Len(out[c])
            BY <3>2, <4>1
          <6>2. \A j \in 1 .. i - 1 : j \in 1 .. Len(out[c])
            BY <3>2, <6>1
          <6> QED
            BY <3>2, <6>1, <6>2
        <5> QED
          BY <1>5, <2>4, <4>1, <5>1
      <4>2. CASE i = Len(out[c]) + 1
        <5>1. out'[c][i] = cursor[c]
          BY <3>2, <4>2
        <5>2. \A j \in 1 .. i - 1 : j \in DOMAIN out[c] /\ out'[c][j] = out[c][j]
          BY <3>2, <4>2
        <5>3. \A j \in 1 .. i - 1 : out'[c][j] < cursor[c]
          BY <1>5, <5>2
        <5> QED
          BY <2>2, <2>3, <5>1, <5>3
      <4> QED
        BY <3>2, <4>1, <4>2
    <3>4. ToldInOrder(c)'
      BY <3>3 DEF ToldInOrder
    <3> QED
      BY <2>1, <2>2, <2>3, <3>4
  <2> QED
    BY <1>1, <1>9, <2>5, <2>6, WriteEventShape DEF TypeInv
<1>10. CASE /\ cursor'[c] = cursor[c] /\ out'[c] = out[c]
            /\ \/ conn'[c] = conn[c]
               \/ conn'[c] \notin {"split", "subscribe", "write"}
               \/ conn[c] = "split" /\ conn'[c] = "subscribe"
  <2>1. cursor'[c] <= Len(bcast') + 1
    BY <1>1, <1>2, <1>3, <1>10
  <2>2. conn'[c] \in {"split", "subscribe"} => JoinedBy(bcast', c, Len(bcast'))
    <3>1. JoinedBy(bcast, c, Len(bcast)) => JoinedBy(bcast', c, Len(bcast'))
      BY <1>3, <1>4
    <3> QED
      BY <1>2, <1>10, <3>1
  <2>3. conn'[c] = "write" => JoinedBy(bcast', c, cursor'[c] - 1)
    <3>1. cursor[c] - 1 \in Int /\ cursor[c] - 1 <= Len(bcast)
      BY <1>1, <1>2, <1>3
    <3> QED
      BY <1>2, <1>3, <1>10, <3>1
  <2>4. ToldInOrder(c)'
    BY <1>5, <1>10 DEF ToldInOrder
  <2> QED
    BY <2>1, <2>2, <2>3, <2>4
<1> QED
  BY <1>1, <1>6, <1>7, <1>8, <1>9, <1>10, WriterFrame

\* A peer is told nothing from before its join, and the rest in order, for any
\* number of peers and any capacity of the broadcast channel: run_peer_io
\* subscribes after register_peer announced the join, and the writer's cursor
\* only moves forward.
THEOREM ToldAfterJoining == Spec => []ToldLaterInOrder
<1>1. ToldInv => ToldLaterInOrder
  BY DEF ToldInv, ToldInOrder, JoinedBy, ToldLaterInOrder
<1> QED
  BY ToldInit, ToldStep, <1>1, PTL DEF Spec
=============================================================================
