-------------------------------- MODULE Hub --------------------------------
(***************************************************************************)
(* The Hub of crates/core/src/hub.rs, the library's other host: run() with *)
(* its accept loop, one handle_connection task per stream (handshake,      *)
(* register_peer, run_peer_io, deregister_peer), the reader it spawns and  *)
(* the writer it runs, the peer registry with one unbounded channel per    *)
(* peer, the broadcast channel and the bounded channel of next_event().    *)
(*                                                                         *)
(* run(), next_event() and shutdown() borrow the Hub exclusively, and      *)
(* broadcast_hub() and broadcast_ping() borrow it too: none of them runs   *)
(* while run() does, only after the caller has dropped its future.         *)
(***************************************************************************)
EXTENDS Naturals, Sequences

CONSTANTS
  Conns,      \* incoming streams, each with its own PeerId
  Nonces,     \* invite nonces
  HubId,      \* PeerId("[hub]")
  NoConn,     \* the nonce mutex is free
  NoNonce,    \* no nonce presented yet
  MaxFrames,  \* bound: frames each peer sends
  MaxTexts,   \* bound: calls of broadcast_hub and broadcast_ping
  MsgCap,     \* 128, the channel of next_event
  BcastCap    \* BROADCAST_CAPACITY

ASSUME HubAssumption ==
  /\ HubId \notin Conns /\ NoConn \notin Conns /\ NoNonce \notin Nonces
  /\ MaxFrames \in Nat /\ MaxTexts \in Nat
  /\ MsgCap \in Nat \ {0} /\ BcastCap \in Nat \ {0}

VARIABLES
  run,        \* the caller: "idle", or "accepting" inside run()
  running,    \* Hub.running
  open,       \* HostedRoom has its stream_rx
  texts,      \* calls of broadcast_hub and broadcast_ping so far
  conn,       \* handle_connection of each stream: its next step
  nonce,      \* the nonce each stream presented
  used,       \* used_nonces
  lock,       \* whose handshake holds the mutex of used_nonces
  accepted,   \* history: streams whose nonce was inserted
  peers,      \* PeerRegistry
  direct,     \* how many frames wait in the unbounded channel of each peer
  reader,     \* reader_task: "none", "reading", "sending", "casting", "done"
  held,       \* the message a reader is passing on
  frames,     \* frames read from each peer
  msgQ,       \* the channel of next_event: who the entry is from
  bcast,      \* every event put on the broadcast channel
  cursor,     \* the next index of bcast each writer receives
  out         \* the indexes of bcast written to each peer

callVars == <<run, running, open, texts>>
admitVars == <<nonce, used, lock, accepted>>
readVars == <<reader, held, frames>>
wireVars == <<bcast, cursor, out>>
vars == <<run, running, open, texts, conn, nonce, used, lock, accepted, peers,
          direct, reader, held, frames, msgQ, bcast, cursor, out>>

\* Events of the broadcast channel; i is the frame's or the call's number.
Event == [type : {"Message", "PeerJoin", "PeerLeave"}, who : Conns \cup {HubId}, n : Nat]
Message(p, n) == [type |-> "Message", who |-> p, n |-> n]
PeerJoin(c)   == [type |-> "PeerJoin", who |-> c, n |-> 0]
PeerLeave(c)  == [type |-> "PeerLeave", who |-> c, n |-> 0]

ConnState == {"none", "hello", "nonce", "reject", "ack", "register", "join", "split",
              "subscribe", "write", "deregister", "system", "leave", "closed", "refused"}

Init ==
  /\ run = "idle" /\ running = FALSE /\ open = TRUE /\ texts = 0
  /\ conn = [c \in Conns |-> "none"] /\ nonce = [c \in Conns |-> NoNonce]
  /\ used = {} /\ lock = NoConn /\ accepted = {} /\ peers = {}
  /\ direct = [c \in Conns |-> 0]
  /\ reader = [c \in Conns |-> "none"] /\ held = [c \in Conns |-> "Chat"]
  /\ frames = [c \in Conns |-> 0] /\ msgQ = <<>>
  /\ bcast = <<>> /\ cursor = [c \in Conns |-> 0] /\ out = [c \in Conns |-> <<>>]

-----------------------------------------------------------------------------
(* The caller *)

Run ==
  /\ run = "idle"
  /\ run' = "accepting" /\ running' = TRUE
  /\ UNCHANGED <<open, texts, conn, admitVars, peers, direct, readVars, msgQ, wireVars>>

\* accept_next: a stream arrives and gets its task.
AcceptNext(c) ==
  /\ run = "accepting" /\ open /\ conn[c] = "none"
  /\ conn' = [conn EXCEPT ![c] = "hello"]
  /\ UNCHANGED <<callVars, admitVars, peers, direct, readVars, msgQ, wireVars>>

\* accept_peer yields None, because the room was shut down or arti stopped.
RunReturns ==
  /\ run = "accepting"
  /\ run' = "idle" /\ running' = FALSE
  /\ UNCHANGED <<open, texts, conn, admitVars, peers, direct, readVars, msgQ, wireVars>>

\* The caller drops the future of run(): running keeps its value.
RunDropped ==
  /\ run = "accepting"
  /\ run' = "idle"
  /\ UNCHANGED <<running, open, texts, conn, admitVars, peers, direct, readVars, msgQ, wireVars>>

\* Without running it returns None and leaves the channel alone.
NextEvent ==
  /\ run = "idle" /\ running /\ msgQ # <<>>
  /\ msgQ' = Tail(msgQ)
  /\ UNCHANGED <<callVars, conn, admitVars, peers, direct, readVars, wireVars>>

Shutdown ==
  /\ run = "idle" /\ open
  /\ open' = FALSE /\ running' = FALSE
  /\ UNCHANGED <<run, texts, conn, admitVars, peers, direct, readVars, msgQ, wireVars>>

\* The receiver of a peer's own channel lives until writer_task returns.
Alive(c) == conn[c] \in {"join", "split", "subscribe", "write"}

\* broadcast_to_all: a frame for the channel of every peer in the registry.
ToAll ==
  direct' = [c \in Conns |-> IF c \in peers /\ Alive(c) THEN direct[c] + 1 ELSE direct[c]]

\* The text goes out twice: as an event, and as a frame to every peer.
BroadcastHub ==
  /\ run = "idle" /\ texts < MaxTexts
  /\ texts' = texts + 1
  /\ bcast' = Append(bcast, Message(HubId, texts + 1))
  /\ ToAll
  /\ UNCHANGED <<run, running, open, conn, admitVars, peers, readVars, msgQ, cursor, out>>

BroadcastPing ==
  /\ run = "idle" /\ texts < MaxTexts
  /\ texts' = texts + 1
  /\ ToAll
  /\ UNCHANGED <<run, running, open, conn, admitVars, peers, readVars, msgQ, wireVars>>

-----------------------------------------------------------------------------
(* handle_connection *)

Goto(c, s) == conn' = [conn EXCEPT ![c] = s]

\* The 32 bytes are complete.
ReadHello(c) ==
  /\ conn[c] = "hello"
  /\ Goto(c, "nonce")
  /\ \E n \in Nonces : nonce' = [nonce EXCEPT ![c] = n]
  /\ UNCHANGED <<callVars, used, lock, accepted, peers, direct, readVars, msgQ, wireVars>>

\* Mutant: the nonce is inserted without the test.
CheckNonceNoTest(c) ==
  /\ conn[c] = "nonce" /\ lock = NoConn
  /\ Goto(c, "ack") /\ used' = used \cup {nonce[c]} /\ accepted' = accepted \cup {c}
  /\ UNCHANGED <<callVars, nonce, lock, peers, direct, readVars, msgQ, wireVars>>

\* The nonce is tested and inserted under the mutex, which is kept while the
\* reject byte is written.
CheckNonce(c) ==
  /\ conn[c] = "nonce" /\ lock = NoConn
  /\ \/ /\ nonce[c] \in used
        /\ Goto(c, "reject") /\ lock' = c
        /\ UNCHANGED <<used, accepted>>
     \/ /\ nonce[c] \notin used
        /\ Goto(c, "ack") /\ used' = used \cup {nonce[c]} /\ accepted' = accepted \cup {c}
        /\ UNCHANGED lock
  /\ UNCHANGED <<callVars, nonce, peers, direct, readVars, msgQ, wireVars>>

Reject(c) ==
  /\ conn[c] = "reject"
  /\ Goto(c, "refused") /\ lock' = NoConn
  /\ UNCHANGED <<callVars, nonce, used, accepted, peers, direct, readVars, msgQ, wireVars>>

WriteAck(c) ==
  /\ conn[c] = "ack"
  /\ Goto(c, "register")
  /\ UNCHANGED <<callVars, admitVars, peers, direct, readVars, msgQ, wireVars>>

\* End of file, an error or a timeout while reading or acknowledging.
HandshakeFails(c) ==
  /\ conn[c] \in {"hello", "ack"}
  /\ Goto(c, "refused")
  /\ UNCHANGED <<callVars, admitVars, peers, direct, readVars, msgQ, wireVars>>

Register(c) ==
  /\ conn[c] = "register"
  /\ Goto(c, "join") /\ peers' = peers \cup {c}
  /\ UNCHANGED <<callVars, admitVars, direct, readVars, msgQ, wireVars>>

AnnounceJoin(c) ==
  /\ conn[c] = "join"
  /\ Goto(c, "split") /\ bcast' = Append(bcast, PeerJoin(c))
  /\ UNCHANGED <<callVars, admitVars, peers, direct, readVars, msgQ, cursor, out>>

SpawnReader(c) ==
  /\ conn[c] = "split"
  /\ Goto(c, "subscribe") /\ reader' = [reader EXCEPT ![c] = "reading"]
  /\ UNCHANGED <<callVars, admitVars, peers, direct, held, frames, msgQ, wireVars>>

\* Mutant: the receiver starts with the oldest event still held.
SubscribeFromStart(c) ==
  /\ conn[c] = "subscribe"
  /\ Goto(c, "write") /\ cursor' = [cursor EXCEPT ![c] = 1]
  /\ UNCHANGED <<callVars, admitVars, peers, direct, readVars, msgQ, bcast, out>>

Subscribe(c) ==
  /\ conn[c] = "subscribe"
  /\ Goto(c, "write") /\ cursor' = [cursor EXCEPT ![c] = Len(bcast) + 1]
  /\ UNCHANGED <<callVars, admitVars, peers, direct, readVars, msgQ, bcast, out>>

Deregister(c) ==
  /\ conn[c] = "deregister"
  /\ Goto(c, "system") /\ peers' = peers \ {c}
  /\ UNCHANGED <<callVars, admitVars, direct, readVars, msgQ, wireVars>>

\* Mutant: the notice is put on the channel whether it has room or not.
SystemLeftUnbounded(c) ==
  /\ conn[c] = "system"
  /\ Goto(c, "leave") /\ msgQ' = Append(msgQ, HubId)
  /\ UNCHANGED <<callVars, admitVars, peers, direct, readVars, wireVars>>

\* "... left" goes to the channel of next_event, which may be full.
SystemLeft(c) ==
  /\ conn[c] = "system" /\ Len(msgQ) < MsgCap
  /\ Goto(c, "leave") /\ msgQ' = Append(msgQ, HubId)
  /\ UNCHANGED <<callVars, admitVars, peers, direct, readVars, wireVars>>

AnnounceLeave(c) ==
  /\ conn[c] = "leave"
  /\ Goto(c, "closed") /\ bcast' = Append(bcast, PeerLeave(c))
  /\ UNCHANGED <<callVars, admitVars, peers, direct, readVars, msgQ, cursor, out>>

-----------------------------------------------------------------------------
(* reader_task: nothing ends it but the peer *)

\* A frame: a ping is answered through the writer, a malformed one ends the
\* task, the others are passed on.
ReaderFrame(c, k) ==
  /\ reader[c] = "reading" /\ frames[c] < MaxFrames
  /\ frames' = [frames EXCEPT ![c] = @ + 1]
  /\ \/ /\ k = "Ping"
        /\ direct' = IF Alive(c) THEN [direct EXCEPT ![c] = @ + 1] ELSE direct
        /\ UNCHANGED <<reader, held>>
     \/ /\ k = "Malformed" /\ reader' = [reader EXCEPT ![c] = "done"]
        /\ UNCHANGED <<held, direct>>
     \/ /\ k \in {"Chat", "Other"} /\ reader' = [reader EXCEPT ![c] = "sending"]
        /\ held' = [held EXCEPT ![c] = k] /\ UNCHANGED direct
  /\ UNCHANGED <<callVars, conn, admitVars, peers, msgQ, wireVars>>

\* msg_tx.send(..).await, which waits for room.
ReaderForward(c) ==
  /\ reader[c] = "sending" /\ Len(msgQ) < MsgCap
  /\ msgQ' = Append(msgQ, c)
  /\ reader' = [reader EXCEPT ![c] = IF held[c] = "Chat" THEN "casting" ELSE "reading"]
  /\ UNCHANGED <<callVars, conn, admitVars, peers, direct, held, frames, wireVars>>

\* The chat message is put on the broadcast channel.
ReaderCast(c) ==
  /\ reader[c] = "casting"
  /\ bcast' = Append(bcast, Message(c, frames[c]))
  /\ reader' = [reader EXCEPT ![c] = "reading"]
  /\ UNCHANGED <<callVars, conn, admitVars, peers, direct, held, frames, msgQ, cursor, out>>

ReaderEnds(c) ==
  /\ reader[c] = "reading"
  /\ reader' = [reader EXCEPT ![c] = "done"]
  /\ UNCHANGED <<callVars, conn, admitVars, peers, direct, held, frames, msgQ, wireVars>>

-----------------------------------------------------------------------------
(* writer_task: only a write that times out ends it, since its own frame of  *)
(* the stack keeps a sender of each of its two channels                      *)

HasNext(c) == direct[c] = 0 /\ cursor[c] <= Len(bcast)
Lags(c)    == Len(bcast) - cursor[c] >= BcastCap

\* The peer's own channel comes first.
WriteDirect(c) ==
  /\ conn[c] = "write" /\ direct[c] > 0
  /\ direct' = [direct EXCEPT ![c] = @ - 1]
  /\ UNCHANGED <<callVars, conn, admitVars, peers, readVars, msgQ, wireVars>>

\* An event is written; a write that fails is not looked at.
WriteEvent(c) ==
  /\ conn[c] = "write" /\ HasNext(c) /\ ~Lags(c)
  /\ cursor' = [cursor EXCEPT ![c] = @ + 1]
  /\ \E f \in {<<>>, <<cursor[c]>>} : out' = [out EXCEPT ![c] = @ \o f]
  /\ UNCHANGED <<callVars, conn, admitVars, peers, direct, readVars, msgQ, bcast>>

WriteLagged(c) ==
  /\ conn[c] = "write" /\ HasNext(c) /\ Lags(c)
  /\ cursor' = [cursor EXCEPT ![c] = Len(bcast) - BcastCap + 1]
  /\ UNCHANGED <<callVars, conn, admitVars, peers, direct, readVars, msgQ, bcast, out>>

\* WRITE_TIMEOUT expires: the task returns, and its channels go with it.
WriteTimesOut(c) ==
  /\ conn[c] = "write" /\ (direct[c] > 0 \/ (HasNext(c) /\ ~Lags(c)))
  /\ Goto(c, "deregister") /\ direct' = [direct EXCEPT ![c] = 0]
  /\ UNCHANGED <<callVars, admitVars, peers, readVars, msgQ, wireVars>>

-----------------------------------------------------------------------------
Connection(c) ==
  \/ ReadHello(c) \/ CheckNonce(c) \/ Reject(c) \/ WriteAck(c) \/ HandshakeFails(c)
  \/ Register(c) \/ AnnounceJoin(c) \/ SpawnReader(c) \/ Subscribe(c)
  \/ WriteDirect(c) \/ WriteEvent(c) \/ WriteLagged(c) \/ WriteTimesOut(c)
  \/ Deregister(c) \/ SystemLeft(c) \/ AnnounceLeave(c)

Next ==
  \/ Run \/ RunReturns \/ RunDropped \/ NextEvent \/ Shutdown
  \/ BroadcastHub \/ BroadcastPing
  \/ \E c \in Conns :
       \/ AcceptNext(c) \/ Connection(c)
       \/ \E k \in {"Chat", "Other", "Ping", "Malformed"} : ReaderFrame(c, k)
       \/ ReaderForward(c) \/ ReaderCast(c) \/ ReaderEnds(c)

Spec == Init /\ [][Next]_vars

-----------------------------------------------------------------------------
(* Properties *)

CallTypeOK ==
  /\ run \in {"idle", "accepting"} /\ running \in BOOLEAN /\ open \in BOOLEAN
  /\ texts \in 0 .. MaxTexts

ConnTypeOK ==
  /\ conn \in [Conns -> ConnState] /\ nonce \in [Conns -> Nonces \cup {NoNonce}]
  /\ used \subseteq Nonces /\ lock \in Conns \cup {NoConn}
  /\ accepted \subseteq Conns /\ peers \subseteq Conns

ReadTypeOK ==
  /\ reader \in [Conns -> {"none", "reading", "sending", "casting", "done"}]
  /\ held \in [Conns -> {"Chat", "Other"}] /\ frames \in [Conns -> 0 .. MaxFrames]
  /\ msgQ \in Seq(Conns \cup {HubId}) /\ Len(msgQ) <= MsgCap

WireTypeOK ==
  /\ direct \in [Conns -> Nat] /\ bcast \in Seq(Event)
  /\ cursor \in [Conns -> Nat] /\ out \in [Conns -> Seq(Nat)]

\* Every variable stays in its domain; the channel of next_event stays within
\* its capacity.
TypeOK == CallTypeOK /\ ConnTypeOK /\ ReadTypeOK /\ WireTypeOK

\* A peer is told nothing that happened before it joined, its own join
\* included, and everything else in order (run_peer_io subscribes late).
ToldLaterInOrder ==
  \A c \in Conns : \A i \in DOMAIN out[c] :
    /\ \E j \in 1 .. out[c][i] - 1 : bcast[j] = PeerJoin(c)
    /\ \A j \in 1 .. i - 1 : out[c][j] < out[c][i]

-----------------------------------------------------------------------------
(* What the Hub implements *)

\* The stream a nonce was spent on, and where a stream stands.
Owner == [n \in Nonces |->
  IF \E c \in accepted : nonce[c] = n
  THEN CHOOSE c \in accepted : nonce[c] = n ELSE NoConn]

Place == [c \in Conns |->
  IF c \in peers THEN "inside"
  ELSE IF conn[c] \in {"system", "leave", "closed"} THEN "left" ELSE "outside"]

Guests == INSTANCE Admission WITH
  Invites <- Nonces, Nobody <- NoConn, owner <- Owner, place <- Place

\* The Hub admits like the host room (Hub::handshake, register_peer,
\* deregister_peer): an invite gets one stream in, once, and who is out after
\* having been in stays out.
AdmitsByInvite == Guests!Spec
=============================================================================
