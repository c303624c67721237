------------------------------ MODULE HostRoom ------------------------------
(***************************************************************************)
(* The host side of a running room (crates/core/src/room.rs): the main     *)
(* loop of run_host_loop, the accept loop, one handle_hub_connection task  *)
(* per accepted stream with the reader and the writer it spawns, and the   *)
(* state these tasks share: the used nonces behind their mutex, the peer   *)
(* registry, the bounded event channel to the user interface, the bounded  *)
(* channel from the readers to the main loop, the wire broadcast channel,  *)
(* the send channel of the RoomHandle and the shutdown watch channel.      *)
(*                                                                         *)
(* The model starts where run_host_loop has sent RoomReady and spawned the *)
(* accept loop.  A connection c \in Conns is one incoming stream; its      *)
(* discriminator is drawn at random by the joiner for that stream alone,   *)
(* so c also stands for the PeerId.  Nonces are not tied to connections:   *)
(* two streams may present the same invite.                                *)
(***************************************************************************)
EXTENDS Naturals, Sequences, FiniteSets

CONSTANTS
  Conns,      \* incoming streams, each with its own PeerId
  Nonces,     \* invite nonces that joiners present
  Hub,        \* PeerId("[hub]"), the sender of the host's own messages
  NoConn,     \* the nonce mutex is free
  NoNonce,    \* the stream has not presented a nonce yet
  Sends,      \* 1..number of RoomHandle::send calls
  BigSends,   \* the calls whose text exceeds MAX_PAYLOAD_BYTES once encoded
  MaxFrames,  \* bound: frames that a peer sends, pings not counted
  SendCap,    \* SEND_CHAN_CAP
  MsgCap,     \* MSG_CHAN_CAP
  EventCap,   \* EVENT_CHAN_CAP
  BcastCap    \* BROADCAST_CHAN_CAP

ASSUME ConstAssumption ==
  /\ Hub \notin Conns /\ NoConn \notin Conns /\ NoNonce \notin Nonces
  /\ Sends \subseteq Nat \ {0} /\ BigSends \subseteq Sends
  /\ MaxFrames \in Nat
  /\ SendCap \in Nat \ {0} /\ MsgCap \in Nat \ {0}
  /\ EventCap \in Nat \ {0} /\ BcastCap \in Nat \ {0}

VARIABLES
  handle,     \* the RoomHandle: "held", "sendDropped", "gone"
  shutdown,   \* the watch channel was signalled, or its sender is gone
  send,       \* [Sends -> "idle" | "sending" | "ok" | "err"]
  sendQ,      \* the send channel
  main,       \* run_host_loop: "polled", "top", "stopping", "done"
  accept,     \* accept_loop: "polled", "top", "ended"
  conn,       \* handle_hub_connection of each stream: its next step
  nonce,      \* the nonce each stream presented
  used,       \* used_nonces
  lock,       \* the stream whose handler holds the mutex of used_nonces
  accepted,   \* history: streams whose nonce was inserted
  peers,      \* the registry RoomInner.peers
  reader,     \* hub_reader_task: "none", "reading", "sending", "done"
  held,       \* the message a reader is handing to msg_tx
  frames,     \* frames other than pings read from each peer so far
  msgQ,       \* the channel from the readers to the main loop
  bcast,      \* every message put on the wire broadcast channel
  writer,     \* the writer task: "none", "running", "exited"
  cursor,     \* the next index of bcast each writer receives
  out,        \* indexes of bcast written to each peer
  events,     \* every event accepted by the event channel
  evRead,     \* how many of them the EventStream has yielded
  evOpen,     \* the EventStream has not been dropped
  lost        \* events that try_send could not deliver

handleVars == <<handle, shutdown, send, sendQ>>
admitVars  == <<nonce, used, lock, accepted>>
readVars   == <<reader, held, frames, msgQ>>
wireVars   == <<bcast, writer, cursor, out>>
eventVars  == <<events, evRead, evOpen, lost>>
taskVars   == <<main, accept, conn, peers>>

\* What the user interface, a handler, and a reader or writer leave alone.
roomVars   == <<taskVars, admitVars, readVars, wireVars>>
ctxVars    == <<handleVars, main, accept>>
coreVars   == <<handleVars, taskVars, admitVars>>
vars == <<handle, shutdown, send, sendQ, main, accept, conn, nonce, used, lock,
          accepted, peers, reader, held, frames, msgQ, bcast, writer, cursor,
          out, events, evRead, evOpen, lost>>

-----------------------------------------------------------------------------
(* Values *)

Senders == Conns \cup {Hub}

\* ChatEvent, without the payloads that no property tells apart: who it is
\* about and, for a message, its number among the messages of that sender.
Event == [type : {"RoomReady", "RoomClosed", "PeerJoin", "PeerLeave", "Message"},
          who : Senders, n : Nat]

RoomReady      == [type |-> "RoomReady",  who |-> Hub, n |-> 0]
RoomClosed     == [type |-> "RoomClosed", who |-> Hub, n |-> 0]
PeerJoin(c)    == [type |-> "PeerJoin",   who |-> c,   n |-> 0]
PeerLeave(c)   == [type |-> "PeerLeave",  who |-> c,   n |-> 0]
Message(p, n)  == [type |-> "Message",    who |-> p,   n |-> n]

\* The kinds of frame that change a reader's state.  A payload decode_message
\* rejects is "Malformed"; System and Pong ("Other") are forwarded to the main
\* loop, which ignores them; a Ping is skipped by the reader: a stuttering step.
FrameKind == {"Chat", "Other", "Malformed"}
WireMsg   == [kind : {"Chat", "Other"}, from : Senders, n : Nat]

ConnState == {"none", "handshake", "nonce", "reject", "ack", "name", "register",
              "join", "greet", "subscribe", "serve", "deregister", "leave",
              "closed", "refused"}

\* The handler is past admission and its peer is, or is about to be, known.
Admitted == {"register", "join", "greet", "subscribe", "serve", "deregister",
             "leave", "closed"}
Finished == {"none", "closed", "refused"}
Stopping == {"deregister", "leave", "closed"}

\* Mutant: the event channel has no capacity.
TryEmitUnbounded(e) ==
  /\ events' = Append(events, e)
  /\ UNCHANGED <<evRead, evOpen, lost>>

\* mpsc::Sender::try_send on the event channel, its result ignored.
TryEmit(e) ==
  /\ IF evOpen /\ Len(events) - evRead < EventCap
     THEN events' = Append(events, e) /\ UNCHANGED lost
     ELSE lost' = lost \cup {e} /\ UNCHANGED events
  /\ UNCHANGED <<evRead, evOpen>>

\* A biased select polls the shutdown signal before its other branches, but a
\* signal sent after that poll is only seen at the next one: a loop in state
\* "polled" may still take one other branch, a loop in state "top" may not.
AfterPoll == IF shutdown THEN "top" ELSE "polled"

-----------------------------------------------------------------------------
Init ==
  /\ handle = "held" /\ shutdown = FALSE
  /\ send = [s \in Sends |-> "idle"] /\ sendQ = <<>>
  /\ main = "polled" /\ accept = "polled"
  /\ conn = [c \in Conns |-> "none"]
  /\ nonce = [c \in Conns |-> NoNonce]
  /\ used = {} /\ lock = NoConn /\ accepted = {} /\ peers = {}
  /\ reader = [c \in Conns |-> "none"]
  /\ held = [c \in Conns |-> [kind |-> "Other", from |-> c, n |-> 0]]
  /\ frames = [c \in Conns |-> 0]
  /\ msgQ = <<>> /\ bcast = <<>>
  /\ writer = [c \in Conns |-> "none"]
  /\ cursor = [c \in Conns |-> 0]
  /\ out = [c \in Conns |-> <<>>]
  /\ events = <<RoomReady>> /\ evRead = 0 /\ evOpen = TRUE /\ lost = {}

-----------------------------------------------------------------------------
(* The RoomHandle and the EventStream, in the hands of the user interface *)

\* RoomHandle::send: the test of quit_flag.
SendBegin(s) ==
  /\ handle = "held" /\ ~shutdown
  /\ send[s] = "idle"
  /\ send' = [send EXCEPT ![s] = "sending"]
  /\ UNCHANGED <<handle, shutdown, sendQ, roomVars, eventVars>>

\* Mutant: the call waits for room only, a closed channel does not wake it.
SendCompleteWaits(s) ==
  /\ send[s] = "sending"
  /\ main # "done" /\ Len(sendQ) < SendCap
  /\ sendQ' = Append(sendQ, s)
  /\ send' = [send EXCEPT ![s] = "ok"]
  /\ UNCHANGED <<handle, shutdown, roomVars, eventVars>>

\* RoomHandle::send: the await on send_tx.  The receiver lives until
\* run_host_loop returns.
SendComplete(s) ==
  /\ send[s] = "sending"
  /\ \/ /\ main # "done" /\ Len(sendQ) < SendCap
        /\ sendQ' = Append(sendQ, s)
        /\ send' = [send EXCEPT ![s] = "ok"]
     \/ /\ main = "done"
        /\ send' = [send EXCEPT ![s] = "err"]
        /\ UNCHANGED sendQ
  /\ UNCHANGED <<handle, shutdown, roomVars, eventVars>>

\* RoomHandle::quit, or the drop of the last handle when it sees a strong
\* count of 1: do_quit signals the watch channel once.
Quit ==
  /\ handle = "held" /\ ~shutdown
  /\ shutdown' = TRUE
  /\ UNCHANGED <<handle, send, sendQ, roomVars, eventVars>>

\* RoomInner is freed field by field, send_tx before shutdown_tx.  Two handles
\* dropped at once may both see a strong count of 2, so do_quit need not have
\* run.  A send in progress keeps its handle alive.
DropSendTx ==
  /\ handle = "held"
  /\ \A s \in Sends : send[s] # "sending"
  /\ handle' = "sendDropped"
  /\ UNCHANGED <<shutdown, send, sendQ, roomVars, eventVars>>

DropShutdownTx ==
  /\ handle = "sendDropped"
  /\ handle' = "gone"
  /\ shutdown' = TRUE
  /\ UNCHANGED <<send, sendQ, roomVars, eventVars>>

\* The user interface receives the next event.
Consume ==
  /\ evOpen /\ evRead < Len(events)
  /\ evRead' = evRead + 1
  /\ UNCHANGED <<handleVars, roomVars, events, evOpen, lost>>

DropStream ==
  /\ evOpen
  /\ evOpen' = FALSE
  /\ UNCHANGED <<handleVars, roomVars, events, evRead, lost>>

-----------------------------------------------------------------------------
(* The main loop *)

\* Mutant: the loop ends without a word.
MainShutdownSilent ==
  /\ main \in {"polled", "top"} /\ shutdown
  /\ main' = "stopping"
  /\ UNCHANGED <<handleVars, accept, conn, admitVars, peers, readVars, wireVars, eventVars>>

MainShutdown ==
  /\ main \in {"polled", "top"} /\ shutdown
  /\ main' = "stopping"
  /\ TryEmit(RoomClosed)
  /\ UNCHANGED <<handleVars, accept, conn, admitVars, peers, readVars, wireVars>>

\* send_rx yields a text: echo it locally, then put it on the broadcast.
MainSend ==
  /\ main = "polled" /\ sendQ # <<>>
  /\ sendQ' = Tail(sendQ)
  /\ TryEmit(Message(Hub, Head(sendQ)))
  /\ bcast' = Append(bcast, [kind |-> "Chat", from |-> Hub, n |-> Head(sendQ)])
  /\ main' = AfterPoll
  /\ UNCHANGED <<handle, shutdown, send, accept, conn, admitVars, peers, readVars, writer, cursor, out>>

\* send_rx yields None: every RoomHandle is gone.  No RoomClosed is emitted.
MainSendClosed ==
  /\ main = "polled" /\ sendQ = <<>> /\ handle # "held"
  /\ main' = "stopping"
  /\ UNCHANGED <<handleVars, accept, conn, admitVars, peers, readVars, wireVars, eventVars>>

\* msg_rx yields a message of a peer: only a chat message becomes an event.
MainMsg ==
  /\ main = "polled" /\ sendQ = <<>> /\ handle = "held"
  /\ msgQ # <<>>
  /\ msgQ' = Tail(msgQ)
  /\ IF Head(msgQ).kind = "Chat"
     THEN TryEmit(Message(Head(msgQ).from, Head(msgQ).n))
     ELSE UNCHANGED eventVars
  /\ main' = AfterPoll
  /\ UNCHANGED <<handleVars, accept, conn, admitVars, peers, reader, held, frames, wireVars>>

\* accept_handle is aborted and awaited; the function returns and drops its
\* receivers and its event sender.
MainReturn ==
  /\ main = "stopping"
  /\ main' = "done"
  /\ accept' = "ended"
  /\ UNCHANGED <<handleVars, conn, admitVars, peers, readVars, wireVars, eventVars>>

-----------------------------------------------------------------------------
(* The accept loop *)

AcceptStream(c) ==
  /\ accept = "polled"
  /\ conn[c] = "none"
  /\ conn' = [conn EXCEPT ![c] = "handshake"]
  /\ accept' = AfterPoll
  /\ UNCHANGED <<handleVars, main, admitVars, peers, readVars, wireVars, eventVars>>

AcceptShutdown ==
  /\ accept \in {"polled", "top"} /\ shutdown
  /\ accept' = "ended"
  /\ UNCHANGED <<handleVars, main, conn, admitVars, peers, readVars, wireVars, eventVars>>

\* source.accept() yields None: the onion service no longer accepts.
AcceptClosed ==
  /\ accept = "polled"
  /\ accept' = "ended"
  /\ UNCHANGED <<handleVars, main, conn, admitVars, peers, readVars, wireVars, eventVars>>

-----------------------------------------------------------------------------
(* handle_hub_connection: the handshake *)

Goto(c, s) == conn' = [conn EXCEPT ![c] = s]

\* The 32 handshake bytes arrive.
ReadHandshake(c) ==
  /\ conn[c] = "handshake"
  /\ Goto(c, "nonce")
  /\ \E n \in Nonces : nonce' = [nonce EXCEPT ![c] = n]
  /\ UNCHANGED <<ctxVars, used, lock, accepted, peers, readVars, wireVars, eventVars>>

\* Mutant: the nonce is inserted without the test.
CheckNonceNoTest(c) ==
  /\ conn[c] = "nonce" /\ lock = NoConn
  /\ Goto(c, "ack")
  /\ used' = used \cup {nonce[c]}
  /\ accepted' = accepted \cup {c}
  /\ UNCHANGED <<lock, ctxVars, nonce, peers, readVars, wireVars, eventVars>>

\* The nonce is tested and inserted under the mutex.  On a reused nonce the
\* mutex is kept while the reject byte is written.
CheckNonce(c) ==
  /\ conn[c] = "nonce" /\ lock = NoConn
  /\ \/ /\ nonce[c] \in used
        /\ Goto(c, "reject")
        /\ lock' = c
        /\ UNCHANGED <<used, accepted>>
     \/ /\ nonce[c] \notin used
        /\ Goto(c, "ack")
        /\ used' = used \cup {nonce[c]}
        /\ accepted' = accepted \cup {c}
        /\ UNCHANGED lock
  /\ UNCHANGED <<ctxVars, nonce, peers, readVars, wireVars, eventVars>>

\* Mutant: the handshake goes on after the reject byte.
RejectGoesOn(c) ==
  /\ conn[c] = "reject"
  /\ Goto(c, "name")
  /\ lock' = NoConn
  /\ UNCHANGED <<ctxVars, nonce, used, accepted, peers, readVars, wireVars, eventVars>>

\* The reject byte is written, or fails to be; then the mutex is released.
Reject(c) ==
  /\ conn[c] = "reject"
  /\ Goto(c, "refused")
  /\ lock' = NoConn
  /\ UNCHANGED <<ctxVars, nonce, used, accepted, peers, readVars, wireVars, eventVars>>

\* The accept byte is written and flushed.
WriteAck(c) ==
  /\ conn[c] = "ack"
  /\ Goto(c, "name")
  /\ UNCHANGED <<ctxVars, admitVars, peers, readVars, wireVars, eventVars>>

\* The first wire message brings the display name.
ReadName(c) ==
  /\ conn[c] = "name"
  /\ Goto(c, "register")
  /\ UNCHANGED <<ctxVars, admitVars, peers, readVars, wireVars, eventVars>>

\* A timeout, a stream error or an undecodable name ends the handshake.
HandshakeFails(c) ==
  /\ conn[c] \in {"handshake", "ack", "name"}
  /\ Goto(c, "refused")
  /\ UNCHANGED <<ctxVars, admitVars, peers, readVars, wireVars, eventVars>>

-----------------------------------------------------------------------------
(* handle_hub_connection: from registration to the end *)

\* Mutant: the reader is spawned before the join is announced.
RegisterSpawnsReader(c) ==
  /\ conn[c] = "register"
  /\ peers' = peers \cup {c}
  /\ reader' = [reader EXCEPT ![c] = "reading"]
  /\ Goto(c, "join")
  /\ UNCHANGED <<ctxVars, admitVars, held, frames, msgQ, wireVars, eventVars>>

Register(c) ==
  /\ conn[c] = "register"
  /\ peers' = peers \cup {c}
  /\ Goto(c, "join")
  /\ UNCHANGED <<ctxVars, admitVars, readVars, wireVars, eventVars>>

EmitJoin(c) ==
  /\ conn[c] = "join"
  /\ TryEmit(PeerJoin(c))
  /\ Goto(c, "greet")
  /\ UNCHANGED <<ctxVars, admitVars, peers, readVars, wireVars>>

\* The join notice is written to the peer, whatever comes of it; the stream is
\* split and the reader spawned.
GreetAndSpawnReader(c) ==
  /\ conn[c] = "greet"
  /\ reader' = [reader EXCEPT ![c] = "reading"]
  /\ Goto(c, "subscribe")
  /\ UNCHANGED <<ctxVars, admitVars, peers, held, frames, msgQ, wireVars, eventVars>>

\* wire_broadcast.subscribe(): the writer will receive what is sent from here.
SubscribeWriter(c) ==
  /\ conn[c] = "subscribe"
  /\ writer' = [writer EXCEPT ![c] = "running"]
  /\ cursor' = [cursor EXCEPT ![c] = Len(bcast) + 1]
  /\ Goto(c, "serve")
  /\ UNCHANGED <<ctxVars, admitVars, peers, readVars, bcast, out, eventVars>>

\* Mutant: only the reader ends the select, the shutdown signal is not watched.
StopServingOnReader(c) ==
  /\ conn[c] = "serve"
  /\ reader[c] = "done"
  /\ Goto(c, "deregister")
  /\ UNCHANGED <<ctxVars, admitVars, peers, readVars, wireVars, eventVars>>

\* Mutant: only the shutdown signal ends the select.
StopServingOnShutdown(c) ==
  /\ conn[c] = "serve"
  /\ shutdown
  /\ Goto(c, "deregister")
  /\ UNCHANGED <<ctxVars, admitVars, peers, readVars, wireVars, eventVars>>

\* The select waits for the reader to finish or for the shutdown signal; the
\* aborts it requests take effect later (ReaderAborted, WriterAborted).
StopServing(c) ==
  /\ conn[c] = "serve"
  /\ reader[c] = "done" \/ shutdown
  /\ Goto(c, "deregister")
  /\ UNCHANGED <<ctxVars, admitVars, peers, readVars, wireVars, eventVars>>

\* Mutant: the registry keeps the peer.
DeregisterKeepsPeer(c) ==
  /\ conn[c] = "deregister"
  /\ Goto(c, "leave")
  /\ UNCHANGED <<ctxVars, admitVars, peers, readVars, wireVars, eventVars>>

Deregister(c) ==
  /\ conn[c] = "deregister"
  /\ peers' = peers \ {c}
  /\ Goto(c, "leave")
  /\ UNCHANGED <<ctxVars, admitVars, readVars, wireVars, eventVars>>

EmitLeave(c) ==
  /\ conn[c] = "leave"
  /\ TryEmit(PeerLeave(c))
  /\ Goto(c, "closed")
  /\ UNCHANGED <<ctxVars, admitVars, peers, readVars, wireVars>>

-----------------------------------------------------------------------------
(* hub_reader_task *)

\* A frame arrives.
ReaderFrame(c, k) ==
  /\ reader[c] = "reading"
  /\ frames[c] < MaxFrames
  /\ frames' = [frames EXCEPT ![c] = @ + 1]
  /\ IF k = "Malformed"
     THEN reader' = [reader EXCEPT ![c] = "done"] /\ UNCHANGED held
     ELSE /\ reader' = [reader EXCEPT ![c] = "sending"]
          /\ held' = [held EXCEPT ![c] = [kind |-> k, from |-> c, n |-> frames[c] + 1]]
  /\ UNCHANGED <<coreVars, msgQ, wireVars, eventVars>>

\* Mutant: the newest message is put in front of the queue.
ReaderForwardLifo(c) ==
  /\ reader[c] = "sending"
  /\ \/ main # "done" /\ Len(msgQ) < MsgCap /\ msgQ' = <<held[c]>> \o msgQ
     \/ main = "done" /\ UNCHANGED msgQ
  /\ reader' = [reader EXCEPT ![c] = "reading"]
  /\ UNCHANGED <<coreVars, held, frames, wireVars, eventVars>>

\* msg_tx.send(..).await: waits for room; an error (no receiver) is ignored.
ReaderForward(c) ==
  /\ reader[c] = "sending"
  /\ \/ main # "done" /\ Len(msgQ) < MsgCap /\ msgQ' = Append(msgQ, held[c])
     \/ main = "done" /\ UNCHANGED msgQ
  /\ reader' = [reader EXCEPT ![c] = "reading"]
  /\ UNCHANGED <<coreVars, held, frames, wireVars, eventVars>>

\* The peer disconnects, or is silent for READ_TIMEOUT.
ReaderEnds(c) ==
  /\ reader[c] = "reading"
  /\ reader' = [reader EXCEPT ![c] = "done"]
  /\ UNCHANGED <<coreVars, held, frames, msgQ, wireVars, eventVars>>

ReaderAborted(c) ==
  /\ conn[c] \in Stopping /\ reader[c] \in {"reading", "sending"}
  /\ reader' = [reader EXCEPT ![c] = "done"]
  /\ UNCHANGED <<coreVars, held, frames, msgQ, wireVars, eventVars>>

-----------------------------------------------------------------------------
(* The writer task *)

HasNext(c) == cursor[c] <= Len(bcast)
\* The slot the cursor points at has been overwritten.
Lags(c)    == Len(bcast) - cursor[c] >= BcastCap

\* RecvError::Lagged: the receiver moves to the oldest message still held.
WriterLagged(c) ==
  /\ writer[c] = "running" /\ HasNext(c) /\ Lags(c)
  /\ cursor' = [cursor EXCEPT ![c] = Len(bcast) - BcastCap + 1]
  /\ UNCHANGED <<coreVars, readVars, bcast, writer, out, eventVars>>

\* A message is received and its frame written.
WriterWrites(c) ==
  /\ writer[c] = "running" /\ HasNext(c) /\ ~Lags(c)
  /\ bcast[cursor[c]].n \notin BigSends
  /\ cursor' = [cursor EXCEPT ![c] = @ + 1]
  /\ out' = [out EXCEPT ![c] = Append(@, cursor[c])]
  /\ UNCHANGED <<coreVars, readVars, bcast, writer, eventVars>>

\* encode_message refuses an oversized text, or write_all fails: is_err() looks
\* at the timeout alone, so in both cases the loop goes on with the next one.
WriterSkips(c) ==
  /\ writer[c] = "running" /\ HasNext(c) /\ ~Lags(c)
  /\ cursor' = [cursor EXCEPT ![c] = @ + 1]
  /\ UNCHANGED <<coreVars, readVars, bcast, writer, out, eventVars>>

\* Mutant: a write that timed out is tried again.
WriterTimesOutRetries(c) ==
  /\ writer[c] = "running" /\ HasNext(c) /\ ~Lags(c)
  /\ bcast[cursor[c]].n \notin BigSends
  /\ \/ UNCHANGED out
     \/ out' = [out EXCEPT ![c] = Append(@, cursor[c])]
  /\ UNCHANGED <<coreVars, readVars, bcast, writer, cursor, eventVars>>

\* WRITE_TIMEOUT expires on the write, or on the flush after it: the task
\* breaks its loop.
WriterTimesOut(c) ==
  /\ writer[c] = "running" /\ HasNext(c) /\ ~Lags(c)
  /\ bcast[cursor[c]].n \notin BigSends
  /\ cursor' = [cursor EXCEPT ![c] = @ + 1]
  /\ writer' = [writer EXCEPT ![c] = "exited"]
  /\ \/ UNCHANGED out
     \/ out' = [out EXCEPT ![c] = Append(@, cursor[c])]
  /\ UNCHANGED <<coreVars, readVars, bcast, eventVars>>

WriterAborted(c) ==
  /\ conn[c] \in Stopping /\ writer[c] = "running"
  /\ writer' = [writer EXCEPT ![c] = "exited"]
  /\ UNCHANGED <<coreVars, readVars, bcast, cursor, out, eventVars>>

-----------------------------------------------------------------------------
(* The specification *)

MainStep == MainShutdown \/ MainSend \/ MainSendClosed \/ MainMsg \/ MainReturn

Handshake(c) ==
  \/ ReadHandshake(c) \/ CheckNonce(c) \/ Reject(c) \/ WriteAck(c) \/ ReadName(c)
  \/ HandshakeFails(c)

Serve(c) ==
  \/ Register(c) \/ EmitJoin(c) \/ GreetAndSpawnReader(c) \/ SubscribeWriter(c)
  \/ StopServing(c) \/ Deregister(c) \/ EmitLeave(c)

WriterStep(c) ==
  \/ WriterLagged(c) \/ WriterWrites(c) \/ WriterSkips(c) \/ WriterTimesOut(c)
  \/ WriterAborted(c)

\* Every sender of the event channel is gone: recv() yields None once the
\* events still queued are read.
StreamEnded ==
  main = "done" /\ accept = "ended" /\ \A c \in Conns : conn[c] \in Finished

\* The room is over and nothing is left to run.
Terminated ==
  /\ StreamEnded
  /\ handle = "gone"
  /\ UNCHANGED vars

Next ==
  \/ \E s \in Sends : SendBegin(s) \/ SendComplete(s)
  \/ Quit \/ DropSendTx \/ DropShutdownTx \/ Consume \/ DropStream
  \/ MainStep
  \/ AcceptShutdown \/ AcceptClosed
  \/ \E c \in Conns :
       \/ AcceptStream(c) \/ Handshake(c) \/ Serve(c)
       \/ \E k \in FrameKind : ReaderFrame(c, k)
       \/ ReaderForward(c) \/ ReaderEnds(c) \/ ReaderAborted(c)
       \/ WriterStep(c)
  \/ Terminated

Spec == Init /\ [][Next]_vars

\* Tasks that can run do run, and timers fire.  The user and the peers owe
\* nothing: no fairness on SendBegin, Quit, Consume, DropStream, AcceptStream,
\* nor on what a reader reads (a peer that keeps sending never times out).
Fairness ==
  /\ \A s \in Sends : WF_vars(SendComplete(s))
  /\ WF_vars(DropShutdownTx)
  /\ WF_vars(MainStep)
  /\ WF_vars(AcceptShutdown)
  /\ \A c \in Conns :
       /\ WF_vars(Handshake(c)) /\ WF_vars(Serve(c))
       /\ WF_vars(ReaderForward(c)) /\ WF_vars(ReaderAborted(c))
       /\ WF_vars(WriterStep(c))

FairSpec == Spec /\ Fairness

-----------------------------------------------------------------------------
(* Properties *)

HandleTypeOK ==
  /\ handle \in {"held", "sendDropped", "gone"}
  /\ shutdown \in BOOLEAN
  /\ send \in [Sends -> {"idle", "sending", "ok", "err"}]
  /\ sendQ \in Seq(Sends) /\ Len(sendQ) <= SendCap

TaskTypeOK ==
  /\ main \in {"polled", "top", "stopping", "done"}
  /\ accept \in {"polled", "top", "ended"}
  /\ conn \in [Conns -> ConnState]
  /\ peers \subseteq Conns

AdmitTypeOK ==
  /\ nonce \in [Conns -> Nonces \cup {NoNonce}]
  /\ used \subseteq Nonces
  /\ lock \in Conns \cup {NoConn}
  /\ accepted \subseteq Conns

ReadTypeOK ==
  /\ reader \in [Conns -> {"none", "reading", "sending", "done"}]
  /\ held \in [Conns -> WireMsg]
  /\ frames \in [Conns -> 0 .. MaxFrames]
  /\ msgQ \in Seq(WireMsg) /\ Len(msgQ) <= MsgCap

WireTypeOK ==
  /\ bcast \in Seq(WireMsg)
  /\ writer \in [Conns -> {"none", "running", "exited"}]
  /\ cursor \in [Conns -> Nat]
  /\ out \in [Conns -> Seq(Nat)]

EventTypeOK ==
  /\ events \in Seq(Event)
  /\ evRead \in 0 .. Len(events) /\ Len(events) - evRead <= EventCap
  /\ evOpen \in BOOLEAN
  /\ lost \subseteq Event

\* Every variable stays in its domain and no bounded channel (send_tx, msg_tx,
\* event_tx) ever holds more than its capacity.
TypeOK ==
  HandleTypeOK /\ TaskTypeOK /\ AdmitTypeOK /\ ReadTypeOK /\ WireTypeOK /\ EventTypeOK

\* An invite admits at most one stream: no two streams are accepted on the same
\* nonce, however their handshakes interleave (hub_handshake, README "Each
\* nonce can only be used once").
NonceSingleUse ==
  \A c, d \in accepted : nonce[c] = nonce[d] => c = d

\* The room only knows peers whose stream passed the nonce check: a stream that
\* was refused never enters the registry and never gets a reader or a writer
\* (handle_hub_connection registers after hub_handshake).
OnlyAcceptedServed ==
  \A c \in Conns :
    c \in peers \/ reader[c] # "none" \/ writer[c] # "none" => c \in accepted

\* In the event stream a peer is announced once, before anything else is said
\* about it, and leaves at most once (the order of EmitJoin and of the spawn of
\* the reader in handle_hub_connection).
JoinFirst ==
  \A i, j \in DOMAIN events :
    events[i].type = "PeerJoin" /\ events[j].who = events[i].who =>
      /\ i <= j
      /\ events[j].type = "PeerJoin" => i = j

Emitted(e) == \E i \in DOMAIN events : events[i] = e

\* The list of peers a user interface builds from the events agrees with
\* RoomHandle::peers() whenever no event about the peer was dropped and its
\* handler is not between the registry update and the event.
ViewAgrees ==
  \A c \in Conns :
    /\ conn[c] \notin {"join", "leave"}
    /\ PeerJoin(c) \notin lost /\ PeerLeave(c) \notin lost
    => (c \in peers <=> Emitted(PeerJoin(c)) /\ ~Emitted(PeerLeave(c)))

\* RoomClosed is the last word to a user who still holds his handle: it is on
\* the event stream, or found no room there, when the main loop has stopped.
\* (With the handle gone the loop may see the closed channel first.)
ClosedIsAnnounced ==
  main \in {"stopping", "done"} /\ handle = "held" =>
    Emitted(RoomClosed) \/ RoomClosed \in lost

\* quit(), or the drop of the last handle, ends the event stream: every task
\* that holds a sender of it finishes ("The stream ends (None) when the room
\* shuts down", room.rs).
QuitEndsStream == shutdown ~> StreamEnded

\* A call of RoomHandle::send returns, also when the channel is full or the
\* room stops while the call waits.
SendReturns == \A s \in Sends : send[s] = "sending" ~> send[s] \in {"ok", "err"}

\* A peer whose reader ended is eventually removed from the registry.
ReaderEndDeregisters == \A c \in Conns : reader[c] = "done" ~> c \notin peers

-----------------------------------------------------------------------------
(* What the room implements *)

\* The numbers of the messages of c, where they stand on the event stream.
ShownAt(c) == {i \in DOMAIN events : events[i].type = "Message" /\ events[i].who = c}
Shown(c)   == [i \in ShownAt(c) |-> events[i].n]

\* The broadcast channel and the writer of each peer as a line to that peer.
ToPeers == INSTANCE Delivery WITH
  Lines <- Conns, MaySkip <- TRUE, put <- [c \in Conns |-> Len(bcast)], got <- out

\* The reader of each peer, the channel to the main loop and the event channel
\* as a line from that peer.
FromPeers == INSTANCE Delivery WITH
  Lines <- Conns, MaySkip <- TRUE, put <- frames, got <- [c \in Conns |-> Shown(c)]

\* A peer's stream carries the messages of the broadcast channel in order and
\* without repetition, also when its writer lags, fails or times out.
DeliversToPeers == ToPeers!Spec

\* The host's user is shown the messages of one peer in the order in which they
\* were read, each at most once, across reader, msg_tx and event channel.
DeliversFromPeers == FromPeers!Spec

\* The stream a nonce was spent on, and where a stream stands: the registry is
\* the room.
Owner == [n \in Nonces |->
  IF \E c \in accepted : nonce[c] = n
  THEN CHOOSE c \in accepted : nonce[c] = n ELSE NoConn]

Place == [c \in Conns |->
  IF c \in peers THEN "inside"
  ELSE IF conn[c] \in {"leave", "closed"} THEN "left" ELSE "outside"]

Guests == INSTANCE Admission WITH
  Invites <- Nonces, Nobody <- NoConn, owner <- Owner, place <- Place

\* The handshake and the registry of the room admit by invite: an invite gets
\* one stream in, once, and who is out after having been in stays out.
AdmitsByInvite == Guests!Spec

-----------------------------------------------------------------------------
(* What the documentation says and the code does not do *)

\* "receive a message from any peer and write it to all other peers": a message
\* of a peer that the host shows has been put on the wire for the others.
PeerMessagesRelayed ==
  \A i \in DOMAIN events :
    events[i].type = "Message" /\ events[i].who \in Conns =>
      \E j \in DOMAIN bcast :
        bcast[j].from = events[i].who /\ bcast[j].n = events[i].n
=============================================================================
