------------------------------- MODULE Joiner -------------------------------
(***************************************************************************)
(* A connected joiner (crates/core/src/joiner.rs, Joiner::run) inside its  *)
(* task (room.rs, joiner_task): the write loop that takes the user's       *)
(* messages to the hub and echoes them as events, the reader task that     *)
(* turns the hub's frames into events, the local buffer for events that do *)
(* not fit the event channel, the drain at the end, and what the task      *)
(* emits after run() returns.                                              *)
(*                                                                         *)
(* The model starts where joiner_task has emitted the PeerJoin of the      *)
(* joiner itself and calls run().  run() without a stream, the             *)
(* run_disconnected loop, is the case connected = FALSE.                   *)
(***************************************************************************)
EXTENDS Naturals, Sequences, SequencesExt

CONSTANTS
  Sends,      \* 1..number of RoomHandle::send calls
  BigSends,   \* the calls whose text exceeds MAX_PAYLOAD_BYTES once encoded
  MaxFrames,  \* bound: frames that the hub sends
  SendCap,    \* SEND_CHAN_CAP
  EventCap    \* EVENT_CHAN_CAP

ASSUME JoinerAssumption ==
  /\ Sends \subseteq Nat \ {0} /\ BigSends \subseteq Sends
  /\ MaxFrames \in Nat /\ SendCap \in Nat \ {0} /\ EventCap \in Nat \ {0}

VARIABLES
  connected,  \* run() found a stream
  handle,     \* the RoomHandle: "held", "sendDropped", "gone"
  shutdown,   \* the watch channel was signalled, or its sender is gone
  send,       \* [Sends -> "idle" | "sending" | "ok" | "err"]
  sendQ,      \* the channel from RoomHandle::send to the loop
  taken,      \* history: the texts send() has put on that channel, in order
  loop,       \* the task: its next step
  failed,     \* run() returned an error
  cur,        \* the message being written
  pending,    \* echoes that did not fit the event channel
  wire,       \* the messages whose frame was handed to the stream, in order
  reader,     \* the reader task: "reading", "sending", "done", "gone"
  frames,     \* frames read from the hub so far
  events,     \* every event accepted by the event channel
  evRead,     \* how many of them the EventStream has yielded
  evOpen      \* the EventStream has not been dropped

handleVars == <<connected, handle, shutdown, send, sendQ, taken>>
loopVars   == <<loop, failed, cur, pending, wire>>
readVars   == <<reader, frames>>
eventVars  == <<events, evRead, evOpen>>
vars == <<connected, handle, shutdown, send, sendQ, taken, loop, failed, cur,
          pending, wire, reader, frames, events, evRead, evOpen>>

\* Events: the joiner's own message number n, the hub's frame number n.
Own(n)     == [type |-> "Own", n |-> n]
FromHub(n) == [type |-> "Hub", n |-> n]
SelfJoined == [type |-> "PeerJoin", n |-> 0]
Error      == [type |-> "Error", n |-> 0]
RoomClosed == [type |-> "RoomClosed", n |-> 0]
Event == [type : {"Own", "Hub", "PeerJoin", "Error", "RoomClosed"}, n : Nat]

EventRoom == evOpen /\ Len(events) - evRead < EventCap

\* try_send fails without room; it also fails when the only free place has been
\* handed to the reader, which was waiting for it and has not run yet.
TryFails ==
  ~EventRoom \/ (reader = "sending" /\ Len(events) - evRead = EventCap - 1)

\* A signal sent after the biased select has polled it is seen at the next poll.
AfterPoll == IF shutdown THEN "top" ELSE "polled"

Init ==
  /\ connected \in BOOLEAN
  /\ handle = "held" /\ shutdown = FALSE
  /\ send = [s \in Sends |-> "idle"] /\ sendQ = <<>> /\ taken = <<>>
  /\ loop = "polled" /\ failed = FALSE /\ cur = 0 /\ pending = <<>> /\ wire = <<>>
  /\ reader = IF connected THEN "reading" ELSE "gone"
  /\ frames = 0
  /\ events = <<SelfJoined>> /\ evRead = 0 /\ evOpen = TRUE

-----------------------------------------------------------------------------
(* The RoomHandle and the EventStream *)

SendBegin(s) ==
  /\ handle = "held" /\ ~shutdown
  /\ send[s] = "idle"
  /\ send' = [send EXCEPT ![s] = "sending"]
  /\ UNCHANGED <<connected, handle, shutdown, sendQ, taken, loopVars, readVars, eventVars>>

\* The receiver lives until the loop returns.
Returned == loop \in {"returned", "report", "closing", "done"}

\* Mutant: the channel has no capacity.
SendCompleteUnbounded(s) ==
  /\ send[s] = "sending"
  /\ sendQ' = Append(sendQ, s) /\ taken' = Append(taken, s)
  /\ send' = [send EXCEPT ![s] = "ok"]
  /\ UNCHANGED <<connected, handle, shutdown, loopVars, readVars, eventVars>>

\* RoomHandle::send: the await on send_tx.
SendComplete(s) ==
  /\ send[s] = "sending"
  /\ \/ /\ ~Returned /\ Len(sendQ) < SendCap
        /\ sendQ' = Append(sendQ, s) /\ taken' = Append(taken, s)
        /\ send' = [send EXCEPT ![s] = "ok"]
     \/ /\ Returned
        /\ send' = [send EXCEPT ![s] = "err"]
        /\ UNCHANGED <<sendQ, taken>>
  /\ UNCHANGED <<connected, handle, shutdown, loopVars, readVars, eventVars>>

Quit ==
  /\ handle = "held" /\ ~shutdown
  /\ shutdown' = TRUE
  /\ UNCHANGED <<connected, handle, send, sendQ, taken, loopVars, readVars, eventVars>>

\* RoomInner is freed field by field, send_tx before shutdown_tx.
DropSendTx ==
  /\ handle = "held" /\ \A s \in Sends : send[s] # "sending"
  /\ handle' = "sendDropped"
  /\ UNCHANGED <<connected, shutdown, send, sendQ, taken, loopVars, readVars, eventVars>>

DropShutdownTx ==
  /\ handle = "sendDropped"
  /\ handle' = "gone" /\ shutdown' = TRUE
  /\ UNCHANGED <<connected, send, sendQ, taken, loopVars, readVars, eventVars>>

Consume ==
  /\ evOpen /\ evRead < Len(events)
  /\ evRead' = evRead + 1
  /\ UNCHANGED <<handleVars, loopVars, readVars, events, evOpen>>

DropStream ==
  /\ evOpen
  /\ evOpen' = FALSE
  /\ UNCHANGED <<handleVars, loopVars, readVars, events, evRead>>

-----------------------------------------------------------------------------
(* write_loop and run_disconnected *)

\* try_emit: on back-pressure, or without a receiver, the event is buffered.
TryEmit(e) ==
  /\ \/ EventRoom /\ events' = Append(events, e) /\ UNCHANGED pending
     \/ TryFails /\ pending' = Append(pending, e) /\ UNCHANGED events
  /\ UNCHANGED <<evRead, evOpen>>

LoopShutdown ==
  /\ loop \in {"polled", "top"} /\ shutdown
  /\ loop' = "drain"
  /\ UNCHANGED <<handleVars, failed, cur, pending, wire, readVars, eventVars>>

LoopReaderDone ==
  /\ loop = "polled" /\ reader = "done"
  /\ loop' = "drain"
  /\ UNCHANGED <<handleVars, failed, cur, pending, wire, readVars, eventVars>>

\* A message of the user.  An oversized text fails to encode, and the error ends
\* the loop without a drain.
LoopMessage ==
  /\ connected /\ loop = "polled" /\ reader # "done" /\ sendQ # <<>>
  /\ sendQ' = Tail(sendQ)
  /\ \/ /\ Head(sendQ) \notin BigSends
        /\ cur' = Head(sendQ) /\ loop' = "writing" /\ UNCHANGED failed
     \/ /\ Head(sendQ) \in BigSends
        /\ failed' = TRUE /\ loop' = "returned" /\ UNCHANGED cur
  /\ UNCHANGED <<connected, handle, shutdown, send, taken, pending, wire, readVars, eventVars>>

\* run_disconnected: without a stream a message is only echoed.
EchoMessage ==
  /\ ~connected /\ loop = "polled" /\ sendQ # <<>>
  /\ sendQ' = Tail(sendQ)
  /\ TryEmit(Own(Head(sendQ)))
  /\ loop' = AfterPoll
  /\ UNCHANGED <<connected, handle, shutdown, send, taken, failed, cur, wire, readVars>>

\* messages.recv() yields None: every RoomHandle is gone.
LoopClosed ==
  /\ loop = "polled" /\ reader # "done" /\ sendQ = <<>> /\ handle # "held"
  /\ loop' = "drain"
  /\ UNCHANGED <<handleVars, failed, cur, pending, wire, readVars, eventVars>>

\* events.closed(), the last branch: nothing is drained.
LoopStreamDropped ==
  /\ loop = "polled" /\ reader # "done" /\ sendQ = <<>> /\ handle = "held"
  /\ ~evOpen
  /\ loop' = "returned" /\ failed' = TRUE
  /\ UNCHANGED <<handleVars, cur, pending, wire, readVars, eventVars>>

\* process_outgoing_message: the frame is written and flushed, then echoed.
Write ==
  /\ loop = "writing"
  /\ wire' = Append(wire, cur)
  /\ TryEmit(Own(cur))
  /\ loop' = AfterPoll
  /\ UNCHANGED <<handleVars, failed, cur, readVars>>

\* Mutant: the error is ignored and the loop takes the next message.
WriteFailsContinues ==
  /\ loop = "writing"
  /\ wire' \in {wire, Append(wire, cur)}
  /\ loop' = AfterPoll
  /\ UNCHANGED <<handleVars, failed, cur, pending, readVars, eventVars>>

\* The write or the flush fails or times out: the error ends the loop.
WriteFails ==
  /\ loop = "writing"
  /\ wire' \in {wire, Append(wire, cur)}
  /\ loop' = "returned" /\ failed' = TRUE
  /\ UNCHANGED <<handleVars, cur, pending, readVars, eventVars>>

\* drain_and_flush: what send() has queued is echoed, and never written.
Drain ==
  /\ loop = "drain"
  /\ IF sendQ # <<>>
     THEN /\ sendQ' = Tail(sendQ)
          /\ TryEmit(Own(Head(sendQ)))
          /\ UNCHANGED loop
     ELSE /\ loop' = "flush"
          /\ UNCHANGED <<sendQ, pending, eventVars>>
  /\ UNCHANGED <<connected, handle, shutdown, send, taken, failed, cur, wire, readVars>>

\* Mutant: the event stays in the buffer when it is sent.
FlushKeeps ==
  /\ loop = "flush"
  /\ IF pending = <<>>
     THEN loop' = "returned" /\ UNCHANGED <<pending, events>>
     ELSE /\ \/ EventRoom /\ events' = Append(events, Last(pending)) /\ UNCHANGED pending
             \/ TryFails /\ pending' = <<>> /\ UNCHANGED events
          /\ UNCHANGED loop
  /\ UNCHANGED <<handleVars, failed, cur, wire, readVars, evRead, evOpen>>

\* flush_pending: the newest buffered event first; when one does not fit, it
\* and the others are dropped.
Flush ==
  /\ loop = "flush"
  /\ IF pending = <<>>
     THEN loop' = "returned" /\ UNCHANGED <<pending, events>>
     ELSE /\ \/ EventRoom /\ events' = Append(events, Last(pending)) /\ pending' = Front(pending)
             \/ TryFails /\ pending' = <<>> /\ UNCHANGED events
          /\ UNCHANGED loop
  /\ UNCHANGED <<handleVars, failed, cur, wire, readVars, evRead, evOpen>>

-----------------------------------------------------------------------------
(* The end of run() and of joiner_task *)

\* Mutant: the reader is asked to stop but not awaited.
StopReaderNoAwait ==
  /\ loop = "returned"
  /\ loop' = "report"
  /\ UNCHANGED <<handleVars, failed, cur, pending, wire, readVars, eventVars>>

\* Mutant: the reader is awaited but not aborted.
StopReaderNoAbort ==
  /\ loop = "returned" /\ reader \in {"done", "gone"}
  /\ reader' = "gone" /\ loop' = "report"
  /\ UNCHANGED <<handleVars, failed, cur, pending, wire, frames, eventVars>>

\* stop_reader aborts the reader task and awaits it.
StopReader ==
  /\ loop = "returned"
  /\ reader' = "gone" /\ loop' = "report"
  /\ UNCHANGED <<handleVars, failed, cur, pending, wire, frames, eventVars>>

TrySend(e) ==
  /\ events' = IF EventRoom THEN Append(events, e) ELSE events
  /\ UNCHANGED <<evRead, evOpen>>

ReportError ==
  /\ loop = "report"
  /\ loop' = "closing"
  /\ IF failed THEN TrySend(Error) ELSE UNCHANGED eventVars
  /\ UNCHANGED <<handleVars, failed, cur, pending, wire, readVars>>

\* RoomClosed is tried, then the Tor client is dropped and the task ends.
EmitClosed ==
  /\ loop = "closing"
  /\ loop' = "done"
  /\ TrySend(RoomClosed)
  /\ UNCHANGED <<handleVars, failed, cur, pending, wire, readVars>>

-----------------------------------------------------------------------------
(* The reader task *)

\* A frame arrives that decode_message accepts, of whatever kind: each becomes
\* a message event.  A malformed payload is skipped: a stuttering step.
ReaderFrame ==
  /\ reader = "reading" /\ frames < MaxFrames
  /\ frames' = frames + 1 /\ reader' = "sending"
  /\ UNCHANGED <<handleVars, loopVars, eventVars>>

\* events.send(..).await waits for room; without a receiver the event is lost.
ReaderForward ==
  /\ reader = "sending"
  /\ \/ EventRoom /\ events' = Append(events, FromHub(frames))
     \/ ~evOpen /\ UNCHANGED events
  /\ reader' = "reading"
  /\ UNCHANGED <<handleVars, loopVars, frames, evRead, evOpen>>

\* The hub disconnects, sends a frame read_frame rejects, or is silent for
\* READ_TIMEOUT.
ReaderEnds ==
  /\ reader = "reading"
  /\ reader' = "done"
  /\ UNCHANGED <<handleVars, loopVars, frames, eventVars>>

-----------------------------------------------------------------------------
LoopStep ==
  \/ LoopShutdown \/ LoopReaderDone \/ LoopMessage \/ EchoMessage
  \/ LoopClosed \/ LoopStreamDropped
  \/ Write \/ WriteFails \/ Drain \/ Flush
  \/ StopReader \/ ReportError \/ EmitClosed

\* The task is over; the user may keep his handle.
Terminated == loop = "done" /\ UNCHANGED vars

Next ==
  \/ \E s \in Sends : SendBegin(s) \/ SendComplete(s)
  \/ Quit \/ DropSendTx \/ DropShutdownTx \/ Consume \/ DropStream
  \/ LoopStep
  \/ ReaderFrame \/ ReaderForward \/ ReaderEnds
  \/ Terminated

Spec == Init /\ [][Next]_vars

\* The tasks run and WRITE_TIMEOUT bounds a write.  The user owes neither a
\* read of the events nor a quit, the hub neither a frame nor a disconnect.
Fairness ==
  /\ \A s \in Sends : WF_vars(SendComplete(s))
  /\ WF_vars(DropShutdownTx)
  /\ WF_vars(LoopStep)
  /\ WF_vars(ReaderForward)

FairSpec == Spec /\ Fairness

-----------------------------------------------------------------------------
(* Properties *)

HandleTypeOK ==
  /\ connected \in BOOLEAN /\ handle \in {"held", "sendDropped", "gone"}
  /\ shutdown \in BOOLEAN
  /\ send \in [Sends -> {"idle", "sending", "ok", "err"}]
  /\ sendQ \in Seq(Sends) /\ Len(sendQ) <= SendCap /\ taken \in Seq(Sends)

LoopTypeOK ==
  /\ loop \in {"polled", "top", "writing", "drain", "flush", "returned", "report",
               "closing", "done"}
  /\ failed \in BOOLEAN
  /\ cur \in Sends \cup {0} /\ wire \in Seq(Sends)

ReadTypeOK ==
  reader \in {"reading", "sending", "done", "gone"} /\ frames \in 0 .. MaxFrames

EventTypeOK ==
  /\ events \in Seq(Event) /\ pending \in Seq(Event)
  /\ evRead \in 0 .. Len(events) /\ Len(events) - evRead <= EventCap
  /\ evOpen \in BOOLEAN

\* Every variable stays in its domain and no channel exceeds its capacity.
TypeOK == HandleTypeOK /\ LoopTypeOK /\ ReadTypeOK /\ EventTypeOK

\* A message of the user is shown to him at most once, whatever the drain, the
\* buffer and the flush do with its echo.
EchoedOnce ==
  LET echoes == events \o pending
  IN  \A n \in Sends :
        /\ \A i, j \in DOMAIN echoes : echoes[i] = Own(n) /\ echoes[j] = Own(n) => i = j
        /\ n \in ToSet(sendQ) => Own(n) \notin ToSet(echoes)

\* Nothing follows RoomClosed: the task emits it after the reader is gone.
RoomClosedLast ==
  \A i \in DOMAIN events : events[i] = RoomClosed => i = Len(events)

\* quit() or the drop of the last handle, a hub that disconnected, and a dropped
\* event stream ("Returns when ... the event channel receiver is dropped",
\* Joiner::run) each end the task, even when nobody reads the events and the
\* reader waits for room.
TaskEnds == shutdown \/ reader = "done" \/ ~evOpen ~> loop = "done"

-----------------------------------------------------------------------------
(* What the joiner implements *)

\* The user's messages on their way to the stream, numbered as send() took
\* them, and the hub's frames where they stand on the event stream.
ToHub == [i \in DOMAIN wire |-> CHOOSE k \in DOMAIN taken : taken[k] = wire[i]]

ShownAt == {i \in DOMAIN events : events[i].type = "Hub"}
Shown   == [i \in ShownAt |-> events[i].n]

BothWays == INSTANCE Delivery WITH
  Lines <- {"toHub", "fromHub"}, MaySkip <- FALSE,
  put <- [l \in {"toHub", "fromHub"} |-> IF l = "toHub" THEN Len(taken) ELSE frames],
  got <- [l \in {"toHub", "fromHub"} |-> IF l = "toHub" THEN ToHub ELSE Shown]

\* Neither way leaves a message out between two others, repeats one or changes
\* their order: a write that failed is not followed by another, and the reader
\* waits for room instead of dropping.  What is lost is always a suffix.
DeliversBothWays == BothWays!Spec

-----------------------------------------------------------------------------
(* What the documentation says and the code does not do *)

\* "ensure no in-flight messages are lost" (drain_and_flush): a message that is
\* shown to the user as sent went to the hub.
EchoMeansWritten ==
  connected => \A i \in DOMAIN events :
                 events[i].type = "Own" => events[i].n \in ToSet(wire)
=============================================================================
