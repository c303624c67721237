--------------------------- MODULE RoomLifecycle ---------------------------
(***************************************************************************)
(* The life of a room around its main loop (crates/core/src/room.rs: host, *)
(* join, host_task, joiner_task, RoomHandle::quit, Drop for RoomHandle,    *)
(* do_quit; bootstrap.rs: TorBootstrap::bootstrap and                      *)
(* bootstrap_with_shutdown): the clones of the handle, the Tor client and  *)
(* the shared slot that holds it, the bootstrap in the background, and the *)
(* events that are awaited, not tried.                                     *)
(*                                                                         *)
(* What happens inside the main loop is the subject of HostRoom and        *)
(* Joiner; here it is one state of the task, "room".                       *)
(***************************************************************************)
EXTENDS Naturals, Sequences, FiniteSets

CONSTANTS
  Handles,      \* the clones of the RoomHandle that may exist at a time
  First,        \* the one that host() or join() returns
  NoHandle,     \* nobody is inside do_quit
  MaxProgress,  \* bound: progress reports of arti before bootstrap ends
  BootCap,      \* capacity of the channel of progress reports
  EventCap      \* EVENT_CHAN_CAP

ASSUME LifecycleAssumption ==
  /\ First \in Handles /\ NoHandle \notin Handles /\ IsFiniteSet(Handles)
  /\ MaxProgress \in Nat /\ BootCap \in Nat \ {0} /\ EventCap \in Nat \ {0}

VARIABLES
  role,       \* "host" or "joiner"
  handles,    \* each clone: "live", "last" or "more" (in drop), "gone"
  asked,      \* history: quit() was called
  quit,       \* do_quit: "none", "flagged", "signalled", "finished"
  caller,     \* the clone whose quit() or drop runs do_quit
  shutdown,   \* the watch channel was signalled, or its sender is gone
  task,       \* host_task or joiner_task: its next step
  current,    \* the progress event being forwarded
  bootOk,     \* bootstrap_ok
  boot,       \* the background bootstrap: "off", "running", "ended"
  bootQ,      \* its progress reports
  reports,    \* how many it made
  slot,       \* the shared slot holds the TorBootstrap
  taskTor,    \* the task holds the TorBootstrap or a client of it
  bootTor,    \* the background bootstrap holds a client
  invite,     \* the InviteInfo is set
  chan,       \* the events in the event channel
  evOpen      \* the EventStream has not been dropped

handleVars == <<role, handles, asked, quit, caller, shutdown>>
bootVars   == <<boot, bootQ, reports, bootTor>>
taskVars   == <<task, current, bootOk, taskTor, invite>>
eventVars  == <<chan, evOpen>>
vars == <<role, handles, asked, quit, caller, shutdown, task, current, bootOk,
          boot, bootQ, reports, slot, taskTor, bootTor, invite, chan, evOpen>>

\* What the bootstrap reports, and the events of the room.
Report == {"progress", "full", "error"}
Event  == Report \cup {"PeerJoin", "RoomReady", "RoomClosed", "Error"}

AllGone == \A h \in Handles : handles[h] = "gone"

\* Arc::strong_count of RoomInner: a clone counts until its drop has finished.
StrongCount == Cardinality({h \in Handles : handles[h] # "gone"})

\* A signal sent after the biased select has polled it is seen at the next poll.
AfterPoll == IF shutdown THEN "progressTop" ELSE "progress"

\* The receiver of the progress reports lives inside bootstrap_with_shutdown.
Bootstrapping == task \in {"progress", "progressTop", "forward"}

Init ==
  /\ role \in {"host", "joiner"}
  /\ handles = [h \in Handles |-> IF h = First THEN "live" ELSE "gone"]
  /\ asked = FALSE /\ quit = "none" /\ caller = NoHandle /\ shutdown = FALSE
  /\ task = "bootstrap" /\ current = "progress" /\ bootOk = FALSE
  /\ boot = "off" /\ bootQ = <<>> /\ reports = 0
  /\ slot = FALSE /\ taskTor = FALSE /\ bootTor = FALSE /\ invite = FALSE
  /\ chan = <<>> /\ evOpen = TRUE

-----------------------------------------------------------------------------
(* The handles *)

Clone(h, g) ==
  /\ handles[h] = "live" /\ handles[g] = "gone"
  /\ handles' = [handles EXCEPT ![g] = "live"]
  /\ UNCHANGED <<role, asked, quit, caller, shutdown, slot, bootVars, taskVars, eventVars>>

\* RoomHandle::quit: the swap of quit_flag lets one caller through.
QuitCall(h) ==
  /\ handles[h] = "live" /\ quit = "none"
  /\ quit' = "flagged" /\ caller' = h /\ asked' = TRUE
  /\ UNCHANGED <<role, handles, shutdown, slot, bootVars, taskVars, eventVars>>

\* Mutant: every drop runs do_quit.
DropReadNoCount(h) ==
  /\ handles[h] = "live" /\ caller # h
  /\ handles' = [handles EXCEPT ![h] = IF quit = "none" THEN "last" ELSE "more"]
  /\ UNCHANGED <<role, asked, quit, caller, shutdown, slot, bootVars, taskVars, eventVars>>

\* Drop for RoomHandle reads the strong count.  Two clones dropped at once may
\* both read 2.
DropRead(h) ==
  /\ handles[h] = "live" /\ caller # h
  /\ handles' = [handles EXCEPT ![h] = IF StrongCount = 1 THEN "last" ELSE "more"]
  /\ UNCHANGED <<role, asked, quit, caller, shutdown, slot, bootVars, taskVars, eventVars>>

DropFlag(h) ==
  /\ handles[h] = "last" /\ quit = "none"
  /\ quit' = "flagged" /\ caller' = h
  /\ UNCHANGED <<role, handles, asked, shutdown, slot, bootVars, taskVars, eventVars>>

\* do_quit: the signal, then the slot is emptied.
QuitSignal ==
  /\ quit = "flagged"
  /\ quit' = "signalled" /\ shutdown' = TRUE
  /\ UNCHANGED <<role, handles, asked, caller, slot, bootVars, taskVars, eventVars>>

QuitTake ==
  /\ quit = "signalled"
  /\ quit' = "finished" /\ slot' = FALSE /\ caller' = NoHandle
  /\ UNCHANGED <<role, handles, asked, shutdown, bootVars, taskVars, eventVars>>

\* The clone is freed.  The last one frees RoomInner: send_tx and shutdown_tx go,
\* and the slot with them unless the task still shares it.
DropFree(h) ==
  /\ handles[h] = "more" \/ (handles[h] = "last" /\ quit = "finished")
  /\ handles' = [handles EXCEPT ![h] = "gone"]
  /\ shutdown' = (shutdown \/ StrongCount = 1)
  /\ slot' = (slot /\ ~(StrongCount = 1 /\ task = "done"))
  /\ UNCHANGED <<role, asked, quit, caller, bootVars, taskVars, eventVars>>

-----------------------------------------------------------------------------
(* The event stream *)

Room == evOpen /\ Len(chan) < EventCap

\* event_tx.send(e).await returns: the event is queued, or nobody listens.
Sent(e) ==
  \/ Room /\ chan' = Append(chan, e)
  \/ ~evOpen /\ UNCHANGED chan

\* Mutant: the event channel has no capacity.
TrySendUnbounded(e) == chan' = Append(chan, e)

TrySend(e) == chan' = IF Room THEN Append(chan, e) ELSE chan

Consume ==
  /\ evOpen /\ chan # <<>>
  /\ chan' = Tail(chan)
  /\ UNCHANGED <<handleVars, slot, bootVars, taskVars, evOpen>>

DropStream ==
  /\ evOpen
  /\ evOpen' = FALSE
  /\ UNCHANGED <<handleVars, slot, bootVars, taskVars, chan>>

-----------------------------------------------------------------------------
(* The background bootstrap *)

\* A report of arti; its fraction may round to 100 before bootstrap returns.
BootReport(e) ==
  /\ boot = "running" /\ reports < MaxProgress
  /\ Bootstrapping /\ Len(bootQ) < BootCap
  /\ bootQ' = Append(bootQ, e) /\ reports' = reports + 1
  /\ UNCHANGED <<handleVars, boot, bootTor, slot, taskVars, eventVars>>

BootFinish(e) ==
  /\ boot = "running"
  /\ Bootstrapping /\ Len(bootQ) < BootCap
  /\ bootQ' = Append(bootQ, e)
  /\ boot' = "ended" /\ bootTor' = FALSE
  /\ UNCHANGED <<handleVars, reports, slot, taskVars, eventVars>>

\* Mutant: the bootstrap does not look at its receiver.
BootStopsNever ==
  /\ boot = "running" /\ ~Bootstrapping
  /\ UNCHANGED vars

\* The receiver is gone: the next report, or the end of bootstrap, stops it.
BootStops ==
  /\ boot = "running" /\ ~Bootstrapping
  /\ boot' = "ended" /\ bootTor' = FALSE
  /\ UNCHANGED <<handleVars, bootQ, reports, slot, taskVars, eventVars>>

-----------------------------------------------------------------------------
(* host_task and joiner_task *)

\* The task ends; it drops what it holds, and the slot when no handle shares it.
End ==
  /\ task' = "done" /\ taskTor' = FALSE
  /\ slot' = (slot /\ ~AllGone)

\* TorBootstrap::bootstrap builds the client and spawns the bootstrap.
StartBootstrap ==
  /\ task = "bootstrap"
  /\ \/ /\ task' = AfterPoll /\ taskTor' = TRUE
        /\ boot' = "running" /\ bootTor' = TRUE
     \/ /\ task' = "error"
        /\ UNCHANGED <<boot, taskTor, bootTor>>
  /\ UNCHANGED <<handleVars, bootQ, reports, slot, current, bootOk, invite, eventVars>>

CancelBootstrap ==
  /\ task \in {"progress", "progressTop"} /\ shutdown
  /\ End
  /\ UNCHANGED <<handleVars, bootVars, current, bootOk, invite, eventVars>>

TakeReport ==
  /\ task = "progress" /\ bootQ # <<>>
  /\ bootQ' = Tail(bootQ) /\ current' = Head(bootQ)
  /\ bootOk' = (bootOk \/ Head(bootQ) = "full")
  /\ task' = "forward"
  /\ UNCHANGED <<handleVars, boot, reports, bootTor, slot, taskTor, invite, eventVars>>

ForwardReport ==
  /\ task = "forward"
  /\ \/ Room /\ chan' = Append(chan, current) /\ task' = AfterPoll /\ UNCHANGED <<taskTor, slot>>
     \/ ~evOpen /\ End /\ UNCHANGED chan
  /\ UNCHANGED <<handleVars, bootVars, current, bootOk, invite, evOpen>>

EndBootstrap ==
  /\ task = "progress" /\ bootQ = <<>> /\ boot = "ended"
  /\ \/ bootOk /\ task' = "store" /\ UNCHANGED <<taskTor, slot>>
     \/ ~bootOk /\ End
  /\ UNCHANGED <<handleVars, bootVars, current, bootOk, invite, eventVars>>

\* The TorBootstrap moves into the slot, whatever happened since.
StoreTor ==
  /\ task = "store"
  /\ slot' = TRUE /\ taskTor' = FALSE /\ task' = "client"
  /\ UNCHANGED <<handleVars, bootVars, current, bootOk, invite, eventVars>>

\* The client is cloned out of the slot, unless quit() has emptied it.
TakeClient ==
  /\ task = "client"
  /\ taskTor' = slot
  /\ task' = IF slot THEN "open" ELSE "error"
  /\ UNCHANGED <<handleVars, bootVars, slot, current, bootOk, invite, eventVars>>

\* HostedRoom::new, which does not watch the signal.
OpenRoom ==
  /\ task = "open" /\ role = "host"
  /\ task' \in {"ready", "roomError"}
  /\ UNCHANGED <<handleVars, bootVars, slot, current, bootOk, taskTor, invite, eventVars>>

\* Joiner::connect, which does not watch the signal either.  On an error the
\* task reports it and returns, leaving the slot as it is; otherwise it tries to
\* emit its own PeerJoin.
Connect ==
  /\ task = "open" /\ role = "joiner"
  /\ \/ task' = "room" /\ TrySend("PeerJoin")
     \/ task' = "error" /\ UNCHANGED chan
  /\ UNCHANGED <<handleVars, bootVars, slot, current, bootOk, taskTor, invite, evOpen>>

ReportError ==
  /\ task = "error" /\ Sent("Error") /\ End
  /\ UNCHANGED <<handleVars, bootVars, current, bootOk, invite, evOpen>>

\* The onion service failed: report it, then wait for the end.
ReportRoomError ==
  /\ task = "roomError" /\ Sent("Error") /\ task' = "failed"
  /\ UNCHANGED <<handleVars, bootVars, slot, current, bootOk, taskTor, invite, evOpen>>

EmitReady ==
  /\ task = "ready" /\ Sent("RoomReady") /\ task' = "invite"
  /\ UNCHANGED <<handleVars, bootVars, slot, current, bootOk, taskTor, invite, evOpen>>

SetInvite ==
  /\ task = "invite"
  /\ invite' = TRUE /\ task' = "room"
  /\ UNCHANGED <<handleVars, bootVars, slot, current, bootOk, taskTor, eventVars>>

\* RoomClosed is tried.  A host that finds its send channel closed before it
\* sees the signal does not say it.
Close ==
  /\ task' = "clear"
  /\ TrySend("RoomClosed") \/ (role = "host" /\ AllGone /\ UNCHANGED chan)

\* Mutant: the loop of a room that failed to open sees the signal and goes on.
FailedRoomStays ==
  /\ task = "failed" /\ shutdown
  /\ UNCHANGED vars

FailedRoomEnds ==
  /\ task = "failed" /\ shutdown
  /\ Close
  /\ UNCHANGED <<handleVars, bootVars, slot, current, bootOk, taskTor, invite, evOpen>>

\* The main loop ends on the signal, a joiner's also when the hub is gone.
RoomEnds ==
  /\ task = "room" /\ (shutdown \/ role = "joiner")
  /\ Close
  /\ UNCHANGED <<handleVars, bootVars, slot, current, bootOk, taskTor, invite, evOpen>>

\* Mutant: the task returns without emptying the slot.
ClearSlotForgotten ==
  /\ task = "clear"
  /\ task' = "done" /\ taskTor' = FALSE
  /\ UNCHANGED <<handleVars, bootVars, slot, current, bootOk, invite, eventVars>>

\* The slot is emptied and the task ends.
ClearSlot ==
  /\ task = "clear"
  /\ task' = "done" /\ taskTor' = FALSE /\ slot' = FALSE
  /\ UNCHANGED <<handleVars, bootVars, current, bootOk, invite, eventVars>>

-----------------------------------------------------------------------------
HandleStep ==
  \/ QuitSignal \/ QuitTake
  \/ \E h \in Handles : DropFlag(h) \/ DropFree(h)

TaskStep ==
  \/ StartBootstrap \/ CancelBootstrap \/ TakeReport \/ ForwardReport
  \/ EndBootstrap \/ StoreTor \/ TakeClient \/ OpenRoom \/ Connect
  \/ ReportError   \/ ReportRoomError \/ EmitReady \/ SetInvite
  \/ FailedRoomEnds \/ RoomEnds \/ ClearSlot

Terminated == task = "done" /\ AllGone /\ boot # "running" /\ UNCHANGED vars

Next ==
  \/ \E h, g \in Handles : Clone(h, g)
  \/ \E h \in Handles : QuitCall(h) \/ DropRead(h)
  \/ HandleStep
  \/ Consume \/ DropStream
  \/ \E e \in {"progress", "full"} : BootReport(e)
  \/ \E e \in {"full", "error"} : BootFinish(e)
  \/ BootStops
  \/ TaskStep
  \/ Terminated

Spec == Init /\ [][Next]_vars

\* The tasks run, arti's connect, onion service launch and bootstrap return,
\* with success or failure, and the user interface reads its events.  Nobody
\* has to call quit() or drop a handle.
Fairness ==
  /\ WF_vars(HandleStep) /\ WF_vars(TaskStep) /\ WF_vars(BootStops)
  /\ WF_vars(Consume)

FairSpec == Spec /\ Fairness

-----------------------------------------------------------------------------
(* Properties *)

HandleTypeOK ==
  /\ role \in {"host", "joiner"} /\ asked \in BOOLEAN /\ shutdown \in BOOLEAN
  /\ handles \in [Handles -> {"live", "last", "more", "gone"}]
  /\ quit \in {"none", "flagged", "signalled", "finished"}
  /\ caller \in Handles \cup {NoHandle}

TaskTypeOK ==
  /\ task \in {"bootstrap", "progress", "progressTop", "forward", "store", "client",
               "open", "error", "roomError", "failed", "ready", "invite", "room",
               "clear", "done"}
  /\ current \in Report /\ bootOk \in BOOLEAN
  /\ slot \in BOOLEAN /\ taskTor \in BOOLEAN /\ invite \in BOOLEAN

BootTypeOK ==
  /\ boot \in {"off", "running", "ended"} /\ bootTor \in BOOLEAN
  /\ reports \in 0 .. MaxProgress
  /\ bootQ \in Seq(Report) /\ Len(bootQ) <= BootCap

EventTypeOK ==
  /\ chan \in Seq(Event) /\ Len(chan) <= EventCap
  /\ evOpen \in BOOLEAN

\* Every variable stays in its domain; the event channel and the channel of
\* progress reports stay within their capacities.
TypeOK == HandleTypeOK /\ TaskTypeOK /\ BootTypeOK /\ EventTypeOK

\* A clone that goes away does not stop a room that somebody else still holds:
\* the room is only signalled by quit() or once every clone is being dropped.
NoPrematureShutdown ==
  shutdown => asked \/ \A h \in Handles : handles[h] # "live"

TorHeld == slot \/ taskTor \/ bootTor

\* quit(), or the end of the last handle, ends the task from wherever it is:
\* bootstrap, connect, the main loop or the loop of a failed room.
ShutdownEndsTask == shutdown ~> task = "done"

\* When every clone is gone, also when two of them went at once and each saw
\* the other, the task ends and the Tor client with it.
DroppedTearsDownTor == AllGone ~> ~TorHeld

\* quit() of a host tears the Tor client down, whenever it is called.
HostQuitTearsDownTor == (role = "host" /\ quit = "finished") ~> ~TorHeld
=============================================================================
