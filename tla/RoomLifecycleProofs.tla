------------------------ MODULE RoomLifecycleProofs ------------------------
(***************************************************************************)
(* Theorems about RoomLifecycle for any number of clones of the handle,    *)
(* any number of progress reports and any capacity of the channels.        *)
(***************************************************************************)
EXTENDS RoomLifecycle, FiniteSetTheorems, TLAPS

USE DEF handleVars, bootVars, taskVars, eventVars

-----------------------------------------------------------------------------
(* Type correctness *)

\* An event that is sent or tried keeps the channel well-typed and within its
\* capacity.
LEMMA SentType ==
  ASSUME EventTypeOK, NEW e \in Event, Sent(e) \/ TrySend(e), UNCHANGED evOpen
  PROVE  EventTypeOK'
<1>1. CASE chan' = chan
  BY <1>1 DEF EventTypeOK
<1>2. CASE Room /\ chan' = Append(chan, e)
  <2>1. chan' \in Seq(Event) /\ Len(chan') = Len(chan) + 1
    BY <1>2 DEF EventTypeOK
  <2> QED
    BY <1>2, <2>1, LifecycleAssumption DEF EventTypeOK, Room, LifecycleAssumption
<1> QED
  BY <1>1, <1>2 DEF Sent, TrySend

\* The state in which host() or join() returns is well-typed.
LEMMA TypeInit == Init => TypeOK
<1> SUFFICES ASSUME Init PROVE TypeOK
  OBVIOUS
<1>1. HandleTypeOK
  <2>1. asked \in BOOLEAN /\ shutdown \in BOOLEAN
    BY DEF Init
  <2> QED
    BY <2>1 DEF Init, HandleTypeOK
<1>2. TaskTypeOK
  <2>1. slot \in BOOLEAN /\ taskTor \in BOOLEAN /\ invite \in BOOLEAN /\ bootOk \in BOOLEAN
    BY DEF Init
  <2> QED
    BY <2>1 DEF Init, TaskTypeOK, Report
<1>3. BootTypeOK
  <2>1. bootTor \in BOOLEAN
    BY DEF Init
  <2>2. bootQ \in Seq(Report) /\ Len(bootQ) <= BootCap /\ reports \in 0 .. MaxProgress
    BY LifecycleAssumption DEF Init, LifecycleAssumption
  <2> QED
    BY <2>1, <2>2 DEF Init, BootTypeOK
<1>4. EventTypeOK
  <2>1. evOpen \in BOOLEAN
    BY DEF Init
  <2> QED
    BY <2>1, LifecycleAssumption DEF Init, EventTypeOK, LifecycleAssumption
<1> QED
  BY <1>1, <1>2, <1>3, <1>4 DEF TypeOK

\* The steps of the handles keep the types.
LEMMA TypeHandles ==
  ASSUME TypeOK,
         \/ \E h, g \in Handles : Clone(h, g)
         \/ \E h \in Handles : QuitCall(h) \/ DropRead(h)
         \/ HandleStep
  PROVE  TypeOK'
<1>1. UNCHANGED <<bootVars, taskVars, eventVars>>
  BY DEF Clone, QuitCall, DropRead, HandleStep, QuitSignal, QuitTake, DropFlag, DropFree
<1>2. HandleTypeOK'
  <2> USE DEF TypeOK, HandleTypeOK
  <2>1. ASSUME NEW h \in Handles, NEW g \in Handles, Clone(h, g) PROVE HandleTypeOK'
    BY <2>1 DEF Clone
  <2>2. ASSUME NEW h \in Handles, QuitCall(h) \/ DropFlag(h) PROVE HandleTypeOK'
    BY <2>2 DEF QuitCall, DropFlag
  <2>3. ASSUME NEW h \in Handles, DropRead(h) PROVE HandleTypeOK'
    BY <2>3 DEF DropRead
  <2>4. CASE QuitSignal \/ QuitTake
    BY <2>4 DEF QuitSignal, QuitTake
  <2>5. ASSUME NEW h \in Handles, DropFree(h) PROVE HandleTypeOK'
    <3>1. (shutdown \/ StrongCount = 1) \in BOOLEAN
      OBVIOUS
    <3> QED
      BY <2>5, <3>1 DEF DropFree
  <2> QED
    BY <2>1, <2>2, <2>3, <2>4, <2>5 DEF HandleStep
<1>3. slot' \in BOOLEAN
  <2>1. slot \in BOOLEAN
    BY DEF TypeOK, TaskTypeOK
  <2>2. ASSUME NEW h \in Handles, DropFree(h) PROVE slot' \in BOOLEAN
    BY <2>2 DEF DropFree
  <2> QED
    BY <2>1, <2>2 DEF Clone, QuitCall, DropRead, HandleStep, QuitSignal, QuitTake, DropFlag
<1> QED
  BY <1>1, <1>2, <1>3 DEF TypeOK, TaskTypeOK, BootTypeOK, EventTypeOK

\* The steps of the consumer of the events and of the background bootstrap
\* keep the types.
LEMMA TypeBoot ==
  ASSUME TypeOK,
         \/ Consume \/ DropStream
         \/ \E e \in {"progress", "full"} : BootReport(e)
         \/ \E e \in {"full", "error"} : BootFinish(e)
         \/ BootStops
  PROVE  TypeOK'
<1>1. CASE Consume
  <2>1. chan \in Seq(Event) /\ chan # <<>> /\ Len(chan) <= EventCap /\ EventCap \in Nat
    BY <1>1, LifecycleAssumption DEF Consume, TypeOK, EventTypeOK, LifecycleAssumption
  <2>2. Tail(chan) \in Seq(Event) /\ Len(Tail(chan)) <= EventCap
    BY <2>1
  <2> QED
    BY <1>1, <2>2 DEF Consume, TypeOK, HandleTypeOK, TaskTypeOK, BootTypeOK, EventTypeOK
<1>2. CASE DropStream
  <2>1. EventTypeOK'
    BY <1>2 DEF DropStream, TypeOK, EventTypeOK
  <2> QED
    BY <1>2, <2>1 DEF DropStream, TypeOK, HandleTypeOK, TaskTypeOK, BootTypeOK
<1>3. ASSUME NEW e \in Report, Len(bootQ) < BootCap, bootQ' = Append(bootQ, e)
      PROVE  bootQ' \in Seq(Report) /\ Len(bootQ') <= BootCap
  <2>1. bootQ' \in Seq(Report) /\ Len(bootQ') = Len(bootQ) + 1
    BY <1>3 DEF TypeOK, BootTypeOK
  <2> QED
    BY <1>3, <2>1, LifecycleAssumption DEF LifecycleAssumption, TypeOK, BootTypeOK
<1>4. ASSUME NEW e \in {"progress", "full"}, BootReport(e) PROVE TypeOK'
  <2>1. bootQ' \in Seq(Report) /\ Len(bootQ') <= BootCap
    BY <1>3, <1>4 DEF BootReport, Report
  <2>2. reports' \in 0 .. MaxProgress
    BY <1>4, LifecycleAssumption DEF BootReport, TypeOK, BootTypeOK, LifecycleAssumption
  <2> QED
    BY <1>4, <2>1, <2>2 DEF BootReport, TypeOK, HandleTypeOK, TaskTypeOK, BootTypeOK,
       EventTypeOK
<1>5. ASSUME NEW e \in {"full", "error"}, BootFinish(e) PROVE TypeOK'
  <2>1. bootQ' \in Seq(Report) /\ Len(bootQ') <= BootCap
    BY <1>3, <1>5 DEF BootFinish, Report
  <2>2. BootTypeOK'
    BY <1>5, <2>1 DEF BootFinish, TypeOK, BootTypeOK
  <2> QED
    BY <1>5, <2>2 DEF BootFinish, TypeOK, HandleTypeOK, TaskTypeOK, EventTypeOK
<1>6. CASE BootStops
  <2>1. BootTypeOK'
    BY <1>6 DEF BootStops, TypeOK, BootTypeOK
  <2> QED
    BY <1>6, <2>1 DEF BootStops, TypeOK, HandleTypeOK, TaskTypeOK, EventTypeOK
<1> QED
  BY <1>1, <1>2, <1>4, <1>5, <1>6

\* The steps of host_task and joiner_task keep the types.
LEMMA TypeTask ==
  ASSUME TypeOK, TaskStep
  PROVE  TypeOK'
<1>0. UNCHANGED handleVars
  BY DEF TaskStep, StartBootstrap, CancelBootstrap, TakeReport, ForwardReport, EndBootstrap,
     StoreTor, TakeClient, OpenRoom, Connect, ReportError, ReportRoomError, EmitReady,
     SetInvite, FailedRoomEnds, RoomEnds, ClearSlot
<1>1. HandleTypeOK'
  BY <1>0 DEF TypeOK, HandleTypeOK
<1>2. End => slot' \in BOOLEAN /\ taskTor' \in BOOLEAN /\ task' = "done"
  BY DEF End
<1> USE DEF TypeOK
<1>3. CASE StartBootstrap
  <2>1. TaskTypeOK' /\ BootTypeOK'
    BY <1>3 DEF StartBootstrap, AfterPoll, TaskTypeOK, BootTypeOK
  <2> QED
    BY <1>1, <1>3, <2>1 DEF StartBootstrap, EventTypeOK
<1>4. CASE CancelBootstrap
  <2>1. TaskTypeOK'
    BY <1>2, <1>4 DEF CancelBootstrap, TaskTypeOK
  <2> QED
    BY <1>1, <1>4, <2>1 DEF CancelBootstrap, EventTypeOK, BootTypeOK
<1>5. CASE TakeReport
  <2>1. bootQ \in Seq(Report) /\ bootQ # <<>> /\ Len(bootQ) <= BootCap /\ BootCap \in Nat
    BY <1>5, LifecycleAssumption DEF TakeReport, BootTypeOK, LifecycleAssumption
  <2>2. Head(bootQ) \in Report /\ Tail(bootQ) \in Seq(Report) /\ Len(Tail(bootQ)) <= BootCap
    BY <2>1
  <2>3. BootTypeOK'
    BY <1>5, <2>2 DEF TakeReport, BootTypeOK
  <2>4. bootOk' \in BOOLEAN
    BY <1>5 DEF TakeReport
  <2>5. TaskTypeOK'
    BY <1>5, <2>2, <2>4 DEF TakeReport, TaskTypeOK
  <2> QED
    BY <1>1, <1>5, <2>3, <2>5 DEF TakeReport, EventTypeOK
<1>6. CASE ForwardReport
  <2>1. current \in Event
    BY DEF TaskTypeOK, Event
  <2>2. EventTypeOK'
    BY <1>6, <2>1, SentType DEF ForwardReport, Sent
  <2>3. TaskTypeOK'
    BY <1>2, <1>6 DEF ForwardReport, TaskTypeOK, AfterPoll
  <2> QED
    BY <1>1, <1>6, <2>2, <2>3 DEF ForwardReport, BootTypeOK
<1>7. CASE EndBootstrap
  <2>1. TaskTypeOK'
    BY <1>2, <1>7 DEF EndBootstrap, TaskTypeOK
  <2> QED
    BY <1>1, <1>7, <2>1 DEF EndBootstrap, EventTypeOK, BootTypeOK
<1>8. CASE StoreTor \/ TakeClient \/ OpenRoom \/ SetInvite \/ ClearSlot
  <2>1. TaskTypeOK'
    BY <1>8 DEF StoreTor, TakeClient, OpenRoom, SetInvite, ClearSlot, TaskTypeOK
  <2> QED
    BY <1>1, <1>8, <2>1 DEF StoreTor, TakeClient, OpenRoom, SetInvite, ClearSlot, EventTypeOK,
       BootTypeOK
<1>9. {"PeerJoin", "Error", "RoomReady", "RoomClosed"} \subseteq Event
  BY DEF Event
<1>10. CASE Connect
  <2>1. EventTypeOK'
    <3>1. CASE TrySend("PeerJoin")
      BY <1>9, <1>10, <3>1, SentType DEF Connect
    <3>2. CASE UNCHANGED chan
      BY <1>10, <3>2 DEF Connect, EventTypeOK
    <3> QED
      BY <1>10, <3>1, <3>2 DEF Connect
  <2>2. TaskTypeOK' /\ BootTypeOK'
    BY <1>10 DEF Connect, TaskTypeOK, BootTypeOK
  <2> QED
    BY <1>1, <2>1, <2>2
<1>11. CASE ReportError
  <2>1. EventTypeOK'
    BY <1>9, <1>11, SentType DEF ReportError
  <2>2. TaskTypeOK' /\ BootTypeOK'
    BY <1>2, <1>11 DEF ReportError, TaskTypeOK, BootTypeOK
  <2> QED
    BY <1>1, <2>1, <2>2
<1>12. CASE ReportRoomError \/ EmitReady
  <2>1. EventTypeOK'
    BY <1>9, <1>12, SentType DEF ReportRoomError, EmitReady
  <2>2. TaskTypeOK' /\ BootTypeOK'
    BY <1>12 DEF ReportRoomError, EmitReady, TaskTypeOK, BootTypeOK
  <2> QED
    BY <1>1, <2>1, <2>2
<1>13. CASE FailedRoomEnds \/ RoomEnds
  <2>1. EventTypeOK'
    <3>1. CASE TrySend("RoomClosed")
      BY <1>9, <1>13, <3>1, SentType DEF FailedRoomEnds, RoomEnds
    <3>2. CASE UNCHANGED chan
      BY <1>13, <3>2 DEF FailedRoomEnds, RoomEnds, EventTypeOK
    <3> QED
      BY <1>13, <3>1, <3>2 DEF FailedRoomEnds, RoomEnds, Close
  <2>2. TaskTypeOK' /\ BootTypeOK'
    BY <1>13 DEF FailedRoomEnds, RoomEnds, Close, TaskTypeOK, BootTypeOK
  <2> QED
    BY <1>1, <2>1, <2>2
<1> QED
  BY <1>3, <1>4, <1>5, <1>6, <1>7, <1>8, <1>10, <1>11, <1>12, <1>13 DEF TaskStep

\* Every step keeps the types and the channel capacities.
LEMMA TypeStep == TypeOK /\ [Next]_vars => TypeOK'
<1> SUFFICES ASSUME TypeOK, [Next]_vars PROVE TypeOK'
  OBVIOUS
<1>1. CASE UNCHANGED vars
  BY <1>1 DEF vars, TypeOK, HandleTypeOK, TaskTypeOK, BootTypeOK, EventTypeOK
<1> QED
  BY <1>1, TypeHandles, TypeBoot, TypeTask DEF Next, Terminated

\* Every reachable state is well-typed, and the event channel and the channel
\* of progress reports stay within their capacities.
THEOREM TypeCorrect == Spec => []TypeOK
BY TypeInit, TypeStep, PTL DEF Spec

-----------------------------------------------------------------------------
(* Who may stop the room *)

NoneLive == \A h \in Handles : handles[h] # "live"

\* The inductive invariant behind NoPrematureShutdown: a drop that read a strong
\* count of 1 left no clone alive, so whoever is inside do_quit, or has been,
\* was asked to quit or was the last; and the signal follows one of the two.
StopInv ==
  /\ TypeOK
  /\ (\E h \in Handles : handles[h] = "last") => NoneLive
  /\ quit # "none" => asked \/ NoneLive
  /\ NoPrematureShutdown

\* A strong count of 1 means that the clone that reads it is alone.
LEMMA CountOne ==
  ASSUME TypeOK, StrongCount = 1, NEW h \in Handles, handles[h] # "gone"
  PROVE  \A g \in Handles : g # h => handles[g] = "gone"
<1> DEFINE S == {g \in Handles : handles[g] # "gone"}
<1>1. IsFiniteSet(S)
  BY LifecycleAssumption, FS_Subset DEF LifecycleAssumption
<1>2. PICK x : S = {x}
  BY <1>1, FS_Singleton DEF StrongCount
<1> QED
  BY <1>2

\* The invariant is inductive.  Once no clone is live, none becomes so: Clone
\* needs a live one.
LEMMA StopStep == StopInv /\ [Next]_vars => StopInv'
<1> SUFFICES ASSUME StopInv, [Next]_vars
             PROVE  /\ (\E h \in Handles : handles'[h] = "last") => NoneLive'
                    /\ quit' # "none" => asked' \/ NoneLive'
                    /\ NoPrematureShutdown'
  BY TypeStep DEF StopInv
<1> USE DEF StopInv, NoneLive, NoPrematureShutdown
<1>0. handles \in [Handles -> {"live", "last", "more", "gone"}]
  BY DEF TypeOK, HandleTypeOK
<1>1. CASE UNCHANGED handleVars
  BY <1>1
<1>2. ASSUME NEW h \in Handles, NEW g \in Handles, Clone(h, g)
      PROVE  /\ (\E k \in Handles : handles'[k] = "last") => NoneLive'
             /\ quit' # "none" => asked' \/ NoneLive'
             /\ NoPrematureShutdown'
  BY <1>0, <1>2 DEF Clone
<1>3. ASSUME NEW h \in Handles, QuitCall(h) \/ DropFlag(h)
      PROVE  /\ (\E k \in Handles : handles'[k] = "last") => NoneLive'
             /\ quit' # "none" => asked' \/ NoneLive'
             /\ NoPrematureShutdown'
  BY <1>3 DEF QuitCall, DropFlag
<1>4. ASSUME NEW h \in Handles, DropRead(h)
      PROVE  /\ (\E k \in Handles : handles'[k] = "last") => NoneLive'
             /\ quit' # "none" => asked' \/ NoneLive'
             /\ NoPrematureShutdown'
  <2>1. CASE StrongCount = 1
    <3>1. \A g \in Handles : g # h => handles[g] = "gone"
      BY <1>4, <2>1, CountOne DEF DropRead
    <3>2. NoneLive'
      BY <1>0, <1>4, <2>1, <3>1 DEF DropRead
    <3> QED
      BY <3>2
  <2>2. CASE StrongCount # 1
    BY <1>0, <1>4, <2>2 DEF DropRead
  <2> QED
    BY <2>1, <2>2
<1>5. CASE QuitSignal \/ QuitTake
  BY <1>5 DEF QuitSignal, QuitTake
<1>6. ASSUME NEW h \in Handles, DropFree(h)
      PROVE  /\ (\E k \in Handles : handles'[k] = "last") => NoneLive'
             /\ quit' # "none" => asked' \/ NoneLive'
             /\ NoPrematureShutdown'
  <2>1. handles[h] \in {"more", "last"} /\ handles' = [handles EXCEPT ![h] = "gone"]
        /\ UNCHANGED <<asked, quit>>
    BY <1>6 DEF DropFree
  <2>2. NoneLive => NoneLive'
    BY <1>0, <2>1
  <2>3. StrongCount = 1 => NoneLive
    BY <2>1, CountOne
  <2>4. (\E k \in Handles : handles'[k] = "last") => \E k \in Handles : handles[k] = "last"
    BY <1>0, <2>1
  <2>5. shutdown' => shutdown \/ StrongCount = 1
    BY <1>6 DEF DropFree
  <2> QED
    BY <2>1, <2>2, <2>3, <2>4, <2>5
<1>7. CASE \/ Consume \/ DropStream
           \/ \E e \in {"progress", "full"} : BootReport(e)
           \/ \E e \in {"full", "error"} : BootFinish(e)
           \/ BootStops
  BY <1>1, <1>7 DEF Consume, DropStream, BootReport, BootFinish, BootStops
<1>8. CASE TaskStep
  <2>1. UNCHANGED handleVars
    BY <1>8 DEF TaskStep, StartBootstrap, CancelBootstrap, TakeReport, ForwardReport,
       EndBootstrap, StoreTor, TakeClient, OpenRoom, Connect, ReportError, ReportRoomError,
       EmitReady, SetInvite, FailedRoomEnds, RoomEnds, ClearSlot
  <2> QED
    BY <1>1, <2>1
<1>9. CASE UNCHANGED vars
  BY <1>1, <1>9 DEF vars
<1> QED
  BY <1>2, <1>3, <1>4, <1>5, <1>6, <1>7, <1>8, <1>9 DEF Next, HandleStep, Terminated

\* No clone stops a room that another clone still holds, for any number of
\* clones made and dropped concurrently: the signal comes from quit() or when
\* every clone is being dropped.
THEOREM StopsOnlyWhenAsked == Spec => []NoPrematureShutdown
<1>1. Init => StopInv
  BY TypeInit DEF Init, StopInv, NoPrematureShutdown
<1>2. StopInv => NoPrematureShutdown
  BY DEF StopInv
<1> QED
  BY StopStep, <1>1, <1>2, PTL DEF Spec
=============================================================================
