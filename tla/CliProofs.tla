----------------------------- MODULE CliProofs -----------------------------
(***************************************************************************)
(* Theorems about the program around a room for any line, any number of    *)
(* messages and any terminal: how it gets out of its loop, and that a      *)
(* closed room does not come back.                                         *)
(***************************************************************************)
EXTENDS Cli, SequenceTheorems, TLAPS

USE DEF procVars, inputVars, viewVars, roomVars, taskVars, ctlVars

Out == {"returned", "panicked", "down", "exited"}

\* The ways a step moves main between its phases.  A turn of a loop stays in it,
\* leaves it in good order or panics; nothing else touches the terminal, and
\* what the room was told is not taken back before the runtime stops.
LEMMA PhaseMoves ==
  ASSUME [Next]_vars
  PROVE  \/ UNCHANGED <<phase, raw, rx>> /\ (told => told')
         \/ phase = "loop" /\ phase' \in {"loop", "leaving"}
         \/ phase = "loop" /\ phase' = "panicked" /\ raw' = FALSE
         \/ phase = "setup" /\ phase' = "loop"
         \/ phase = "setup" /\ phase' = "returned" /\ rx' = rx
         \/ phase = "leaving" /\ phase' = "returned" /\ raw' = FALSE /\ told' = TRUE
         \/ phase \in Out /\ phase' \in {"down", "exited"} /\ UNCHANGED <<raw, rx>>
<1>0. ASSUME NEW q \in BOOLEAN, EndTurn(q), phase = "loop"
      PROVE  \/ phase = "loop" /\ phase' \in {"loop", "leaving"}
             \/ phase = "loop" /\ phase' = "panicked" /\ raw' = FALSE
  BY <1>0 DEF EndTurn, Panic
<1>1. CASE UNCHANGED vars
  BY <1>1 DEF vars
<1>2. CASE Setup \/ SetupFails
  BY <1>2 DEF Setup, SetupFails
<1>3. CASE PressCtrlC \/ TimerExpires \/ TaskSends \/ TaskAsks \/ TaskQuits
  BY <1>3 DEF PressCtrlC, TimerExpires, TaskSends, TaskAsks, TaskQuits
<1>4. CASE CtrlC \/ Lost \/ Tick \/ Scroll
  <2>1. phase = "loop" /\ (EndTurn(TRUE) \/ EndTurn(FALSE))
    BY <1>4 DEF CtrlC, Lost, Tick, Scroll, Unlocked, InTui
  <2> QED
    BY <1>0, <2>1
<1>5. ASSUME NEW what \in Commands \cup {"local"}, Enter(what)
      PROVE  phase = "loop" /\ EndTurn(FALSE)
  BY <1>5 DEF Enter, Unlocked, InTui
<1>6. CASE (\E w \in Widths : Type(w)) \/ Backspace \/ Delete \/ MoveCursor
  <2>1. phase = "loop" /\ (EndTurn(FALSE) \/ Panic)
    BY <1>6 DEF Type, Backspace, Delete, MoveCursor, Edit, Unlocked, InTui
  <2> QED
    BY <1>0, <2>1 DEF Panic
<1>7. ASSUME NEW e \in ChatEvent, Event(e)
      PROVE  phase = "loop" /\ EndTurn(FALSE)
  BY <1>7 DEF Event, InTui
<1>8. ASSUME NEW r \in {"answer", "quit"}, Result(r)
      PROVE  phase = "loop" /\ (EndTurn(TRUE) \/ EndTurn(FALSE))
  <2>1. phase = "loop" /\ EndTurn(r = "quit")
    BY <1>8 DEF Result, InTui
  <2>2. (r = "quit") = TRUE \/ (r = "quit") = FALSE
    OBVIOUS
  <2> QED
    BY <2>1, <2>2
<1>9. ASSUME NEW e \in ChatEvent, HeadlessEvent(e)
      PROVE  phase = "loop" /\ phase' \in {"loop", "leaving"}
  BY <1>9 DEF HeadlessEvent, InHeadless
<1>10. CASE StreamEnds \/ HeadlessLost \/ DrawFails
  BY <1>10 DEF StreamEnds, HeadlessLost, DrawFails, InHeadless, InTui
<1>11. ASSUME NEW what \in Commands, HeadlessLine(what)
       PROVE  phase = "loop" /\ phase' \in {"loop", "leaving"}
  BY <1>11 DEF HeadlessLine, InHeadless
<1>12. CASE Leave
  BY <1>12 DEF Leave
<1>13. CASE RuntimeStops \/ Exit
  BY <1>13 DEF RuntimeStops, Exit, Out
<1>14. CASE KeyReaderPolls \/ Terminated
  BY <1>14 DEF KeyReaderPolls, Terminated, vars
<1> QED
  BY <1>0, <1>1, <1>2, <1>3, <1>4, <1>5, <1>6, <1>7, <1>8, <1>9, <1>10, <1>11, <1>12,
     <1>13, <1>14 DEF Next, Key

\* The inductive invariant: there is no room before the setup is over, and the
\* two promises about the way out.
ExitInv ==
  /\ phase = "setup" => rx = "none"
  /\ TerminalRestored
  /\ ReturnedMeansTold

\* It holds when main starts.
LEMMA ExitInit == Init => ExitInv
BY DEF Init, ExitInv, TerminalRestored, ReturnedMeansTold

\* It is inductive.
LEMMA ExitStep == ExitInv /\ [Next]_vars => ExitInv'
<1> SUFFICES ASSUME ExitInv, [Next]_vars PROVE ExitInv'
  OBVIOUS
<1> USE DEF ExitInv, TerminalRestored, ReturnedMeansTold, Out
<1>1. CASE UNCHANGED <<phase, raw, rx>> /\ (told => told')
  BY <1>1
<1>2. CASE phase = "loop" /\ phase' \in {"loop", "leaving"}
  BY <1>2
<1>3. CASE phase = "loop" /\ phase' = "panicked" /\ raw' = FALSE
  BY <1>3
<1>4. CASE phase = "setup" /\ (phase' = "loop" \/ (phase' = "returned" /\ rx' = rx))
  BY <1>4
<1>5. CASE phase = "leaving" /\ phase' = "returned" /\ raw' = FALSE /\ told' = TRUE
  BY <1>5
<1>6. CASE phase \in Out /\ phase' \in {"down", "exited"} /\ UNCHANGED <<raw, rx>>
  BY <1>6
<1> QED
  BY <1>1, <1>2, <1>3, <1>4, <1>5, <1>6, PhaseMoves

\* Once there was a room, no way out of the loop leaves the terminal in raw mode:
\* quit(), an error of the drawing and the panic hook all restore it.
THEOREM RestoresTerminal == Spec => []TerminalRestored
<1>1. ExitInv => TerminalRestored
  BY DEF ExitInv
<1> QED
  BY ExitInit, ExitStep, <1>1, PTL DEF Spec

\* run_tui and run_headless do not return before the room was told to stop.
THEOREM TellsBeforeReturning == Spec => []ReturnedMeansTold
<1>1. ExitInv => ReturnedMeansTold
  BY DEF ExitInv
<1> QED
  BY ExitInit, ExitStep, <1>1, PTL DEF Spec

-----------------------------------------------------------------------------
(* A closed room *)

\* run_headless has no such mode: without this, its PeerJoin would bring the
\* room back.
HeadlessInv ==
  /\ ui \in {"tui", "headless"}
  /\ ui = "headless" => mode # "shutting"

\* Every room starts with its bootstrap.
LEMMA HeadlessInit == Init => HeadlessInv
BY DEF Init, HeadlessInv

\* What a step may do to the mode, the line and the tasks.
LEMMA ModeMoves ==
  ASSUME HeadlessInv, [Next]_vars
  PROVE  /\ ui' = ui
         /\ ui = "headless" => mode' # "shutting"
         /\ mode = "shutting" => /\ mode' = "shutting" /\ line' = line /\ cursor' = cursor
                                 /\ tasks' \subseteq tasks
<1> DEFINE Keeps == /\ ui' = ui
                    /\ ui = "headless" => mode' # "shutting"
                    /\ mode = "shutting" => /\ mode' = "shutting" /\ line' = line
                                            /\ cursor' = cursor /\ tasks' \subseteq tasks
<1> USE DEF HeadlessInv
<1>1. CASE UNCHANGED vars
  BY <1>1 DEF vars
<1>2. CASE Setup \/ SetupFails \/ Leave \/ RuntimeStops \/ Exit
  BY <1>2 DEF Setup, SetupFails, Leave, RuntimeStops, Exit
<1>3. CASE \/ PressCtrlC \/ CtrlC \/ Tick \/ DrawFails \/ TimerExpires \/ StreamEnds
           \/ HeadlessLost
  BY <1>3 DEF PressCtrlC, CtrlC, Tick, DrawFails, TimerExpires, StreamEnds, HeadlessLost
<1>4. CASE TaskSends \/ TaskAsks \/ TaskQuits
  BY <1>4 DEF TaskSends, TaskAsks, TaskQuits
<1>5. CASE Lost
  BY <1>5 DEF Lost, InTui
<1>6. CASE Key
  BY <1>6 DEF Key, Type, Backspace, Delete, MoveCursor, Scroll, Enter, Edit, Unlocked, InTui
<1>7. ASSUME NEW e \in ChatEvent, Event(e) PROVE Keeps
  BY <1>7 DEF Event, EventMode, Arrives, InTui, ChatEvent
<1>8. ASSUME NEW e \in ChatEvent, HeadlessEvent(e) PROVE Keeps
  BY <1>8 DEF HeadlessEvent, InHeadless
<1>9. ASSUME NEW r \in {"answer", "quit"}, Result(r) PROVE Keeps
  BY <1>9 DEF Result
<1>10. ASSUME NEW what \in Commands, HeadlessLine(what) PROVE Keeps
  BY <1>10 DEF HeadlessLine, InHeadless
<1>11. CASE KeyReaderPolls \/ Terminated
  BY <1>11 DEF KeyReaderPolls, Terminated, vars
<1> QED
  BY <1>1, <1>2, <1>3, <1>4, <1>5, <1>6, <1>7, <1>8, <1>9, <1>10, <1>11 DEF Next

\* The mode of a closed room is final and its input locked, whatever the
\* handlers of the room still report to handle_event.
THEOREM ClosedStaysClosed == Spec => ShuttingIsFinal
<1>1. HeadlessInv /\ [Next]_vars => HeadlessInv'
  BY ModeMoves DEF HeadlessInv
<1>2. HeadlessInv /\ [Next]_vars =>
        [mode = "shutting" =>
           /\ mode' = "shutting" /\ line' = line /\ cursor' = cursor
           /\ tasks' \subseteq tasks]_vars
  BY ModeMoves
<1> QED
  BY HeadlessInit, <1>1, <1>2, PTL DEF Spec, ShuttingIsFinal

-----------------------------------------------------------------------------
(* The input line and the panics *)

\* What String::insert and String::remove make of the line.
LEMMA CharType ==
  ASSUME NEW w \in Widths
  PROVE  w \in Nat /\ w > 0 /\ Char(w) \in Seq(Byte) /\ Len(Char(w)) = w
<1>1. w \in Nat /\ w > 0
  BY CliAssumption DEF CliAssumption
<1>2. Char(w) \in [1 .. w -> Byte]
  BY <1>1 DEF Char, Byte
<1> QED
  BY <1>1, <1>2

\* A piece of the line is a line.
LEMMA PieceType ==
  ASSUME line \in Seq(Byte), NEW a \in Nat, NEW b \in Nat, a >= 1, b <= Len(line)
  PROVE  /\ SubSeq(line, a, b) \in Seq(Byte)
         /\ Len(SubSeq(line, a, b)) = IF a <= b THEN b - a + 1 ELSE 0
OBVIOUS

\* An insertion at the cursor leaves room for the cursor after its first byte.
LEMMA InsertType ==
  ASSUME line \in Seq(Byte), cursor \in 0 .. Len(line), NEW w \in Widths
  PROVE  Inserted(cursor, w) \in Seq(Byte) /\ cursor + 1 \in 0 .. Len(Inserted(cursor, w))
<1> DEFINE front == SubSeq(line, 1, cursor)
           back  == SubSeq(line, cursor + 1, Len(line))
<1>0. Len(line) \in Nat /\ cursor \in Nat /\ cursor <= Len(line)
  OBVIOUS
<1>1. /\ front \in Seq(Byte) /\ Len(front) = cursor
      /\ back \in Seq(Byte) /\ Len(back) = Len(line) - cursor
  BY <1>0, PieceType
<1>2. w \in Nat /\ w > 0 /\ Char(w) \in Seq(Byte) /\ Len(Char(w)) = w
  BY CharType
<1> DEFINE upTo == front \o Char(w)
<1>3. Inserted(cursor, w) = upTo \o back
  BY DEF Inserted
<1> HIDE DEF front, back
<1>4. upTo \in Seq(Byte) /\ Len(upTo) = cursor + w
  BY <1>1, <1>2, ConcatProperties
<1> HIDE DEF upTo
<1>5. upTo \o back \in Seq(Byte) /\ Len(upTo \o back) = (cursor + w) + (Len(line) - cursor)
  BY <1>1, <1>4, ConcatProperties
<1>6. Len(Inserted(cursor, w)) = Len(line) + w
  BY <1>0, <1>2, <1>3, <1>5
<1> QED
  BY <1>0, <1>2, <1>3, <1>5, <1>6

\* A legal removal leaves what is before it, and so the cursor in the line.
LEMMA RemoveType ==
  ASSUME line \in Seq(Byte), NEW b \in 0 .. Len(line), RemoveIsLegal(b)
  PROVE  Removed(b) \in Seq(Byte) /\ b \in 0 .. Len(Removed(b))
<1> DEFINE e == CHOOSE i \in 1 .. Len(line) : IsChar(b, i)
<1>1. e \in 1 .. Len(line)
  BY DEF RemoveIsLegal
<1> HIDE DEF e
<1>2. /\ SubSeq(line, 1, b) \in Seq(Byte) /\ Len(SubSeq(line, 1, b)) = b
      /\ SubSeq(line, e + 1, Len(line)) \in Seq(Byte)
      /\ Len(SubSeq(line, e + 1, Len(line))) \in Nat
  BY <1>1, PieceType
<1>3. Removed(b) = SubSeq(line, 1, b) \o SubSeq(line, e + 1, Len(line))
  BY DEF Removed, e
<1> QED
  BY <1>2, <1>3

\* In a line of one-byte characters every insertion and every removal within it
\* is legal.
LEMMA NarrowIsLegal ==
  ASSUME line \in Seq(Byte), "cont" \notin ToSet(line), NEW b \in 0 .. Len(line)
  PROVE  IsCharBoundary(b) /\ (b < Len(line) => RemoveIsLegal(b))
<1>1. \A i \in 1 .. Len(line) : line[i] = "lead"
  BY DEF ToSet, Byte
<1>2. \A c \in 0 .. Len(line) : IsCharBoundary(c)
  BY <1>1 DEF IsCharBoundary
<1>3. ASSUME b < Len(line) PROVE IsChar(b, b + 1) /\ b + 1 \in 1 .. Len(line)
  BY <1>2, <1>3 DEF IsChar
<1> QED
  BY <1>2, <1>3 DEF RemoveIsLegal

\* What render_messages shows are messages of the list.
LEMMA VisibleType ==
  msgs \in Seq({"plain", "cut"}) /\ scroll \in Nat /\ DrawPanics => "cut" \in ToSet(msgs)
<1> SUFFICES ASSUME msgs \in Seq({"plain", "cut"}), scroll \in Nat, DrawPanics
             PROVE  "cut" \in ToSet(msgs)
  OBVIOUS
<1> DEFINE end == Minus(Len(msgs), scroll)
           from == Minus(end, Height) + 1
<1>1. end \in 0 .. Len(msgs) /\ from \in Nat /\ from >= 1
  BY CliAssumption DEF Minus, CliAssumption
<1> HIDE DEF end, from
<1>2. \A i \in DOMAIN SubSeq(msgs, from, end) :
        \E j \in DOMAIN msgs : SubSeq(msgs, from, end)[i] = msgs[j]
  <2> TAKE i \in DOMAIN SubSeq(msgs, from, end)
  <2>1. /\ i \in Nat /\ i >= 1 /\ from + i - 1 <= end
        /\ SubSeq(msgs, from, end)[i] = msgs[from + i - 1]
    BY <1>1
  <2> QED
    BY <1>1, <2>1
<1>3. Visible = SubSeq(msgs, from, end)
  BY DEF Visible, end, from
<1> QED
  BY <1>2, <1>3 DEF DrawPanics, ToSet

-----------------------------------------------------------------------------
(* Type correctness, and what a panic needs *)

PanicInv == TypeOK /\ PanicNeedsWideText

\* It holds when main starts.
LEMMA PanicInit == Init => PanicInv
<1> SUFFICES ASSUME Init PROVE PanicInv
  OBVIOUS
<1>1. line = <<>> /\ msgs = <<>> /\ cursor = 0 /\ scroll = 0 /\ phase = "setup"
  BY DEF Init
<1>2. line \in Seq(Byte) /\ cursor \in 0 .. Len(line) /\ scroll \in 0 .. MaxScroll
      /\ msgs \in Seq({"plain", "cut"})
  BY <1>1, CliAssumption DEF CliAssumption
<1>3. TypeOK
  BY <1>2 DEF Init, TypeOK
<1> QED
  BY <1>1, <1>3 DEF PanicInv, PanicNeedsWideText

\* The parts of TypeOK that a step of the user interface touches one at a time.
ProcTypeOK ==
  /\ ui \in {"tui", "headless"}
  /\ phase \in {"setup", "loop", "leaving", "returned", "panicked", "down", "exited"}
  /\ raw \in BOOLEAN /\ pressed \in BOOLEAN /\ told \in BOOLEAN
  /\ keyReader \in {"none", "polling"}

RoomTypeOK ==
  /\ mode \in {"bootstrap", "running", "shutting"}
  /\ timer \in {"off", "running", "expired"}
  /\ rx \in {"none", "open", "closed", "ended"}

InputTypeOK == line \in Seq(Byte) /\ cursor \in 0 .. Len(line)

ViewTypeOK == scroll \in 0 .. MaxScroll /\ msgs \in Seq({"plain", "cut"})

TaskTypeOK == tasks \subseteq Commands /\ results \subseteq {"answer", "quit"}

LEMMA TypeParts ==
  TypeOK <=> ProcTypeOK /\ RoomTypeOK /\ InputTypeOK /\ ViewTypeOK /\ TaskTypeOK
BY DEF TypeOK, ProcTypeOK, RoomTypeOK, InputTypeOK, ViewTypeOK, TaskTypeOK

\* The end of a turn leaves the phase, the terminal and the signal well-typed,
\* and panics only when a cut name is in the list.
LEMMA EndTurnType ==
  ASSUME raw \in BOOLEAN, told \in BOOLEAN, NEW q, EndTurn(q),
         msgs' \in Seq({"plain", "cut"}), scroll' \in Nat
  PROVE  /\ phase' \in {"loop", "leaving", "panicked"}
         /\ raw' \in BOOLEAN /\ told' \in BOOLEAN
         /\ phase' = "panicked" => "cut" \in ToSet(msgs')
<1>1. (msgs \in Seq({"plain", "cut"}) /\ scroll \in Nat /\ DrawPanics => "cut" \in ToSet(msgs))'
  BY VisibleType, PTL
<1> QED
  BY <1>1 DEF EndTurn, Panic

\* A turn that leaves the state well-typed before it is drawn keeps the invariant.
LEMMA TurnKeeps ==
  ASSUME PanicInv, NEW q, EndTurn(q), UNCHANGED <<ui, keyReader>>, pressed' \in BOOLEAN,
         RoomTypeOK', InputTypeOK', ViewTypeOK', TaskTypeOK'
  PROVE  PanicInv'
<1>1. raw \in BOOLEAN /\ told \in BOOLEAN
  BY TypeParts DEF PanicInv, ProcTypeOK
<1>2. msgs' \in Seq({"plain", "cut"}) /\ scroll' \in Nat
  BY CliAssumption DEF ViewTypeOK, CliAssumption
<1>3. /\ phase' \in {"loop", "leaving", "panicked"} /\ raw' \in BOOLEAN /\ told' \in BOOLEAN
      /\ phase' = "panicked" => "cut" \in ToSet(msgs')
  BY <1>1, <1>2, EndTurnType
<1>4. ProcTypeOK'
  BY <1>3, TypeParts DEF PanicInv, ProcTypeOK
<1>5. TypeOK'
  BY <1>4 DEF TypeOK, ProcTypeOK, RoomTypeOK, InputTypeOK, ViewTypeOK, TaskTypeOK
<1> QED
  BY <1>3, <1>5 DEF PanicInv, PanicNeedsWideText

\* So does a step that leaves line and messages alone and does not panic.
LEMMA OtherKeeps ==
  ASSUME PanicInv, UNCHANGED <<line, cursor, scroll, msgs>>,
         phase' = "panicked" => phase = "panicked",
         ProcTypeOK', RoomTypeOK', TaskTypeOK'
  PROVE  PanicInv'
<1>1. InputTypeOK' /\ ViewTypeOK'
  BY TypeParts DEF PanicInv, InputTypeOK, ViewTypeOK
<1>2. TypeOK'
  BY <1>1 DEF TypeOK, ProcTypeOK, RoomTypeOK, InputTypeOK, ViewTypeOK, TaskTypeOK
<1> QED
  BY <1>2 DEF PanicInv, PanicNeedsWideText

\* An edit keeps the cursor in the line and panics only on a wide character.
LEMMA EditKeeps ==
  ASSUME PanicInv, NEW legal \in BOOLEAN, NEW l, NEW c, Edit(legal, l, c),
         legal => l \in Seq(Byte) /\ c \in 0 .. Len(l),
         ~legal => "cont" \in ToSet(line)
  PROVE  PanicInv'
<1>0. ProcTypeOK /\ RoomTypeOK /\ InputTypeOK /\ ViewTypeOK /\ TaskTypeOK
  BY TypeParts DEF PanicInv
<1>1. UNCHANGED <<ui, keyReader, pressed, scroll, msgs, mode, timer, rx, tasks, results>>
  BY DEF Edit
<1>2. RoomTypeOK' /\ ViewTypeOK' /\ TaskTypeOK' /\ pressed' \in BOOLEAN
  BY <1>0, <1>1 DEF ProcTypeOK, RoomTypeOK, ViewTypeOK, TaskTypeOK
<1>3. CASE legal
  <2>1. line' = l /\ cursor' = c /\ EndTurn(FALSE)
    BY <1>3 DEF Edit
  <2>2. InputTypeOK'
    BY <1>3, <2>1 DEF InputTypeOK
  <2> QED
    BY <1>1, <1>2, <2>1, <2>2, TurnKeeps
<1>4. CASE ~legal
  <2>1. Panic /\ UNCHANGED <<line, cursor>>
    BY <1>4 DEF Edit
  <2>2. ProcTypeOK'
    BY <1>0, <1>1, <2>1 DEF ProcTypeOK, Panic
  <2>3. TypeOK'
    BY <1>0, <1>2, <2>1, <2>2
       DEF TypeOK, ProcTypeOK, RoomTypeOK, InputTypeOK, ViewTypeOK, TaskTypeOK
  <2> QED
    BY <1>4, <2>1, <2>3 DEF PanicInv, PanicNeedsWideText
<1> QED
  BY <1>3, <1>4

\* The keys of the input line.
LEMMA PanicEdits ==
  ASSUME PanicInv, (\E w \in Widths : Type(w)) \/ Backspace \/ Delete \/ MoveCursor
  PROVE  PanicInv'
<1>0. /\ line \in Seq(Byte) /\ cursor \in 0 .. Len(line)
      /\ Len(line) \in Nat /\ cursor \in Nat /\ cursor <= Len(line)
  BY DEF PanicInv, TypeOK
<1>1. ASSUME NEW w \in Widths, Type(w) PROVE PanicInv'
  <2>1. Edit(IsCharBoundary(cursor), Inserted(cursor, w), cursor + 1)
    BY <1>1 DEF Type
  <2>2. ~IsCharBoundary(cursor) => "cont" \in ToSet(line)
    BY <1>0, NarrowIsLegal
  <2>3. Inserted(cursor, w) \in Seq(Byte) /\ cursor + 1 \in 0 .. Len(Inserted(cursor, w))
    BY <1>0, InsertType
  <2>4. IsCharBoundary(cursor) \in BOOLEAN
    BY DEF IsCharBoundary
  <2> QED
    BY <2>1, <2>2, <2>3, <2>4, EditKeeps
<1>2. ASSUME NEW b \in 0 .. Len(line), b < Len(line), Edit(RemoveIsLegal(b), Removed(b), b)
      PROVE  PanicInv'
  <2>1. ~RemoveIsLegal(b) => "cont" \in ToSet(line)
    BY <1>0, <1>2, NarrowIsLegal
  <2>2. RemoveIsLegal(b) => Removed(b) \in Seq(Byte) /\ b \in 0 .. Len(Removed(b))
    BY <1>0, RemoveType
  <2>3. RemoveIsLegal(b) \in BOOLEAN
    BY DEF RemoveIsLegal
  <2> QED
    BY <1>2, <2>1, <2>2, <2>3, EditKeeps
<1>3. CASE Backspace
  <2>1. cursor > 0 /\ Edit(RemoveIsLegal(cursor - 1), Removed(cursor - 1), cursor - 1)
    BY <1>3 DEF Backspace
  <2>2. cursor - 1 \in 0 .. Len(line) /\ cursor - 1 < Len(line)
    BY <1>0, <2>1
  <2> QED
    BY <1>2, <2>1, <2>2
<1>4. CASE Delete
  <2>1. cursor < Len(line) /\ Edit(RemoveIsLegal(cursor), Removed(cursor), cursor)
    BY <1>4 DEF Delete
  <2> QED
    BY <1>0, <1>2, <2>1
<1>5. CASE MoveCursor
  <2>1. PICK c \in {Minus(cursor, 1), cursor + 1, 0, Len(line)} :
          c <= Len(line) /\ Edit(TRUE, line, c)
    BY <1>5 DEF MoveCursor
  <2>2. c \in 0 .. Len(line)
    BY <1>0, <2>1 DEF Minus
  <2> QED
    BY <1>0, <2>1, <2>2, EditKeeps
<1> QED
  BY <1>1, <1>3, <1>4, <1>5

\* The other turns of run_tui.
LEMMA PanicTurns ==
  ASSUME PanicInv,
         \/ CtrlC \/ Scroll \/ Lost \/ Tick
         \/ \E what \in Commands \cup {"local"} : Enter(what)
         \/ \E e \in ChatEvent : Event(e)
         \/ \E r \in {"answer", "quit"} : Result(r)
  PROVE  PanicInv'
<1>0. ProcTypeOK /\ RoomTypeOK /\ InputTypeOK /\ ViewTypeOK /\ TaskTypeOK
  BY TypeParts DEF PanicInv
<1>1. \A k \in {"plain", "cut"} : Append(msgs, k) \in Seq({"plain", "cut"})
  BY <1>0 DEF ViewTypeOK
<1>2. MaxScroll \in Nat /\ Page \in Nat /\ 0 \in 0 .. MaxScroll
  BY CliAssumption DEF CliAssumption
<1>3. CASE CtrlC
  <2>1. RoomTypeOK' /\ InputTypeOK' /\ ViewTypeOK' /\ TaskTypeOK' /\ pressed' \in BOOLEAN
    BY <1>0, <1>3 DEF CtrlC, RoomTypeOK, InputTypeOK, ViewTypeOK, TaskTypeOK
  <2>2. UNCHANGED <<ui, keyReader>> /\ EndTurn(TRUE)
    BY <1>3 DEF CtrlC
  <2> QED
    BY <2>1, <2>2, TurnKeeps
<1>4. CASE Tick
  <2>1. RoomTypeOK' /\ InputTypeOK' /\ ViewTypeOK' /\ TaskTypeOK' /\ pressed' \in BOOLEAN
    BY <1>0, <1>4 DEF Tick, ProcTypeOK, RoomTypeOK, InputTypeOK, ViewTypeOK, TaskTypeOK
  <2>2. UNCHANGED <<ui, keyReader>> /\ EndTurn(FALSE)
    BY <1>4 DEF Tick
  <2> QED
    BY <2>1, <2>2, TurnKeeps
<1>5. CASE Scroll
  <2>1. PICK s \in {scroll + 1, scroll + Page, Minus(scroll, 1), Minus(scroll, Page)} :
          s <= MaxScroll /\ scroll' = s
    BY <1>5 DEF Scroll
  <2>2. scroll' \in 0 .. MaxScroll
    BY <1>0, <1>2, <2>1 DEF ViewTypeOK, Minus
  <2>3. RoomTypeOK' /\ InputTypeOK' /\ ViewTypeOK' /\ TaskTypeOK' /\ pressed' \in BOOLEAN
    BY <1>0, <1>5, <2>2
       DEF Scroll, ProcTypeOK, RoomTypeOK, InputTypeOK, ViewTypeOK, TaskTypeOK
  <2>4. UNCHANGED <<ui, keyReader>> /\ EndTurn(FALSE)
    BY <1>5 DEF Scroll
  <2> QED
    BY <2>3, <2>4, TurnKeeps
<1>6. CASE Lost
  <2>1. msgs' = Append(msgs, "plain") /\ UNCHANGED <<ui, keyReader>> /\ EndTurn(FALSE)
    BY <1>6 DEF Lost, Push
  <2>2. RoomTypeOK' /\ InputTypeOK' /\ ViewTypeOK' /\ TaskTypeOK' /\ pressed' \in BOOLEAN
    BY <1>0, <1>1, <1>6, <2>1
       DEF Lost, ProcTypeOK, RoomTypeOK, InputTypeOK, ViewTypeOK, TaskTypeOK
  <2> QED
    BY <2>1, <2>2, TurnKeeps
<1>7. ASSUME NEW what \in Commands \cup {"local"}, Enter(what) PROVE PanicInv'
  <2>1. /\ line' = <<>> /\ cursor' = 0 /\ scroll' = 0
        /\ UNCHANGED <<ui, keyReader, pressed, mode, timer, rx, results>> /\ EndTurn(FALSE)
    BY <1>7 DEF Enter
  <2>2. /\ msgs' = msgs \/ msgs' = Append(msgs, "plain")
        /\ tasks' \subseteq Commands
    BY <1>0, <1>7 DEF Enter, Push, TaskTypeOK
  <2>3. InputTypeOK'
    BY <2>1 DEF InputTypeOK
  <2>4. RoomTypeOK' /\ ViewTypeOK' /\ TaskTypeOK' /\ pressed' \in BOOLEAN
    BY <1>0, <1>1, <1>2, <2>1, <2>2 DEF ProcTypeOK, RoomTypeOK, ViewTypeOK, TaskTypeOK
  <2> QED
    BY <2>1, <2>3, <2>4, TurnKeeps
<1>8. ASSUME NEW e \in ChatEvent, Event(e) PROVE PanicInv'
  <2>1. /\ UNCHANGED <<ui, keyReader, pressed, line, cursor, scroll, tasks, results>>
        /\ \E k \in {"plain", "cut"} : msgs' = Append(msgs, k)
        /\ EndTurn(FALSE)
    BY <1>8 DEF Event, Push
  <2>2. RoomTypeOK'
    BY <1>0, <1>8 DEF Event, EventMode, Arrives, RoomTypeOK
  <2>3. InputTypeOK' /\ ViewTypeOK' /\ TaskTypeOK' /\ pressed' \in BOOLEAN
    BY <1>0, <1>1, <2>1 DEF ProcTypeOK, InputTypeOK, ViewTypeOK, TaskTypeOK
  <2> QED
    BY <2>1, <2>2, <2>3, TurnKeeps
<1>9. ASSUME NEW r \in {"answer", "quit"}, Result(r) PROVE PanicInv'
  <2>1. /\ UNCHANGED <<ui, keyReader, pressed, line, cursor, scroll, mode, timer, rx, tasks>>
        /\ results' \subseteq results
        /\ msgs' = msgs \/ msgs' = Append(msgs, "plain")
        /\ EndTurn(r = "quit")
    BY <1>9 DEF Result, Push
  <2>2. RoomTypeOK' /\ InputTypeOK' /\ TaskTypeOK' /\ pressed' \in BOOLEAN
    BY <1>0, <2>1 DEF ProcTypeOK, RoomTypeOK, InputTypeOK, TaskTypeOK
  <2>3. ViewTypeOK'
    BY <1>0, <1>1, <2>1 DEF ViewTypeOK
  <2> QED
    BY <2>1, <2>2, <2>3, TurnKeeps
<1> QED
  BY <1>3, <1>4, <1>5, <1>6, <1>7, <1>8, <1>9

\* Everything else: no key, no event, no drawing.
LEMMA PanicOthers ==
  ASSUME PanicInv,
         \/ UNCHANGED vars \/ KeyReaderPolls \/ Terminated
         \/ Setup \/ SetupFails \/ PressCtrlC \/ StreamEnds
         \/ TaskSends \/ TaskAsks \/ TaskQuits \/ DrawFails \/ TimerExpires
         \/ \E what \in Commands : HeadlessLine(what)
         \/ \E e \in ChatEvent : HeadlessEvent(e)
         \/ HeadlessLost \/ Leave \/ RuntimeStops \/ Exit
  PROVE  PanicInv'
<1>0. ProcTypeOK /\ RoomTypeOK /\ TaskTypeOK
  BY TypeParts DEF PanicInv
<1> DEFINE Kept == /\ UNCHANGED <<line, cursor, scroll, msgs>>
                   /\ phase' = "panicked" => phase = "panicked"
                   /\ ProcTypeOK' /\ RoomTypeOK' /\ TaskTypeOK'
<1> SUFFICES Kept
  BY OtherKeeps
<1> USE <1>0 DEF ProcTypeOK, RoomTypeOK, TaskTypeOK
<1>1. CASE UNCHANGED vars \/ KeyReaderPolls \/ Terminated
  <2>1. /\ UNCHANGED <<ui, phase, raw, pressed, told, keyReader>>
        /\ UNCHANGED <<mode, timer, rx>> /\ UNCHANGED <<tasks, results>>
        /\ UNCHANGED <<line, cursor, scroll, msgs>>
    BY <1>1 DEF vars, KeyReaderPolls, Terminated
  <2> QED
    BY <2>1
<1>2. CASE Setup
  BY <1>2 DEF Setup
<1>3. CASE SetupFails
  BY <1>3 DEF SetupFails
<1>4. CASE PressCtrlC
  BY <1>4 DEF PressCtrlC
<1>5. CASE StreamEnds
  BY <1>5 DEF StreamEnds
<1>6. CASE TimerExpires
  BY <1>6 DEF TimerExpires
<1>7. CASE TaskSends
  BY <1>7 DEF TaskSends
<1>8. CASE TaskAsks
  BY <1>8 DEF TaskAsks
<1>9. CASE TaskQuits
  BY <1>9 DEF TaskQuits
<1>10. CASE DrawFails \/ HeadlessLost \/ Leave \/ Exit
  BY <1>10 DEF DrawFails, HeadlessLost, Leave, Exit
<1>11. CASE RuntimeStops
  BY <1>11 DEF RuntimeStops
<1>12. ASSUME NEW what \in Commands, HeadlessLine(what) PROVE Kept
  <2>1. /\ UNCHANGED <<ui, keyReader, pressed, mode, timer, rx, results, raw, told>>
        /\ UNCHANGED <<line, cursor, scroll, msgs>>
        /\ phase' = "leaving" \/ phase' = phase
        /\ tasks' \subseteq tasks \cup {what}
    BY <1>12 DEF HeadlessLine
  <2> QED
    BY <2>1
<1>13. ASSUME NEW e \in ChatEvent, HeadlessEvent(e) PROVE Kept
  BY <1>13 DEF HeadlessEvent, Arrives
<1> QED
  BY <1>1, <1>2, <1>3, <1>4, <1>5, <1>6, <1>7, <1>8, <1>9, <1>10, <1>11, <1>12, <1>13

\* The invariant is inductive.
LEMMA PanicStep == PanicInv /\ [Next]_vars => PanicInv'
BY PanicEdits, PanicTurns, PanicOthers DEF Next, Key

\* Every variable keeps its domain, and the cursor, moved by one byte for a
\* character of any width, stays in the line of any length.
THEOREM TypeCorrect == Spec => []TypeOK
<1>1. PanicInv => TypeOK
  BY DEF PanicInv
<1> QED
  BY PanicInit, PanicStep, <1>1, PTL DEF Spec

\* No sequence of keys and events makes the program panic unless a character
\* or a name wider than its bytes are counted is on the screen.
THEOREM PanicsOnlyOnWideText == Spec => []PanicNeedsWideText
<1>1. PanicInv => PanicNeedsWideText
  BY DEF PanicInv
<1> QED
  BY PanicInit, PanicStep, <1>1, PTL DEF Spec
=============================================================================
