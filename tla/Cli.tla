--------------------------------- MODULE Cli ---------------------------------
(***************************************************************************)
(* The program around a room (crates/cli/src/main.rs): run_tui with its    *)
(* select loop, the input line, the commands and the tasks they spawn, the *)
(* frame that each turn draws, the way out through the restored terminal   *)
(* and the runtime; run_headless with the same room behind stdin.          *)
(*                                                                         *)
(* One action is one turn of a loop: the branch that the select takes, the *)
(* test of the shutdown timer, the drawing and the break, between which    *)
(* the code awaits nothing.  A line is the sequence of its bytes, each one *)
(* "lead" or "cont", the first of a character or a later one; a shown      *)
(* message is "plain", or "cut" when its sender has a name that            *)
(* render_messages truncates inside a character.                           *)
(***************************************************************************)
EXTENDS Naturals, Sequences, SequencesExt

CONSTANTS
  Widths,     \* widths in bytes of the characters the user types
  MaxLine,    \* bound: bytes of the input line
  MaxMsgs,    \* bound: messages shown before the room or the user adds one
  MaxScroll,  \* bound: lines scrolled up
  Page,       \* lines scrolled by a page key
  Height      \* rows of the message area

ASSUME CliAssumption ==
  /\ Widths \subseteq Nat \ {0} /\ 1 \in Widths
  /\ MaxLine \in Nat /\ MaxMsgs \in Nat /\ MaxScroll \in Nat
  /\ Page \in Nat \ {0} /\ Height \in Nat \ {0}

VARIABLES
  ui,         \* "tui" or "headless"
  phase,      \* main: "setup", "loop", "leaving", "returned", "panicked", "down", "exited"
  raw,        \* the terminal is in raw mode
  keyReader,  \* the blocking task that reads keys: "none", "polling"
  pressed,    \* Ctrl-C waits in the key channel
  mode,       \* App.mode; headless: "running" once room_ready
  timer,      \* the 5 s after ShuttingDown: "off", "running", "expired"
  line,       \* App.input
  cursor,     \* App.cursor, an index of bytes
  scroll,     \* App.scroll
  msgs,       \* App.msgs
  rx,         \* the event stream: "none" (no room yet), "open", "closed" (it
              \* has yielded RoomClosed), "ended" (it yields None)
  tasks,      \* spawned tasks that hold a clone of the handle; two alike are one
  results,    \* the command channel
  told        \* do_quit has signalled the room

procVars  == <<ui, keyReader, pressed>>
inputVars == <<line, cursor>>
viewVars  == <<scroll, msgs>>
roomVars  == <<mode, timer, rx>>
taskVars  == <<tasks, results>>
ctlVars   == <<phase, raw, told>>
vars == <<procVars, inputVars, viewVars, roomVars, taskVars, ctlVars>>

-----------------------------------------------------------------------------
(* The input line, in bytes *)

Byte == {"lead", "cont"}

\* A character of w bytes.
Char(w) == [i \in 1 .. w |-> IF i = 1 THEN "lead" ELSE "cont"]

IsCharBoundary(b) == b = Len(line) \/ (b < Len(line) /\ line[b + 1] = "lead")

\* The bytes after b up to e are one character.
IsChar(b, e) ==
  /\ b < e /\ IsCharBoundary(b) /\ IsCharBoundary(e)
  /\ \A i \in b + 1 .. e - 1 : ~IsCharBoundary(i)

\* String::insert and String::remove.
Inserted(b, w) == SubSeq(line, 1, b) \o Char(w) \o SubSeq(line, b + 1, Len(line))

Removed(b) ==
  LET e == CHOOSE i \in 1 .. Len(line) : IsChar(b, i)
  IN  SubSeq(line, 1, b) \o SubSeq(line, e + 1, Len(line))

Minus(a, b) == IF a < b THEN 0 ELSE a - b

-----------------------------------------------------------------------------
(* What ends a turn of run_tui *)

\* render_messages: the window of messages between scroll and the height.
Visible ==
  LET end == Minus(Len(msgs), scroll)
  IN  SubSeq(msgs, Minus(end, Height) + 1, end)

\* &m.name[..17] panics for a name with a character across that byte.  (On a
\* terminal smaller than 10x4 nothing of this is drawn.)
DrawPanics == mode # "bootstrap" /\ "cut" \in ToSet(Visible)

\* Mutant: the panic hook is not installed.
PanicUnhooked ==
  /\ phase' = "panicked" /\ UNCHANGED raw
  /\ told' = (told \/ tasks' = {})

\* The panic hook restores the terminal; unwinding drops App and its handle,
\* the last one unless a spawned task holds a clone.
Panic ==
  /\ phase' = "panicked" /\ raw' = FALSE
  /\ told' = (told \/ tasks' = {})

\* The test of the timer, the drawing and the break.
EndTurn(quit) ==
  \/ DrawPanics' /\ Panic
  \/ /\ ~DrawPanics'
     /\ phase' = IF quit \/ (mode' = "shutting" /\ timer' = "expired")
                 THEN "leaving" ELSE "loop"
     /\ UNCHANGED <<raw, told>>

InTui    == ui = "tui" /\ phase = "loop"
Unlocked == InTui /\ mode = "running"

Push(kind) == msgs' = Append(msgs, kind)

-----------------------------------------------------------------------------
(* Keys: handle_key *)

PressCtrlC ==
  /\ InTui /\ ~pressed
  /\ pressed' = TRUE
  /\ UNCHANGED <<ui, keyReader, inputVars, viewVars, roomVars, taskVars, ctlVars>>

CtrlC ==
  /\ InTui /\ pressed
  /\ pressed' = FALSE
  /\ UNCHANGED <<ui, keyReader, inputVars, viewVars, roomVars, taskVars>>
  /\ EndTurn(TRUE)

\* String::insert and String::remove panic when they are not at a character.
Edit(legal, l, c) ==
  /\ UNCHANGED <<procVars, viewVars, roomVars, taskVars>>
  /\ IF legal
     THEN line' = l /\ cursor' = c /\ EndTurn(FALSE)
     ELSE Panic /\ UNCHANGED inputVars

Type(w) ==
  /\ Unlocked /\ Len(line) + w <= MaxLine
  /\ Edit(IsCharBoundary(cursor), Inserted(cursor, w), cursor + 1)

RemoveIsLegal(b) == \E e \in 1 .. Len(line) : IsChar(b, e)

Backspace ==
  /\ Unlocked /\ cursor > 0
  /\ Edit(RemoveIsLegal(cursor - 1), Removed(cursor - 1), cursor - 1)

\* Mutant: the key is not ignored at the end of the line.
DeleteAtEnd ==
  /\ Unlocked
  /\ Edit(RemoveIsLegal(cursor), Removed(cursor), cursor)

Delete ==
  /\ Unlocked /\ cursor < Len(line)
  /\ Edit(RemoveIsLegal(cursor), Removed(cursor), cursor)

\* Mutant: the cursor leaves the line.
MoveCursorPastEnd ==
  /\ Unlocked
  /\ \E c \in {Minus(cursor, 1), cursor + 1, 0, Len(line)} : Edit(TRUE, line, c)

\* Left, Right, Home, End.
MoveCursor ==
  /\ Unlocked
  /\ \E c \in {Minus(cursor, 1), cursor + 1, 0, Len(line)} :
       c <= Len(line) /\ Edit(TRUE, line, c)

\* Up, PageUp, Down, PageDown: the upper end is not tested.
Scroll ==
  /\ Unlocked
  /\ \E s \in {scroll + 1, scroll + Page, Minus(scroll, 1), Minus(scroll, Page)} :
       s <= MaxScroll /\ scroll' = s
  /\ UNCHANGED <<procVars, inputVars, msgs, roomVars, taskVars>>
  /\ EndTurn(FALSE)

\* send: an empty line only scrolls to the bottom; else it is a message, a
\* command that is answered by a task, /quit, or /help and unknown commands,
\* which push at once (the five lines of /help count as one).
Enter(what) ==
  /\ Unlocked /\ Len(msgs) < MaxMsgs
  /\ line' = <<>> /\ cursor' = 0 /\ scroll' = 0
  /\ \/ line = <<>> /\ UNCHANGED <<msgs, tasks>>
     \/ line # <<>> /\ what = "local" /\ Push("plain") /\ UNCHANGED tasks
     \/ line # <<>> /\ what # "local" /\ tasks' = tasks \cup {what} /\ UNCHANGED msgs
  /\ UNCHANGED <<procVars, roomVars, results>>
  /\ EndTurn(FALSE)

-----------------------------------------------------------------------------
(* Events of the room: handle_event *)

\* PeerLeave, InviteCreated and Error only add a line: "Notice".  "WideName" is
\* a message whose sender's name is cut inside a character.
ChatEvent == {"RoomReady", "PeerJoin", "Notice", "Message", "WideName", "RoomClosed"}

\* The host announces the room before it accepts a peer; handlers of the host
\* may still report their peers after RoomClosed.
Arrives(e) ==
  /\ rx \in {"open", "closed"}
  /\ e = "RoomReady" => mode = "bootstrap" /\ rx = "open"
  /\ e \in {"RoomClosed", "Message", "WideName"} => rx = "open"
  /\ e # "RoomClosed" => Len(msgs) < MaxMsgs
  /\ rx' = IF e = "RoomClosed" THEN "closed" ELSE rx

\* Mutant: a join always means that the room is running.
EventModeJoinRuns(e) ==
  mode' = CASE e = "RoomClosed"            -> "shutting"
            [] e \in {"RoomReady", "PeerJoin"} -> "running"
            [] OTHER                       -> mode

EventMode(e) ==
  mode' = CASE e = "RoomClosed" -> "shutting"
            [] e = "RoomReady" \/ (e = "PeerJoin" /\ mode = "bootstrap") -> "running"
            [] OTHER -> mode

Event(e) ==
  /\ InTui /\ Arrives(e)
  /\ EventMode(e)
  /\ timer' = IF e = "RoomClosed" THEN "running" ELSE timer
  /\ Push(IF e = "WideName" THEN "cut" ELSE "plain")
  /\ UNCHANGED <<procVars, inputVars, scroll, taskVars>>
  /\ EndTurn(FALSE)

\* The stream yields None: every task of the room that held a sender is gone.
StreamEnds ==
  /\ phase = "loop" /\ rx \in {"open", "closed"}
  /\ rx' = "ended"
  /\ UNCHANGED <<procVars, inputVars, viewVars, mode, timer, taskVars, ctlVars>>

\* "connection lost" is said and the timer started; in a room that is shutting down None changes nothing.
Lost ==
  /\ InTui /\ rx = "ended" /\ mode # "shutting"
  /\ Push("plain")
  /\ mode' = "shutting" /\ timer' = "running"
  /\ UNCHANGED <<procVars, inputVars, scroll, rx, taskVars>>
  /\ EndTurn(FALSE)

-----------------------------------------------------------------------------
(* Commands, the ticker and the timer *)

\* A spawned task finishes: send(), invite() or peers(), and quit().
TaskSends ==
  /\ "message" \in tasks /\ phase # "down" /\ phase # "exited"
  /\ tasks' = tasks \ {"message"}
  /\ told' = (told \/ (phase = "panicked" /\ tasks' = {}))
  /\ UNCHANGED <<procVars, inputVars, viewVars, roomVars, results, phase, raw>>

TaskAsks ==
  /\ "ask" \in tasks /\ phase # "down" /\ phase # "exited"
  /\ tasks' = tasks \ {"ask"}
  /\ results' = IF ui = "tui" THEN results \cup {"answer"} ELSE results
  /\ told' = (told \/ (phase = "panicked" /\ tasks' = {}))
  /\ UNCHANGED <<procVars, inputVars, viewVars, roomVars, phase, raw>>

\* Mutant: the task quits the room and reports nothing.
TaskQuitsSilently ==
  /\ "quit" \in tasks /\ phase # "down" /\ phase # "exited"
  /\ tasks' = tasks \ {"quit"}
  /\ told' = TRUE
  /\ UNCHANGED <<procVars, inputVars, viewVars, roomVars, results, phase, raw>>

TaskQuits ==
  /\ "quit" \in tasks /\ phase # "down" /\ phase # "exited"
  /\ tasks' = tasks \ {"quit"}
  /\ results' = results \cup {"quit"}
  /\ told' = TRUE
  /\ UNCHANGED <<procVars, inputVars, viewVars, roomVars, phase, raw>>

Result(r) ==
  /\ InTui /\ r \in results
  /\ results' = results \ {r}
  /\ IF r = "answer" THEN Push("plain") ELSE UNCHANGED msgs
  /\ UNCHANGED <<procVars, inputVars, scroll, roomVars, tasks>>
  /\ EndTurn(r = "quit")

\* A tick, a key that is locked or unknown, None while shutting down.
Tick ==
  /\ InTui
  /\ UNCHANGED <<procVars, inputVars, viewVars, roomVars, taskVars>>
  /\ EndTurn(FALSE)

\* A turn whose drawing fails is the last; here it changes nothing else, what it
\* did before is a turn of its own.
DrawFails ==
  /\ InTui
  /\ phase' = "leaving"
  /\ UNCHANGED <<procVars, inputVars, viewVars, roomVars, taskVars, raw, told>>

TimerExpires ==
  /\ timer = "running"
  /\ timer' = "expired"
  /\ UNCHANGED <<procVars, inputVars, viewVars, mode, rx, taskVars, ctlVars>>

-----------------------------------------------------------------------------
(* run_headless *)

InHeadless == ui = "headless" /\ phase = "loop"

\* A line of stdin: /quit leaves, a message counts once the room is ready; the
\* rest changes nothing.
HeadlessLine(what) ==
  /\ InHeadless
  /\ \/ what = "quit" /\ phase' = "leaving" /\ UNCHANGED tasks
     \/ /\ what = "ask" \/ (what = "message" /\ mode = "running")
        /\ tasks' = tasks \cup {what} /\ UNCHANGED phase
  /\ UNCHANGED <<procVars, inputVars, viewVars, roomVars, results, raw, told>>

HeadlessEvent(e) ==
  /\ InHeadless /\ Arrives(e)
  /\ phase' = IF e = "RoomClosed" THEN "leaving" ELSE "loop"
  /\ mode' = IF e \in {"RoomReady", "PeerJoin"} THEN "running" ELSE mode
  /\ UNCHANGED <<procVars, inputVars, viewVars, timer, taskVars, raw, told>>

HeadlessLost ==
  /\ InHeadless /\ rx = "ended"
  /\ phase' = "leaving"
  /\ UNCHANGED <<procVars, inputVars, viewVars, roomVars, taskVars, raw, told>>

-----------------------------------------------------------------------------
(* From main to the loop, and from the loop to the end of the process *)

Init ==
  /\ ui \in {"tui", "headless"}
  /\ phase = "setup" /\ raw = FALSE /\ keyReader = "none" /\ pressed = FALSE
  /\ mode = "bootstrap" /\ timer = "off"
  /\ line = <<>> /\ cursor = 0 /\ scroll = 0 /\ msgs = <<>>
  /\ rx = "none" /\ tasks = {} /\ results = {} /\ told = FALSE

\* Mutant: stdin is read by a blocking task of the runtime, as the keys are.
SetupBlocking ==
  /\ phase = "setup"
  /\ phase' = "loop" /\ rx' = "open"
  /\ raw' = (ui = "tui") /\ keyReader' = "polling"
  /\ UNCHANGED <<ui, pressed, inputVars, viewVars, mode, timer, taskVars, told>>

\* setup_terminal, create_room and the key reader; in headless mode a thread
\* reads stdin that no one waits for.
Setup ==
  /\ phase = "setup"
  /\ phase' = "loop" /\ rx' = "open"
  /\ raw' = (ui = "tui")
  /\ keyReader' = IF ui = "tui" THEN "polling" ELSE "none"
  /\ UNCHANGED <<ui, pressed, inputVars, viewVars, mode, timer, taskVars, told>>

\* setup_terminal fails, before or after raw mode is on, and main returns.
SetupFails ==
  /\ phase = "setup" /\ ui = "tui"
  /\ phase' = "returned" /\ raw' \in BOOLEAN
  /\ UNCHANGED <<procVars, inputVars, viewVars, roomVars, taskVars, told>>

\* Mutant: the handle is only dropped.
LeaveByDrop ==
  /\ phase = "leaving" /\ ~told
  /\ told' = (tasks = {})
  /\ phase' = "returned" /\ raw' = FALSE
  /\ UNCHANGED <<procVars, inputVars, viewVars, roomVars, taskVars>>

\* quit() under its timeout, then restore_terminal.
Leave ==
  /\ phase = "leaving"
  /\ told' = TRUE
  /\ phase' = "returned" /\ raw' = FALSE
  /\ UNCHANGED <<procVars, inputVars, viewVars, roomVars, taskVars>>

\* The runtime is dropped: its tasks are dropped where they wait, and with them
\* the last clones of the handle.
RuntimeStops ==
  /\ phase \in {"returned", "panicked"}
  /\ phase' = "down"
  /\ tasks' = {} /\ told' = (rx # "none")
  /\ UNCHANGED <<procVars, inputVars, viewVars, roomVars, results, raw>>

\* The drop of the runtime waits for blocking tasks.
Exit ==
  /\ phase = "down" /\ keyReader = "none"
  /\ phase' = "exited"
  /\ UNCHANGED <<procVars, inputVars, viewVars, roomVars, taskVars, raw, told>>

\* The loop of the key reader has no end.
KeyReaderPolls == phase = "down" /\ keyReader = "polling" /\ UNCHANGED vars

Terminated == phase = "exited" /\ UNCHANGED vars

-----------------------------------------------------------------------------
Commands == {"message", "ask", "quit"}

Key ==
  \/ \E w \in Widths : Type(w)
  \/ Backspace \/ Delete \/ MoveCursor \/ Scroll
  \/ \E what \in Commands \cup {"local"} : Enter(what)

Next ==
  \/ Setup \/ SetupFails
  \/ PressCtrlC \/ CtrlC \/ Key
  \/ \E e \in ChatEvent : Event(e) \/ HeadlessEvent(e)
  \/ StreamEnds \/ Lost
  \/ TaskSends \/ TaskAsks \/ TaskQuits
  \/ \E r \in {"answer", "quit"} : Result(r)
  \/ Tick \/ DrawFails \/ TimerExpires
  \/ \E what \in Commands : HeadlessLine(what)
  \/ HeadlessLost
  \/ Leave \/ RuntimeStops \/ Exit
  \/ KeyReaderPolls \/ Terminated

Spec == Init /\ [][Next]_vars

\* The select of both loops takes its ready branches in random order, so each
\* that stays ready is taken; the ticker ticks, so the timer is tested; spawned
\* tasks and main itself run.  The user types and the room speaks when they
\* like, and no drawing has to fail.
Fairness ==
  /\ WF_vars(Setup \/ SetupFails)
  /\ WF_vars(CtrlC) /\ WF_vars(Lost) /\ WF_vars(HeadlessLost)
  /\ WF_vars(Result("answer")) /\ WF_vars(Result("quit"))
  /\ WF_vars(Tick) /\ WF_vars(TimerExpires)
  /\ WF_vars(TaskSends) /\ WF_vars(TaskAsks) /\ WF_vars(TaskQuits)
  /\ WF_vars(Leave) /\ WF_vars(RuntimeStops) /\ WF_vars(Exit)

FairSpec == Spec /\ Fairness

-----------------------------------------------------------------------------
(* Properties *)

\* Every variable stays in its domain.  The cursor never leaves the line,
\* although a key moves it by one whatever the width of the character.
TypeOK ==
  /\ ui \in {"tui", "headless"}
  /\ phase \in {"setup", "loop", "leaving", "returned", "panicked", "down", "exited"}
  /\ raw \in BOOLEAN /\ pressed \in BOOLEAN /\ told \in BOOLEAN
  /\ keyReader \in {"none", "polling"}
  /\ mode \in {"bootstrap", "running", "shutting"}
  /\ timer \in {"off", "running", "expired"}
  /\ line \in Seq(Byte) /\ cursor \in 0 .. Len(line)
  /\ scroll \in 0 .. MaxScroll /\ msgs \in Seq({"plain", "cut"})
  /\ rx \in {"none", "open", "closed", "ended"}
  /\ tasks \subseteq Commands /\ results \subseteq {"answer", "quit"}

\* As long as every character typed, and every name shown, is one byte wide, no
\* sequence of keys and events makes the program panic: only a cursor between
\* the bytes of a character or a name cut inside one does.
PanicNeedsWideText ==
  phase = "panicked" => "cont" \in ToSet(line) \/ "cut" \in ToSet(msgs)

\* Once there was a room, the program is not left with the terminal in raw
\* mode: not by the keys, a command, the end of the room, a failed drawing or a
\* panic ("Terminal restored on normal exit / on panic / on Ctrl-C").
TerminalRestored ==
  rx # "none" /\ phase \in {"returned", "panicked", "down", "exited"} => ~raw

\* When run_tui or run_headless returns, the room has been told to stop, also
\* when spawned tasks still hold clones of the handle.
ReturnedMeansTold == phase = "returned" /\ rx # "none" => told

\* A room that closed never comes back: whatever its handlers still report, the
\* mode stays, the input stays locked and nothing more is sent.
ShuttingIsFinal ==
  [][mode = "shutting" =>
       /\ mode' = "shutting" /\ line' = line /\ cursor' = cursor
       /\ tasks' \subseteq tasks]_vars

\* The loop of the terminal is left after Ctrl-C, in every mode, after /quit,
\* whose result races keys and events, and after the end of the room, whether
\* RoomClosed came or the stream just ended.
LoopIsLeft ==
  pressed \/ "quit" \in tasks \/ rx \in {"closed", "ended"} ~> phase # "loop"

\* In headless mode the process ends once its loop is left, even though the
\* thread that reads stdin may wait for a line.
HeadlessExits == ui = "headless" /\ phase = "leaving" ~> phase = "exited"

-----------------------------------------------------------------------------
(* What the documentation says and the code does not do *)

\* "Graceful shutdown on `/quit` or Ctrl-C: cleanup, restore terminal, exit".
LeavingExits == phase = "leaving" ~> phase = "exited"
=============================================================================
