-------------------------------- MODULE Relay --------------------------------
(***************************************************************************)
(* Two stages of a message's way put end to end: what the first line hands *)
(* out is put on the second.  A message of the host passes the broadcast   *)
(* channel and a writer (HostRoom), the frames of a stream (Wire) and the  *)
(* reader of a joiner (Joiner); one of a joiner passes its write loop, the *)
(* frames, and the reader and main loop of the host.  Each is a line of    *)
(* Delivery of its own.                                                    *)
(***************************************************************************)
EXTENDS Delivery, Sequences

CONSTANT SkipsAgain   \* whether the second line may leave an item out

VARIABLE out          \* the log of the second line; got is that of the first

\* The second line numbers its items by their places in the log of the first.
Second == INSTANCE Delivery WITH
  MaySkip <- SkipsAgain, put <- [l \in Lines |-> Len(got[l])], got <- out

\* The items of the first line where they stand in the log of the second.
Through == [l \in Lines |-> [p \in DOMAIN out[l] |-> got[l][out[l][p]]]]

Whole == INSTANCE Delivery WITH MaySkip <- MaySkip \/ SkipsAgain, got <- Through

\* The log between them is a stream: nothing else stands on it.
Between == got \in [Lines -> Seq(Nat)]

\* The two stages belong to different tasks or machines: what comes out at the
\* end does so in a step of its own.
Turns == out' = out \/ UNCHANGED <<put, got>>

RelaySpec ==
  /\ Spec /\ Second!Spec
  /\ []Between /\ [][Turns]_<<put, got, out>>

-----------------------------------------------------------------------------
(* Properties *)

\* Put end to end two lines are one, which leaves out only what one of them may.
RelaysInOrder == Whole!Spec
=============================================================================
