------------------------------- MODULE Delivery -------------------------------
(***************************************************************************)
(* What every stage of a room promises about the messages that pass        *)
(* through it.  A line carries items numbered in the order in which they   *)
(* were put and ends in a log: put counts the items, got tells which item  *)
(* stands at which place of the log, where other things may stand between  *)
(* them.  Items come out in order, each at most once and never before they *)
(* were put.  A line that may skip loses any of them; a line that may not  *)
(* loses only what was put last, by coming to a standstill.                *)
(*                                                                         *)
(* Implemented by the writer tasks of the host and by the way from a       *)
(* peer's frames to the host's events (HostRoom), by both directions of a  *)
(* joiner (Joiner), and by the frames of a stream (Wire).                  *)
(***************************************************************************)
EXTENDS Naturals

CONSTANTS
  Lines,    \* the lines, which have nothing to do with each other
  MaySkip   \* whether an item may be left out between two others

VARIABLES
  put,      \* [Lines -> Nat]: how many items were put on the line
  got       \* for each line, a function from places to numbers of items

vars == <<put, got>>

Init ==
  /\ put = [l \in Lines |-> 0]
  /\ got \in [Lines -> [{} -> Nat]]

Put(l) == put'[l] >= put[l] /\ got'[l] = got[l]

\* The items before number i have all come out on l.
CaughtUp(l, i) == \A m \in 1 .. i - 1 : \E p \in DOMAIN got[l] : got[l][p] = m

\* An item comes out: after the others, and with a higher number.
Get(l) ==
  /\ put'[l] = put[l]
  /\ \E at \in DOMAIN got'[l], i \in 1 .. put[l] :
       /\ at \in Nat /\ \A p \in DOMAIN got[l] : p < at /\ got[l][p] < i
       /\ MaySkip \/ CaughtUp(l, i)
       /\ DOMAIN got'[l] = DOMAIN got[l] \cup {at} /\ got'[l][at] = i
       /\ \A p \in DOMAIN got[l] : got'[l][p] = got[l][p]

\* One step of the program may put an item on several lines.
Next ==
  /\ put' \in [Lines -> Nat] /\ DOMAIN got' = Lines
  /\ \A l \in Lines : Put(l) \/ Get(l)

Spec == Init /\ [][Next]_vars

-----------------------------------------------------------------------------
(* Properties *)

\* What whoever implements a line can count on: everything that came out had
\* been put, in the order of the numbers and never twice; and where no item may
\* be skipped, what came out is a beginning of what was put.
InOrder ==
  \A l \in Lines :
    /\ \A p \in DOMAIN got[l] : got[l][p] \in 1 .. put[l]
    /\ \A p, q \in DOMAIN got[l] : p < q => got[l][p] < got[l][q]
    /\ ~MaySkip => \A p \in DOMAIN got[l] : \A m \in 1 .. got[l][p] - 1 :
                     \E q \in DOMAIN got[l] : q < p /\ got[l][q] = m
=============================================================================
