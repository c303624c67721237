------------------------------ MODULE Admission ------------------------------
(***************************************************************************)
(* What a room promises about its guests.  An invite is spent on one       *)
(* stream for good; a stream enters the room only on an invite that was    *)
(* spent on it, and having left it does not come back.                     *)
(*                                                                         *)
(* Implemented by the host room (HostRoom) and by the legacy Hub (Hub).    *)
(***************************************************************************)
CONSTANTS
  Conns,    \* the streams
  Invites,  \* the nonces of the invites
  Nobody    \* the owner of an invite that is not spent

VARIABLES
  owner,    \* [Invites -> Conns \cup {Nobody}]
  place     \* [Conns -> {"outside", "inside", "left"}]

vars == <<owner, place>>

Init ==
  /\ owner = [n \in Invites |-> Nobody]
  /\ place = [c \in Conns |-> "outside"]

HasInvite(c) == \E n \in Invites : owner[n] = c

Admit(n, c) ==
  /\ owner[n] = Nobody /\ ~HasInvite(c) /\ place[c] = "outside"
  /\ owner' = [owner EXCEPT ![n] = c]
  /\ UNCHANGED place

Enter(c) ==
  /\ HasInvite(c) /\ place[c] = "outside"
  /\ place' = [place EXCEPT ![c] = "inside"]
  /\ UNCHANGED owner

Leave(c) ==
  /\ place[c] = "inside"
  /\ place' = [place EXCEPT ![c] = "left"]
  /\ UNCHANGED owner

Next ==
  \E c \in Conns :
    \/ \E n \in Invites : Admit(n, c)
    \/ Enter(c) \/ Leave(c)

Spec == Init /\ [][Next]_vars
=============================================================================
