------------------------------ MODULE MCInvite ------------------------------
(* Instances of Invite for model checking. *)
EXTENDS Invite, TLC

\* A joiner's clock that is behind, right, or ahead of the host's by more than
\* decode tolerates.
SmallSkews == {-2, 0, 3}

\* Codes are alike, and so are attempts.
InviteSymmetry == Permutations(Codes) \cup Permutations(Attempts)
=============================================================================
