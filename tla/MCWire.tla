------------------------------- MODULE MCWire -------------------------------
(* Wire for TLC. *)
EXTENDS Wire

\* Payloads below, at and above the limit, told apart by their first byte.
SmallPayloads == {<<1>>, <<2, 1>>, <<1, 1, 1>>}
=============================================================================
