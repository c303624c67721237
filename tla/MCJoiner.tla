------------------------------ MODULE MCJoiner ------------------------------
(* Joiner for TLC. *)
EXTENDS Joiner, FiniteSets

\* State constraint: this many messages in all, of the user and of the hub.
LittleTraffic == Cardinality({s \in Sends : send[s] # "idle"}) + frames <= 3
=============================================================================
