------------------------------- MODULE MCHub -------------------------------
(* Hub for TLC: streams and nonces are interchangeable. *)
EXTENDS Hub, FiniteSetsExt, TLC

HubSymmetry == Permutations(Conns) \cup Permutations(Nonces)

\* State constraint: two messages in all, of the peers or of the hub, are
\* enough for a writer to lag behind a broadcast channel of capacity 1.
LittleTraffic == texts + MapThenSumSet(LAMBDA c : frames[c], Conns) <= 2
=============================================================================
