----------------------------- MODULE MCHostRoom -----------------------------
(***************************************************************************)
(* HostRoom for TLC.  The connections, and the nonces, are interchangeable *)
(* model values: no action and no safety property compares them.           *)
(***************************************************************************)
EXTENDS HostRoom, FiniteSetsExt, TLC

ConnSymmetry == Permutations(Conns)
AdmissionSymmetry == Permutations(Conns) \cup Permutations(Nonces)

\* State constraints that keep apart what a run is not about.  Who is admitted
\* and what is said of a peer does not depend on how the handle goes away; the
\* end of the room is hardest for its tasks when nobody reads the events.
Traffic == MapThenSumSet(LAMBDA c : frames[c], Conns)
             + Cardinality({s \in Sends : send[s] # "idle"})

QuietRoom     == handle = "held" /\ evOpen /\ Traffic <= 1
LittleTraffic == Traffic <= 2
StreamUnread  == evOpen /\ evRead = 0
=============================================================================
