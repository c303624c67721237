------------------------------- MODULE MCCli --------------------------------
(* Cli for TLC. *)
EXTENDS Cli

\* State constraint: the user scrolls and edits his line at different times.
\* Nothing but his keys can make him do both.
OneThingAtATime == line = <<>> \/ scroll = 0
=============================================================================
