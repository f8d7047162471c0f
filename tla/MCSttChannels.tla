--------------------------- MODULE MCSttChannels ---------------------------
(* Small instances of SttChannels: one call page and one visitor of the same network. *)
EXTENDS SttChannels

CONSTANT v1

AllRequesters == Pages \cup Visitors
OneNetwork    == [r \in AllRequesters |-> "ip"]

\* One thing at most goes out of order: a pause, an inactive channel, a lost request or missed polls.
OneTrouble == pauses + lost + missed <= 1
Narrow     == SttInit /\ [][SttNext /\ OneTrouble']_sttVars
=============================================================================
