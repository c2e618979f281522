--------------------------- MODULE MCChannelWork ---------------------------
(* Instances of ChannelWork for TLC. *)
EXTENDS ChannelWork

CONSTANT p1

MCSender == [m \in Messages |-> p1]
============================================================================
