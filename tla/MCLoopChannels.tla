---------------------------- MODULE MCLoopChannels ----------------------------
(* LoopChannels for TLC: c1 and c4 use descriptor 0, one after the other.    *)
EXTENDS LoopChannels

CONSTANTS c1, c2, c3, c4

MCfd == [c \in Channels |-> CASE c \in {c1, c4} -> 0 [] c = c2 -> 1 [] c = c3 -> 2]

================================================================================
