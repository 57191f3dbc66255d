--------------------------- MODULE MCAgentControl ---------------------------
(* Model values for checking AgentControl with TLC.                        *)
EXTENDS AgentControl, TLC

CONSTANTS s1, n1, n2

OneSub     == {s1}
TwoSlots   == {n1, n2}

\* Sockets are interchangeable.
Interchangeable == Permutations(Slots)
=============================================================================
