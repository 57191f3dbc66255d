------------------------------ MODULE MCTunnel ------------------------------
(* Model values and symmetry for checking Tunnel with TLC.                 *)
EXTENDS Tunnel, TLC

CONSTANTS v1, v2, b1, b2

OneVisitor    == {v1}
TwoVisitors   == {v1, v2}
TwoBrowsers   == {b1, b2}
Nobody        == {}
Quits         == {"quit"}
Fails         == {"fail"}
PagesOnly     == {"page"}
AllKinds      == {"page", "api", "dshn"}

\* Visitors, like browser sockets, are interchangeable.
Interchangeable == Permutations(Visitors) \cup Permutations(Browsers)
=============================================================================
