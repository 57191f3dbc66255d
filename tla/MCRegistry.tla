----------------------------- MODULE MCRegistry -----------------------------
(* Model values and symmetry for checking Registry with TLC.               *)
EXTENDS Registry, TLC

CONSTANTS n1, p1, p2, w1, w2, w3, d1, d2, a1

OneName      == {n1}
OnePassword  == {p1}
TwoPasswords == {p1, p2}
TwoSockets   == {w1, w2}
ThreeSockets == {w1, w2, w3}
OneDevice    == {d1}
TwoDevices   == {d1, d2}
OnePeer      == {a1}

\* Passwords, sockets and devices are interchangeable, each among themselves.
Interchangeable == Permutations(Passwords) \cup Permutations(Callers)
                   \cup Permutations(Devices)
=============================================================================
