----------------------------- MODULE MCSessions -----------------------------
(* Model values and symmetry for checking Sessions with TLC.               *)
EXTENDS Sessions, TLC

CONSTANTS n1, p1, p2, c1, c2, d1, d2, l1

OneName      == {n1}
TwoPasswords == {p1, p2}
TwoCallers   == {c1, c2}
TwoDevices   == {d1, d2}
OneLogin     == {l1}

\* Passwords, callers and devices are interchangeable, each among themselves.
Interchangeable == Permutations(Passwords) \cup Permutations(Callers)
                   \cup Permutations(Devices)
=============================================================================
