----------------------------- MODULE MCDshAuth -----------------------------
(* Model values for checking DshAuth with TLC.                             *)
EXTENDS DshAuth, TLC

CONSTANTS r1, r2, u1

Mixed == {r1, r2, u1}
OnlyUpgrade == {u1}
=============================================================================
