--------------------------- MODULE MCPremiumRoute ---------------------------
(* Model values for checking PremiumRoute with TLC.                        *)
EXTENDS PremiumRoute, TLC

CONSTANTS a1, a2

TwoAgents == {a1, a2}
=============================================================================
