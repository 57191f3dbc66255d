----------------------------- MODULE MCRateGates -----------------------------
EXTENDS RateGates, TLC

CONSTANTS c1, c2, peer, r1, r2

\* The two gates share the clock alone: each is busy in behaviours of its own.
OneGateBusy ==
  \/ \A k \in Keys : passed[k] = << >>
  \/ gate = [k \in Keys |-> NoGate] /\ try = [r \in Requests |-> NoTry]

Symmetry == Permutations(Clients) \cup Permutations(Requests)
=============================================================================
