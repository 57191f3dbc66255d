---------------------------- MODULE AtomicClaims ----------------------------
(***************************************************************************)
(* What the relay's claim store promises, with no hashing, no event loop   *)
(* and no disk in sight: the owner of each name changes in single steps,   *)
(* every call is decided at one instant between its start and its end, and *)
(* a crash takes the calls in progress but no ownership.                   *)
(***************************************************************************)
EXTENDS Naturals

CONSTANTS Names, Passwords, Callers, NoClaim

VARIABLES
  owner,     \* owner[s]: the claim on s, or NoClaim
  barred,    \* the names that may not be claimed
  minted,    \* how many claims were ever made: the version of the last one
  op         \* op[c]: the call in progress of caller c

atomicVars == <<owner, barred, minted, op>>

OpIdle == [st |-> "idle"]

Init ==
  /\ owner = [s \in Names |-> NoClaim]
  /\ barred = {}
  /\ minted = 0
  /\ op = [c \in Callers |-> OpIdle]

\* The instant at which caller c's call for s with password p is decided.
Decide(c, s, p) ==
  \/ /\ s \in barred
     /\ op' = [op EXCEPT ![c] = [st |-> "decided", ok |-> FALSE]]
     /\ UNCHANGED <<owner, minted>>
  \/ /\ s \notin barred /\ owner[s] = NoClaim
     /\ op' = [op EXCEPT ![c] = [st |-> "decided", ok |-> TRUE]]
     /\ minted' = minted + 1
     /\ owner' = [owner EXCEPT ![s] = [pw |-> p, ver |-> minted + 1]]
  \/ /\ s \notin barred /\ owner[s] # NoClaim
     /\ op' = [op EXCEPT ![c] = [st |-> "decided", ok |-> (owner[s].pw = p)]]
     /\ UNCHANGED <<owner, minted>>

Call(c, s, p) ==
  /\ op[c] = OpIdle
  /\ \/ op' = [op EXCEPT ![c] = [st |-> "pending", name |-> s, pw |-> p]] /\ UNCHANGED <<owner, minted>>
     \/ Decide(c, s, p)
  /\ UNCHANGED barred

Settle(c) ==
  /\ op[c].st = "pending"
  /\ Decide(c, op[c].name, op[c].pw)
  /\ UNCHANGED barred

Return(c) ==
  /\ op[c].st = "decided"
  /\ op' = [op EXCEPT ![c] = OpIdle]
  /\ UNCHANGED <<owner, barred, minted>>

Release(s) ==
  /\ owner' = [owner EXCEPT ![s] = NoClaim]
  /\ UNCHANGED <<barred, minted, op>>

Bar(s) ==
  /\ owner' = [owner EXCEPT ![s] = NoClaim]
  /\ barred' = barred \cup {s}
  /\ UNCHANGED <<minted, op>>

Unbar(s) ==
  /\ barred' = barred \ {s}
  /\ UNCHANGED <<owner, minted, op>>

Crash ==
  /\ op' = [c \in Callers |-> OpIdle]
  /\ UNCHANGED <<owner, barred, minted>>

Next ==
  \/ \E c \in Callers, s \in Names, p \in Passwords : Call(c, s, p)
  \/ \E c \in Callers : Settle(c) \/ Return(c)
  \/ \E s \in Names : Release(s) \/ Bar(s) \/ Unbar(s)
  \/ Crash

Spec == Init /\ [][Next]_atomicVars
=============================================================================
