------------------------------ MODULE RateGates ------------------------------
(***************************************************************************)
(* The rate gates of the relay (packages/relay/src/server.ts): MinuteGate, *)
(* which counts HELLOs, and loginGate, which counts wrong passwords and    *)
(* locks a key out.  Each is kept per key; an event counts for the address *)
(* of its client and for the peer of its socket, which clients behind one  *)
(* proxy share.                                                            *)
(*                                                                         *)
(* Date.now() is `now`, in ticks.  A login request reads it when it        *)
(* arrives and counts with that reading when its password is checked.      *)
(***************************************************************************)
EXTENDS Integers, Sequences, FiniteSets

CONSTANTS
  Clients,     \* addresses of clients, all of them behind one peer
  Peer,        \* the key of that peer
  Requests,    \* login requests, one at a time each
  HelloMax,    \* HELLO_PER_MINUTE; the peer may have HelloFactor times as many
  HelloFactor,
  Minute,      \* the 60_000 ms of MinuteGate
  FailMax,     \* LOGIN_FAIL_MAX
  PeerFailMax, \* LOGIN_PEER_FAIL_MAX
  Window,      \* LOGIN_FAIL_WINDOW_MS
  Lockout,     \* LOGIN_LOCKOUT_MS
  Slow,        \* the longest a login request takes (node's requestTimeout)
  MaxNow,      \* bound: how long the clock runs
  MaxHellos,   \* bound: HELLOs that a key admits, and that are counted in a minute
  MaxWrong     \* bound: wrong passwords of a key between two right ones

Keys == Clients \cup {Peer}

ASSUME GatesAssumption ==
  /\ Peer \notin Clients
  /\ HelloMax \in Nat \ {0} /\ HelloFactor \in Nat \ {0} /\ Minute \in Nat
  /\ FailMax \in Nat \ {0} /\ PeerFailMax \in Nat \ {0}
  /\ Slow \in Nat /\ Lockout \in Nat /\ Window \in Nat /\ Lockout <= Window
  /\ IsFiniteSet(Requests)
  /\ MaxNow \in Nat /\ MaxHellos \in Nat /\ MaxWrong \in Nat

VARIABLES
  now,       \* the clock
  counts,    \* counts[k]: MinuteGate's entry of k
  gate,      \* gate[k]: loginGate's entry of k
  try,       \* try[r]: where login request r stands
  passed,    \* ghost: passed[k]: the events of k MinuteGate admitted: when, and which
             \* of them was the first of its count
  burst,     \* ghost: burst[k]: when k was last locked out, unless a right password
             \* came since
  wrong      \* ghost: wrong[k]: when k's wrong passwords came since the last right one

helloVars == <<counts, passed>>
loginVars == <<gate, try, burst, wrong>>
vars      == <<now, helloVars, loginVars>>

NoCount == [n |-> 0, since |-> 0]
NoGate  == [count |-> 0, last |-> 0, until |-> 0]
NoTry   == [open |-> FALSE, from |-> Peer, at |-> 0]
Never   == -1

TypeOK ==
  /\ now \in Nat
  /\ counts \in [Keys -> [n : Nat, since : Nat]]
  /\ gate \in [Keys -> [count : Nat, last : Nat, until : Nat]]
  /\ try \in [Requests -> [open : BOOLEAN, from : Keys, at : Nat]]
  /\ passed \in [Keys -> Seq([at : Nat, first : Nat])]
  /\ burst \in [Keys -> Int]
  /\ wrong \in [Keys -> Seq(Nat)]

Init ==
  /\ now = 0
  /\ counts = [k \in Keys |-> NoCount]
  /\ gate = [k \in Keys |-> NoGate]
  /\ try = [r \in Requests |-> NoTry]
  /\ passed = [k \in Keys |-> << >>]
  /\ burst = [k \in Keys |-> Never]
  /\ wrong = [k \in Keys |-> << >>]

KeysOf(c) == {c, Peer}

-----------------------------------------------------------------------------
(* MinuteGate.                                                             *)

Budget(k) == IF k = Peer THEN HelloFactor * HelloMax ELSE HelloMax

\* No entry, or one whose minute has passed: prune drops it, admit starts anew.
Over(c, t)  == t - c.since >= Minute
Stale(c, t) == c.n = 0 \/ Over(c, t)

Counted(k) == IF Stale(counts[k], now) THEN [n |-> 1, since |-> now]
              ELSE [counts[k] EXCEPT !.n = @ + 1]

\* An event within the budget; a count that is over it only goes up.
CountsAfter(k) == Stale(counts[k], now) \/ counts[k].n <= Budget(k) \* mutant: looks, then counts
Admits(k)      == Counted(k).n <= Budget(k)

Admitted(k) ==
  LET q == passed[k] IN
  Append(q, [at    |-> now,
             first |-> IF Stale(counts[k], now) THEN Len(q) + 1 ELSE q[Len(q)].first])

\* onUpgrade on the agent path: helloGate by client, then, if that admits,
\* helloPeerGate by peer.
Hello(c) ==
  LET seen == IF Admits(c) THEN KeysOf(c) ELSE {c} IN
  /\ \A k \in KeysOf(c) : Len(passed[k]) < MaxHellos /\ counts[k].n < MaxHellos
  /\ counts' = [k \in Keys |-> IF k \in seen THEN Counted(k) ELSE counts[k]]
  /\ passed' = [k \in Keys |-> IF k \in seen /\ Admits(k) THEN Admitted(k) ELSE passed[k]]
  /\ UNCHANGED <<now, loginVars>>

-----------------------------------------------------------------------------
(* The login gate: handleLogin and handleAdminLogin.                       *)

Max(k) == IF k = Peer THEN PeerFailMax ELSE FailMax

Locked(k) == gate[k].until > now

\* Up to the request's body.  A request with a locked key is answered 429.
Arrive(r, c) ==
  /\ ~try[r].open
  /\ \A k \in KeysOf(c) : ~Locked(k)
  /\ try' = [try EXCEPT ![r] = [open |-> TRUE, from |-> c, at |-> now]]
  /\ UNCHANGED <<now, helloVars, gate, burst, wrong>>

\* registerLoginFailure, with the request's reading of the clock.
Fails(k, t)      == IF gate[k].count > 0 /\ t - gate[k].last < Window THEN gate[k].count + 1 ELSE 1
OnlyAtMax(k, n)  == n = Max(k)                          \* mutant: === for >=
TooMany(k, n)    == n >= Max(k)
Failed(k, t)     == [count |-> Fails(k, t), last |-> t,
                     until |-> IF TooMany(k, Fails(k, t)) THEN t + Lockout ELSE 0]

Close(r) == try' = [try EXCEPT ![r] = NoTry]

\* The password was right: the keys are forgiven.
Right(r) ==
  /\ try[r].open /\ Close(r)
  /\ gate' = [k \in Keys |-> IF k \in KeysOf(try[r].from) THEN NoGate ELSE gate[k]]
  /\ burst' = [k \in Keys |-> IF k \in KeysOf(try[r].from) THEN Never ELSE burst[k]]
  /\ wrong' = [k \in Keys |-> IF k \in KeysOf(try[r].from) THEN << >> ELSE wrong[k]]
  /\ UNCHANGED <<now, helloVars>>

\* It was wrong.
Wrong(r) ==
  LET c == try[r].from  t == try[r].at IN
  /\ try[r].open /\ Close(r)
  /\ \A k \in KeysOf(c) : Len(wrong[k]) < MaxWrong
  /\ gate' = [k \in Keys |-> IF k \in KeysOf(c) THEN Failed(k, t) ELSE gate[k]]
  /\ wrong' = [k \in Keys |-> IF k \in KeysOf(c) THEN Append(wrong[k], now) ELSE wrong[k]]
  /\ burst' = [k \in Keys |-> IF k \in KeysOf(c) /\ TooMany(k, Fails(k, t)) THEN now ELSE burst[k]]
  /\ UNCHANGED <<now, helloVars>>

\* The client leaves before its body is in, sends too much, or checking fails.
GiveUp(r) ==
  /\ try[r].open /\ Close(r)
  /\ UNCHANGED <<now, helloVars, gate, burst, wrong>>

-----------------------------------------------------------------------------
Unlocked(g) == g.until <= now                           \* mutant: recent failures go too
Idle(g)     == g.until <= now /\ now - g.last > Window

\* The sweep drops what no longer counts.
Sweep ==
  /\ gate' = [k \in Keys |-> IF Idle(gate[k]) THEN NoGate ELSE gate[k]]
  /\ counts' = [k \in Keys |-> IF Over(counts[k], now) THEN NoCount ELSE counts[k]]
  /\ UNCHANGED <<now, try, passed, burst, wrong>>

\* Time passes; node ends a request that takes longer.
Tick ==
  /\ now < MaxNow /\ now' = now + 1
  /\ \A r \in Requests : try[r].open => now' - try[r].at <= Slow
  /\ UNCHANGED <<helloVars, loginVars>>

Next ==
  \/ \E c \in Clients : Hello(c)
  \/ \E r \in Requests : Right(r) \/ Wrong(r) \/ GiveUp(r) \/ \E c \in Clients : Arrive(r, c)
  \/ Sweep \/ Tick

Spec == Init /\ [][Next]_vars

-----------------------------------------------------------------------------
(* Of any two HELLOs of a key that are a whole double budget apart, the    *)
(* later came at least a minute after the earlier: no minute, wherever it  *)
(* begins, sees 2 * Budget HELLOs admitted.  (MinuteGate calls itself a    *)
(* sliding counter; a sliding one would admit Budget.)                     *)
AtMostTwice ==
  \A k \in Keys : \A i, j \in DOMAIN passed[k] :
    j - i >= 2 * Budget(k) - 1 => passed[k][j].at - passed[k][i].at >= Minute

(* Once a burst of wrong passwords locked a key, it stays locked for the   *)
(* lockout (less the time a request takes) unless a right password comes:  *)
(* neither the sweep nor the late failures of requests that were under way *)
(* open it.                                                                *)
LockHolds ==
  \A k \in Keys : burst[k] # Never /\ now < burst[k] + Lockout - Slow => Locked(k)

(* What the gate is for: however requests overlap, without a right         *)
(* password no key has more wrong ones checked within a lockout (less the  *)
(* time a request takes) than its budget and one for each further request  *)
(* that was under way when it ran out.                                     *)
GuessesAreBounded ==
  \A k \in Keys : \A i, j \in DOMAIN wrong[k] :
    j - i >= Max(k) + Cardinality(Requests) - 1 => wrong[k][j] - wrong[k][i] >= Lockout - Slow
=============================================================================
