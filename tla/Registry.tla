------------------------------ MODULE Registry ------------------------------
(***************************************************************************)
(* How agents get onto the relay and off it again                          *)
(* (packages/relay/src/server.ts, onUpgrade to admitAgent, and the admin   *)
(* actions), over the claim store: the handshake budget of each peer, the  *)
(* HELLO and its deadline, the check of the password, the routing table    *)
(* and the admin who kicks, releases and bans in the middle of it.         *)
(*                                                                         *)
(* An agent socket makes one call of claimOrVerify: Callers are sockets.   *)
(***************************************************************************)
EXTENDS ClaimStore

CONSTANTS
  Peers,        \* addresses agents connect from
  MaxPre,       \* PRE_HELLO_PER_PEER
  NoSocket

ASSUME RegistryAssumption == MaxPre \in Nat \ {0} /\ NoSocket \notin Callers /\ IsFiniteSet(Callers)

VARIABLES
  stage,      \* stage[w]: how far socket w got
  open,       \* open[w]: its readyState is OPEN
  peer,       \* peer[w]: where it comes from
  hello,      \* hello[w]: the name, password and device of its HELLO
  released,   \* released[w]: its share of the handshake budget was given back
  preHello,   \* preHello[p]: handshakes of peer p charged and not given back
  agents,     \* agents[s][d]: the socket that device d of name s is routed to
  since,      \* since[w]: connectedAt, as its rank among the admissions
  overtaken   \* ghost: the sockets whose name was released or banned during the check

regVars == <<stage, open, peer, hello, released, preHello, agents, since, overtaken>>
vars    == <<storeVars, regVars>>
intact  == UNCHANGED <<records, lazy, file, behind, minted>>

NoHello == [name |-> NoClaim, pw |-> NoClaim, dev |-> NoClaim]

TypeOK ==
  /\ StoreTypeOK
  /\ stage \in [Callers -> {"none", "silent", "checking", "admitted", "dropped", "failed", "closed"}]
  /\ open \in [Callers -> BOOLEAN]
  /\ peer \in [Callers -> Peers]
  /\ hello \in [Callers -> [name : Names, pw : Passwords, dev : Devices] \cup {NoHello}]
  /\ released \in [Callers -> BOOLEAN]
  /\ preHello \in [Peers -> 0..MaxPre]
  /\ agents \in [Names -> [Devices -> Callers \cup {NoSocket}]]
  /\ since \in [Callers -> 0..Cardinality(Callers)]
  /\ overtaken \subseteq Callers

Nowhere == [s \in Names |-> [d \in Devices |-> NoSocket]]

Init ==
  /\ StoreInit
  /\ stage = [w \in Callers |-> "none"]
  /\ open = [w \in Callers |-> FALSE]
  /\ peer \in [Callers -> Peers]
  /\ hello = [w \in Callers |-> NoHello]
  /\ released = [w \in Callers |-> FALSE]
  /\ preHello = [p \in Peers |-> 0]
  /\ agents = Nowhere
  /\ since = [w \in Callers |-> 0]
  /\ overtaken = {}

-----------------------------------------------------------------------------
(* The handshake budget.                                                   *)

OneMore(p) == preHello[p] <= MaxPre                      \* mutant: off by one
Room(p)    == preHello[p] < MaxPre

\* onUpgrade on the agent path: the peer is charged, then the handshake runs.
\* When the handshake fails nobody is called back: no 'close' event will come.
Upgrade(w) ==
  LET p == peer[w] IN
  /\ Quiet /\ stage[w] = "none" /\ Room(p)
  /\ preHello' = [preHello EXCEPT ![p] = @ + 1]
  /\ \/ stage' = [stage EXCEPT ![w] = "silent"] /\ open' = [open EXCEPT ![w] = TRUE]
     \/ stage' = [stage EXCEPT ![w] = "failed"] /\ UNCHANGED open
  /\ UNCHANGED <<storeVars, peer, hello, released, agents, since, overtaken>>

ReleaseLost(w) ==                                       \* mutant: marked as released, never given back
  /\ released' = [released EXCEPT ![w] = TRUE]
  /\ UNCHANGED preHello

Release(w) ==
  /\ preHello' = IF released[w] THEN preHello
                 ELSE [preHello EXCEPT ![peer[w]] = IF @ > 0 THEN @ - 1 ELSE 0]
  /\ released' = [released EXCEPT ![w] = TRUE]

-----------------------------------------------------------------------------
(* The life of an agent socket.                                            *)

\* `close` and `terminate`: no longer open; its 'close' event is still to come.
Shut(ws) == open' = [w \in Callers |-> open[w] /\ w \notin ws]

Drop(w) ==
  /\ Shut({w}) /\ stage' = [stage EXCEPT ![w] = "dropped"]
  /\ UNCHANGED <<peer, hello, released, preHello, agents, since, overtaken>>

\* The first frame is a well-formed HELLO; the deadline is cleared.
Hello(w, s, p, d) ==
  /\ stage[w] = "silent" /\ open[w]
  /\ hello' = [hello EXCEPT ![w] = [name |-> s, pw |-> p, dev |-> d]]
  /\ stage' = [stage EXCEPT ![w] = "checking"]
  /\ ClaimOrVerify(w, s, p)
  /\ UNCHANGED <<open, peer, released, preHello, agents, since, overtaken>>

\* The first frame is anything else (deny), or the deadline passes (terminate).
Rejected(w) ==
  /\ Quiet /\ stage[w] = "silent" /\ open[w]
  /\ Drop(w) /\ UNCHANGED storeVars

\* The password check moves on by one hash.
Check(w) == (Hashed(w) \/ Compared(w)) /\ UNCHANGED regVars

Supersede(ws)    == Shut(ws)

\* admitAgent: one live agent per name and device.
Admit(w) ==
  LET h == hello[w] IN
  /\ call[w].st = "ok" /\ open[w] /\ Return(w)
  /\ Release(w)
  /\ Supersede({agents[h.name][h.dev]})
  /\ agents' = [agents EXCEPT ![h.name][h.dev] = w]
  /\ stage' = [stage EXCEPT ![w] = "admitted"]
  /\ since' = [since EXCEPT ![w] = Cardinality({v \in Callers : since[v] > 0}) + 1]
  /\ TouchDevice(h.name, h.dev)
  /\ UNCHANGED <<peer, hello, overtaken>>

Deny(w) ==
  /\ call[w].st = "denied" /\ open[w] /\ Return(w)
  /\ Drop(w) /\ intact

TooLate(w) ==
  /\ Settled(w) /\ ~open[w] /\ Return(w)
  /\ UNCHANGED regVars /\ intact

\* The peer goes away, breaks the protocol, or misses the heartbeat.
Gone(w) ==
  /\ Quiet /\ open[w] /\ Shut({w})
  /\ UNCHANGED <<storeVars, stage, peer, hello, released, preHello, agents, since, overtaken>>

IsCurrent(w) == agents[hello[w].name][hello[w].dev] = w

Vacate(w) ==
  /\ agents' = [agents EXCEPT ![hello[w].name][hello[w].dev] = NoSocket]
  /\ TouchDevice(hello[w].name, hello[w].dev)

StayRouted(w)     == UNCHANGED agents /\ intact         \* mutant: nothing is removed
UnrouteWhoever(w) ==                                    \* mutant: whoever holds the place is removed
  IF stage[w] = "admitted" THEN Vacate(w) ELSE UNCHANGED agents /\ intact

\* The 'close' handler of admitAgent.
Unroute(w) == IF stage[w] = "admitted" /\ IsCurrent(w) THEN Vacate(w) ELSE UNCHANGED agents /\ intact

\* The 'close' handlers of registerAgent and admitAgent.
CloseEvent(w) ==
  /\ Quiet /\ ~open[w] /\ stage[w] \notin {"none", "failed", "closed"}
  /\ stage' = [stage EXCEPT ![w] = "closed"]
  /\ Release(w) /\ Unroute(w)
  /\ UNCHANGED <<call, open, peer, hello, since, overtaken>>

-----------------------------------------------------------------------------
(* The admin.                                                              *)

Newest(s) ==                                            \* mutant: the comparison is turned round
  CHOOSE w \in {agents[s][d] : d \in Devices} : \A d \in Devices :
    agents[s][d] # NoSocket => w # NoSocket /\ since[w] >= since[agents[s][d]]

\* resolveDevice without a device cookie, for anything but a navigation: the device
\* connected the longest.
Resolve(s) ==
  CHOOSE w \in {agents[s][d] : d \in Devices} : \A d \in Devices :
    agents[s][d] # NoSocket => w # NoSocket /\ since[w] <= since[agents[s][d]]

Group(s)    == {agents[s][d] : d \in Devices} \ {NoSocket}
KickNobody(s) == UNCHANGED open                         \* mutant: released without a kick
Kick(s)       == Shut(Group(s))

Overtake(s) == overtaken' = overtaken \cup {w \in Callers : stage[w] = "checking" /\ hello[w].name = s}

Elsewhere == UNCHANGED <<call, stage, peer, hello, released, preHello, agents, since>>

AdminKick(s)    == Quiet /\ Kick(s) /\ Elsewhere /\ intact /\ UNCHANGED overtaken
AdminRelease(s) == Quiet /\ Kick(s) /\ Elsewhere /\ Overtake(s) /\ Remove(s)
AdminBan(s)     == Quiet /\ Kick(s) /\ Elsewhere /\ Overtake(s) /\ Ban(s)
AdminUnban(s)   == Quiet /\ Elsewhere /\ UNCHANGED <<open, overtaken>> /\ Unban(s)

-----------------------------------------------------------------------------
Timer == Quiet /\ Flush /\ UNCHANGED <<call, regVars>>

\* The relay process is replaced: every socket is gone with it.
RelayRestart ==
  /\ Quiet /\ Restart
  /\ stage' = [w \in Callers |-> IF stage[w] = "none" THEN "none" ELSE "closed"]
  /\ open' = [w \in Callers |-> FALSE]
  /\ released' = [w \in Callers |-> stage[w] # "none"]
  /\ preHello' = [p \in Peers |-> 0]
  /\ agents' = Nowhere
  /\ UNCHANGED <<peer, hello, since, overtaken>>

Socket(w) ==
  \/ Upgrade(w)
  \/ \E s \in Names, p \in Passwords, d \in Devices : Hello(w, s, p, d)
  \/ Rejected(w) \/ Check(w) \/ Admit(w) \/ Deny(w) \/ TooLate(w) \/ Gone(w) \/ CloseEvent(w)

Admin(s) == AdminKick(s) \/ AdminRelease(s) \/ AdminBan(s) \/ AdminUnban(s)

Next == (\E w \in Callers : Socket(w)) \/ (\E s \in Names : Admin(s)) \/ Timer \/ RelayRestart

Spec == Init /\ [][Next]_vars

-----------------------------------------------------------------------------
(* Properties.                                                             *)

Live(w) == stage[w] = "admitted" /\ open[w]

\* Every live agent is the one its name and device are routed to, so no two live
\* agents hold the same place and no late 'close' of a predecessor takes the place
\* of its successor (admitAgent: "one live agent per (subdomain, device)").
LiveIsRouted == \A w \in Callers : Live(w) => IsCurrent(w)

\* The routing table names no socket whose 'close' was already handled: whoever is
\* routed there can still be failed by its cleanup.
RoutedIsNotClosed ==
  \A s \in Names, d \in Devices : agents[s][d] # NoSocket =>
    LET w == agents[s][d] IN stage[w] = "admitted" /\ hello[w].name = s /\ hello[w].dev = d

Unauthenticated(p) == {w \in Callers : peer[w] = p /\ stage[w] \in {"silent", "checking", "dropped"}}

\* Handshakes that failed before there was a socket: the code charges them and never gives
\* them back.
Aborted(p) == {w \in Callers : peer[w] = p /\ stage[w] = "failed"}

\* The handshake budget of a peer is what its unauthenticated sockets use, and what its
\* failed handshakes left charged, no more and no less: a socket that is admitted or closed
\* is charged nothing any more, in whatever order HELLOs, deadlines, admissions, closes and
\* restarts come (registerAgent: "released as soon as the socket is authenticated or
\* gone", which the code does for every socket there is, and not for a failed handshake).
BudgetIsExact == \A p \in Peers : preHello[p] = Cardinality(Unauthenticated(p)) + Cardinality(Aborted(p))

\* A live agent presented the password of the claim that stands, unless the name was
\* released or banned while its password was being checked.
AgentsOwnTheName ==
  \A w \in Callers : Live(w) /\ w \notin overtaken =>
    claims[hello[w].name] # NoClaim /\ claims[hello[w].name].pw = hello[w].pw

\* As long as the device that serves a name's sessions stays in the table, other
\* devices joining, reconnecting or leaving do not take its requests over
\* (resolveDevice: "an open session never breaks the moment another machine binds
\* the same subdomain").
RoutesAreSteady ==
  [][\A s \in Names :
       Resolve(s) # NoSocket /\ Resolve(s) \in {agents'[s][d] : d \in Devices}
         => Resolve(s)' = Resolve(s)]_vars

-----------------------------------------------------------------------------
(* What the documentation says and the code does not do.                   *)

\* SELF-HOSTING.md: "Ban (kick + delete + block the label from being claimed until
\* unbanned)".  A HELLO being checked against the record that the ban deletes is
\* admitted afterwards.
BannedHasNoAgents == \A w \in Callers : Live(w) => hello[w].name \notin banned
=============================================================================
