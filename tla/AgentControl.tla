---------------------------- MODULE AgentControl ----------------------------
(***************************************************************************)
(* The life of the agent's control socket (packages/agent/src/index.ts,    *)
(* configure to onClose, and the READY, ROUTE and DENY cases of dispatch): *)
(* the reconnect chain, the credentials, and the move onto the premium     *)
(* host and back.                                                          *)
(*                                                                         *)
(* The relay behind it is external: it answers a HELLO with READY or DENY  *)
(* and announces route changes to the sockets it has admitted.             *)
(***************************************************************************)
EXTENDS Naturals, Sequences, FiniteSets

CONSTANTS
  Slots,         \* bound: control sockets that exist at once; a closed one's is used again
  Subs,          \* subdomains; each has a premium host, which bears its name
  RouteFailMax,  \* ROUTE_FAIL_MAX
  MaxInbox,      \* bound: frames in flight when the operator changes a route
  MaxChanges,    \* bound: how often the user acts
  Mishaps,       \* of AllMishaps
  Default,       \* the default relay host
  Nothing        \* no socket, no host, no credentials

\* A dial is refused before it starts, a host goes away and comes back, a host still accepts
\* connections but says nothing, the user acts, or names a relay host that is no URL, the
\* operator changes routes.
AllMishaps == {"refused", "outage", "silence", "user", "nourl", "operator"}

ASSUME ControlAssumption ==
  /\ RouteFailMax \in Nat \ {0} /\ MaxInbox \in Nat /\ MaxChanges \in Nat
  /\ Mishaps \subseteq AllMishaps
  /\ Default \notin Subs /\ Nothing \notin Subs \cup Slots \cup {Default}
  /\ Nothing \notin [sub : Subs, ok : BOOLEAN, parses : BOOLEAN]

VARIABLES
  control,      \* this.control
  sock,         \* sock[n]: its readyState, or "free"
  via,          \* via[n]: the host it was dialled through
  creds,        \* this.creds: subdomain, whether the password is right, and whether the
                \* default relay host they dial is one that WebSocket can parse
  routeHost,    \* creds.routeHost
  dialledHost,  \* this.dialledHost
  connected,    \* status.connected
  route,        \* status.route
  routeFails,   \* this.routeFails
  fallback,     \* whether the fallback period is running
  timer,        \* whether the reconnect timer is running
  probe,        \* the host being probed
  stopped,      \* this.stopped
  inbox,        \* inbox[n]: frames from the relay under way to the agent
  said,         \* said[n]: the HELLO under way on n
  admitted,     \* admitted[n]: the subdomain the relay admitted n for
  aware,        \* whether the relay knows about routes
  assigned,     \* the subdomains the operator has on the premium route
  up,           \* the hosts that answer
  mute,         \* the hosts that accept connections and say nothing
  readied,      \* ghost: the sockets that delivered READY
  calm,         \* bound: nobody acts, the default relay answers, no host is mute, for good
  changes       \* bound: how often the user has acted

statusVars == <<creds, routeHost, connected, route, routeFails, fallback, probe, stopped>>
dialVars   == <<control, sock, via, dialledHost, timer>>
relayVars  == <<said, admitted, aware, assigned, up, mute>>
bounds     == <<calm, changes>>
vars       == <<statusVars, dialVars, inbox, relayVars, readied, bounds>>

Hosts   == Subs \cup {Default}
Logins  == [sub : Subs, ok : BOOLEAN, parses : BOOLEAN]
MaybeLogin == Logins \cup {Nothing}
Frames  == [t : {"ready", "route"}, route : {"none", "standard"}, host : {Nothing}]
           \cup [t : {"ready", "route"}, route : {"premium"}, host : Subs]
           \cup [t : {"deny"}, route : {"none"}, host : {Nothing}]

TypeOK ==
  /\ control \in Slots \cup {Nothing}
  /\ sock \in [Slots -> {"free", "connecting", "open", "closing"}]
  /\ via \in [Slots -> Hosts]
  /\ creds \in MaybeLogin
  /\ routeHost \in Subs \cup {Nothing}
  /\ creds = Nothing => routeHost = Nothing
  /\ dialledHost \in Hosts \cup {Nothing}
  /\ connected \in BOOLEAN
  /\ route \in {Nothing, "standard", "premium"}
  /\ routeFails \in 0..(RouteFailMax - 1)
  /\ fallback \in BOOLEAN /\ timer \in BOOLEAN /\ stopped \in BOOLEAN
  /\ probe \in Subs \cup {Nothing}
  /\ inbox \in [Slots -> Seq(Frames)]
  /\ said \in [Slots -> MaybeLogin]
  /\ admitted \in [Slots -> Subs \cup {Nothing}]
  /\ assigned \subseteq Subs
  /\ up \subseteq Hosts /\ mute \subseteq Hosts
  /\ readied \subseteq Slots
  /\ aware \in BOOLEAN /\ calm \in BOOLEAN /\ changes \in 0..MaxChanges

Named(c) == c # Nothing /\ ~c.parses => "nourl" \in Mishaps

\* Either the plugin starts with stored credentials and dials, or it waits for the user.
Init ==
  /\ creds \in MaybeLogin /\ Named(creds)
  /\ routeHost \in IF creds = Nothing THEN {Nothing} ELSE {Nothing, creds.sub}
  /\ control = Nothing /\ dialledHost = Nothing /\ timer = (creds # Nothing)
  /\ sock = [n \in Slots |-> "free"] /\ via = [n \in Slots |-> Default]
  /\ connected = FALSE /\ route = Nothing /\ routeFails = 0 /\ fallback = FALSE
  /\ probe = Nothing /\ stopped = FALSE
  /\ inbox = [n \in Slots |-> << >>] /\ said = [n \in Slots |-> Nothing]
  /\ admitted = [n \in Slots |-> Nothing]
  /\ aware \in BOOLEAN /\ assigned \in IF aware THEN SUBSET Subs ELSE {{}}
  /\ up = Hosts /\ mute = {} /\ readied = {} /\ calm = FALSE /\ changes = 0

-----------------------------------------------------------------------------
(* connect().                                                              *)

DialHost(host, fb) == IF host # Nothing /\ ~fb THEN host ELSE Default

OnPremiumPath == routeHost # Nothing /\ dialledHost = routeHost

Alive(n) == n # Nothing /\ sock[n] \in {"connecting", "open"}

\* close() on socket n: its 'close' event is still to come.
Closing(n) == [m \in Slots |-> IF m = n /\ sock[m] # "free" THEN "closing" ELSE sock[m]]

\* A new control socket through host h, with `left` closing.
Dial(left, h) ==
  \E n \in Slots :
    /\ sock[n] = "free" /\ (h = Default => creds'.parses)
    /\ sock' = [Closing(left) EXCEPT ![n] = "connecting"]
    /\ via' = [via EXCEPT ![n] = h]
    /\ control' = n /\ dialledHost' = h /\ timer' = FALSE

\* dialProblem: a plain ws:// authority, or a CA that cannot be read.
Problem(left, kept) ==
  /\ "refused" \in Mishaps /\ ~calm
  /\ sock' = Closing(left) /\ control' = kept
  /\ dialledHost' = Nothing /\ timer' = TRUE
  /\ UNCHANGED via

\* `new WebSocket` throws for an authority that is no URL, and its caller ends there: the timer
\* is gone, nothing dials.  A premium host is always one (isValidRouteHost).
Throws(left, kept, h) ==
  /\ h = Default /\ ~creds'.parses
  /\ sock' = Closing(left) /\ control' = kept
  /\ dialledHost' = h /\ timer' = FALSE
  /\ UNCHANGED via

\* connect, past its guards.
DialAnew(left, kept, h) == Dial(left, h) \/ Problem(left, kept) \/ Throws(left, kept, h)

\* Abandoning socket `left` and connecting anew.
Connect(left, host, fb) ==
  IF stopped
  THEN /\ sock' = Closing(left) /\ control' = Nothing
       /\ UNCHANGED <<via, dialledHost, timer>>
  ELSE DialAnew(left, Nothing, DialHost(host, fb))

\* The reconnect timer.
TimerFires ==
  /\ timer /\ UNCHANGED <<statusVars, inbox, relayVars, readied, bounds>>
  /\ IF stopped \/ creds = Nothing \/ Alive(control)
     THEN timer' = FALSE /\ UNCHANGED <<control, sock, via, dialledHost>>
     ELSE DialAnew(Nothing, control, DialHost(routeHost, fallback))

-----------------------------------------------------------------------------
(* The user: configure, disconnect, and the end of the plugin.             *)

UserActs ==
  /\ "user" \in Mishaps /\ ~calm /\ UNCHANGED calm
  /\ changes < MaxChanges /\ changes' = changes + 1

SameTarget(c) == creds # Nothing /\ creds.sub = c.sub /\ creds.parses = c.parses
HostFor(c)    == IF SameTarget(c) THEN routeHost ELSE Nothing

Configure(c) ==
  LET fb == SameTarget(c) /\ fallback IN
  /\ UserActs /\ Named(c)
  /\ creds' = c /\ routeHost' = HostFor(c) /\ route' = Nothing /\ fallback' = fb
  /\ routeFails' = IF SameTarget(c) THEN routeFails ELSE 0
  /\ Connect(control, HostFor(c), fb)
  /\ UNCHANGED <<connected, probe, stopped, inbox, relayVars, readied>>

Disconnect ==
  /\ UserActs
  /\ creds' = Nothing /\ routeHost' = Nothing /\ connected' = FALSE /\ route' = Nothing
  /\ routeFails' = 0 /\ fallback' = FALSE /\ timer' = FALSE
  /\ sock' = Closing(control) /\ control' = Nothing
  /\ UNCHANGED <<probe, stopped, via, dialledHost, inbox, relayVars, readied>>

Stop ==
  /\ UserActs
  /\ stopped' = TRUE /\ timer' = FALSE /\ connected' = FALSE
  /\ sock' = Closing(control) /\ control' = Nothing
  /\ UNCHANGED <<creds, routeHost, route, routeFails, fallback, probe, via, dialledHost,
                 inbox, relayVars, readied>>

-----------------------------------------------------------------------------
(* The events of a socket.                                                 *)

\* 'open': HELLO goes out with the credentials of this moment.
Opened(n) ==
  /\ sock[n] = "connecting" /\ via[n] \in up
  /\ sock' = [sock EXCEPT ![n] = "open"]
  /\ said' = [said EXCEPT ![n] = creds]
  /\ UNCHANGED <<statusVars, control, via, dialledHost, timer, inbox, admitted, aware, assigned, up, mute, readied, bounds>>

RouteFailureLate(counts) ==                             \* mutant: one failure too many
  LET over == routeFails + 1 > RouteFailMax IN
  IF counts
  THEN /\ routeFails' = IF over THEN 0 ELSE routeFails + 1
       /\ fallback' = (fallback \/ over)
  ELSE UNCHANGED <<routeFails, fallback>>

\* noteRouteFailure, if `counts`.
RouteFailure(counts) ==
  LET over == routeFails + 1 >= RouteFailMax IN
  IF counts
  THEN /\ routeFails' = IF over THEN 0 ELSE routeFails + 1
       /\ fallback' = (fallback \/ over)
  ELSE UNCHANGED <<routeFails, fallback>>

AnySocket(n)     == TRUE                                \* mutant: a superseded socket counts, too
IsControl(n)     == n = control
ForgetToRetry    == FALSE                               \* mutant: no timer after a close
Retry            == ~stopped

\* Whether the connection under socket n is over: it was closed here, the dial failed,
\* the relay dropped it, or the network did.  A dial to a host that accepts and says nothing
\* is not: connect sets no handshakeTimeout, and the heartbeat starts with 'open'.
Over(n) ==
  \/ sock[n] = "closing"
  \/ sock[n] = "connecting" /\ via[n] \notin up \cup mute
  \/ sock[n] = "open" /\ said[n] = Nothing /\ admitted[n] = Nothing /\ inbox[n] = << >>
  \/ sock[n] # "free" /\ "outage" \in Mishaps /\ ~calm

\* 'close', and onClose for the control socket.
CloseEvent(n) ==
  /\ Over(n)
  /\ sock' = [sock EXCEPT ![n] = "free"]
  /\ inbox' = [inbox EXCEPT ![n] = << >>]
  /\ admitted' = [admitted EXCEPT ![n] = Nothing]
  /\ said' = [said EXCEPT ![n] = Nothing]
  /\ readied' = readied \ {n}
  /\ via' = [via EXCEPT ![n] = Default]
  /\ IF IsControl(n)
     THEN /\ RouteFailure(~connected /\ OnPremiumPath)
          /\ connected' = FALSE /\ control' = Nothing /\ timer' = Retry
     ELSE UNCHANGED <<routeFails, fallback, connected, control, timer>>
  /\ UNCHANGED <<creds, routeHost, route, probe, stopped, dialledHost, aware, assigned, up, mute, bounds>>

\* The heartbeat: a relay gone quiet is given up, an assigned premium host is probed.
TryPremium(host, conn, fb) ==
  probe' = IF host # Nothing /\ probe = Nothing /\ conn /\ dialledHost # host /\ ~fb
           THEN host ELSE probe

Heartbeat ==
  /\ control # Nothing /\ sock[control] = "open" /\ route = "premium"
  /\ TryPremium(routeHost, connected, fallback)
  /\ UNCHANGED <<creds, routeHost, connected, route, routeFails, fallback, stopped, dialVars,
                 inbox, relayVars, readied, bounds>>

Silent ==
  /\ control # Nothing /\ sock[control] = "open" /\ via[control] \notin up
  /\ sock' = Closing(control) /\ inbox' = [inbox EXCEPT ![control] = << >>]
  /\ UNCHANGED <<statusVars, control, via, dialledHost, timer, relayVars, readied, bounds>>

\* The probe is over (it has a handshakeTimeout).  Only if everything still applies does it matter.
ProbeAnswers ==
  LET host == probe  ok == probe \in up IN
  /\ probe # Nothing /\ probe' = Nothing
  /\ UNCHANGED <<creds, routeHost, connected, route, stopped, inbox, relayVars, readied, bounds>>
  /\ IF stopped \/ routeHost # host \/ route # "premium" \/ ~connected \/ OnPremiumPath
     THEN UNCHANGED <<routeFails, fallback, dialVars>>
     ELSE IF ok THEN Connect(control, routeHost, fallback) /\ UNCHANGED <<routeFails, fallback>>
          ELSE RouteFailure(TRUE) /\ UNCHANGED dialVars

\* The fallback period (five minutes at least) outlasts the reconnect to a relay that answers.
FallbackEnds ==
  /\ fallback /\ fallback' = FALSE
  /\ calm => control \in readied
  /\ UNCHANGED <<creds, routeHost, connected, route, routeFails, probe, stopped, dialVars, inbox,
                 relayVars, readied, bounds>>

-----------------------------------------------------------------------------
(* dispatch.                                                               *)

Stays == UNCHANGED dialVars

\* applyRoute for premium host h; `conn` and `fails` are what the frame leaves them at.
ApplyPremium(h, conn, fails) ==
  LET fb == fallback /\ h = routeHost IN
  /\ route' = "premium" /\ routeHost' = h /\ fallback' = fb
  /\ routeFails' = IF h = routeHost THEN fails ELSE 0
  /\ TryPremium(h, conn, fb)
  /\ Stays

StandardStays == Stays                                  \* mutant: the socket stays where it is
StandardMoves == Connect(control, Nothing, FALSE)

\* applyRoute for the standard route.
ApplyStandard ==
  /\ route' = "standard" /\ routeHost' = Nothing /\ fallback' = FALSE /\ routeFails' = 0
  /\ UNCHANGED probe
  /\ IF routeHost # Nothing /\ dialledHost # Default THEN StandardMoves ELSE Stays

ApplyRoute(f, conn, fails) ==
  \/ creds # Nothing /\ f.route = "premium" /\ ApplyPremium(f.host, conn, fails)
  \/ creds # Nothing /\ f.route = "standard" /\ ApplyStandard
  \/ creds # Nothing /\ f.route = "none" /\ routeHost # Nothing /\ ApplyStandard
  \/ /\ creds = Nothing \/ (f.route = "none" /\ routeHost = Nothing)
     /\ routeFails' = fails /\ UNCHANGED <<route, routeHost, fallback, probe>> /\ Stays

Ready(n, f) ==
  /\ connected' = TRUE /\ UNCHANGED <<creds, stopped>>
  /\ ApplyRoute(f, TRUE, 0)

RouteFrame(f) ==
  /\ UNCHANGED <<creds, connected, stopped>>
  /\ ApplyRoute(f, connected, routeFails)

\* DENY closes the control socket, whichever that is by now.
Deny ==
  /\ creds' = Nothing /\ routeHost' = Nothing /\ connected' = FALSE
  /\ sock' = Closing(control)
  /\ UNCHANGED <<route, routeFails, fallback, probe, stopped, control, via, dialledHost, timer>>

\* A socket that is closing still delivers what is under way.
Linked(n) == sock[n] \in {"open", "closing"}

Receive(n) ==
  /\ Linked(n) /\ inbox[n] # << >>
  /\ inbox' = [inbox EXCEPT ![n] = Tail(@)]
  /\ LET f == Head(inbox[n]) IN
     \/ f.t = "ready" /\ Ready(n, f)
     \/ f.t = "route" /\ RouteFrame(f)
     \/ f.t = "deny" /\ Deny
  /\ readied' = IF Head(inbox[n]).t = "ready" THEN readied \cup {n} ELSE readied
  /\ UNCHANGED <<relayVars, bounds>>

-----------------------------------------------------------------------------
(* The relay, as far as the agent sees it, and the world.                  *)

Announce(t, s) ==
  IF ~aware THEN [t |-> t, route |-> "none", host |-> Nothing]
  ELSE IF s \in assigned' THEN [t |-> t, route |-> "premium", host |-> s]
  ELSE [t |-> t, route |-> "standard", host |-> Nothing]

Denial == [t |-> "deny", route |-> "none", host |-> Nothing]

\* The HELLO of socket n is answered; an admitted device replaces its predecessor.
Answer(n) ==
  /\ said[n] # Nothing /\ Linked(n)
  /\ said' = [said EXCEPT ![n] = Nothing]
  /\ UNCHANGED <<aware, assigned>>
  /\ IF said[n].ok
     THEN /\ admitted' = [m \in Slots |-> IF m = n THEN said[n].sub
                                           ELSE IF admitted[m] = said[n].sub THEN Nothing ELSE admitted[m]]
          /\ inbox' = [inbox EXCEPT ![n] = Append(@, Announce("ready", said[n].sub))]
     ELSE /\ inbox' = [inbox EXCEPT ![n] = Append(@, Denial)]
          /\ UNCHANGED admitted
  /\ UNCHANGED <<statusVars, dialVars, up, mute, readied, bounds>>

\* The operator moves subdomain s onto or off the premium route.
Assign(s) ==
  /\ "operator" \in Mishaps /\ ~calm /\ aware
  /\ \A n \in Slots : Len(inbox[n]) < MaxInbox
  /\ assigned' = IF s \in assigned THEN assigned \ {s} ELSE assigned \cup {s}
  /\ inbox' = [n \in Slots |-> IF admitted[n] = s /\ Linked(n)
                               THEN Append(inbox[n], Announce("route", s)) ELSE inbox[n]]
  /\ UNCHANGED <<statusVars, dialVars, said, admitted, aware, up, mute, readied, bounds>>

Outage(h) ==
  /\ "outage" \in Mishaps /\ ~calm
  /\ up' = IF h \in up THEN up \ {h} ELSE up \cup {h}
  /\ mute' = mute \ {h}
  /\ UNCHANGED <<statusVars, dialVars, inbox, said, admitted, aware, assigned, readied, bounds>>

\* Host h takes connections on, and never answers.
FallSilent(h) ==
  /\ "silence" \in Mishaps /\ ~calm
  /\ up' = up \ {h} /\ mute' = mute \cup {h}
  /\ UNCHANGED <<statusVars, dialVars, inbox, said, admitted, aware, assigned, readied, bounds>>

\* From some moment on nobody acts, the default relay is in reach and no host is mute.
CalmDown ==
  /\ ~calm /\ calm' = TRUE
  /\ Default \in up /\ mute = {}
  /\ UNCHANGED <<statusVars, dialVars, inbox, relayVars, readied, changes>>

Agent ==
  \/ TimerFires \/ Heartbeat \/ Silent \/ ProbeAnswers \/ FallbackEnds
  \/ \E n \in Slots : Opened(n) \/ CloseEvent(n) \/ Receive(n)

World ==
  \/ \E c \in Logins : Configure(c)
  \/ Disconnect \/ Stop
  \/ \E s \in Subs : Assign(s)
  \/ \E h \in Hosts : Outage(h) \/ FallSilent(h)

Next == Agent \/ World \/ \E n \in Slots : Answer(n)

Spec == Init /\ [][Next]_vars

\* Timers fire, sockets open or fail unless their host is mute, frames arrive, the relay
\* answers a HELLO.
Fairness ==
  /\ WF_vars(TimerFires) /\ WF_vars(Heartbeat) /\ WF_vars(Silent)
  /\ WF_vars(ProbeAnswers) /\ WF_vars(FallbackEnds)
  /\ \A n \in Slots : /\ WF_vars(Opened(n)) /\ WF_vars(CloseEvent(n))
                      /\ WF_vars(Receive(n)) /\ WF_vars(Answer(n))

\* What is live is live once nothing goes wrong any more.
FairSpec == Init /\ [][Next \/ CalmDown]_vars /\ Fairness

-----------------------------------------------------------------------------
(* Properties.                                                             *)

\* No two control sockets are ever live at once, whatever timers, closes, probes and
\* reconfigurations overlap (connect: "Never run two control sockets at once").
OneControl == \A n \in Slots : sock[n] \in {"connecting", "open"} => n = control

\* As long as there are credentials to dial with, whose relay host is a URL, the timer runs or
\* the 'close' event of the control socket is to come.  No order of denials, refused dials and
\* reconfigurations, of those that throw too, leaves the agent with neither.
NeverStranded ==
  creds # Nothing /\ creds.parses /\ ~stopped => timer \/ (control # Nothing /\ sock[control] # "free")

Online  == control # Nothing /\ sock[control] = "open" /\ control \in readied /\ connected
Hopeful == calm /\ ~stopped /\ creds # Nothing /\ creds.ok /\ creds.parses

\* The premium host if that is assigned and within reach, else the default relay; and the
\* route shown is the one assigned.
OnRoute ==
  LET s == creds.sub IN
  /\ route = (IF s \in assigned THEN "premium" ELSE "standard")
  /\ via[control] = (IF s \in assigned /\ s \in up THEN s ELSE Default)

\* When nothing goes wrong any more, with the right password, the relay within reach and no
\* host that only accepts connections, the agent gets its READY and keeps it, and its
\* control socket ends up on the route the operator assigned, whatever probes, fallbacks
\* and route frames overlapped before (onClose, tryPremium, applyRoute).
RouteConverges == Hopeful ~> [](Hopeful => Online /\ (aware => OnRoute))
=============================================================================
