------------------------- MODULE AgentControlProofs -------------------------
(***************************************************************************)
(* Theorems about the agent's control socket, for any number of sockets    *)
(* and subdomains, any number of failures and any mishaps.                 *)
(***************************************************************************)
EXTENDS AgentControl, TLAPS

-----------------------------------------------------------------------------
(* Dialling.                                                               *)

Live(n) == sock[n] \in {"connecting", "open"}

DialType ==
  /\ control \in Slots \cup {Nothing}
  /\ sock \in [Slots -> {"free", "connecting", "open", "closing"}]
  /\ via \in [Slots -> Hosts]
  /\ dialledHost \in Hosts \cup {Nothing}
  /\ timer \in BOOLEAN

\* There is one control socket, and `control` names one that can still close.
Controlled ==
  /\ OneControl
  /\ control # Nothing => sock[control] # "free"

LEMMA ClosingType ==
  ASSUME sock \in [Slots -> {"free", "connecting", "open", "closing"}], NEW n
  PROVE  /\ Closing(n) \in [Slots -> {"free", "connecting", "open", "closing"}]
         /\ \A m \in Slots : /\ Closing(n)[m] = "free" <=> sock[m] = "free"
                             /\ m # n => Closing(n)[m] = sock[m]
                             /\ m = n => Closing(n)[m] \notin {"connecting", "open"}
BY DEF Closing

\* A dial that leaves no live socket behind.
LEMMA DialIsControlled ==
  ASSUME DialType, NEW left, NEW h \in Hosts, Dial(left, h),
         \A n \in Slots : Live(n) => n = left
  PROVE  DialType' /\ Controlled' /\ control' # Nothing /\ sock'[control'] # "free"
<1> PICK n \in Slots : /\ sock[n] = "free"
                       /\ sock' = [Closing(left) EXCEPT ![n] = "connecting"]
                       /\ via' = [via EXCEPT ![n] = h]
                       /\ control' = n /\ dialledHost' = h /\ timer' = FALSE
  BY DEF Dial
<1>1. Closing(left) \in [Slots -> {"free", "connecting", "open", "closing"}]
  BY ClosingType DEF DialType
<1>2. sock' \in [Slots -> {"free", "connecting", "open", "closing"}] /\ sock'[n] = "connecting"
      /\ \A m \in Slots \ {n} : sock'[m] = Closing(left)[m]
  BY <1>1
<1>3. DialType'
  BY <1>2 DEF DialType
<1>4. \A m \in Slots : sock'[m] \in {"connecting", "open"} => m = n
  BY <1>2, ClosingType DEF DialType, Live
<1>5. n # Nothing
  BY ControlAssumption
<1> QED BY <1>2, <1>3, <1>4, <1>5 DEF Controlled, OneControl

LEMMA ProblemIsControlled ==
  ASSUME DialType, NEW left, NEW kept \in {Nothing, control}, Problem(left, kept),
         \A n \in Slots : Live(n) => n = left, control # Nothing => sock[control] # "free"
  PROVE  DialType' /\ Controlled' /\ timer'
<1>1. sock' = Closing(left) /\ control' = kept /\ dialledHost' = Nothing /\ timer' = TRUE /\ via' = via
  BY DEF Problem
<1>2. DialType'
  BY <1>1, ClosingType DEF DialType
<1>3. OneControl'
  BY <1>1, ClosingType DEF OneControl, Live, DialType
<1>4. control' # Nothing => sock'[control'] # "free"
  BY <1>1, ClosingType DEF DialType
<1> QED BY <1>1, <1>2, <1>3, <1>4 DEF Controlled

\* A dial that throws leaves nothing that could dial: it is one that names no URL.
LEMMA ThrowsIsControlled ==
  ASSUME DialType, NEW left, NEW kept \in {Nothing, control}, NEW h \in Hosts, Throws(left, kept, h),
         \A n \in Slots : Live(n) => n = left, control # Nothing => sock[control] # "free"
  PROVE  DialType' /\ Controlled' /\ ~creds'.parses
<1>1. /\ sock' = Closing(left) /\ control' = kept /\ dialledHost' = h /\ timer' = FALSE /\ via' = via
      /\ ~creds'.parses
  BY DEF Throws
<1>2. DialType'
  BY <1>1, ClosingType DEF DialType
<1>3. OneControl'
  BY <1>1, ClosingType DEF OneControl, Live, DialType
<1>4. control' # Nothing => sock'[control'] # "free"
  BY <1>1, ClosingType DEF DialType
<1> QED BY <1>1, <1>2, <1>3, <1>4 DEF Controlled

LEMMA HostType ==
  ASSUME NEW h \in Subs \cup {Nothing}, NEW fb
  PROVE  DialHost(h, fb) \in Hosts
BY DEF DialHost, Hosts

LEMMA ConnectIsControlled ==
  ASSUME DialType, Controlled, NEW h \in Subs \cup {Nothing}, NEW fb, Connect(control, h, fb)
  PROVE  DialType' /\ Controlled' /\ (~stopped /\ creds'.parses => timer' \/ (control' # Nothing /\ sock'[control'] # "free"))
<1>0. \A n \in Slots : Live(n) => n = control
  BY DEF Controlled, OneControl, Live
<1>1. CASE stopped
  <2>1. sock' = Closing(control) /\ control' = Nothing /\ UNCHANGED <<via, dialledHost, timer>>
    BY <1>1 DEF Connect
  <2>2. DialType'
    BY <2>1, ClosingType DEF DialType
  <2>3. \A n \in Slots : sock'[n] \notin {"connecting", "open"}
    BY <1>0, <2>1, ClosingType DEF DialType, Live
  <2> QED BY <1>1, <2>1, <2>2, <2>3 DEF Controlled, OneControl
<1>2. CASE Dial(control, DialHost(h, fb))
  BY <1>0, <1>2, HostType, DialIsControlled
<1>3. CASE Problem(control, Nothing)
  BY <1>0, <1>3, ProblemIsControlled DEF Controlled
<1>4. CASE Throws(control, Nothing, DialHost(h, fb))
  BY <1>0, <1>4, HostType, ThrowsIsControlled DEF Controlled
<1> QED BY <1>1, <1>2, <1>3, <1>4 DEF Connect, DialAnew

\* Closing the control socket.
LEMMA CloseIsControlled ==
  ASSUME DialType, Controlled, sock' = Closing(control), control' \in {control, Nothing},
         UNCHANGED <<via, dialledHost>>, timer' \in BOOLEAN
  PROVE  DialType' /\ Controlled'
<1>1. DialType'
  BY ClosingType DEF DialType
<1>2. \A n \in Slots : sock'[n] \notin {"connecting", "open"}
  BY ClosingType DEF DialType, Controlled, OneControl
<1>3. control' # Nothing => sock'[control'] # "free"
  BY ClosingType DEF DialType, Controlled
<1> QED BY <1>1, <1>2, <1>3 DEF Controlled, OneControl
-----------------------------------------------------------------------------
(* The other variables.                                                    *)

StatusType ==
  /\ creds \in MaybeLogin
  /\ routeHost \in Subs \cup {Nothing}
  /\ creds = Nothing => routeHost = Nothing
  /\ connected \in BOOLEAN
  /\ route \in {Nothing, "standard", "premium"}
  /\ routeFails \in 0..(RouteFailMax - 1)
  /\ fallback \in BOOLEAN /\ stopped \in BOOLEAN
  /\ probe \in Subs \cup {Nothing}

RelayType ==
  /\ inbox \in [Slots -> Seq(Frames)]
  /\ said \in [Slots -> MaybeLogin]
  /\ admitted \in [Slots -> Subs \cup {Nothing}]
  /\ assigned \subseteq Subs
  /\ up \subseteq Hosts /\ mute \subseteq Hosts
  /\ readied \subseteq Slots
  /\ aware \in BOOLEAN /\ calm \in BOOLEAN /\ changes \in 0..MaxChanges

LEMMA TypeParts == TypeOK <=> DialType /\ StatusType /\ RelayType
BY DEF TypeOK, DialType, StatusType, RelayType

ControlInv == DialType /\ StatusType /\ RelayType /\ Controlled /\ NeverStranded

LEMMA NoFrame == << >> \in Seq(Frames)
OBVIOUS

LEMMA FailureType ==
  ASSUME StatusType, NEW counts, RouteFailure(counts)
  PROVE  routeFails' \in 0..(RouteFailMax - 1) /\ fallback' \in BOOLEAN
<1>1. routeFails' \in 0..(RouteFailMax - 1)
  BY ControlAssumption DEF StatusType, RouteFailure
<1>2. fallback' \in BOOLEAN
  BY DEF StatusType, RouteFailure
<1> QED BY <1>1, <1>2

LEMMA NoFailures == 0 \in 0..(RouteFailMax - 1)
BY ControlAssumption

\* Steps that leave the socket, the timer and the credentials alone.
LEMMA SameDial ==
  ASSUME ControlInv, UNCHANGED dialVars, creds' = creds, ~stopped' => ~stopped
  PROVE  DialType' /\ Controlled' /\ NeverStranded'
BY DEF ControlInv, dialVars, DialType, Controlled, OneControl, NeverStranded

LEMMA InitInv == Init => ControlInv
<1> SUFFICES ASSUME Init PROVE ControlInv
  OBVIOUS
<1>1. DialType
  <2>1. Default \in Hosts
    BY DEF Hosts
  <2> QED BY <2>1 DEF Init, DialType
<1>2. StatusType
  <2>1. creds \in MaybeLogin /\ (creds # Nothing => creds.sub \in Subs)
    BY DEF Init, MaybeLogin, Logins
  <2>2. routeHost \in Subs \cup {Nothing} /\ (creds = Nothing => routeHost = Nothing)
    BY <2>1 DEF Init
  <2> QED BY <2>1, <2>2, NoFailures DEF Init, StatusType
<1>3. RelayType
  <2>1. Nothing \in MaybeLogin
    BY DEF MaybeLogin
  <2>2. assigned \subseteq Subs /\ changes \in 0..MaxChanges
    BY ControlAssumption DEF Init
  <2> QED BY <2>1, <2>2, NoFrame DEF Init, RelayType, Hosts
<1>4. Controlled /\ NeverStranded
  BY DEF Init, Controlled, OneControl, NeverStranded
<1> QED BY <1>1, <1>2, <1>3, <1>4 DEF ControlInv

-----------------------------------------------------------------------------
(* The steps.                                                              *)

LEMMA TimerInv == ASSUME ControlInv, TimerFires PROVE ControlInv'
<1>1. StatusType' /\ RelayType' /\ UNCHANGED <<creds, stopped>>
  BY DEF TimerFires, ControlInv, StatusType, RelayType, statusVars, relayVars, bounds
<1>2. DialType /\ Controlled /\ routeHost \in Subs \cup {Nothing}
  BY DEF ControlInv, StatusType
<1>3. CASE stopped \/ creds = Nothing \/ Alive(control)
  <2>1. timer' = FALSE /\ UNCHANGED <<control, sock, via, dialledHost>>
    BY <1>3 DEF TimerFires
  <2>2. DialType' /\ Controlled'
    BY <1>2, <2>1 DEF DialType, Controlled, OneControl
  <2>3. NeverStranded'
    BY <1>1, <1>3, <2>1 DEF NeverStranded, Alive
  <2> QED BY <1>1, <2>2, <2>3 DEF ControlInv
<1>4. CASE ~(stopped \/ creds = Nothing \/ Alive(control))
  <2>1. \A n \in Slots : Live(n) => n = Nothing
    BY <1>2, <1>4 DEF Controlled, OneControl, Live, Alive
  <2>2. CASE Dial(Nothing, DialHost(routeHost, fallback))
    <3>1. DialType' /\ Controlled' /\ control' # Nothing /\ sock'[control'] # "free"
      BY <1>2, <2>1, <2>2, HostType, DialIsControlled
    <3> QED BY <1>1, <3>1 DEF ControlInv, NeverStranded
  <2>3. CASE Problem(Nothing, control)
    <3>1. DialType' /\ Controlled' /\ timer'
      BY <1>2, <2>1, <2>3, ProblemIsControlled DEF Controlled
    <3> QED BY <1>1, <3>1 DEF ControlInv, NeverStranded
  <2>4. CASE Throws(Nothing, control, DialHost(routeHost, fallback))
    <3>1. DialType' /\ Controlled' /\ ~creds'.parses
      BY <1>2, <2>1, <2>4, HostType, ThrowsIsControlled DEF Controlled
    <3> QED BY <1>1, <3>1 DEF ControlInv, NeverStranded
  <2> QED BY <1>4, <2>2, <2>3, <2>4 DEF TimerFires, DialAnew
<1> QED BY <1>3, <1>4

LEMMA ActsType ==
  ASSUME RelayType, UserActs
  PROVE  calm' \in BOOLEAN /\ changes' \in 0..MaxChanges
BY ControlAssumption DEF RelayType, UserActs

LEMMA ConfigureInv == ASSUME ControlInv, NEW c \in Logins, Configure(c) PROVE ControlInv'
<1> DEFINE same == SameTarget(c)
           fb   == same /\ fallback
<1>1. /\ creds' = c /\ routeHost' = HostFor(c) /\ route' = Nothing /\ fallback' = fb
      /\ routeFails' = IF same THEN routeFails ELSE 0
      /\ Connect(control, HostFor(c), fb) /\ UserActs
      /\ UNCHANGED <<connected, probe, stopped, inbox, relayVars, readied>>
  BY DEF Configure
<1>2. DialType /\ Controlled /\ StatusType /\ RelayType
  BY DEF ControlInv
<1>3. HostFor(c) \in Subs \cup {Nothing}
  BY <1>2 DEF HostFor, StatusType
<1>4. DialType' /\ Controlled' /\ (~stopped /\ creds'.parses => timer' \/ (control' # Nothing /\ sock'[control'] # "free"))
  BY <1>1, <1>2, <1>3, ConnectIsControlled
<1>5. StatusType'
  <2>1. c \in MaybeLogin /\ c # Nothing
    BY ControlAssumption DEF MaybeLogin, Logins
  <2>2. fallback' \in BOOLEAN
    BY <1>1
  <2>3. routeFails' \in 0..(RouteFailMax - 1)
    BY <1>1, <1>2, NoFailures DEF StatusType
  <2> QED BY <1>1, <1>2, <1>3, <2>1, <2>2, <2>3 DEF StatusType
<1>6. RelayType'
  BY <1>1, <1>2, ActsType DEF RelayType, relayVars, bounds
<1>7. NeverStranded'
  BY <1>1, <1>4 DEF NeverStranded
<1> QED BY <1>4, <1>5, <1>6, <1>7 DEF ControlInv

LEMMA DisconnectInv == ASSUME ControlInv, Disconnect \/ Stop PROVE ControlInv'
<1>1. DialType /\ Controlled /\ StatusType /\ RelayType
  BY DEF ControlInv
<1>2. sock' = Closing(control) /\ control' = Nothing /\ timer' = FALSE /\ UNCHANGED <<via, dialledHost>>
  BY DEF Disconnect, Stop
<1>3. DialType' /\ Controlled'
  BY <1>1, <1>2, CloseIsControlled
<1>4. StatusType'
  <2>1. Nothing \in MaybeLogin
    BY DEF MaybeLogin
  <2> QED BY <1>1, <2>1, NoFailures DEF Disconnect, Stop, StatusType
<1>5. RelayType'
  BY <1>1, ActsType DEF Disconnect, Stop, RelayType, relayVars, bounds
<1>6. NeverStranded'
  BY DEF Disconnect, Stop, NeverStranded
<1> QED BY <1>3, <1>4, <1>5, <1>6 DEF ControlInv

LEMMA OpenedInv == ASSUME ControlInv, NEW n \in Slots, Opened(n) PROVE ControlInv'
<1>1. /\ DialType /\ Controlled /\ StatusType /\ RelayType /\ NeverStranded
      /\ sock[n] = "connecting" /\ sock' = [sock EXCEPT ![n] = "open"] /\ said' = [said EXCEPT ![n] = creds]
      /\ UNCHANGED <<statusVars, control, via, dialledHost, timer, inbox, admitted, aware, assigned, up, mute, readied, bounds>>
  BY DEF ControlInv, Opened
<1>2. DialType'
  BY <1>1 DEF DialType
<1>3. Controlled'
  BY <1>1 DEF Controlled, OneControl, DialType
<1>4. StatusType'
  BY <1>1 DEF StatusType, statusVars
<1>5. RelayType'
  BY <1>1 DEF RelayType, StatusType, bounds
<1>6. NeverStranded'
  BY <1>1 DEF NeverStranded, statusVars, DialType
<1> QED BY <1>2, <1>3, <1>4, <1>5, <1>6 DEF ControlInv

LEMMA CloseEventInv == ASSUME ControlInv, NEW n \in Slots, CloseEvent(n) PROVE ControlInv'
<1>1. /\ DialType /\ Controlled /\ StatusType /\ RelayType /\ NeverStranded
      /\ sock' = [sock EXCEPT ![n] = "free"]
      /\ inbox' = [inbox EXCEPT ![n] = << >>]
      /\ admitted' = [admitted EXCEPT ![n] = Nothing]
      /\ said' = [said EXCEPT ![n] = Nothing]
      /\ readied' = readied \ {n} /\ via' = [via EXCEPT ![n] = Default]
      /\ UNCHANGED <<creds, routeHost, route, probe, stopped, dialledHost, aware, assigned, up, mute, bounds>>
  BY DEF ControlInv, CloseEvent
<1>2. CASE n = control
  <2>1. /\ RouteFailure(~connected /\ OnPremiumPath)
        /\ connected' = FALSE /\ control' = Nothing /\ timer' = ~stopped
    BY <1>2 DEF CloseEvent, IsControl, Retry
  <2>2. DialType'
    BY <1>1, <2>1 DEF DialType, Hosts
  <2>3. Controlled'
    BY <1>1, <1>2, <2>1 DEF Controlled, OneControl, DialType
  <2>4. StatusType'
    BY <1>1, <2>1, FailureType DEF StatusType
  <2>5. NeverStranded'
    BY <1>1, <2>1 DEF NeverStranded
  <2>6. RelayType'
    <3>1. Nothing \in MaybeLogin
      BY DEF MaybeLogin
    <3> QED BY <1>1, <3>1, NoFrame DEF RelayType, bounds
  <2> QED BY <2>2, <2>3, <2>4, <2>5, <2>6 DEF ControlInv
<1>3. CASE n # control
  <2>1. UNCHANGED <<routeFails, fallback, connected, control, timer>>
    BY <1>3 DEF CloseEvent, IsControl
  <2>2. DialType'
    BY <1>1, <2>1 DEF DialType, Hosts
  <2>3. Controlled'
    BY <1>1, <1>3, <2>1 DEF Controlled, OneControl, DialType
  <2>4. StatusType'
    BY <1>1, <2>1 DEF StatusType
  <2>5. NeverStranded'
    BY <1>1, <1>3, <2>1 DEF NeverStranded, DialType
  <2>6. RelayType'
    <3>1. Nothing \in MaybeLogin
      BY DEF MaybeLogin
    <3> QED BY <1>1, <3>1, NoFrame DEF RelayType, bounds
  <2> QED BY <2>2, <2>3, <2>4, <2>5, <2>6 DEF ControlInv
<1> QED BY <1>2, <1>3

LEMMA ProbeType ==
  ASSUME StatusType, NEW h \in Subs \cup {Nothing}, NEW conn, NEW fb, TryPremium(h, conn, fb)
  PROVE  probe' \in Subs \cup {Nothing}
BY DEF TryPremium, StatusType

LEMMA ClockInv == ASSUME ControlInv, Heartbeat \/ FallbackEnds PROVE ControlInv'
<1>1. DialType' /\ Controlled' /\ NeverStranded'
  BY SameDial DEF Heartbeat, FallbackEnds
<1>2. RelayType'
  BY DEF Heartbeat, FallbackEnds, ControlInv, RelayType, relayVars, bounds
<1>3. StatusType'
  <2>1. StatusType /\ routeHost \in Subs \cup {Nothing}
    BY DEF ControlInv, StatusType
  <2>2. CASE Heartbeat
    <3>1. probe' \in Subs \cup {Nothing}
      BY <2>1, <2>2, ProbeType DEF Heartbeat
    <3> QED BY <2>1, <2>2, <3>1 DEF Heartbeat, StatusType
  <2>3. CASE FallbackEnds
    BY <2>1, <2>3 DEF FallbackEnds, StatusType
  <2> QED BY <2>2, <2>3
<1> QED BY <1>1, <1>2, <1>3 DEF ControlInv

LEMMA SilentInv == ASSUME ControlInv, Silent PROVE ControlInv'
<1>1. /\ DialType /\ Controlled /\ StatusType /\ RelayType /\ NeverStranded /\ control \in Slots
      /\ sock' = Closing(control) /\ inbox' = [inbox EXCEPT ![control] = << >>]
      /\ UNCHANGED <<statusVars, control, via, dialledHost, timer, relayVars, readied, bounds>>
  BY DEF ControlInv, Silent, DialType
<1>2. DialType' /\ Controlled'
  BY <1>1, CloseIsControlled DEF DialType
<1>3. StatusType'
  BY <1>1 DEF StatusType, statusVars
<1>4. RelayType'
  BY <1>1, NoFrame DEF RelayType, relayVars, bounds
<1>5. NeverStranded'
  BY <1>1, <1>2, ControlAssumption DEF NeverStranded, Controlled
<1> QED BY <1>2, <1>3, <1>4, <1>5 DEF ControlInv

LEMMA ProbeInv == ASSUME ControlInv, ProbeAnswers PROVE ControlInv'
<1>1. /\ DialType /\ Controlled /\ StatusType /\ RelayType /\ probe' = Nothing
      /\ UNCHANGED <<creds, routeHost, connected, route, stopped, inbox, relayVars, readied, bounds>>
  BY DEF ControlInv, ProbeAnswers
<1>2. RelayType'
  BY <1>1 DEF RelayType, relayVars, bounds
<1>3. CASE UNCHANGED <<routeFails, fallback, dialVars>>
  BY <1>1, <1>2, <1>3, SameDial DEF ControlInv, StatusType
<1>4. CASE Connect(control, routeHost, fallback) /\ UNCHANGED <<routeFails, fallback>>
  <2>1. DialType' /\ Controlled' /\ (~stopped /\ creds'.parses => timer' \/ (control' # Nothing /\ sock'[control'] # "free"))
    BY <1>1, <1>4, ConnectIsControlled DEF StatusType
  <2> QED BY <1>1, <1>2, <1>4, <2>1 DEF ControlInv, StatusType, NeverStranded
<1>5. CASE RouteFailure(TRUE) /\ UNCHANGED dialVars
  BY <1>1, <1>2, <1>5, SameDial, FailureType DEF ControlInv, StatusType
<1> QED BY <1>3, <1>4, <1>5 DEF ProbeAnswers
-----------------------------------------------------------------------------
(* The frames and the world.                                               *)

\* ApplyRoute: the route moves, and the control socket with it only if it must.
LEMMA RouteInv ==
  ASSUME ControlInv, NEW f \in Frames, NEW conn \in BOOLEAN, NEW fails \in 0..(RouteFailMax - 1),
         ApplyRoute(f, conn, fails), UNCHANGED <<creds, stopped>>, connected' \in BOOLEAN
  PROVE  DialType' /\ Controlled' /\ NeverStranded' /\ StatusType'
<1>1. StatusType /\ DialType /\ Controlled
  BY DEF ControlInv
<1>2. CASE creds # Nothing /\ f.route = "premium" /\ ApplyPremium(f.host, conn, fails)
  <2>1. DialType' /\ Controlled' /\ NeverStranded'
    BY <1>2, SameDial DEF ApplyPremium, Stays
  <2>2. f.host \in Subs
    BY <1>2 DEF Frames
  <2>3. probe' \in Subs \cup {Nothing}
    BY <1>1, <1>2, <2>2, ProbeType DEF ApplyPremium
  <2>4. route' = "premium" /\ routeHost' = f.host /\ fallback' \in BOOLEAN /\ routeFails' \in 0..(RouteFailMax - 1)
    BY <1>1, <1>2, NoFailures DEF ApplyPremium
  <2> QED BY <1>1, <1>2, <2>1, <2>2, <2>3, <2>4 DEF StatusType
<1>3. CASE creds # Nothing /\ ApplyStandard
  <2>1. /\ route' = "standard" /\ routeHost' = Nothing /\ fallback' = FALSE /\ routeFails' = 0 /\ probe' = probe
        /\ StandardMoves \/ Stays
    BY <1>3 DEF ApplyStandard
  <2>2. StatusType'
    BY <1>1, <2>1, NoFailures DEF StatusType
  <2>3. CASE Stays
    BY <2>2, <2>3, SameDial DEF Stays
  <2>4. CASE StandardMoves
    <3>1. DialType' /\ Controlled' /\ (~stopped /\ creds'.parses => timer' \/ (control' # Nothing /\ sock'[control'] # "free"))
      BY <1>1, <2>4, ConnectIsControlled DEF StandardMoves
    <3> QED BY <2>2, <3>1 DEF NeverStranded
  <2> QED BY <2>1, <2>3, <2>4
<1>4. CASE routeFails' = fails /\ UNCHANGED <<route, routeHost, fallback, probe>> /\ Stays
  <2>1. DialType' /\ Controlled' /\ NeverStranded'
    BY <1>4, SameDial DEF Stays
  <2> QED BY <1>1, <1>4, <2>1 DEF StatusType
<1> QED BY <1>2, <1>3, <1>4 DEF ApplyRoute

LEMMA ReceiveInv == ASSUME ControlInv, NEW n \in Slots, Receive(n) PROVE ControlInv'
<1> DEFINE f == Head(inbox[n])
<1>1. StatusType /\ DialType /\ Controlled /\ RelayType
  BY DEF ControlInv
<1>2. inbox[n] \in Seq(Frames) /\ inbox[n] # << >>
  BY <1>1 DEF RelayType, Receive
<1>3. f \in Frames /\ Tail(inbox[n]) \in Seq(Frames)
  BY <1>2
<1>4. RelayType'
  <2>1. inbox' \in [Slots -> Seq(Frames)]
    BY <1>1, <1>3 DEF Receive, RelayType
  <2>2. readied' \subseteq Slots
    BY <1>1 DEF Receive, RelayType
  <2> QED BY <1>1, <2>1, <2>2 DEF Receive, RelayType, relayVars, bounds
<1> HIDE DEF f
<1>5. CASE Ready(n, f)
  BY <1>1, <1>3, <1>4, <1>5, NoFailures, RouteInv DEF Ready, ControlInv
<1>6. CASE RouteFrame(f)
  <2>1. connected \in BOOLEAN /\ routeFails \in 0..(RouteFailMax - 1) /\ connected' \in BOOLEAN
    BY <1>1, <1>6 DEF RouteFrame, StatusType
  <2> QED BY <1>3, <1>4, <1>6, <2>1, RouteInv DEF RouteFrame, ControlInv
<1>7. CASE Deny
  <2>1. DialType' /\ Controlled'
    BY <1>1, <1>7, CloseIsControlled DEF Deny, DialType
  <2>2. StatusType'
    <3>1. Nothing \in MaybeLogin
      BY DEF MaybeLogin
    <3> QED BY <1>1, <1>7, <3>1 DEF Deny, StatusType
  <2>3. NeverStranded'
    BY <1>7 DEF Deny, NeverStranded
  <2> QED BY <1>4, <2>1, <2>2, <2>3 DEF ControlInv
<1> QED BY <1>5, <1>6, <1>7 DEF Receive, f

LEMMA FrameType ==
  ASSUME NEW s \in Subs
  PROVE  Announce("ready", s) \in Frames /\ Announce("route", s) \in Frames /\ Denial \in Frames
BY DEF Announce, Denial, Frames

LEMMA AnswerInv == ASSUME ControlInv, NEW n \in Slots, Answer(n) PROVE ControlInv'
<1>1. DialType' /\ Controlled' /\ NeverStranded'
  BY SameDial DEF Answer, statusVars
<1>2. StatusType'
  BY DEF Answer, statusVars, ControlInv, StatusType
<1>3. RelayType'
  <2>1. RelayType /\ said[n] \in Logins /\ said[n].sub \in Subs
    BY DEF ControlInv, RelayType, Answer, MaybeLogin, Logins
  <2>2. said' \in [Slots -> MaybeLogin]
    <3>1. Nothing \in MaybeLogin
      BY DEF MaybeLogin
    <3> QED BY <2>1, <3>1 DEF Answer, RelayType
  <2>3. UNCHANGED <<aware, assigned, up, mute, readied, bounds>>
    BY DEF Answer
  <2>4. CASE said[n].ok
    <3>1. /\ admitted' = [m \in Slots |-> IF m = n THEN said[n].sub
                                           ELSE IF admitted[m] = said[n].sub THEN Nothing ELSE admitted[m]]
          /\ inbox' = [inbox EXCEPT ![n] = Append(@, Announce("ready", said[n].sub))]
      BY <2>4 DEF Answer
    <3>2. Append(inbox[n], Announce("ready", said[n].sub)) \in Seq(Frames)
      BY <2>1, FrameType DEF RelayType
    <3>3. inbox' \in [Slots -> Seq(Frames)]
      BY <2>1, <3>1, <3>2 DEF RelayType
    <3>4. admitted' \in [Slots -> Subs \cup {Nothing}]
      BY <2>1, <3>1 DEF RelayType
    <3> QED BY <2>1, <2>2, <2>3, <3>3, <3>4 DEF RelayType, bounds
  <2>5. CASE ~said[n].ok
    <3>1. inbox' = [inbox EXCEPT ![n] = Append(@, Denial)] /\ admitted' = admitted
      BY <2>5 DEF Answer
    <3>2. Append(inbox[n], Denial) \in Seq(Frames)
      BY <2>1, FrameType DEF RelayType
    <3>3. inbox' \in [Slots -> Seq(Frames)]
      BY <2>1, <3>1, <3>2 DEF RelayType
    <3> QED BY <2>1, <2>2, <2>3, <3>1, <3>3 DEF RelayType, bounds
  <2> QED BY <2>4, <2>5
<1> QED BY <1>1, <1>2, <1>3 DEF ControlInv

LEMMA OutsideInv ==
  ASSUME ControlInv, (\E s \in Subs : Assign(s)) \/ (\E h \in Hosts : Outage(h) \/ FallSilent(h)) \/ CalmDown
  PROVE  ControlInv'
<1>1. DialType' /\ Controlled' /\ NeverStranded'
  BY SameDial DEF Assign, Outage, FallSilent, CalmDown, statusVars
<1>2. StatusType'
  BY DEF Assign, Outage, FallSilent, CalmDown, statusVars, ControlInv, StatusType
<1>3. RelayType
  BY DEF ControlInv
<1>4. ASSUME NEW s \in Subs, Assign(s) PROVE RelayType'
  <2>1. /\ inbox' = [n \in Slots |-> IF admitted[n] = s /\ Linked(n)
                                     THEN Append(inbox[n], Announce("route", s)) ELSE inbox[n]]
        /\ assigned' = IF s \in assigned THEN assigned \ {s} ELSE assigned \cup {s}
        /\ UNCHANGED <<said, admitted, aware, up, mute, readied, bounds>>
    BY <1>4 DEF Assign
  <2>2. \A n \in Slots : Append(inbox[n], Announce("route", s)) \in Seq(Frames)
    BY <1>3, FrameType DEF RelayType
  <2>3. inbox' \in [Slots -> Seq(Frames)]
    BY <1>3, <2>1, <2>2 DEF RelayType
  <2>4. assigned' \subseteq Subs
    BY <1>3, <2>1 DEF RelayType
  <2> QED BY <1>3, <2>1, <2>3, <2>4 DEF RelayType, bounds
<1>5. ASSUME NEW h \in Hosts, Outage(h) \/ FallSilent(h) PROVE RelayType'
  <2>1. up' \subseteq Hosts /\ mute' \subseteq Hosts
    BY <1>3, <1>5 DEF Outage, FallSilent, RelayType
  <2> QED BY <1>3, <1>5, <2>1 DEF Outage, FallSilent, RelayType, bounds
<1>6. ASSUME CalmDown PROVE RelayType'
  <2>1. calm' = TRUE /\ UNCHANGED <<inbox, said, admitted, aware, assigned, up, mute, readied, changes>>
    BY <1>6 DEF CalmDown, relayVars
  <2>2. calm' \in BOOLEAN
    BY <2>1
  <2>3. aware' \in BOOLEAN
    BY <1>3, <2>1 DEF RelayType
  <2>4. /\ inbox' \in [Slots -> Seq(Frames)] /\ said' \in [Slots -> MaybeLogin]
        /\ admitted' \in [Slots -> Subs \cup {Nothing}]
        /\ assigned' \subseteq Subs /\ up' \subseteq Hosts /\ mute' \subseteq Hosts /\ readied' \subseteq Slots
        /\ changes' \in 0..MaxChanges
    BY <1>3, <2>1 DEF RelayType
  <2> QED BY <2>2, <2>3, <2>4 DEF RelayType
<1> QED BY <1>1, <1>2, <1>4, <1>5, <1>6 DEF ControlInv

LEMMA StepInv == ControlInv /\ [Next \/ CalmDown]_vars => ControlInv'
<1> SUFFICES ASSUME ControlInv, [Next \/ CalmDown]_vars PROVE ControlInv'
  OBVIOUS
<1>1. CASE Agent
  BY <1>1, TimerInv, ClockInv, SilentInv, ProbeInv, OpenedInv, CloseEventInv, ReceiveInv DEF Agent
<1>2. CASE World
  BY <1>2, ConfigureInv, DisconnectInv, OutsideInv DEF World
<1>3. CASE UNCHANGED vars
  <2>1. UNCHANGED <<dialVars, creds, stopped>>
    BY <1>3 DEF vars, statusVars
  <2>2. DialType' /\ Controlled' /\ NeverStranded'
    BY <2>1, SameDial
  <2>3. StatusType' /\ RelayType'
    BY <1>3 DEF vars, statusVars, relayVars, bounds, ControlInv, StatusType, RelayType
  <2> QED BY <2>2, <2>3 DEF ControlInv
<1> QED BY <1>1, <1>2, <1>3, AnswerInv, OutsideInv DEF Next

-----------------------------------------------------------------------------
(* The theorems.                                                           *)

LEMMA Invariance == Spec => []ControlInv
BY InitInv, StepInv, PTL DEF Spec

\* Sockets, timers, route and frames keep their types.
THEOREM ControlTypeOK == Spec => []TypeOK
<1>1. ControlInv => TypeOK
  BY TypeParts DEF ControlInv
<1> QED BY <1>1, Invariance, PTL

\* However timers, closes, probes, denials and the user overlap, there is at most one live
\* control socket, the one the agent takes for it (OneControl of the checked runs).
THEOREM OnlyOneControl == Spec => []OneControl
<1>1. ControlInv => OneControl
  BY DEF ControlInv, Controlled
<1> QED BY <1>1, Invariance, PTL

\* An agent with credentials whose relay host is a URL is never left with neither a timer nor a
\* socket whose 'close' will start one, whatever dials threw before (NeverStranded).
THEOREM SomethingWillDial == Spec => []NeverStranded
<1>1. ControlInv => NeverStranded
  BY DEF ControlInv
<1> QED BY <1>1, Invariance, PTL
=============================================================================
