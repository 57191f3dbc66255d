------------------------------ MODULE DshAuth ------------------------------
(***************************************************************************)
(* The session cookie the agent earns from local dsh and stamps on every   *)
(* replay (packages/agent/src/dsh-auth.ts), with the requests that wait    *)
(* for it and the 401 answers that drop it (openRequest, releaseParked,    *)
(* replayRequest, openSocket in packages/agent/src/index.ts).              *)
(*                                                                         *)
(* Local dsh is external: it signs cookies with a secret it may rotate.    *)
(***************************************************************************)
EXTENDS Naturals, FiniteSets

CONSTANTS
  Requests,   \* bound: exchanges with dsh that may be under way at once
  Upgrades,   \* those that are WebSocket upgrades
  Tries,      \* EXCHANGE_TRIES
  MaxSecret,  \* bound: rotations of dsh's signing secret
  Mishaps,    \* of AllMishaps
  Nothing

\* Time passes; the secret is rotated; dsh goes away for a while; an attempt fails or
\* the service hands out nothing to spend; the service appears after the first requests;
\* dsh signs a cookie whose expiry cannot be read.
AllMishaps == {"time", "rotate", "down", "lost", "late", "opaque"}

ASSUME AuthAssumption ==
  /\ Upgrades \subseteq Requests /\ Tries \in Nat \ {0} /\ MaxSecret \in Nat
  /\ Mishaps \subseteq AllMishaps

VARIABLES
  pair,      \* this.pair with its expiry; `known` is expiresAt # 0
  inflight,  \* the attempt the exchange is at, 0 when none is in flight
  minted,    \* the Set-Cookie of the current attempt, under way
  inert,     \* this.inert
  service,   \* whether the `connection` service has been injected
  st,        \* st[r]: "idle", "parked" or "out"
  stamped,   \* stamped[r]: the cookie r went out with
  fenced,    \* dsh: whether it asks for cookies at all
  secret,    \* dsh: the signing secret
  up,        \* dsh: whether it answers
  asked,     \* ghost: a request has been stamped since the cookie neared its expiry
  excused,   \* ghost: the secret was rotated, dsh or the exchange failed, or a cookie went over
             \* that could not be renewed: its expiry unreadable, or its last day without a request
  refused,   \* ghost: dsh refused a replayed request without such an excuse
  calm       \* bound: nothing goes wrong any more

authVars == <<pair, inflight, minted, inert, service>>
dshVars  == <<fenced, secret, up>>
vars     == <<authVars, st, stamped, dshVars, asked, excused, refused, calm>>

Cookies == [secret : 0..MaxSecret, age : {"fresh", "near", "over"}, known : BOOLEAN]

TypeOK ==
  /\ pair \in Cookies \cup {Nothing}
  /\ inflight \in 0..Tries
  /\ minted \in Cookies \cup {Nothing}
  /\ minted # Nothing => inflight # 0
  /\ inert \in BOOLEAN /\ service \in BOOLEAN
  /\ st \in [Requests -> {"idle", "parked", "out"}]
  /\ \A r \in Upgrades : st[r] # "parked"
  /\ stamped \in [Requests -> Cookies \cup {Nothing}]
  /\ fenced \in BOOLEAN /\ secret \in 0..MaxSecret /\ up \in BOOLEAN
  /\ asked \in BOOLEAN /\ excused \in BOOLEAN /\ refused \in BOOLEAN /\ calm \in BOOLEAN

Init ==
  /\ pair = Nothing /\ minted = Nothing /\ inert = FALSE
  /\ fenced \in BOOLEAN
  /\ service \in IF "late" \in Mishaps THEN {fenced, FALSE} ELSE {fenced}
  /\ inflight = IF service THEN 1 ELSE 0
  /\ st = [r \in Requests |-> "idle"] /\ stamped = [r \in Requests |-> Nothing]
  /\ secret = 0 /\ up = TRUE
  /\ excused = (fenced /\ ~service)
  /\ asked = FALSE /\ refused = FALSE /\ calm = FALSE

-----------------------------------------------------------------------------
(* DshAuth.                                                                *)

Ready == inert \/ pair # Nothing

\* refresh: join the exchange in flight or start one.  Without the service the exchange
\* is over at once.
Refresh ==
  /\ inert' = ~service
  /\ inflight' = IF service /\ inflight = 0 THEN 1 ELSE inflight

NeverNear == FALSE                                      \* mutant: the cookie is never renewed
Near      == pair # Nothing /\ pair.known /\ pair.age # "fresh"

\* stamp.
Stamp(r) ==
  /\ st' = [st EXCEPT ![r] = "out"]
  /\ stamped' = [stamped EXCEPT ![r] = pair]
  /\ asked' = (asked \/ (pair # Nothing /\ pair.age # "fresh"))
  /\ IF Near THEN Refresh ELSE UNCHANGED <<inflight, inert>>

KeepParked == {}                                        \* mutant: nobody is told
Parked     == {r \in Requests : st[r] = "parked"}

\* The exchange is over, with cookie c: `inflight` is cleared and the parked are released.
Settle(c) ==
  /\ pair' = c /\ minted' = Nothing /\ inflight' = 0
  /\ st' = [r \in Requests |-> IF r \in Parked THEN "out" ELSE st[r]]
  /\ stamped' = [r \in Requests |-> IF r \in Parked THEN c ELSE stamped[r]]

\* One attempt of the exchange: dsh sets the cookie, the answer arrives; or it does not.
Mint ==
  /\ inflight # 0 /\ minted = Nothing /\ up
  /\ \E known \in {TRUE, "opaque" \notin Mishaps} :
       minted' = [secret |-> secret, age |-> "fresh", known |-> known]
  /\ UNCHANGED <<pair, inflight, inert, service, st, stamped, dshVars, asked, excused, refused, calm>>

Answered ==
  /\ minted # Nothing
  /\ Settle(minted) /\ asked' = FALSE
  /\ UNCHANGED <<inert, service, dshVars, excused, refused, calm>>

OneTooMany == inflight <= Tries                         \* mutant: the bound is off by one
MoreTries  == inflight < Tries

AttemptFails ==
  /\ inflight # 0
  /\ (~up /\ minted = Nothing) \/ ("lost" \in Mishaps /\ ~calm)
  /\ IF MoreTries
     THEN /\ inflight' = inflight + 1 /\ minted' = Nothing
          /\ UNCHANGED <<pair, st, stamped>>
     ELSE Settle(pair)
  /\ excused' = TRUE
  /\ UNCHANGED <<inert, service, dshVars, asked, refused, calm>>

\* The service's URL cannot be parsed: there is nothing to spend.
GivesUp ==
  /\ inflight # 0 /\ minted = Nothing /\ "lost" \in Mishaps /\ ~calm
  /\ Settle(pair) /\ excused' = TRUE
  /\ UNCHANGED <<inert, service, dshVars, asked, refused, calm>>

Exchange == Mint \/ Answered \/ AttemptFails \/ GivesUp

\* inject: the service is there.
ServiceArrives ==
  /\ fenced /\ ~service /\ service' = TRUE
  /\ inert' = FALSE /\ inflight' = 1
  /\ UNCHANGED <<pair, minted, st, stamped, dshVars, asked, excused, refused, calm>>

-----------------------------------------------------------------------------
(* The tunnel.                                                             *)

\* openRequest: replayed at once, or parked until the exchange is over.
Arrive(r) ==
  /\ st[r] = "idle" /\ r \notin Upgrades
  /\ IF Ready \/ ~service
     THEN IF Ready THEN Stamp(r)
          ELSE /\ st' = [st EXCEPT ![r] = "out"] /\ stamped' = [stamped EXCEPT ![r] = Nothing]
               /\ Refresh /\ UNCHANGED asked
     ELSE /\ st' = [st EXCEPT ![r] = "parked"] /\ Refresh
          /\ UNCHANGED <<stamped, asked>>
  /\ UNCHANGED <<pair, minted, service, dshVars, excused, refused, calm>>

\* openSocket: an upgrade does not wait.
Upgrade(r) ==
  /\ st[r] = "idle" /\ r \in Upgrades
  /\ Stamp(r)
  /\ UNCHANGED <<pair, minted, service, dshVars, excused, refused, calm>>

\* An abort, or the control socket went down.
Dropped(r) ==
  /\ st[r] = "parked" /\ ~calm
  /\ st' = [st EXCEPT ![r] = "idle"]
  /\ UNCHANGED <<authVars, stamped, dshVars, asked, excused, refused, calm>>

Accepts(c) == ~fenced \/ (c # Nothing /\ c.secret = secret /\ c.age # "over")

KeepStale  == UNCHANGED <<pair, inflight, inert>>       \* mutant: a 401 changes nothing
Invalidate == pair' = Nothing /\ Refresh

\* dsh's answer, or none when it is away.  Only an HTTP replay's 401 drops the cookie.
Reply(r) ==
  LET bad == up /\ ~Accepts(stamped[r]) /\ r \notin Upgrades IN
  /\ st[r] = "out" /\ st' = [st EXCEPT ![r] = "idle"]
  /\ stamped' = [stamped EXCEPT ![r] = Nothing]
  /\ IF bad THEN Invalidate ELSE UNCHANGED <<pair, inflight, inert>>
  /\ asked' = IF bad THEN FALSE ELSE asked
  /\ refused' = (refused \/ (bad /\ ~excused))
  /\ UNCHANGED <<minted, service, dshVars, excused, calm>>

-----------------------------------------------------------------------------
(* dsh and the clock.                                                      *)

\* The cookie gets older.  An exchange and a request are short beside the day a cookie
\* has left when it is near its expiry.
TimePasses ==
  /\ "time" \in Mishaps /\ ~calm /\ pair # Nothing /\ inflight = 0
  /\ pair.age # "over"
  /\ \A r \in Requests : st[r] = "idle"
  /\ pair' = [pair EXCEPT !.age = IF @ = "fresh" THEN "near" ELSE "over"]
  /\ excused' = (excused \/ (pair.age = "near" /\ (~asked \/ ~pair.known)))
  /\ UNCHANGED <<inflight, minted, inert, service, st, stamped, dshVars, asked, refused, calm>>

Rotate ==
  /\ "rotate" \in Mishaps /\ ~calm /\ secret < MaxSecret
  /\ secret' = secret + 1 /\ excused' = TRUE
  /\ UNCHANGED <<authVars, st, stamped, fenced, up, asked, refused, calm>>

DownOrUp ==
  /\ "down" \in Mishaps /\ ~calm
  /\ up' = ~up /\ excused' = TRUE
  /\ UNCHANGED <<authVars, st, stamped, fenced, secret, asked, refused, calm>>

CalmDown ==
  /\ ~calm /\ up /\ calm' = TRUE
  /\ UNCHANGED <<authVars, st, stamped, dshVars, asked, excused, refused>>

Next ==
  \/ Exchange \/ ServiceArrives \/ TimePasses \/ Rotate \/ DownOrUp \/ CalmDown
  \/ \E r \in Requests : Arrive(r) \/ Upgrade(r) \/ Dropped(r) \/ Reply(r)

Spec == Init /\ [][Next]_vars

\* An attempt ends, by an answer or EXCHANGE_TIMEOUT_MS at the latest; dsh answers or its
\* connection fails; the service is injected where dsh has one.
FairSpec ==
  /\ Spec /\ WF_vars(Exchange) /\ WF_vars(ServiceArrives)
  /\ \A r \in Requests : WF_vars(Reply(r))

-----------------------------------------------------------------------------
(* Properties.                                                             *)

\* A request is parked only while an exchange is in flight to release it, however
\* invalidations, aborts, failed attempts and the late service interleave.
NobodyWaitsForNothing == (\E r \in Requests : st[r] = "parked") => inflight # 0

\* whenReady: "a visible 401 beats a request parked forever".
EveryoneIsReleased == \A r \in Requests : st[r] = "parked" ~> st[r] # "parked"

\* invalidate: whatever cookie the agent was left with, once dsh is steady its replays are
\* accepted again, and from then on for good.
Healed == \A r \in Requests \ Upgrades : st[r] = "out" => Accepts(stamped[r])

Heals == calm ~> []Healed

\* As long as dsh keeps its secret and answers, no replay is refused, however the clock,
\* the requests and the renewals interleave (stamp: "a cookie near its expiry kicks a
\* background exchange [...] so a month-old dsh process never serves a 401").  Two cookies
\* are excused, since stamp cannot renew them: one whose expiry it could not read, which
\* invalidate names as a cause of a 401, and one that saw no request on its last day.
NeverServes401 == ~refused
=============================================================================
