---------------------------- MODULE DshAuthProofs ----------------------------
(* Theorems about the session cookie, for any requests, any number of      *)
(* tries and of rotations, and whatever goes wrong.                        *)
EXTENDS DshAuth, TLAPS

-----------------------------------------------------------------------------
(* Types.                                                                  *)

LEMMA InitType == Init => TypeOK
<1> SUFFICES ASSUME Init PROVE TypeOK
  OBVIOUS
<1>1. fenced \in BOOLEAN /\ service \in BOOLEAN /\ inflight \in 0..Tries
  <2>1. fenced \in BOOLEAN /\ service \in {fenced, FALSE}
    BY DEF Init
  <2>2. inflight = 0 \/ inflight = 1
    BY DEF Init
  <2>3. inflight \in 0..Tries
    BY <2>2, AuthAssumption
  <2> QED BY <2>1, <2>3
<1>2. excused \in BOOLEAN /\ secret \in 0..MaxSecret
  BY AuthAssumption DEF Init
<1>3. /\ st \in [Requests -> {"idle", "parked", "out"}] /\ stamped \in [Requests -> Cookies \cup {Nothing}]
      /\ \A r \in Upgrades : st[r] # "parked"
  BY AuthAssumption DEF Init
<1> QED BY <1>1, <1>2, <1>3 DEF Init, TypeOK

LEMMA RefreshType ==
  ASSUME TypeOK, Refresh
  PROVE  inflight' \in 0..Tries /\ inert' \in BOOLEAN /\ (inflight # 0 => inflight' # 0)
BY AuthAssumption DEF TypeOK, Refresh

LEMMA StampType ==
  ASSUME TypeOK, NEW r \in Requests, Stamp(r)
  PROVE  /\ inflight' \in 0..Tries /\ inert' \in BOOLEAN /\ (inflight # 0 => inflight' # 0)
         /\ st' \in [Requests -> {"idle", "parked", "out"}] /\ stamped' \in [Requests -> Cookies \cup {Nothing}]
         /\ asked' \in BOOLEAN /\ \A u \in Upgrades : st'[u] # "parked"
<1>1. inflight' \in 0..Tries /\ inert' \in BOOLEAN /\ (inflight # 0 => inflight' # 0)
  <2>1. CASE Near
    BY <2>1, RefreshType DEF Stamp
  <2>2. CASE ~Near
    BY <2>2 DEF Stamp, TypeOK
  <2> QED BY <2>1, <2>2
<1>2. pair \in Cookies \cup {Nothing}
  BY DEF TypeOK
<1>3. /\ st' \in [Requests -> {"idle", "parked", "out"}] /\ stamped' \in [Requests -> Cookies \cup {Nothing}]
      /\ \A u \in Upgrades : st'[u] # "parked"
  BY <1>2, AuthAssumption DEF Stamp, TypeOK
<1> QED BY <1>1, <1>3 DEF Stamp, TypeOK

LEMMA SettleType ==
  ASSUME TypeOK, NEW c \in Cookies \cup {Nothing}, Settle(c)
  PROVE  /\ pair' \in Cookies \cup {Nothing} /\ inflight' \in 0..Tries /\ minted' = Nothing
         /\ st' \in [Requests -> {"idle", "parked", "out"}] /\ stamped' \in [Requests -> Cookies \cup {Nothing}]
         /\ \A r \in Requests : st'[r] # "parked"
<1>1. pair' \in Cookies \cup {Nothing} /\ inflight' \in 0..Tries /\ minted' = Nothing
  BY AuthAssumption DEF Settle
<1>2. st' \in [Requests -> {"idle", "parked", "out"}] /\ \A r \in Requests : st'[r] # "parked"
  BY DEF Settle, Parked, TypeOK
<1>3. stamped' \in [Requests -> Cookies \cup {Nothing}]
  BY DEF Settle, TypeOK
<1> QED BY <1>1, <1>2, <1>3

LEMMA ExchangeType ==
  ASSUME TypeOK, Exchange
  PROVE  TypeOK'
<1>1. CASE Mint
  <2>1. minted' \in Cookies
    <3>1. PICK known \in {TRUE, "opaque" \notin Mishaps} :
            minted' = [secret |-> secret, age |-> "fresh", known |-> known]
      BY <1>1 DEF Mint
    <3>2. known \in BOOLEAN /\ secret \in 0..MaxSecret
      BY DEF TypeOK
    <3> QED BY <3>1, <3>2 DEF Cookies
  <2> QED BY <1>1, <2>1 DEF Mint, TypeOK, dshVars
<1>2. CASE Answered
  <2>1. minted \in Cookies \cup {Nothing} /\ Settle(minted)
    BY <1>2 DEF Answered, TypeOK
  <2> QED BY <1>2, <2>1, SettleType, AuthAssumption DEF Answered, TypeOK, dshVars
<1>3. CASE AttemptFails
  <2>1. CASE MoreTries
    <3>1. inflight' \in 0..Tries /\ minted' = Nothing
      BY <1>3, <2>1, AuthAssumption DEF AttemptFails, MoreTries, TypeOK
    <3> QED BY <1>3, <2>1, <3>1 DEF AttemptFails, TypeOK, dshVars
  <2>2. CASE ~MoreTries
    <3>1. Settle(pair) /\ pair \in Cookies \cup {Nothing}
      BY <1>3, <2>2 DEF AttemptFails, TypeOK
    <3> QED BY <1>3, <3>1, SettleType, AuthAssumption DEF AttemptFails, TypeOK, dshVars
  <2> QED BY <2>1, <2>2
<1>4. CASE GivesUp
  <2>1. Settle(pair) /\ pair \in Cookies \cup {Nothing}
    BY <1>4 DEF GivesUp, TypeOK
  <2> QED BY <1>4, <2>1, SettleType, AuthAssumption DEF GivesUp, TypeOK, dshVars
<1> QED BY <1>1, <1>2, <1>3, <1>4 DEF Exchange

LEMMA RequestType ==
  ASSUME TypeOK, NEW r \in Requests, Arrive(r) \/ Upgrade(r) \/ Dropped(r) \/ Reply(r)
  PROVE  TypeOK'
<1>1. CASE Arrive(r)
  <2>1. /\ inflight' \in 0..Tries /\ inert' \in BOOLEAN /\ (inflight # 0 => inflight' # 0)
        /\ st' \in [Requests -> {"idle", "parked", "out"}] /\ stamped' \in [Requests -> Cookies \cup {Nothing}]
        /\ asked' \in BOOLEAN /\ \A u \in Upgrades : st'[u] # "parked"
    <3>1. CASE Stamp(r)
      BY <3>1, StampType
    <3>2. CASE /\ st' = [st EXCEPT ![r] = "out"] /\ stamped' = [stamped EXCEPT ![r] = Nothing]
               /\ Refresh /\ UNCHANGED asked
      BY <3>2, RefreshType, AuthAssumption DEF TypeOK
    <3>3. CASE /\ st' = [st EXCEPT ![r] = "parked"] /\ Refresh
               /\ UNCHANGED <<stamped, asked>>
      BY <1>1, <3>3, RefreshType, AuthAssumption DEF TypeOK, Arrive
    <3> QED BY <1>1, <3>1, <3>2, <3>3 DEF Arrive
  <2> QED BY <1>1, <2>1 DEF Arrive, TypeOK, dshVars
<1>2. CASE Upgrade(r)
  BY <1>2, StampType DEF Upgrade, TypeOK, dshVars
<1>3. CASE Dropped(r)
  BY <1>3, AuthAssumption DEF Dropped, TypeOK, dshVars, authVars
<1>4. CASE Reply(r)
  <2>1. /\ st' \in [Requests -> {"idle", "parked", "out"}] /\ stamped' \in [Requests -> Cookies \cup {Nothing}]
        /\ \A u \in Upgrades : st'[u] # "parked"
    BY <1>4, AuthAssumption DEF Reply, TypeOK
  <2>2. /\ pair' \in Cookies \cup {Nothing} /\ inflight' \in 0..Tries /\ inert' \in BOOLEAN
        /\ inflight # 0 => inflight' # 0
    <3>1. CASE Invalidate
      BY <3>1, RefreshType DEF Invalidate
    <3>2. CASE UNCHANGED <<pair, inflight, inert>>
      BY <3>2 DEF TypeOK
    <3> QED BY <1>4, <3>1, <3>2 DEF Reply
  <2>3. asked' \in BOOLEAN /\ refused' \in BOOLEAN
    BY <1>4 DEF Reply, TypeOK
  <2> QED BY <1>4, <2>1, <2>2, <2>3 DEF Reply, TypeOK, dshVars
<1> QED BY <1>1, <1>2, <1>3, <1>4

LEMMA WorldType ==
  ASSUME TypeOK, ServiceArrives \/ TimePasses \/ Rotate \/ DownOrUp \/ CalmDown
  PROVE  TypeOK'
<1>1. CASE ServiceArrives
  <2>1. /\ service' = TRUE /\ inert' = FALSE /\ inflight' = 1
        /\ UNCHANGED <<pair, minted, st, stamped, dshVars, asked, excused, refused, calm>>
    BY <1>1 DEF ServiceArrives
  <2>2. inflight' \in 0..Tries /\ inflight' # 0
    BY <2>1, AuthAssumption
  <2> QED BY <2>1, <2>2 DEF TypeOK, dshVars
<1>2. CASE TimePasses
  <2>1. pair' \in Cookies \cup {Nothing}
    <3>1. pair \in Cookies
      BY <1>2 DEF TimePasses, TypeOK
    <3>2. pair' = [pair EXCEPT !.age = IF @ = "fresh" THEN "near" ELSE "over"]
      BY <1>2 DEF TimePasses
    <3> QED BY <3>1, <3>2 DEF Cookies
  <2> QED BY <1>2, <2>1 DEF TimePasses, TypeOK, dshVars
<1>3. CASE Rotate
  BY <1>3, AuthAssumption DEF Rotate, TypeOK, authVars
<1>4. CASE DownOrUp
  BY <1>4 DEF DownOrUp, TypeOK, authVars
<1>5. CASE CalmDown
  BY <1>5 DEF CalmDown, TypeOK, authVars, dshVars
<1> QED BY <1>1, <1>2, <1>3, <1>4, <1>5

LEMMA StepType == TypeOK /\ [Next]_vars => TypeOK'
<1> SUFFICES ASSUME TypeOK, [Next]_vars PROVE TypeOK'
  OBVIOUS
<1>1. CASE UNCHANGED vars
  BY <1>1 DEF vars, authVars, dshVars, TypeOK
<1> QED BY <1>1, ExchangeType, RequestType, WorldType DEF Next

\* The exchange, its cookies and the requests that wait keep their types.
THEOREM AuthTypeOK == Spec => []TypeOK
BY InitType, StepType, PTL DEF Spec

-----------------------------------------------------------------------------
(* Nobody waits for nothing.                                               *)

LEMMA StepReleases == TypeOK /\ NobodyWaitsForNothing /\ [Next]_vars => NobodyWaitsForNothing'
<1> SUFFICES ASSUME TypeOK, NobodyWaitsForNothing, [Next]_vars, NEW q \in Requests, st'[q] = "parked"
             PROVE  inflight' # 0
  BY DEF NobodyWaitsForNothing
<1> USE AuthAssumption
<1>1. ASSUME st[q] = "parked" PROVE inflight # 0
  BY <1>1 DEF NobodyWaitsForNothing
<1>2. CASE Exchange
  <2>1. ASSUME NEW c, Settle(c) PROVE FALSE
    BY <2>1 DEF Settle, Parked, TypeOK
  <2>2. CASE Mint
    BY <1>1, <2>2 DEF Mint
  <2>3. CASE AttemptFails /\ MoreTries
    BY <2>3 DEF AttemptFails, MoreTries, TypeOK
  <2> QED BY <1>2, <2>1, <2>2, <2>3 DEF Exchange, Answered, AttemptFails, GivesUp
<1>3. CASE ServiceArrives
  BY <1>3 DEF ServiceArrives
<1>4. CASE TimePasses \/ Rotate \/ DownOrUp \/ CalmDown
  BY <1>1, <1>4 DEF TimePasses, Rotate, DownOrUp, CalmDown, authVars
<1>5. ASSUME NEW r \in Requests, Arrive(r) PROVE inflight' # 0
  <2>1. CASE st[q] = "parked"
    <3>1. inflight' = inflight \/ Refresh
      BY <1>5 DEF Arrive, Stamp
    <3> QED BY <1>1, <2>1, <3>1, RefreshType
  <2>2. CASE st[q] # "parked"
    <3>1. st' = [st EXCEPT ![r] = "parked"] /\ service /\ Refresh
      BY <1>5, <2>2 DEF Arrive, Stamp, TypeOK
    <3> QED BY <3>1 DEF Refresh
  <2> QED BY <2>1, <2>2
<1>6. ASSUME NEW r \in Requests, Upgrade(r) PROVE inflight' # 0
  <2>1. st[q] = "parked"
    BY <1>6 DEF Upgrade, Stamp, TypeOK
  <2>2. inflight' = inflight \/ Refresh
    BY <1>6 DEF Upgrade, Stamp
  <2> QED BY <1>1, <2>1, <2>2, RefreshType
<1>7. ASSUME NEW r \in Requests, Dropped(r) PROVE inflight' # 0
  BY <1>1, <1>7 DEF Dropped, TypeOK, authVars
<1>8. ASSUME NEW r \in Requests, Reply(r) PROVE inflight' # 0
  <2>1. st[q] = "parked"
    BY <1>8 DEF Reply, TypeOK
  <2>2. inflight' = inflight \/ Refresh
    BY <1>8 DEF Reply, Invalidate
  <2> QED BY <1>1, <2>1, <2>2, RefreshType
<1>9. CASE UNCHANGED vars
  BY <1>1, <1>9 DEF vars, authVars
<1> QED BY <1>2, <1>3, <1>4, <1>5, <1>6, <1>7, <1>8, <1>9 DEF Next

\* Whoever is parked has an exchange in flight to release him (NobodyWaitsForNothing):
\* EveryoneIsReleased, which only TLC checks, needs no more than that exchanges end.
THEOREM NobodyIsForgotten == Spec => []NobodyWaitsForNothing
<1>1. Init => NobodyWaitsForNothing
  BY DEF Init, NobodyWaitsForNothing
<1> QED BY <1>1, StepReleases, AuthTypeOK, PTL DEF Spec
-----------------------------------------------------------------------------
(* No replay is refused without an excuse.                                 *)

\* A cookie that dsh accepts, and one it has just signed.
Good(c) == c # Nothing /\ c.secret = secret /\ c.age # "over"

\* As long as nothing excuses a refusal: the cookie at hand is good, the one under way too,
\* every replay that is out carries one, and whoever was stamped with a cookie near an
\* expiry that can be read has an exchange under way.
Trusted ==
  fenced /\ ~excused =>
    /\ service /\ ~inert
    /\ pair # Nothing => Good(pair)
    /\ minted # Nothing => Good(minted)
    /\ \A r \in Requests \ Upgrades : st[r] = "out" => Good(stamped[r])
    /\ asked /\ pair # Nothing /\ pair.known => inflight # 0

AuthInv == TypeOK /\ Trusted /\ NeverServes401

\* Releasing everybody with a good cookie leaves nobody out with a bad one.
LEMMA SettleIsGood ==
  ASSUME TypeOK, Trusted, fenced, ~excused, NEW c, Settle(c), Good(c), secret' = secret
  PROVE  \A r \in Requests \ Upgrades : st'[r] = "out" => Good(stamped[r])'
<1> SUFFICES ASSUME NEW r \in Requests \ Upgrades, st'[r] = "out" PROVE Good(stamped[r])'
  OBVIOUS
<1>1. CASE r \in Parked
  <2>1. stamped'[r] = c
    BY <1>1 DEF Settle
  <2> QED BY <2>1 DEF Good
<1>2. CASE r \notin Parked
  <2>1. stamped'[r] = stamped[r] /\ st[r] = "out"
    BY <1>2 DEF Settle
  <2> QED BY <2>1 DEF Trusted, Good
<1> QED BY <1>1, <1>2

LEMMA ExchangeTrusted ==
  ASSUME TypeOK, Trusted, Exchange, fenced', ~excused'
  PROVE  Trusted' /\ refused' = refused
<1>1. CASE Mint
  <2>1. PICK known \in {TRUE, "opaque" \notin Mishaps} :
          minted' = [secret |-> secret, age |-> "fresh", known |-> known]
    BY <1>1 DEF Mint
  <2>2. minted'.secret = secret /\ minted'.age = "fresh" /\ secret' = secret
    BY <1>1, <2>1 DEF Mint, dshVars
  <2>3. minted' # Nothing => Good(minted)'
    BY <2>2 DEF Good
  <2> QED BY <1>1, <2>3 DEF Mint, Trusted, Good, dshVars
<1>2. CASE Answered
  <2>1. Settle(minted) /\ Good(minted) /\ secret' = secret /\ fenced /\ ~excused
    BY <1>2 DEF Answered, Trusted, dshVars
  <2>2. \A r \in Requests \ Upgrades : st'[r] = "out" => Good(stamped[r])'
    BY <2>1, SettleIsGood
  <2> QED BY <1>2, <2>1, <2>2 DEF Answered, Settle, Trusted, Good, dshVars
<1>3. CASE AttemptFails \/ GivesUp
  BY <1>3 DEF AttemptFails, GivesUp
<1> QED BY <1>1, <1>2, <1>3 DEF Exchange

LEMMA StampIsGood ==
  ASSUME TypeOK, Trusted, fenced, ~excused, NEW r \in Requests, Stamp(r), r \notin Upgrades => pair # Nothing,
         UNCHANGED <<pair, minted, service, dshVars, excused>>
  PROVE  Trusted'
<1>1. /\ st' = [st EXCEPT ![r] = "out"] /\ stamped' = [stamped EXCEPT ![r] = pair]
      /\ service /\ ~inert /\ (pair # Nothing => Good(pair)) /\ (minted # Nothing => Good(minted)) /\ secret' = secret
  BY DEF Stamp, Trusted, dshVars
<1>2. \A q \in Requests \ Upgrades : st'[q] = "out" => Good(stamped[q])'
  <2> SUFFICES ASSUME NEW q \in Requests \ Upgrades, st'[q] = "out" PROVE Good(stamped[q])'
    OBVIOUS
  <2>1. CASE q = r
    BY <1>1, <2>1 DEF Good, TypeOK
  <2>2. CASE q # r
    <3>1. stamped'[q] = stamped[q] /\ st[q] = "out"
      BY <1>1, <2>2 DEF TypeOK
    <3> QED BY <1>1, <3>1 DEF Good, Trusted
  <2> QED BY <2>1, <2>2
<1>3. CASE Near
  <2>1. inert' = FALSE /\ inflight' # 0
    BY <1>1, <1>3 DEF Stamp, Refresh, TypeOK
  <2> QED BY <1>1, <1>2, <2>1 DEF Trusted, Good, dshVars
<1>4. CASE ~Near
  <2>1. UNCHANGED <<inflight, inert>> /\ pair' = pair
    BY <1>4 DEF Stamp
  <2>2. asked' /\ pair # Nothing /\ pair.known => asked
    BY <1>4 DEF Stamp, Near
  <2> QED BY <1>1, <1>2, <2>1, <2>2 DEF Trusted, Good, dshVars
<1> QED BY <1>3, <1>4

LEMMA RequestTrusted ==
  ASSUME TypeOK, Trusted, NEW r \in Requests, Arrive(r) \/ Upgrade(r) \/ Dropped(r) \/ Reply(r), fenced', ~excused'
  PROVE  Trusted' /\ refused' = refused
<1>0. fenced /\ ~excused /\ service /\ ~inert /\ secret' = secret
  <2>1. fenced' = fenced /\ excused' = excused /\ secret' = secret
    BY DEF Arrive, Upgrade, Dropped, Reply, dshVars
  <2> QED BY <2>1 DEF Trusted
<1>1. CASE Arrive(r)
  <2>1. CASE Ready
    <3>1. Stamp(r) /\ pair # Nothing
      BY <1>0, <1>1, <2>1 DEF Arrive, Ready
    <3> QED BY <1>0, <1>1, <3>1, StampIsGood DEF Arrive
  <2>2. CASE ~Ready
    <3>1. st' = [st EXCEPT ![r] = "parked"] /\ Refresh /\ UNCHANGED <<stamped, asked>>
      BY <1>0, <1>1, <2>2 DEF Arrive
    <3>2. inert' = FALSE /\ (inflight # 0 => inflight' # 0)
      BY <1>0, <3>1, RefreshType DEF Refresh
    <3>3. \A q \in Requests : st'[q] = "out" => st[q] = "out" /\ stamped'[q] = stamped[q]
      BY <3>1 DEF TypeOK
    <3> QED BY <1>0, <1>1, <3>1, <3>2, <3>3 DEF Arrive, Trusted, Good, dshVars
  <2> QED BY <2>1, <2>2
<1>2. CASE Upgrade(r)
  BY <1>0, <1>2, StampIsGood DEF Upgrade
<1>3. CASE Dropped(r)
  <2>1. \A q \in Requests : st'[q] = "out" => st[q] = "out" /\ stamped'[q] = stamped[q]
    BY <1>3 DEF Dropped, TypeOK
  <2> QED BY <1>0, <1>3, <2>1 DEF Dropped, Trusted, Good, dshVars, authVars
<1>4. CASE Reply(r)
  <2>1. r \in Upgrades \/ Accepts(stamped[r])
    BY <1>0, <1>4 DEF Reply, Trusted, Accepts, Good
  <2>2. UNCHANGED <<pair, inflight, inert, asked>> /\ refused' = refused
    BY <1>4, <2>1 DEF Reply, TypeOK
  <2>3. \A q \in Requests : st'[q] = "out" => st[q] = "out" /\ stamped'[q] = stamped[q]
    BY <1>4 DEF Reply, TypeOK
  <2> QED BY <1>0, <1>4, <2>2, <2>3 DEF Reply, Trusted, Good, dshVars
<1> QED BY <1>1, <1>2, <1>3, <1>4

LEMMA WorldTrusted ==
  ASSUME TypeOK, Trusted, ServiceArrives \/ TimePasses \/ Rotate \/ DownOrUp \/ CalmDown, fenced', ~excused'
  PROVE  Trusted' /\ refused' = refused
<1>1. CASE ServiceArrives
  BY <1>1 DEF ServiceArrives, Trusted, dshVars
\* A cookie that could be renewed gets older than "near" only when nobody has asked since,
\* which is an excuse.
<1>2. CASE TimePasses
  <2>1. fenced /\ ~excused /\ secret' = secret /\ pair # Nothing /\ inflight = 0
    BY <1>2 DEF TimePasses, dshVars
  <2>2. pair.age # "near" /\ pair.age # "over" /\ pair \in Cookies
    BY <1>2, <2>1 DEF TimePasses, Trusted, TypeOK
  <2>3. pair' = [pair EXCEPT !.age = "near"] /\ pair.age = "fresh"
    BY <1>2, <2>2 DEF TimePasses, Cookies
  <2>4. pair'.age = "near" /\ pair'.secret = secret
    BY <2>1, <2>2, <2>3 DEF Cookies, Trusted, Good
  <2>5. pair' # Nothing => Good(pair)'
    BY <2>1, <2>4 DEF Good
  <2>6. pair'.known = pair.known
    BY <2>2, <2>3 DEF Cookies
  <2>7. ~(asked' /\ pair'.known)
    <3>1. ~(asked /\ pair.known)
      BY <2>1 DEF Trusted
    <3>2. asked' = asked
      BY <1>2 DEF TimePasses
    <3> QED BY <2>6, <3>1, <3>2
  <2>8. UNCHANGED <<service, inert, minted, st, stamped, refused>>
    BY <1>2 DEF TimePasses
  <2> QED BY <2>1, <2>5, <2>7, <2>8 DEF Trusted, Good
<1>3. CASE Rotate \/ DownOrUp
  BY <1>3 DEF Rotate, DownOrUp
<1>4. CASE CalmDown
  BY <1>4 DEF CalmDown, Trusted, Good, authVars, dshVars
<1> QED BY <1>1, <1>2, <1>3, <1>4

LEMMA StepInv == AuthInv /\ [Next]_vars => AuthInv'
<1> SUFFICES ASSUME AuthInv, [Next]_vars PROVE Trusted' /\ NeverServes401'
  BY StepType DEF AuthInv
<1>1. TypeOK /\ Trusted /\ ~refused
  BY DEF AuthInv, NeverServes401
<1>2. CASE fenced' /\ ~excused'
  <2>1. CASE UNCHANGED vars
    BY <1>1, <2>1 DEF vars, authVars, dshVars, Trusted, Good, NeverServes401
  <2>2. CASE Next
    <3>1. Trusted' /\ refused' = refused
      BY <1>1, <1>2, <2>2, ExchangeTrusted, RequestTrusted, WorldTrusted DEF Next
    <3> QED BY <1>1, <3>1 DEF NeverServes401
  <2> QED BY <2>1, <2>2
\* An open dsh accepts everything, and what is excused does not count.
<1>3. CASE ~(fenced' /\ ~excused')
  <2>1. Trusted'
    BY <1>3 DEF Trusted
  <2>2. ASSUME NEW r \in Requests, Reply(r) PROVE refused' = refused
    BY <1>1, <1>3, <2>2 DEF Reply, Accepts, dshVars, TypeOK
  <2>3. refused' = refused
    BY <2>2 DEF Next, Exchange, Mint, Answered, AttemptFails, GivesUp, ServiceArrives, TimePasses, Rotate,
                DownOrUp, CalmDown, Arrive, Upgrade, Dropped, vars
  <2> QED BY <1>1, <2>1, <2>3 DEF NeverServes401
<1> QED BY <1>2, <1>3

\* However requests, exchanges and the clock interleave, no replay is refused by a dsh that
\* keeps its secret and answers, but for a cookie whose expiry could not be read or that saw
\* no request on its last day (NeverServes401).
THEOREM NoStaleReplay == Spec => []NeverServes401
<1>1. Init => AuthInv
  <2>1. Init => Trusted /\ NeverServes401
    BY DEF Init, Trusted, NeverServes401
  <2> QED BY <2>1, InitType DEF AuthInv
<1>2. AuthInv => NeverServes401
  BY DEF AuthInv
<1> QED BY <1>1, <1>2, StepInv, PTL DEF Spec
=============================================================================
