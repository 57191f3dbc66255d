---------------------------- MODULE BrowserPage ----------------------------
(***************************************************************************)
(* A page of the browser on a name with several devices: the E2E shim that *)
(* the serving device injects (packages/agent/src/e2e-shim.ts), with its   *)
(* unlock gate and its remembered passwords, the device switcher           *)
(* (packages/agent/client.js) and what the relay (resolveDevice) and the   *)
(* devices (replayRequest, finishE2ERequest) make of the page's calls.     *)
(*                                                                         *)
(* A page is served by one device, but its calls go where the cookie they  *)
(* carry, or the relay, says.  The browser's other pages share its cookie  *)
(* and its storage: they are part of the environment.                      *)
(***************************************************************************)
EXTENDS Integers, FiniteSets

CONSTANTS
  Devices,
  Passwords,   \* what users type and browsers remember
  Used,        \* those that owners set
  None,
  Legacy,      \* the key of the old storage entry, which names no device
  FirstSalt,   \* the salts that the devices start with
  Given,       \* the E2E passwords that the devices may start with
  MaxTurns     \* bound: changes of E2E passwords

ASSUME PageAssumption ==
  /\ None \notin Devices \cup Passwords /\ Legacy \notin Devices
  /\ Used \subseteq Passwords /\ Given \subseteq [Devices -> Used \cup {None}]
  /\ IsFiniteSet(Devices) /\ FirstSalt \in [Devices -> 1..Cardinality(Devices)]
  /\ \A c, d \in Devices : FirstSalt[c] = FirstSalt[d] => c = d
  /\ MaxTurns \in Nat

VARIABLES
  live,     \* the connected devices
  older,    \* older[d]: those of them that were connected before d
  e2e,      \* e2e[d]: d's E2E password (None: off), its salt, and when it was set
  turns,    \* how often E2E passwords were changed
  chosen,   \* the browser's device cookie
  saved,    \* the browser's remembered passwords
  page,     \* the page
  call,     \* its request under way
  calm,     \* the environment rests
  steady,   \* ghost: since the page was served the browser chose no other device and
            \* the page's device stayed
  foreign,  \* ghost: a sealed call took effect elsewhere than it was sealed for
  astray    \* ghost: a call of a steady page went to another device

world == <<live, older, e2e, turns>>
ghost == <<foreign, astray>>
vars  == <<world, chosen, saved, page, call, calm, steady, ghost>>

NoKey  == [pw |-> None, salt |-> 0]
NoPage == [at |-> "none", home |-> None, salt |-> 0, turn |-> 0, key |-> NoKey, try |-> None, typed |-> FALSE]
NoCall == [kind |-> "none", body |-> FALSE, key |-> NoKey, chosen |-> None]

Salts == 0..(MaxTurns + Cardinality(Devices))
SaltKeys == [pw : Passwords \cup {None}, salt : Salts]

TypeOK ==
  /\ live \in SUBSET Devices /\ older \in [Devices -> SUBSET Devices]
  /\ e2e \in [Devices -> [pw : Passwords \cup {None}, salt : Salts, turn : Salts]]
  /\ turns \in 0..MaxTurns
  /\ chosen \in Devices \cup {None}
  /\ saved \in [Devices \cup {Legacy} -> Passwords \cup {None}]
  /\ page \in [at : {"none", "offline", "picker", "plain", "gate", "open"}, home : Devices \cup {None},
               salt : Salts, turn : Salts, key : SaltKeys, try : Passwords \cup {None}, typed : BOOLEAN]
  /\ call \in [kind : {"none", "probe", "app"}, body : BOOLEAN, key : SaltKeys, chosen : Devices \cup {None}]
  /\ calm \in BOOLEAN /\ steady \in BOOLEAN /\ foreign \in BOOLEAN /\ astray \in BOOLEAN

-----------------------------------------------------------------------------
(* Where requests go: resolveDevice.                                       *)

Oldest == CHOOSE d \in live : older[d] = {}
Last   == CHOOSE d \in live : \A c \in live \ {d} : c \in older[d]

\* Anything but a navigation.  None: no device, the relay answers 502.
Newest(c) == IF c # None THEN (IF c \in live THEN c ELSE None)
             ELSE IF live = {} THEN None ELSE Last      \* mutant: the comparison is turned round
Routed(c) == IF c # None THEN (IF c \in live THEN c ELSE None)
             ELSE IF live = {} THEN None ELSE Oldest

\* A navigation: several devices and no choice, or the wrong one, get the picker.
Served(c)  == IF c = None /\ (\E d, e \in live : d # e) THEN None ELSE Routed(c)
Picking(c) == Served(c) = None /\ live # {}

-----------------------------------------------------------------------------
(* Devices come and go, and their owner changes their E2E password.        *)

Vacate(d) == [c \in Devices |-> older[c] \ {d}]

\* Connected, or connected again in place of its former socket.
Join(d) ==
  /\ ~calm /\ live' = live \cup {d}
  /\ older' = [Vacate(d) EXCEPT ![d] = live \ {d}]
  /\ steady' = (steady /\ ~(page.home = d /\ d \in live))
  /\ UNCHANGED <<e2e, turns, chosen, saved, page, call, calm, ghost>>

Leave(d) ==
  /\ ~calm /\ d \in live /\ live' = live \ {d}
  /\ older' = [Vacate(d) EXCEPT ![d] = {}]
  /\ steady' = (steady /\ page.home # d)
  /\ UNCHANGED <<e2e, turns, chosen, saved, page, call, calm, ghost>>

KeptSalt(d)  == e2e[d].salt                             \* mutant: the salt outlives the password
\* Salts are random: one that was never used.
FreshSalt(d) == turns + 1 + Cardinality(Devices)

\* setE2E, with another password than before.
SetE2E(d, p) ==
  /\ ~calm /\ turns < MaxTurns /\ p # e2e[d].pw
  /\ turns' = turns + 1
  /\ e2e' = [e2e EXCEPT ![d] = [pw |-> p, salt |-> FreshSalt(d), turn |-> turns + 1 + Cardinality(Devices)]]
  /\ UNCHANGED <<live, older, chosen, saved, page, call, calm, steady, ghost>>

Environment ==
  \/ \E d \in Devices : Join(d) \/ Leave(d)
  \/ \E d \in Devices, p \in Used \cup {None} : SetE2E(d, p)

-----------------------------------------------------------------------------
(* The page.                                                               *)

ReadSaved(d) == IF saved[d] # None THEN saved[d] ELSE saved[Legacy]
WriteSaved(d, p) == saved' = [saved EXCEPT ![d] = p, ![Legacy] = None]

\* The page is as its device's password and the cookie want it.
Works ==
  /\ page.home # None /\ Routed(chosen) = page.home
  /\ LET e == e2e[page.home] IN
       \/ page.at = "plain" /\ e.pw = None
       \/ page.at = "open" /\ e.pw # None /\ page.key = [pw |-> e.pw, salt |-> e.salt]

Asking == page.at = "gate" /\ page.try = None /\ call = NoCall

\* The user opens or reloads the page.  Bounded by patience: when all else rests, only
\* a page that does not work, or a gate that asks.
Load ==
  /\ calm => \/ Asking \/ page.at \in {"none", "offline"}
             \/ page.at \in {"plain", "open"} /\ ~Works
  /\ LET d == Served(chosen) IN
       page' = IF d = None THEN [NoPage EXCEPT !.at = IF Picking(chosen) THEN "picker" ELSE "offline"]
               ELSE [NoPage EXCEPT !.at   = IF e2e[d].pw = None THEN "plain" ELSE "gate",
                                   !.home = d, !.salt = e2e[d].salt, !.turn = e2e[d].turn,
                                   !.try  = IF e2e[d].pw = None THEN None ELSE ReadSaved(d)]
  /\ call' = NoCall /\ steady' = TRUE
  /\ UNCHANGED <<world, chosen, saved, calm, ghost>>

Choose(d) ==
  /\ chosen' = d
  /\ steady' = (steady /\ page.home \in {None, d})

\* handleSelect: from the picker, which sends the browser home.
Pick(d) ==
  /\ page.at = "picker" /\ (calm => d \in live)
  /\ Choose(d) /\ page' = NoPage
  /\ UNCHANGED <<world, saved, call, calm, ghost>>

\* From the switcher; its page is reloaded after.
Switch(d) ==
  /\ ~calm /\ page.at \in {"plain", "open"} /\ d # (IF chosen # None THEN chosen ELSE page.home)
  /\ Choose(d)
  /\ UNCHANGED <<world, saved, page, call, calm, ghost>>

\* What the browser's other pages do with what they share.
OtherPage ==
  /\ ~calm
  /\ \/ \E d \in Devices : Choose(d) /\ UNCHANGED saved
     \/ \E d \in Devices, p \in Passwords \cup {None} : WriteSaved(d, p) /\ UNCHANGED <<chosen, steady>>
  /\ UNCHANGED <<world, page, call, calm, ghost>>

\* The user submits the gate's form.
Type(p) ==
  /\ Asking
  /\ page' = [page EXCEPT !.try = p, !.typed = TRUE]
  /\ UNCHANGED <<world, chosen, saved, call, calm, steady, ghost>>

\* attempt: a sealed probe.
Probe ==
  /\ page.at = "gate" /\ page.try # None /\ call = NoCall
  /\ call' = [kind |-> "probe", body |-> TRUE, key |-> [pw |-> page.try, salt |-> page.salt], chosen |-> chosen]
  /\ UNCHANGED <<world, chosen, saved, page, calm, steady, ghost>>

\* The app's own calls wait for the key, if there is one to wait for.
Fetch ==
  /\ page.at \in {"plain", "open"} /\ call = NoCall
  /\ \E b \in BOOLEAN : call' = [kind |-> "app", body |-> b, key |-> page.key, chosen |-> chosen]
  /\ UNCHANGED <<world, chosen, saved, page, calm, steady, ghost>>

-----------------------------------------------------------------------------
(* The answers.                                                            *)

Accepted ==
  /\ page' = [page EXCEPT !.at = "open", !.key = call.key, !.try = None, !.typed = FALSE]
  /\ IF page.typed THEN \E keep \in BOOLEAN : WriteSaved(page.home, IF keep THEN page.try ELSE None)
     ELSE WriteSaved(page.home, page.try)

Refused ==
  /\ page' = [page EXCEPT !.try = None, !.typed = FALSE]
  /\ IF page.typed THEN UNCHANGED saved ELSE WriteSaved(page.home, None)

\* What becomes of the page: a probe was answered, with a 400 or not.
OnAnything(is400) == IF call.kind = "probe" THEN Accepted ELSE UNCHANGED <<page, saved>> \* mutant
OnAnswer(is400)   == IF call.kind # "probe" THEN UNCHANGED <<page, saved>>
                     ELSE IF is400 THEN Refused ELSE Accepted

Marked    == call.key # NoKey
Opens(d)  == call.key = [pw |-> e2e[d].pw, salt |-> e2e[d].salt]

\* What the device lets through to its dsh: with E2E on, what is marked and opens, or
\* has nothing to open; with E2E off, everything, but a sealed body means nothing to dsh.
Passes(d) == IF e2e[d].pw = None THEN ~(Marked /\ call.body) ELSE Marked /\ (call.body => Opens(d))

\* A device has the call.  What it or its dsh refuses it answers 400, or 428; dsh may
\* answer a sealed body with anything.
Reach(d) ==
  /\ d = Routed(call.chosen)
  /\ IF e2e[d].pw = None THEN \E is400 \in BOOLEAN : OnAnswer(is400) ELSE OnAnswer(~Passes(d))
  /\ foreign' = (foreign \/ /\ call.body /\ Marked /\ Passes(d)
                            /\ ~(d = page.home /\ e2e[d].turn = page.turn))
  /\ astray' = (astray \/ (steady /\ d # page.home))
  /\ call' = NoCall
  /\ UNCHANGED <<world, chosen, calm, steady>>

\* The relay answers itself: no device, a session that ended (the login page), a stream
\* it gave up.  None of these is a 400.
RelayAnswers ==
  /\ Routed(call.chosen) = None \/ ~calm
  /\ OnAnswer(FALSE)
  /\ call' = NoCall
  /\ UNCHANGED <<world, chosen, calm, steady, ghost>>

\* There is no answer, or one that does not open.
NoAnswer ==
  /\ ~calm
  /\ IF call.kind = "probe" THEN Refused ELSE UNCHANGED <<page, saved>>
  /\ call' = NoCall
  /\ UNCHANGED <<world, chosen, calm, steady, ghost>>

Answer == call # NoCall /\ ((\E d \in Devices : Reach(d)) \/ RelayAnswers \/ NoAnswer)

Rest ==
  /\ ~calm /\ live # {} /\ calm' = TRUE
  /\ UNCHANGED <<world, chosen, saved, page, call, steady, ghost>>

-----------------------------------------------------------------------------
Init ==
  /\ live = {} /\ older = [d \in Devices |-> {}] /\ turns = 0 /\ chosen = None
  /\ \E p \in Given :
       e2e = [d \in Devices |-> [pw |-> p[d], salt |-> FirstSalt[d], turn |-> FirstSalt[d]]]
  /\ saved \in [Devices \cup {Legacy} -> Passwords \cup {None}]
  /\ \A d \in Devices : saved[d] = None
  /\ page = NoPage /\ call = NoCall
  /\ calm = FALSE /\ steady = TRUE /\ foreign = FALSE /\ astray = FALSE

Next ==
  \/ Environment \/ Rest
  \/ Load \/ OtherPage \/ Probe \/ Fetch \/ Answer
  \/ \E d \in Devices : Pick(d) \/ Switch(d)
  \/ \E p \in Passwords : Type(p)

Spec == Init /\ [][Next]_vars

\* The user types the password of the device the page is of, sooner or later.
TypeRight == page.home # None /\ e2e[page.home].pw # None /\ Type(e2e[page.home].pw)

Fairness ==
  /\ WF_vars(Probe) /\ WF_vars(Answer)
  /\ SF_vars(Load) /\ SF_vars(TypeRight)
  /\ WF_vars(\E d \in Devices : Pick(d))

FairSpec == Spec /\ Fairness

-----------------------------------------------------------------------------
(* A call whose body is sealed takes effect on the device that served the  *)
(* page, under the password it was sealed for, or nowhere: not on another  *)
(* device the cookie or the relay sends it to, and not after the password  *)
(* was changed, though it be changed back.                                 *)
NoForeignEffect == ~foreign

(* As long as the browser chooses no other device and the page's own stays *)
(* connected, the page's calls go to the device that served it, whoever    *)
(* else joins (resolveDevice: "an open session never breaks the moment     *)
(* another machine binds the same subdomain").                             *)
CallsComeHome == ~astray

(* Whatever was remembered, accepted by mistake or changed meanwhile: once *)
(* the devices and the other pages rest, a user who knows the password and *)
(* reloads a page that does not work gets one that does.                   *)
EventuallyUnlocked == calm ~> Works
=============================================================================
