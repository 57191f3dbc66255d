-------------------------- MODULE BrowserPageProofs --------------------------
(***************************************************************************)
(* Theorems about a page and its calls, for any number of devices and      *)
(* passwords.                                                              *)
(***************************************************************************)
EXTENDS BrowserPage, FiniteSetTheorems, TLAPS

-----------------------------------------------------------------------------
(* The connected devices stand in one line: of two, one came first.          *)
Lined ==
  /\ \A d \in Devices : older[d] \subseteq live
  /\ \A c, d \in live : c # d => (c \in older[d] <=> d \notin older[c])
  /\ \A d \in live : d \notin older[d]

(* Salts are never used twice, so the page's names its device and the      *)
(* setting of the password it was served under.                            *)
Salted ==
  /\ \A d \in Devices : e2e[d].salt <= turns + Cardinality(Devices)
  /\ \A c, d \in Devices : e2e[c].salt = e2e[d].salt => c = d
  /\ page.salt <= turns + Cardinality(Devices)
  /\ page.home # None => \A d \in Devices :
       page.salt = e2e[d].salt => d = page.home /\ page.turn = e2e[d].turn

(* The page's keys are made with its salt.                                 *)
Keyed ==
  /\ page.at \in {"none", "offline", "picker"} <=> page.home = None
  /\ page.at = "plain" => page.key = NoKey
  /\ page.key # NoKey => page.key.salt = page.salt
  /\ call # NoCall => call.kind # "none" /\ page.home # None
  /\ call.key # NoKey => call.key.salt = page.salt
  /\ call.kind = "probe" => page.at = "gate" /\ page.try # None
  /\ page.at = "gate" => page.key = NoKey

(* A steady page: what its browser chose, if anything, is its device, which *)
(* is connected, and when nothing is chosen it is the oldest.              *)
Settled ==
  steady /\ page.home # None =>
    /\ chosen \in {None, page.home} /\ page.home \in live
    /\ call.chosen \in {None, page.home}
    /\ chosen = None \/ (call # NoCall /\ call.chosen = None) => older[page.home] = {}

IInv == TypeOK /\ Lined /\ Salted /\ Keyed /\ Settled /\ NoForeignEffect /\ CallsComeHome

Pages == [at : {"none", "offline", "picker", "plain", "gate", "open"}, home : Devices \cup {None},
          salt : Salts, turn : Salts, key : SaltKeys, try : Passwords \cup {None}, typed : BOOLEAN]
Calls == [kind : {"none", "probe", "app"}, body : BOOLEAN, key : SaltKeys, chosen : Devices \cup {None}]

LEMMA Types ==
  ASSUME TypeOK
  PROVE  /\ page \in Pages /\ call \in Calls /\ NoPage \in Pages /\ NoCall \in Calls /\ NoKey \in SaltKeys
         /\ live \in SUBSET Devices /\ older \in [Devices -> SUBSET Devices]
         /\ Cardinality(Devices) \in Nat /\ turns \in 0..MaxTurns /\ MaxTurns \in Nat
         /\ None \notin Devices /\ None \notin Passwords
<1>1. Cardinality(Devices) \in Nat
  BY PageAssumption, FS_CardinalityType
<1>2. 0 \in Salts
  BY <1>1, PageAssumption DEF Salts
<1>3. NoKey \in SaltKeys
  BY <1>2 DEF NoKey, SaltKeys
<1> QED BY <1>1, <1>2, <1>3, PageAssumption DEF TypeOK, Pages, Calls, NoPage, NoCall

LEMMA InitInv == Init => IInv
<1> SUFFICES ASSUME Init PROVE IInv
  OBVIOUS
<1>1. Cardinality(Devices) \in Nat /\ MaxTurns \in Nat
  BY PageAssumption, FS_CardinalityType
<1>2. 0 \in Salts /\ \A d \in Devices : FirstSalt[d] \in Salts /\ FirstSalt[d] \in 1..Cardinality(Devices)
  BY <1>1, PageAssumption DEF Salts
<1>3. PICK p \in Given : e2e = [d \in Devices |-> [pw |-> p[d], salt |-> FirstSalt[d], turn |-> FirstSalt[d]]]
  BY DEF Init
<1>4. p \in [Devices -> Passwords \cup {None}]
  BY PageAssumption
<1>5. e2e \in [Devices -> [pw : Passwords \cup {None}, salt : Salts, turn : Salts]]
  BY <1>2, <1>3, <1>4
<1>6. NoPage \in Pages /\ NoCall \in Calls
  BY <1>2 DEF NoPage, NoCall, NoKey, Pages, Calls, SaltKeys
<1>7. TypeOK
  <2>1. live \in SUBSET Devices /\ older \in [Devices -> SUBSET Devices] /\ turns \in 0..MaxTurns
    BY <1>1 DEF Init
  <2>2. saved \in [Devices \cup {Legacy} -> Passwords \cup {None}] /\ chosen \in Devices \cup {None}
    BY DEF Init
  <2>3. page \in Pages /\ call \in Calls
    BY <1>6 DEF Init
  <2>4. calm \in BOOLEAN /\ steady \in BOOLEAN /\ foreign \in BOOLEAN /\ astray \in BOOLEAN
    BY DEF Init
  <2> QED BY <1>5, <2>1, <2>2, <2>3, <2>4 DEF TypeOK, Pages, Calls
<1>8. Lined
  BY DEF Init, Lined
<1>9. Salted
  <2>1. turns = 0 /\ page.salt = 0 /\ page.home = None
    BY DEF Init, NoPage
  <2>2. \A d \in Devices : e2e[d].salt = FirstSalt[d]
    BY <1>3
  <2> QED BY <1>1, <1>2, <2>1, <2>2, PageAssumption DEF Salted
<1>10. Keyed
  BY DEF Init, Keyed, NoPage, NoCall, NoKey
<1>11. Settled
  BY DEF Init, Settled, NoPage
<1> QED BY <1>7, <1>8, <1>9, <1>10, <1>11 DEF IInv, Init, NoForeignEffect, CallsComeHome

-----------------------------------------------------------------------------
(* The world.                                                              *)

LEMMA JoinInv ==
  ASSUME IInv, NEW d \in Devices, Join(d)
  PROVE  IInv'
<1>1. /\ e2e' = e2e /\ turns' = turns /\ chosen' = chosen /\ saved' = saved /\ page' = page
      /\ call' = call /\ calm' = calm /\ foreign' = foreign /\ astray' = astray
      /\ live' = live \cup {d} /\ older' = [Vacate(d) EXCEPT ![d] = live \ {d}]
      /\ steady' = (steady /\ ~(page.home = d /\ d \in live))
  BY DEF Join, ghost
<1>2. /\ TypeOK /\ Lined /\ Salted /\ Keyed /\ Settled /\ live \in SUBSET Devices
      /\ older \in [Devices -> SUBSET Devices]
  BY DEF IInv, TypeOK
<1>3. /\ older' \in [Devices -> SUBSET Devices] /\ older'[d] = live \ {d}
      /\ \A c \in Devices \ {d} : older'[c] = older[c] \ {d}
  BY <1>1, <1>2 DEF Vacate
<1>4. steady' \in BOOLEAN
  BY <1>1, <1>2 DEF TypeOK
<1>5. TypeOK'
  BY <1>1, <1>2, <1>3, <1>4 DEF TypeOK
<1>6. Lined'
  BY <1>1, <1>2, <1>3 DEF Lined
<1>7. Salted' /\ Keyed'
  BY <1>1, <1>2 DEF Salted, Keyed
<1>8. Settled'
  <2> SUFFICES ASSUME steady', page.home # None PROVE Settled'
    BY <1>1 DEF Settled
  <2>1. /\ steady /\ chosen \in {None, page.home} /\ page.home \in live /\ call.chosen \in {None, page.home}
        /\ chosen = None \/ (call # NoCall /\ call.chosen = None) => older[page.home] = {}
    BY <1>1, <1>2 DEF Settled
  <2>2. page.home \in Devices \ {d} /\ page.home \in live'
    BY <1>1, <1>2, <2>1
  <2>3. older[page.home] = {} => older'[page.home] = {}
    BY <1>3, <2>2
  <2> QED BY <1>1, <2>1, <2>2, <2>3 DEF Settled
<1> QED BY <1>1, <1>5, <1>6, <1>7, <1>8 DEF IInv, NoForeignEffect, CallsComeHome

LEMMA LeaveInv ==
  ASSUME IInv, NEW d \in Devices, Leave(d)
  PROVE  IInv'
<1>1. /\ e2e' = e2e /\ turns' = turns /\ chosen' = chosen /\ saved' = saved /\ page' = page
      /\ call' = call /\ calm' = calm /\ foreign' = foreign /\ astray' = astray
      /\ live' = live \ {d} /\ older' = [Vacate(d) EXCEPT ![d] = {}]
      /\ steady' = (steady /\ page.home # d)
  BY DEF Leave, ghost
<1>2. /\ TypeOK /\ Lined /\ Salted /\ Keyed /\ Settled /\ live \in SUBSET Devices
      /\ older \in [Devices -> SUBSET Devices]
  BY DEF IInv, TypeOK
<1>3. /\ older' \in [Devices -> SUBSET Devices] /\ older'[d] = {}
      /\ \A c \in Devices \ {d} : older'[c] = older[c] \ {d}
  BY <1>1, <1>2 DEF Vacate
<1>4. steady' \in BOOLEAN
  BY <1>1, <1>2 DEF TypeOK
<1>5. TypeOK'
  BY <1>1, <1>2, <1>3, <1>4 DEF TypeOK
<1>6. Lined'
  BY <1>1, <1>2, <1>3 DEF Lined
<1>7. Salted' /\ Keyed'
  BY <1>1, <1>2 DEF Salted, Keyed
<1>8. Settled'
  <2> SUFFICES ASSUME steady', page.home # None PROVE Settled'
    BY <1>1 DEF Settled
  <2>1. /\ steady /\ chosen \in {None, page.home} /\ page.home \in live /\ call.chosen \in {None, page.home}
        /\ chosen = None \/ (call # NoCall /\ call.chosen = None) => older[page.home] = {}
    BY <1>1, <1>2 DEF Settled
  <2>2. page.home \in Devices \ {d} /\ page.home \in live'
    BY <1>1, <1>2, <2>1
  <2>3. older[page.home] = {} => older'[page.home] = {}
    BY <1>3, <2>2
  <2> QED BY <1>1, <2>1, <2>2, <2>3 DEF Settled
<1> QED BY <1>1, <1>5, <1>6, <1>7, <1>8 DEF IInv, NoForeignEffect, CallsComeHome

LEMMA SetE2EInv ==
  ASSUME IInv, NEW d \in Devices, NEW p \in Used \cup {None}, SetE2E(d, p)
  PROVE  IInv'
<1> DEFINE s == turns + 1 + Cardinality(Devices)
<1>1. /\ live' = live /\ older' = older /\ chosen' = chosen /\ saved' = saved /\ page' = page
      /\ call' = call /\ calm' = calm /\ steady' = steady /\ foreign' = foreign /\ astray' = astray
      /\ turns' = turns + 1 /\ turns < MaxTurns
      /\ e2e' = [e2e EXCEPT ![d] = [pw |-> p, salt |-> s, turn |-> s]]
  BY DEF SetE2E, ghost, FreshSalt
<1>2. TypeOK /\ Lined /\ Salted /\ Keyed /\ Settled
  BY DEF IInv
<1>3. Cardinality(Devices) \in Nat /\ turns \in 0..MaxTurns /\ MaxTurns \in Nat
  BY <1>2, Types
<1>4. s \in Salts /\ turns' \in 0..MaxTurns /\ s = turns' + Cardinality(Devices) /\ s > turns + Cardinality(Devices)
  BY <1>1, <1>3 DEF Salts
<1>5. page.salt \in Nat /\ \A c \in Devices : e2e[c].salt \in Nat
  BY <1>2 DEF TypeOK, Salts
<1> HIDE DEF s
<1>6. p \in Passwords \cup {None}
  BY PageAssumption
<1>7. /\ e2e' \in [Devices -> [pw : Passwords \cup {None}, salt : Salts, turn : Salts]]
      /\ e2e'[d].salt = s /\ \A c \in Devices \ {d} : e2e'[c] = e2e[c]
  BY <1>1, <1>2, <1>4, <1>6 DEF TypeOK
<1>8. TypeOK'
  BY <1>1, <1>2, <1>4, <1>7 DEF TypeOK
<1>9. Salted'
  <2>1. \A c \in Devices : e2e'[c].salt <= turns' + Cardinality(Devices)
    BY <1>1, <1>2, <1>3, <1>4, <1>5, <1>7 DEF Salted
  <2>2. \A c, e \in Devices : e2e'[c].salt = e2e'[e].salt => c = e
    BY <1>2, <1>3, <1>4, <1>5, <1>7 DEF Salted
  <2>3. page.salt <= turns' + Cardinality(Devices) /\ page.salt # s
    BY <1>1, <1>2, <1>3, <1>4, <1>5 DEF Salted
  <2>4. page.home # None => \A c \in Devices :
          page.salt = e2e'[c].salt => c = page.home /\ page.turn = e2e'[c].turn
    BY <1>2, <1>7, <2>3 DEF Salted
  <2> QED BY <1>1, <2>1, <2>2, <2>3, <2>4 DEF Salted
<1>10. Lined' /\ Keyed' /\ Settled'
  BY <1>1, <1>2 DEF Lined, Keyed, Settled
<1> QED BY <1>1, <1>8, <1>9, <1>10 DEF IInv, NoForeignEffect, CallsComeHome

LEMMA RestInv ==
  ASSUME IInv, Rest
  PROVE  IInv'
BY DEF Rest, world, ghost, IInv, TypeOK, Lined, Salted, Keyed, Settled, NoForeignEffect, CallsComeHome

-----------------------------------------------------------------------------
(* The page.                                                               *)

LEMMA LoadInv ==
  ASSUME IInv, Load
  PROVE  IInv'
<1> DEFINE d == Served(chosen)
<1>1. /\ live' = live /\ older' = older /\ e2e' = e2e /\ turns' = turns /\ chosen' = chosen /\ saved' = saved
      /\ calm' = calm /\ foreign' = foreign /\ astray' = astray /\ call' = NoCall /\ steady' = TRUE
  BY DEF Load, world, ghost
<1>2. TypeOK /\ Lined /\ Salted
  BY DEF IInv
<1>3. d # None => d \in live /\ chosen \in {None, d} /\ (chosen = None => older[d] = {})
  <2>1. CASE chosen # None
    BY <2>1 DEF Served, Routed
  <2>2. CASE chosen = None /\ d # None
    <3>1. ~(\E x, y \in live : x # y) /\ live # {} /\ d = Oldest
      BY <2>2 DEF Served, Routed
    <3>2. PICK x \in live : TRUE
      BY <3>1
    <3>3. live = {x} /\ x \in Devices
      BY <1>2, <3>1, <3>2 DEF TypeOK
    <3>4. older[x] = {}
      BY <1>2, <3>3 DEF Lined
    <3>5. d \in live /\ older[d] = {}
      BY <3>1, <3>3, <3>4 DEF Oldest
    <3> QED BY <2>2, <3>5
  <2> QED BY <2>1, <2>2
<1>4. CASE d = None
  <2>1. page' = [NoPage EXCEPT !.at = IF Picking(chosen) THEN "picker" ELSE "offline"]
    BY <1>4 DEF Load
  <2>2. /\ page' \in Pages /\ page'.home = None /\ page'.salt = 0 /\ page'.key = NoKey
        /\ page'.at \in {"offline", "picker"}
    BY <1>2, <2>1, Types DEF NoPage, Pages
  <2>3. TypeOK'
    BY <1>1, <1>2, <2>2, Types DEF TypeOK, Pages, Calls
  <2>4. Salted'
    BY <1>1, <1>2, <2>2, Types DEF Salted
  <2>5. Keyed' /\ Settled' /\ Lined'
    BY <1>1, <1>2, <2>2 DEF Keyed, Settled, Lined, NoCall
  <2> QED BY <1>1, <2>3, <2>4, <2>5 DEF IInv, NoForeignEffect, CallsComeHome
<1>5. CASE d # None
  <2>1. page' = [NoPage EXCEPT !.at   = IF e2e[d].pw = None THEN "plain" ELSE "gate",
                                !.home = d, !.salt = e2e[d].salt, !.turn = e2e[d].turn,
                                !.try  = IF e2e[d].pw = None THEN None ELSE ReadSaved(d)]
    BY <1>5 DEF Load
  <2>2. d \in Devices /\ e2e[d].salt \in Salts /\ e2e[d].turn \in Salts
    BY <1>2, <1>3, <1>5 DEF TypeOK
  <2>3. ReadSaved(d) \in Passwords \cup {None}
    BY <1>2, <2>2 DEF ReadSaved, TypeOK
  <2> HIDE DEF d
  <2>4. /\ page' \in Pages /\ page'.home = d /\ page'.salt = e2e[d].salt /\ page'.turn = e2e[d].turn
        /\ page'.key = NoKey /\ page'.at \in {"plain", "gate"}
    BY <1>2, <2>1, <2>2, <2>3, Types DEF NoPage, Pages
  <2>5. TypeOK'
    BY <1>1, <1>2, <2>4, Types DEF TypeOK, Pages, Calls
  <2>6. Salted'
    BY <1>1, <1>2, <2>2, <2>4 DEF Salted
  <2>7. Keyed'
    BY <1>1, <1>2, <2>2, <2>4, Types DEF Keyed, NoCall
  <2>8. Settled' /\ Lined'
    BY <1>1, <1>2, <1>3, <1>5, <2>4 DEF Settled, Lined, NoCall
  <2> QED BY <1>1, <2>5, <2>6, <2>7, <2>8 DEF IInv, NoForeignEffect, CallsComeHome
<1> QED BY <1>4, <1>5

\* A choice that is not the page's device ends its steadiness.
LEMMA ChooseInv ==
  ASSUME IInv, NEW d \in Devices, Choose(d), UNCHANGED <<world, page, call, calm, ghost>>,
         saved' \in [Devices \cup {Legacy} -> Passwords \cup {None}]
  PROVE  IInv'
BY Types DEF Choose, world, ghost, IInv, TypeOK, Lined, Salted, Keyed, Settled, NoForeignEffect, CallsComeHome

LEMMA PickInv ==
  ASSUME IInv, NEW d \in Devices, Pick(d)
  PROVE  IInv'
<1>1. /\ live' = live /\ older' = older /\ e2e' = e2e /\ turns' = turns /\ chosen' = d /\ saved' = saved
      /\ call' = call /\ calm' = calm /\ foreign' = foreign /\ astray' = astray /\ page' = NoPage
      /\ steady' \in BOOLEAN /\ page.at = "picker"
  BY DEF Pick, Choose, world, ghost, IInv, TypeOK
<1>2. TypeOK /\ Lined /\ Salted /\ Keyed
  BY DEF IInv
<1>3. call = NoCall
  BY <1>1, <1>2 DEF Keyed
<1>4. TypeOK'
  BY <1>1, <1>2, Types DEF TypeOK, Pages
<1>5. Salted'
  BY <1>1, <1>2, Types DEF Salted, NoPage
<1>6. Lined' /\ Keyed' /\ Settled'
  BY <1>1, <1>2, <1>3 DEF Lined, Keyed, Settled, NoPage, NoCall
<1> QED BY <1>1, <1>4, <1>5, <1>6 DEF IInv, NoForeignEffect, CallsComeHome

LEMMA OtherPageInv ==
  ASSUME IInv, OtherPage
  PROVE  IInv'
<1>1. CASE \E d \in Devices : Choose(d) /\ UNCHANGED saved
  BY <1>1, ChooseInv DEF OtherPage, IInv, TypeOK
<1>2. CASE \E d \in Devices, p \in Passwords \cup {None} : WriteSaved(d, p) /\ UNCHANGED <<chosen, steady>>
  <2>1. saved' \in [Devices \cup {Legacy} -> Passwords \cup {None}]
    BY <1>2 DEF WriteSaved, IInv, TypeOK
  <2> QED BY <1>2, <2>1 DEF OtherPage, world, ghost, IInv, TypeOK, Lined, Salted, Keyed, Settled,
                          NoForeignEffect, CallsComeHome
<1> QED BY <1>1, <1>2 DEF OtherPage

LEMMA TypeInv ==
  ASSUME IInv, NEW p \in Passwords, Type(p)
  PROVE  IInv'
<1>1. /\ page' = [page EXCEPT !.try = p, !.typed = TRUE] /\ page.at = "gate" /\ call = NoCall
      /\ UNCHANGED <<live, older, e2e, turns, chosen, saved, call, calm, steady, foreign, astray>>
  BY DEF Type, Asking, world, ghost
<1>2. TypeOK /\ Lined /\ Salted /\ Keyed /\ Settled
  BY DEF IInv
<1>3. /\ page' \in Pages /\ page'.at = page.at /\ page'.home = page.home /\ page'.salt = page.salt
      /\ page'.turn = page.turn /\ page'.key = page.key
  BY <1>1, <1>2, Types DEF Pages
<1>4. TypeOK'
  BY <1>1, <1>2, <1>3 DEF TypeOK, Pages
<1>5. Lined' /\ Salted' /\ Keyed' /\ Settled'
  BY <1>1, <1>2, <1>3 DEF Lined, Salted, Keyed, Settled, NoCall
<1> QED BY <1>1, <1>4, <1>5 DEF IInv, NoForeignEffect, CallsComeHome

\* Whatever the page sends carries its salt and the browser's choice.
LEMMA SendInv ==
  ASSUME IInv, call = NoCall, page.home # None, call' \in Calls, call'.chosen = chosen, call'.kind # "none",
         call'.key # NoKey => call'.key.salt = page.salt,
         call'.kind = "probe" => page.at = "gate" /\ page.try # None,
         UNCHANGED <<world, chosen, saved, page, calm, steady, ghost>>
  PROVE  IInv'
<1>1. TypeOK /\ Lined /\ Salted /\ Keyed /\ Settled
  BY DEF IInv
<1>2. TypeOK' /\ Lined' /\ Salted'
  BY <1>1 DEF world, ghost, TypeOK, Calls, Lined, Salted
<1>3. Keyed' /\ Settled'
  BY <1>1 DEF world, Keyed, Settled
<1> QED BY <1>2, <1>3 DEF ghost, IInv, NoForeignEffect, CallsComeHome

LEMMA ProbeInv ==
  ASSUME IInv, Probe
  PROVE  IInv'
<1>1. TypeOK /\ Keyed
  BY DEF IInv
<1>2. call' = [kind |-> "probe", body |-> TRUE, key |-> [pw |-> page.try, salt |-> page.salt], chosen |-> chosen]
  BY DEF Probe
<1>3. [pw |-> page.try, salt |-> page.salt] \in SaltKeys
  BY <1>1, Types DEF SaltKeys, Pages
<1>4. call' \in Calls
  BY <1>1, <1>2, <1>3 DEF Calls, TypeOK
<1>5. page.home # None
  BY <1>1 DEF Probe, Keyed
<1> QED BY <1>2, <1>4, <1>5, SendInv DEF Probe

LEMMA FetchInv ==
  ASSUME IInv, Fetch
  PROVE  IInv'
<1>1. TypeOK /\ Keyed
  BY DEF IInv
<1>2. PICK b \in BOOLEAN : call' = [kind |-> "app", body |-> b, key |-> page.key, chosen |-> chosen]
  BY DEF Fetch
<1>3. call' \in Calls
  BY <1>1, <1>2, Types DEF Calls, Pages, TypeOK
<1>4. page.home # None /\ (page.key # NoKey => page.key.salt = page.salt)
  BY <1>1 DEF Fetch, Keyed
<1> QED BY <1>2, <1>3, <1>4, SendInv DEF Fetch

-----------------------------------------------------------------------------
(* The answers.                                                            *)

\* Whatever the verdict, the page stays its device's.
LEMMA VerdictType ==
  ASSUME IInv, call # NoCall, Accepted \/ Refused \/ UNCHANGED <<page, saved>>,
         call.kind # "probe" => UNCHANGED <<page, saved>>
  PROVE  /\ page' \in Pages /\ saved' \in [Devices \cup {Legacy} -> Passwords \cup {None}]
         /\ page'.home = page.home /\ page'.salt = page.salt /\ page'.turn = page.turn
         /\ page'.home # None /\ page'.at \in {"plain", "gate", "open"}
         /\ page'.at = "plain" => page'.key = NoKey
         /\ page'.at = "gate" => page'.key = NoKey
         /\ page'.key # NoKey => page'.key.salt = page'.salt
<1>1. TypeOK /\ Keyed /\ page \in Pages /\ call \in Calls
  BY Types DEF IInv
<1>2. page.home # None /\ page.at \in {"plain", "gate", "open"}
  BY <1>1 DEF Keyed, Pages
<1>3. CASE UNCHANGED <<page, saved>>
  BY <1>1, <1>2, <1>3 DEF TypeOK, Keyed
<1>4. CASE call.kind = "probe" /\ Accepted
  <2>1. page' = [page EXCEPT !.at = "open", !.key = call.key, !.try = None, !.typed = FALSE]
    BY <1>4 DEF Accepted
  <2>2. page' \in Pages /\ page'.home = page.home /\ page'.salt = page.salt /\ page'.turn = page.turn
        /\ page'.at = "open" /\ page'.key = call.key
    BY <1>1, <2>1 DEF Pages, Calls
  <2>3. saved' \in [Devices \cup {Legacy} -> Passwords \cup {None}]
    BY <1>1, <1>4 DEF Accepted, WriteSaved, TypeOK
  <2> QED BY <1>1, <1>2, <2>2, <2>3 DEF Keyed
<1>5. CASE call.kind = "probe" /\ Refused
  <2>1. page' = [page EXCEPT !.try = None, !.typed = FALSE]
    BY <1>5 DEF Refused
  <2>2. page' \in Pages /\ page'.home = page.home /\ page'.salt = page.salt /\ page'.turn = page.turn
        /\ page'.at = page.at /\ page'.key = page.key
    BY <1>1, <2>1 DEF Pages
  <2>3. saved' \in [Devices \cup {Legacy} -> Passwords \cup {None}]
    BY <1>1, <1>5 DEF Refused, WriteSaved, TypeOK
  <2> QED BY <1>1, <1>2, <2>2, <2>3 DEF Keyed
<1> QED BY <1>3, <1>4, <1>5

LEMMA AnsweredInv ==
  ASSUME IInv, call # NoCall, Accepted \/ Refused \/ UNCHANGED <<page, saved>>,
         call.kind # "probe" => UNCHANGED <<page, saved>>,
         call' = NoCall, UNCHANGED <<world, chosen, calm, steady>>, ~foreign', ~astray',
         foreign' \in BOOLEAN, astray' \in BOOLEAN
  PROVE  IInv'
<1>1. TypeOK /\ Lined /\ Salted /\ Keyed /\ Settled
  BY DEF IInv
<1>2. /\ page' \in Pages /\ saved' \in [Devices \cup {Legacy} -> Passwords \cup {None}]
      /\ page'.home = page.home /\ page'.salt = page.salt /\ page'.turn = page.turn
      /\ page'.home # None /\ page'.at \in {"plain", "gate", "open"}
      /\ page'.at = "plain" => page'.key = NoKey
      /\ page'.at = "gate" => page'.key = NoKey
      /\ page'.key # NoKey => page'.key.salt = page'.salt
  BY VerdictType
<1>3. TypeOK'
  BY <1>1, <1>2, Types DEF world, TypeOK, Pages, Calls
<1>4. Lined' /\ Salted'
  BY <1>1, <1>2 DEF world, Lined, Salted
<1>5. Keyed' /\ Settled'
  BY <1>1, <1>2 DEF world, Keyed, Settled, NoCall
<1> QED BY <1>3, <1>4, <1>5 DEF IInv, NoForeignEffect, CallsComeHome

LEMMA ReachInv ==
  ASSUME IInv, call # NoCall, NEW d \in Devices, Reach(d)
  PROVE  IInv'
<1>1. TypeOK /\ Lined /\ Salted /\ Keyed /\ Settled /\ ~foreign /\ ~astray /\ page.home # None
  BY DEF IInv, Keyed, NoForeignEffect, CallsComeHome
<1>2. d = Routed(call.chosen) /\ d # None
  BY Types, <1>1 DEF Reach
<1>3. ~foreign'
  <2> SUFFICES ASSUME Marked, call.body, Passes(d), ~(d = page.home /\ e2e[d].turn = page.turn) PROVE FALSE
    BY <1>1 DEF Reach
  <2>1. Opens(d)
    BY DEF Passes
  <2>2. call.key.salt = page.salt
    BY <1>1 DEF Marked, Keyed
  <2>3. call.key.salt = e2e[d].salt
    BY <2>1 DEF Opens
  <2> QED BY <1>1, <2>2, <2>3 DEF Salted
<1>4. ~astray'
  <2> SUFFICES ASSUME steady, d # page.home PROVE FALSE
    BY <1>1 DEF Reach
  <2>1. page.home \in live /\ call.chosen \in {None, page.home} /\ (call.chosen = None => older[page.home] = {})
    BY <1>1 DEF Settled
  <2>2. CASE call.chosen # None
    BY <1>2, <2>1, <2>2 DEF Routed
  <2>3. CASE call.chosen = None
    <3>1. d = Oldest
      BY <1>2, <2>1, <2>3 DEF Routed
    <3>2. d \in live /\ older[d] = {}
      BY <2>1, <2>3, <3>1 DEF Oldest
    <3> QED BY <1>1, <2>1, <2>3, <3>2 DEF Lined
  <2> QED BY <2>2, <2>3
<1>5. foreign' \in BOOLEAN /\ astray' \in BOOLEAN
  BY DEF Reach
<1>6. /\ Accepted \/ Refused \/ UNCHANGED <<page, saved>>
      /\ call.kind # "probe" => UNCHANGED <<page, saved>>
  BY DEF Reach, OnAnswer
<1>7. call' = NoCall /\ UNCHANGED <<world, chosen, calm, steady>>
  BY DEF Reach
<1> QED BY <1>3, <1>4, <1>5, <1>6, <1>7, AnsweredInv

LEMMA UnreachedInv ==
  ASSUME IInv, call # NoCall, RelayAnswers \/ NoAnswer
  PROVE  IInv'
<1>1. /\ Accepted \/ Refused \/ UNCHANGED <<page, saved>>
      /\ call.kind # "probe" => UNCHANGED <<page, saved>>
  BY DEF RelayAnswers, NoAnswer, OnAnswer
<1>2. call' = NoCall /\ UNCHANGED <<world, chosen, calm, steady>> /\ UNCHANGED <<foreign, astray>>
  BY DEF RelayAnswers, NoAnswer, ghost
<1>3. ~foreign' /\ ~astray' /\ foreign' \in BOOLEAN /\ astray' \in BOOLEAN
  BY <1>2 DEF IInv, TypeOK, NoForeignEffect, CallsComeHome
<1> QED BY <1>1, <1>2, <1>3, AnsweredInv

LEMMA NextInv == IInv /\ [Next]_vars => IInv'
<1> SUFFICES ASSUME IInv, [Next]_vars PROVE IInv'
  OBVIOUS
<1>1. CASE UNCHANGED vars
  BY <1>1 DEF vars, world, ghost, IInv, TypeOK, Lined, Salted, Keyed, Settled, NoForeignEffect, CallsComeHome
<1>2. CASE Environment
  BY <1>2, JoinInv, LeaveInv, SetE2EInv DEF Environment
<1>3. CASE Answer
  BY <1>3, ReachInv, UnreachedInv DEF Answer
<1>4. CASE \E d \in Devices : Switch(d)
  BY <1>4, ChooseInv DEF Switch, IInv, TypeOK
<1> QED BY <1>1, <1>2, <1>3, <1>4, RestInv, LoadInv, OtherPageInv, ProbeInv, FetchInv, PickInv, TypeInv DEF Next

-----------------------------------------------------------------------------
(* The theorems.                                                           *)

LEMMA PageInvariant == Spec => []IInv
BY InitInv, NextInv, PTL DEF Spec

(* The page, its call and what its browser shares are what the shim makes. *)
THEOREM PageTypeOK == Spec => []TypeOK
<1>1. IInv => TypeOK
  BY DEF IInv
<1> QED BY <1>1, PageInvariant, PTL

(* A sealed body takes effect on the device and under the password it was  *)
(* sealed for, however the browser, the relay and the owners choose.       *)
THEOREM SealedForOne == Spec => []NoForeignEffect
<1>1. IInv => NoForeignEffect
  BY DEF IInv
<1> QED BY <1>1, PageInvariant, PTL

(* Calls of a page reach the device that served it as long as the browser  *)
(* chooses no other and the device stays, whoever joins, leaves or returns. *)
THEOREM PagesAreServedOn == Spec => []CallsComeHome
<1>1. IInv => CallsComeHome
  BY DEF IInv
<1> QED BY <1>1, PageInvariant, PTL
=============================================================================
