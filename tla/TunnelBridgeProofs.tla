------------------------- MODULE TunnelBridgeProofs -------------------------
(***************************************************************************)
(* Theorems about the tunnel that need no assumption, for any number of    *)
(* connections, stream ids, visitors, browser sockets, queue lengths and   *)
(* end-to-end keys: types, and the bridges of the relay.                   *)
(***************************************************************************)
EXTENDS Tunnel, SequenceTheorems, WellFoundedInduction, TLAPS

-----------------------------------------------------------------------------
(* InIdOrder.  It is a recursive function over the ids: what holds of it   *)
(* for every MaxId follows from the least id at which it would not, which  *)
(* the natural numbers being well-founded gives.                           *)

LessThan == {ss \in Nat \X Nat : ss[1] < ss[2]}

LEMMA LeastOf ==
  ASSUME NEW T \in SUBSET Nat, T # {}
  PROVE  \E x \in T : \A y \in T : x <= y
<1>1. IsWellFoundedOn(LessThan, Nat)
  BY NatLessThanWellFounded DEF OpToRel, LessThan
<1>2. \A x, y \in Nat : ~ (<<y, x>> \in LessThan) => x <= y
  BY DEF LessThan
<1>3. \E x \in T : \A y \in T : ~ (<<y, x>> \in LessThan)
  BY <1>1, WFMin
<1>4. PICK x \in T : \A y \in T : ~ (<<y, x>> \in LessThan)
  BY <1>3
<1>5. \A y \in T : x <= y
  BY <1>2, <1>4
<1> QED BY <1>5

Folds(g, s, n) == g = [i \in 0..n |-> IF i = 0 THEN << >> ELSE g[i - 1] \o s[i]]

LEMMA FoldGrows ==
  ASSUME NEW s, NEW n \in Nat, n # 0, NEW g, Folds(g, s, n - 1)
  PROVE  \E h : Folds(h, s, n)
<1> DEFINE h == [i \in 0..n |-> IF i = n THEN g[n - 1] \o s[n] ELSE g[i]]
<1>1. g = [i \in 0..n-1 |-> IF i = 0 THEN << >> ELSE g[i - 1] \o s[i]]
  BY DEF Folds
<1>2. ASSUME NEW i \in 0..n PROVE h[i] = IF i = 0 THEN << >> ELSE h[i - 1] \o s[i]
  <2>1. CASE i = n
    BY <2>1
  <2>2. CASE i = 0
    BY <2>2, <1>1
  <2>3. CASE i # n /\ i # 0
    <3>1. i \in 0..n-1 /\ i - 1 \in 0..n /\ i - 1 # n
      BY <2>3
    <3>2. h[i] = g[i] /\ h[i - 1] = g[i - 1]
      BY <3>1, <2>3
    <3> HIDE DEF h
    <3>3. g[i] = g[i - 1] \o s[i]
      BY <3>1, <1>1, <2>3
    <3> QED BY <3>2, <3>3, <2>3
  <2> QED BY <2>1, <2>2, <2>3
<1>3. Folds(h, s, n)
  BY <1>2, Zenon DEF Folds
<1> QED BY <1>3

LEMMA FoldExists == ASSUME NEW s, NEW m \in Nat PROVE \E g : Folds(g, s, m)
<1> DEFINE Bad == {n \in Nat : ~ \E g : Folds(g, s, n)}
<1>1. SUFFICES ASSUME m \in Bad PROVE FALSE
  OBVIOUS
<1>2. PICK n \in Bad : \A k \in Bad : n <= k
  <2> HIDE DEF Bad
  <2>1. Bad \in SUBSET Nat
    BY DEF Bad
  <2> QED BY <1>1, <2>1, LeastOf
<1>3. n # 0
  <2>1. Folds([i \in 0..0 |-> << >>], s, 0)
    BY DEF Folds
  <2>2. \E g : Folds(g, s, 0)
    BY <2>1
  <2> QED BY <2>2
<1>4. n \in Nat /\ n - 1 \in Nat /\ ~(n <= n - 1)
  BY <1>3
<1>5. n - 1 \notin Bad
  <2> HIDE DEF Bad
  <2> QED BY <1>2, <1>4
<1>6. \E g : Folds(g, s, n - 1)
  BY <1>4, <1>5
<1> QED BY <1>3, <1>4, <1>6, FoldGrows

LEMMA FoldOrder ==
  \A s : \E g : Folds(g, s, MaxId) /\ InIdOrder(s) = g[MaxId]
<1> SUFFICES ASSUME NEW s PROVE \E g : Folds(g, s, MaxId) /\ InIdOrder(s) = g[MaxId]
  OBVIOUS
<1> DEFINE u == CHOOSE g : Folds(g, s, MaxId)
<1>1. InIdOrder(s) = u[MaxId]
  BY DEF InIdOrder, Folds
<1>2. Folds(u, s, MaxId)
  <2>1. MaxId \in Nat
    BY WireAssumption
  <2>2. \E g : Folds(g, s, MaxId)
    BY <2>1, FoldExists
  <2> QED BY <2>2
<1> HIDE DEF u
<1> QED BY <1>1, <1>2

LEMMA FoldType ==
  ASSUME NEW s, NEW F, \A id \in Ids : s[id] \in Seq(F)
  PROVE  InIdOrder(s) \in Seq(F)
<1>0. MaxId \in Nat /\ Ids = 1..MaxId
  BY WireAssumption DEF Ids
<1>1. PICK g : Folds(g, s, MaxId) /\ InIdOrder(s) = g[MaxId]
  BY FoldOrder
<1>2. g = [i \in 0..MaxId |-> IF i = 0 THEN << >> ELSE g[i - 1] \o s[i]]
  BY <1>1 DEF Folds
<1> DEFINE Odd == {n \in 0..MaxId : g[n] \notin Seq(F)}
<1>3. Odd \in SUBSET Nat /\ \A n \in 0..MaxId : n \in Odd <=> g[n] \notin Seq(F)
  BY <1>0
<1> HIDE DEF Odd
<1>4. SUFFICES ASSUME Odd # {} PROVE FALSE
  BY <1>0, <1>1, <1>3
<1>5. PICK n \in Odd : \A m \in Odd : n <= m
  BY <1>3, <1>4, LeastOf
<1>6. n \in 0..MaxId /\ g[n] \notin Seq(F)
  BY <1>3 DEF Odd
<1>7. g[0] = << >>
  BY <1>2, <1>0
<1>12. n # 0
  BY <1>6, <1>7, EmptySeq
<1>8. n - 1 \in 0..MaxId /\ n \in Ids /\ ~(n <= n - 1)
  BY <1>6, <1>12, <1>0
<1>9. g[n - 1] \in Seq(F) /\ s[n] \in Seq(F)
  BY <1>3, <1>5, <1>8
<1>10. g[n] = g[n - 1] \o s[n]
  BY <1>2, <1>6, <1>8, <1>12
<1>11. g[n - 1] \o s[n] \in Seq(F)
  BY <1>9
<1> QED BY <1>6, <1>10, <1>11

-----------------------------------------------------------------------------
(* Type correctness.  What the relay sends names whom it is about: a       *)
(* request's frames a visitor, a socket's a browser.                       *)

DownFrames == {f \in FrameSet : /\ f.t \in {"req_head", "req_end"} => f.who \in Visitors
                                /\ f.t \in {"ws_open", "ws_msg"} => f.who \in Browsers}

DownOK == down \in [Conns -> Seq(DownFrames)]
UpOK   == up \in [Conns -> Seq(FrameSet)]
WireOK == wire \in [Conns -> {"up", "down"}]

TypeInv == DownOK /\ UpOK /\ WireOK /\ RelayTypeOK /\ AgentTypeOK

LEMMA Constants ==
  /\ MaxKey \in Nat /\ 0 \in 0..(MaxKey + 1) /\ Keys \subseteq 0..(MaxKey + 1) /\ Note \in 0..(MaxKey + 1)
  /\ 1 \in Ids /\ Ids \subseteq Nat /\ Conns \subseteq Nat /\ 1 \in Conns /\ NoConn \notin Conns
  /\ MaxConn \in Nat /\ MaxId \in Nat
BY WireAssumption DEF Keys, Note, Ids, Conns, NoConn

LEMMA PostedType ==
  ASSUME NEW F, NEW ch \in [Conns -> Seq(F)], NEW n, NEW fs \in Seq(F)
  PROVE  Posted(ch, n, fs) \in [Conns -> Seq(F)]
<1>1. CASE n \in Conns
  <2>1. ch[n] \o fs \in Seq(F)
    BY <1>1
  <2> QED BY <2>1 DEF Posted
<1>2. CASE n \notin Conns
  BY <1>2 DEF Posted
<1> QED BY <1>1, <1>2

LEMMA FrameType ==
  ASSUME NEW t \in FrameTypes, NEW id \in Ids, NEW who \in Whos \cup {None}, NEW k \in 0..(MaxKey + 1)
  PROVE  /\ Data(t, id, who, k) \in FrameSet /\ Data(t, id, who, k).t = t
         /\ Data(t, id, who, k).who = who /\ Data(t, id, who, k).id = id /\ Data(t, id, who, k).key = k
         /\ Ctl(t, id, who) \in FrameSet /\ Ctl(t, id, who).t = t /\ Ctl(t, id, who).who = who
         /\ Ctl(t, id, who).id = id /\ Ctl(t, id, who).key = 0
BY Constants DEF Data, Ctl, FrameSet

LEMMA CloseType == CloseFrame \in DownFrames /\ CloseFrame \in FrameSet /\ CloseFrame.t = "close"
BY Constants DEF CloseFrame, DownFrames, FrameSet, FrameTypes

LEMMA DownType ==
  ASSUME NEW id \in Ids
  PROVE  /\ \A v \in Visitors : Ctl("req_head", id, v) \in DownFrames /\ Ctl("req_end", id, v) \in DownFrames
         /\ \A b \in Browsers : Ctl("ws_open", id, b) \in DownFrames /\ Data("ws_msg", id, b, 0) \in DownFrames
         /\ \A w \in Whos \cup {None} : Ctl("abort", id, w) \in DownFrames /\ Ctl("ws_close", id, w) \in DownFrames
<1>1. \A t \in FrameTypes, w \in Whos \cup {None} :
        /\ Ctl(t, id, w) \in FrameSet /\ Ctl(t, id, w).t = t /\ Ctl(t, id, w).who = w
        /\ Data(t, id, w, 0) \in FrameSet /\ Data(t, id, w, 0).t = t /\ Data(t, id, w, 0).who = w
  BY FrameType, Constants
<1> QED BY <1>1 DEF DownFrames, FrameTypes, Whos

LEMMA SendType ==
  ASSUME DownOK, NEW n, NEW fs \in Seq(DownFrames), RelaySend(n, fs)
  PROVE  DownOK'
BY PostedType DEF DownOK, RelaySend

LEMMA InitType == Init => TypeInv
<1> SUFFICES ASSUME Init PROVE TypeInv
  OBVIOUS
<1>1. DownOK /\ UpOK /\ WireOK
  BY EmptySeq DEF Init, WireInit, DownOK, UpOK, WireOK
<1>2. RelayTypeOK
  BY Constants, EmptySeq DEF Init, RelayInit, RelayTypeOK, RelayStates, NoPlace, Pending, Ended
<1>3. AgentTypeOK
  <2>1. \E a \in Asks : a.key = 0
    <3>1. PICK k \in Kinds : TRUE
      BY KindsAssumption
    <3>2. [kind |-> k, key |-> 0, bodied |-> FALSE] \in Asks
      BY <3>1, Constants DEF Asks, Keys
    <3> QED BY <3>2
  <2>2. (CHOOSE a \in Asks : a.key = 0) \in Asks
    BY <2>1
  <2>3. ask \in [Visitors -> Asks]
    BY <2>2 DEF Init, AgentInit
  <2>4. 0 \in Keys /\ NoneOpen \in [Ids -> {None}]
    BY Constants DEF Keys, NoneOpen
  <2>5. NoJob \in [st : JobStates, id : Ids, sealed : BOOLEAN] /\ NoLink \in [st : LinkStates, id : Ids, sealed : BOOLEAN]
    BY Constants DEF NoJob, JobStates, AtDsh, Compressing, NoLink, LinkStates
  <2>6. job \in [Visitors -> [st : JobStates, id : Ids, sealed : BOOLEAN]] /\ link \in [Browsers -> [st : LinkStates, id : Ids, sealed : BOOLEAN]]
    BY <2>5, Zenon DEF Init, AgentInit
  <2>7. /\ control = NoConn /\ dialled \in 0..MaxConn /\ asock \in [Conns -> AgentStates]
        /\ e2eKey \in Keys /\ lastKey \in Keys
    BY <2>4, Constants DEF Init, AgentInit, AgentStates
  <2>9. cookie \in CookieStates
    BY DEF Init, AgentInit, CookieStates
  <2>10. crashed \in BOOLEAN
    BY DEF Init, AgentInit
  <2>8. /\ requests \in [Ids -> Visitors \cup {None}] /\ buffered \in [Ids -> Visitors \cup {None}]
        /\ parked \in [Ids -> Visitors \cup {None}] /\ lsocks \in [Ids -> Browsers \cup {None}]
        /\ ended \subseteq Ids
        /\ fed \in [Visitors -> SUBSET Visitors] /\ told \in [Browsers -> SUBSET Browsers]
    BY <2>4 DEF Init, AgentInit
  <2> QED BY <2>3, <2>6, <2>7, <2>8, <2>9, <2>10 DEF AgentTypeOK
<1> QED BY <1>1, <1>2, <1>3 DEF TypeInv

-----------------------------------------------------------------------------
(* The types of the relay's side.                                          *)

Framed == DownOK /\ UpOK /\ WireOK

LEMMA PlaceType ==
  ASSUME RelayTypeOK, NEW w \in Whos
  PROVE  at[w].id \in Ids /\ at[w].conn \in Conns \cup {NoConn}
BY DEF RelayTypeOK

LEMMA WhosAre == Visitors \subseteq Whos /\ Browsers \subseteq Whos /\ None \notin Whos /\ Visitors \cap Browsers = {}
BY WireAssumption DEF Whos

LEMMA NextIdType == ASSUME NEW id \in Ids PROVE AllocNext(id) \in Ids
BY Constants DEF AllocNext, Ids

LEMMA WrittenOffType == \A s : WrittenOff(s) \in Ended
BY DEF WrittenOff, Ended

LEMMA RequestType ==
  ASSUME TypeInv, NEW v \in Visitors, Request(v)
  PROVE  RelayTypeOK' /\ Framed'
<1> USE DEF TypeInv, RelayTypeOK
<1>0. v \in Whos
  BY WhosAre
<1>1. CASE routed = NoConn
  BY <1>1 DEF Request, Framed, DownOK, UpOK, WireOK, Ended
<1>2. CASE routed # NoConn
  <2> DEFINE id == nextId[routed]
  <2>1. routed \in Conns /\ id \in Ids /\ AllocNext(id) \in Ids
    BY <1>2, NextIdType
  <2>2. <<Ctl("req_head", id, v)>> \in Seq(DownFrames) /\ <<Ctl("req_head", id, v), Ctl("req_end", id, v)>> \in Seq(DownFrames)
    <3>1. Ctl("req_head", id, v) \in DownFrames /\ Ctl("req_end", id, v) \in DownFrames
      BY <2>1, DownType
    <3> QED BY <3>1
  <2>3. DownOK'
    <3>1. \E fs \in Seq(DownFrames) : RelaySend(routed, fs)
      BY <1>2, <2>2 DEF Request
    <3> QED BY <3>1, SendType
  <2>4. /\ nextId' = [nextId EXCEPT ![routed] = AllocNext(id)]
        /\ responses' = [responses EXCEPT ![routed][id] = v]
        /\ activity' = [activity EXCEPT ![routed] = @ \cup {id}]
        /\ at' = [at EXCEPT ![v] = [conn |-> routed, id |-> id]]
        /\ pub' = [pub EXCEPT ![v] = "waiting"]
        /\ body' = [body EXCEPT ![v] = IF v \in Uploads THEN "open" ELSE "over"]
        /\ UNCHANGED <<rst, routed, sockets, got, tab, heard, up, wire>>
    BY <1>2 DEF Request, Watch
  <2>5. wrapped' = (wrapped \/ id >= MaxId)
    BY <1>2 DEF Request
  <2>6. wrapped' \in BOOLEAN
    BY <2>5
  <2>7. responses' \in [Conns -> [Ids -> Visitors \cup {None}]] /\ activity' \in [Conns -> SUBSET Ids]
    BY <2>1, <2>4
  <2>8. nextId' \in [Conns -> Ids] /\ at' \in [Whos -> [conn : Conns \cup {NoConn}, id : Ids]]
    BY <2>1, <2>4, <1>0
  <2>9. pub' \in [Visitors -> {"idle"} \cup Pending \cup Ended] /\ body' \in [Visitors -> {"none", "open", "over"}]
    BY <2>4 DEF Pending
  <2> QED BY <2>3, <2>4, <2>6, <2>7, <2>8, <2>9 DEF Framed, UpOK, WireOK
<1> QED BY <1>1, <1>2

LEMMA RequestOverType ==
  ASSUME TypeInv, NEW v \in Visitors, RequestEnd(v) \/ RequestError(v)
  PROVE  RelayTypeOK' /\ Framed'
<1> USE DEF TypeInv
<1>1. at[v].id \in Ids /\ v \in Whos
  BY WhosAre, PlaceType
<1>2. <<Ctl("req_end", at[v].id, v)>> \in Seq(DownFrames) /\ <<Ctl("abort", at[v].id, v)>> \in Seq(DownFrames)
  <2>1. Ctl("req_end", at[v].id, v) \in DownFrames /\ Ctl("abort", at[v].id, v) \in DownFrames
    BY <1>1, DownType
  <2> QED BY <2>1
<1>3. DownOK'
  <2>1. \E fs \in Seq(DownFrames) : RelaySend(at[v].conn, fs)
    BY <1>2 DEF RequestEnd, RequestError
  <2> QED BY <2>1, SendType
<1>4. /\ body' = [body EXCEPT ![v] = "over"]
      /\ UNCHANGED <<rst, routed, nextId, responses, activity, sockets, at, pub, got, tab, heard, wrapped, up, wire>>
  BY DEF RequestEnd, RequestError
<1> QED BY <1>3, <1>4 DEF RelayTypeOK, Framed, UpOK, WireOK

LEMMA ForgetType ==
  ASSUME RelayTypeOK, NEW n, NEW id, Forget(n, id)
  PROVE  responses' \in [Conns -> [Ids -> Visitors \cup {None}]] /\ activity' \in [Conns -> SUBSET Ids]
BY DEF RelayTypeOK, Forget

LEMMA ClientCloseType ==
  ASSUME TypeInv, NEW v \in Visitors, ClientClose(v)
  PROVE  RelayTypeOK' /\ Framed'
<1> USE DEF TypeInv
<1> DEFINE n == at[v].conn  id == at[v].id
<1>1. id \in Ids /\ v \in Whos
  BY WhosAre, PlaceType
<1>2. DownOK'
  <2>1. Ctl("abort", id, v) \in DownFrames
    BY <1>1, DownType
  <2>2. <<Ctl("abort", id, v)>> \in Seq(DownFrames)
    BY <2>1
  <2>3. RelaySend(n, <<Ctl("abort", id, v)>>) \/ UNCHANGED down
    BY DEF ClientClose
  <2> QED BY <2>2, <2>3, SendType DEF DownOK
<1>3. /\ pub' = [pub EXCEPT ![v] = "gone"] /\ body' = [body EXCEPT ![v] = "over"]
      /\ Forget(n, id)
      /\ UNCHANGED <<rst, routed, nextId, sockets, at, got, tab, heard, wrapped, up, wire>>
  BY DEF ClientClose
<1>4. pub' \in [Visitors -> {"idle"} \cup Pending \cup Ended] /\ body' \in [Visitors -> {"none", "open", "over"}]
  BY <1>3 DEF RelayTypeOK, Ended
<1> QED BY <1>2, <1>3, <1>4, ForgetType DEF RelayTypeOK, Framed, UpOK, WireOK

LEMMA IdleTimeoutType ==
  ASSUME TypeInv, NEW n \in Conns, NEW id \in Ids, IdleTimeout(n, id)
  PROVE  RelayTypeOK' /\ Framed'
<1> USE DEF TypeInv
<1> DEFINE r == responses[n][id]
<1>1. DownOK'
  <2>1. Ctl("abort", id, None) \in DownFrames
    BY DownType
  <2>2. <<Ctl("abort", id, None)>> \in Seq(DownFrames)
    BY <2>1
  <2> QED BY <2>2, SendType DEF IdleTimeout
<1>2. /\ pub' = (IF r = None THEN pub ELSE [pub EXCEPT ![r] = WrittenOff(@)])
      /\ Forget(n, id)
      /\ UNCHANGED <<rst, routed, nextId, sockets, at, body, got, tab, heard, wrapped, up, wire>>
  BY DEF IdleTimeout
<1>3. pub' \in [Visitors -> {"idle"} \cup Pending \cup Ended]
  BY <1>2, WrittenOffType DEF RelayTypeOK
<1> QED BY <1>1, <1>2, <1>3, ForgetType DEF RelayTypeOK, Framed, UpOK, WireOK

LEMMA UpgradeType ==
  ASSUME TypeInv, NEW b \in Browsers, Upgrade(b)
  PROVE  RelayTypeOK' /\ Framed'
<1> USE DEF TypeInv, RelayTypeOK
<1>0. b \in Whos
  BY WhosAre
<1>1. CASE routed = NoConn
  BY <1>1 DEF Upgrade, Framed, DownOK, UpOK, WireOK
<1>2. CASE routed # NoConn
  <2> DEFINE id == nextId[routed]
  <2>1. routed \in Conns /\ id \in Ids /\ AllocNext(id) \in Ids
    BY <1>2, NextIdType
  <2>2. Ctl("ws_open", id, b) \in DownFrames
    BY <2>1, DownType
  <2>3. DownOK'
    <3>1. <<Ctl("ws_open", id, b)>> \in Seq(DownFrames)
      BY <2>2
    <3> QED BY <1>2, <3>1, SendType DEF Upgrade
  <2>4. /\ nextId' = [nextId EXCEPT ![routed] = AllocNext(id)]
        /\ sockets' = [sockets EXCEPT ![routed][id] = b]
        /\ at' = [at EXCEPT ![b] = [conn |-> routed, id |-> id]]
        /\ tab' = [tab EXCEPT ![b] = "open"]
        /\ UNCHANGED <<rst, routed, responses, activity, pub, body, got, heard, up, wire>>
    BY <1>2 DEF Upgrade
  <2>5. wrapped' = (wrapped \/ id >= MaxId)
    BY <1>2 DEF Upgrade
  <2>6. wrapped' \in BOOLEAN
    BY <2>5
  <2>7. sockets' \in [Conns -> [Ids -> Browsers \cup {None}]] /\ tab' \in [Browsers -> {"idle", "open", "closed"}]
    BY <2>1, <2>4
  <2>8. nextId' \in [Conns -> Ids] /\ at' \in [Whos -> [conn : Conns \cup {NoConn}, id : Ids]]
    BY <2>1, <2>4, <1>0
  <2> QED BY <2>3, <2>4, <2>6, <2>7, <2>8 DEF Framed, UpOK, WireOK
<1> QED BY <1>1, <1>2

LEMMA BrowserType ==
  ASSUME TypeInv, NEW b \in Browsers, BrowserMessage(b) \/ BrowserClose(b)
  PROVE  RelayTypeOK' /\ Framed'
<1> USE DEF TypeInv
<1>1. at[b].id \in Ids /\ b \in Whos
  BY WhosAre, PlaceType
<1>2. Data("ws_msg", at[b].id, b, 0) \in DownFrames /\ Ctl("ws_close", at[b].id, b) \in DownFrames
  BY <1>1, DownType
<1>3. <<Data("ws_msg", at[b].id, b, 0)>> \in Seq(DownFrames) /\ <<Ctl("ws_close", at[b].id, b)>> \in Seq(DownFrames)
  BY <1>2
<1>4. DownOK'
  <2>1. (\E fs \in Seq(DownFrames) : RelaySend(at[b].conn, fs)) \/ UNCHANGED down
    BY <1>3 DEF BrowserMessage, BrowserClose
  <2> QED BY <2>1, SendType DEF DownOK
<1>5. CASE BrowserMessage(b)
  BY <1>4, <1>5 DEF BrowserMessage, relayVars, RelayTypeOK, Framed, UpOK, WireOK
<1>6. CASE BrowserClose(b)
  <2>1. sockets' = [sockets EXCEPT ![at[b].conn][at[b].id] = None] /\ tab' = [tab EXCEPT ![b] = "closed"]
    BY <1>6 DEF BrowserClose
  <2>2. sockets' \in [Conns -> [Ids -> Browsers \cup {None}]] /\ tab' \in [Browsers -> {"idle", "open", "closed"}]
    BY <2>1 DEF RelayTypeOK
  <2> QED BY <1>4, <1>6, <2>2 DEF BrowserClose, RelayTypeOK, Framed, UpOK, WireOK
<1> QED BY <1>5, <1>6

\* A frame handler touches the tables, the responses and browser sockets, and what it
\* sends back.
PartSet == [part : {"res_head", "res_body", "res_end"}, who : Whos \cup {None}, key : 0..(MaxKey + 1)]
PubSet  == {"idle"} \cup Pending \cup Ended

ResponsesOK == responses \in [Conns -> [Ids -> Visitors \cup {None}]] /\ activity \in [Conns -> SUBSET Ids]
SocketsOK   == sockets \in [Conns -> [Ids -> Browsers \cup {None}]] /\ tab \in [Browsers -> {"idle", "open", "closed"}]
PubOK       == pub \in [Visitors -> PubSet]
GotOK       == got \in [Visitors -> Seq(PartSet)]
HeardOK     == heard \in [Browsers -> SUBSET (Whos \cup {None})]
Bridges     == ResponsesOK /\ SocketsOK /\ PubOK /\ GotOK /\ HeardOK /\ DownOK

LEMMA BridgesType ==
  RelayTypeOK <=> /\ ResponsesOK /\ SocketsOK /\ PubOK /\ GotOK /\ HeardOK
                  /\ rst \in [Conns -> RelayStates]
                  /\ routed \in Conns \cup {NoConn}
                  /\ nextId \in [Conns -> Ids]
                  /\ at \in [Whos -> [conn : Conns \cup {NoConn}, id : Ids]]
                  /\ body \in [Visitors -> {"none", "open", "over"}]
                  /\ wrapped \in BOOLEAN
BY Zenon DEF RelayTypeOK, ResponsesOK, SocketsOK, PubOK, GotOK, HeardOK, PartSet, PubSet

LEMMA MovedType ==
  ASSUME PubOK, NEW r \in Visitors \cup {None}, NEW s \in {"headers", "destroyed", "complete"}
  PROVE  Moved(r, s) \in [Visitors -> PubSet]
BY DEF Moved, PubOK, PubSet, Pending, Ended

LEMMA WroteType ==
  ASSUME GotOK, NEW r \in Visitors \cup {None}, NEW f \in FrameSet, f.t \in {"res_head", "res_body", "res_end"}
  PROVE  Wrote(r, f) \in [Visitors -> Seq(PartSet)]
<1>1. [part |-> f.t, who |-> f.who, key |-> f.key] \in PartSet
  BY DEF FrameSet, PartSet
<1>2. CASE r = None
  BY <1>2 DEF Wrote, GotOK
<1>3. CASE r # None
  <2>1. got[r] \in Seq(PartSet)
    BY <1>3 DEF GotOK
  <2>2. Append(got[r], [part |-> f.t, who |-> f.who, key |-> f.key]) \in Seq(PartSet)
    BY <1>1, <2>1
  <2> QED BY <1>3, <2>2 DEF Wrote, GotOK
<1> QED BY <1>2, <1>3

LEMMA TablesType ==
  ASSUME ResponsesOK, NEW n \in Conns, NEW id \in Ids,
         (UNCHANGED responses /\ Watch(n, id)) \/ Forget(n, id) \/ UNCHANGED <<responses, activity>>
  PROVE  ResponsesOK'
<1>1. responses' \in [Conns -> [Ids -> Visitors \cup {None}]]
  BY DEF ResponsesOK, Watch, Forget
<1>2. activity' \in [Conns -> SUBSET Ids]
  BY DEF ResponsesOK, Watch, Forget
<1> QED BY <1>1, <1>2 DEF ResponsesOK

LEMMA SocketType ==
  ASSUME SocketsOK, NEW n \in Conns, NEW id \in Ids, NEW b \in Browsers \cup {None},
         sockets' \in {sockets, [sockets EXCEPT ![n][id] = None]},
         tab' \in {tab, [tab EXCEPT ![b] = "closed"]}
  PROVE  SocketsOK'
<1>1. sockets' \in [Conns -> [Ids -> Browsers \cup {None}]]
  BY DEF SocketsOK
<1>2. tab' \in [Browsers -> {"idle", "open", "closed"}]
  BY DEF SocketsOK
<1> QED BY <1>1, <1>2 DEF SocketsOK

LEMMA AgentFrameType ==
  ASSUME Bridges, NEW n \in Conns, NEW f \in FrameSet, OnAgentFrame(n, f)
  PROVE  Bridges'
<1> DEFINE r == responses[n][f.id]  b == sockets[n][f.id]
<1>1. f.id \in Ids /\ f.who \in Whos \cup {None} /\ r \in Visitors \cup {None} /\ b \in Browsers \cup {None}
  BY DEF Bridges, ResponsesOK, SocketsOK, FrameSet
<1>2. <<Ctl("abort", f.id, f.who)>> \in Seq(DownFrames) /\ (b # None => <<Ctl("ws_close", f.id, b)>> \in Seq(DownFrames))
  <2>1. Ctl("abort", f.id, f.who) \in DownFrames /\ (b # None => Ctl("ws_close", f.id, b) \in DownFrames)
    BY <1>1, DownType, WhosAre
  <2> QED BY <2>1
<1>3. ResponsesOK /\ SocketsOK /\ PubOK /\ GotOK /\ HeardOK /\ DownOK
  BY DEF Bridges
<1>4. ASSUME f.t = "res_head", ResHead(n, f) PROVE Bridges'
  <2>1. PubOK'
    BY <1>1, <1>3, <1>4, MovedType DEF ResHead, PubOK
  <2>2. GotOK'
    BY <1>1, <1>3, <1>4, WroteType DEF ResHead, GotOK
  <2>3. ResponsesOK'
    BY <1>1, <1>3, <1>4, TablesType DEF ResHead
  <2>4. SocketsOK' /\ HeardOK' /\ DownOK'
    BY <1>3, <1>4 DEF ResHead, SocketsOK, HeardOK, DownOK
  <2> QED BY <2>1, <2>2, <2>3, <2>4 DEF Bridges
<1>5. ASSUME f.t = "res_body", ResBody(n, f) PROVE Bridges'
  <2>1. PubOK'
    BY <1>1, <1>3, <1>5, MovedType DEF ResBody, PubOK
  <2>2. GotOK'
    BY <1>1, <1>3, <1>5, WroteType DEF ResBody, GotOK
  <2>3. ResponsesOK'
    BY <1>1, <1>3, <1>5, TablesType DEF ResBody
  <2>4. DownOK'
    <3>1. UNCHANGED down \/ RelaySend(n, <<Ctl("abort", f.id, f.who)>>)
      BY <1>5 DEF ResBody
    <3> QED BY <1>2, <1>3, <3>1, SendType DEF DownOK
  <2>5. SocketsOK' /\ HeardOK'
    BY <1>3, <1>5 DEF ResBody, SocketsOK, HeardOK
  <2> QED BY <2>1, <2>2, <2>3, <2>4, <2>5 DEF Bridges
<1>6. ASSUME f.t = "res_end", ResEnd(n, f) PROVE Bridges'
  <2>1. PubOK'
    BY <1>1, <1>3, <1>6, MovedType DEF ResEnd, PubOK
  <2>2. GotOK'
    BY <1>1, <1>3, <1>6, WroteType DEF ResEnd, GotOK
  <2>3. ResponsesOK'
    BY <1>1, <1>3, <1>6, TablesType DEF ResEnd
  <2>4. SocketsOK' /\ HeardOK' /\ DownOK'
    BY <1>3, <1>6 DEF ResEnd, SocketsOK, HeardOK, DownOK
  <2> QED BY <2>1, <2>2, <2>3, <2>4 DEF Bridges
<1>7. ASSUME WsMessage(n, f) PROVE Bridges'
  <2>1. HeardOK'
    BY <1>1, <1>3, <1>7 DEF WsMessage, HeardOK
  <2>2. SocketsOK'
    <3>1. sockets' \in {sockets, [sockets EXCEPT ![n][f.id] = None]} /\ tab' \in {tab, [tab EXCEPT ![b] = "closed"]}
      BY <1>7 DEF WsMessage
    <3> QED BY <1>1, <1>3, <3>1, SocketType
  <2>3. DownOK'
    <3>1. UNCHANGED down \/ (b # None /\ RelaySend(n, <<Ctl("ws_close", f.id, b)>>))
      BY <1>7 DEF WsMessage
    <3> QED BY <1>2, <1>3, <3>1, SendType DEF DownOK
  <2>4. ResponsesOK' /\ PubOK' /\ GotOK'
    BY <1>3, <1>7 DEF WsMessage, ResponsesOK, PubOK, GotOK
  <2> QED BY <2>1, <2>2, <2>3, <2>4 DEF Bridges
<1>8. ASSUME WsGone(n, f) PROVE Bridges'
  <2>1. SocketsOK'
    <3>1. sockets' = [sockets EXCEPT ![n][f.id] = None] /\ tab' \in {tab, [tab EXCEPT ![b] = "closed"]}
      BY <1>8 DEF WsGone
    <3> QED BY <1>1, <1>3, <3>1, SocketType
  <2>2. ResponsesOK' /\ PubOK' /\ GotOK' /\ HeardOK' /\ DownOK'
    BY <1>3, <1>8 DEF WsGone, ResponsesOK, PubOK, GotOK, HeardOK, DownOK
  <2> QED BY <2>1, <2>2 DEF Bridges
<1>9. ASSUME AgentAbort(n, f) PROVE Bridges'
  <2>1. PubOK'
    BY <1>1, <1>3, <1>9, MovedType DEF AgentAbort, PubOK
  <2>2. SocketsOK'
    <3>1. sockets' = [sockets EXCEPT ![n][f.id] = None] /\ tab' \in {tab, [tab EXCEPT ![b] = "closed"]}
      BY <1>9 DEF AgentAbort
    <3> QED BY <1>1, <1>3, <3>1, SocketType
  <2>3. ResponsesOK'
    BY <1>1, <1>3, <1>9, TablesType DEF AgentAbort
  <2>4. GotOK' /\ HeardOK' /\ DownOK'
    BY <1>3, <1>9 DEF AgentAbort, GotOK, HeardOK, DownOK
  <2> QED BY <2>1, <2>2, <2>3, <2>4 DEF Bridges
<1> QED BY <1>4, <1>5, <1>6, <1>7, <1>8, <1>9 DEF OnAgentFrame

LEMMA CleanupType ==
  ASSUME RelayTypeOK, NEW n \in Conns, Cleanup(n)
  PROVE  /\ pub' \in [Visitors -> {"idle"} \cup Pending \cup Ended]
         /\ tab' \in [Browsers -> {"idle", "open", "closed"}]
         /\ responses' \in [Conns -> [Ids -> Visitors \cup {None}]]
         /\ sockets' \in [Conns -> [Ids -> Browsers \cup {None}]]
         /\ activity' \in [Conns -> SUBSET Ids]
<1> USE DEF RelayTypeOK, Cleanup
<1>1. \A v \in Visitors : pub'[v] \in {pub[v], WrittenOff(pub[v])}
  OBVIOUS
<1>2. pub' \in [Visitors -> {"idle"} \cup Pending \cup Ended]
  BY <1>1, WrittenOffType
<1>3. tab' \in [Browsers -> {"idle", "open", "closed"}]
  OBVIOUS
<1> QED BY <1>2, <1>3

LEMMA ConnectionType ==
  ASSUME TypeInv, NEW n \in Conns, Admit(n) \/ Terminate(n) \/ CloseEvent(n)
  PROVE  RelayTypeOK' /\ Framed'
<1> USE DEF TypeInv
<1>1. CASE Admit(n)
  <2>1. rst' \in [Conns -> RelayStates] /\ wire' \in [Conns -> {"up", "down"}]
    BY <1>1 DEF Admit, RelayTypeOK, RelayStates, WireOK
  <2> QED BY <1>1, <2>1 DEF Admit, RelayTypeOK, Framed, DownOK, UpOK, WireOK
<1>2. CASE Terminate(n)
  <2>1. rst' \in [Conns -> RelayStates] /\ wire' \in [Conns -> {"up", "down"}]
    BY <1>2 DEF Terminate, RelayTypeOK, RelayStates, WireOK
  <2> QED BY <1>2, <2>1 DEF Terminate, RelayTypeOK, Framed, DownOK, UpOK, WireOK
<1>3. CASE CloseEvent(n)
  <2>1. rst' \in [Conns -> RelayStates] /\ routed' \in Conns \cup {NoConn}
    BY <1>3 DEF CloseEvent, RelayTypeOK, RelayStates
  <2>2. UpOK'
    BY <1>3, EmptySeq DEF CloseEvent, UpOK
  <2>3. Cleanup(n) /\ UNCHANGED <<nextId, at, body, got, heard, wrapped, down, wire>>
    BY <1>3 DEF CloseEvent
  <2> QED BY <2>1, <2>2, <2>3, CleanupType DEF RelayTypeOK, Framed, DownOK, WireOK
<1> QED BY <1>1, <1>2, <1>3

LEMMA PeerCloseType ==
  ASSUME TypeInv, NEW n \in Conns, PeerClose(n)
  PROVE  RelayTypeOK' /\ DownOK'
<1> USE DEF TypeInv
<1>1. DownOK'
  <2>1. <<CloseFrame>> \in Seq(DownFrames)
    BY CloseType
  <2> QED BY <2>1, PostedType DEF PeerClose, DownOK
<1>2. rst' \in [Conns -> RelayStates]
  BY DEF PeerClose, RelayTypeOK, RelayStates
<1> QED BY <1>1, <1>2 DEF PeerClose, RelayTypeOK

LEMMA TakenType == ASSUME NEW F, NEW ch \in [Conns -> Seq(F)], NEW n \in Conns, ch[n] # << >>
  PROVE /\ Head(ch[n]) \in F /\ [ch EXCEPT ![n] = Tail(@)] \in [Conns -> Seq(F)]
        /\ ch[n][1] = Head(ch[n])
<1>1. ch[n] \in Seq(F)
  OBVIOUS
<1>2. Head(ch[n]) \in F /\ Tail(ch[n]) \in Seq(F) /\ ch[n][1] = Head(ch[n])
  BY <1>1, HeadTailProperties
<1> QED BY <1>2

LEMMA RelayReceiveType ==
  ASSUME TypeInv, NEW n \in Conns, RelayReceive(n)
  PROVE  TypeInv'
<1> DEFINE f == Head(up[n])
<1>1. f \in FrameSet /\ UpOK'
  BY TakenType DEF TypeInv, RelayReceive, UpOK
<1>2. WireOK' /\ AgentTypeOK'
  BY DEF TypeInv, RelayReceive, WireOK, agentVars, AgentTypeOK
<1>3. CASE PeerClose(n)
  BY <1>1, <1>2, <1>3, PeerCloseType DEF TypeInv
<1>4. CASE OnAgentFrame(n, f)
  <2>1. Bridges'
    BY <1>1, <1>4, AgentFrameType, BridgesType DEF TypeInv, Bridges
  <2>2. UNCHANGED <<rst, routed, nextId, at, body, wrapped>>
    BY <1>4 DEF OnAgentFrame
  <2>4. /\ rst \in [Conns -> RelayStates] /\ routed \in Conns \cup {NoConn} /\ nextId \in [Conns -> Ids]
        /\ at \in [Whos -> [conn : Conns \cup {NoConn}, id : Ids]]
        /\ body \in [Visitors -> {"none", "open", "over"}] /\ wrapped \in BOOLEAN
    BY BridgesType DEF TypeInv
  <2>5. /\ rst' \in [Conns -> RelayStates] /\ routed' \in Conns \cup {NoConn} /\ nextId' \in [Conns -> Ids]
        /\ at' \in [Whos -> [conn : Conns \cup {NoConn}, id : Ids]]
        /\ body' \in [Visitors -> {"none", "open", "over"}] /\ wrapped' \in BOOLEAN
    BY <2>2, <2>4
  <2>3. RelayTypeOK'
    BY <2>1, <2>5, Zenon DEF Bridges, RelayTypeOK, ResponsesOK, SocketsOK, PubOK, GotOK, HeardOK, PartSet, PubSet
  <2> QED BY <1>1, <1>2, <2>1, <2>3 DEF TypeInv, Bridges
<1>5. CASE UNCHANGED <<relayVars, down>>
  BY <1>1, <1>2, <1>5 DEF TypeInv, relayVars, RelayTypeOK, DownOK
<1> QED BY <1>3, <1>4, <1>5 DEF RelayReceive

LEMMA RelayStepType ==
  ASSUME TypeInv, Public \/ RelaySteps
  PROVE  RelayTypeOK' /\ Framed'
BY RequestOverType, ClientCloseType, IdleTimeoutType, UpgradeType, BrowserType, ConnectionType DEF Public, RelaySteps

-----------------------------------------------------------------------------
(* The types of the agent's side.                                          *)

JobSet   == [st : JobStates, id : Ids, sealed : BOOLEAN]
LinkSet  == [st : LinkStates, id : Ids, sealed : BOOLEAN]
SocketOK == control \in Conns \cup {NoConn} /\ dialled \in 0..MaxConn /\ asock \in [Conns -> AgentStates]
TableOK(table) == table \in [Ids -> Visitors \cup {None}]
ParkedOK == TableOK(parked) /\ ended \subseteq Ids
LsocksOK == lsocks \in [Ids -> Browsers \cup {None}]
JobOK    == job \in [Visitors -> JobSet]
LinkOK   == link \in [Browsers -> LinkSet]
GhostsOK == fed \in [Visitors -> SUBSET Visitors] /\ told \in [Browsers -> SUBSET Browsers]
KeysOK   == e2eKey \in Keys /\ lastKey \in Keys
CookieOK == cookie \in CookieStates
AskOK    == ask \in [Visitors -> Asks]
CrashOK  == crashed \in BOOLEAN

LEMMA AgentParts ==
  AgentTypeOK <=> /\ SocketOK /\ TableOK(requests) /\ TableOK(buffered) /\ ParkedOK /\ LsocksOK
                  /\ JobOK /\ LinkOK /\ GhostsOK /\ KeysOK /\ CookieOK /\ AskOK /\ CrashOK
BY Zenon DEF AgentTypeOK, SocketOK, TableOK, ParkedOK, LsocksOK, JobOK, LinkOK, GhostsOK, KeysOK, CookieOK,
   AskOK, CrashOK, JobSet, LinkSet

LEMMA AgentPartsAfter ==
  ASSUME SocketOK', TableOK(requests)', TableOK(buffered)', ParkedOK', LsocksOK', JobOK', LinkOK', GhostsOK',
         KeysOK', CookieOK', AskOK', CrashOK'
  PROVE  AgentTypeOK'
BY Zenon DEF AgentTypeOK, SocketOK, TableOK, ParkedOK, LsocksOK, JobOK, LinkOK, GhostsOK, KeysOK, CookieOK,
   AskOK, CrashOK, JobSet, LinkSet

LEMMA AgentSendType ==
  ASSUME UpOK, NEW fs \in Seq(FrameSet), AgentSend(fs)
  PROVE  UpOK'
BY PostedType DEF UpOK, AgentSend

\* The texts the agent sends.
LEMMA TextType ==
  ASSUME NEW id \in Ids, NEW w \in Whos, NEW k \in Keys
  PROVE  /\ Refusal(id, w) \in Seq(FrameSet) /\ Answer(id, w, k) \in Seq(FrameSet)
         /\ \A t \in FrameTypes : <<Ctl(t, id, w)>> \in Seq(FrameSet) /\ <<Data(t, id, w, k)>> \in Seq(FrameSet)
         /\ <<Ctl("ws_close", id, w), Ctl("ws_close", id, w)>> \in Seq(FrameSet)
<1>1. \A t \in FrameTypes, j \in 0..(MaxKey + 1) : Ctl(t, id, w) \in FrameSet /\ Data(t, id, w, j) \in FrameSet
  BY FrameType
<1>2. k \in 0..(MaxKey + 1) /\ Note \in 0..(MaxKey + 1)
  BY Constants
<1>3. {"res_head", "res_body", "res_end", "ws_close"} \subseteq FrameTypes
  BY DEF FrameTypes
<1>4. /\ Ctl("res_head", id, w) \in FrameSet /\ Ctl("res_end", id, w) \in FrameSet /\ Ctl("ws_close", id, w) \in FrameSet
      /\ Data("res_body", id, w, Note) \in FrameSet /\ Data("res_body", id, w, k) \in FrameSet
  BY <1>1, <1>2, <1>3
<1>5. \A t \in FrameTypes : <<Ctl(t, id, w)>> \in Seq(FrameSet) /\ <<Data(t, id, w, k)>> \in Seq(FrameSet)
  BY <1>1, <1>2
<1>6. Refusal(id, w) \in Seq(FrameSet)
  BY <1>4 DEF Refusal
<1>7. Answer(id, w, k) \in Seq(FrameSet)
  BY <1>4 DEF Answer
<1>8. <<Ctl("ws_close", id, w), Ctl("ws_close", id, w)>> \in Seq(FrameSet)
  BY <1>4
<1> QED BY <1>5, <1>6, <1>7, <1>8

LEMMA LastWordsType ==
  ASSUME JobOK, NEW v \in Visitors
  PROVE  LastWords(v) \in Seq(FrameSet)
<1>1. job[v].id \in Ids /\ v \in Whos /\ 0 \in Keys
  BY WhosAre, Constants DEF JobOK, JobSet, Keys
<1>2. Refusal(job[v].id, v) \in Seq(FrameSet) /\ <<Ctl("abort", job[v].id, v)>> \in Seq(FrameSet)
  BY <1>1, TextType DEF FrameTypes
<1> QED BY <1>2 DEF LastWords

LEMMA ClosedEarlyType ==
  ASSUME LsocksOK, NEW id \in Ids
  PROVE  ClosedEarly(id) \in Seq(FrameSet)
<1>1. 0 \in Keys /\ (lsocks[id] # None => lsocks[id] \in Whos)
  BY WhosAre, Constants DEF LsocksOK, Keys
<1>2. lsocks[id] # None => <<Ctl("ws_close", id, lsocks[id]), Ctl("ws_close", id, lsocks[id])>> \in Seq(FrameSet)
  BY <1>1, TextType
<1>3. << >> \in Seq(FrameSet)
  OBVIOUS
<1> QED BY <1>2, <1>3 DEF ClosedEarly

LEMMA DropType ==
  ASSUME JobOK, LinkOK, DropStreams
  PROVE  /\ TableOK(requests)' /\ TableOK(buffered)' /\ ParkedOK' /\ LsocksOK' /\ JobOK' /\ LinkOK'
<1>1. NoneOpen \in [Ids -> {None}]
  BY DEF NoneOpen
<1>2. TableOK(requests)' /\ TableOK(buffered)' /\ ParkedOK' /\ LsocksOK'
  BY <1>1 DEF DropStreams, TableOK, ParkedOK, LsocksOK
<1>3. JobOK'
  BY DEF DropStreams, DestroyStreams, CutShort, JobOK, JobSet, JobStates, AtDsh, Compressing
<1>4. LinkOK'
  BY DEF DropStreams, DestroyStreams, LinkOK, LinkSet, LinkStates
<1> QED BY <1>2, <1>3, <1>4

LEMMA StartType ==
  ASSUME JobOK, NEW v \in Visitors, NEW id \in Ids, NEW s \in BOOLEAN
  PROVE  [job EXCEPT ![v] = StartJob(v, id, s)] \in [Visitors -> JobSet]
<1>1. StartJob(v, id, s) \in JobSet
  BY DEF StartJob, JobSet, JobStates, AtDsh, Compressing
<1> QED BY <1>1 DEF JobOK

LEMMA OpenRequestType ==
  ASSUME UpOK, AgentTypeOK, NEW v \in Visitors, NEW id \in Ids, OpenRequest(v, id)
  PROVE  UpOK' /\ TableOK(requests)' /\ TableOK(buffered)' /\ ParkedOK' /\ JobOK' /\ CookieOK'
<1>0. TableOK(requests) /\ TableOK(buffered) /\ ParkedOK /\ JobOK /\ CookieOK
  BY AgentParts
<1>1. Refusal(id, v) \in Seq(FrameSet)
  BY TextType, WhosAre, Constants DEF Keys
<1>2. UpOK'
  <2>1. AgentSend(Refusal(id, v)) \/ UNCHANGED up
    BY DEF OpenRequest, Replay
  <2> QED BY <1>1, <2>1, AgentSendType DEF UpOK
<1>3. TableOK(requests)' /\ TableOK(buffered)'
  BY <1>0 DEF OpenRequest, Replay, TableOK
<1>4. ParkedOK'
  BY <1>0 DEF OpenRequest, ParkedOK, TableOK
<1>5. JobOK'
  <2>1. UNCHANGED job \/ job' = [job EXCEPT ![v] = StartJob(v, id, FALSE)]
    BY DEF OpenRequest, Replay
  <2>2. [job EXCEPT ![v] = StartJob(v, id, FALSE)] \in [Visitors -> JobSet]
    BY <1>0, StartType
  <2> QED BY <1>0, <2>1, <2>2 DEF JobOK
<1>6. CookieOK'
  BY <1>0 DEF OpenRequest, CookieOK, CookieStates
<1> QED BY <1>2, <1>3, <1>4, <1>5, <1>6

LEMMA FinishType ==
  ASSUME UpOK, AgentTypeOK, NEW id \in Ids, buffered[id] # None, FinishE2E(id)
  PROVE  UpOK' /\ TableOK(buffered)' /\ JobOK'
<1>0. TableOK(buffered) /\ JobOK /\ buffered[id] \in Visitors
  BY AgentParts DEF TableOK
<1>1. Refusal(id, buffered[id]) \in Seq(FrameSet)
  BY <1>0, TextType, WhosAre, Constants DEF Keys
<1>2. UpOK'
  <2>1. AgentSend(Refusal(id, buffered[id])) \/ UNCHANGED up
    BY DEF FinishE2E
  <2> QED BY <1>1, <2>1, AgentSendType DEF UpOK
<1>3. TableOK(buffered)'
  BY <1>0 DEF FinishE2E, TableOK
<1>4. JobOK'
  <2>1. UNCHANGED job \/ job' = [job EXCEPT ![buffered[id]] = StartJob(buffered[id], id, TRUE)]
    BY DEF FinishE2E
  <2>2. [job EXCEPT ![buffered[id]] = StartJob(buffered[id], id, TRUE)] \in [Visitors -> JobSet]
    BY <1>0, StartType
  <2> QED BY <1>0, <2>1, <2>2 DEF JobOK
<1> QED BY <1>2, <1>3, <1>4

LEMMA CloseLocalType ==
  ASSUME LsocksOK, LinkOK, NEW id \in Ids, CloseLocal(id)
  PROVE  LsocksOK' /\ LinkOK'
<1>1. CASE lsocks[id] = None
  BY <1>1 DEF CloseLocal, LsocksOK, LinkOK
<1>2. CASE lsocks[id] # None
  <2> DEFINE b == lsocks[id]
  <2>1. b \in Browsers
    BY <1>2 DEF LsocksOK
  <2>2. lsocks' \in {lsocks, [lsocks EXCEPT ![id] = None]}
    BY <1>2 DEF CloseLocal
  <2>3. link' \in {[link EXCEPT ![b].st = "over"], [link EXCEPT ![b].st = "closing"]}
    BY <1>2 DEF CloseLocal
  <2>4. LinkOK'
    BY <2>1, <2>3 DEF LinkOK, LinkSet, LinkStates
  <2> QED BY <2>2, <2>4 DEF LsocksOK
<1> QED BY <1>1, <1>2

LEMMA DispatchType ==
  ASSUME UpOK, AgentTypeOK, NEW f \in DownFrames, AgentDispatch(f)
  PROVE  UpOK' /\ AgentTypeOK'
<1> USE DEF AgentDispatch
<1>0. /\ SocketOK /\ TableOK(requests) /\ TableOK(buffered) /\ ParkedOK /\ LsocksOK
      /\ JobOK /\ LinkOK /\ GhostsOK /\ KeysOK /\ CookieOK /\ AskOK /\ CrashOK
  BY AgentParts
<1>1. f.id \in Ids /\ (f.t \in {"req_head", "req_end"} => f.who \in Visitors)
                   /\ (f.t \in {"ws_open", "ws_msg"} => f.who \in Browsers)
  BY DEF DownFrames, FrameSet
<1>2. SocketOK' /\ KeysOK' /\ AskOK' /\ CrashOK'
  BY <1>0 DEF SocketOK, KeysOK, AskOK, CrashOK
<1> HIDE DEF AgentDispatch
<1>3. ASSUME f.t = "req_head", ReqHead(f) PROVE UpOK' /\ AgentTypeOK'
  <2>1. UpOK' /\ TableOK(requests)' /\ TableOK(buffered)' /\ ParkedOK' /\ JobOK' /\ CookieOK'
    BY <1>1, <1>3, OpenRequestType DEF ReqHead
  <2>2. LsocksOK' /\ LinkOK' /\ GhostsOK'
    BY <1>0, <1>3 DEF ReqHead, LsocksOK, LinkOK, GhostsOK
  <2> QED BY <1>2, <2>1, <2>2, AgentPartsAfter
<1>4. ASSUME f.t = "req_end", ReqEnd(f) PROVE UpOK' /\ AgentTypeOK'
  <2>1. TableOK(requests)' /\ LsocksOK' /\ LinkOK' /\ CookieOK'
    BY <1>0, <1>4 DEF ReqEnd, TableOK, LsocksOK, LinkOK, CookieOK
  <2>2. ParkedOK'
    BY <1>0, <1>1, <1>4 DEF ReqEnd, TableOK, ParkedOK
  <2>3. GhostsOK'
    <3>1. requests[f.id] \in Visitors \cup {None}
      BY <1>0, <1>1 DEF TableOK
    <3>2. fed' \in {fed, [fed EXCEPT ![requests[f.id]] = @ \cup ({f.who} \ {requests[f.id]})]} /\ told' = told
      BY <1>4 DEF ReqEnd
    <3> QED BY <1>0, <1>1, <1>4, <3>1, <3>2 DEF GhostsOK
  <2>4. UpOK' /\ TableOK(buffered)' /\ JobOK'
    <3>1. CASE buffered[f.id] # None /\ FinishE2E(f.id)
      BY <1>1, <3>1, FinishType
    <3>2. CASE UNCHANGED <<buffered, job, up>>
      BY <1>0, <3>2 DEF UpOK, TableOK, JobOK
    <3> QED BY <1>4, <3>1, <3>2 DEF ReqEnd
  <2> QED BY <1>2, <2>1, <2>2, <2>3, <2>4, AgentPartsAfter
<1>5. ASSUME f.t = "abort", RelayAbort(f) PROVE UpOK' /\ AgentTypeOK'
  <2> DEFINE v == requests[f.id]
  <2>0. v \in Visitors \cup {None}
    BY <1>0, <1>1 DEF TableOK
  <2>1. TableOK(requests)' /\ TableOK(buffered)' /\ ParkedOK'
    BY <1>0, <1>5 DEF RelayAbort, TableOK, ParkedOK
  <2>2. JobOK'
    BY <1>0, <1>5, <2>0 DEF RelayAbort, Destroyed, CutShort, JobOK, JobSet, JobStates, AtDsh, Compressing
  <2>3. LsocksOK' /\ LinkOK'
    BY <1>0, <1>1, <1>5, CloseLocalType DEF RelayAbort
  <2>4. GhostsOK' /\ CookieOK'
    BY <1>0, <1>5 DEF RelayAbort, GhostsOK, CookieOK
  <2>5. UpOK'
    <3>1. (IF v = None THEN << >> ELSE LastWords(v)) \in Seq(FrameSet)
      BY <1>0, <2>0, LastWordsType
    <3>2. ClosedEarly(f.id) \in Seq(FrameSet)
      BY <1>0, <1>1, ClosedEarlyType
    <3>3. ((IF v = None THEN << >> ELSE LastWords(v)) \o ClosedEarly(f.id)) \in Seq(FrameSet)
      BY <3>1, <3>2
    <3> QED BY <1>5, <3>3, AgentSendType DEF RelayAbort
  <2> QED BY <1>2, <2>1, <2>2, <2>3, <2>4, <2>5, AgentPartsAfter
<1>6. ASSUME f.t = "ws_open", WsOpen(f) PROVE UpOK' /\ AgentTypeOK'
  <2>1. [st |-> "connecting", id |-> f.id, sealed |-> e2eKey # 0] \in LinkSet
    BY <1>1 DEF LinkSet, LinkStates
  <2>2. LsocksOK' /\ LinkOK'
    BY <1>0, <1>1, <1>6, <2>1 DEF WsOpen, LsocksOK, LinkOK
  <2>3. UpOK' /\ TableOK(requests)' /\ TableOK(buffered)' /\ ParkedOK' /\ JobOK' /\ CookieOK' /\ GhostsOK'
    BY <1>0, <1>6 DEF WsOpen, UpOK, TableOK, ParkedOK, JobOK, CookieOK, GhostsOK
  <2> QED BY <1>2, <2>2, <2>3, AgentPartsAfter
<1>7. ASSUME f.t = "ws_msg", WsData(f) PROVE UpOK' /\ AgentTypeOK'
  <2>1. GhostsOK'
    BY <1>0, <1>1, <1>7 DEF WsData, GhostsOK
  <2>3. UpOK' /\ TableOK(requests)' /\ TableOK(buffered)' /\ ParkedOK' /\ JobOK' /\ CookieOK' /\ LsocksOK' /\ LinkOK'
    BY <1>0, <1>7 DEF WsData, UpOK, TableOK, ParkedOK, JobOK, CookieOK, LsocksOK, LinkOK
  <2> QED BY <1>2, <2>1, <2>3, AgentPartsAfter
<1>8. ASSUME f.t = "ws_close", WsClose(f) PROVE UpOK' /\ AgentTypeOK'
  <2>1. LsocksOK' /\ LinkOK'
    BY <1>0, <1>1, <1>8, CloseLocalType DEF WsClose
  <2>2. UpOK'
    BY <1>0, <1>1, <1>8, ClosedEarlyType, AgentSendType DEF WsClose
  <2>3. TableOK(requests)' /\ TableOK(buffered)' /\ ParkedOK' /\ JobOK' /\ CookieOK' /\ GhostsOK'
    BY <1>0, <1>8 DEF WsClose, TableOK, ParkedOK, JobOK, CookieOK, GhostsOK
  <2> QED BY <1>2, <2>1, <2>2, <2>3, AgentPartsAfter
<1> QED BY <1>3, <1>4, <1>5, <1>6, <1>7, <1>8 DEF AgentDispatch

LEMMA LocalType ==
  ASSUME UpOK, AgentTypeOK, NEW v \in Visitors,
         LocalHead(v) \/ LocalBody(v) \/ LocalRead(v) \/ LocalEnd(v) \/ LocalSpill(v) \/ LocalError(v) \/ LocalAnswer(v)
  PROVE  UpOK' /\ AgentTypeOK'
<1>0. /\ SocketOK /\ TableOK(requests) /\ TableOK(buffered) /\ ParkedOK /\ LsocksOK
      /\ JobOK /\ LinkOK /\ GhostsOK /\ KeysOK /\ CookieOK /\ AskOK /\ CrashOK
  BY AgentParts
<1> DEFINE id == job[v].id
<1>1. id \in Ids /\ v \in Whos /\ 0 \in Keys /\ e2eKey \in Keys
  BY <1>0, WhosAre, Constants DEF JobOK, JobSet, KeysOK, Keys
<1>2. SocketOK' /\ TableOK(buffered)' /\ ParkedOK' /\ LsocksOK' /\ LinkOK' /\ GhostsOK' /\ KeysOK' /\ AskOK'
  <2>1. JobsOnly
    BY DEF LocalHead, LocalBody, LocalRead, LocalEnd, LocalSpill, LocalError, LocalAnswer
  <2> QED BY <1>0, <2>1 DEF JobsOnly, SocketOK, TableOK, ParkedOK, LsocksOK, LinkOK, GhostsOK, KeysOK, AskOK
<1>3. JobOK'
  <2>1. \E s \in JobStates : job' = [job EXCEPT ![v].st = s]
    BY DEF LocalHead, LocalBody, LocalRead, LocalEnd, LocalSpill, LocalError, LocalAnswer, CutShort, JobStates, AtDsh, Compressing
  <2> QED BY <1>0, <2>1 DEF JobOK, JobSet
<1>4. TableOK(requests)'
  <2>1. requests' \in {requests, [requests EXCEPT ![id] = None]}
    BY DEF LocalHead, LocalBody, LocalRead, LocalEnd, LocalSpill, LocalError, LocalAnswer
  <2> QED BY <1>0, <2>1 DEF TableOK
<1>5. CookieOK'
  BY <1>0, Zenon DEF LocalHead, LocalBody, LocalRead, LocalEnd, LocalSpill, LocalError, LocalAnswer, CookieOK, CookieStates
<1>6. CrashOK'
  <2>1. CASE LocalAnswer(v)
    BY <2>1 DEF LocalAnswer, CrashOK
  <2>2. CASE crashed' = crashed
    BY <1>0, <2>2 DEF CrashOK
  <2>3. LocalAnswer(v) \/ crashed' = crashed
    BY Zenon DEF LocalHead, LocalBody, LocalRead, LocalEnd, LocalSpill, LocalError
  <2> QED BY <2>1, <2>2, <2>3
<1>7. UpOK'
  <2>1. /\ \A t \in FrameTypes : <<Ctl(t, id, v)>> \in Seq(FrameSet) /\ <<Data(t, id, v, 0)>> \in Seq(FrameSet)
        /\ Answer(id, v, e2eKey) \in Seq(FrameSet) /\ LastWords(v) \in Seq(FrameSet)
    BY <1>0, <1>1, TextType, LastWordsType
  <2>2. /\ <<Ctl("res_head", id, v)>> \in Seq(FrameSet) /\ <<Data("res_body", id, v, 0)>> \in Seq(FrameSet)
        /\ <<Ctl("res_end", id, v)>> \in Seq(FrameSet) /\ <<Ctl("abort", id, v)>> \in Seq(FrameSet)
    BY <2>1 DEF FrameTypes
  <2>3. \/ AgentSend(<<Ctl("res_head", id, v)>>) \/ AgentSend(<<Data("res_body", id, v, 0)>>)
        \/ AgentSend(<<Ctl("res_end", id, v)>>) \/ AgentSend(<<Ctl("abort", id, v)>>)
        \/ AgentSend(LastWords(v)) \/ AgentSend(Answer(id, v, e2eKey)) \/ UNCHANGED up
    BY Zenon DEF LocalHead, LocalBody, LocalRead, LocalEnd, LocalSpill, LocalError, LocalAnswer
  <2>4. CASE UNCHANGED up
    BY <2>4 DEF UpOK
  <2> QED BY <2>1, <2>2, <2>3, <2>4, AgentSendType
<1> QED BY <1>2, <1>3, <1>4, <1>5, <1>6, <1>7, AgentPartsAfter

LEMMA LinkType ==
  ASSUME UpOK, AgentTypeOK, NEW b \in Browsers,
         LinkOpen(b) \/ LinkMessage(b) \/ LinkClose(b) \/ LinkRefused(b) \/ LinkCongested(b)
  PROVE  UpOK' /\ AgentTypeOK'
<1>0. /\ SocketOK /\ TableOK(requests) /\ TableOK(buffered) /\ ParkedOK /\ LsocksOK
      /\ JobOK /\ LinkOK /\ GhostsOK /\ KeysOK /\ CookieOK /\ AskOK /\ CrashOK
  BY AgentParts
<1> DEFINE id == link[b].id
           k  == IF link[b].sealed THEN e2eKey ELSE 0
<1>1. id \in Ids /\ b \in Whos /\ k \in Keys
  BY <1>0, WhosAre, Constants DEF LinkOK, LinkSet, KeysOK, Keys
<1>2. /\ SocketOK' /\ TableOK(requests)' /\ TableOK(buffered)' /\ ParkedOK' /\ JobOK' /\ GhostsOK' /\ KeysOK'
      /\ CookieOK' /\ AskOK' /\ CrashOK'
  <2>1. SocketsOnly
    BY DEF LinkOpen, LinkMessage, LinkClose, LinkRefused, LinkCongested
  <2> QED BY <1>0, <2>1 DEF SocketsOnly, SocketOK, TableOK, ParkedOK, JobOK, GhostsOK, KeysOK, CookieOK, AskOK, CrashOK
<1>3. LinkOK'
  <2>1. UNCHANGED link \/ \E s \in LinkStates : link' = [link EXCEPT ![b].st = s]
    BY DEF LinkOpen, LinkMessage, LinkClose, LinkRefused, LinkCongested, LinkStates
  <2> QED BY <1>0, <2>1 DEF LinkOK, LinkSet
<1>4. LsocksOK'
  <2>1. lsocks' \in {lsocks, [lsocks EXCEPT ![id] = None]}
    BY DEF LinkOpen, LinkMessage, LinkClose, LinkRefused, LinkCongested
  <2> QED BY <1>0, <2>1 DEF LsocksOK
<1>5. UpOK'
  <2>1. /\ <<Data("ws_msg", id, b, k)>> \in Seq(FrameSet) /\ <<Ctl("ws_close", id, b)>> \in Seq(FrameSet)
        /\ <<Ctl("ws_reject", id, b)>> \in Seq(FrameSet) /\ ClosedEarly(id) \in Seq(FrameSet)
    BY <1>0, <1>1, TextType, ClosedEarlyType DEF FrameTypes
  <2>2. \/ AgentSend(<<Data("ws_msg", id, b, k)>>) \/ AgentSend(<<Ctl("ws_close", id, b)>>)
        \/ AgentSend(<<Ctl("ws_reject", id, b)>>) \/ AgentSend(ClosedEarly(id)) \/ UNCHANGED up
    BY Zenon DEF LinkOpen, LinkMessage, LinkClose, LinkRefused, LinkCongested
  <2>3. CASE UNCHANGED up
    BY <2>3 DEF UpOK
  <2> QED BY <2>1, <2>2, <2>3, AgentSendType
<1> QED BY <1>2, <1>3, <1>4, <1>5, AgentPartsAfter

LEMMA CookieSettledType ==
  ASSUME UpOK, AgentTypeOK, CookieSettled
  PROVE  UpOK' /\ AgentTypeOK'
<1>0. /\ SocketOK /\ TableOK(requests) /\ TableOK(buffered) /\ ParkedOK /\ LsocksOK
      /\ JobOK /\ LinkOK /\ GhostsOK /\ KeysOK /\ CookieOK /\ AskOK /\ CrashOK
  BY AgentParts
<1> DEFINE waiting == {id \in Ids : parked[id] # None}
           plain   == {id \in waiting : Fate(parked[id]) = "replayed"}
           sealed  == {id \in waiting : Fate(parked[id]) = "buffered"}
           opened  == {id \in sealed \cap ended : Opens(parked[id])}
           refused(id) == \/ Fate(parked[id]) = "refused"
                          \/ id \in sealed \cap ended /\ ~Opens(parked[id])
           texts == [id \in Ids |-> IF id \in waiting /\ refused(id) THEN Refusal(id, parked[id]) ELSE << >>]
<1>1. \A id \in waiting : parked[id] \in Visitors
  BY <1>0 DEF ParkedOK, TableOK
<1>2. /\ cookie' \in {"ready", "failed"}
      /\ requests' = [id \in Ids |-> IF id \in plain THEN parked[id] ELSE requests[id]]
      /\ buffered' = [id \in Ids |-> IF id \in sealed \ ended THEN parked[id] ELSE buffered[id]]
      /\ job' = [v \in Visitors |->
                  IF \E id \in plain \cup opened : parked[id] = v
                  THEN LET id == CHOOSE i \in plain \cup opened : parked[i] = v
                       IN StartJob(v, id, id \in opened)
                  ELSE job[v]]
      /\ parked' = NoneOpen /\ ended' = {}
      /\ AgentSend(InIdOrder(texts))
      /\ UNCHANGED <<control, dialled, asock, lsocks, fed, link, told, e2eKey, lastKey, ask, crashed, down, wire>>
  BY Zenon DEF CookieSettled
<1>3. TableOK(requests)' /\ TableOK(buffered)'
  BY <1>0, <1>1, <1>2 DEF TableOK
<1>4. ParkedOK' /\ CookieOK'
  BY <1>2 DEF ParkedOK, TableOK, NoneOpen, CookieOK, CookieStates
<1>5. JobOK'
  <2>1. \A v \in Visitors, id \in Ids, s \in BOOLEAN : StartJob(v, id, s) \in JobSet
    BY DEF StartJob, JobSet, JobStates, AtDsh, Compressing
  <2>2. ASSUME NEW v \in Visitors PROVE job'[v] \in JobSet
    <3>1. CASE \E id \in plain \cup opened : parked[id] = v
      <4> DEFINE id == CHOOSE i \in plain \cup opened : parked[i] = v
      <4>1. id \in plain \cup opened
        BY <3>1
      <4>2. id \in Ids /\ (id \in opened) \in BOOLEAN
        BY <4>1
      <4>3. job'[v] = StartJob(v, id, id \in opened)
        BY <1>2, <3>1
      <4> HIDE DEF id, opened, plain
      <4> QED BY <2>1, <4>2, <4>3
    <3>2. CASE ~ \E id \in plain \cup opened : parked[id] = v
      BY <1>0, <1>2, <3>2 DEF JobOK
    <3> QED BY <3>1, <3>2
  <2>3. job' \in [Visitors -> JobSet]
    <3>1. DOMAIN job' = Visitors /\ job' = [v \in Visitors |-> job'[v]]
      BY <1>2
    <3> HIDE DEF opened, plain
    <3> QED BY <2>2, <3>1
  <2> QED BY <2>3 DEF JobOK
<1>6. UpOK'
  <2>1. \A id \in Ids : texts[id] \in Seq(FrameSet)
    <3>1. \A id \in waiting : Refusal(id, parked[id]) \in Seq(FrameSet)
      <4>1. SUFFICES ASSUME NEW id \in waiting PROVE Refusal(id, parked[id]) \in Seq(FrameSet)
        OBVIOUS
      <4>2. id \in Ids /\ parked[id] \in Whos /\ 0 \in Keys
        BY <1>1, WhosAre, Constants DEF Keys
      <4> QED BY <4>2, TextType
    <3>2. << >> \in Seq(FrameSet)
      OBVIOUS
    <3> HIDE DEF waiting, refused
    <3> QED BY <3>1, <3>2
  <2> HIDE DEF texts
  <2>2. InIdOrder(texts) \in Seq(FrameSet)
    BY <2>1, FoldType
  <2> QED BY <1>2, <2>2, AgentSendType
<1>7. SocketOK' /\ LsocksOK' /\ LinkOK' /\ GhostsOK' /\ KeysOK' /\ AskOK' /\ CrashOK'
  BY <1>0, <1>2 DEF SocketOK, LsocksOK, LinkOK, GhostsOK, KeysOK, AskOK, CrashOK
<1> QED BY <1>3, <1>4, <1>5, <1>6, <1>7, AgentPartsAfter

LEMMA SetE2EType ==
  ASSUME UpOK, AgentTypeOK, NEW k \in Keys, SetE2E(k)
  PROVE  UpOK' /\ AgentTypeOK'
<1>0. /\ SocketOK /\ TableOK(requests) /\ TableOK(buffered) /\ ParkedOK /\ LsocksOK
      /\ JobOK /\ LinkOK /\ GhostsOK /\ KeysOK /\ CookieOK /\ AskOK /\ CrashOK
  BY AgentParts
<1> DEFINE Words(id) == IF requests[id] = None THEN << >> ELSE LastWords(requests[id])
           First(id) == IF ClosedEarly(id) = << >> THEN << >> ELSE <<Head(ClosedEarly(id))>>
           texts == [id \in Ids |-> Words(id) \o First(id)]
<1>1. AgentSend(InIdOrder(texts)) /\ DropStreams /\ KeysOK'
      /\ UNCHANGED <<control, dialled, asock, fed, told, cookie, ask, crashed, down, wire>>
  BY <1>0 DEF SetE2E, KeysOK
<1>2. UpOK'
  <2>1. ASSUME NEW id \in Ids PROVE Words(id) \o First(id) \in Seq(FrameSet)
    <3>1. Words(id) \in Seq(FrameSet)
      <4>1. requests[id] # None => requests[id] \in Visitors
        BY <1>0 DEF TableOK
      <4>2. << >> \in Seq(FrameSet)
        OBVIOUS
      <4> QED BY <1>0, <4>1, <4>2, LastWordsType
    <3>2. First(id) \in Seq(FrameSet)
      <4>1. ClosedEarly(id) \in Seq(FrameSet)
        BY <1>0, ClosedEarlyType
      <4>2. ClosedEarly(id) # << >> => Head(ClosedEarly(id)) \in FrameSet
        BY <4>1
      <4>3. << >> \in Seq(FrameSet)
        OBVIOUS
      <4>4. CASE ClosedEarly(id) = << >>
        BY <4>3, <4>4
      <4>5. CASE ClosedEarly(id) # << >>
        <5>1. First(id) = <<Head(ClosedEarly(id))>>
          BY <4>5
        <5> QED BY <4>2, <4>5, <5>1
      <4> QED BY <4>4, <4>5
    <3> HIDE DEF Words, First
    <3> QED BY <3>1, <3>2
  <2>2. \A id \in Ids : texts[id] \in Seq(FrameSet)
    <3> HIDE DEF Words, First
    <3> QED BY <2>1
  <2> HIDE DEF texts
  <2>3. InIdOrder(texts) \in Seq(FrameSet)
    BY <2>2, FoldType
  <2> QED BY <1>1, <2>3, AgentSendType
<1>3. TableOK(requests)' /\ TableOK(buffered)' /\ ParkedOK' /\ LsocksOK' /\ JobOK' /\ LinkOK'
  BY <1>0, <1>1, DropType
<1>4. SocketOK' /\ GhostsOK' /\ CookieOK' /\ AskOK' /\ CrashOK'
  BY <1>0, <1>1 DEF SocketOK, GhostsOK, CookieOK, AskOK, CrashOK
<1> QED BY <1>1, <1>2, <1>3, <1>4, AgentPartsAfter

LEMMA ControlType ==
  ASSUME UpOK, WireOK, DownOK, AgentTypeOK, NEW n \in Conns,
         Reconnect \/ Redial \/ AgentCloseEvent(n) \/ Opened(n)
  PROVE  Framed' /\ AgentTypeOK'
<1>0. /\ SocketOK /\ TableOK(requests) /\ TableOK(buffered) /\ ParkedOK /\ LsocksOK
      /\ JobOK /\ LinkOK /\ GhostsOK /\ KeysOK /\ CookieOK /\ AskOK /\ CrashOK
  BY AgentParts
<1>1. GhostsOK' /\ KeysOK' /\ CookieOK' /\ AskOK' /\ CrashOK'
  BY <1>0 DEF Reconnect, Redial, AgentCloseEvent, Opened, GhostsOK, KeysOK, CookieOK, AskOK, CrashOK
<1>2. /\ TableOK(requests)' /\ TableOK(buffered)' /\ ParkedOK' /\ LsocksOK' /\ JobOK' /\ LinkOK'
  <2>1. DropStreams \/ UNCHANGED <<requests, buffered, parked, ended, lsocks, job, link>>
    BY DEF Reconnect, Redial, AgentCloseEvent, Opened
  <2>2. CASE UNCHANGED <<requests, buffered, parked, ended, lsocks, job, link>>
    BY <1>0, <2>2 DEF TableOK, ParkedOK, LsocksOK, JobOK, LinkOK
  <2> QED BY <1>0, <2>1, <2>2, DropType
<1>3. SocketOK'
  <2>1. dialled < MaxConn => dialled + 1 \in Conns /\ dialled + 1 \in 0..MaxConn
    BY <1>0, Constants DEF SocketOK, Conns
  <2>2. CASE Reconnect
    BY <1>0, <2>1, <2>2 DEF Reconnect, Dial, SocketOK, AgentStates
  <2>3. CASE Redial
    <3>1. control' \in Conns \cup {NoConn} /\ dialled' \in 0..MaxConn
      BY <1>0, <2>1, <2>3 DEF Redial, Dial, SocketOK
    <3>2. asock' \in [Conns -> AgentStates]
      <4>1. asock \in [Conns -> AgentStates] /\ "closing" \in AgentStates /\ "connecting" \in AgentStates
        BY <1>0 DEF SocketOK, AgentStates
      <4>2. \/ asock' = [asock EXCEPT ![control] = "closing"]
            \/ asock' = [[asock EXCEPT ![control] = "closing"] EXCEPT ![dialled + 1] = "connecting"]
        BY <2>3 DEF Redial
      <4> QED BY <4>1, <4>2
    <3> QED BY <3>1, <3>2 DEF SocketOK
  <2>4. CASE AgentCloseEvent(n)
    BY <1>0, <2>4 DEF AgentCloseEvent, SocketOK, AgentStates
  <2>5. CASE Opened(n)
    BY <1>0, <2>5 DEF Opened, SocketOK, AgentStates
  <2> QED BY <2>2, <2>3, <2>4, <2>5
<1>4. Framed'
  <2>1. CASE Reconnect \/ Opened(n)
    BY <2>1 DEF Reconnect, Opened, Framed, UpOK, DownOK, WireOK
  <2>2. CASE Redial
    <3>1. <<CloseFrame>> \in Seq(FrameSet)
      BY CloseType
    <3>2. UpOK'
      <4>1. up' = Posted(up, control, <<CloseFrame>>) \/ UNCHANGED up
        BY <2>2, Zenon DEF Redial
      <4>2. Posted(up, control, <<CloseFrame>>) \in [Conns -> Seq(FrameSet)]
        BY <3>1, PostedType DEF UpOK
      <4> QED BY <4>1, <4>2 DEF UpOK
    <3>3. WireOK' /\ DownOK'
      BY <2>2 DEF Redial, WireOK, DownOK
    <3> QED BY <3>2, <3>3 DEF Framed
  <2>3. CASE AgentCloseEvent(n)
    BY <2>3, EmptySeq DEF AgentCloseEvent, Framed, UpOK, DownOK, WireOK
  <2> QED BY <2>1, <2>2, <2>3
<1> QED BY <1>1, <1>2, <1>3, <1>4, AgentPartsAfter

\* The agent's steps, the relay's variables aside.
LEMMA AgentStepType ==
  ASSUME UpOK, DownOK, WireOK, AgentTypeOK, AgentSteps
  PROVE  Framed' /\ AgentTypeOK'
<1>1. ASSUME NEW v \in Visitors, LocalHead(v) \/ LocalBody(v) \/ LocalRead(v) \/ LocalEnd(v) \/ LocalSpill(v) \/ LocalError(v) \/ LocalAnswer(v)
      PROVE  Framed' /\ AgentTypeOK'
  <2>1. UNCHANGED <<down, wire>>
    BY <1>1 DEF LocalHead, LocalBody, LocalRead, LocalEnd, LocalSpill, LocalError, LocalAnswer, JobsOnly
  <2> QED BY <1>1, <2>1, LocalType DEF Framed, DownOK, WireOK
<1>2. ASSUME NEW b \in Browsers, LinkOpen(b) \/ LinkMessage(b) \/ LinkClose(b) \/ LinkRefused(b) \/ LinkCongested(b)
      PROVE  Framed' /\ AgentTypeOK'
  <2>1. UNCHANGED <<down, wire>>
    BY <1>2 DEF LinkOpen, LinkMessage, LinkClose, LinkRefused, LinkCongested, SocketsOnly
  <2> QED BY <1>2, <2>1, LinkType DEF Framed, DownOK, WireOK
<1>3. CASE CookieSettled
  <2>1. UNCHANGED <<down, wire>>
    BY <1>3 DEF CookieSettled
  <2> QED BY <1>3, <2>1, CookieSettledType DEF Framed, DownOK, WireOK
<1>4. ASSUME NEW k \in Keys, SetE2E(k) PROVE Framed' /\ AgentTypeOK'
  <2>1. UNCHANGED <<down, wire>>
    BY <1>4 DEF SetE2E
  <2> QED BY <1>4, <2>1, SetE2EType DEF Framed, DownOK, WireOK
<1>5. CASE Reconnect \/ Redial \/ \E n \in Conns : AgentCloseEvent(n)
  BY <1>5, ControlType, Constants
<1> QED BY <1>1, <1>2, <1>3, <1>4, <1>5 DEF AgentSteps

LEMMA AgentReceiveType ==
  ASSUME TypeInv, NEW n \in Conns, AgentReceive(n)
  PROVE  TypeInv'
<1>1. Head(down[n]) \in DownFrames /\ DownOK'
  BY TakenType DEF TypeInv, AgentReceive, DownOK
<1>2. UpOK' /\ AgentTypeOK'
  BY <1>1, DispatchType DEF TypeInv, AgentReceive
<1>3. WireOK' /\ RelayTypeOK'
  BY DEF TypeInv, AgentReceive, WireOK, relayVars, RelayTypeOK
<1> QED BY <1>1, <1>2, <1>3 DEF TypeInv

LEMMA ArriveType ==
  ASSUME TypeInv, NEW v \in Visitors, Arrive(v)
  PROVE  TypeInv'
<1>1. RelayTypeOK' /\ Framed'
  BY RequestType DEF Arrive
<1>2. AskOK'
  BY AgentParts DEF TypeInv, Arrive, AskOK
<1>3. AgentTypeOK'
  <2>1. /\ SocketOK /\ TableOK(requests) /\ TableOK(buffered) /\ ParkedOK /\ LsocksOK
        /\ JobOK /\ LinkOK /\ GhostsOK /\ KeysOK /\ CookieOK /\ CrashOK
    BY AgentParts DEF TypeInv
  <2>2. /\ SocketOK' /\ TableOK(requests)' /\ TableOK(buffered)' /\ ParkedOK' /\ LsocksOK'
        /\ JobOK' /\ LinkOK' /\ GhostsOK' /\ KeysOK' /\ CookieOK' /\ CrashOK'
    BY <2>1 DEF Arrive, SocketOK, TableOK, ParkedOK, LsocksOK, JobOK, LinkOK, GhostsOK, KeysOK, CookieOK, CrashOK
  <2> QED BY <1>2, <2>2, AgentPartsAfter
<1> QED BY <1>1, <1>3 DEF TypeInv, Framed

LEMMA HandshakeType ==
  ASSUME TypeInv, NEW n \in Conns, Handshake(n)
  PROVE  TypeInv'
<1>1. Framed' /\ AgentTypeOK'
  BY ControlType DEF TypeInv, Handshake
<1>2. rst' \in [Conns -> RelayStates]
  BY DEF TypeInv, Handshake, Accept, RelayTypeOK, RelayStates
<1>3. RelayTypeOK'
  BY <1>2 DEF TypeInv, Handshake, RelayTypeOK
<1> QED BY <1>1, <1>3 DEF TypeInv, Framed

LEMMA StepType == ASSUME TypeInv, [Next]_vars PROVE TypeInv'
<1>1. ASSUME NEW v \in Visitors, Arrive(v) PROVE TypeInv'
  BY <1>1, ArriveType
<1>2. CASE (Public \/ RelaySteps) /\ UNCHANGED agentVars
  <2>1. AgentTypeOK'
    BY <1>2 DEF TypeInv, agentVars, AgentTypeOK
  <2> QED BY <1>2, <2>1, RelayStepType DEF TypeInv, Framed
<1>3. CASE AgentSteps /\ UNCHANGED relayVars
  <2>1. RelayTypeOK'
    BY <1>3 DEF TypeInv, relayVars, RelayTypeOK
  <2> QED BY <1>3, <2>1, AgentStepType DEF TypeInv, Framed
<1>4. ASSUME NEW n \in Conns, RelayReceive(n) \/ AgentReceive(n) \/ Handshake(n) PROVE TypeInv'
  BY <1>4, RelayReceiveType, AgentReceiveType, HandshakeType
<1>5. ASSUME NEW n \in Conns, Loss(n) PROVE TypeInv'
  BY <1>5 DEF Loss, Lose, TypeInv, DownOK, UpOK, WireOK, relayVars, agentVars, RelayTypeOK, AgentTypeOK
<1>6. CASE UNCHANGED vars
  BY <1>6 DEF vars, wireVars, TypeInv, DownOK, UpOK, WireOK, relayVars, agentVars, RelayTypeOK, AgentTypeOK
<1> QED BY <1>1, <1>2, <1>3, <1>4, <1>5, <1>6 DEF Next

LEMMA AlwaysTyped == Spec => []TypeInv
<1>1. TypeInv /\ [Next]_vars => TypeInv'
  BY StepType
<1> QED BY InitType, <1>1, PTL DEF Spec

\* Whatever connections, frames and mishaps there are, every table, channel and
\* handler's state keeps its type (TypeOK).
THEOREM TunnelTypeOK == Spec => []TypeOK
<1>1. TypeInv => TypeOK
  <2>1. DownFrames \subseteq FrameSet
    BY DEF DownFrames
  <2>2. DownOK => down \in [Conns -> Seq(FrameSet)]
    BY <2>1 DEF DownOK
  <2> QED BY <2>2 DEF TypeInv, UpOK, WireOK, TypeOK, WireTypeOK
<1> QED BY <1>1, AlwaysTyped, PTL

-----------------------------------------------------------------------------
(* The relay's bridges.  Every entry of a table is a response or a socket  *)
(* that is still up, under the place its handlers know, on a connection    *)
(* whose 'close' event is to come; and unless an id was used twice, nobody *)
(* shares a place and nothing that is up is missing from its table.        *)

Live == {"open", "closing"}
Spot(n, id) == [conn |-> n, id |-> id]

Entered ==
  \A n \in Conns, id \in Ids :
    /\ responses[n][id] # None => /\ pub[responses[n][id]] \in Pending
                                  /\ at[responses[n][id]] = Spot(n, id)
                                  /\ id \in activity[n] /\ rst[n] \in Live
    /\ sockets[n][id] # None => /\ tab[sockets[n][id]] = "open"
                                /\ at[sockets[n][id]] = Spot(n, id) /\ rst[n] \in Live

RoutedIsLive == routed # NoConn => rst[routed] \in Live

\* Ids are handed out upwards, and none twice.
Fresh ==
  ~wrapped => \A w \in Whos : at[w].conn # NoConn => at[w].id < nextId[at[w].conn]
Apart ==
  ~wrapped => \A w, x \in Whos : w # x /\ at[w].conn # NoConn => at[w] # at[x]

Present ==
  /\ \A v \in Visitors : pub[v] \in Pending =>
       at[v].conn # NoConn /\ (~wrapped => responses[at[v].conn][at[v].id] = v)
  /\ \A b \in Browsers : tab[b] = "open" =>
       at[b].conn # NoConn /\ (~wrapped => sockets[at[b].conn][at[b].id] = b)

RelayInv == Entered /\ RoutedIsLive /\ Fresh /\ Apart /\ Present

LEMMA InitRelay == Init => RelayInv
BY DEF Init, RelayInit, RelayInv, Entered, RoutedIsLive, Fresh, Apart, Present, NoPlace, Pending

\* What a step that gives out no id does to the tables and to what they hold.
ResponsesMove ==
  /\ \A n \in Conns, id \in Ids : responses'[n][id] # None =>
       /\ responses'[n][id] = responses[n][id] /\ pub'[responses[n][id]] \in Pending
       /\ (id \in activity[n]) => (id \in activity'[n])
  /\ \A v \in Visitors : pub'[v] \in Pending =>
       /\ pub[v] \in Pending
       /\ ~wrapped => responses'[at[v].conn][at[v].id] = responses[at[v].conn][at[v].id]
SocketsMove ==
  /\ \A n \in Conns, id \in Ids : sockets'[n][id] # None =>
       sockets'[n][id] = sockets[n][id] /\ tab'[sockets[n][id]] = "open"
  /\ \A b \in Browsers : tab'[b] = "open" =>
       /\ tab[b] = "open"
       /\ ~wrapped => sockets'[at[b].conn][at[b].id] = sockets[at[b].conn][at[b].id]
StatesMove ==
  /\ \A n \in Conns : rst[n] \in Live => \/ rst'[n] \in Live
                                         \/ \A id \in Ids : responses'[n][id] = None /\ sockets'[n][id] = None
  /\ routed' # NoConn => rst'[routed'] \in Live
IdsStay == UNCHANGED <<at, nextId, wrapped>>

LEMMA MoveKeeps ==
  ASSUME TypeInv, RelayInv, ResponsesMove, SocketsMove, StatesMove, IdsStay
  PROVE  RelayInv'
<1> USE DEF IdsStay
<1>1. Entered'
  <2> SUFFICES ASSUME NEW n \in Conns, NEW id \in Ids
               PROVE  /\ responses'[n][id] # None => /\ pub'[responses'[n][id]] \in Pending
                                                     /\ at'[responses'[n][id]] = Spot(n, id)
                                                     /\ id \in activity'[n] /\ rst'[n] \in Live
                      /\ sockets'[n][id] # None => /\ tab'[sockets'[n][id]] = "open"
                                                   /\ at'[sockets'[n][id]] = Spot(n, id) /\ rst'[n] \in Live
    BY DEF Entered, Spot
  <2>1. responses'[n][id] # None => /\ pub'[responses'[n][id]] \in Pending
                                    /\ at'[responses'[n][id]] = Spot(n, id)
                                    /\ id \in activity'[n] /\ rst'[n] \in Live
    BY DEF RelayInv, Entered, ResponsesMove, StatesMove
  <2>2. sockets'[n][id] # None => /\ tab'[sockets'[n][id]] = "open"
                                  /\ at'[sockets'[n][id]] = Spot(n, id) /\ rst'[n] \in Live
    BY DEF RelayInv, Entered, SocketsMove, StatesMove
  <2> QED BY <2>1, <2>2
<1>2. RoutedIsLive'
  BY DEF RoutedIsLive, StatesMove
<1>3. Fresh' /\ Apart'
  BY DEF RelayInv, Fresh, Apart
<1>4. Present'
  <2>1. ASSUME NEW v \in Visitors, pub'[v] \in Pending
        PROVE  at'[v].conn # NoConn /\ (~wrapped' => responses'[at'[v].conn][at'[v].id] = v)
    BY <2>1 DEF RelayInv, Present, ResponsesMove
  <2>2. ASSUME NEW b \in Browsers, tab'[b] = "open"
        PROVE  at'[b].conn # NoConn /\ (~wrapped' => sockets'[at'[b].conn][at'[b].id] = b)
    BY <2>2 DEF RelayInv, Present, SocketsMove
  <2> QED BY <2>1, <2>2 DEF Present
<1> QED BY <1>1, <1>2, <1>3, <1>4 DEF RelayInv

LEMMA StillMove ==
  /\ UNCHANGED <<responses, activity, pub>> => ResponsesMove \/ ~Entered
  /\ UNCHANGED <<sockets, tab>> => SocketsMove \/ ~Entered
BY DEF ResponsesMove, SocketsMove, Entered

LEMMA StillStates ==
  ASSUME RelayInv, UNCHANGED <<rst, routed>>
  PROVE  StatesMove
BY DEF StatesMove, RelayInv, RoutedIsLive

\* An id of a connection has one owner, and nobody owns two.
LEMMA OneOwner ==
  ASSUME RelayInv
  PROVE  \A n, m \in Conns, id, i \in Ids :
           responses[m][i] # None /\ ~(m = n /\ i = id) => responses[m][i] # responses[n][id]
<1> SUFFICES ASSUME NEW n \in Conns, NEW m \in Conns, NEW id \in Ids, NEW i \in Ids,
                    responses[m][i] # None, responses[m][i] = responses[n][id]
             PROVE  m = n /\ i = id
  OBVIOUS
<1>1. at[responses[m][i]] = Spot(m, i)
  BY DEF RelayInv, Entered
<1>2. at[responses[n][id]] = Spot(n, id)
  BY DEF RelayInv, Entered
<1>3. Spot(m, i) = Spot(n, id)
  BY <1>1, <1>2
<1> QED BY <1>3 DEF Spot

LEMMA OneSocketOwner ==
  ASSUME RelayInv
  PROVE  \A n, m \in Conns, id, i \in Ids :
           sockets[m][i] # None /\ ~(m = n /\ i = id) => sockets[m][i] # sockets[n][id]
<1> SUFFICES ASSUME NEW n \in Conns, NEW m \in Conns, NEW id \in Ids, NEW i \in Ids,
                    sockets[m][i] # None, sockets[m][i] = sockets[n][id]
             PROVE  m = n /\ i = id
  OBVIOUS
<1>1. at[sockets[m][i]] = Spot(m, i)
  BY DEF RelayInv, Entered
<1>2. at[sockets[n][id]] = Spot(n, id)
  BY DEF RelayInv, Entered
<1>3. Spot(m, i) = Spot(n, id)
  BY <1>1, <1>2
<1> QED BY <1>3 DEF Spot

\* A response that ends and leaves its table (Forget).
LEMMA EndedMoves ==
  ASSUME TypeInv, RelayInv, NEW n \in Conns, NEW id \in Ids, NEW s, s \notin Pending,
         Forget(n, id), pub' = Moved(responses[n][id], s)
  PROVE  ResponsesMove
<1> DEFINE r == responses[n][id]
<1>0. /\ responses \in [Conns -> [Ids -> Visitors \cup {None}]] /\ activity \in [Conns -> SUBSET Ids]
      /\ pub \in [Visitors -> PubSet] /\ None \notin Visitors
  BY WhosAre DEF TypeInv, RelayTypeOK, PubSet
<1>1. ASSUME NEW m \in Conns, NEW i \in Ids, responses'[m][i] # None
      PROVE  /\ responses'[m][i] = responses[m][i] /\ pub'[responses[m][i]] \in Pending
             /\ (i \in activity[m]) => (i \in activity'[m])
  <2>1. ~(m = n /\ i = id) /\ responses'[m][i] = responses[m][i]
    BY <1>0, <1>1 DEF Forget
  <2>2. (i \in activity[m]) => (i \in activity'[m])
    BY <1>0, <2>1 DEF Forget
  <2>3. responses[m][i] # r
    BY <1>1, <2>1, OneOwner
  <2>4. pub'[responses[m][i]] = pub[responses[m][i]]
    BY <1>0, <1>1, <2>1, <2>3 DEF Moved
  <2> QED BY <1>1, <2>1, <2>2, <2>4 DEF RelayInv, Entered
<1>2. ASSUME NEW v \in Visitors, pub'[v] \in Pending
      PROVE  /\ pub[v] \in Pending
             /\ ~wrapped => responses'[at[v].conn][at[v].id] = responses[at[v].conn][at[v].id]
  <2>1. v # r /\ pub[v] \in Pending
    BY <1>0, <1>2 DEF Moved
  <2>2. ASSUME ~wrapped PROVE responses[at[v].conn][at[v].id] = v /\ at[v].conn \in Conns /\ at[v].id \in Ids
    BY <2>1, <2>2, PlaceType, WhosAre DEF RelayInv, Present, TypeInv
  <2>3. ASSUME ~wrapped PROVE ~(at[v].conn = n /\ at[v].id = id)
    BY <2>1, <2>2, <2>3
  <2>4. ASSUME ~wrapped PROVE responses'[at[v].conn][at[v].id] = responses[at[v].conn][at[v].id]
    BY <1>0, <2>2, <2>3, <2>4 DEF Forget
  <2> QED BY <2>1, <2>4
<1> QED BY <1>1, <1>2 DEF ResponsesMove

\* A browser socket that closes and leaves its table.
LEMMA ClosedMoves ==
  ASSUME TypeInv, RelayInv, NEW n \in Conns, NEW id \in Ids,
         sockets' = [sockets EXCEPT ![n][id] = None],
         tab' = IF sockets[n][id] = None THEN tab ELSE [tab EXCEPT ![sockets[n][id]] = "closed"]
  PROVE  SocketsMove
<1> DEFINE r == sockets[n][id]
<1>0. /\ sockets \in [Conns -> [Ids -> Browsers \cup {None}]]
      /\ tab \in [Browsers -> {"idle", "open", "closed"}] /\ None \notin Browsers
  BY WhosAre DEF TypeInv, RelayTypeOK
<1>1. ASSUME NEW m \in Conns, NEW i \in Ids, sockets'[m][i] # None
      PROVE  sockets'[m][i] = sockets[m][i] /\ tab'[sockets[m][i]] = "open"
  <2>1. ~(m = n /\ i = id) /\ sockets'[m][i] = sockets[m][i]
    BY <1>0, <1>1
  <2>2. sockets[m][i] # r
    BY <1>1, <2>1, OneSocketOwner
  <2>3. tab'[sockets[m][i]] = tab[sockets[m][i]]
    BY <1>0, <1>1, <2>1, <2>2
  <2> QED BY <1>1, <2>1, <2>3 DEF RelayInv, Entered
<1>2. ASSUME NEW b \in Browsers, tab'[b] = "open"
      PROVE  /\ tab[b] = "open"
             /\ ~wrapped => sockets'[at[b].conn][at[b].id] = sockets[at[b].conn][at[b].id]
  <2>1. b # r /\ tab[b] = "open"
    BY <1>0, <1>2
  <2>2. ASSUME ~wrapped PROVE sockets[at[b].conn][at[b].id] = b /\ at[b].conn \in Conns /\ at[b].id \in Ids
    BY <2>1, <2>2, PlaceType, WhosAre DEF RelayInv, Present, TypeInv
  <2>3. ASSUME ~wrapped PROVE ~(at[b].conn = n /\ at[b].id = id)
    BY <2>1, <2>2, <2>3
  <2>4. ASSUME ~wrapped PROVE sockets'[at[b].conn][at[b].id] = sockets[at[b].conn][at[b].id]
    BY <1>0, <2>2, <2>3, <2>4
  <2> QED BY <2>1, <2>4
<1> QED BY <1>1, <1>2 DEF SocketsMove

\* A response starts (headers) or goes on; the sweep watches it.
LEMMA GoesOnMoves ==
  ASSUME TypeInv, RelayInv, NEW n \in Conns, NEW id \in Ids, UNCHANGED responses, Watch(n, id),
         pub' = pub \/ pub' = Moved(responses[n][id], "headers")
  PROVE  ResponsesMove
<1>0. /\ responses \in [Conns -> [Ids -> Visitors \cup {None}]] /\ activity \in [Conns -> SUBSET Ids]
      /\ pub \in [Visitors -> PubSet]
  BY DEF TypeInv, RelayTypeOK, PubSet
<1>1. ASSUME NEW m \in Conns, NEW i \in Ids, i \in activity[m] PROVE i \in activity'[m]
  BY <1>0, <1>1 DEF Watch
<1>2. ASSUME NEW v \in Visitors PROVE (pub'[v] \in Pending) <=> (pub[v] \in Pending)
  <2>1. responses[n][id] # None => pub[responses[n][id]] \in Pending
    BY DEF RelayInv, Entered
  <2> QED BY <1>0, <2>1 DEF Moved, Pending
<1>3. ASSUME NEW m \in Conns, NEW i \in Ids, responses'[m][i] # None
      PROVE  pub'[responses[m][i]] \in Pending
  <2>1. responses[m][i] \in Visitors /\ pub[responses[m][i]] \in Pending
    BY <1>0, <1>3 DEF RelayInv, Entered
  <2> QED BY <2>1, <1>2
<1> QED BY <1>1, <1>2, <1>3 DEF ResponsesMove

\* A client that leaves takes what its own place holds out of the table.
LEMMA LeftMoves ==
  ASSUME TypeInv, RelayInv, NEW v \in Visitors, pub[v] \in Pending,
         Forget(at[v].conn, at[v].id), pub' = [pub EXCEPT ![v] = "gone"]
  PROVE  ResponsesMove
<1>0. /\ responses \in [Conns -> [Ids -> Visitors \cup {None}]] /\ activity \in [Conns -> SUBSET Ids]
      /\ pub \in [Visitors -> PubSet] /\ v \in Whos
  BY WhosAre DEF TypeInv, RelayTypeOK, PubSet
<1>1. at[v].conn \in Conns /\ at[v].id \in Ids
  BY <1>0, PlaceType DEF RelayInv, Present, TypeInv
<1>2. ASSUME NEW m \in Conns, NEW i \in Ids, responses'[m][i] # None
      PROVE  /\ responses'[m][i] = responses[m][i] /\ pub'[responses[m][i]] \in Pending
             /\ (i \in activity[m]) => (i \in activity'[m])
  <2>1. ~(m = at[v].conn /\ i = at[v].id) /\ responses'[m][i] = responses[m][i]
    BY <1>0, <1>1, <1>2 DEF Forget
  <2>2. (i \in activity[m]) => (i \in activity'[m])
    BY <1>0, <1>1, <2>1 DEF Forget
  <2>3. pub[responses[m][i]] \in Pending /\ at[responses[m][i]] = Spot(m, i)
    BY <1>2, <2>1 DEF RelayInv, Entered
  <2>4. responses[m][i] # v
    BY <2>1, <2>3 DEF Spot
  <2>5. pub'[responses[m][i]] = pub[responses[m][i]]
    BY <1>0, <1>2, <2>1, <2>4
  <2> QED BY <2>1, <2>2, <2>3, <2>5
<1>3. ASSUME NEW u \in Visitors, pub'[u] \in Pending
      PROVE  /\ pub[u] \in Pending
             /\ ~wrapped => responses'[at[u].conn][at[u].id] = responses[at[u].conn][at[u].id]
  <2>1. u # v /\ pub[u] \in Pending /\ u \in Whos
    BY <1>0, <1>3, WhosAre DEF Pending
  <2>2. at[u].conn \in Conns /\ at[u].id \in Ids
    BY <2>1, PlaceType DEF RelayInv, Present, TypeInv
  <2>3. ASSUME ~wrapped PROVE ~(at[u].conn = at[v].conn /\ at[u].id = at[v].id)
    <3>1. responses[at[u].conn][at[u].id] = u /\ responses[at[v].conn][at[v].id] = v
      BY <2>1, <2>3 DEF RelayInv, Present
    <3> QED BY <3>1, <2>1
  <2>4. ASSUME ~wrapped PROVE responses'[at[u].conn][at[u].id] = responses[at[u].conn][at[u].id]
    BY <1>0, <1>1, <2>2, <2>3, <2>4 DEF Forget
  <2> QED BY <2>1, <2>4
<1> QED BY <1>2, <1>3 DEF ResponsesMove

LEMMA SocketLeftMoves ==
  ASSUME TypeInv, RelayInv, NEW b \in Browsers, tab[b] = "open",
         sockets' = [sockets EXCEPT ![at[b].conn][at[b].id] = None],
         tab' = [tab EXCEPT ![b] = "closed"]
  PROVE  SocketsMove
<1>0. /\ sockets \in [Conns -> [Ids -> Browsers \cup {None}]]
      /\ tab \in [Browsers -> {"idle", "open", "closed"}] /\ b \in Whos
  BY WhosAre DEF TypeInv, RelayTypeOK
<1>1. at[b].conn \in Conns /\ at[b].id \in Ids
  BY <1>0, PlaceType DEF RelayInv, Present, TypeInv
<1>2. ASSUME NEW m \in Conns, NEW i \in Ids, sockets'[m][i] # None
      PROVE  sockets'[m][i] = sockets[m][i] /\ tab'[sockets[m][i]] = "open"
  <2>1. ~(m = at[b].conn /\ i = at[b].id) /\ sockets'[m][i] = sockets[m][i]
    BY <1>0, <1>1, <1>2
  <2>2. tab[sockets[m][i]] = "open" /\ at[sockets[m][i]] = Spot(m, i)
    BY <1>2, <2>1 DEF RelayInv, Entered
  <2>3. sockets[m][i] # b
    BY <2>1, <2>2 DEF Spot
  <2>4. tab'[sockets[m][i]] = tab[sockets[m][i]]
    BY <1>0, <1>2, <2>1, <2>3
  <2> QED BY <2>1, <2>2, <2>4
<1>3. ASSUME NEW c \in Browsers, tab'[c] = "open"
      PROVE  /\ tab[c] = "open"
             /\ ~wrapped => sockets'[at[c].conn][at[c].id] = sockets[at[c].conn][at[c].id]
  <2>1. c # b /\ tab[c] = "open" /\ c \in Whos
    BY <1>0, <1>3, WhosAre
  <2>2. at[c].conn \in Conns /\ at[c].id \in Ids
    BY <2>1, PlaceType DEF RelayInv, Present, TypeInv
  <2>3. ASSUME ~wrapped PROVE ~(at[c].conn = at[b].conn /\ at[c].id = at[b].id)
    <3>1. sockets[at[c].conn][at[c].id] = c /\ sockets[at[b].conn][at[b].id] = b
      BY <2>1, <2>3 DEF RelayInv, Present
    <3> QED BY <3>1, <2>1
  <2>4. ASSUME ~wrapped PROVE sockets'[at[c].conn][at[c].id] = sockets[at[c].conn][at[c].id]
    BY <1>0, <1>1, <2>2, <2>3, <2>4
  <2> QED BY <2>1, <2>4
<1> QED BY <1>2, <1>3 DEF SocketsMove

\* cleanup fails what was bridged over n and nothing else.
LEMMA CleanupMoves ==
  ASSUME TypeInv, RelayInv, NEW n \in Conns, Cleanup(n)
  PROVE  /\ ResponsesMove /\ SocketsMove
         /\ \A id \in Ids : responses'[n][id] = None /\ sockets'[n][id] = None
<1>0. /\ responses \in [Conns -> [Ids -> Visitors \cup {None}]] /\ activity \in [Conns -> SUBSET Ids]
      /\ sockets \in [Conns -> [Ids -> Browsers \cup {None}]]
  BY DEF TypeInv, RelayTypeOK
<1>1. \A id \in Ids : responses'[n][id] = None /\ sockets'[n][id] = None
  BY <1>0 DEF Cleanup
<1>2. \A m \in Conns : m # n => responses'[m] = responses[m] /\ sockets'[m] = sockets[m] /\ activity'[m] = activity[m]
  BY <1>0 DEF Cleanup
<1>3. ASSUME NEW v \in Visitors, v \notin BridgedResponses(n) PROVE pub'[v] = pub[v]
  BY <1>3 DEF Cleanup
<1>4. ASSUME NEW v \in Visitors, v \in BridgedResponses(n) PROVE pub'[v] \notin Pending
  <2>1. pub'[v] = WrittenOff(pub[v])
    BY <1>4 DEF Cleanup
  <2> QED BY <2>1 DEF WrittenOff, Pending
<1>5. ASSUME NEW b \in Browsers PROVE tab'[b] = IF b \in BridgedSockets(n) THEN "closed" ELSE tab[b]
  BY DEF Cleanup
<1>6. ResponsesMove
  <2>1. ASSUME NEW m \in Conns, NEW i \in Ids, responses'[m][i] # None
        PROVE  /\ responses'[m][i] = responses[m][i] /\ pub'[responses[m][i]] \in Pending
               /\ (i \in activity[m]) => (i \in activity'[m])
    <3>1. m # n
      BY <1>1, <2>1
    <3>2. responses'[m][i] = responses[m][i] /\ activity'[m] = activity[m]
      BY <1>2, <3>1
    <3>3. responses[m][i] \in Visitors /\ pub[responses[m][i]] \in Pending
      BY <1>0, <2>1, <3>2 DEF RelayInv, Entered
    <3>4. responses[m][i] \notin BridgedResponses(n)
      BY <2>1, <3>1, <3>2, OneOwner DEF BridgedResponses
    <3> QED BY <1>3, <3>2, <3>3, <3>4
  <2>2. ASSUME NEW v \in Visitors, pub'[v] \in Pending
        PROVE  /\ pub[v] \in Pending
               /\ ~wrapped => responses'[at[v].conn][at[v].id] = responses[at[v].conn][at[v].id]
    <3>1. v \notin BridgedResponses(n)
      BY <1>4, <2>2
    <3>2. pub[v] \in Pending /\ v \in Whos
      BY <1>3, <2>2, <3>1, WhosAre
    <3>3. at[v].conn \in Conns /\ at[v].id \in Ids
      BY <3>2, PlaceType DEF RelayInv, Present, TypeInv
    <3>4. ASSUME ~wrapped PROVE at[v].conn # n
      <4>1. responses[at[v].conn][at[v].id] = v
        BY <3>2, <3>4 DEF RelayInv, Present
      <4> QED BY <3>1, <3>3, <4>1 DEF BridgedResponses
    <3> QED BY <1>2, <3>2, <3>3, <3>4
  <2> QED BY <2>1, <2>2 DEF ResponsesMove
<1>7. SocketsMove
  <2>1. ASSUME NEW m \in Conns, NEW i \in Ids, sockets'[m][i] # None
        PROVE  sockets'[m][i] = sockets[m][i] /\ tab'[sockets[m][i]] = "open"
    <3>1. m # n
      BY <1>1, <2>1
    <3>2. sockets'[m][i] = sockets[m][i]
      BY <1>2, <3>1
    <3>3. sockets[m][i] \in Browsers /\ tab[sockets[m][i]] = "open"
      BY <1>0, <2>1, <3>2 DEF RelayInv, Entered
    <3>4. sockets[m][i] \notin BridgedSockets(n)
      BY <2>1, <3>1, <3>2, OneSocketOwner DEF BridgedSockets
    <3> QED BY <1>5, <3>2, <3>3, <3>4
  <2>2. ASSUME NEW b \in Browsers, tab'[b] = "open"
        PROVE  /\ tab[b] = "open"
               /\ ~wrapped => sockets'[at[b].conn][at[b].id] = sockets[at[b].conn][at[b].id]
    <3>1. b \notin BridgedSockets(n) /\ tab[b] = "open" /\ b \in Whos
      BY <1>5, <2>2, WhosAre
    <3>3. at[b].conn \in Conns /\ at[b].id \in Ids
      BY <3>1, PlaceType DEF RelayInv, Present, TypeInv
    <3>4. ASSUME ~wrapped PROVE at[b].conn # n
      <4>1. sockets[at[b].conn][at[b].id] = b
        BY <3>1, <3>4 DEF RelayInv, Present
      <4> QED BY <3>1, <3>3, <4>1 DEF BridgedSockets
    <3> QED BY <1>2, <3>1, <3>3, <3>4
  <2> QED BY <2>1, <2>2 DEF SocketsMove
<1> QED BY <1>1, <1>6, <1>7

\* Public requests and sockets after their opening.
LEMMA PublicKeeps ==
  ASSUME TypeInv, RelayInv,
         \/ \E v \in Visitors : RequestEnd(v) \/ RequestError(v) \/ ClientClose(v)
         \/ \E b \in Browsers : BrowserMessage(b) \/ BrowserClose(b)
  PROVE  RelayInv'
<1> DEFINE NothingMoves == UNCHANGED <<rst, routed, nextId, responses, activity, sockets, at, pub, tab, wrapped>>
<1>1. ASSUME NothingMoves PROVE RelayInv'
  <2>1. ResponsesMove /\ SocketsMove
    BY <1>1, StillMove DEF RelayInv
  <2>2. StatesMove
    BY <1>1, StillStates
  <2> QED BY <1>1, <2>1, <2>2, MoveKeeps DEF IdsStay
<1>2. ASSUME NEW v \in Visitors, RequestEnd(v) \/ RequestError(v) PROVE RelayInv'
  BY <1>2, <1>1 DEF RequestEnd, RequestError
<1>3. ASSUME NEW b \in Browsers, BrowserMessage(b) PROVE RelayInv'
  BY <1>3, <1>1 DEF BrowserMessage, relayVars
<1>4. ASSUME NEW v \in Visitors, ClientClose(v) PROVE RelayInv'
  <2>1. /\ pub[v] \in Pending /\ pub' = [pub EXCEPT ![v] = "gone"]
        /\ Forget(at[v].conn, at[v].id)
        /\ UNCHANGED <<rst, routed, nextId, sockets, at, tab, wrapped>>
    BY <1>4 DEF ClientClose
  <2>2. ResponsesMove
    BY <2>1, LeftMoves
  <2>3. SocketsMove /\ StatesMove
    BY <2>1, StillMove, StillStates DEF RelayInv
  <2> QED BY <2>1, <2>2, <2>3, MoveKeeps DEF IdsStay
<1>5. ASSUME NEW b \in Browsers, BrowserClose(b) PROVE RelayInv'
  <2>1. /\ tab[b] = "open" /\ tab' = [tab EXCEPT ![b] = "closed"]
        /\ sockets' = [sockets EXCEPT ![at[b].conn][at[b].id] = None]
        /\ UNCHANGED <<rst, routed, nextId, responses, activity, at, pub, wrapped>>
    BY <1>5 DEF BrowserClose
  <2>2. SocketsMove
    BY <2>1, SocketLeftMoves
  <2>3. ResponsesMove /\ StatesMove
    BY <2>1, StillMove, StillStates DEF RelayInv
  <2> QED BY <2>1, <2>2, <2>3, MoveKeeps DEF IdsStay
<1> QED BY <1>2, <1>3, <1>4, <1>5

\* What the relay does with a frame of the agent's.
LEMMA FrameKeeps ==
  ASSUME TypeInv, RelayInv, NEW n \in Conns, NEW f \in FrameSet, OnAgentFrame(n, f)
  PROVE  RelayInv'
<1>0. f.id \in Ids
  BY DEF FrameSet
<1>1. UNCHANGED <<rst, routed, nextId, at, wrapped>>
  BY DEF OnAgentFrame
<1>2. StatesMove /\ IdsStay
  BY <1>1, StillStates DEF IdsStay
<1>3. ASSUME ResponsesMove, SocketsMove PROVE RelayInv'
  BY <1>2, <1>3, MoveKeeps
<1> DEFINE r == responses[n][f.id]
           b == sockets[n][f.id]
<1>4. UNCHANGED <<sockets, tab>> => SocketsMove
  BY StillMove DEF RelayInv
<1>5. UNCHANGED <<responses, activity, pub>> => ResponsesMove
  BY StillMove DEF RelayInv
<1>6. \A s : s \notin Pending /\ Forget(n, f.id) /\ pub' = Moved(r, s) => ResponsesMove
  BY <1>0, EndedMoves
<1>7. /\ sockets' = [sockets EXCEPT ![n][f.id] = None]
      /\ tab' = IF b = None THEN tab ELSE [tab EXCEPT ![b] = "closed"]
      => SocketsMove
  BY <1>0, ClosedMoves
<1>8. "complete" \notin Pending /\ "destroyed" \notin Pending
  BY DEF Pending
<1>9. ASSUME ResHead(n, f) PROVE RelayInv'
  <2>1. /\ UNCHANGED responses /\ Watch(n, f.id) /\ UNCHANGED <<sockets, tab>>
        /\ pub' = pub \/ pub' = Moved(r, "headers")
    BY <1>9 DEF ResHead
  <2>2. ResponsesMove
    BY <1>0, <2>1, GoesOnMoves
  <2> QED BY <1>3, <1>4, <2>1, <2>2
<1>10. ASSUME ResBody(n, f) PROVE RelayInv'
  <2>1. UNCHANGED <<sockets, tab>>
    BY <1>10 DEF ResBody
  <2>2. \/ UNCHANGED <<responses, activity, pub>>
        \/ UNCHANGED responses /\ Watch(n, f.id) /\ pub' = Moved(r, "headers")
        \/ Forget(n, f.id) /\ pub' = Moved(r, "destroyed")
    BY <1>10 DEF ResBody
  <2>3. ResponsesMove
    BY <1>0, <1>5, <1>6, <1>8, <2>2, GoesOnMoves
  <2> QED BY <1>3, <1>4, <2>1, <2>3
<1>11. ASSUME ResEnd(n, f) PROVE RelayInv'
  <2>1. UNCHANGED <<sockets, tab>> /\ Forget(n, f.id) /\ pub' = Moved(r, "complete")
    BY <1>11 DEF ResEnd
  <2>2. ResponsesMove
    BY <1>6, <1>8, <2>1
  <2> QED BY <1>3, <1>4, <2>1, <2>2
<1>12. ASSUME WsMessage(n, f) PROVE RelayInv'
  <2>1. UNCHANGED <<responses, activity, pub>>
    BY <1>12 DEF WsMessage
  <2>2. \/ UNCHANGED <<sockets, tab>>
        \/ /\ sockets' = [sockets EXCEPT ![n][f.id] = None]
           /\ b # None /\ tab' = [tab EXCEPT ![b] = "closed"]
    BY <1>12 DEF WsMessage
  <2>3. SocketsMove
    BY <1>4, <1>7, <2>2
  <2> QED BY <1>3, <1>5, <2>1, <2>3
<1>13. ASSUME WsGone(n, f) PROVE RelayInv'
  <2>1. UNCHANGED <<responses, activity, pub>>
    BY <1>13 DEF WsGone
  <2>2. SocketsMove
    BY <1>7, <1>13 DEF WsGone
  <2> QED BY <1>3, <1>5, <2>1, <2>2
<1>14. ASSUME AgentAbort(n, f) PROVE RelayInv'
  <2>1. Forget(n, f.id) /\ pub' = Moved(r, "destroyed")
    BY <1>14 DEF AgentAbort
  <2>2. SocketsMove
    BY <1>7, <1>14 DEF AgentAbort
  <2>3. ResponsesMove
    BY <1>6, <1>8, <2>1
  <2> QED BY <1>3, <2>2, <2>3
<1> QED BY <1>9, <1>10, <1>11, <1>12, <1>13, <1>14 DEF OnAgentFrame

\* The life of a connection.
LEMMA ConnectionKeeps ==
  ASSUME TypeInv, RelayInv, NEW n \in Conns,
         \/ Admit(n) \/ Terminate(n) \/ PeerClose(n) \/ CloseEvent(n)
         \/ Accept(n) /\ UNCHANGED <<routed, nextId, responses, activity, sockets, at, pub, tab, wrapped>>
  PROVE  RelayInv'
<1>0. rst \in [Conns -> RelayStates] /\ routed \in Conns \cup {NoConn} /\ NoConn \notin Conns
  BY DEF TypeInv, RelayTypeOK, Conns, NoConn
<1>1. ASSUME \/ Admit(n) \/ Terminate(n) \/ PeerClose(n)
             \/ Accept(n) /\ UNCHANGED <<routed, nextId, responses, activity, sockets, at, pub, tab, wrapped>>
      PROVE  RelayInv'
  <2>1. UNCHANGED <<nextId, responses, activity, sockets, at, pub, tab, wrapped>>
    BY <1>1 DEF Admit, Terminate, PeerClose
  <2>2. ResponsesMove /\ SocketsMove
    BY <2>1, StillMove DEF RelayInv
  <2>3. ASSUME NEW m \in Conns, rst[m] \in Live PROVE rst'[m] \in Live
    BY <1>0, <1>1, <2>3 DEF Admit, Terminate, PeerClose, Accept, Live
  <2>4. routed' # NoConn => rst'[routed'] \in Live
    <3>1. CASE Admit(n)
      BY <1>0, <3>1 DEF Admit, Live
    <3>2. CASE ~Admit(n)
      BY <1>0, <1>1, <2>3, <3>2 DEF Terminate, PeerClose, RelayInv, RoutedIsLive
    <3> QED BY <3>1, <3>2
  <2>5. StatesMove
    BY <2>3, <2>4 DEF StatesMove
  <2> QED BY <2>1, <2>2, <2>5, MoveKeeps DEF IdsStay
<1>2. ASSUME CloseEvent(n) PROVE RelayInv'
  <2>1. /\ Cleanup(n) /\ UNCHANGED <<nextId, at, wrapped>>
        /\ rst' = [rst EXCEPT ![n] = "closed"] /\ routed' = IF routed = n THEN NoConn ELSE routed
    BY <1>2 DEF CloseEvent
  <2>2. /\ ResponsesMove /\ SocketsMove
        /\ \A id \in Ids : responses'[n][id] = None /\ sockets'[n][id] = None
    BY <2>1, CleanupMoves
  <2>3. StatesMove
    BY <1>0, <2>1, <2>2 DEF StatesMove, RelayInv, RoutedIsLive, Live
  <2> QED BY <2>1, <2>2, <2>3, MoveKeeps DEF IdsStay
<1> QED BY <1>1, <1>2

LEMMA IdleTimeoutKeeps ==
  ASSUME TypeInv, RelayInv, NEW n \in Conns, NEW id \in Ids, IdleTimeout(n, id)
  PROVE  RelayInv'
<1> DEFINE r == responses[n][id]
<1>1. /\ pub' = IF r = None THEN pub ELSE [pub EXCEPT ![r] = WrittenOff(pub[r])]
      /\ Forget(n, id) /\ UNCHANGED <<rst, routed, nextId, sockets, at, tab, wrapped>>
  BY DEF IdleTimeout
<1>2. pub' = Moved(r, WrittenOff(pub[r])) /\ WrittenOff(pub[r]) \notin Pending
  BY <1>1 DEF Moved, WrittenOff, Pending
<1>3. ResponsesMove
  BY <1>1, <1>2, EndedMoves
<1>4. SocketsMove /\ StatesMove
  BY <1>1, StillMove, StillStates DEF RelayInv
<1> QED BY <1>1, <1>3, <1>4, MoveKeeps DEF IdsStay

\* Opening a stream: an id of the routed connection goes to w, which had none.
Issued(w) ==
  /\ routed \in Conns
  /\ at' = [at EXCEPT ![w] = Spot(routed, nextId[routed])]
  /\ nextId' = [nextId EXCEPT ![routed] = AllocNext(nextId[routed])]
  /\ wrapped' = (wrapped \/ nextId[routed] >= MaxId)
  /\ UNCHANGED <<rst, routed>>

LEMMA IssueKeeps ==
  ASSUME TypeInv, RelayInv, NEW w \in Whos, Issued(w)
  PROVE  /\ RoutedIsLive' /\ Fresh' /\ Apart'
         /\ nextId[routed] \in Ids /\ (wrapped => wrapped')
         /\ at'[w] = Spot(routed, nextId[routed])
         /\ \A x \in Whos : x # w =>
              /\ at'[x] = at[x]
              /\ ~wrapped => ~(at[x].conn = routed /\ at[x].id = nextId[routed])
<1> DEFINE n == routed
           id == nextId[n]
<1>0. /\ nextId \in [Conns -> Ids] /\ at \in [Whos -> [conn : Conns \cup {NoConn}, id : Ids]]
      /\ n \in Conns /\ id \in Ids
  BY DEF TypeInv, RelayTypeOK, Issued
<1>a. n # NoConn /\ Ids \subseteq Nat /\ MaxId \in Nat /\ NoConn \notin Conns
  BY <1>0, Constants
<1>d. id \in Nat
  <2>1. id \in Ids
    BY <1>0
  <2> QED BY <2>1, Constants
<1>1. at'[w] = Spot(n, id) /\ \A x \in Whos : x # w => at'[x] = at[x]
  BY <1>0 DEF Issued
<1>2. wrapped => wrapped'
  BY DEF Issued
<1>b. ~wrapped' => ~wrapped /\ ~(id >= MaxId)
  BY Zenon DEF Issued
<1>3. ~wrapped' => ~wrapped /\ id < MaxId
  BY <1>a, <1>b, <1>d
<1>c. id < MaxId => AllocNext(id) = id + 1
  BY <1>a, <1>d DEF AllocNext
<1>4. ~wrapped' => nextId' = [nextId EXCEPT ![n] = id + 1]
  <2>1. nextId' = [nextId EXCEPT ![n] = AllocNext(id)]
    BY DEF Issued
  <2> QED BY <1>3, <1>c, <2>1
<1>5. ASSUME NEW x \in Whos, x # w, ~wrapped PROVE ~(at[x].conn = n /\ at[x].id = id)
  <2>1. at[x].conn # NoConn => at[x].id < nextId[at[x].conn]
    BY <1>5, Zenon DEF RelayInv, Fresh
  <2>2. ~(id < id)
    BY <1>d
  <2> QED BY <1>0, <1>a, <2>1, <2>2
<1>6. RoutedIsLive'
  BY DEF RelayInv, RoutedIsLive, Issued
<1>7. Fresh'
  <2> SUFFICES ASSUME ~wrapped', NEW x \in Whos, at'[x].conn # NoConn
               PROVE  at'[x].id < nextId'[at'[x].conn]
    BY DEF Fresh
  <2>1. CASE x = w
    <3>1. at'[x].conn = n /\ at'[x].id = id
      BY <1>1, <2>1 DEF Spot
    <3>2. nextId'[n] = id + 1
      BY <1>0, <1>4
    <3> QED BY <1>d, <3>1, <3>2
  <2>2. CASE x # w
    <3>1. at'[x] = at[x] /\ at[x].conn \in Conns /\ at[x].id \in Nat
      BY <1>0, <1>a, <1>1, <2>2
    <3>2. at[x].id < nextId[at[x].conn]
      BY <1>3, <3>1 DEF RelayInv, Fresh
    <3>3. nextId[at[x].conn] <= nextId'[at[x].conn] /\ nextId[at[x].conn] \in Nat /\ nextId'[at[x].conn] \in Nat
      <4>1. nextId' = [nextId EXCEPT ![n] = id + 1]
        BY <1>4
      <4>2. nextId[at[x].conn] \in Nat /\ id + 1 \in Nat /\ id <= id + 1 /\ id \in Nat
        <5>1. nextId[at[x].conn] \in Ids
          BY <1>0, <3>1
        <5>2. nextId[at[x].conn] \in Nat
          BY <5>1, <1>a
        <5>3. id + 1 \in Nat /\ id <= id + 1
          BY <1>d
        <5> QED BY <1>d, <5>2, <5>3
      <4>3. CASE at[x].conn = n
        BY <1>0, <4>1, <4>2, <4>3
      <4>4. CASE at[x].conn # n
        <5>1. nextId'[at[x].conn] = nextId[at[x].conn]
          BY <1>0, <3>1, <4>1, <4>4
        <5> QED BY <4>2, <5>1
      <4> QED BY <4>3, <4>4
    <3>4. at'[x].id < nextId'[at[x].conn]
      BY <3>1, <3>2, <3>3
    <3> QED BY <3>1, <3>4
  <2> QED BY <2>1, <2>2
<1>8. Apart'
  <2> SUFFICES ASSUME ~wrapped', NEW x \in Whos, NEW y \in Whos, x # y, at'[x].conn # NoConn, at'[x] = at'[y]
               PROVE  FALSE
    BY DEF Apart
  <2>1. CASE x = w
    BY <1>1, <1>3, <1>5, <2>1 DEF Spot
  <2>2. CASE y = w
    BY <1>1, <1>3, <1>5, <2>2 DEF Spot
  <2>3. CASE x # w /\ y # w
    BY <1>1, <1>3, <2>3 DEF RelayInv, Apart
  <2> QED BY <2>1, <2>2, <2>3
<1> QED BY <1>0, <1>1, <1>2, <1>5, <1>6, <1>7, <1>8

LEMMA RequestKeeps ==
  ASSUME TypeInv, RelayInv, NEW v \in Visitors, Request(v)
  PROVE  RelayInv'
<1>0. /\ responses \in [Conns -> [Ids -> Visitors \cup {None}]] /\ activity \in [Conns -> SUBSET Ids]
      /\ pub \in [Visitors -> PubSet] /\ v \in Whos /\ routed \in Conns \cup {NoConn}
      /\ sockets \in [Conns -> [Ids -> Browsers \cup {None}]]
  BY WhosAre DEF TypeInv, RelayTypeOK, PubSet
<1>1. pub[v] = "idle" /\ "idle" \notin Pending /\ "failed" \notin Pending
  BY DEF Request, Pending
<1>2. \A m \in Conns, i \in Ids : responses[m][i] # None => responses[m][i] # v
  BY <1>1 DEF RelayInv, Entered
<1>3. CASE routed = NoConn
  <2>1. pub' = [pub EXCEPT ![v] = "failed"] /\ UNCHANGED <<rst, routed, nextId, responses, activity, sockets, at, tab, wrapped>>
    BY <1>3 DEF Request
  <2>2. ResponsesMove
    <3>1. ASSUME NEW m \in Conns, NEW i \in Ids, responses'[m][i] # None
          PROVE  pub'[responses[m][i]] \in Pending
      BY <1>0, <1>2, <2>1, <3>1 DEF RelayInv, Entered
    <3>2. ASSUME NEW u \in Visitors, pub'[u] \in Pending PROVE pub[u] \in Pending
      BY <1>0, <1>1, <2>1, <3>2
    <3> QED BY <2>1, <3>1, <3>2 DEF ResponsesMove
  <2>3. SocketsMove /\ StatesMove
    BY <2>1, StillMove, StillStates DEF RelayInv
  <2> QED BY <2>1, <2>2, <2>3, MoveKeeps DEF IdsStay
<1>4. CASE routed # NoConn
  <2> DEFINE n == routed
             id == nextId[n]
  <2>1. /\ n \in Conns
        /\ responses' = [responses EXCEPT ![n][id] = v]
        /\ activity' = [activity EXCEPT ![n] = @ \cup {id}]
        /\ pub' = [pub EXCEPT ![v] = "waiting"]
        /\ UNCHANGED <<rst, routed, sockets, tab>>
    BY <1>0, <1>4 DEF Request, Watch
  <2>2. Issued(v)
    BY <2>1, <1>4 DEF Request, Issued, Spot
  <2>3. /\ RoutedIsLive' /\ Fresh' /\ Apart'
        /\ id \in Ids /\ (wrapped => wrapped')
        /\ at'[v] = Spot(n, id)
        /\ \A x \in Whos : x # v =>
             /\ at'[x] = at[x]
             /\ ~wrapped => ~(at[x].conn = n /\ at[x].id = id)
    BY <1>0, <2>2, IssueKeeps
  <2>4. rst[n] \in Live
    BY <1>4 DEF RelayInv, RoutedIsLive
  <2> HIDE DEF id, n
  <2>5. \A m \in Conns, i \in Ids : ~(m = n /\ i = id) => responses'[m][i] = responses[m][i]
    BY <1>0, <2>1, <2>3
  <2>6. responses'[n][id] = v
    BY <1>0, <2>1, <2>3
  <2>7. \A m \in Conns, i \in Ids : i \in activity[m] => i \in activity'[m]
    BY <1>0, <2>1, <2>3
  <2>8. id \in activity'[n]
    BY <1>0, <2>1, <2>3
  <2>9. pub'[v] = "waiting" /\ \A u \in Visitors : u # v => pub'[u] = pub[u]
    BY <1>0, <2>1
  <2>10. Entered'
    <3>1. ASSUME NEW m \in Conns, NEW i \in Ids, responses'[m][i] # None
          PROVE  /\ pub'[responses'[m][i]] \in Pending
                 /\ at'[responses'[m][i]] = Spot(m, i)
                 /\ i \in activity'[m] /\ rst'[m] \in Live
      <4>1. CASE m = n /\ i = id
        BY <2>1, <2>3, <2>4, <2>6, <2>8, <2>9, <4>1 DEF Pending
      <4>2. CASE ~(m = n /\ i = id)
        <5> DEFINE u == responses[m][i]
        <5>1. responses'[m][i] = u /\ u # v /\ u \in Visitors /\ u \in Whos
          BY <1>0, <1>2, <2>5, <3>1, <4>2, WhosAre
        <5>2. pub[u] \in Pending /\ at[u] = Spot(m, i) /\ i \in activity[m] /\ rst[m] \in Live
          BY <3>1, <5>1 DEF RelayInv, Entered
        <5> HIDE DEF u
        <5> QED BY <2>1, <2>3, <2>7, <2>9, <5>1, <5>2
      <4> QED BY <4>1, <4>2
    <3>2. ASSUME NEW m \in Conns, NEW i \in Ids, sockets'[m][i] # None
          PROVE  /\ tab'[sockets'[m][i]] = "open"
                 /\ at'[sockets'[m][i]] = Spot(m, i) /\ rst'[m] \in Live
      <4>1. sockets[m][i] \in Browsers /\ sockets[m][i] \in Whos /\ sockets[m][i] # v
        BY <1>0, <2>1, <3>2, WhosAre
      <4> QED BY <2>1, <2>3, <3>2, <4>1 DEF RelayInv, Entered
    <3> QED BY <3>1, <3>2, Zenon DEF Entered, Spot
  <2>11. Present'
    <3>1. ASSUME NEW u \in Visitors, pub'[u] \in Pending
          PROVE  at'[u].conn # NoConn /\ (~wrapped' => responses'[at'[u].conn][at'[u].id] = u)
      <4>1. CASE u = v
        BY <1>4, <2>3, <2>6, <4>1 DEF Spot, n
      <4>2. CASE u # v
        <5>1. u \in Whos /\ at'[u] = at[u] /\ pub[u] \in Pending
          BY <2>3, <2>9, <3>1, <4>2, WhosAre
        <5>2. at[u].conn # NoConn /\ at[u].conn \in Conns /\ at[u].id \in Ids
          BY <5>1, PlaceType DEF RelayInv, Present, TypeInv
        <5>3. ASSUME ~wrapped' PROVE responses'[at[u].conn][at[u].id] = u
          <6>1. ~wrapped
            BY <2>3, <5>3
          <6>2. responses[at[u].conn][at[u].id] = u
            BY <5>1, <6>1 DEF RelayInv, Present
          <6> QED BY <2>3, <2>5, <4>2, <5>1, <5>2, <6>1, <6>2
        <5> QED BY <5>1, <5>2, <5>3
      <4> QED BY <4>1, <4>2
    <3>2. ASSUME NEW b \in Browsers, tab'[b] = "open"
          PROVE  at'[b].conn # NoConn /\ (~wrapped' => sockets'[at'[b].conn][at'[b].id] = b)
      <4>1. b \in Whos /\ b # v /\ tab[b] = "open"
        BY <2>1, <3>2, WhosAre
      <4>2. at'[b] = at[b]
        BY <2>3, <4>1
      <4> QED BY <2>1, <2>3, <4>1, <4>2 DEF RelayInv, Present
    <3> QED BY <3>1, <3>2, Zenon DEF Present
  <2> QED BY <2>3, <2>10, <2>11 DEF RelayInv
<1> QED BY <1>3, <1>4

LEMMA UpgradeKeeps ==
  ASSUME TypeInv, RelayInv, NEW b \in Browsers, Upgrade(b)
  PROVE  RelayInv'
<1>0. /\ sockets \in [Conns -> [Ids -> Browsers \cup {None}]]
      /\ responses \in [Conns -> [Ids -> Visitors \cup {None}]]
      /\ tab \in [Browsers -> {"idle", "open", "closed"}] /\ b \in Whos /\ routed \in Conns \cup {NoConn}
  BY WhosAre DEF TypeInv, RelayTypeOK
<1>1. tab[b] = "idle"
  BY DEF Upgrade
<1>2. \A m \in Conns, i \in Ids : sockets[m][i] # None => sockets[m][i] # b
  BY <1>1 DEF RelayInv, Entered
<1>3. CASE routed = NoConn
  <2>1. tab' = [tab EXCEPT ![b] = "closed"] /\ UNCHANGED <<rst, routed, nextId, responses, activity, sockets, at, pub, wrapped>>
    BY <1>3 DEF Upgrade
  <2>2. SocketsMove
    <3>1. ASSUME NEW m \in Conns, NEW i \in Ids, sockets'[m][i] # None
          PROVE  tab'[sockets[m][i]] = "open"
      BY <1>0, <1>2, <2>1, <3>1 DEF RelayInv, Entered
    <3>2. ASSUME NEW c \in Browsers, tab'[c] = "open" PROVE tab[c] = "open"
      BY <1>0, <1>1, <2>1, <3>2
    <3> QED BY <2>1, <3>1, <3>2 DEF SocketsMove
  <2>3. ResponsesMove /\ StatesMove
    BY <2>1, StillMove, StillStates DEF RelayInv
  <2> QED BY <2>1, <2>2, <2>3, MoveKeeps DEF IdsStay
<1>4. CASE routed # NoConn
  <2> DEFINE n == routed
             id == nextId[n]
  <2>1. /\ n \in Conns
        /\ sockets' = [sockets EXCEPT ![n][id] = b]
        /\ tab' = [tab EXCEPT ![b] = "open"]
        /\ UNCHANGED <<rst, routed, responses, activity, pub>>
    BY <1>0, <1>4 DEF Upgrade
  <2>2. Issued(b)
    BY <2>1, <1>4 DEF Upgrade, Issued, Spot
  <2>3. /\ RoutedIsLive' /\ Fresh' /\ Apart'
        /\ id \in Ids /\ (wrapped => wrapped')
        /\ at'[b] = Spot(n, id)
        /\ \A x \in Whos : x # b =>
             /\ at'[x] = at[x]
             /\ ~wrapped => ~(at[x].conn = n /\ at[x].id = id)
    BY <1>0, <2>2, IssueKeeps
  <2>4. rst[n] \in Live
    BY <1>4 DEF RelayInv, RoutedIsLive
  <2> HIDE DEF id, n
  <2>5. \A m \in Conns, i \in Ids : ~(m = n /\ i = id) => sockets'[m][i] = sockets[m][i]
    BY <1>0, <2>1, <2>3
  <2>6. sockets'[n][id] = b
    BY <1>0, <2>1, <2>3
  <2>9. tab'[b] = "open" /\ \A c \in Browsers : c # b => tab'[c] = tab[c]
    BY <1>0, <2>1
  <2>10. Entered'
    <3>1. ASSUME NEW m \in Conns, NEW i \in Ids, sockets'[m][i] # None
          PROVE  /\ tab'[sockets'[m][i]] = "open"
                 /\ at'[sockets'[m][i]] = Spot(m, i) /\ rst'[m] \in Live
      <4>1. CASE m = n /\ i = id
        BY <2>1, <2>3, <2>4, <2>6, <2>9, <4>1
      <4>2. CASE ~(m = n /\ i = id)
        <5> DEFINE u == sockets[m][i]
        <5>1. sockets'[m][i] = u /\ u # b /\ u \in Browsers /\ u \in Whos
          BY <1>0, <1>2, <2>5, <3>1, <4>2, WhosAre
        <5>2. tab[u] = "open" /\ at[u] = Spot(m, i) /\ rst[m] \in Live
          BY <3>1, <5>1 DEF RelayInv, Entered
        <5> HIDE DEF u
        <5> QED BY <2>1, <2>3, <2>9, <5>1, <5>2
      <4> QED BY <4>1, <4>2
    <3>2. ASSUME NEW m \in Conns, NEW i \in Ids, responses'[m][i] # None
          PROVE  /\ pub'[responses'[m][i]] \in Pending
                 /\ at'[responses'[m][i]] = Spot(m, i)
                 /\ i \in activity'[m] /\ rst'[m] \in Live
      <4>1. responses[m][i] \in Visitors /\ responses[m][i] \in Whos /\ responses[m][i] # b
        BY <1>0, <2>1, <3>2, WhosAre
      <4> QED BY <2>1, <2>3, <3>2, <4>1 DEF RelayInv, Entered
    <3> QED BY <3>1, <3>2, Zenon DEF Entered, Spot
  <2>11. Present'
    <3>1. ASSUME NEW c \in Browsers, tab'[c] = "open"
          PROVE  at'[c].conn # NoConn /\ (~wrapped' => sockets'[at'[c].conn][at'[c].id] = c)
      <4>1. CASE c = b
        BY <1>4, <2>3, <2>6, <4>1 DEF Spot, n
      <4>2. CASE c # b
        <5>1. c \in Whos /\ at'[c] = at[c] /\ tab[c] = "open"
          BY <2>3, <2>9, <3>1, <4>2, WhosAre
        <5>2. at[c].conn # NoConn /\ at[c].conn \in Conns /\ at[c].id \in Ids
          BY <5>1, PlaceType DEF RelayInv, Present, TypeInv
        <5>3. ASSUME ~wrapped' PROVE sockets'[at[c].conn][at[c].id] = c
          <6>1. ~wrapped
            BY <2>3, <5>3
          <6>2. sockets[at[c].conn][at[c].id] = c
            BY <5>1, <6>1 DEF RelayInv, Present
          <6> QED BY <2>3, <2>5, <4>2, <5>1, <5>2, <6>1, <6>2
        <5> QED BY <5>1, <5>2, <5>3
      <4> QED BY <4>1, <4>2
    <3>2. ASSUME NEW v \in Visitors, pub'[v] \in Pending
          PROVE  at'[v].conn # NoConn /\ (~wrapped' => responses'[at'[v].conn][at'[v].id] = v)
      <4>1. v \in Whos /\ v # b /\ pub[v] \in Pending
        BY <2>1, <3>2, WhosAre
      <4>2. at'[v] = at[v]
        BY <2>3, <4>1
      <4> QED BY <2>1, <2>3, <4>1, <4>2 DEF RelayInv, Present
    <3> QED BY <3>1, <3>2, Zenon DEF Present
  <2> QED BY <2>3, <2>10, <2>11 DEF RelayInv
<1> QED BY <1>3, <1>4

LEMMA StillKeeps ==
  ASSUME TypeInv, RelayInv,
         UNCHANGED <<rst, routed, nextId, responses, activity, sockets, at, pub, tab, wrapped>>
  PROVE  RelayInv'
<1>1. ResponsesMove /\ SocketsMove
  BY StillMove DEF RelayInv
<1>2. StatesMove
  BY StillStates
<1> QED BY <1>1, <1>2, MoveKeeps DEF IdsStay

LEMMA RelayStepKeeps == ASSUME TypeInv, RelayInv, [Next]_vars PROVE RelayInv'
<1> DEFINE Kept == UNCHANGED <<rst, routed, nextId, responses, activity, sockets, at, pub, tab, wrapped>>
<1>1. ASSUME NEW v \in Visitors, Arrive(v) PROVE RelayInv'
  BY <1>1, RequestKeeps DEF Arrive
<1>2. ASSUME Public PROVE RelayInv'
  BY <1>2, UpgradeKeeps, PublicKeeps DEF Public
<1>3. ASSUME RelaySteps PROVE RelayInv'
  BY <1>3, ConnectionKeeps, IdleTimeoutKeeps DEF RelaySteps
<1>4. ASSUME NEW n \in Conns, RelayReceive(n) PROVE RelayInv'
  <2> DEFINE f == Head(up[n])
  <2>1. up[n] \in Seq(FrameSet) /\ up[n] # << >>
    BY <1>4 DEF RelayReceive, TypeInv, UpOK
  <2>2. f \in FrameSet
    BY <2>1
  <2>3. PeerClose(n) \/ OnAgentFrame(n, f) \/ UNCHANGED relayVars
    BY <1>4 DEF RelayReceive
  <2>4. UNCHANGED relayVars => Kept
    BY DEF relayVars
  <2> QED BY <2>2, <2>3, <2>4, ConnectionKeeps, FrameKeeps, StillKeeps
<1>5. ASSUME NEW n \in Conns, Handshake(n) PROVE RelayInv'
  BY <1>5, ConnectionKeeps DEF Handshake
<1>6. ASSUME UNCHANGED relayVars PROVE RelayInv'
  BY <1>6, StillKeeps DEF relayVars
<1>7. ASSUME NEW n \in Conns, AgentReceive(n) \/ Loss(n) PROVE RelayInv'
  BY <1>6, <1>7 DEF AgentReceive, Loss
<1>8. UNCHANGED vars => UNCHANGED relayVars
  BY DEF vars
<1> QED BY <1>1, <1>2, <1>3, <1>4, <1>5, <1>6, <1>7, <1>8 DEF Next

LEMMA RelayInvariance == Spec => [](TypeInv /\ RelayInv)
<1>1. Init => TypeInv /\ RelayInv
  BY InitType, InitRelay
<1>2. TypeInv /\ RelayInv /\ [Next]_vars => (TypeInv /\ RelayInv)'
  BY StepType, RelayStepKeeps
<1> QED BY <1>1, <1>2, PTL DEF Spec

LEMMA RelayBridges == ASSUME TypeInv, RelayInv PROVE PendingIsBridged
<1>0. /\ responses \in [Conns -> [Ids -> Visitors \cup {None}]]
      /\ sockets \in [Conns -> [Ids -> Browsers \cup {None}]]
      /\ None \notin Visitors /\ None \notin Browsers
  BY WhosAre DEF TypeInv, RelayTypeOK
<1>1. \A n \in Conns, id \in Ids : responses[n][id] # None => id \in activity[n]
  BY DEF RelayInv, Entered
<1>2. ASSUME ~wrapped, NEW v \in Visitors, NEW n \in Conns, NEW id \in Ids
      PROVE  (responses[n][id] = v) <=>
             (pub[v] \in Pending /\ at[v] = [conn |-> n, id |-> id] /\ rst[n] \in {"open", "closing"})
  <2>1. ASSUME responses[n][id] = v
        PROVE  pub[v] \in Pending /\ at[v] = [conn |-> n, id |-> id] /\ rst[n] \in {"open", "closing"}
    BY <1>0, <2>1 DEF RelayInv, Entered, Spot, Live
  <2>2. ASSUME pub[v] \in Pending, at[v] = [conn |-> n, id |-> id] PROVE responses[n][id] = v
    <3>1. responses[at[v].conn][at[v].id] = v
      BY <1>2, <2>2 DEF RelayInv, Present
    <3> QED BY <2>2, <3>1
  <2> QED BY <2>1, <2>2
<1>3. ASSUME ~wrapped, NEW b \in Browsers, NEW n \in Conns, NEW id \in Ids
      PROVE  (sockets[n][id] = b) <=>
             (tab[b] = "open" /\ at[b] = [conn |-> n, id |-> id] /\ rst[n] \in {"open", "closing"})
  <2>1. ASSUME sockets[n][id] = b
        PROVE  tab[b] = "open" /\ at[b] = [conn |-> n, id |-> id] /\ rst[n] \in {"open", "closing"}
    BY <1>0, <2>1 DEF RelayInv, Entered, Spot, Live
  <2>2. ASSUME tab[b] = "open", at[b] = [conn |-> n, id |-> id] PROVE sockets[n][id] = b
    <3>1. sockets[at[b].conn][at[b].id] = b
      BY <1>3, <2>2 DEF RelayInv, Present
    <3> QED BY <2>2, <3>1
  <2> QED BY <2>1, <2>2
<1>4. ASSUME ~wrapped, NEW v \in Visitors, pub[v] \in Pending
      PROVE  rst[at[v].conn] \in {"open", "closing"}
  <2>1. at[v].conn \in Conns /\ at[v].id \in Ids
    BY <1>4, PlaceType, WhosAre DEF RelayInv, Present, TypeInv
  <2>2. responses[at[v].conn][at[v].id] = v
    BY <1>4 DEF RelayInv, Present
  <2> QED BY <1>0, <2>1, <2>2 DEF RelayInv, Entered, Live
<1>5. ASSUME ~wrapped, NEW b \in Browsers, tab[b] = "open"
      PROVE  rst[at[b].conn] \in {"open", "closing"}
  <2>1. at[b].conn \in Conns /\ at[b].id \in Ids
    BY <1>5, PlaceType, WhosAre DEF RelayInv, Present, TypeInv
  <2>2. sockets[at[b].conn][at[b].id] = b
    BY <1>5 DEF RelayInv, Present
  <2> QED BY <1>0, <2>1, <2>2 DEF RelayInv, Entered, Live
<1> QED BY <1>1, <1>2, <1>3, <1>4, <1>5 DEF PendingIsBridged

\* The relay's bridges: every pending response of the tunnel, and every browser
\* socket that is up, is in the table of the connection its handlers know, on a
\* connection whose 'close' event is still to come, and the tables hold nothing
\* else; no takeover, timeout, loss or frame of the agent's orphans one.
THEOREM NothingIsOrphaned == Spec => []PendingIsBridged
<1>1. TypeInv /\ RelayInv => PendingIsBridged
  BY RelayBridges
<1> QED BY <1>1, RelayInvariance, PTL

-----------------------------------------------------------------------------
(* An ended response is in no table, and whatever writes to a response      *)
(* finds it in one.                                                        *)

EndedStay == \A v \in Visitors : pub[v] \in Ended => got'[v] = got[v] /\ pub'[v] = pub[v]

LEMMA EndedUntouched ==
  ASSUME TypeInv, RelayInv, NEW n \in Conns, NEW id \in Ids, NEW s, NEW f,
         NEW v \in Visitors, pub[v] \in Ended
  PROVE  /\ responses[n][id] # v
         /\ Moved(responses[n][id], s)[v] = pub[v] /\ Wrote(responses[n][id], f)[v] = got[v]
<1>0. /\ responses \in [Conns -> [Ids -> Visitors \cup {None}]] /\ None \notin Visitors
      /\ pub \in [Visitors -> PubSet] /\ got \in [Visitors -> Seq(PartSet)]
  BY WhosAre DEF TypeInv, RelayTypeOK, PubSet, PartSet
<1>1. responses[n][id] # v
  BY <1>0 DEF RelayInv, Entered, Pending, Ended
<1>2. Moved(responses[n][id], s)[v] = pub[v]
  BY <1>0, <1>1 DEF Moved
<1>3. Wrote(responses[n][id], f)[v] = got[v]
  BY <1>0, <1>1 DEF Wrote
<1> QED BY <1>1, <1>2, <1>3

LEMMA PublicEnds ==
  ASSUME TypeInv, RelayInv, Public \/ (\E v \in Visitors : Request(v))
  PROVE  EndedStay
<1>0. pub \in [Visitors -> PubSet]
  BY DEF TypeInv, RelayTypeOK, PubSet
<1>1. UNCHANGED got
  BY DEF Public, Request, RequestEnd, RequestError, ClientClose, Upgrade, BrowserMessage, BrowserClose, relayVars
<1>2. UNCHANGED pub \/ \E v \in Visitors, s \in PubSet : pub[v] \notin Ended /\ pub' = [pub EXCEPT ![v] = s]
  <2>1. ASSUME NEW v \in Visitors, Request(v) \/ ClientClose(v)
        PROVE  \E s \in PubSet : pub[v] \notin Ended /\ pub' = [pub EXCEPT ![v] = s]
    <3>1. pub[v] \notin Ended
      BY <2>1 DEF Request, ClientClose, Pending, Ended
    <3>2. \/ pub' = [pub EXCEPT ![v] = "failed"] \/ pub' = [pub EXCEPT ![v] = "waiting"]
          \/ pub' = [pub EXCEPT ![v] = "gone"]
      BY <2>1 DEF Request, ClientClose
    <3>3. {"failed", "waiting", "gone"} \subseteq PubSet
      BY DEF PubSet, Pending, Ended
    <3> QED BY <3>1, <3>2, <3>3
  <2>2. ASSUME NEW v \in Visitors, RequestEnd(v) \/ RequestError(v) PROVE UNCHANGED pub
    BY <2>2 DEF RequestEnd, RequestError
  <2>3. ASSUME NEW b \in Browsers, Upgrade(b) \/ BrowserMessage(b) \/ BrowserClose(b) PROVE UNCHANGED pub
    BY <2>3 DEF Upgrade, BrowserMessage, BrowserClose, relayVars
  <2> QED BY <2>1, <2>2, <2>3 DEF Public
<1> QED BY <1>0, <1>1, <1>2 DEF EndedStay

LEMMA RelayStepsEnd ==
  ASSUME TypeInv, RelayInv, RelaySteps
  PROVE  EndedStay
<1>0. pub \in [Visitors -> PubSet]
  BY DEF TypeInv, RelayTypeOK, PubSet
<1>1. UNCHANGED got
  BY DEF RelaySteps, Admit, Terminate, CloseEvent, IdleTimeout
<1>2. ASSUME NEW v \in Visitors, pub[v] \in Ended PROVE pub'[v] = pub[v]
  <2>1. ASSUME NEW n \in Conns, Admit(n) \/ Terminate(n) PROVE pub'[v] = pub[v]
    BY <2>1 DEF Admit, Terminate
  <2>2. ASSUME NEW n \in Conns, CloseEvent(n) PROVE pub'[v] = pub[v]
    <3>1. v \notin BridgedResponses(n)
      BY <1>2, <2>2, EndedUntouched DEF BridgedResponses
    <3> QED BY <2>2, <3>1 DEF CloseEvent, Cleanup
  <2>3. ASSUME NEW n \in Conns, NEW id \in Ids, IdleTimeout(n, id) PROVE pub'[v] = pub[v]
    <3> DEFINE r == responses[n][id]
    <3>1. pub' = Moved(r, WrittenOff(pub[r]))
      BY <2>3 DEF IdleTimeout, Moved
    <3> QED BY <1>2, <3>1, EndedUntouched
  <2> QED BY <2>1, <2>2, <2>3 DEF RelaySteps
<1> QED BY <1>1, <1>2 DEF EndedStay

LEMMA FrameEnds ==
  ASSUME TypeInv, RelayInv, NEW n \in Conns, NEW f \in FrameSet, OnAgentFrame(n, f)
  PROVE  EndedStay
<1> DEFINE r == responses[n][f.id]
           Writes == /\ UNCHANGED pub \/ \E s : pub' = Moved(r, s)
                     /\ UNCHANGED got \/ got' = Wrote(r, f)
<1>0. f.id \in Ids
  BY DEF FrameSet
<1>1. Writes
  <2>1. ASSUME ResHead(n, f) PROVE Writes
    BY <2>1 DEF ResHead
  <2>2. ASSUME ResBody(n, f) PROVE Writes
    BY <2>2 DEF ResBody
  <2>3. ASSUME ResEnd(n, f) PROVE Writes
    BY <2>3 DEF ResEnd
  <2>4. ASSUME WsMessage(n, f) \/ WsGone(n, f) PROVE Writes
    BY <2>4 DEF WsMessage, WsGone
  <2>5. ASSUME AgentAbort(n, f) PROVE Writes
    BY <2>5 DEF AgentAbort
  <2> QED BY <2>1, <2>2, <2>3, <2>4, <2>5 DEF OnAgentFrame
<1>2. ASSUME NEW v \in Visitors, pub[v] \in Ended PROVE got'[v] = got[v] /\ pub'[v] = pub[v]
  BY <1>0, <1>1, <1>2, EndedUntouched
<1> QED BY <1>2 DEF EndedStay

LEMMA StepEnds == ASSUME TypeInv, RelayInv, [Next]_vars PROVE EndedStay
<1>1. UNCHANGED <<pub, got>> => EndedStay
  BY DEF EndedStay
<1>2. ASSUME NEW v \in Visitors, Arrive(v) PROVE EndedStay
  BY <1>2, PublicEnds DEF Arrive
<1>3. ASSUME NEW n \in Conns, RelayReceive(n) PROVE EndedStay
  <2> DEFINE f == Head(up[n])
  <2>1. up[n] \in Seq(FrameSet) /\ up[n] # << >>
    BY <1>3 DEF RelayReceive, TypeInv, UpOK
  <2>2. f \in FrameSet
    BY <2>1
  <2>3. PeerClose(n) \/ OnAgentFrame(n, f) \/ UNCHANGED relayVars
    BY <1>3 DEF RelayReceive
  <2>4. PeerClose(n) \/ UNCHANGED relayVars => UNCHANGED <<pub, got>>
    BY DEF relayVars, PeerClose
  <2> QED BY <1>1, <2>2, <2>3, <2>4, FrameEnds
<1>4. UNCHANGED relayVars => EndedStay
  BY <1>1 DEF relayVars
<1>5. ASSUME NEW n \in Conns, AgentReceive(n) \/ Handshake(n) \/ Loss(n) PROVE EndedStay
  BY <1>1, <1>4, <1>5 DEF AgentReceive, Handshake, Loss
<1>6. UNCHANGED vars => EndedStay
  BY <1>4 DEF vars
<1> QED BY <1>2, <1>3, <1>4, <1>5, <1>6, PublicEnds, RelayStepsEnd DEF Next

\* Once a response of the tunnel has ended, however it ended, no later frame,
\* timeout or close writes to it or ends it a second time.
THEOREM EndedResponsesStayEnded == Spec => NothingAfterTheEnd
<1>1. TypeInv /\ RelayInv /\ [Next]_vars =>
        [\A v \in Visitors : pub[v] \in Ended => got'[v] = got[v] /\ pub'[v] = pub[v]]_vars
  BY StepEnds DEF EndedStay
<1> QED BY <1>1, RelayInvariance, PTL DEF Spec, NothingAfterTheEnd
=============================================================================
