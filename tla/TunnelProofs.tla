---------------------------- MODULE TunnelProofs ----------------------------
(***************************************************************************)
(* Theorems about the tunnel when the agent keeps one socket: its tables,  *)
(* who speaks under an id, the work done for a visitor, what is sent in    *)
(* the clear, and whole answers.  They rest on the types and the bridges   *)
(* of TunnelBridgeProofs.                                                  *)
(***************************************************************************)
EXTENDS TunnelBridgeProofs

-----------------------------------------------------------------------------
(* The agent's tables, when the agent never redials next to a socket that  *)
(* still delivers.  Then the control socket is the only one that does, what *)
(* the relay sent over a connection speaks of streams of that connection,   *)
(* and each of them is opened once.                                        *)

Sole == \A n \in Conns : asock[n] # "closing" /\ (asock[n] \in {"connecting", "open"} => n = control)

Unplaced ==
  /\ \A v \in Visitors : pub[v] = "idle" => at[v].conn = NoConn
  /\ \A b \in Browsers : tab[b] = "idle" => at[b].conn = NoConn

Empty == \A id \in Ids : requests[id] = None /\ buffered[id] = None /\ parked[id] = None /\ lsocks[id] = None

EmptyOffline == (control = NoConn \/ asock[control] # "open") => Empty

Placed(places, n, f) ==
  f.t \in {"req_head", "req_end", "ws_open", "ws_msg"} => f.who \in Whos /\ places[f.who] = Spot(n, f.id)
DownPlaced == \A n \in Conns : \A i \in 1..Len(down[n]) : Placed(at, n, down[n][i])

Entitled ==
  ~wrapped => \A id \in Ids :
    /\ requests[id] # None => at[requests[id]] = Spot(control, id)
    /\ buffered[id] # None => at[buffered[id]] = Spot(control, id)
    /\ parked[id] # None => at[parked[id]] = Spot(control, id)
    /\ lsocks[id] # None => at[lsocks[id]] = Spot(control, id)

Free(id) == requests[id] = None /\ buffered[id] = None /\ parked[id] = None
OnceEach ==
  ~wrapped => \A n \in Conns : \A i, j \in 1..Len(down[n]) :
    i # j /\ down[n][i].t = "req_head" /\ down[n][j].t = "req_head" => down[n][i].id # down[n][j].id
Unopened ==
  ~wrapped => \A n \in Conns : n = control =>
    \A i \in 1..Len(down[n]), id \in Ids :
      down[n][i].t = "req_head" /\ down[n][i].id = id => Free(id)

OneTable ==
  ~wrapped => \A id \in Ids :
    /\ parked[id] # None => requests[id] = None /\ buffered[id] = None
    /\ buffered[id] # None => requests[id] = None

AgentInv == /\ Sole /\ Unplaced /\ EmptyOffline /\ DownPlaced /\ Entitled
            /\ OnceEach /\ Unopened /\ OneTable

LEMMA InitAgent == Init => AgentInv
<1> SUFFICES ASSUME Init PROVE AgentInv
  OBVIOUS
<1>1. Sole /\ Unplaced /\ EmptyOffline /\ Entitled /\ OneTable
  <2>1. /\ \A n \in Conns : asock[n] = "none"
        /\ \A w \in Whos : at[w].conn = NoConn
        /\ Empty
    BY DEF Init, AgentInit, RelayInit, NoPlace, Empty, NoneOpen
  <2>2. \A id \in Ids : requests[id] = None /\ buffered[id] = None /\ parked[id] = None /\ lsocks[id] = None
    BY <2>1 DEF Empty
  <2> QED BY <2>1, <2>2, WhosAre DEF Sole, Unplaced, EmptyOffline, Entitled, OneTable
<1>2. \A n \in Conns : Len(down[n]) = 0
  BY DEF Init, WireInit
<1>3. DownPlaced /\ OnceEach /\ Unopened
  BY <1>2 DEF DownPlaced, OnceEach, Unopened
<1> QED BY <1>1, <1>3 DEF AgentInv

\* The frames of a channel after fs were posted on n.
LEMMA Appended ==
  ASSUME NEW F, NEW ch \in [Conns -> Seq(F)], NEW n, NEW fs \in Seq(F), NEW m \in Conns
  PROVE  /\ \A i \in 1..Len(Posted(ch, n, fs)[m]) :
              \/ i \in 1..Len(ch[m]) /\ Posted(ch, n, fs)[m][i] = ch[m][i]
              \/ m = n /\ \E k \in 1..Len(fs) : i = Len(ch[m]) + k /\ Posted(ch, n, fs)[m][i] = fs[k]
         /\ \A i \in 1..Len(ch[m]) : i \in 1..Len(Posted(ch, n, fs)[m]) /\ Posted(ch, n, fs)[m][i] = ch[m][i]
<1> DEFINE ps == Posted(ch, n, fs)
<1>0. ch[m] \in Seq(F)
  OBVIOUS
<1>1. CASE ps[m] = ch[m]
  BY <1>0, <1>1
<1>2. CASE m = n /\ ps[m] = ch[m] \o fs
  <2>1. /\ Len(ch[m] \o fs) = Len(ch[m]) + Len(fs) /\ Len(ch[m]) \in Nat /\ Len(fs) \in Nat
        /\ \A i \in 1 .. Len(ch[m]) + Len(fs) :
             (ch[m] \o fs)[i] = IF i <= Len(ch[m]) THEN ch[m][i] ELSE fs[i - Len(ch[m])]
    BY <1>0, ConcatProperties
  <2>2. ASSUME NEW i \in 1..Len(ps[m])
        PROVE  \/ i \in 1..Len(ch[m]) /\ ps[m][i] = ch[m][i]
               \/ m = n /\ \E k \in 1..Len(fs) : i = Len(ch[m]) + k /\ ps[m][i] = fs[k]
    <3> HIDE DEF ps
    <3>1. CASE i <= Len(ch[m])
      BY <1>2, <2>1, <3>1
    <3>2. CASE ~(i <= Len(ch[m]))
      <4> DEFINE k == i - Len(ch[m])
      <4>1. k \in 1..Len(fs) /\ i = Len(ch[m]) + k
        BY <1>2, <2>1, <3>2
      <4>2. ps[m][i] = fs[k]
        BY <1>2, <2>1, <3>2
      <4> QED BY <1>2, <4>1, <4>2
    <3> QED BY <3>1, <3>2
  <2>3. ASSUME NEW i \in 1..Len(ch[m]) PROVE i \in 1..Len(ps[m]) /\ ps[m][i] = ch[m][i]
    <3> HIDE DEF ps
    <3> QED BY <1>2, <2>1
  <2> QED BY <2>2, <2>3
<1> QED BY <1>1, <1>2 DEF Posted

\* A step of the relay's side that opens a stream for a fresh id or none.
LEMMA DownGrows ==
  ASSUME TypeInv, AgentInv,
         UNCHANGED <<control, asock, requests, buffered, parked, lsocks>>,
         \A w \in Whos : at[w].conn # NoConn => at'[w] = at[w],
         wrapped => wrapped', Unplaced',
         NEW n, NEW fs \in Seq(DownFrames), down' = down \/ down' = Posted(down, n, fs),
         \A k \in 1..Len(fs) : n \in Conns => Placed(at', n, fs[k]),
         \A k \in 1..Len(fs) : fs[k].t = "req_head" =>
           k = 1 /\ \A w \in Whos : ~wrapped' => at[w] # Spot(n, fs[k].id)
  PROVE  AgentInv'
<1>0. /\ down \in [Conns -> Seq(DownFrames)] /\ NoConn \notin Conns /\ control \in Conns \cup {NoConn}
      /\ \A id \in Ids : /\ requests[id] \in Visitors \cup {None} /\ buffered[id] \in Visitors \cup {None}
                         /\ parked[id] \in Visitors \cup {None} /\ lsocks[id] \in Browsers \cup {None}
      /\ DownFrames \subseteq FrameSet
  BY Constants DEF TypeInv, DownOK, AgentTypeOK, DownFrames
<1>1. Sole' /\ OneTable' /\ EmptyOffline'
  BY DEF AgentInv, Sole, OneTable, EmptyOffline, Empty
<1>2. ASSUME NEW m \in Conns, NEW i \in 1..Len(down'[m])
      PROVE  \/ i \in 1..Len(down[m]) /\ down'[m][i] = down[m][i]
             \/ m = n /\ \E k \in 1..Len(fs) : i = Len(down[m]) + k /\ down'[m][i] = fs[k]
  <2>1. CASE down' = down
    BY <2>1
  <2>2. CASE down' = Posted(down, n, fs)
    <3>1. \A x \in 1..Len(Posted(down, n, fs)[m]) :
            \/ x \in 1..Len(down[m]) /\ Posted(down, n, fs)[m][x] = down[m][x]
            \/ m = n /\ \E k \in 1..Len(fs) : x = Len(down[m]) + k /\ Posted(down, n, fs)[m][x] = fs[k]
      BY <1>0, Appended
    <3> QED BY <2>2, <3>1
  <2> QED BY <2>1, <2>2
<1>3. DownPlaced'
  <2> SUFFICES ASSUME NEW m \in Conns, NEW i \in 1..Len(down'[m])
               PROVE  Placed(at', m, down'[m][i])
    BY DEF DownPlaced
  <2>1. CASE i \in 1..Len(down[m]) /\ down'[m][i] = down[m][i]
    <3>1. Placed(at, m, down[m][i])
      BY <2>1 DEF AgentInv, DownPlaced
    <3>2. m # NoConn /\ Spot(m, down[m][i].id).conn = m
      BY <1>0 DEF Spot
    <3>3. ASSUME NEW w \in Whos, at[w] = Spot(m, down[m][i].id) PROVE at'[w] = Spot(m, down[m][i].id)
      BY <3>2, <3>3
    <3> QED BY <2>1, <3>1, <3>3 DEF Placed
  <2>2. CASE m = n /\ \E k \in 1..Len(fs) : i = Len(down[m]) + k /\ down'[m][i] = fs[k]
    BY <2>2 DEF Placed
  <2> QED BY <1>2, <2>1, <2>2
<1>4. Entitled'
  <2> SUFFICES ASSUME ~wrapped', NEW id \in Ids
               PROVE  /\ requests[id] # None => at'[requests[id]] = Spot(control, id)
                      /\ buffered[id] # None => at'[buffered[id]] = Spot(control, id)
                      /\ parked[id] # None => at'[parked[id]] = Spot(control, id)
                      /\ lsocks[id] # None => at'[lsocks[id]] = Spot(control, id)
    BY DEF Entitled, Spot
  <2>1. CASE control = NoConn
    BY <2>1 DEF AgentInv, EmptyOffline, Empty
  <2>2. CASE control # NoConn
    <3>1. ASSUME NEW w \in Whos, at[w] = Spot(control, id) PROVE at'[w] = Spot(control, id)
      BY <2>2, <3>1 DEF Spot
    <3>2. /\ requests[id] # None => at[requests[id]] = Spot(control, id) /\ requests[id] \in Whos
          /\ buffered[id] # None => at[buffered[id]] = Spot(control, id) /\ buffered[id] \in Whos
          /\ parked[id] # None => at[parked[id]] = Spot(control, id) /\ parked[id] \in Whos
          /\ lsocks[id] # None => at[lsocks[id]] = Spot(control, id) /\ lsocks[id] \in Whos
      BY <1>0, WhosAre DEF AgentInv, Entitled
    <3> QED BY <3>1, <3>2
  <2> QED BY <2>1, <2>2
<1>5. OnceEach'
  <2> SUFFICES ASSUME ~wrapped', NEW m \in Conns, NEW i \in 1..Len(down'[m]), NEW j \in 1..Len(down'[m]),
                      i # j, down'[m][i].t = "req_head", down'[m][j].t = "req_head",
                      down'[m][i].id = down'[m][j].id
               PROVE  FALSE
    BY DEF OnceEach
  <2>1. ASSUME NEW x \in 1..Len(down[m]), down[m][x].t = "req_head"
        PROVE  at[down[m][x].who] = Spot(m, down[m][x].id) /\ down[m][x].who \in Whos
    BY <2>1 DEF AgentInv, DownPlaced, Placed
  <2>2. CASE i \in 1..Len(down[m]) /\ down'[m][i] = down[m][i] /\ j \in 1..Len(down[m]) /\ down'[m][j] = down[m][j]
    BY <2>2 DEF AgentInv, OnceEach
  <2>3. ASSUME NEW x \in 1..Len(down[m]), NEW k \in 1..Len(fs), m = n, down[m][x].t = "req_head",
               fs[k].t = "req_head", down[m][x].id = fs[k].id
        PROVE  FALSE
    BY <2>1, <2>3
  <2>4. CASE (i \in 1..Len(down[m]) /\ down'[m][i] = down[m][i]) /\ m = n /\ (\E k \in 1..Len(fs) : j = Len(down[m]) + k /\ down'[m][j] = fs[k])
    BY <2>3, <2>4
  <2>5. CASE (j \in 1..Len(down[m]) /\ down'[m][j] = down[m][j]) /\ m = n /\ (\E k \in 1..Len(fs) : i = Len(down[m]) + k /\ down'[m][i] = fs[k])
    BY <2>3, <2>5
  <2>6. CASE /\ \E k \in 1..Len(fs) : i = Len(down[m]) + k /\ down'[m][i] = fs[k]
             /\ \E k \in 1..Len(fs) : j = Len(down[m]) + k /\ down'[m][j] = fs[k]
    BY <2>6
  <2> QED BY <1>2, <2>2, <2>4, <2>5, <2>6
<1>6. Unopened'
  <2> SUFFICES ASSUME ~wrapped', NEW m \in Conns, m = control, NEW i \in 1..Len(down'[m]), NEW id \in Ids,
                      down'[m][i].t = "req_head", down'[m][i].id = id
               PROVE  Free(id)
    BY DEF Unopened, Free
  <2>1. CASE i \in 1..Len(down[m]) /\ down'[m][i] = down[m][i]
    BY <2>1 DEF AgentInv, Unopened
  <2>2. ASSUME m = n, NEW k \in 1..Len(fs), down'[m][i] = fs[k] PROVE Free(id)
    <3>1. fs[k].t = "req_head" /\ fs[k].id = id
      BY <2>2
    <3>2. \A w \in Whos : at[w] # Spot(control, id)
      BY <2>2, <3>1
    <3>3. /\ requests[id] # None => at[requests[id]] = Spot(control, id) /\ requests[id] \in Whos
          /\ buffered[id] # None => at[buffered[id]] = Spot(control, id) /\ buffered[id] \in Whos
          /\ parked[id] # None => at[parked[id]] = Spot(control, id) /\ parked[id] \in Whos
      BY <1>0, WhosAre DEF AgentInv, Entitled
    <3> QED BY <2>2, <3>2, <3>3 DEF Free
  <2> QED BY <1>2, <2>1, <2>2
<1> QED BY <1>1, <1>3, <1>4, <1>5, <1>6 DEF AgentInv

NoneIdler ==
  /\ \A v \in Visitors : pub'[v] = "idle" => pub[v] = "idle"
  /\ \A b \in Browsers : tab'[b] = "idle" => tab[b] = "idle"

AgentSleeps == UNCHANGED <<control, asock, requests, buffered, parked, lsocks>>

\* A step of the relay's side that opens no stream and sends one frame at most.
LEMMA SendKeeps ==
  ASSUME TypeInv, AgentInv, AgentSleeps, UNCHANGED <<at, wrapped>>, NoneIdler,
         NEW n, NEW g \in DownFrames, g.t # "req_head", Placed(at, n, g),
         down' = down \/ down' = Posted(down, n, <<g>>)
  PROVE  AgentInv'
<1>1. Unplaced'
  BY DEF AgentInv, Unplaced, NoneIdler
<1>2. <<g>> \in Seq(DownFrames) /\ Len(<<g>>) = 1 /\ <<g>>[1] = g
  OBVIOUS
<1>3. \A k \in 1..Len(<<g>>) : k = 1
  BY <1>2
<1>4. \A k \in 1..Len(<<g>>) : Placed(at', n, <<g>>[k]) /\ <<g>>[k].t # "req_head"
  BY <1>2, <1>3
<1>5. UNCHANGED <<control, asock, requests, buffered, parked, lsocks>>
  BY DEF AgentSleeps
<1> QED BY <1>1, <1>2, <1>4, <1>5, DownGrows

\* Frames that say nothing of their stream's owner.
LEMMA WordlessKeeps ==
  ASSUME TypeInv, AgentInv, AgentSleeps, UNCHANGED <<at, wrapped>>, NoneIdler,
         NEW n, NEW g \in DownFrames, g.t \in {"abort", "ws_close", "close"},
         down' = down \/ down' = Posted(down, n, <<g>>)
  PROVE  AgentInv'
<1>1. g.t # "req_head" /\ Placed(at, n, g)
  BY DEF Placed
<1> QED BY <1>1, SendKeeps

LEMMA SilentKeeps ==
  ASSUME TypeInv, AgentInv, AgentSleeps, UNCHANGED <<at, wrapped, down>>, NoneIdler
  PROVE  AgentInv'
BY CloseType, WordlessKeeps

LEMMA IdlerMoves ==
  ASSUME TypeInv, NEW n \in Conns, NEW id \in Ids
  PROVE  /\ \A s : s # "idle" /\ pub' = Moved(responses[n][id], s) =>
              \A v \in Visitors : pub'[v] = "idle" => pub[v] = "idle"
         /\ tab' = (IF sockets[n][id] = None THEN tab ELSE [tab EXCEPT ![sockets[n][id]] = "closed"]) =>
              \A b \in Browsers : tab'[b] = "idle" => tab[b] = "idle"
BY DEF TypeInv, RelayTypeOK, Moved

LEMMA PlaceIs == ASSUME TypeInv, NEW w \in Whos PROVE at[w] = Spot(at[w].conn, at[w].id)
BY DEF TypeInv, RelayTypeOK, Spot

LEMMA PublicCurrent ==
  ASSUME TypeInv, AgentInv, UNCHANGED agentVars,
         \/ \E v \in Visitors : RequestEnd(v) \/ RequestError(v) \/ ClientClose(v)
         \/ \E b \in Browsers : BrowserMessage(b) \/ BrowserClose(b)
  PROVE  AgentInv'
<1>0. AgentSleeps
  BY DEF AgentSleeps, agentVars
<1>1. pub \in [Visitors -> PubSet] /\ tab \in [Browsers -> {"idle", "open", "closed"}]
  BY DEF TypeInv, RelayTypeOK, PubSet
<1>2. ASSUME NEW v \in Visitors, RequestEnd(v) PROVE AgentInv'
  <2> DEFINE g == Ctl("req_end", at[v].id, v)
  <2>1. v \in Whos /\ at[v].id \in Ids
    BY WhosAre, PlaceType DEF TypeInv
  <2>2. g \in DownFrames /\ g.t = "req_end" /\ g.who = v /\ g.id = at[v].id
    BY <2>1, DownType DEF Ctl
  <2>3. g.t # "req_head" /\ Placed(at, at[v].conn, g)
    BY <2>1, <2>2, PlaceIs DEF Placed
  <2>4. NoneIdler /\ UNCHANGED <<at, wrapped>>
    BY <1>2 DEF RequestEnd, NoneIdler
  <2>5. down' = down \/ down' = Posted(down, at[v].conn, <<g>>)
    BY <1>2 DEF RequestEnd, RelaySend
  <2> QED BY <1>0, <2>2, <2>3, <2>4, <2>5, SendKeeps
<1>3. ASSUME NEW v \in Visitors, RequestError(v) PROVE AgentInv'
  <2> DEFINE g == Ctl("abort", at[v].id, v)
  <2>1. v \in Whos /\ at[v].id \in Ids
    BY WhosAre, PlaceType DEF TypeInv
  <2>2. g \in DownFrames /\ g.t = "abort"
    BY <2>1, DownType DEF Ctl
  <2>3. NoneIdler /\ UNCHANGED <<at, wrapped>>
    BY <1>3 DEF RequestError, NoneIdler
  <2>4. down' = down \/ down' = Posted(down, at[v].conn, <<g>>)
    BY <1>3 DEF RequestError, RelaySend
  <2> QED BY <1>0, <2>2, <2>3, <2>4, WordlessKeeps
<1>4. ASSUME NEW v \in Visitors, ClientClose(v) PROVE AgentInv'
  <2> DEFINE g == Ctl("abort", at[v].id, v)
  <2>1. v \in Whos /\ at[v].id \in Ids
    BY WhosAre, PlaceType DEF TypeInv
  <2>2. g \in DownFrames /\ g.t = "abort"
    BY <2>1, DownType DEF Ctl
  <2>3. NoneIdler /\ UNCHANGED <<at, wrapped>>
    BY <1>1, <1>4 DEF ClientClose, NoneIdler
  <2>4. down' = down \/ down' = Posted(down, at[v].conn, <<g>>)
    BY <1>4 DEF ClientClose, RelaySend
  <2> QED BY <1>0, <2>2, <2>3, <2>4, WordlessKeeps
<1>5. ASSUME NEW b \in Browsers, BrowserMessage(b) PROVE AgentInv'
  <2> DEFINE g == Data("ws_msg", at[b].id, b, 0)
  <2>1. b \in Whos /\ at[b].id \in Ids
    BY WhosAre, PlaceType DEF TypeInv
  <2>2. g \in DownFrames /\ g.t = "ws_msg" /\ g.who = b /\ g.id = at[b].id
    BY <2>1, DownType DEF Data
  <2>3. g.t # "req_head" /\ Placed(at, at[b].conn, g)
    BY <2>1, <2>2, PlaceIs DEF Placed
  <2>4. NoneIdler /\ UNCHANGED <<at, wrapped>>
    BY <1>5 DEF BrowserMessage, NoneIdler, relayVars
  <2>5. down' = down \/ down' = Posted(down, at[b].conn, <<g>>)
    BY <1>5 DEF BrowserMessage, RelaySend
  <2> QED BY <1>0, <2>2, <2>3, <2>4, <2>5, SendKeeps
<1>6. ASSUME NEW b \in Browsers, BrowserClose(b) PROVE AgentInv'
  <2> DEFINE g == Ctl("ws_close", at[b].id, b)
  <2>1. b \in Whos /\ at[b].id \in Ids
    BY WhosAre, PlaceType DEF TypeInv
  <2>2. g \in DownFrames /\ g.t = "ws_close"
    BY <2>1, DownType DEF Ctl
  <2>3. NoneIdler /\ UNCHANGED <<at, wrapped>>
    BY <1>1, <1>6 DEF BrowserClose, NoneIdler
  <2>4. down' = down \/ down' = Posted(down, at[b].conn, <<g>>)
    BY <1>6 DEF BrowserClose, RelaySend
  <2> QED BY <1>0, <2>2, <2>3, <2>4, WordlessKeeps
<1> QED BY <1>2, <1>3, <1>4, <1>5, <1>6

LEMMA RelayStepsCurrent ==
  ASSUME TypeInv, AgentInv, UNCHANGED agentVars,
         \/ \E n \in Conns : Admit(n) \/ Terminate(n) \/ CloseEvent(n) \/ (Lose(n) /\ UNCHANGED relayVars)
         \/ \E n \in Conns, id \in Ids : IdleTimeout(n, id)
  PROVE  AgentInv'
<1>0. AgentSleeps
  BY DEF AgentSleeps, agentVars
<1>1. ASSUME NEW n \in Conns, Admit(n) \/ Terminate(n) \/ (Lose(n) /\ UNCHANGED relayVars) PROVE AgentInv'
  <2>1. UNCHANGED <<at, wrapped, down>> /\ NoneIdler
    BY <1>1 DEF Admit, Terminate, Lose, relayVars, NoneIdler
  <2> QED BY <1>0, <2>1, SilentKeeps
<1>2. ASSUME NEW n \in Conns, CloseEvent(n) PROVE AgentInv'
  <2>1. UNCHANGED <<at, wrapped, down>>
    BY <1>2 DEF CloseEvent
  <2>2. \A v \in Visitors : pub'[v] = pub[v] \/ pub'[v] = WrittenOff(pub[v])
    BY <1>2 DEF CloseEvent, Cleanup
  <2>3. \A b \in Browsers : tab'[b] = tab[b] \/ tab'[b] = "closed"
    BY <1>2 DEF CloseEvent, Cleanup
  <2>4. NoneIdler
    BY <2>2, <2>3 DEF NoneIdler, WrittenOff
  <2> QED BY <1>0, <2>1, <2>4, SilentKeeps
<1>3. ASSUME NEW n \in Conns, NEW id \in Ids, IdleTimeout(n, id) PROVE AgentInv'
  <2> DEFINE g == Ctl("abort", id, None)
             r == responses[n][id]
  <2>1. g \in DownFrames /\ g.t = "abort"
    BY DownType DEF Ctl
  <2>2. pub' = Moved(r, WrittenOff(pub[r])) /\ WrittenOff(pub[r]) # "idle"
    BY <1>3 DEF IdleTimeout, Moved, WrittenOff
  <2>3. UNCHANGED <<at, wrapped, tab>>
    BY <1>3 DEF IdleTimeout
  <2>4. NoneIdler
    BY <2>2, <2>3, IdlerMoves DEF NoneIdler
  <2>5. down' = down \/ down' = Posted(down, n, <<g>>)
    BY <1>3 DEF IdleTimeout, RelaySend
  <2> QED BY <1>0, <2>1, <2>3, <2>4, <2>5, WordlessKeeps
<1> QED BY <1>1, <1>2, <1>3

LEMMA FramesCurrent ==
  ASSUME TypeInv, AgentInv, UNCHANGED agentVars, NEW n \in Conns, NEW f \in FrameSet,
         OnAgentFrame(n, f) \/ PeerClose(n)
  PROVE  AgentInv'
<1>0. AgentSleeps /\ f.id \in Ids /\ f.who \in Whos \cup {None}
  BY DEF AgentSleeps, agentVars, FrameSet
<1>1. ASSUME PeerClose(n) PROVE AgentInv'
  <2>1. UNCHANGED <<at, wrapped>> /\ NoneIdler /\ down' = Posted(down, n, <<CloseFrame>>)
    BY <1>1 DEF PeerClose, NoneIdler
  <2> QED BY <1>0, <2>1, CloseType, WordlessKeeps
<1>2. ASSUME OnAgentFrame(n, f) PROVE AgentInv'
  <2> DEFINE r == responses[n][f.id]
             b == sockets[n][f.id]
             Shut == tab' = (IF b = None THEN tab ELSE [tab EXCEPT ![b] = "closed"])
             g == Ctl("abort", f.id, f.who)
             h == Ctl("ws_close", f.id, b)
  <2>1. UNCHANGED <<at, wrapped>>
    BY <1>2 DEF OnAgentFrame
  <2>2. b \in Browsers \cup {None} /\ b \in Whos \cup {None}
    BY <1>0, WhosAre DEF TypeInv, RelayTypeOK
  <2>3. g \in DownFrames /\ g.t = "abort" /\ h \in DownFrames /\ h.t = "ws_close"
    BY <1>0, <2>2, DownType DEF Ctl
  <2>4. /\ UNCHANGED pub \/ \E s : s # "idle" /\ pub' = Moved(r, s)
        /\ UNCHANGED tab \/ Shut
        /\ \/ down' = down \/ down' = Posted(down, n, <<g>>) \/ down' = Posted(down, n, <<h>>)
    <3> DEFINE Does == /\ UNCHANGED pub \/ \E s : s # "idle" /\ pub' = Moved(r, s)
                       /\ UNCHANGED tab \/ Shut
                       /\ \/ down' = down \/ down' = Posted(down, n, <<g>>) \/ down' = Posted(down, n, <<h>>)
    <3>1. ASSUME ResHead(n, f) \/ ResEnd(n, f) PROVE Does
      BY <3>1 DEF ResHead, ResEnd
    <3>2. ASSUME ResBody(n, f) PROVE Does
      BY <3>2 DEF ResBody, RelaySend
    <3>3. ASSUME WsMessage(n, f) PROVE Does
      BY <3>3 DEF WsMessage, RelaySend
    <3>4. ASSUME WsGone(n, f) PROVE Does
      BY <3>4 DEF WsGone
    <3>5. ASSUME AgentAbort(n, f) PROVE Does
      BY <3>5 DEF AgentAbort
    <3> QED BY <1>2, <3>1, <3>2, <3>3, <3>4, <3>5 DEF OnAgentFrame
  <2>5. NoneIdler
    BY <1>0, <2>4, IdlerMoves DEF NoneIdler
  <2> QED BY <1>0, <2>1, <2>3, <2>4, <2>5, WordlessKeeps
<1> QED BY <1>1, <1>2

LEMMA ArriveCurrent ==
  ASSUME TypeInv, RelayInv, AgentInv, NEW v \in Visitors, Arrive(v)
  PROVE  AgentInv'
<1>0. Request(v) /\ AgentSleeps
  BY DEF Arrive, AgentSleeps
<1>1. /\ pub \in [Visitors -> PubSet] /\ v \in Whos /\ routed \in Conns \cup {NoConn} /\ NoConn \notin Conns
      /\ at[v].conn = NoConn
  BY <1>0, WhosAre, Constants DEF TypeInv, RelayTypeOK, PubSet, AgentInv, Unplaced, Request
<1>2. CASE routed = NoConn
  <2>1. pub' = [pub EXCEPT ![v] = "failed"] /\ UNCHANGED <<at, wrapped, down, tab>>
    BY <1>0, <1>2 DEF Request
  <2>2. NoneIdler
    BY <1>1, <2>1 DEF NoneIdler
  <2> QED BY <1>0, <2>1, <2>2, SilentKeeps
<1>3. CASE routed # NoConn
  <2> DEFINE n == routed
             id == nextId[n]
             g == Ctl("req_head", id, v)
             h == Ctl("req_end", id, v)
             fs == IF v \in Uploads THEN <<g>> ELSE <<g, h>>
  <2>1. n \in Conns /\ pub' = [pub EXCEPT ![v] = "waiting"] /\ UNCHANGED tab
    BY <1>0, <1>1, <1>3 DEF Request
  <2>2. Issued(v)
    BY <1>0, <2>1, <1>3 DEF Request, Issued, Spot
  <2>3. /\ id \in Ids /\ (wrapped => wrapped')
        /\ at'[v] = Spot(n, id)
        /\ \A x \in Whos : x # v =>
             /\ at'[x] = at[x]
             /\ ~wrapped => ~(at[x].conn = n /\ at[x].id = id)
    BY <1>1, <2>2, IssueKeeps
  <2>4. down' = down \/ down' = Posted(down, n, fs)
    BY <1>0, <1>3 DEF Request, RelaySend
  <2>5. /\ g \in DownFrames /\ h \in DownFrames /\ g.t = "req_head" /\ h.t = "req_end"
        /\ g.who = v /\ h.who = v /\ g.id = id /\ h.id = id
    BY <2>3, DownType DEF Ctl
  <2> HIDE DEF g, h, id, n
  <2>6. \A k \in 1..Len(fs) : (fs[k] = g /\ k = 1) \/ fs[k] = h
    <3>1. CASE v \in Uploads
      BY <3>1
    <3>2. CASE v \notin Uploads
      BY <3>2
    <3> QED BY <3>1, <3>2
  <2>7. fs \in Seq(DownFrames)
    BY <2>5
  <2>8. \A k \in 1..Len(fs) : Placed(at', n, fs[k])
    BY <1>1, <2>3, <2>5, <2>6 DEF Placed
  <2>9. \A w \in Whos : ~wrapped' => at[w] # Spot(n, id)
    BY <1>1, <2>1, <2>3 DEF Spot
  <2>10. \A k \in 1..Len(fs) : fs[k].t = "req_head" => k = 1 /\ fs[k].id = id
    BY <2>5, <2>6
  <2> HIDE DEF fs
  <2>11. \A k \in 1..Len(fs) : fs[k].t = "req_head" => k = 1 /\ \A w \in Whos : ~wrapped' => at[w] # Spot(n, fs[k].id)
    BY <2>9, <2>10
  <2>12. \A w \in Whos : at[w].conn # NoConn => at'[w] = at[w]
    BY <1>1, <2>3
  <2>13. Unplaced'
    <3>1. ASSUME NEW u \in Visitors, pub'[u] = "idle" PROVE at'[u].conn = NoConn
      BY <1>1, <2>1, <2>3, <3>1, WhosAre DEF AgentInv, Unplaced
    <3>2. ASSUME NEW b \in Browsers, tab'[b] = "idle" PROVE at'[b].conn = NoConn
      BY <1>1, <2>1, <2>3, <3>2, WhosAre DEF AgentInv, Unplaced
    <3> QED BY <3>1, <3>2 DEF Unplaced
  <2>14. UNCHANGED <<control, asock, requests, buffered, parked, lsocks>>
    BY <1>0 DEF AgentSleeps
  <2> QED BY <2>3, <2>4, <2>7, <2>8, <2>11, <2>12, <2>13, <2>14, DownGrows
<1> QED BY <1>1, <1>2, <1>3

LEMMA UpgradeCurrent ==
  ASSUME TypeInv, RelayInv, AgentInv, NEW b \in Browsers, Upgrade(b), UNCHANGED agentVars
  PROVE  AgentInv'
<1>0. AgentSleeps
  BY DEF AgentSleeps, agentVars
<1>1. /\ tab \in [Browsers -> {"idle", "open", "closed"}] /\ b \in Whos
      /\ routed \in Conns \cup {NoConn} /\ NoConn \notin Conns /\ at[b].conn = NoConn
  BY WhosAre, Constants DEF TypeInv, RelayTypeOK, AgentInv, Unplaced, Upgrade
<1>2. CASE routed = NoConn
  <2>1. tab' = [tab EXCEPT ![b] = "closed"] /\ UNCHANGED <<at, wrapped, down, pub>>
    BY <1>2 DEF Upgrade
  <2>2. NoneIdler
    BY <1>1, <2>1 DEF NoneIdler
  <2> QED BY <1>0, <2>1, <2>2, SilentKeeps
<1>3. CASE routed # NoConn
  <2> DEFINE n == routed
             id == nextId[n]
             g == Ctl("ws_open", id, b)
  <2>1. n \in Conns /\ tab' = [tab EXCEPT ![b] = "open"] /\ UNCHANGED pub
    BY <1>1, <1>3 DEF Upgrade
  <2>2. Issued(b)
    BY <2>1, <1>3 DEF Upgrade, Issued, Spot
  <2>3. /\ id \in Ids /\ (wrapped => wrapped')
        /\ at'[b] = Spot(n, id)
        /\ \A x \in Whos : x # b => at'[x] = at[x]
    BY <1>1, <2>2, IssueKeeps
  <2>4. down' = down \/ down' = Posted(down, n, <<g>>)
    BY <1>3 DEF Upgrade, RelaySend
  <2>5. g \in DownFrames /\ g.t = "ws_open" /\ g.who = b /\ g.id = id
    BY <2>3, DownType DEF Ctl
  <2> HIDE DEF g, id, n
  <2>6. Placed(at', n, g) /\ g.t # "req_head"
    BY <1>1, <2>3, <2>5 DEF Placed
  <2>7. <<g>> \in Seq(DownFrames) /\ \A k \in 1..Len(<<g>>) : <<g>>[k] = g
    BY <2>5
  <2>8. \A k \in 1..Len(<<g>>) : Placed(at', n, <<g>>[k]) /\ <<g>>[k].t # "req_head"
    BY <2>6, <2>7
  <2>12. \A w \in Whos : at[w].conn # NoConn => at'[w] = at[w]
    BY <1>1, <2>3
  <2>13. Unplaced'
    <3>1. ASSUME NEW u \in Visitors, pub'[u] = "idle" PROVE at'[u].conn = NoConn
      BY <1>1, <2>1, <2>3, <3>1, WhosAre DEF AgentInv, Unplaced
    <3>2. ASSUME NEW c \in Browsers, tab'[c] = "idle" PROVE at'[c].conn = NoConn
      BY <1>1, <2>1, <2>3, <3>2, WhosAre DEF AgentInv, Unplaced
    <3> QED BY <3>1, <3>2 DEF Unplaced
  <2>14. UNCHANGED <<control, asock, requests, buffered, parked, lsocks>>
    BY <1>0 DEF AgentSleeps
  <2> QED BY <2>3, <2>4, <2>7, <2>8, <2>12, <2>13, <2>14, DownGrows
<1> QED BY <1>1, <1>2, <1>3

\* Steps of the agent: the relay's tables stay, and what is in flight to the
\* agent stays, but for frames taken from the front.
RelaySleeps == UNCHANGED <<at, pub, tab, wrapped>>

Lagging == \A m \in Conns : \E k \in Nat : \A i \in 1..Len(down'[m]) :
             i + k \in 1..Len(down[m]) /\ down'[m][i] = down[m][i + k]

LEMMA TailLags ==
  ASSUME DownOK, NEW n \in Conns, down[n] # << >>, down' = [down EXCEPT ![n] = Tail(@)]
  PROVE  /\ Lagging
         /\ \A i \in 1..Len(down'[n]) : i + 1 \in 1..Len(down[n]) /\ down'[n][i] = down[n][i + 1]
         /\ down[n][1] = Head(down[n]) /\ 1 \in 1..Len(down[n])
<1>1. down[n] \in Seq(DownFrames) /\ down \in [Conns -> Seq(DownFrames)]
  BY DEF DownOK
<1>2. /\ Len(Tail(down[n])) = Len(down[n]) - 1 /\ Len(down[n]) \in Nat \ {0}
      /\ \A i \in 1..Len(Tail(down[n])) : Tail(down[n])[i] = down[n][i + 1]
      /\ down[n][1] = Head(down[n])
  BY <1>1, HeadTailProperties, LenProperties, EmptySeq
<1>3. down'[n] = Tail(down[n]) /\ \A m \in Conns : m # n => down'[m] = down[m]
  BY <1>1
<1>4. \A i \in 1..Len(down'[n]) : i + 1 \in 1..Len(down[n]) /\ down'[n][i] = down[n][i + 1]
  <2> SUFFICES ASSUME NEW i \in 1..Len(Tail(down[n]))
               PROVE  i + 1 \in 1..Len(down[n]) /\ Tail(down[n])[i] = down[n][i + 1]
    BY <1>3
  <2>1. \A L \in Nat \ {0} : \A K : K = L - 1 /\ i \in 1..K => i + 1 \in 1..L
    OBVIOUS
  <2>2. i + 1 \in 1..Len(down[n])
    BY <1>2, <2>1
  <2> QED BY <1>2, <2>2
<1>5. ASSUME NEW m \in Conns
      PROVE  \E k \in Nat : \A i \in 1..Len(down'[m]) : i + k \in 1..Len(down[m]) /\ down'[m][i] = down[m][i + k]
  <2>1. CASE m = n
    BY <1>4, <2>1
  <2>2. CASE m # n
    <3>1. down'[m] = down[m] /\ \A i \in 1..Len(down[m]) : i + 0 = i
      BY <1>3, <2>2
    <3> QED BY <3>1
  <2> QED BY <2>1, <2>2
<1>6. \A L \in Nat \ {0} : 1 \in 1..L
  OBVIOUS
<1>7. 1 \in 1..Len(down[n])
  BY <1>2, <1>6
<1> QED BY <1>2, <1>4, <1>5, <1>7 DEF Lagging

LEMMA StillLags == ASSUME UNCHANGED down PROVE Lagging
<1>1. \A m \in Conns : \A i \in 1..Len(down[m]) : i + 0 = i
  OBVIOUS
<1> QED BY <1>1 DEF Lagging

LEMMA LaggingKeeps ==
  ASSUME AgentInv, RelaySleeps, Lagging
  PROVE  Unplaced' /\ DownPlaced' /\ OnceEach'
<1>0. UNCHANGED <<at, pub, tab, wrapped>>
  BY DEF RelaySleeps
<1>1. Unplaced'
  BY <1>0 DEF AgentInv, Unplaced
<1>2. DownPlaced'
  <2> SUFFICES ASSUME NEW m \in Conns, NEW i \in 1..Len(down'[m]) PROVE Placed(at', m, down'[m][i])
    BY DEF DownPlaced
  <2>1. \E x \in 1..Len(down[m]) : down'[m][i] = down[m][x]
    BY DEF Lagging
  <2> QED BY <1>0, <2>1 DEF AgentInv, DownPlaced
<1>3. OnceEach'
  <2> SUFFICES ASSUME ~wrapped, NEW m \in Conns, NEW i \in 1..Len(down'[m]), NEW j \in 1..Len(down'[m]),
                      i # j, down'[m][i].t = "req_head", down'[m][j].t = "req_head"
               PROVE  down'[m][i].id # down'[m][j].id
    BY <1>0 DEF OnceEach
  <2>1. PICK k \in Nat : \A x \in 1..Len(down'[m]) : x + k \in 1..Len(down[m]) /\ down'[m][x] = down[m][x + k]
    BY DEF Lagging
  <2>2. i + k # j + k
    OBVIOUS
  <2> QED BY <2>1, <2>2 DEF AgentInv, OnceEach
<1> QED BY <1>1, <1>2, <1>3

Shrink == \A id \in Ids :
  /\ requests'[id] \in {requests[id], None} /\ buffered'[id] \in {buffered[id], None}
  /\ parked'[id] \in {parked[id], None} /\ lsocks'[id] \in {lsocks[id], None}

LEMMA ShrinkKeeps ==
  ASSUME AgentInv, RelaySleeps, Lagging, Shrink, UNCHANGED <<control, asock>>
  PROVE  AgentInv'
<1>0. UNCHANGED <<at, wrapped>>
  BY DEF RelaySleeps
<1>1. Unplaced' /\ DownPlaced' /\ OnceEach'
  BY LaggingKeeps
<1>2. Sole'
  BY DEF AgentInv, Sole
<1>3. EmptyOffline'
  BY DEF AgentInv, EmptyOffline, Empty, Shrink
<1>4. Entitled'
  BY <1>0 DEF AgentInv, Entitled, Shrink
<1>5. OneTable'
  BY <1>0 DEF AgentInv, OneTable, Shrink
<1>6. Unopened'
  <2> SUFFICES ASSUME ~wrapped, NEW n \in Conns, n = control, NEW i \in 1..Len(down'[n]), NEW id \in Ids,
                      down'[n][i].t = "req_head", down'[n][i].id = id
               PROVE  Free(id)'
    BY <1>0 DEF Unopened
  <2>1. \E x \in 1..Len(down[n]) : down'[n][i] = down[n][x]
    BY DEF Lagging
  <2>2. Free(id)
    BY <2>1 DEF AgentInv, Unopened
  <2> QED BY <2>2 DEF Free, Shrink
<1> QED BY <1>1, <1>2, <1>3, <1>4, <1>5, <1>6 DEF AgentInv

\* The control socket is gone, or is dialled anew, and nothing is in a table.
LEMMA OfflineKeeps ==
  ASSUME AgentInv, RelaySleeps, Lagging, Empty', Sole'
  PROVE  AgentInv'
<1>0. UNCHANGED <<at, wrapped>>
  BY DEF RelaySleeps
<1>1. Unplaced' /\ DownPlaced' /\ OnceEach'
  BY LaggingKeeps
<1>2. EmptyOffline' /\ Entitled' /\ OneTable'
  BY DEF EmptyOffline, Empty, Entitled, OneTable
<1>3. \A id \in Ids : Free(id)'
  BY DEF Empty, Free
<1>4. Unopened'
  BY <1>3 DEF Unopened
<1> QED BY <1>1, <1>2, <1>4 DEF AgentInv

\* A request is opened: its id was free, and one table at most takes it.
Takes(table, f) == table' = [table EXCEPT ![f.id] = f.who]

LEMMA OpenKeeps ==
  ASSUME TypeInv, AgentInv, RelaySleeps, UNCHANGED <<control, asock, lsocks>>,
         NEW n \in Conns, down[n] # << >>, down' = [down EXCEPT ![n] = Tail(@)],
         n = control, asock[n] = "open",
         NEW f, f = Head(down[n]), f \in DownFrames, f.t = "req_head",
         \/ UNCHANGED <<requests, buffered, parked>>
         \/ Takes(requests, f) /\ UNCHANGED <<buffered, parked>>
         \/ Takes(buffered, f) /\ UNCHANGED <<requests, parked>>
         \/ Takes(parked, f) /\ UNCHANGED <<requests, buffered>>
  PROVE  AgentInv'
<1>0. UNCHANGED <<at, wrapped>>
  BY DEF RelaySleeps
<1>1. /\ Lagging
      /\ \A i \in 1..Len(down'[n]) : i + 1 \in 1..Len(down[n]) /\ down'[n][i] = down[n][i + 1]
      /\ down[n][1] = f /\ 1 \in 1..Len(down[n])
  BY TailLags DEF TypeInv
<1>2. Unplaced' /\ DownPlaced' /\ OnceEach'
  BY <1>1, LaggingKeeps
<1>3. Sole' /\ EmptyOffline'
  <2>1. control # NoConn /\ asock'[control'] = "open"
    BY Constants
  <2>2. Sole'
    BY DEF AgentInv, Sole
  <2> QED BY <2>1, <2>2 DEF EmptyOffline
<1>4. f.id \in Ids /\ f.who \in Visitors /\ f.who # None /\ at[f.who] = Spot(control, f.id)
  <2>1. Placed(at, n, f)
    BY <1>1 DEF AgentInv, DownPlaced
  <2>2. f.who \in Visitors /\ f.id \in Ids
    BY DEF DownFrames, FrameSet
  <2> QED BY <2>1, <2>2, WhosAre DEF Placed
<1>5. ~wrapped => Free(f.id)
  BY <1>1, <1>4 DEF AgentInv, Unopened
<1>6. /\ requests \in [Ids -> Visitors \cup {None}] /\ buffered \in [Ids -> Visitors \cup {None}]
      /\ parked \in [Ids -> Visitors \cup {None}]
  BY DEF TypeInv, AgentTypeOK
<1>7. ASSUME NEW id \in Ids
      PROVE  \/ /\ requests'[id] = requests[id] /\ buffered'[id] = buffered[id] /\ parked'[id] = parked[id]
             \/ /\ id = f.id
                /\ \/ requests'[id] = f.who /\ buffered'[id] = buffered[id] /\ parked'[id] = parked[id]
                   \/ buffered'[id] = f.who /\ requests'[id] = requests[id] /\ parked'[id] = parked[id]
                   \/ parked'[id] = f.who /\ requests'[id] = requests[id] /\ buffered'[id] = buffered[id]
  BY <1>4, <1>6 DEF Takes
<1>8. Entitled'
  <2> SUFFICES ASSUME ~wrapped, NEW id \in Ids
               PROVE  /\ requests'[id] # None => at[requests'[id]] = Spot(control, id)
                      /\ buffered'[id] # None => at[buffered'[id]] = Spot(control, id)
                      /\ parked'[id] # None => at[parked'[id]] = Spot(control, id)
                      /\ lsocks[id] # None => at[lsocks[id]] = Spot(control, id)
    BY <1>0, Zenon DEF Entitled, Spot
  <2> QED BY <1>4, <1>7 DEF AgentInv, Entitled
<1>9. OneTable'
  <2> SUFFICES ASSUME ~wrapped, NEW id \in Ids
               PROVE  /\ parked'[id] # None => requests'[id] = None /\ buffered'[id] = None
                      /\ buffered'[id] # None => requests'[id] = None
    BY <1>0, Zenon DEF OneTable
  <2> QED BY <1>4, <1>5, <1>7 DEF AgentInv, OneTable, Free
<1>10. Unopened'
  <2> SUFFICES ASSUME ~wrapped, NEW i \in 1..Len(down'[n]), NEW id \in Ids,
                      down'[n][i].t = "req_head", down'[n][i].id = id
               PROVE  requests'[id] = None /\ buffered'[id] = None /\ parked'[id] = None
    BY <1>0 DEF Unopened, Free
  <2>1. i + 1 \in 1..Len(down[n]) /\ down[n][i + 1].t = "req_head" /\ down[n][i + 1].id = id
    BY <1>1
  <2>2. Free(id)
    BY <2>1 DEF AgentInv, Unopened
  <2>3. i + 1 # 1
    OBVIOUS
  <2>4. \A x, y \in 1..Len(down[n]) :
          x # y /\ down[n][x].t = "req_head" /\ down[n][y].t = "req_head" => down[n][x].id # down[n][y].id
    BY DEF AgentInv, OnceEach
  <2>5. 1 \in 1..Len(down[n]) /\ down[n][1].t = "req_head" /\ down[n][1].id = f.id
    BY <1>1
  <2>6. down[n][i + 1].id # down[n][1].id
    BY <2>1, <2>3, <2>4, <2>5
  <2>7. id # f.id
    BY <2>1, <2>5, <2>6
  <2> QED BY <1>7, <2>2, <2>7 DEF Free
<1> QED BY <1>2, <1>3, <1>8, <1>9, <1>10 DEF AgentInv

\* A socket is opened.
LEMMA SocketKeeps ==
  ASSUME TypeInv, AgentInv, RelaySleeps, UNCHANGED <<control, asock, requests, buffered, parked>>,
         NEW n \in Conns, down[n] # << >>, down' = [down EXCEPT ![n] = Tail(@)],
         n = control, asock[n] = "open",
         NEW f, f = Head(down[n]), f \in DownFrames, f.t = "ws_open",
         lsocks' = [lsocks EXCEPT ![f.id] = f.who]
  PROVE  AgentInv'
<1>0. UNCHANGED <<at, wrapped>> /\ lsocks \in [Ids -> Browsers \cup {None}]
  BY DEF RelaySleeps, TypeInv, AgentTypeOK
<1>1. Lagging /\ down[n][1] = f /\ 1 \in 1..Len(down[n])
  BY TailLags DEF TypeInv
<1>2. Unplaced' /\ DownPlaced' /\ OnceEach'
  BY <1>1, LaggingKeeps
<1>3. Sole' /\ EmptyOffline' /\ OneTable'
  <2>1. control # NoConn /\ asock'[control'] = "open"
    BY Constants
  <2>2. Sole' /\ OneTable'
    BY <1>0 DEF AgentInv, Sole, OneTable
  <2> QED BY <2>1, <2>2 DEF EmptyOffline
<1>4. at[f.who] = Spot(control, f.id)
  <2>1. Placed(at, n, f)
    BY <1>1 DEF AgentInv, DownPlaced
  <2> QED BY <2>1 DEF Placed
<1>5. Entitled'
  <2> SUFFICES ASSUME ~wrapped, NEW id \in Ids
               PROVE  /\ requests[id] # None => at[requests[id]] = Spot(control, id)
                      /\ buffered[id] # None => at[buffered[id]] = Spot(control, id)
                      /\ parked[id] # None => at[parked[id]] = Spot(control, id)
                      /\ lsocks'[id] # None => at[lsocks'[id]] = Spot(control, id)
    BY <1>0 DEF Entitled, Spot
  <2>1. lsocks'[id] = lsocks[id] \/ (id = f.id /\ lsocks'[id] = f.who)
    BY <1>0
  <2> QED BY <1>4, <2>1 DEF AgentInv, Entitled
<1>6. Unopened'
  <2> SUFFICES ASSUME ~wrapped, NEW i \in 1..Len(down'[n]), NEW id \in Ids,
                      down'[n][i].t = "req_head", down'[n][i].id = id
               PROVE  Free(id)
    <3>1. \A id \in Ids : Free(id)' <=> Free(id)
      BY DEF Free
    <3> QED BY <1>0, <3>1 DEF Unopened
  <2>1. \E x \in 1..Len(down[n]) : down'[n][i] = down[n][x]
    BY <1>1 DEF Lagging
  <2> QED BY <2>1 DEF AgentInv, Unopened
<1> QED BY <1>2, <1>3, <1>5, <1>6 DEF AgentInv

LEMMA CloseLocalShrinks ==
  ASSUME NEW i \in Ids, lsocks \in [Ids -> Browsers \cup {None}], CloseLocal(i)
  PROVE  \A id \in Ids : lsocks'[id] \in {lsocks[id], None}
BY DEF CloseLocal

LEMMA ReceiveCurrent ==
  ASSUME TypeInv, AgentInv, NEW n \in Conns, AgentReceive(n)
  PROVE  AgentInv'
<1> DEFINE f == Head(down[n])
<1>1. /\ asock[n] \in {"open", "closing"} /\ down[n] # << >> /\ AgentDispatch(f)
      /\ down' = [down EXCEPT ![n] = Tail(@)] /\ UNCHANGED relayVars
  BY DEF AgentReceive
<1>a. RelaySleeps
  BY <1>1 DEF relayVars, RelaySleeps
<1>2. asock[n] = "open" /\ n = control
  BY <1>1 DEF AgentInv, Sole
<1>3. f \in DownFrames /\ Lagging
  BY <1>1, TailLags, TakenType DEF TypeInv, DownOK
<1> HIDE DEF f
<1>4. UNCHANGED <<control, asock>> /\ f.id \in Ids
  BY <1>1, <1>3 DEF AgentDispatch, DownFrames, FrameSet
<1>5. /\ requests \in [Ids -> Visitors \cup {None}] /\ buffered \in [Ids -> Visitors \cup {None}]
      /\ parked \in [Ids -> Visitors \cup {None}] /\ lsocks \in [Ids -> Browsers \cup {None}]
  BY DEF TypeInv, AgentTypeOK
<1>6. ASSUME Shrink PROVE AgentInv'
  BY <1>a, <1>3, <1>4, <1>6, ShrinkKeeps
<1>7. ASSUME f.t = "req_head", ReqHead(f) PROVE AgentInv'
  <2>1. UNCHANGED lsocks /\ OpenRequest(f.who, f.id)
    BY <1>7 DEF ReqHead
  <2>2. \/ UNCHANGED <<requests, buffered, parked>>
        \/ Takes(requests, f) /\ UNCHANGED <<buffered, parked>>
        \/ Takes(buffered, f) /\ UNCHANGED <<requests, parked>>
        \/ Takes(parked, f) /\ UNCHANGED <<requests, buffered>>
    BY <2>1 DEF OpenRequest, Replay, Takes
  <2> QED BY <1>1, <1>a, <1>2, <1>3, <1>4, <1>7, <2>1, <2>2, OpenKeeps DEF f
<1>8. ASSUME f.t = "req_end", ReqEnd(f) PROVE AgentInv'
  <2>1. UNCHANGED <<requests, parked, lsocks>> /\ (buffered' = buffered \/ buffered' = [buffered EXCEPT ![f.id] = None])
    BY <1>8 DEF ReqEnd, FinishE2E
  <2>2. Shrink
    BY <1>5, <2>1 DEF Shrink
  <2> QED BY <1>6, <2>2
<1>9. ASSUME f.t = "abort", RelayAbort(f) PROVE AgentInv'
  <2>1. /\ requests' = [requests EXCEPT ![f.id] = None] /\ buffered' = [buffered EXCEPT ![f.id] = None]
        /\ parked' = [parked EXCEPT ![f.id] = None] /\ CloseLocal(f.id)
    BY <1>9 DEF RelayAbort
  <2>2. Shrink
    BY <1>4, <1>5, <2>1, CloseLocalShrinks DEF Shrink
  <2> QED BY <1>6, <2>2
<1>10. ASSUME f.t = "ws_open", WsOpen(f) PROVE AgentInv'
  <2>1. lsocks' = [lsocks EXCEPT ![f.id] = f.who] /\ UNCHANGED <<requests, buffered, parked>>
    BY <1>10 DEF WsOpen
  <2> QED BY <1>1, <1>a, <1>2, <1>3, <1>4, <1>10, <2>1, SocketKeeps DEF f
<1>11. ASSUME f.t = "ws_msg", WsData(f) PROVE AgentInv'
  <2>1. Shrink
    BY <1>11 DEF WsData, Shrink
  <2> QED BY <1>6, <2>1
<1>12. ASSUME f.t = "ws_close", WsClose(f) PROVE AgentInv'
  <2>1. Shrink
    BY <1>4, <1>5, <1>12, CloseLocalShrinks DEF WsClose, Shrink
  <2> QED BY <1>6, <2>1
<1> QED BY <1>1, <1>7, <1>8, <1>9, <1>10, <1>11, <1>12 DEF AgentDispatch

LEMMA LocalCurrent ==
  ASSUME TypeInv, AgentInv, UNCHANGED relayVars,
         \/ \E v \in Visitors : \/ LocalHead(v) \/ LocalBody(v) \/ LocalRead(v) \/ LocalEnd(v) \/ LocalSpill(v)
                                \/ LocalError(v) \/ LocalAnswer(v)
         \/ \E b \in Browsers : \/ LinkOpen(b) \/ LinkMessage(b) \/ LinkClose(b)
                                \/ LinkRefused(b) \/ LinkCongested(b)
  PROVE  AgentInv'
<1>0. RelaySleeps
  BY DEF relayVars, RelaySleeps
<1>1. /\ requests \in [Ids -> Visitors \cup {None}] /\ lsocks \in [Ids -> Browsers \cup {None}]
  BY DEF TypeInv, AgentTypeOK
<1>2. ASSUME UNCHANGED <<control, asock, down, buffered, parked>>,
             UNCHANGED requests \/ (\E id \in Ids : requests' = [requests EXCEPT ![id] = None]),
             UNCHANGED lsocks \/ (\E id \in Ids : lsocks' = [lsocks EXCEPT ![id] = None])
      PROVE  AgentInv'
  <2>1. Lagging
    BY <1>2, StillLags
  <2>2. \A id \in Ids : requests'[id] \in {requests[id], None} /\ lsocks'[id] \in {lsocks[id], None}
    BY <1>1, <1>2
  <2>3. Shrink
    BY <1>2, <2>2 DEF Shrink
  <2> QED BY <1>0, <1>2, <2>1, <2>3, ShrinkKeeps
<1>3. ASSUME NEW v \in Visitors,
             LocalHead(v) \/ LocalBody(v) \/ LocalRead(v) \/ LocalEnd(v) \/ LocalSpill(v) \/ LocalError(v) \/ LocalAnswer(v)
      PROVE  AgentInv'
  <2>0. job[v].id \in Ids
    BY AgentParts DEF TypeInv, JobOK, JobSet
  <2>1. UNCHANGED <<control, asock, down, buffered, parked, lsocks>>
    BY <1>3 DEF LocalHead, LocalBody, LocalRead, LocalEnd, LocalSpill, LocalError, LocalAnswer, JobsOnly
  <2>2. UNCHANGED requests \/ requests' = [requests EXCEPT ![job[v].id] = None]
    BY <1>3 DEF LocalHead, LocalBody, LocalRead, LocalEnd, LocalSpill, LocalError, LocalAnswer
  <2> QED BY <1>2, <2>0, <2>1, <2>2
<1>4. ASSUME NEW b \in Browsers,
             LinkOpen(b) \/ LinkMessage(b) \/ LinkClose(b) \/ LinkRefused(b) \/ LinkCongested(b)
      PROVE  AgentInv'
  <2>0. link[b].id \in Ids
    BY AgentParts DEF TypeInv, LinkOK, LinkSet
  <2>1. UNCHANGED <<control, asock, down, buffered, parked, requests>>
    BY <1>4 DEF LinkOpen, LinkMessage, LinkClose, LinkRefused, LinkCongested, SocketsOnly
  <2>2. UNCHANGED lsocks \/ lsocks' = [lsocks EXCEPT ![link[b].id] = None]
    BY <1>4 DEF LinkOpen, LinkMessage, LinkClose, LinkRefused, LinkCongested
  <2> QED BY <1>2, <2>0, <2>1, <2>2
<1> QED BY <1>3, <1>4

\* Parked requests move on to one table each.
LEMMA SettledCurrent ==
  ASSUME TypeInv, AgentInv, UNCHANGED relayVars, CookieSettled
  PROVE  AgentInv'
<1> DEFINE waiting == {id \in Ids : parked[id] # None}
           plain   == {id \in waiting : Fate(parked[id]) = "replayed"}
           sealed  == {id \in waiting : Fate(parked[id]) = "buffered"}
<1>0. RelaySleeps /\ UNCHANGED <<at, wrapped>>
  BY DEF relayVars, RelaySleeps
<1>1. /\ requests' = [id \in Ids |-> IF id \in plain THEN parked[id] ELSE requests[id]]
      /\ buffered' = [id \in Ids |-> IF id \in sealed \ ended THEN parked[id] ELSE buffered[id]]
      /\ parked' = NoneOpen
      /\ UNCHANGED <<control, asock, lsocks, down>>
  BY DEF CookieSettled
<1>2. ASSUME NEW id \in Ids
      PROVE  /\ requests'[id] = requests[id] \/ (parked[id] # None /\ requests'[id] = parked[id])
             /\ buffered'[id] = buffered[id] \/ (parked[id] # None /\ buffered'[id] = parked[id])
             /\ parked'[id] = None
             /\ ~(id \in plain /\ id \in sealed)
             /\ id \notin plain => requests'[id] = requests[id]
             /\ id \notin sealed => buffered'[id] = buffered[id]
  BY <1>1 DEF NoneOpen
<1> HIDE DEF plain, sealed
<1>3. Lagging
  BY <1>1, StillLags
<1>4. Unplaced' /\ DownPlaced' /\ OnceEach'
  BY <1>0, <1>3, LaggingKeeps
<1>5. Sole'
  BY <1>1 DEF AgentInv, Sole
<1>6. EmptyOffline'
  BY <1>1, <1>2 DEF AgentInv, EmptyOffline, Empty
<1>7. Entitled'
  <2> SUFFICES ASSUME ~wrapped, NEW id \in Ids
               PROVE  /\ requests'[id] # None => at[requests'[id]] = Spot(control, id)
                      /\ buffered'[id] # None => at[buffered'[id]] = Spot(control, id)
                      /\ parked'[id] # None => at[parked'[id]] = Spot(control, id)
                      /\ lsocks[id] # None => at[lsocks[id]] = Spot(control, id)
    BY <1>0, <1>1 DEF Entitled, Spot
  <2> QED BY <1>2 DEF AgentInv, Entitled
<1>8. OneTable'
  <2> SUFFICES ASSUME ~wrapped, NEW id \in Ids
               PROVE  /\ parked'[id] # None => requests'[id] = None /\ buffered'[id] = None
                      /\ buffered'[id] # None => requests'[id] = None
    BY <1>0, Zenon DEF OneTable
  <2>1. /\ parked[id] # None => requests[id] = None /\ buffered[id] = None
        /\ buffered[id] # None => requests[id] = None
    BY DEF AgentInv, OneTable
  <2> QED BY <1>2, <2>1
<1>9. Unopened'
  <2>1. \A id \in Ids : Free(id) => requests'[id] = None /\ buffered'[id] = None /\ parked'[id] = None
    BY <1>2 DEF Free
  <2> QED BY <1>0, <1>1, <2>1 DEF AgentInv, Unopened, Free
<1> QED BY <1>4, <1>5, <1>6, <1>7, <1>8, <1>9 DEF AgentInv

LEMMA ControlCurrent ==
  ASSUME TypeInv, AgentInv,
         \/ (\E k \in Keys : SetE2E(k)) /\ UNCHANGED relayVars
         \/ Reconnect /\ UNCHANGED relayVars
         \/ (\E n \in Conns : AgentCloseEvent(n)) /\ UNCHANGED relayVars
         \/ \E n \in Conns : Handshake(n)
  PROVE  AgentInv'
<1>0. DropStreams => Empty'
  BY DEF DropStreams, Empty, NoneOpen
<1>1. asock \in [Conns -> AgentStates] /\ down \in [Conns -> Seq(DownFrames)] /\ NoConn \notin Conns
  BY Constants DEF TypeInv, AgentTypeOK, DownOK
<1>2. ASSUME NEW k \in Keys, SetE2E(k), UNCHANGED relayVars PROVE AgentInv'
  <2>1. DropStreams /\ UNCHANGED <<control, asock, down>> /\ RelaySleeps
    BY <1>2 DEF SetE2E, relayVars, RelaySleeps
  <2>2. Sole'
    BY <2>1 DEF AgentInv, Sole
  <2> QED BY <1>0, <2>1, <2>2, StillLags, OfflineKeeps
<1>3. ASSUME Reconnect, UNCHANGED relayVars PROVE AgentInv'
  <2>1. /\ control = NoConn /\ control' = dialled + 1 /\ asock' = [asock EXCEPT ![dialled + 1] = "connecting"]
        /\ UNCHANGED <<requests, buffered, parked, lsocks, down>> /\ RelaySleeps
    BY <1>3 DEF Reconnect, Dial, relayVars, RelaySleeps
  <2>2. Empty'
    BY <2>1 DEF AgentInv, EmptyOffline, Empty
  <2>3. Sole'
    BY <1>1, <2>1 DEF AgentInv, Sole
  <2> QED BY <2>1, <2>2, <2>3, StillLags, OfflineKeeps
<1>4. ASSUME NEW n \in Conns, AgentCloseEvent(n), UNCHANGED relayVars PROVE AgentInv'
  <2>1. asock[n] \in {"connecting", "open", "closing"} /\ asock' = [asock EXCEPT ![n] = "closed"]
        /\ down' = [down EXCEPT ![n] = << >>] /\ RelaySleeps
    BY <1>4 DEF AgentCloseEvent, relayVars, RelaySleeps
  <2>2. control = n
    BY <2>1 DEF AgentInv, Sole
  <2>3. DropStreams /\ control' = NoConn
    BY <1>4, <2>2 DEF AgentCloseEvent
  <2>4. Sole'
    BY <1>1, <2>1, <2>2, <2>3 DEF AgentInv, Sole
  <2>5. Lagging
    <3> SUFFICES ASSUME NEW m \in Conns
                 PROVE  \A i \in 1..Len(down'[m]) : i + 0 \in 1..Len(down[m]) /\ down'[m][i] = down[m][i + 0]
      BY DEF Lagging
    <3>1. CASE m = n
      <4>1. down'[m] = << >> /\ Len(down'[m]) = 0
        BY <1>1, <2>1, <3>1
      <4> QED BY <4>1
    <3>2. CASE m # n
      <4>1. down'[m] = down[m] /\ \A i \in 1..Len(down[m]) : i + 0 = i
        BY <1>1, <2>1, <3>2
      <4> QED BY <4>1
    <3> QED BY <3>1, <3>2
  <2> QED BY <1>0, <2>1, <2>3, <2>4, <2>5, OfflineKeeps
<1>5. ASSUME NEW n \in Conns, Handshake(n) PROVE AgentInv'
  <2>1. /\ asock[n] = "connecting" /\ asock' = [asock EXCEPT ![n] = "open"]
        /\ UNCHANGED <<control, requests, buffered, parked, lsocks, down>> /\ RelaySleeps
    BY <1>5 DEF Handshake, Opened, RelaySleeps
  <2>2. n = control
    BY <2>1 DEF AgentInv, Sole
  <2>3. Empty'
    BY <2>1, <2>2 DEF AgentInv, EmptyOffline, Empty
  <2>4. Sole'
    BY <1>1, <2>1, <2>2 DEF AgentInv, Sole
  <2> QED BY <2>1, <2>3, <2>4, StillLags, OfflineKeeps
<1> QED BY <1>2, <1>3, <1>4, <1>5

LEMMA StepCurrent ==
  ASSUME Redials = FALSE, TypeInv, RelayInv, AgentInv, [Next]_vars
  PROVE  AgentInv'
<1>1. ASSUME NEW v \in Visitors, Arrive(v) PROVE AgentInv'
  BY <1>1, ArriveCurrent
<1>2. ASSUME Public, UNCHANGED agentVars PROVE AgentInv'
  BY <1>2, PublicCurrent, UpgradeCurrent DEF Public
<1>3. ASSUME RelaySteps, UNCHANGED agentVars PROVE AgentInv'
  <2>1. ASSUME NEW n \in Conns, Admit(n) \/ Terminate(n) \/ CloseEvent(n) PROVE AgentInv'
    BY <1>3, <2>1, RelayStepsCurrent
  <2>2. ASSUME NEW n \in Conns, NEW id \in Ids, IdleTimeout(n, id) PROVE AgentInv'
    BY <1>3, <2>2, RelayStepsCurrent
  <2> QED BY <1>3, <2>1, <2>2, Zenon DEF RelaySteps
<1>4. ASSUME NEW n \in Conns, RelayReceive(n) PROVE AgentInv'
  <2> DEFINE f == Head(up[n])
  <2>1. f \in FrameSet /\ UNCHANGED agentVars
    BY <1>4, TakenType DEF RelayReceive, TypeInv, UpOK
  <2>2. PeerClose(n) \/ OnAgentFrame(n, f) \/ UNCHANGED <<relayVars, down>>
    BY <1>4 DEF RelayReceive
  <2>3. ASSUME UNCHANGED <<relayVars, down>> PROVE AgentInv'
    <3>1. AgentSleeps /\ UNCHANGED <<at, wrapped, down>> /\ NoneIdler
      BY <2>1, <2>3 DEF agentVars, relayVars, AgentSleeps, NoneIdler
    <3> QED BY <3>1, SilentKeeps
  <2> QED BY <2>1, <2>2, <2>3, FramesCurrent
<1>5. ASSUME NEW n \in Conns, AgentReceive(n) PROVE AgentInv'
  BY <1>5, ReceiveCurrent
<1>6. ASSUME NEW n \in Conns, Handshake(n) PROVE AgentInv'
  BY <1>6, ControlCurrent
<1>7. ASSUME NEW n \in Conns, Loss(n) PROVE AgentInv'
  BY <1>7, RelayStepsCurrent DEF Loss
<1>8. ASSUME AgentSteps, UNCHANGED relayVars PROVE AgentInv'
  BY <1>8, LocalCurrent, SettledCurrent, ControlCurrent DEF AgentSteps
<1>9. ASSUME UNCHANGED vars PROVE AgentInv'
  <2>1. AgentSleeps /\ UNCHANGED <<at, wrapped, down>> /\ NoneIdler
    BY <1>9 DEF vars, wireVars, agentVars, relayVars, AgentSleeps, NoneIdler
  <2> QED BY <2>1, SilentKeeps
<1> QED BY <1>1, <1>2, <1>3, <1>4, <1>5, <1>6, <1>7, <1>8, <1>9 DEF Next

LEMMA AgentInvariance ==
  ASSUME Redials = FALSE
  PROVE  Spec => [](TypeInv /\ RelayInv /\ AgentInv)
<1>1. Init => TypeInv /\ RelayInv /\ AgentInv
  BY InitType, InitRelay, InitAgent
<1>2. TypeInv /\ RelayInv /\ AgentInv /\ [Next]_vars => (TypeInv /\ RelayInv /\ AgentInv)'
  BY StepType, RelayStepKeeps, StepCurrent
<1> QED BY <1>1, <1>2, PTL DEF Spec

\* An agent that never redials next to a socket that still delivers has in its
\* tables, until an id allocator wraps, streams of its current connection only,
\* each under its own id, and no id in two tables: onClose leaves nothing behind.
THEOREM TablesAreCurrent ==
  ASSUME Redials = FALSE
  PROVE  Spec => [](~wrapped => StreamsAreCurrent)
<1>1. ASSUME TypeInv, RelayInv, AgentInv, ~wrapped PROVE StreamsAreCurrent
  <2>0. \A id \in Ids : /\ requests[id] \in Visitors \cup {None} /\ buffered[id] \in Visitors \cup {None}
                        /\ parked[id] \in Visitors \cup {None} /\ lsocks[id] \in Browsers \cup {None}
    BY <1>1 DEF TypeInv, AgentTypeOK
  <2>1. ASSUME NEW id \in Ids, NEW w \in {requests[id], buffered[id], parked[id], lsocks[id]} \ {None}
        PROVE  at[w] = [conn |-> control, id |-> id] /\ w \in Whos
    BY <1>1, <2>0, <2>1, WhosAre DEF AgentInv, Entitled, Spot
  <2>2. ASSUME NEW id \in Ids, NEW w \in {requests[id], buffered[id], parked[id], lsocks[id]} \ {None},
               NEW x \in {requests[id], buffered[id], parked[id], lsocks[id]} \ {None}
        PROVE  w = x
    <3>0. at[w] = [conn |-> control, id |-> id] /\ at[x] = [conn |-> control, id |-> id] /\ w \in Whos /\ x \in Whos
      BY <2>1, <2>2
    <3>1. at[w] = at[x] /\ w \in Whos /\ x \in Whos /\ at[w].conn = control
      BY <3>0
    <3>2. control # NoConn
      BY <1>1 DEF AgentInv, EmptyOffline, Empty
    <3> QED BY <1>1, <3>1, <3>2 DEF RelayInv, Apart
  <2>3. \A id \in Ids : /\ (parked[id] # None) => (requests[id] = None /\ buffered[id] = None)
                        /\ (buffered[id] # None) => requests[id] = None
    BY <1>1 DEF AgentInv, OneTable
  <2> QED BY <2>1, <2>2, <2>3 DEF StreamsAreCurrent
<1>2. TypeInv /\ RelayInv /\ AgentInv => (~wrapped => StreamsAreCurrent)
  BY <1>1
<1> QED BY <1>2, AgentInvariance, PTL

-----------------------------------------------------------------------------
(* Who speaks under which id, when no request is sealed and, if browser    *)
(* sockets are in play, a local socket told to close is closed before the  *)
(* next connection opens.  What is in flight to the relay is then about    *)
(* the owner of its id, and every local request and socket that still has  *)
(* something to say is in the table under its own id.                      *)

NothingSealed == "api" \notin Kinds \/ MaxKey = 0

Said(places, n) ==
  {f \in FrameSet : f.t \in {"res_head", "res_body", "res_end", "ws_msg"} =>
                      f.who \in Whos /\ places[f.who] = Spot(n, f.id)}
UpPlaced == \A n \in Conns : up[n] \in Seq(Said(at, n))

JobsHeld ==
  \A v \in Visitors :
    /\ job[v].st \in AtDsh => requests[job[v].id] = v
    /\ \A id \in Ids : requests[id] = v => job[v].st \in AtDsh /\ job[v].id = id

\* A compressor that still has something to say answers for its visitor.
TailsHeld ==
  \A v \in Visitors :
    job[v].st \in Compressing /\ control # NoConn /\ asock[control] = "open" => at[v] = Spot(control, job[v].id)

LinksHeld ==
  \A b \in Browsers :
    /\ link[b].st \in {"connecting", "open"} => lsocks[link[b].id] = b
    /\ link[b].st = "closing" /\ control # NoConn /\ asock[control] = "open" =>
         at[b] = Spot(control, link[b].id)
    /\ \A id \in Ids : lsocks[id] = b => link[b].st \in {"connecting", "open", "closing"} /\ link[b].id = id

Unsealed == (\A v \in Visitors : ~job[v].sealed) /\ (\A id \in Ids : buffered[id] = None)

TalkInv == Unsealed /\ (~wrapped => UpPlaced /\ JobsHeld /\ LinksHeld /\ NoCrossTalk)
TailInv == ~wrapped => TailsHeld

AllInv == TypeInv /\ RelayInv /\ AgentInv

LEMMA InitTalk == Init => TalkInv
<1> SUFFICES ASSUME Init PROVE TalkInv
  OBVIOUS
<1>1. \A v \in Visitors : job[v] = NoJob /\ fed[v] = {} /\ got[v] = << >>
  BY DEF Init, AgentInit, RelayInit
<1>2. \A b \in Browsers : link[b] = NoLink /\ heard[b] = {} /\ told[b] = {}
  BY DEF Init, AgentInit, RelayInit
<1>3. \A id \in Ids : requests[id] = None /\ buffered[id] = None /\ lsocks[id] = None
  BY DEF Init, AgentInit, NoneOpen
<1>4. \A n \in Conns : up[n] = << >>
  BY DEF Init, WireInit
<1>5. UpPlaced
  BY <1>4, EmptySeq DEF UpPlaced
<1>6. Unsealed /\ JobsHeld /\ LinksHeld
  BY <1>1, <1>2, <1>3, WhosAre DEF Unsealed, JobsHeld, LinksHeld, NoJob, NoLink, AtDsh
<1>7. NoCrossTalk
  BY <1>1, <1>2 DEF NoCrossTalk
<1> QED BY <1>5, <1>6, <1>7 DEF TalkInv

LEMMA NothingIsSealed == ASSUME NothingSealed, TypeInv, NEW v \in Visitors PROVE Fate(v) = "replayed"
BY DEF NothingSealed, TypeInv, AgentTypeOK, Fate, Keys, Asks

\* What stands in a table of the agent owns its id, on the open control socket,
\* and nobody else does.
LEMMA Owners ==
  ASSUME AllInv, ~wrapped
  PROVE  /\ \A id \in Ids : requests[id] # None =>
              /\ control \in Conns /\ asock[control] = "open"
              /\ requests[id] \in Visitors /\ at[requests[id]] = Spot(control, id)
         /\ \A id \in Ids : parked[id] # None =>
              /\ control \in Conns /\ asock[control] = "open" /\ requests[id] = None
              /\ parked[id] \in Visitors /\ at[parked[id]] = Spot(control, id)
         /\ \A id \in Ids : lsocks[id] # None =>
              /\ control \in Conns /\ asock[control] = "open"
              /\ lsocks[id] \in Browsers /\ at[lsocks[id]] = Spot(control, id)
<1>1. /\ control \in Conns \cup {NoConn}
      /\ requests \in [Ids -> Visitors \cup {None}] /\ parked \in [Ids -> Visitors \cup {None}]
      /\ lsocks \in [Ids -> Browsers \cup {None}]
  BY DEF AllInv, TypeInv, AgentTypeOK
<1>2. \A id \in Ids : requests[id] # None \/ parked[id] # None \/ lsocks[id] # None =>
        control \in Conns /\ asock[control] = "open"
  BY <1>1 DEF AllInv, AgentInv, EmptyOffline, Empty
<1> QED BY <1>1, <1>2 DEF AllInv, AgentInv, Entitled, OneTable

LEMMA OwnsAlone ==
  ASSUME AllInv, ~wrapped, NEW w \in Whos, NEW x \in Whos, NEW n \in Conns, NEW id,
         at[w] = Spot(n, id), at[x] = Spot(n, id)
  PROVE  w = x
BY Constants DEF AllInv, RelayInv, Apart, Spot

LEMMA SpotsDiffer == \A n, m, i, j : Spot(n, i) = Spot(m, j) => n = m /\ i = j
BY DEF Spot

\* Sequences, once more: a larger set, and a step of the agent that speaks.
LEMMA SeqGrows ==
  ASSUME NEW F, NEW G, F \subseteq G, NEW s \in Seq(F)
  PROVE  s \in Seq(G)
<1>1. s \in [1..Len(s) -> F] /\ Len(s) \in Nat
  OBVIOUS
<1>2. s \in [1..Len(s) -> G]
  BY <1>1
<1> QED BY <1>1, <1>2, SeqDef

LEMMA Speaks ==
  ASSUME TypeInv, UpPlaced, UNCHANGED at, NEW fs, AgentSend(fs),
         control \in Conns /\ asock[control] = "open" => fs \in Seq(Said(at, control))
  PROVE  UpPlaced'
<1>1. up \in [Conns -> Seq(FrameSet)] /\ control \in Conns \cup {NoConn}
  BY DEF TypeInv, UpOK, AgentTypeOK
<1>2. CASE up' = up
  BY <1>2 DEF UpPlaced
<1>3. CASE /\ control \in Conns /\ asock[control] = "open"
           /\ up' = [up EXCEPT ![control] = @ \o fs]
  <2> SUFFICES ASSUME NEW n \in Conns PROVE up'[n] \in Seq(Said(at, n))
    BY DEF UpPlaced
  <2>1. CASE n = control
    <3> DEFINE S == Said(at, control)
    <3>1. up[control] \in Seq(S) /\ fs \in Seq(S)
      BY <1>3 DEF UpPlaced
    <3>2. up'[control] = up[control] \o fs
      BY <1>1, <1>3
    <3> HIDE DEF S
    <3>3. up[control] \o fs \in Seq(S)
      BY <3>1
    <3> QED BY <2>1, <3>2, <3>3 DEF S
  <2>2. CASE n # control
    BY <1>1, <1>3, <2>2 DEF UpPlaced
  <2> QED BY <2>1, <2>2
<1> QED BY <1>1, <1>2, <1>3 DEF AgentSend, Posted

\* What is said of a visitor or a browser under its own id may be said.
LEMMA Sayable ==
  ASSUME NEW n, NEW id \in Ids, NEW w \in Whos
  PROVE  /\ \A t \in {"abort", "ws_close", "ws_reject"} :
              /\ <<Ctl(t, id, w)>> \in Seq(Said(at, n))
              /\ <<Ctl(t, id, w), Ctl(t, id, w)>> \in Seq(Said(at, n))
         /\ at[w] = Spot(n, id) =>
              /\ Refusal(id, w) \in Seq(Said(at, n))
              /\ \A t \in FrameTypes : <<Ctl(t, id, w)>> \in Seq(Said(at, n))
              /\ \A t \in FrameTypes, k \in Keys : <<Data(t, id, w, k)>> \in Seq(Said(at, n))
<1> DEFINE S == Said(at, n)
<1>1. \A t \in {"abort", "ws_close", "ws_reject"} : Ctl(t, id, w) \in S
  <2> SUFFICES ASSUME NEW t \in {"abort", "ws_close", "ws_reject"} PROVE Ctl(t, id, w) \in Said(at, n)
    OBVIOUS
  <2>1. t \in FrameTypes /\ 0 \in 0..(MaxKey + 1) /\ w \in Whos \cup {None}
    BY Constants DEF FrameTypes
  <2>2. Ctl(t, id, w) \in FrameSet /\ Ctl(t, id, w).t = t
    BY <2>1, FrameType
  <2> QED BY <2>2 DEF Said
<1>2. ASSUME at[w] = Spot(n, id)
      PROVE  /\ \A t \in FrameTypes : Ctl(t, id, w) \in S
             /\ \A t \in FrameTypes, k \in 0..(MaxKey + 1) : Data(t, id, w, k) \in S
  <2> SUFFICES ASSUME NEW t \in FrameTypes, NEW k \in 0..(MaxKey + 1)
               PROVE  Ctl(t, id, w) \in Said(at, n) /\ Data(t, id, w, k) \in Said(at, n)
    BY Constants
  <2>1. w \in Whos \cup {None}
    OBVIOUS
  <2>2. /\ Ctl(t, id, w) \in FrameSet /\ Ctl(t, id, w).id = id /\ Ctl(t, id, w).who = w
        /\ Data(t, id, w, k) \in FrameSet /\ Data(t, id, w, k).id = id /\ Data(t, id, w, k).who = w
    BY <2>1, FrameType
  <2> QED BY <1>2, <2>2 DEF Said
<1> HIDE DEF S
<1>3. ASSUME at[w] = Spot(n, id) PROVE Refusal(id, w) \in Seq(S)
  <2>1. Ctl("res_head", id, w) \in S /\ Data("res_body", id, w, Note) \in S /\ Ctl("res_end", id, w) \in S
    BY <1>2, <1>3, Constants DEF FrameTypes
  <2> QED BY <2>1 DEF Refusal
<1>4. \A t \in {"abort", "ws_close", "ws_reject"} : <<Ctl(t, id, w)>> \in Seq(S) /\ <<Ctl(t, id, w), Ctl(t, id, w)>> \in Seq(S)
  BY <1>1
<1>5. ASSUME at[w] = Spot(n, id)
      PROVE  /\ \A t \in FrameTypes : <<Ctl(t, id, w)>> \in Seq(S)
             /\ \A t \in FrameTypes, k \in Keys : <<Data(t, id, w, k)>> \in Seq(S)
  BY <1>2, <1>5, Constants
<1> QED BY <1>3, <1>4, <1>5 DEF S

LEMMA EmptySaid == ASSUME NEW n PROVE << >> \in Seq(Said(at, n))
BY EmptySeq

\* The steps of the relay's side.  Only a frame from the agent writes to a
\* response or a browser socket.
AgentDumb == UNCHANGED <<control, asock, requests, buffered, lsocks, job, link, fed, told>>

UpShrinks == \A m \in Conns : \/ up'[m] = up[m] \/ up'[m] = << >>
                              \/ up[m] # << >> /\ up'[m] = Tail(up[m])

OwnWords ==
  ~wrapped =>
    /\ \A v \in Visitors : got'[v] = got[v] \/ \E p : p.who = v /\ got'[v] = Append(got[v], p)
    /\ \A b \in Browsers : heard'[b] = heard[b] \/ heard'[b] = heard[b] \cup {}

LEMMA OwnWordsKeep ==
  ASSUME TypeInv, NoCrossTalk, ~wrapped, OwnWords, UNCHANGED <<fed, told>>
  PROVE  NoCrossTalk'
<1>1. ASSUME NEW v \in Visitors PROVE \A i \in 1..Len(got'[v]) : got'[v][i].who = v
  <2>1. got[v] \in Seq(PartSet) /\ \A i \in 1..Len(got[v]) : got[v][i].who = v
    BY DEF TypeInv, RelayTypeOK, PartSet, NoCrossTalk
  <2>2. CASE got'[v] = got[v]
    BY <2>1, <2>2
  <2>3. ASSUME NEW p, p.who = v, got'[v] = Append(got[v], p) PROVE \A i \in 1..Len(got'[v]) : got'[v][i].who = v
    <3>1. Len(got'[v]) = Len(got[v]) + 1 /\ Len(got[v]) \in Nat
      BY <2>1, <2>3
    <3>2. \A i \in 1..Len(got[v]) : got'[v][i] = got[v][i]
      BY <2>1, <2>3
    <3>3. got'[v][Len(got[v]) + 1] = p
      BY <2>1, <2>3
    <3>4. \A i \in 1..Len(got'[v]) : i \in 1..Len(got[v]) \/ i = Len(got[v]) + 1
      BY <3>1
    <3> QED BY <2>1, <2>3, <3>2, <3>3, <3>4
  <2> QED BY <2>2, <2>3 DEF OwnWords
<1>2. \A b \in Browsers : heard'[b] = {}
  BY DEF OwnWords, NoCrossTalk
<1> QED BY <1>1, <1>2 DEF NoCrossTalk

LEMMA LinksStay ==
  ASSUME LinksHeld, UNCHANGED <<control, asock, lsocks, link>>, \A w \in Whos : at[w].conn # NoConn => at'[w] = at[w]
  PROVE  LinksHeld'
<1> SUFFICES ASSUME NEW b \in Browsers, link[b].st = "closing", control # NoConn, asock[control] = "open"
             PROVE  at'[b] = Spot(control, link[b].id)
  BY DEF LinksHeld, Spot
<1>1. at[b] = Spot(control, link[b].id)
  BY DEF LinksHeld
<1>2. at[b].conn # NoConn
  BY <1>1 DEF Spot
<1> QED BY <1>1, <1>2, WhosAre

LEMMA RelayTalks ==
  ASSUME AllInv, TalkInv, wrapped => wrapped', AgentDumb, UpShrinks, OwnWords,
         \A w \in Whos : at[w].conn # NoConn => at'[w] = at[w]
  PROVE  TalkInv'
<1>0. UNCHANGED <<control, asock, requests, buffered, lsocks, job, link, fed, told>>
  BY DEF AgentDumb
<1>1. Unsealed'
  BY <1>0 DEF TalkInv, Unsealed
<1>2. SUFFICES ASSUME ~wrapped PROVE UpPlaced' /\ JobsHeld' /\ LinksHeld' /\ NoCrossTalk'
  BY <1>1 DEF TalkInv
<1>3. UpPlaced /\ JobsHeld /\ LinksHeld /\ NoCrossTalk
  BY <1>2 DEF TalkInv
<1>4. ASSUME NEW n \in Conns PROVE up'[n] \in Seq(Said(at', n))
  <2> DEFINE S == Said(at, n)
             T == Said(at', n)
  <2>1. S \subseteq T
    BY Constants DEF Said, Spot
  <2>2. up[n] \in Seq(S)
    BY <1>3 DEF UpPlaced
  <2> HIDE DEF S, T
  <2>3. up[n] # << >> => Tail(up[n]) \in Seq(S)
    BY <2>2
  <2>4. up'[n] \in Seq(S)
    BY <2>2, <2>3, EmptySeq DEF UpShrinks
  <2>5. up'[n] \in Seq(T)
    BY <2>1, <2>4, SeqGrows
  <2> QED BY <2>5 DEF T
<1>5. UpPlaced'
  BY <1>4 DEF UpPlaced
<1>6. JobsHeld'
  BY <1>0, <1>3 DEF JobsHeld
<1>7. LinksHeld'
  BY <1>0, <1>3, LinksStay
<1>8. NoCrossTalk'
  BY <1>0, <1>2, <1>3, OwnWordsKeep DEF AllInv
<1> QED BY <1>5, <1>6, <1>7, <1>8

\* An id is given only to who has none yet.
LEMMA OpenedTalks ==
  ASSUME AllInv, TalkInv, AgentDumb, UNCHANGED up, NEW w \in Whos,
         \/ w \in Visitors /\ Request(w)
         \/ w \in Browsers /\ Upgrade(w)
  PROVE  TalkInv'
<1>1. at[w].conn = NoConn /\ at \in [Whos -> [conn : Conns \cup {NoConn}, id : Ids]]
  BY DEF AllInv, AgentInv, Unplaced, Request, Upgrade, TypeInv, RelayTypeOK
<1>2. \A x \in Whos : at[x].conn # NoConn => at'[x] = at[x]
  BY <1>1 DEF Request, Upgrade
<1>3. wrapped => wrapped'
  BY Zenon DEF Request, Upgrade
<1>4. UNCHANGED <<got, heard>>
  BY DEF Request, Upgrade
<1>5. OwnWords /\ UpShrinks
  BY <1>4 DEF OwnWords, UpShrinks
<1> QED BY <1>2, <1>3, <1>5, RelayTalks

LEMMA SilentTalks ==
  ASSUME AllInv, TalkInv, AgentDumb, UpShrinks, UNCHANGED <<at, wrapped, got, heard>>
  PROVE  TalkInv'
<1>1. OwnWords /\ (wrapped => wrapped')
  BY DEF OwnWords
<1> QED BY <1>1, RelayTalks

LEMMA RelaySideTalks ==
  ASSUME AllInv, TalkInv, UNCHANGED agentVars,
         Public \/ RelaySteps \/ \E n \in Conns : Loss(n)
  PROVE  TalkInv'
<1>0. AgentDumb
  BY DEF AgentDumb, agentVars
<1>1. ASSUME UNCHANGED <<up, at, wrapped, got, heard>> PROVE TalkInv'
  BY <1>0, <1>1, SilentTalks DEF UpShrinks
<1>2. ASSUME NEW v \in Visitors, RequestEnd(v) \/ RequestError(v) \/ ClientClose(v) PROVE TalkInv'
  BY <1>1, <1>2 DEF RequestEnd, RequestError, ClientClose
<1>3. ASSUME NEW b \in Browsers, Upgrade(b) PROVE TalkInv'
  BY <1>0, <1>3, WhosAre, OpenedTalks DEF Upgrade
<1>4. ASSUME NEW b \in Browsers, BrowserMessage(b) \/ BrowserClose(b) PROVE TalkInv'
  BY <1>1, <1>4 DEF BrowserMessage, BrowserClose, relayVars
<1>5. ASSUME NEW n \in Conns, Admit(n) \/ Terminate(n) PROVE TalkInv'
  BY <1>1, <1>5 DEF Admit, Terminate
<1>6. ASSUME NEW n \in Conns, Loss(n) PROVE TalkInv'
  BY <1>1, <1>6 DEF Loss, Lose, relayVars
<1>7. ASSUME NEW n \in Conns, NEW id \in Ids, IdleTimeout(n, id) PROVE TalkInv'
  BY <1>1, <1>7 DEF IdleTimeout
<1>8. ASSUME NEW n \in Conns, CloseEvent(n) PROVE TalkInv'
  <2>1. up' = [up EXCEPT ![n] = << >>] /\ UNCHANGED <<at, wrapped, got, heard>>
    BY <1>8 DEF CloseEvent
  <2>2. UpShrinks
    BY <2>1 DEF UpShrinks, AllInv, TypeInv, UpOK
  <2> QED BY <1>0, <2>1, <2>2, SilentTalks
<1> QED BY <1>2, <1>3, <1>4, <1>5, <1>6, <1>7, <1>8 DEF Public, RelaySteps

LEMMA FrameTalks ==
  ASSUME AllInv, ~wrapped, UpPlaced, NEW n \in Conns, NEW f \in Said(at, n), OnAgentFrame(n, f)
  PROVE  OwnWords
<1> DEFINE r == responses[n][f.id]
           b == sockets[n][f.id]
<1>1. f \in FrameSet /\ f.id \in Ids
  BY DEF Said, FrameSet
<1>2. /\ r \in Visitors \cup {None} /\ b \in Browsers \cup {None}
      /\ got \in [Visitors -> Seq(PartSet)] /\ heard \in [Browsers -> SUBSET (Whos \cup {None})]
  <2>1. RelayTypeOK
    BY DEF AllInv, TypeInv
  <2>2. r \in Visitors \cup {None} /\ b \in Browsers \cup {None}
    BY <1>1, <2>1 DEF RelayTypeOK
  <2>3. got \in [Visitors -> Seq(PartSet)] /\ heard \in [Browsers -> SUBSET (Whos \cup {None})]
    BY <2>1, Zenon DEF RelayTypeOK, PartSet
  <2> QED BY <2>2, <2>3
<1>3. r # None => at[r] = Spot(n, f.id)
  BY <1>1 DEF AllInv, RelayInv, Entered
<1>4. b # None => at[b] = Spot(n, f.id)
  BY <1>1 DEF AllInv, RelayInv, Entered
<1>5. ASSUME f.t \in {"res_head", "res_body", "res_end"}, r # None PROVE f.who = r
  <2>1. r \in Whos /\ f.who \in Whos /\ at[f.who] = Spot(n, f.id)
    BY <1>2, <1>5, WhosAre DEF Said
  <2> QED BY <1>3, <1>5, <2>1, OwnsAlone
<1>6. ASSUME f.t = "ws_msg", b # None PROVE f.who = b
  <2>1. b \in Whos /\ f.who \in Whos /\ at[f.who] = Spot(n, f.id)
    BY <1>2, <1>6, WhosAre DEF Said
  <2> QED BY <1>4, <1>6, <2>1, OwnsAlone
<1>7. got' = got \/ (f.t \in {"res_head", "res_body", "res_end"} /\ got' = Wrote(r, f))
  BY DEF OnAgentFrame, ResHead, ResBody, ResEnd, WsMessage, WsGone, AgentAbort
<1>8. heard' = heard \/ (f.t = "ws_msg" /\ b # None /\ heard' = [heard EXCEPT ![b] = @ \cup ({f.who} \ {b})])
  BY DEF OnAgentFrame, ResHead, ResBody, ResEnd, WsMessage, WsGone, AgentAbort
<1> HIDE DEF r, b
<1>9. ASSUME NEW v \in Visitors PROVE got'[v] = got[v] \/ \E p : p.who = v /\ got'[v] = Append(got[v], p)
  <2>1. CASE got' = got \/ r = None \/ v # r
    BY <1>2, <1>7, <2>1 DEF Wrote
  <2>2. CASE got' # got /\ r # None /\ v = r
    <3> DEFINE p == [part |-> f.t, who |-> f.who, key |-> f.key]
    <3>1. p.who = v
      BY <1>5, <1>7, <2>2
    <3>2. got'[v] = Append(got[v], p)
      BY <1>2, <1>7, <2>2 DEF Wrote
    <3> QED BY <3>1, <3>2
  <2> QED BY <2>1, <2>2
<1>10. ASSUME NEW c \in Browsers PROVE heard'[c] = heard[c] \/ heard'[c] = heard[c] \cup {}
  BY <1>2, <1>6, <1>8
<1> QED BY <1>9, <1>10 DEF OwnWords

LEMMA ReadTalks ==
  ASSUME AllInv, TalkInv, NEW n \in Conns, RelayReceive(n)
  PROVE  TalkInv'
<1> DEFINE f == Head(up[n])
<1>1. /\ up[n] # << >> /\ up' = [up EXCEPT ![n] = Tail(@)] /\ UNCHANGED agentVars
      /\ PeerClose(n) \/ OnAgentFrame(n, f) \/ UNCHANGED <<relayVars, down>>
  BY DEF RelayReceive
<1>2. AgentDumb
  BY <1>1 DEF AgentDumb, agentVars
<1>3. UpShrinks
  BY <1>1 DEF UpShrinks, AllInv, TypeInv, UpOK
<1>4. UNCHANGED <<at, wrapped>>
  BY <1>1 DEF PeerClose, OnAgentFrame, relayVars
<1>5. ASSUME UNCHANGED <<got, heard>> PROVE TalkInv'
  BY <1>2, <1>3, <1>4, <1>5, SilentTalks
<1>6. ASSUME OnAgentFrame(n, f) PROVE TalkInv'
  <2>1. ASSUME ~wrapped PROVE f \in Said(at, n) /\ UpPlaced
    <3>1. up[n] \in Seq(Said(at, n)) /\ UpPlaced
      BY <2>1 DEF TalkInv, UpPlaced
    <3> HIDE DEF Said
    <3> QED BY <1>1, <3>1
  <2>2. OwnWords
    <3>1. CASE wrapped
      BY <3>1 DEF OwnWords
    <3>2. CASE ~wrapped
      BY <1>6, <2>1, <3>2, FrameTalks
    <3> QED BY <3>1, <3>2
  <2> QED BY <1>2, <1>3, <1>4, <2>2, RelayTalks
<1> QED BY <1>1, <1>5, <1>6 DEF PeerClose, relayVars

\* The agent's local requests, one lemma per way they move.
LEMMA TalkTypes ==
  ASSUME AllInv
  PROVE  /\ requests \in [Ids -> Visitors \cup {None}] /\ parked \in [Ids -> Visitors \cup {None}]
         /\ buffered \in [Ids -> Visitors \cup {None}] /\ lsocks \in [Ids -> Browsers \cup {None}]
         /\ job \in [Visitors -> JobSet] /\ link \in [Browsers -> LinkSet]
         /\ fed \in [Visitors -> SUBSET Visitors] /\ told \in [Browsers -> SUBSET Browsers]
         /\ control \in Conns \cup {NoConn} /\ NoConn \notin Conns /\ asock \in [Conns -> AgentStates]
BY Constants, Zenon DEF AllInv, TypeInv, AgentTypeOK, JobSet, LinkSet

LEMMA JobMoves ==
  ASSUME AllInv, JobsHeld, NEW v \in Visitors, job[v].st \in AtDsh, NEW s, job' = [job EXCEPT ![v].st = s],
         IF s \in AtDsh THEN UNCHANGED requests ELSE requests' = [requests EXCEPT ![job[v].id] = None]
  PROVE  JobsHeld'
<1>1. /\ requests \in [Ids -> Visitors \cup {None}] /\ job \in [Visitors -> JobSet] /\ None \notin Visitors
      /\ job[v].id \in Ids
  BY TalkTypes, WhosAre DEF JobSet
<1>2. /\ job'[v].st = s /\ job'[v].id = job[v].id
      /\ \A x \in Visitors : x # v => job'[x] = job[x]
  BY <1>1 DEF JobSet
<1>3. requests[job[v].id] = v
  BY DEF JobsHeld
<1>4. \A id \in Ids : requests[id] = v => id = job[v].id
  BY DEF JobsHeld
<1>5. CASE s \in AtDsh
  <2> SUFFICES ASSUME NEW x \in Visitors
               PROVE  /\ job'[x].st \in AtDsh => requests[job'[x].id] = x
                      /\ \A id \in Ids : requests[id] = x => job'[x].st \in AtDsh /\ job'[x].id = id
    BY <1>5 DEF JobsHeld
  <2> QED BY <1>2, <1>3, <1>4, <1>5 DEF JobsHeld
<1>6. CASE s \notin AtDsh
  <2>1. requests'[job[v].id] = None /\ \A id \in Ids : id # job[v].id => requests'[id] = requests[id]
    BY <1>1, <1>6
  <2> SUFFICES ASSUME NEW x \in Visitors
               PROVE  /\ job'[x].st \in AtDsh => requests'[job'[x].id] = x
                      /\ \A id \in Ids : requests'[id] = x => job'[x].st \in AtDsh /\ job'[x].id = id
    BY DEF JobsHeld
  <2>2. CASE x = v
    BY <1>1, <1>2, <1>4, <1>6, <2>1, <2>2
  <2>3. CASE x # v
    <3>1. job'[x] = job[x] /\ job[x].id \in Ids
      BY <1>1, <1>2, <2>3 DEF JobSet
    <3>2. ASSUME job[x].st \in AtDsh PROVE requests'[job[x].id] = x
      <4>1. requests[job[x].id] = x
        BY <3>2 DEF JobsHeld
      <4> QED BY <1>3, <2>1, <2>3, <3>1, <4>1
    <3>3. ASSUME NEW id \in Ids, requests'[id] = x PROVE job[x].st \in AtDsh /\ job[x].id = id
      <4>1. requests[id] = x
        BY <1>1, <2>1, <3>3
      <4> QED BY <4>1 DEF JobsHeld
    <3> QED BY <3>1, <3>2, <3>3
  <2> QED BY <2>2, <2>3
<1> QED BY <1>5, <1>6

\* A compressor's moves are no matter of the table.
LEMMA TailMoves ==
  ASSUME AllInv, JobsHeld, NEW v \in Visitors, job[v].st \notin AtDsh, NEW s, s \notin AtDsh,
         job' = [job EXCEPT ![v].st = s], UNCHANGED requests
  PROVE  JobsHeld'
<1>1. /\ job'[v].st = s
      /\ \A x \in Visitors : x # v => job'[x] = job[x]
  BY TalkTypes DEF JobSet
<1>2. \A id \in Ids : requests[id] # v
  BY DEF JobsHeld
<1> QED BY <1>1, <1>2 DEF JobsHeld

LEMMA JobStarts ==
  ASSUME AllInv, JobsHeld, ~wrapped, NEW v \in Visitors, NEW id \in Ids, requests[id] = None,
         at[v] = Spot(control, id), job' = [job EXCEPT ![v] = StartJob(v, id, FALSE)],
         requests' = [requests EXCEPT ![id] = v]
  PROVE  JobsHeld'
<1>1. /\ requests \in [Ids -> Visitors \cup {None}] /\ job \in [Visitors -> JobSet] /\ None \notin Visitors
  BY TalkTypes, WhosAre
<1>2. \A i \in Ids : requests[i] # v
  BY <1>1, Owners, SpotsDiffer
<1>3. /\ job'[v].st = "sent" /\ job'[v].id = id
      /\ \A x \in Visitors : x # v => job'[x] = job[x]
  BY <1>1 DEF JobSet, StartJob
<1>4. requests'[id] = v /\ \A i \in Ids : i # id => requests'[i] = requests[i]
  BY <1>1
<1> SUFFICES ASSUME NEW x \in Visitors
             PROVE  /\ job'[x].st \in AtDsh => requests'[job'[x].id] = x
                    /\ \A i \in Ids : requests'[i] = x => job'[x].st \in AtDsh /\ job'[x].id = i
  BY DEF JobsHeld
<1>5. CASE x = v
  BY <1>2, <1>3, <1>4, <1>5 DEF AtDsh
<1>6. CASE x # v
  <2>1. job'[x] = job[x] /\ job[x].id \in Ids
    BY <1>1, <1>3, <1>6 DEF JobSet
  <2>2. ASSUME job[x].st \in AtDsh PROVE requests'[job[x].id] = x
    <3>1. requests[job[x].id] = x
      BY <2>2 DEF JobsHeld
    <3> QED BY <1>1, <1>4, <2>1, <3>1
  <2>3. ASSUME NEW i \in Ids, requests'[i] = x PROVE job[x].st \in AtDsh /\ job[x].id = i
    <3>1. requests[i] = x
      BY <1>4, <1>6, <2>3
    <3> QED BY <3>1 DEF JobsHeld
  <2> QED BY <2>1, <2>2, <2>3
<1> QED BY <1>5, <1>6

LEMMA DropsJobs ==
  ASSUME AllInv, JobsHeld, DropStreams
  PROVE  \A v \in Visitors : job'[v].st \notin AtDsh
<1>1. job' = [v \in Visitors |-> IF v \in InTable(requests) THEN CutShort(job[v]) ELSE job[v]]
  BY DEF DropStreams, DestroyStreams
<1>2. job \in [Visitors -> JobSet] /\ None \notin Visitors
  BY TalkTypes, WhosAre
<1> SUFFICES ASSUME NEW v \in Visitors PROVE job'[v].st \notin AtDsh
  OBVIOUS
<1>3. CASE v \in InTable(requests)
  BY <1>1, <1>2, <1>3 DEF AtDsh, JobSet, CutShort
<1>4. CASE v \notin InTable(requests)
  <2>1. job[v].id \in Ids /\ job'[v] = job[v]
    BY <1>1, <1>2, <1>4 DEF JobSet
  <2>2. requests[job[v].id] # v
    BY <1>2, <1>4, <2>1 DEF InTable
  <2> QED BY <2>1, <2>2 DEF JobsHeld
<1> QED BY <1>3, <1>4

LEMMA JobsDropped ==
  ASSUME AllInv, JobsHeld, DropStreams
  PROVE  JobsHeld'
<1>1. \A id \in Ids : requests'[id] = None
  BY DEF DropStreams, NoneOpen
<1> QED BY <1>1, DropsJobs, WhosAre DEF JobsHeld

\* The released requests are all replayed, each from the entry it was parked in.
LEMMA JobsSettled ==
  ASSUME NothingSealed, AllInv, JobsHeld, Unsealed, ~wrapped, CookieSettled
  PROVE  JobsHeld'
<1> DEFINE waiting == {id \in Ids : parked[id] # None}
           plain   == {id \in waiting : Fate(parked[id]) = "replayed"}
           sealed  == {id \in waiting : Fate(parked[id]) = "buffered"}
           opened  == {id \in sealed \cap ended : Opens(parked[id])}
<1>1. /\ requests' = [id \in Ids |-> IF id \in plain THEN parked[id] ELSE requests[id]]
      /\ job' = [v \in Visitors |->
                  IF \E id \in plain \cup opened : parked[id] = v
                  THEN LET id == CHOOSE i \in plain \cup opened : parked[i] = v
                       IN StartJob(v, id, id \in opened)
                  ELSE job[v]]
  BY DEF CookieSettled
<1>2. \A id \in waiting : parked[id] \in Visitors
  BY TalkTypes
<1>3. plain = waiting /\ opened = {}
  BY <1>2, NothingIsSealed DEF AllInv
<1> HIDE DEF plain, sealed, opened
<1>4. /\ requests' = [id \in Ids |-> IF id \in waiting THEN parked[id] ELSE requests[id]]
      /\ job' = [v \in Visitors |->
                  IF \E id \in waiting : parked[id] = v
                  THEN StartJob(v, CHOOSE i \in waiting : parked[i] = v, FALSE)
                  ELSE job[v]]
  <2>1. plain \cup opened = waiting
    BY <1>3
  <2>2. \A v, id : StartJob(v, id, id \in opened) = StartJob(v, id, FALSE)
    <3>1. \A id : (id \in opened) = FALSE
      BY <1>3
    <3> QED BY <3>1, Zenon
  <2>3. job' = [v \in Visitors |->
                  IF \E id \in waiting : parked[id] = v
                  THEN LET id == CHOOSE i \in waiting : parked[i] = v
                       IN StartJob(v, id, id \in opened)
                  ELSE job[v]]
    BY <1>1, <2>1, Zenon
  <2>4. requests' = [id \in Ids |-> IF id \in waiting THEN parked[id] ELSE requests[id]]
    BY <1>1, <1>3, Zenon
  <2> QED BY <2>2, <2>3, <2>4, Zenon
<1>5. /\ requests \in [Ids -> Visitors \cup {None}] /\ job \in [Visitors -> JobSet] /\ None \notin Visitors
  BY TalkTypes, WhosAre
<1>6. \A id \in waiting : /\ requests[id] = None /\ control \in Conns
                          /\ parked[id] \in Visitors /\ at[parked[id]] = Spot(control, id)
  BY Owners
<1>7. ASSUME NEW id \in waiting, NEW i \in waiting, parked[id] = parked[i] PROVE id = i
  BY <1>6, <1>7, SpotsDiffer
<1>8. ASSUME NEW id \in waiting, NEW i \in Ids PROVE requests[i] # parked[id]
  <2>1. SUFFICES ASSUME requests[i] = parked[id] PROVE FALSE
    OBVIOUS
  <2>2. at[requests[i]] = Spot(control, i)
    BY <1>5, <1>6, <2>1, Owners
  <2> QED BY <1>6, <2>1, <2>2, SpotsDiffer
<1> SUFFICES ASSUME NEW x \in Visitors
             PROVE  /\ job'[x].st \in AtDsh => requests'[job'[x].id] = x
                    /\ \A i \in Ids : requests'[i] = x => job'[x].st \in AtDsh /\ job'[x].id = i
  BY DEF JobsHeld
<1>9. ASSUME NEW id \in waiting, parked[id] = x
      PROVE  /\ job'[x].st \in AtDsh => requests'[job'[x].id] = x
             /\ \A i \in Ids : requests'[i] = x => job'[x].st \in AtDsh /\ job'[x].id = i
  <2>1. (CHOOSE i \in waiting : parked[i] = x) = id
    <3> HIDE DEF waiting
    <3> QED BY <1>7, <1>9
  <2>2. job'[x] = StartJob(x, id, FALSE)
    BY <1>4, <1>9, <2>1
  <2>3. job'[x].st = "sent" /\ job'[x].id = id
    BY <2>2 DEF StartJob
  <2>4. requests'[id] = x
    BY <1>4, <1>9
  <2>5. ASSUME NEW i \in Ids, requests'[i] = x PROVE i = id
    BY <1>4, <1>7, <1>8, <1>9, <2>5
  <2> QED BY <2>3, <2>4, <2>5 DEF AtDsh
<1>10. ASSUME \A id \in waiting : parked[id] # x
      PROVE  /\ job'[x].st \in AtDsh => requests'[job'[x].id] = x
             /\ \A i \in Ids : requests'[i] = x => job'[x].st \in AtDsh /\ job'[x].id = i
  <2>1. job'[x] = job[x] /\ job[x].id \in Ids
    BY <1>4, <1>5, <1>10 DEF JobSet
  <2>2. ASSUME job[x].st \in AtDsh PROVE requests'[job[x].id] = x
    <3>1. requests[job[x].id] = x
      BY <2>2 DEF JobsHeld
    <3> QED BY <1>4, <1>5, <1>6, <2>1, <3>1
  <2>3. ASSUME NEW i \in Ids, requests'[i] = x PROVE requests[i] = x
    BY <1>4, <1>10, <2>3
  <2> QED BY <2>1, <2>2, <2>3 DEF JobsHeld
<1> QED BY <1>9, <1>10

\* The agent's local sockets, likewise.
LEMMA LinkOwns ==
  ASSUME AllInv, LinksHeld, ~wrapped, NEW b \in Browsers, link[b].st \in {"connecting", "open", "closing"}
  PROVE  /\ link[b].id \in Ids /\ lsocks[link[b].id] \in {None, b}
         /\ control # NoConn /\ asock[control] = "open" => at[b] = Spot(control, link[b].id)
<1>1. /\ link[b].id \in Ids /\ b \in Whos /\ lsocks \in [Ids -> Browsers \cup {None}] /\ b # None
      /\ control \in Conns \cup {NoConn}
  BY TalkTypes, WhosAre DEF LinkSet
<1>2. CASE link[b].st \in {"connecting", "open"}
  <2>1. lsocks[link[b].id] = b
    BY <1>2 DEF LinksHeld
  <2> QED BY <1>1, <2>1, Owners
<1>3. CASE link[b].st = "closing"
  <2>1. control # NoConn /\ asock[control] = "open" => at[b] = Spot(control, link[b].id)
    BY <1>3 DEF LinksHeld
  <2>2. ASSUME lsocks[link[b].id] # None PROVE lsocks[link[b].id] = b
    <3> DEFINE x == lsocks[link[b].id]
    <3>1. x \in Whos /\ at[x] = Spot(control, link[b].id) /\ control \in Conns /\ asock[control] = "open"
      BY <1>1, <2>2, Owners, WhosAre
    <3>2. at[b] = Spot(control, link[b].id)
      BY <2>1, <3>1, Constants
    <3> QED BY <1>1, <3>1, <3>2, OwnsAlone
  <2> QED BY <1>1, <2>1, <2>2
<1> QED BY <1>2, <1>3

LEMMA LinkMoves ==
  ASSUME AllInv, LinksHeld, ~wrapped, UNCHANGED <<at, control, asock>>,
         NEW b \in Browsers, link[b].st \in {"connecting", "open", "closing"},
         NEW s, link' = [link EXCEPT ![b].st = s],
         \/ s = "open" /\ link[b].st = "connecting" /\ UNCHANGED lsocks
         \/ s = "over" /\ lsocks' = [lsocks EXCEPT ![link[b].id] = None]
         \/ s = "closing" /\ (UNCHANGED lsocks \/ lsocks' = [lsocks EXCEPT ![link[b].id] = None])
  PROVE  LinksHeld'
<1>1. /\ lsocks \in [Ids -> Browsers \cup {None}] /\ link \in [Browsers -> LinkSet] /\ None \notin Browsers
  BY TalkTypes, WhosAre
<1>2. /\ link[b].id \in Ids /\ lsocks[link[b].id] \in {None, b}
      /\ control # NoConn /\ asock[control] = "open" => at[b] = Spot(control, link[b].id)
  BY LinkOwns
<1>3. /\ link'[b].st = s /\ link'[b].id = link[b].id
      /\ \A c \in Browsers : c # b => link'[c] = link[c]
  BY <1>1 DEF LinkSet
<1>4. \A id \in Ids : id # link[b].id => lsocks'[id] = lsocks[id]
  BY <1>1
<1>5. lsocks'[link[b].id] \in {None, b}
  BY <1>1, <1>2
<1> SUFFICES ASSUME NEW c \in Browsers
             PROVE  /\ link'[c].st \in {"connecting", "open"} => lsocks'[link'[c].id] = c
                    /\ link'[c].st = "closing" /\ control # NoConn /\ asock[control] = "open" =>
                         at[c] = Spot(control, link'[c].id)
                    /\ \A id \in Ids : lsocks'[id] = c =>
                         link'[c].st \in {"connecting", "open", "closing"} /\ link'[c].id = id
  BY DEF LinksHeld, Spot
<1>6. CASE c = b
  <2>1. ASSUME s = "open" PROVE lsocks'[link[b].id] = b
    BY <2>1 DEF LinksHeld
  <2>2. ASSUME NEW id \in Ids, lsocks'[id] = b PROVE id = link[b].id /\ s \in {"open", "closing"}
    <3>1. s = "over" => lsocks'[link[b].id] = None
      BY <1>1, <1>2
    <3>2. CASE id = link[b].id
      BY <1>1, <2>2, <3>1, <3>2
    <3>3. CASE id # link[b].id
      <4>1. lsocks[id] = b
        BY <1>4, <2>2, <3>3
      <4> QED BY <3>3, <4>1 DEF LinksHeld
    <3> QED BY <3>2, <3>3
  <2> QED BY <1>2, <1>3, <1>6, <2>1, <2>2
<1>7. CASE c # b
  <2>1. link'[c] = link[c] /\ link[c].id \in Ids
    BY <1>1, <1>3, <1>7 DEF LinkSet
  <2>2. ASSUME link[c].st \in {"connecting", "open"} PROVE lsocks'[link[c].id] = c
    <3>1. lsocks[link[c].id] = c
      BY <2>2 DEF LinksHeld
    <3>2. link[c].id # link[b].id
      BY <1>1, <1>2, <1>7, <3>1
    <3> QED BY <1>4, <2>1, <3>1, <3>2
  <2>3. ASSUME NEW id \in Ids, lsocks'[id] = c
        PROVE  link[c].st \in {"connecting", "open", "closing"} /\ link[c].id = id
    <3>1. lsocks[id] = c
      BY <1>1, <1>4, <1>5, <1>7, <2>3
    <3> QED BY <3>1 DEF LinksHeld
  <2>4. link[c].st = "closing" /\ control # NoConn /\ asock[control] = "open" => at[c] = Spot(control, link[c].id)
    BY DEF LinksHeld
  <2> QED BY <2>1, <2>2, <2>3, <2>4
<1> QED BY <1>6, <1>7

LEMMA LinkStarts ==
  ASSUME AllInv, LinksHeld, ~wrapped, UNCHANGED <<at, control, asock>>, control \in Conns,
         NEW b \in Browsers, NEW id \in Ids, at[b] = Spot(control, id), NEW e \in BOOLEAN,
         lsocks' = [lsocks EXCEPT ![id] = b],
         link' = [link EXCEPT ![b] = [st |-> "connecting", id |-> id, sealed |-> e]]
  PROVE  LinksHeld'
<1>1. /\ lsocks \in [Ids -> Browsers \cup {None}] /\ link \in [Browsers -> LinkSet] /\ None \notin Browsers
      /\ b \in Whos
  BY TalkTypes, WhosAre
<1>2. lsocks[id] \in {None, b}
  <2>1. SUFFICES ASSUME lsocks[id] # None PROVE lsocks[id] = b
    OBVIOUS
  <2>2. lsocks[id] \in Whos /\ at[lsocks[id]] = Spot(control, id)
    BY <2>1, Owners, WhosAre
  <2> QED BY <1>1, <2>2, OwnsAlone
<1>3. \A i \in Ids : lsocks[i] = b => i = id
  BY <1>1, Owners, SpotsDiffer
<1>4. /\ link'[b].st = "connecting" /\ link'[b].id = id
      /\ \A c \in Browsers : c # b => link'[c] = link[c]
  BY <1>1
<1>5. lsocks'[id] = b /\ \A i \in Ids : i # id => lsocks'[i] = lsocks[i]
  BY <1>1
<1> SUFFICES ASSUME NEW c \in Browsers
             PROVE  /\ link'[c].st \in {"connecting", "open"} => lsocks'[link'[c].id] = c
                    /\ link'[c].st = "closing" /\ control # NoConn /\ asock[control] = "open" =>
                         at[c] = Spot(control, link'[c].id)
                    /\ \A i \in Ids : lsocks'[i] = c =>
                         link'[c].st \in {"connecting", "open", "closing"} /\ link'[c].id = i
  BY DEF LinksHeld, Spot
<1>6. CASE c = b
  <2>1. \A i \in Ids : lsocks'[i] = b => i = id
    BY <1>3, <1>5
  <2> QED BY <1>4, <1>5, <1>6, <2>1
<1>7. CASE c # b
  <2>1. link'[c] = link[c] /\ link[c].id \in Ids
    BY <1>1, <1>4, <1>7 DEF LinkSet
  <2>2. ASSUME link[c].st \in {"connecting", "open"} PROVE lsocks'[link[c].id] = c
    <3>1. lsocks[link[c].id] = c
      BY <2>2 DEF LinksHeld
    <3> QED BY <1>1, <1>2, <1>5, <1>7, <2>1, <3>1
  <2>3. ASSUME NEW i \in Ids, lsocks'[i] = c
        PROVE  link[c].st \in {"connecting", "open", "closing"} /\ link[c].id = i
    <3>1. lsocks[i] = c
      BY <1>5, <1>7, <2>3
    <3> QED BY <3>1 DEF LinksHeld
  <2>4. link[c].st = "closing" /\ control # NoConn /\ asock[control] = "open" => at[c] = Spot(control, link[c].id)
    BY DEF LinksHeld
  <2> QED BY <2>1, <2>2, <2>3, <2>4
<1> QED BY <1>6, <1>7

LEMMA LinkClosed ==
  ASSUME AllInv, LinksHeld, ~wrapped, UNCHANGED <<at, control, asock>>, NEW id \in Ids, CloseLocal(id)
  PROVE  LinksHeld'
<1>1. lsocks \in [Ids -> Browsers \cup {None}]
  BY TalkTypes
<1>2. CASE lsocks[id] = None
  BY <1>2 DEF CloseLocal, LinksHeld, Spot
<1>3. CASE lsocks[id] # None
  <2> DEFINE b == lsocks[id]
  <2>1. b \in Browsers /\ link[b].st \in {"connecting", "open", "closing"} /\ link[b].id = id
    BY <1>1, <1>3 DEF LinksHeld
  <2>2. CASE link[b].st = "connecting"
    <3>1. link' = [link EXCEPT ![b].st = "over"] /\ lsocks' = [lsocks EXCEPT ![link[b].id] = None]
      BY <1>3, <2>1, <2>2 DEF CloseLocal
    <3> HIDE DEF b
    <3> QED BY <2>1, <3>1, LinkMoves
  <2>3. CASE link[b].st # "connecting"
    <3>1. link' = [link EXCEPT ![b].st = "closing"] /\ UNCHANGED lsocks
      BY <1>3, <2>1, <2>3 DEF CloseLocal
    <3> HIDE DEF b
    <3> QED BY <2>1, <3>1, LinkMoves
  <2> QED BY <2>2, <2>3
<1> QED BY <1>2, <1>3

\* The sockets of the table start closing.
LEMMA LinksDropped ==
  ASSUME AllInv, LinksHeld, ~wrapped, UNCHANGED at, DropStreams,
         control' = NoConn \/ UNCHANGED <<control, asock>>
  PROVE  LinksHeld'
<1>1. /\ \A id \in Ids : lsocks'[id] = None
      /\ link' = [b \in Browsers |->
                IF b \notin InTable(lsocks) THEN link[b]
                ELSE [link[b] EXCEPT !.st = IF @ = "connecting" THEN "over" ELSE "closing"]]
  BY DEF DropStreams, DestroyStreams, NoneOpen
<1>2. link \in [Browsers -> LinkSet] /\ None \notin Browsers
  BY TalkTypes, WhosAre
<1> SUFFICES ASSUME NEW b \in Browsers
             PROVE  /\ link'[b].st \notin {"connecting", "open"}
                    /\ link'[b].st = "closing" /\ control' # NoConn /\ asock'[control'] = "open" =>
                         at[b] = Spot(control', link'[b].id)
  BY <1>1, <1>2 DEF LinksHeld, Spot
<1>3. CASE b \in InTable(lsocks)
  <2>1. PICK id \in Ids : lsocks[id] = b
    BY <1>3 DEF InTable
  <2>2. link[b].st \in {"connecting", "open", "closing"}
    BY <2>1 DEF LinksHeld
  <2>3. link'[b].st \in {"over", "closing"} /\ link'[b].id = link[b].id
    BY <1>1, <1>2, <1>3 DEF LinkSet
  <2>4. control # NoConn /\ asock[control] = "open" => at[b] = Spot(control, link[b].id)
    BY <2>2, LinkOwns
  <2> QED BY <2>3, <2>4
<1>4. CASE b \notin InTable(lsocks)
  <2>1. link'[b] = link[b] /\ link[b].id \in Ids
    BY <1>1, <1>2, <1>4 DEF LinkSet
  <2>2. lsocks[link[b].id] # b
    BY <1>2, <1>4, <2>1 DEF InTable
  <2>3. link[b].st \notin {"connecting", "open"}
    BY <2>2 DEF LinksHeld
  <2>4. link[b].st = "closing" /\ control # NoConn /\ asock[control] = "open" => at[b] = Spot(control, link[b].id)
    BY DEF LinksHeld
  <2> QED BY <2>1, <2>3, <2>4
<1> QED BY <1>3, <1>4

\* The steps of the agent's side.
LEMMA AgentTalks ==
  ASSUME TalkInv, UNCHANGED <<at, wrapped, got, heard>>, Unsealed',
         ~wrapped => /\ UpPlaced' /\ JobsHeld' /\ LinksHeld'
                     /\ \A v \in Visitors : fed'[v] = {}
                     /\ \A b \in Browsers : told'[b] = {}
  PROVE  TalkInv'
<1>1. ~wrapped => NoCrossTalk'
  BY DEF TalkInv, NoCrossTalk
<1> QED BY <1>1 DEF TalkInv

LEMMA Still ==
  /\ UpPlaced /\ UNCHANGED <<up, at>> => UpPlaced'
  /\ JobsHeld /\ UNCHANGED <<job, requests>> => JobsHeld'
  /\ LinksHeld /\ UNCHANGED <<link, lsocks, control, asock, at>> => LinksHeld'
  /\ Unsealed /\ UNCHANGED <<job, buffered>> => Unsealed'
<1>1. UpPlaced /\ UNCHANGED <<up, at>> => UpPlaced'
  BY DEF UpPlaced
<1>2. JobsHeld /\ UNCHANGED <<job, requests>> => JobsHeld'
  BY DEF JobsHeld
<1>3. LinksHeld /\ UNCHANGED <<link, lsocks, control, asock, at>> => LinksHeld'
  BY DEF LinksHeld, Spot
<1>4. Unsealed /\ UNCHANGED <<job, buffered>> => Unsealed'
  BY DEF Unsealed
<1> QED BY <1>1, <1>2, <1>3, <1>4

\* What a destroyed local request and a closed local socket still say.
LEMMA LastWordsSaid ==
  ASSUME AllInv, JobsHeld, ~wrapped, NEW v \in Visitors, job[v].st \in AtDsh
  PROVE  LastWords(v) \in Seq(Said(at, control)) /\ at[v] = Spot(control, job[v].id) /\ job[v].id \in Ids
<1>1. job[v].id \in Ids /\ requests[job[v].id] = v /\ v # None /\ v \in Whos
  BY TalkTypes, WhosAre DEF JobSet, JobsHeld
<1>2. at[v] = Spot(control, job[v].id)
  BY <1>1, Owners
<1> QED BY <1>1, <1>2, Sayable DEF LastWords

LEMMA ClosedEarlySaid ==
  ASSUME AllInv, NEW id \in Ids, NEW n
  PROVE  /\ ClosedEarly(id) \in Seq(Said(at, n))
         /\ ClosedEarly(id) # << >> => <<Head(ClosedEarly(id))>> \in Seq(Said(at, n))
<1>1. lsocks[id] # None => lsocks[id] \in Whos
  BY TalkTypes, WhosAre
<1>2. CASE ClosedEarly(id) = << >>
  BY <1>2, EmptySeq
<1>3. CASE ClosedEarly(id) # << >>
  <2> DEFINE g == Ctl("ws_close", id, lsocks[id])
  <2>1. lsocks[id] # None /\ ClosedEarly(id) = <<g, g>>
    BY <1>3 DEF ClosedEarly
  <2>2. <<g>> \in Seq(Said(at, n)) /\ <<g, g>> \in Seq(Said(at, n))
    BY <1>1, <2>1, Sayable
  <2>3. Head(<<g, g>>) = g
    OBVIOUS
  <2> HIDE DEF g
  <2> QED BY <2>1, <2>2, <2>3
<1> QED BY <1>2, <1>3

LEMMA RequestTalks ==
  ASSUME NothingSealed, AllInv, TalkInv, NEW f \in DownFrames, f.t = "req_head",
         ~wrapped => control \in Conns /\ Placed(at, control, f) /\ requests[f.id] = None,
         ReqHead(f), UNCHANGED <<control, asock, at, wrapped, got, heard>>
  PROVE  TalkInv'
<1>1. f.who \in Visitors /\ f.who \in Whos /\ f.id \in Ids
  BY WhosAre DEF DownFrames, FrameSet
<1>2. ~wrapped => at[f.who] = Spot(control, f.id)
  BY DEF Placed
<1>3. OpenRequest(f.who, f.id) /\ UNCHANGED <<lsocks, fed, link, told>>
  BY DEF ReqHead
<1>4. Unsealed /\ (~wrapped => UpPlaced /\ JobsHeld /\ LinksHeld /\ NoCrossTalk)
  BY DEF TalkInv
<1>5. ~wrapped => LinksHeld' /\ (\A v \in Visitors : fed'[v] = {}) /\ (\A b \in Browsers : told'[b] = {})
  BY <1>3, <1>4, Still DEF NoCrossTalk
<1>6. CASE AgentSend(Refusal(f.id, f.who)) /\ UNCHANGED <<requests, buffered, job>>
  <2>1. ASSUME ~wrapped PROVE UpPlaced' /\ JobsHeld'
    <3>1. Refusal(f.id, f.who) \in Seq(Said(at, control))
      BY <1>1, <1>2, <2>1, Sayable
    <3> QED BY <1>4, <1>6, <2>1, <3>1, Speaks, Still DEF AllInv
  <2> QED BY <1>4, <1>5, <1>6, <2>1, Still, AgentTalks
<1>7. CASE UNCHANGED <<requests, buffered, job, up>>
  <2>1. ~wrapped => UpPlaced' /\ JobsHeld'
    BY <1>4, <1>7, Still
  <2> QED BY <1>4, <1>5, <1>7, <2>1, Still, AgentTalks
<1>8. CASE /\ requests' = [requests EXCEPT ![f.id] = f.who]
           /\ job' = [job EXCEPT ![f.who] = StartJob(f.who, f.id, FALSE)]
           /\ UNCHANGED <<buffered, up>>
  <2>1. ~wrapped => UpPlaced' /\ JobsHeld'
    BY <1>1, <1>2, <1>4, <1>8, Still, JobStarts
  <2>2. Unsealed'
    BY <1>4, <1>8, TalkTypes DEF Unsealed, StartJob
  <2> QED BY <1>5, <2>1, <2>2, AgentTalks
<1>9. Fate(f.who) = "replayed"
  BY <1>1, NothingIsSealed DEF AllInv
<1> QED BY <1>3, <1>6, <1>7, <1>8, <1>9 DEF OpenRequest, Replay

LEMMA EndTalks ==
  ASSUME AllInv, TalkInv, NEW f \in DownFrames, f.t = "req_end",
         ~wrapped => control \in Conns /\ Placed(at, control, f),
         ReqEnd(f), UNCHANGED <<control, asock, at, wrapped, got, heard>>
  PROVE  TalkInv'
<1> DEFINE v == requests[f.id]
<1>1. f.who \in Whos /\ f.id \in Ids /\ v \in Visitors \cup {None} /\ fed \in [Visitors -> SUBSET Visitors]
  BY WhosAre, TalkTypes DEF DownFrames, FrameSet
<1>2. ~wrapped => at[f.who] = Spot(control, f.id)
  BY DEF Placed
<1>3. Unsealed /\ (~wrapped => UpPlaced /\ JobsHeld /\ LinksHeld /\ NoCrossTalk)
  BY DEF TalkInv
<1>4. buffered[f.id] = None
  BY <1>1, <1>3 DEF Unsealed
<1>5. /\ UNCHANGED <<requests, buffered, lsocks, job, link, told, up>>
      /\ fed' = fed \/ (v # None /\ fed' = [fed EXCEPT ![v] = @ \cup ({f.who} \ {v})])
  BY <1>4 DEF ReqEnd
<1>6. ~wrapped /\ v # None => f.who = v
  BY <1>1, <1>2, WhosAre, Owners, OwnsAlone
<1>7. ASSUME ~wrapped, NEW x \in Visitors PROVE fed'[x] = {}
  BY <1>1, <1>3, <1>5, <1>6, <1>7 DEF NoCrossTalk
<1>8. ~wrapped => UpPlaced' /\ JobsHeld' /\ LinksHeld' /\ \A b \in Browsers : told'[b] = {}
  BY <1>3, <1>5, Still DEF NoCrossTalk
<1> QED BY <1>3, <1>5, <1>7, <1>8, Still, AgentTalks

LEMMA AbortTalks ==
  ASSUME AllInv, TalkInv, NEW f \in DownFrames, RelayAbort(f), UNCHANGED <<control, asock, at, wrapped, got, heard>>
  PROVE  TalkInv'
<1> DEFINE v == requests[f.id]
           fs == (IF v = None THEN << >> ELSE LastWords(v)) \o ClosedEarly(f.id)
<1>1. f.id \in Ids /\ v \in Visitors \cup {None}
  BY TalkTypes DEF DownFrames, FrameSet
<1>2. /\ job' = Destroyed(v) /\ requests' = [requests EXCEPT ![f.id] = None]
      /\ buffered' = [buffered EXCEPT ![f.id] = None] /\ CloseLocal(f.id) /\ AgentSend(fs)
      /\ UNCHANGED <<fed, told>>
  BY DEF RelayAbort
<1>3. Unsealed /\ (~wrapped => UpPlaced /\ JobsHeld /\ LinksHeld /\ NoCrossTalk)
  BY DEF TalkInv
<1>4. Unsealed'
  <2>1. ASSUME NEW x \in Visitors PROVE ~job'[x].sealed
    <3>1. job \in [Visitors -> JobSet] /\ ~job[x].sealed
      BY <1>3, TalkTypes DEF Unsealed
    <3>2. job' = job \/ job' = [job EXCEPT ![v] = CutShort(@)]
      BY <1>2 DEF Destroyed
    <3>3. job'[x].sealed = job[x].sealed
      BY <3>1, <3>2 DEF JobSet, CutShort
    <3> QED BY <3>1, <3>3
  <2>2. \A id \in Ids : buffered'[id] = None
    BY <1>2, <1>3, TalkTypes DEF Unsealed
  <2> QED BY <2>1, <2>2 DEF Unsealed
<1>5. ASSUME ~wrapped PROVE LinksHeld'
  BY <1>1, <1>2, <1>3, <1>5, LinkClosed
<1>6. ASSUME ~wrapped, v # None PROVE v \in Visitors /\ job[v].st \in AtDsh /\ job[v].id = f.id
  BY <1>1, <1>3, <1>6 DEF JobsHeld
<1>7. ASSUME ~wrapped PROVE JobsHeld'
  <2>1. CASE v = None
    <3>1. requests' = requests /\ job' = job
      BY <1>1, <1>2, <2>1, TalkTypes DEF Destroyed
    <3> QED BY <1>3, <1>7, <3>1, Still
  <2>2. CASE v # None
    <3>1. PICK t \in {"spill", "over"} : job' = [job EXCEPT ![v].st = t]
      BY <1>2, <2>2 DEF Destroyed, CutShort
    <3>2. t \notin AtDsh /\ requests' = [requests EXCEPT ![job[v].id] = None]
      BY <1>2, <1>6, <1>7, <2>2 DEF AtDsh
    <3> HIDE DEF v
    <3> QED BY <1>3, <1>6, <1>7, <2>2, <3>1, <3>2, JobMoves
  <2> QED BY <2>1, <2>2
<1>8. ASSUME ~wrapped PROVE UpPlaced'
  <2>1. (IF v = None THEN << >> ELSE LastWords(v)) \in Seq(Said(at, control))
    BY <1>3, <1>6, <1>8, LastWordsSaid, EmptySaid
  <2>2. ClosedEarly(f.id) \in Seq(Said(at, control))
    BY <1>1, ClosedEarlySaid
  <2>3. fs \in Seq(Said(at, control))
    <3> HIDE DEF Said
    <3> QED BY <2>1, <2>2
  <2> HIDE DEF fs
  <2> QED BY <1>2, <1>3, <1>8, <2>3, Speaks DEF AllInv
<1>9. ~wrapped => (\A x \in Visitors : fed'[x] = {}) /\ (\A b \in Browsers : told'[b] = {})
  BY <1>2, <1>3 DEF NoCrossTalk
<1> QED BY <1>4, <1>5, <1>7, <1>8, <1>9, AgentTalks

LEMMA SocketTalks ==
  ASSUME AllInv, TalkInv, NEW f \in DownFrames, UNCHANGED <<control, asock, at, wrapped, got, heard>>,
         ~wrapped => control \in Conns /\ Placed(at, control, f),
         \/ f.t = "ws_open" /\ WsOpen(f)
         \/ f.t = "ws_msg" /\ WsData(f)
         \/ WsClose(f)
  PROVE  TalkInv'
<1>1. f.id \in Ids /\ (f.t \in {"ws_open", "ws_msg"} => f.who \in Browsers /\ f.who \in Whos)
  BY WhosAre DEF DownFrames, FrameSet
<1>2. ~wrapped /\ f.t \in {"ws_open", "ws_msg"} => at[f.who] = Spot(control, f.id)
  BY DEF Placed
<1>3. Unsealed /\ (~wrapped => UpPlaced /\ JobsHeld /\ LinksHeld /\ NoCrossTalk)
  BY DEF TalkInv
<1>4. ASSUME f.t = "ws_open", WsOpen(f) PROVE TalkInv'
  <2>1. /\ UNCHANGED <<requests, buffered, job, fed, told, up>>
        /\ lsocks' = [lsocks EXCEPT ![f.id] = f.who]
        /\ link' = [link EXCEPT ![f.who] = [st |-> "connecting", id |-> f.id, sealed |-> e2eKey # 0]]
    BY <1>4 DEF WsOpen
  <2>2. ~wrapped => LinksHeld'
    BY <1>1, <1>2, <1>3, <1>4, <2>1, LinkStarts
  <2>3. ~wrapped => /\ UpPlaced' /\ JobsHeld' /\ (\A v \in Visitors : fed'[v] = {})
                    /\ (\A b \in Browsers : told'[b] = {})
    BY <1>3, <2>1, Still DEF NoCrossTalk
  <2> QED BY <1>3, <2>1, <2>2, <2>3, Still, AgentTalks
<1>5. ASSUME f.t = "ws_msg", WsData(f) PROVE TalkInv'
  <2> DEFINE b == lsocks[f.id]
  <2>1. /\ UNCHANGED <<requests, buffered, lsocks, job, fed, link, up>>
        /\ told' = told \/ (b # None /\ told' = [told EXCEPT ![b] = @ \cup ({f.who} \ {b})])
    BY <1>5 DEF WsData
  <2>2. b \in Browsers \cup {None} /\ told \in [Browsers -> SUBSET Browsers]
    BY <1>1, TalkTypes
  <2>3. ~wrapped /\ b # None => f.who = b
    BY <1>1, <1>2, <1>5, <2>2, WhosAre, Owners, OwnsAlone
  <2>4. ASSUME ~wrapped, NEW c \in Browsers PROVE told'[c] = {}
    BY <1>3, <2>1, <2>2, <2>3, <2>4 DEF NoCrossTalk
  <2>5. ~wrapped => UpPlaced' /\ JobsHeld' /\ LinksHeld' /\ \A v \in Visitors : fed'[v] = {}
    BY <1>3, <2>1, Still DEF NoCrossTalk
  <2> QED BY <1>3, <2>1, <2>4, <2>5, Still, AgentTalks
<1>6. ASSUME WsClose(f) PROVE TalkInv'
  <2>1. /\ UNCHANGED <<requests, buffered, job, fed, told>> /\ CloseLocal(f.id)
        /\ AgentSend(ClosedEarly(f.id))
    BY <1>6 DEF WsClose
  <2>2. ~wrapped => UpPlaced'
    BY <1>1, <1>3, <2>1, ClosedEarlySaid, Speaks DEF AllInv
  <2>3. ~wrapped => LinksHeld'
    BY <1>1, <1>3, <2>1, LinkClosed
  <2>4. ~wrapped => JobsHeld' /\ (\A v \in Visitors : fed'[v] = {}) /\ (\A b \in Browsers : told'[b] = {})
    BY <1>3, <2>1, Still DEF NoCrossTalk
  <2> QED BY <1>3, <2>1, <2>2, <2>3, <2>4, Still, AgentTalks
<1> QED BY <1>4, <1>5, <1>6

LEMMA ReceiveTalks ==
  ASSUME NothingSealed, AllInv, TalkInv, NEW n \in Conns, AgentReceive(n)
  PROVE  TalkInv'
<1> DEFINE f == Head(down[n])
<1>1. /\ asock[n] \in {"open", "closing"} /\ down[n] # << >> /\ AgentDispatch(f) /\ UNCHANGED relayVars
      /\ down' = [down EXCEPT ![n] = Tail(@)]
  BY DEF AgentReceive
<1>2. n = control
  BY <1>1 DEF AllInv, AgentInv, Sole
<1>3. f \in DownFrames /\ down[n][1] = f /\ 1 \in 1..Len(down[n])
  BY <1>1, TailLags, TakenType DEF AllInv, TypeInv, DownOK
<1>4. Placed(at, control, f)
  BY <1>2, <1>3 DEF AllInv, AgentInv, DownPlaced
<1>5. ~wrapped /\ f.t = "req_head" => requests[f.id] = None
  <2>1. f.id \in Ids
    BY <1>3 DEF DownFrames, FrameSet
  <2> QED BY <1>2, <1>3, <2>1 DEF AllInv, AgentInv, Unopened, Free
<1> HIDE DEF f
<1>6. UNCHANGED <<control, asock, at, wrapped, got, heard>> /\ control \in Conns
  BY <1>1, <1>2 DEF relayVars, AgentDispatch
<1>7. f.t = "req_head" /\ ReqHead(f) => TalkInv'
  BY <1>3, <1>4, <1>5, <1>6, RequestTalks
<1>8. f.t = "req_end" /\ ReqEnd(f) => TalkInv'
  BY <1>3, <1>4, <1>6, EndTalks
<1>9. RelayAbort(f) => TalkInv'
  BY <1>3, <1>6, AbortTalks
<1>10. (f.t = "ws_open" /\ WsOpen(f)) \/ (f.t = "ws_msg" /\ WsData(f)) \/ WsClose(f) => TalkInv'
  BY <1>3, <1>4, <1>6, SocketTalks
<1> QED BY <1>1, <1>7, <1>8, <1>9, <1>10 DEF AgentDispatch

\* What a step of a local request does to it, to its entry and to the wire.
LEMMA LocalMoves ==
  ASSUME AllInv, NEW v \in Visitors, ~job[v].sealed,
         LocalHead(v) \/ LocalBody(v) \/ LocalRead(v) \/ LocalEnd(v) \/ LocalSpill(v) \/ LocalError(v) \/ LocalAnswer(v)
  PROVE  /\ job[v].st \in AtDsh \cup Compressing /\ JobsOnly
         /\ \E t \in JobStates :
              /\ job' = [job EXCEPT ![v].st = t] /\ (job[v].st \in Compressing => t \notin AtDsh)
              /\ IF t \in AtDsh \/ job[v].st \in Compressing THEN UNCHANGED requests
                 ELSE requests' = [requests EXCEPT ![job[v].id] = None]
<1>1. ~LocalAnswer(v)
  BY DEF LocalAnswer
<1>2. CASE LocalHead(v)
  BY <1>2 DEF LocalHead, AtDsh, Compressing, JobStates
<1>3. CASE LocalBody(v)
  <2>1. /\ job[v].st \in {"head", "zipped"} /\ UNCHANGED requests /\ JobsOnly
        /\ job' = [job EXCEPT ![v].st = IF job[v].st = "head" THEN "body" ELSE "flushing"]
    BY <1>3 DEF LocalBody
  <2>2. CASE job[v].st = "head"
    <3>1. job' = [job EXCEPT ![v].st = "body"] /\ "body" \in AtDsh /\ "body" \in JobStates
      BY <2>1, <2>2 DEF AtDsh, JobStates
    <3>2. job[v].st \in AtDsh /\ job[v].st \notin Compressing
      BY <2>2 DEF AtDsh, Compressing
    <3> QED BY <2>1, <3>1, <3>2
  <2>3. CASE job[v].st = "zipped"
    <3>1. job' = [job EXCEPT ![v].st = "flushing"] /\ "flushing" \notin AtDsh /\ "flushing" \in JobStates
      BY <2>1, <2>3 DEF AtDsh, JobStates, Compressing
    <3>2. job[v].st \in Compressing
      BY <2>3 DEF Compressing
    <3> QED BY <2>1, <3>1, <3>2
  <2> QED BY <2>1, <2>2, <2>3
<1>4. CASE LocalRead(v)
  <2>1. /\ job[v].st \in {"head", "body"} /\ JobsOnly
        /\ requests' = [requests EXCEPT ![job[v].id] = None]
        /\ job' = [job EXCEPT ![v].st = IF job[v].st = "head" THEN "zipped" ELSE "flushing"]
    BY <1>4 DEF LocalRead
  <2>2. job[v].st \in AtDsh /\ job[v].st \notin Compressing
    BY <2>1 DEF AtDsh, Compressing
  <2>3. "zipped" \in JobStates \ AtDsh /\ "flushing" \in JobStates \ AtDsh
    BY DEF JobStates, Compressing, AtDsh
  <2>4. CASE job[v].st = "head"
    <3>1. job' = [job EXCEPT ![v].st = "zipped"]
      BY <2>1, <2>4
    <3> QED BY <2>1, <2>2, <2>3, <3>1
  <2>5. CASE job[v].st # "head"
    <3>1. job' = [job EXCEPT ![v].st = "flushing"]
      BY <2>1, <2>5
    <3> QED BY <2>1, <2>2, <2>3, <3>1
  <2> QED BY <2>4, <2>5
<1>5. CASE LocalEnd(v)
  <2>1. /\ job[v].st = "flushing" /\ UNCHANGED requests /\ JobsOnly
        /\ job' = [job EXCEPT ![v].st = "over"]
    BY <1>5, Zenon DEF LocalEnd
  <2>2. "over" \in JobStates /\ "over" \notin AtDsh /\ job[v].st \in Compressing
    BY <2>1 DEF AtDsh, Compressing, JobStates
  <2> QED BY <2>1, <2>2
<1>6. CASE LocalSpill(v)
  <2>1. /\ job[v].st = "spill" /\ UNCHANGED requests /\ JobsOnly
        /\ job' = [job EXCEPT ![v].st = "over"]
    BY <1>6, Zenon DEF LocalSpill
  <2>2. "over" \in JobStates /\ "over" \notin AtDsh /\ job[v].st \in Compressing
    BY <2>1 DEF AtDsh, Compressing, JobStates
  <2> QED BY <2>1, <2>2
<1>7. CASE LocalError(v)
  <2>1. /\ job[v].st \in AtDsh /\ requests' = [requests EXCEPT ![job[v].id] = None] /\ JobsOnly
        /\ job' = [job EXCEPT ![v] = CutShort(job[v])]
    BY <1>7 DEF LocalError
  <2>2. \E t \in {"spill", "over"} : job' = [job EXCEPT ![v].st = t]
    BY <2>1 DEF CutShort
  <2>3. {"spill", "over"} \subseteq JobStates /\ job[v].st \notin Compressing /\ "spill" \notin AtDsh /\ "over" \notin AtDsh
    BY <2>1 DEF JobStates, Compressing, AtDsh
  <2> QED BY <2>1, <2>2, <2>3
<1> QED BY <1>1, <1>2, <1>3, <1>4, <1>5, <1>6, <1>7

LEMMA LocalTalks ==
  ASSUME AllInv, TalkInv, TailInv, UNCHANGED relayVars, NEW v \in Visitors,
         LocalHead(v) \/ LocalBody(v) \/ LocalRead(v) \/ LocalEnd(v) \/ LocalSpill(v) \/ LocalError(v) \/ LocalAnswer(v)
  PROVE  TalkInv'
<1>1. Unsealed /\ ~job[v].sealed /\ (~wrapped => UpPlaced /\ JobsHeld /\ LinksHeld /\ NoCrossTalk)
  BY DEF TalkInv, Unsealed
<1>2. job[v].st \in AtDsh \cup Compressing /\ JobsOnly
  BY <1>1, LocalMoves
<1>3. UNCHANGED <<control, asock, at, wrapped, got, heard, buffered, lsocks, link, fed, told>>
  BY <1>2 DEF JobsOnly, relayVars
<1>4. PICK t \in JobStates :
        /\ job' = [job EXCEPT ![v].st = t] /\ (job[v].st \in Compressing => t \notin AtDsh)
        /\ IF t \in AtDsh \/ job[v].st \in Compressing THEN UNCHANGED requests
           ELSE requests' = [requests EXCEPT ![job[v].id] = None]
  BY <1>1, LocalMoves
<1>5. Unsealed'
  <2>1. job \in [Visitors -> JobSet]
    BY TalkTypes
  <2>2. \A x \in Visitors : job'[x].sealed = job[x].sealed
    BY <1>4, <2>1 DEF JobSet
  <2> QED BY <1>1, <1>3, <2>2 DEF Unsealed
<1>6. ASSUME ~wrapped PROVE JobsHeld'
  <2>1. CASE job[v].st \in AtDsh
    <3>1. job[v].st \notin Compressing
      BY <2>1 DEF AtDsh, Compressing
    <3> QED BY <1>1, <1>4, <1>6, <2>1, <3>1, JobMoves
  <2>2. CASE job[v].st \in Compressing
    <3>1. job[v].st \notin AtDsh
      BY <2>2 DEF AtDsh, Compressing
    <3> QED BY <1>1, <1>4, <1>6, <2>2, <3>1, TailMoves
  <2> QED BY <1>2, <2>1, <2>2
<1>7. ASSUME ~wrapped PROVE UpPlaced'
  <2>1. job[v].id \in Ids /\ v \in Whos /\ 0 \in Keys
    BY TalkTypes, WhosAre, Constants DEF JobSet, Keys
  <2>2. control \in Conns /\ asock[control] = "open" => at[v] = Spot(control, job[v].id)
    BY <1>1, <1>2, <1>7, LastWordsSaid, Constants DEF TailInv, TailsHeld
  <2>3. control \in Conns /\ asock[control] = "open" =>
          /\ \A t1 \in FrameTypes : <<Ctl(t1, job[v].id, v)>> \in Seq(Said(at, control))
          /\ \A t1 \in FrameTypes : <<Data(t1, job[v].id, v, 0)>> \in Seq(Said(at, control))
          /\ LastWords(v) \in Seq(Said(at, control))
    BY <2>1, <2>2, Sayable DEF LastWords
  <2>4. {"res_head", "res_body", "res_end", "abort"} \subseteq FrameTypes
    BY DEF FrameTypes
  <2>5. \/ UNCHANGED up \/ AgentSend(LastWords(v))
        \/ \E t1 \in FrameTypes : AgentSend(<<Ctl(t1, job[v].id, v)>>) \/ AgentSend(<<Data(t1, job[v].id, v, 0)>>)
    BY <1>1, <2>4, Zenon DEF LocalHead, LocalBody, LocalRead, LocalEnd, LocalSpill, LocalError, LocalAnswer
  <2>6. CASE UNCHANGED up
    BY <1>1, <1>3, <1>7, <2>6, Still
  <2>7. ASSUME NEW fs, AgentSend(fs), control \in Conns /\ asock[control] = "open" => fs \in Seq(Said(at, control))
        PROVE  UpPlaced'
    BY <1>1, <1>3, <1>7, <2>7, Speaks DEF AllInv
  <2> QED BY <2>3, <2>5, <2>6, <2>7
<1>8. ~wrapped => LinksHeld' /\ (\A x \in Visitors : fed'[x] = {}) /\ (\A b \in Browsers : told'[b] = {})
  BY <1>1, <1>3, Still DEF NoCrossTalk
<1> QED BY <1>3, <1>5, <1>6, <1>7, <1>8, AgentTalks

LEMMA LinkSteps ==
  ASSUME AllInv, LinksHeld, ~wrapped, UNCHANGED at, NEW b \in Browsers,
         LinkOpen(b) \/ LinkMessage(b) \/ LinkClose(b) \/ LinkRefused(b) \/ LinkCongested(b)
  PROVE  LinksHeld'
<1>1. LinkOpen(b) => link[b].st = "connecting" /\ link' = [link EXCEPT ![b].st = "open"] /\ UNCHANGED lsocks
  BY DEF LinkOpen
<1>2. LinkMessage(b) => UNCHANGED <<link, lsocks>>
  BY DEF LinkMessage
<1>3. LinkClose(b) \/ LinkRefused(b) =>
        link' = [link EXCEPT ![b].st = "over"] /\ lsocks' = [lsocks EXCEPT ![link[b].id] = None]
  BY DEF LinkClose, LinkRefused
<1>4. LinkCongested(b) =>
        link' = [link EXCEPT ![b].st = "closing"] /\ lsocks' = [lsocks EXCEPT ![link[b].id] = None]
  BY DEF LinkCongested
<1>5. UNCHANGED <<control, asock>> /\ link[b].st \in {"connecting", "open", "closing"}
  BY DEF LinkOpen, LinkMessage, LinkClose, LinkRefused, LinkCongested, SocketsOnly
<1> QED BY <1>1, <1>2, <1>3, <1>4, <1>5, LinkMoves, Still

LEMMA LinkTalks ==
  ASSUME AllInv, TalkInv, UNCHANGED relayVars, NEW b \in Browsers,
         LinkOpen(b) \/ LinkMessage(b) \/ LinkClose(b) \/ LinkRefused(b) \/ LinkCongested(b)
  PROVE  TalkInv'
<1>1. Unsealed /\ (~wrapped => UpPlaced /\ JobsHeld /\ LinksHeld /\ NoCrossTalk)
  BY DEF TalkInv
<1>2. /\ UNCHANGED <<control, asock, at, wrapped, got, heard, buffered, requests, job, fed, told>>
      /\ link[b].st \in {"connecting", "open", "closing"}
  BY DEF LinkOpen, LinkMessage, LinkClose, LinkRefused, LinkCongested, SocketsOnly, relayVars
<1>3. ~wrapped => LinksHeld'
  BY <1>1, <1>2, LinkSteps
<1>4. ASSUME ~wrapped PROVE UpPlaced'
  <2>1. /\ link[b].id \in Ids /\ b \in Whos
        /\ control # NoConn /\ asock[control] = "open" => at[b] = Spot(control, link[b].id)
    BY <1>1, <1>2, <1>4, LinkOwns, WhosAre
  <2>2. CASE UNCHANGED up
    BY <1>1, <1>2, <1>4, <2>2, Still
  <2>3. ASSUME LinkMessage(b) PROVE UpPlaced'
    <3> DEFINE k == IF link[b].sealed THEN e2eKey ELSE 0
    <3>1. k \in Keys
      BY Constants DEF AllInv, TypeInv, AgentTypeOK, Keys
    <3> HIDE DEF k
    <3>2. control \in Conns /\ asock[control] = "open" => <<Data("ws_msg", link[b].id, b, k)>> \in Seq(Said(at, control))
      BY <2>1, <3>1, Constants, Sayable DEF FrameTypes
    <3>3. AgentSend(<<Data("ws_msg", link[b].id, b, k)>>)
      BY <2>3 DEF LinkMessage, k
    <3> QED BY <1>1, <1>2, <1>4, <3>2, <3>3, Speaks DEF AllInv
  <2>4. ASSUME NEW t \in {"ws_close", "ws_reject"}, AgentSend(<<Ctl(t, link[b].id, b)>>) PROVE UpPlaced'
    <3>1. <<Ctl(t, link[b].id, b)>> \in Seq(Said(at, control))
      BY <2>1, <2>4, Sayable
    <3> QED BY <1>1, <1>2, <1>4, <2>4, <3>1, Speaks DEF AllInv
  <2>5. ASSUME AgentSend(ClosedEarly(link[b].id)) PROVE UpPlaced'
    <3>1. ClosedEarly(link[b].id) \in Seq(Said(at, control))
      BY <2>1, ClosedEarlySaid
    <3> QED BY <1>1, <1>2, <1>4, <2>5, <3>1, Speaks DEF AllInv
  <2>6. LinkOpen(b) => UNCHANGED up
    BY DEF LinkOpen
  <2>7. LinkClose(b) \/ LinkCongested(b) => AgentSend(<<Ctl("ws_close", link[b].id, b)>>)
    BY DEF LinkClose, LinkCongested
  <2>8. LinkRefused(b) => AgentSend(<<Ctl("ws_reject", link[b].id, b)>>) \/ AgentSend(ClosedEarly(link[b].id))
    BY DEF LinkRefused
  <2> QED BY <2>2, <2>3, <2>4, <2>5, <2>6, <2>7, <2>8
<1>5. ~wrapped => JobsHeld' /\ (\A x \in Visitors : fed'[x] = {}) /\ (\A c \in Browsers : told'[c] = {})
  BY <1>1, <1>2, Still DEF NoCrossTalk
<1> QED BY <1>1, <1>2, <1>3, <1>4, <1>5, Still, AgentTalks

LEMMA SettledTalks ==
  ASSUME NothingSealed, AllInv, TalkInv, UNCHANGED relayVars, CookieSettled
  PROVE  TalkInv'
<1> DEFINE waiting == {id \in Ids : parked[id] # None}
           plain   == {id \in waiting : Fate(parked[id]) = "replayed"}
           sealed  == {id \in waiting : Fate(parked[id]) = "buffered"}
           opened  == {id \in sealed \cap ended : Opens(parked[id])}
           refused(id) == \/ Fate(parked[id]) = "refused"
                          \/ id \in sealed \cap ended /\ ~Opens(parked[id])
           s == [id \in Ids |-> IF id \in waiting /\ refused(id) THEN Refusal(id, parked[id]) ELSE << >>]
<1>1. /\ buffered' = [id \in Ids |-> IF id \in sealed \ ended THEN parked[id] ELSE buffered[id]]
      /\ job' = [v \in Visitors |->
                  IF \E id \in plain \cup opened : parked[id] = v
                  THEN LET id == CHOOSE i \in plain \cup opened : parked[i] = v
                       IN StartJob(v, id, id \in opened)
                  ELSE job[v]]
      /\ AgentSend(InIdOrder(s))
      /\ UNCHANGED <<control, asock, lsocks, fed, link, told>>
  BY DEF CookieSettled
<1>2. UNCHANGED <<at, wrapped, got, heard>>
  BY DEF relayVars
<1>3. Unsealed /\ (~wrapped => UpPlaced /\ JobsHeld /\ LinksHeld /\ NoCrossTalk)
  BY DEF TalkInv
<1>4. \A id \in waiting : parked[id] \in Visitors
  BY TalkTypes
<1>5. \A id \in waiting : Fate(parked[id]) = "replayed"
  BY <1>4, NothingIsSealed DEF AllInv
<1>6. sealed = {} /\ opened = {} /\ \A id \in waiting : ~refused(id)
  BY <1>5
<1>7. \A id \in Ids : s[id] = << >>
  BY <1>6
<1> HIDE DEF plain, sealed, opened, refused, s
<1>8. Unsealed'
  <2>1. ASSUME NEW v \in Visitors PROVE ~job'[v].sealed
    <3>1. CASE \E id \in plain \cup opened : parked[id] = v
      <4>1. \E id : job'[v] = StartJob(v, id, id \in opened)
        BY <1>1, <3>1
      <4>2. \A id : StartJob(v, id, id \in opened).sealed = (id \in opened)
        BY Zenon DEF StartJob
      <4> QED BY <1>6, <4>1, <4>2
    <3>2. CASE ~ \E id \in plain \cup opened : parked[id] = v
      BY <1>1, <1>3, <3>2 DEF Unsealed
    <3> QED BY <3>1, <3>2
  <2>2. \A id \in Ids : buffered'[id] = None
    BY <1>1, <1>3, <1>6 DEF Unsealed
  <2> QED BY <2>1, <2>2 DEF Unsealed
<1>9. ASSUME ~wrapped PROVE UpPlaced'
  <2>1. \A id \in Ids : s[id] \in Seq(Said(at, control))
    BY <1>7, EmptySaid
  <2>2. InIdOrder(s) \in Seq(Said(at, control))
    BY <2>1, FoldType
  <2> QED BY <1>1, <1>2, <1>3, <1>9, <2>2, Speaks DEF AllInv
<1>10. ~wrapped => JobsHeld'
  BY <1>3, JobsSettled
<1>11. ~wrapped => LinksHeld' /\ (\A v \in Visitors : fed'[v] = {}) /\ (\A b \in Browsers : told'[b] = {})
  BY <1>1, <1>2, <1>3, Still DEF NoCrossTalk
<1> QED BY <1>2, <1>8, <1>9, <1>10, <1>11, AgentTalks

\* Every table is emptied: what the local requests and sockets still say is
\* said under their own ids.
LEMMA UnsealedDropped ==
  ASSUME AllInv, Unsealed, DropStreams
  PROVE  Unsealed'
<1>1. job \in [Visitors -> JobSet]
  BY TalkTypes
<1>2. /\ \A id \in Ids : buffered'[id] = None
      /\ job' = [v \in Visitors |-> IF v \in InTable(requests) THEN CutShort(job[v]) ELSE job[v]]
  BY DEF DropStreams, DestroyStreams, NoneOpen
<1>3. \A v \in Visitors : job'[v].sealed = job[v].sealed
  BY <1>1, <1>2 DEF JobSet, CutShort
<1> QED BY <1>2, <1>3 DEF Unsealed

LEMMA SetTalks ==
  ASSUME AllInv, TalkInv, UNCHANGED relayVars, NEW k, SetE2E(k)
  PROVE  TalkInv'
<1> DEFINE s == [id \in Ids |->
                 (IF requests[id] = None THEN << >> ELSE LastWords(requests[id])) \o
                 (IF ClosedEarly(id) = << >> THEN << >> ELSE <<Head(ClosedEarly(id))>>)]
<1>1. DropStreams /\ AgentSend(InIdOrder(s)) /\ UNCHANGED <<control, asock, fed, told>>
  BY DEF SetE2E
<1>2. UNCHANGED <<at, wrapped, got, heard>>
  BY DEF relayVars
<1>3. Unsealed /\ (~wrapped => UpPlaced /\ JobsHeld /\ LinksHeld /\ NoCrossTalk)
  BY DEF TalkInv
<1>4. ASSUME ~wrapped, NEW id \in Ids PROVE s[id] \in Seq(Said(at, control))
  <2> DEFINE p == IF requests[id] = None THEN << >> ELSE LastWords(requests[id])
             q == IF ClosedEarly(id) = << >> THEN << >> ELSE <<Head(ClosedEarly(id))>>
  <2>1. requests[id] # None => requests[id] \in Visitors /\ job[requests[id]].st \in AtDsh
    BY <1>3, <1>4, TalkTypes DEF JobsHeld
  <2>2. p \in Seq(Said(at, control))
    BY <1>3, <1>4, <2>1, LastWordsSaid, EmptySaid
  <2>3. q \in Seq(Said(at, control))
    BY ClosedEarlySaid, EmptySaid
  <2>4. s[id] = p \o q
    OBVIOUS
  <2> HIDE DEF p, q, s, Said
  <2> QED BY <2>2, <2>3, <2>4
<1> HIDE DEF s
<1>5. ASSUME ~wrapped PROVE UpPlaced'
  <2>1. InIdOrder(s) \in Seq(Said(at, control))
    BY <1>4, <1>5, FoldType
  <2> QED BY <1>1, <1>2, <1>3, <1>5, <2>1, Speaks DEF AllInv
<1>6. ~wrapped => JobsHeld' /\ LinksHeld'
  BY <1>1, <1>2, <1>3, JobsDropped, LinksDropped
<1>7. ~wrapped => (\A v \in Visitors : fed'[v] = {}) /\ (\A b \in Browsers : told'[b] = {})
  BY <1>1, <1>3 DEF NoCrossTalk
<1>8. Unsealed'
  BY <1>1, <1>3, UnsealedDropped
<1> QED BY <1>2, <1>5, <1>6, <1>7, <1>8, AgentTalks

LEMMA ClosedTalks ==
  ASSUME AllInv, TalkInv, UNCHANGED relayVars, NEW n \in Conns, AgentCloseEvent(n)
  PROVE  TalkInv'
<1>1. control = n /\ DropStreams /\ control' = NoConn /\ UNCHANGED <<fed, told, up>>
  BY DEF AgentCloseEvent, AllInv, AgentInv, Sole
<1>2. UNCHANGED <<at, wrapped, got, heard>>
  BY DEF relayVars
<1>3. Unsealed /\ (~wrapped => UpPlaced /\ JobsHeld /\ LinksHeld /\ NoCrossTalk)
  BY DEF TalkInv
<1>4. ~wrapped => JobsHeld' /\ LinksHeld'
  BY <1>1, <1>2, <1>3, JobsDropped, LinksDropped
<1>5. ~wrapped => UpPlaced' /\ (\A v \in Visitors : fed'[v] = {}) /\ (\A b \in Browsers : told'[b] = {})
  BY <1>1, <1>2, <1>3, Still DEF NoCrossTalk
<1>6. Unsealed'
  BY <1>1, <1>3, UnsealedDropped
<1> QED BY <1>2, <1>4, <1>5, <1>6, AgentTalks

\* The control socket opens, or the next one is dialled, with nothing in a table.
LEMMA ConnectLinks ==
  ASSUME PromptClose, AllInv, LinksHeld, UNCHANGED at,
         Reconnect \/ \E n \in Conns : Handshake(n)
  PROVE  LinksHeld'
<1>1. /\ control' # NoConn /\ asock'[control'] = "open" => \A b \in Browsers : link[b].st # "closing"
  <2>1. CASE Reconnect
    <3>1. control' = dialled + 1 /\ asock' = [asock EXCEPT ![dialled + 1] = "connecting"] /\ dialled < MaxConn
      BY <2>1 DEF Reconnect, Dial
    <3>2. dialled + 1 \in Conns
      BY <3>1, Constants DEF AllInv, TypeInv, AgentTypeOK, Conns
    <3> QED BY <3>1, <3>2, TalkTypes
  <2>2. ASSUME NEW n \in Conns, Handshake(n) PROVE \A b \in Browsers : link[b].st # "closing"
    BY <2>2 DEF Handshake, Opened
  <2> QED BY <2>1, <2>2
<1>2. UNCHANGED <<lsocks, link>>
  BY DEF Reconnect, Handshake, Opened
<1> QED BY <1>1, <1>2 DEF LinksHeld, Spot

LEMMA ConnectTalks ==
  ASSUME PromptClose, AllInv, TalkInv,
         \/ Reconnect /\ UNCHANGED relayVars
         \/ \E n \in Conns : Handshake(n)
  PROVE  TalkInv'
<1>1. /\ UNCHANGED <<requests, buffered, lsocks, job, link, fed, told, up>>
      /\ UNCHANGED <<at, wrapped, got, heard>>
  BY DEF Reconnect, Handshake, Opened, relayVars
<1>2. Unsealed /\ (~wrapped => UpPlaced /\ JobsHeld /\ LinksHeld /\ NoCrossTalk)
  BY DEF TalkInv
<1>3. ~wrapped => LinksHeld'
  BY <1>1, <1>2, ConnectLinks
<1>4. ~wrapped => /\ UpPlaced' /\ JobsHeld' /\ (\A v \in Visitors : fed'[v] = {})
                  /\ (\A b \in Browsers : told'[b] = {})
  BY <1>1, <1>2, Still DEF NoCrossTalk
<1>5. Unsealed'
  BY <1>1, <1>2, Still
<1> QED BY <1>1, <1>3, <1>4, <1>5, AgentTalks

LEMMA StepTalks ==
  ASSUME Redials = FALSE, NothingSealed, PromptClose, AllInv, TalkInv, TailInv, [Next]_vars
  PROVE  TalkInv'
<1>1. ASSUME NEW v \in Visitors, Arrive(v) PROVE TalkInv'
  <2>1. AgentDumb /\ UNCHANGED up /\ v \in Whos /\ Request(v)
    BY <1>1, WhosAre DEF Arrive, Request, AgentDumb
  <2> QED BY <2>1, OpenedTalks
<1>2. ASSUME Public \/ RelaySteps, UNCHANGED agentVars PROVE TalkInv'
  BY <1>2, RelaySideTalks
<1>3. ASSUME NEW n \in Conns, RelayReceive(n) PROVE TalkInv'
  BY <1>3, ReadTalks
<1>4. ASSUME NEW n \in Conns, AgentReceive(n) PROVE TalkInv'
  BY <1>4, ReceiveTalks
<1>5. ASSUME NEW n \in Conns, Handshake(n) PROVE TalkInv'
  BY <1>5, ConnectTalks
<1>6. ASSUME NEW n \in Conns, Loss(n) PROVE TalkInv'
  BY <1>6, RelaySideTalks DEF Loss
<1>7. ASSUME AgentSteps, UNCHANGED relayVars PROVE TalkInv'
  BY <1>7, LocalTalks, LinkTalks, SettledTalks, SetTalks, ConnectTalks, ClosedTalks DEF AgentSteps
<1>8. ASSUME UNCHANGED vars PROVE TalkInv'
  <2>1. AgentDumb /\ UpShrinks /\ UNCHANGED <<at, wrapped, got, heard>>
    BY <1>8 DEF vars, wireVars, agentVars, relayVars, AgentDumb, UpShrinks
  <2> QED BY <2>1, SilentTalks
<1> QED BY <1>1, <1>2, <1>3, <1>4, <1>5, <1>6, <1>7, <1>8 DEF Next

\* What compressors hold: an answer whose id was its visitor's while dsh spoke is
\* still its visitor's, and when the next connection opens nothing is left.
ConnStays == control' # NoConn /\ asock'[control'] = "open" => control' = control /\ asock[control] = "open"

AnswersOnly ==
  \A v \in Visitors : job'[v].st \in Compressing => job[v].st \in AtDsh \cup Compressing /\ job'[v].id = job[v].id

LEMMA TailsKeep ==
  ASSUME AllInv, TalkInv, TailInv, wrapped => wrapped', ConnStays, AnswersOnly,
         \A w \in Whos : at[w].conn # NoConn => at'[w] = at[w]
  PROVE  TailInv'
<1> SUFFICES ASSUME ~wrapped, NEW v \in Visitors, job'[v].st \in Compressing, control' # NoConn, asock'[control'] = "open"
             PROVE  at'[v] = Spot(control', job'[v].id)
  BY DEF TailInv, TailsHeld, Spot
<1>1. /\ control' = control /\ control # NoConn /\ asock[control] = "open"
      /\ job[v].st \in AtDsh \cup Compressing /\ job'[v].id = job[v].id
  BY DEF ConnStays, AnswersOnly
<1>2. at[v] = Spot(control, job[v].id)
  <2>1. CASE job[v].st \in AtDsh
    BY <2>1, LastWordsSaid DEF TalkInv
  <2>2. CASE job[v].st \in Compressing
    BY <1>1, <2>2 DEF TailInv, TailsHeld
  <2> QED BY <1>1, <2>1, <2>2
<1>3. at'[v] = at[v]
  BY <1>1, <1>2, WhosAre DEF Spot
<1> QED BY <1>1, <1>2, <1>3

LEMMA JobsAnswer ==
  ASSUME AllInv,
         \/ UNCHANGED job
         \/ \E v \in Visitors, s \in JobStates :
              job' = [job EXCEPT ![v].st = s] /\ job[v].st \in AtDsh \cup Compressing
         \/ \E v \in Visitors, id \in Ids, s \in BOOLEAN : job' = [job EXCEPT ![v] = StartJob(v, id, s)]
  PROVE  AnswersOnly
<1>1. job \in [Visitors -> JobSet] /\ "sent" \notin Compressing
  BY TalkTypes DEF Compressing
<1>2. \A v \in Visitors : job[v].st \in JobStates
  BY <1>1 DEF JobSet
<1>3. Compressing \subseteq JobStates /\ \A v \in Visitors : job'[v] = job[v] => (job'[v].st \in Compressing => job[v].st \in AtDsh \cup Compressing /\ job'[v].id = job[v].id)
  BY DEF JobStates
<1> QED BY <1>1, <1>3 DEF AnswersOnly, JobSet, StartJob

LEMMA DropsAnswer ==
  ASSUME AllInv, TalkInv, ~wrapped, DropStreams
  PROVE  AnswersOnly
<1>1. job \in [Visitors -> JobSet] /\ requests \in [Ids -> Visitors \cup {None}] /\ None \notin Visitors
  BY TalkTypes, WhosAre
<1>2. job' = [v \in Visitors |-> IF v \in InTable(requests) THEN CutShort(job[v]) ELSE job[v]]
  BY DEF DropStreams, DestroyStreams
<1>3. \A v \in InTable(requests) : job[v].st \in AtDsh
  BY <1>1 DEF InTable, TalkInv, JobsHeld
<1> QED BY <1>1, <1>2, <1>3 DEF AnswersOnly, CutShort, JobSet

LEMMA AgentTails ==
  ASSUME NothingSealed, AllInv, TalkInv, TailInv, AgentSteps, UNCHANGED relayVars, Redials = FALSE
  PROVE  TailInv'
<1>0. UNCHANGED <<at, wrapped>>
  BY DEF relayVars
<1>1. SUFFICES ASSUME ~wrapped PROVE ConnStays /\ AnswersOnly
  BY <1>0, TailsKeep DEF TailInv
<1>2. ASSUME NEW v \in Visitors,
             LocalHead(v) \/ LocalBody(v) \/ LocalRead(v) \/ LocalEnd(v) \/ LocalSpill(v) \/ LocalError(v) \/ LocalAnswer(v)
      PROVE  ConnStays /\ AnswersOnly
  <2>1. ~job[v].sealed
    BY DEF TalkInv, Unsealed
  <2>2. job[v].st \in AtDsh \cup Compressing /\ JobsOnly /\ \E t \in JobStates : job' = [job EXCEPT ![v].st = t]
    BY <1>2, <2>1, LocalMoves
  <2> QED BY <2>2, JobsAnswer DEF ConnStays, JobsOnly
<1>3. ASSUME NEW b \in Browsers, LinkOpen(b) \/ LinkMessage(b) \/ LinkClose(b) \/ LinkRefused(b) \/ LinkCongested(b)
      PROVE  ConnStays /\ AnswersOnly
  <2>1. UNCHANGED <<control, asock, job>>
    BY <1>3 DEF LinkOpen, LinkMessage, LinkClose, LinkRefused, LinkCongested, SocketsOnly
  <2> QED BY <2>1, JobsAnswer DEF ConnStays
<1>4. ASSUME CookieSettled PROVE ConnStays /\ AnswersOnly
  <2>1. UNCHANGED <<control, asock>> /\ \A v \in Visitors : job'[v] = job[v] \/ job'[v].st = "sent"
    BY <1>4 DEF CookieSettled, StartJob
  <2> QED BY <2>1 DEF ConnStays, AnswersOnly, Compressing
<1>5. ASSUME NEW k \in Keys, SetE2E(k) PROVE ConnStays /\ AnswersOnly
  <2>1. UNCHANGED <<control, asock>> /\ DropStreams
    BY <1>5 DEF SetE2E
  <2> QED BY <1>1, <2>1, DropsAnswer DEF ConnStays
<1>6. ASSUME Reconnect PROVE ConnStays /\ AnswersOnly
  <2>1. control' = dialled + 1 /\ asock' = [asock EXCEPT ![dialled + 1] = "connecting"] /\ dialled < MaxConn /\ UNCHANGED job
    BY <1>6 DEF Reconnect, Dial
  <2>2. dialled + 1 \in Conns
    BY <2>1, Constants DEF AllInv, TypeInv, AgentTypeOK, Conns
  <2> QED BY <2>1, <2>2, TalkTypes, JobsAnswer DEF ConnStays
<1>7. ASSUME NEW n \in Conns, AgentCloseEvent(n) PROVE ConnStays /\ AnswersOnly
  <2>1. control = n /\ DropStreams /\ control' = NoConn
    BY <1>7 DEF AgentCloseEvent, AllInv, AgentInv, Sole
  <2> QED BY <1>1, <2>1, DropsAnswer DEF ConnStays
<1> QED BY <1>2, <1>3, <1>4, <1>5, <1>6, <1>7 DEF AgentSteps

LEMMA ReceiveTails ==
  ASSUME AllInv, TalkInv, TailInv, NEW n \in Conns, AgentReceive(n)
  PROVE  TailInv'
<1> DEFINE f == Head(down[n])
<1>1. AgentDispatch(f) /\ UNCHANGED relayVars /\ down[n] # << >>
  BY DEF AgentReceive
<1>2. f \in DownFrames
  BY <1>1, TakenType DEF AllInv, TypeInv, DownOK
<1>3. f.id \in Ids /\ (f.t = "req_head" => f.who \in Visitors)
  BY <1>2 DEF DownFrames, FrameSet
<1> HIDE DEF f
<1>4. UNCHANGED <<control, asock, at, wrapped>>
  BY <1>1 DEF AgentDispatch, relayVars
<1>5. SUFFICES ASSUME ~wrapped PROVE AnswersOnly
  BY <1>4, TailsKeep DEF TailInv, ConnStays
<1>6. ASSUME f.t = "req_head", ReqHead(f) PROVE AnswersOnly
  BY <1>3, <1>6, JobsAnswer DEF ReqHead, OpenRequest, Replay
<1>7. ASSUME f.t = "req_end", ReqEnd(f) PROVE AnswersOnly
  <2>1. buffered[f.id] = None
    BY <1>3 DEF TalkInv, Unsealed
  <2>2. UNCHANGED job
    BY <1>7, <2>1 DEF ReqEnd
  <2> QED BY <2>2, JobsAnswer
<1>8. ASSUME RelayAbort(f) PROVE AnswersOnly
  <2>1. requests[f.id] # None => requests[f.id] \in Visitors /\ job[requests[f.id]].st \in AtDsh
    BY <1>3, <1>5, TalkTypes DEF TalkInv, JobsHeld
  <2>2. UNCHANGED job \/ \E s \in JobStates : requests[f.id] # None /\ job' = [job EXCEPT ![requests[f.id]].st = s]
    BY <1>8 DEF RelayAbort, Destroyed, CutShort, JobStates, Compressing
  <2> QED BY <2>1, <2>2, JobsAnswer
<1>9. ASSUME WsOpen(f) \/ WsData(f) \/ WsClose(f) PROVE AnswersOnly
  BY <1>9, JobsAnswer DEF WsOpen, WsData, WsClose
<1> QED BY <1>1, <1>6, <1>7, <1>8, <1>9 DEF AgentDispatch

LEMMA DumbTails ==
  ASSUME AllInv, TalkInv, TailInv, AgentDumb, wrapped => wrapped', \A w \in Whos : at[w].conn # NoConn => at'[w] = at[w]
  PROVE  TailInv'
<1>1. ConnStays /\ AnswersOnly
  BY JobsAnswer DEF AgentDumb, ConnStays
<1> QED BY <1>1, TailsKeep

LEMMA StepTails ==
  ASSUME Redials = FALSE, NothingSealed, PromptClose, AllInv, TalkInv, TailInv, [Next]_vars
  PROVE  TailInv'
<1>1. ASSUME AgentDumb, UNCHANGED <<at, wrapped>> PROVE TailInv'
  BY <1>1, DumbTails
<1>2. ASSUME AgentDumb, NEW w \in Whos, (w \in Visitors /\ Request(w)) \/ (w \in Browsers /\ Upgrade(w)) PROVE TailInv'
  <2>1. at[w].conn = NoConn /\ at \in [Whos -> [conn : Conns \cup {NoConn}, id : Ids]]
    BY <1>2 DEF AllInv, AgentInv, Unplaced, Request, Upgrade, TypeInv, RelayTypeOK
  <2>2. \A x \in Whos : at[x].conn # NoConn => at'[x] = at[x]
    BY <1>2, <2>1 DEF Request, Upgrade
  <2>3. wrapped => wrapped'
    BY <1>2, Zenon DEF Request, Upgrade
  <2> QED BY <1>2, <2>2, <2>3, DumbTails
<1>3. ASSUME NEW v \in Visitors, Arrive(v) PROVE TailInv'
  <2>1. AgentDumb /\ v \in Whos /\ Request(v)
    BY <1>3, WhosAre DEF Arrive, AgentDumb
  <2> QED BY <1>2, <2>1
<1>4. ASSUME Public \/ RelaySteps, UNCHANGED agentVars PROVE TailInv'
  <2>1. AgentDumb
    BY <1>4 DEF AgentDumb, agentVars
  <2>2. ASSUME NEW b \in Browsers, Upgrade(b) PROVE TailInv'
    BY <1>2, <2>1, <2>2, WhosAre
  <2>3. ASSUME NEW v \in Visitors, RequestEnd(v) \/ RequestError(v) \/ ClientClose(v) PROVE UNCHANGED <<at, wrapped>>
    BY <2>3 DEF RequestEnd, RequestError, ClientClose
  <2>4. ASSUME NEW b \in Browsers, BrowserMessage(b) \/ BrowserClose(b) PROVE UNCHANGED <<at, wrapped>>
    BY <2>4 DEF BrowserMessage, BrowserClose, relayVars
  <2>5. ASSUME NEW n \in Conns, Admit(n) \/ Terminate(n) \/ CloseEvent(n) PROVE UNCHANGED <<at, wrapped>>
    BY <2>5 DEF Admit, Terminate, CloseEvent
  <2>6. ASSUME NEW n \in Conns, NEW id \in Ids, IdleTimeout(n, id) PROVE UNCHANGED <<at, wrapped>>
    BY <2>6 DEF IdleTimeout
  <2> QED BY <1>1, <1>4, <2>1, <2>2, <2>3, <2>4, <2>5, <2>6 DEF Public, RelaySteps
<1>5. ASSUME NEW n \in Conns, RelayReceive(n) PROVE TailInv'
  <2>1. UNCHANGED agentVars /\ UNCHANGED <<at, wrapped>>
    BY <1>5 DEF RelayReceive, PeerClose, OnAgentFrame, relayVars
  <2> QED BY <1>1, <2>1 DEF AgentDumb, agentVars
<1>6. ASSUME NEW n \in Conns, AgentReceive(n) PROVE TailInv'
  BY <1>6, ReceiveTails
<1>7. ASSUME NEW n \in Conns, Handshake(n) PROVE TailInv'
  <2>1. \A v \in Visitors : job'[v].st \notin Compressing
    BY <1>7 DEF Handshake, Opened
  <2> QED BY <2>1 DEF TailInv, TailsHeld
<1>8. ASSUME NEW n \in Conns, Loss(n) PROVE TailInv'
  <2>1. UNCHANGED agentVars /\ UNCHANGED <<at, wrapped>>
    BY <1>8 DEF Loss, relayVars
  <2> QED BY <1>1, <2>1 DEF AgentDumb, agentVars
<1>9. ASSUME AgentSteps, UNCHANGED relayVars PROVE TailInv'
  BY <1>9, AgentTails
<1>10. ASSUME UNCHANGED vars PROVE TailInv'
  BY <1>1, <1>10 DEF vars, agentVars, relayVars, AgentDumb
<1> QED BY <1>3, <1>4, <1>5, <1>6, <1>7, <1>8, <1>9, <1>10 DEF Next

LEMMA TalkInvariance ==
  ASSUME Redials = FALSE, NothingSealed, PromptClose
  PROVE  Spec => [](AllInv /\ TalkInv /\ TailInv)
<1>1. Init => AllInv /\ TalkInv /\ TailInv
  <2>1. Init => TailInv
    BY DEF Init, AgentInit, TailInv, TailsHeld
  <2> QED BY <2>1, InitType, InitRelay, InitAgent, InitTalk DEF AllInv
<1>2. AllInv /\ TalkInv /\ TailInv /\ [Next]_vars => (AllInv /\ TalkInv /\ TailInv)'
  <2> SUFFICES ASSUME AllInv, TalkInv, TailInv, [Next]_vars PROVE AllInv' /\ TalkInv' /\ TailInv'
    OBVIOUS
  <2>1. TypeInv' /\ RelayInv' /\ AgentInv'
    BY StepType, RelayStepKeeps, StepCurrent DEF AllInv
  <2>2. TalkInv' /\ TailInv'
    BY StepTalks, StepTails
  <2> QED BY <2>1, <2>2 DEF AllInv
<1> QED BY <1>1, <1>2, PTL DEF Spec

\* Until an id allocator wraps, nobody gets to see what was said for somebody
\* else: responses, browser sockets, local requests and local sockets carry what
\* was said under their own id only, over any number of connections, when no
\* request is sealed (a sealed one out to dsh outlives its table entry), the
\* agent never redials next to a socket that still delivers, and a local socket
\* told to close is closed, and a compressor empty, before the next one opens.
THEOREM StreamsNeverMix ==
  ASSUME Redials = FALSE, NothingSealed, PromptClose
  PROVE  Spec => [](~wrapped => NoCrossTalk)
<1>1. AllInv /\ TalkInv => (~wrapped => NoCrossTalk)
  BY DEF TalkInv
<1> QED BY <1>1, TalkInvariance, PTL

-----------------------------------------------------------------------------
(* The work done for a visitor at the agent: from the moment its request is *)
(* sent until dsh's answer is over.                                        *)

HeadOf(f, v)    == f.t = "req_head" /\ f.who = v
OnTheWay(v)     == \E n \in Conns : \E i \in 1..Len(down[n]) : HeadOf(down[n][i], v)
WaitsForDsh(v)  == \E id \in Ids : parked[id] = v
Working(v)      == job[v].st \in AtDsh \/ WaitsForDsh(v) \/ OnTheWay(v)
Workers         == {v \in Visitors : Working(v)}

\* A request is opened once: while its head is in flight nothing is done for it
\* yet, and while it waits for dsh's cookie no local request is made.
LEMMA WorkIsOne ==
  ASSUME AllInv, JobsHeld, ~wrapped, NEW v \in Visitors
  PROVE  /\ OnTheWay(v) => job[v].st \notin AtDsh /\ ~WaitsForDsh(v)
         /\ WaitsForDsh(v) => job[v].st \notin AtDsh
<1>1. v \in Whos /\ v # None /\ NoConn \notin Conns /\ job[v].id \in Ids
  BY WhosAre, Constants, TalkTypes DEF JobSet
<1>2. ASSUME job[v].st \in AtDsh PROVE requests[job[v].id] = v /\ at[v] = Spot(control, job[v].id) /\ control \in Conns
  BY <1>1, <1>2, Owners DEF JobsHeld
<1>3. ASSUME NEW id \in Ids, parked[id] = v
      PROVE  at[v] = Spot(control, id) /\ control \in Conns /\ requests[id] = None
  BY <1>1, <1>3, Owners
<1>4. ASSUME OnTheWay(v) PROVE job[v].st \notin AtDsh /\ ~WaitsForDsh(v)
  <2>0. PICK n \in Conns : \E i \in 1..Len(down[n]) : HeadOf(down[n][i], v)
    BY <1>4 DEF OnTheWay
  <2>1. PICK i \in 1..Len(down[n]) : HeadOf(down[n][i], v)
    BY <2>0
  <2>2. down[n][i] \in DownFrames
    BY <2>1 DEF AllInv, TypeInv, DownOK
  <2>3. down[n][i].t = "req_head" /\ down[n][i].id \in Ids /\ at[v] = Spot(n, down[n][i].id)
    BY <2>1, <2>2 DEF HeadOf, AllInv, AgentInv, DownPlaced, Placed, DownFrames, FrameSet
  <2>4. n = control => Free(down[n][i].id)
    BY <2>3 DEF AllInv, AgentInv, Unopened
  <2>5. job[v].st \notin AtDsh
    BY <1>1, <1>2, <2>3, <2>4, SpotsDiffer DEF Free
  <2>6. ASSUME NEW id \in Ids, parked[id] = v PROVE FALSE
    BY <1>1, <1>3, <2>3, <2>4, <2>6, SpotsDiffer DEF Free
  <2> QED BY <2>5, <2>6 DEF WaitsForDsh
<1>5. ASSUME WaitsForDsh(v), job[v].st \in AtDsh PROVE FALSE
  <2>1. PICK id \in Ids : parked[id] = v
    BY <1>5 DEF WaitsForDsh
  <2> QED BY <1>1, <1>2, <1>3, <1>5, <2>1, SpotsDiffer
<1> QED BY <1>4, <1>5

\* The frames in flight to the agent, as they are taken and as they are sent.
LEMMA TakenHeads ==
  ASSUME Lagging, NEW v
  PROVE  OnTheWay(v)' => OnTheWay(v)
BY DEF Lagging, OnTheWay, HeadOf

LEMMA PostedFrames ==
  ASSUME DownOK, NEW n, NEW fs \in Seq(DownFrames), down' = down \/ down' = Posted(down, n, fs), NEW m \in Conns
  PROVE  /\ \A i \in 1..Len(down'[m]) :
              \/ i \in 1..Len(down[m]) /\ down'[m][i] = down[m][i]
              \/ m = n /\ \E k \in 1..Len(fs) : i = Len(down[m]) + k /\ down'[m][i] = fs[k]
         /\ \A i \in 1..Len(down[m]) : i \in 1..Len(down'[m]) /\ down'[m][i] = down[m][i]
<1>1. CASE down' = down
  BY <1>1
<1>2. CASE down' = Posted(down, n, fs)
  <2>1. down \in [Conns -> Seq(DownFrames)]
    BY DEF DownOK
  <2>2. /\ \A i \in 1..Len(Posted(down, n, fs)[m]) :
              \/ i \in 1..Len(down[m]) /\ Posted(down, n, fs)[m][i] = down[m][i]
              \/ m = n /\ \E k \in 1..Len(fs) : i = Len(down[m]) + k /\ Posted(down, n, fs)[m][i] = fs[k]
        /\ \A i \in 1..Len(down[m]) : i \in 1..Len(Posted(down, n, fs)[m]) /\ Posted(down, n, fs)[m][i] = down[m][i]
    BY <2>1, Appended
  <2> QED BY <1>2, <2>2
<1> QED BY <1>1, <1>2

LEMMA PostedHeads ==
  ASSUME DownOK, NEW n, NEW fs \in Seq(DownFrames), down' = down \/ down' = Posted(down, n, fs),
         NEW v, \A k \in 1..Len(fs) : ~HeadOf(fs[k], v)
  PROVE  OnTheWay(v)' => OnTheWay(v)
<1> SUFFICES ASSUME NEW m \in Conns, NEW i \in 1..Len(down'[m]), HeadOf(down'[m][i], v) PROVE OnTheWay(v)
  BY DEF OnTheWay, HeadOf
<1>1. \/ i \in 1..Len(down[m]) /\ down'[m][i] = down[m][i]
      \/ \E k \in 1..Len(fs) : down'[m][i] = fs[k]
  BY PostedFrames
<1> QED BY <1>1 DEF OnTheWay

\* An abort for the stream is in flight behind every head of v.
Ahead(n, id, v) ==
  \E i \in 1..Len(down[n]) :
    /\ down[n][i].t = "abort" /\ down[n][i].id = id
    /\ \A j \in 1..Len(down[n]) : HeadOf(down[n][j], v) => j < i

LEMMA PostedAhead ==
  ASSUME DownOK, NEW n, NEW fs \in Seq(DownFrames), down' = down \/ down' = Posted(down, n, fs),
         NEW v, \A k \in 1..Len(fs) : ~HeadOf(fs[k], v), NEW m \in Conns, NEW id, Ahead(m, id, v)
  PROVE  Ahead(m, id, v)'
<1>1. PICK i \in 1..Len(down[m]) :
        /\ down[m][i].t = "abort" /\ down[m][i].id = id
        /\ \A j \in 1..Len(down[m]) : HeadOf(down[m][j], v) => j < i
  BY DEF Ahead
<1>2. i \in 1..Len(down'[m]) /\ down'[m][i] = down[m][i]
  BY PostedFrames
<1>3. ASSUME NEW j \in 1..Len(down'[m]), HeadOf(down'[m][j], v) PROVE j < i
  <2>1. j \in 1..Len(down[m]) /\ down'[m][j] = down[m][j]
    BY <1>3, PostedFrames
  <2> QED BY <1>1, <1>3, <2>1
<1>4. \A j \in 1..Len(down'[m]) : HeadOf(down'[m][j], v) => j < i
  BY <1>3
<1> QED BY <1>1, <1>2, <1>4 DEF Ahead, HeadOf

LEMMA AbortPosted ==
  ASSUME DownOK, NEW n \in Conns, wire[n] = "up", NEW g \in DownFrames, g.t = "abort",
         down' = Posted(down, n, <<g>>), NEW v
  PROVE  Ahead(n, g.id, v)'
<1> DEFINE L == Len(down[n])
<1>1. down[n] \in Seq(DownFrames) /\ down'[n] = down[n] \o <<g>>
  BY DEF DownOK, Posted
<1>2. /\ Len(down'[n]) = L + 1 /\ L \in Nat /\ down'[n][L + 1] = g
  BY <1>1
<1>3. \A j \in 1..Len(down'[n]) : j # L + 1 => j < L + 1
  BY <1>2
<1>4. L + 1 \in 1..Len(down'[n])
  BY <1>2
<1> HIDE DEF L
<1>5. \A j \in 1..Len(down'[n]) : HeadOf(down'[n][j], v) => j < L + 1
  BY <1>2, <1>3 DEF HeadOf
<1> QED BY <1>2, <1>4, <1>5 DEF Ahead, HeadOf

LEMMA TakenAhead ==
  ASSUME DownOK, NEW m \in Conns, down[m] # << >>, down' = [down EXCEPT ![m] = Tail(@)],
         NEW n \in Conns, NEW id, NEW v, Ahead(n, id, v)
  PROVE  \/ Ahead(n, id, v)'
         \/ /\ m = n /\ Head(down[m]).t = "abort" /\ Head(down[m]).id = id
            /\ \A j \in 1..Len(down'[n]) : ~HeadOf(down'[n][j], v)
<1>1. PICK i \in 1..Len(down[n]) :
        /\ down[n][i].t = "abort" /\ down[n][i].id = id
        /\ \A j \in 1..Len(down[n]) : HeadOf(down[n][j], v) => j < i
  BY DEF Ahead
<1>2. CASE m # n
  <2>1. down'[n] = down[n]
    BY <1>2 DEF DownOK
  <2> QED BY <1>1, <2>1 DEF Ahead
<1>3. CASE m = n
  <2>1. /\ \A j \in 1..Len(down'[n]) : j + 1 \in 1..Len(down[n]) /\ down'[n][j] = down[n][j + 1]
        /\ down[n][1] = Head(down[n])
    BY <1>3, TailLags
  <2>2. \A j \in 1..Len(down'[n]) : HeadOf(down'[n][j], v) => j + 1 < i
    BY <1>1, <2>1
  <2>3. CASE i = 1
    BY <1>1, <1>3, <2>1, <2>2, <2>3
  <2>4. CASE i # 1
    <3>1. down[n] \in Seq(DownFrames) /\ down'[n] = Tail(down[n])
      BY <1>3 DEF DownOK
    <3>2. Len(down'[n]) = Len(down[n]) - 1 /\ Len(down[n]) \in Nat
      BY <1>3, <3>1, HeadTailProperties, LenProperties
    <3> DEFINE k == i - 1
    <3>3. k \in 1..Len(down'[n]) /\ k + 1 = i
      BY <2>4, <3>2
    <3>4. \A j \in 1..Len(down'[n]) : j + 1 < i => j < k
      OBVIOUS
    <3> HIDE DEF k
    <3>5. down'[n][k] = down[n][i]
      BY <2>1, <3>3
    <3>6. \A j \in 1..Len(down'[n]) : HeadOf(down'[n][j], v) => j < k
      BY <2>2, <3>4
    <3>7. down'[n][k].t = "abort" /\ down'[n][k].id = id
      BY <1>1, <3>5
    <3>8. \E x \in 1..Len(down'[n]) :
            /\ down'[n][x].t = "abort" /\ down'[n][x].id = id
            /\ \A j \in 1..Len(down'[n]) : HeadOf(down'[n][j], v) => j < x
      BY <3>3, <3>6, <3>7
    <3> QED BY <3>8 DEF Ahead, HeadOf
  <2> QED BY <2>3, <2>4
<1> QED BY <1>2, <1>3

-----------------------------------------------------------------------------
(* Ended work.  Whatever ends a response that the agent still works for    *)
(* makes the relay send an abort behind everything the agent has yet to    *)
(* read about it; and what ends a response from the agent's side is said   *)
(* when the agent's work for it is over.                                   *)

Final(places, workers, n) ==
  {f \in FrameSet : f.t \in {"abort", "res_end"} =>
                      f.who \in Visitors /\ places[f.who] = Spot(n, f.id) /\ f.who \notin workers}
Settled == \A n \in Conns : up[n] \in Seq(Final(at, Workers, n))

OpenWire(n) == n \in Conns /\ rst[n] = "open" /\ wire[n] = "up"
CalledOff(v) == at[v].conn = NoConn \/ ~OpenWire(at[v].conn) \/ v \notin Workers \/ Ahead(at[v].conn, at[v].id, v)
AllCalledOff == \A v \in Visitors : pub[v] \in Ended => CalledOff(v)

Admitted == \A w \in Whos : at[w].conn # NoConn => rst[at[w].conn] \in {"open", "closing", "closed"}

\* A compressor is all that is left of its request.
TailsIdle == \A v \in Visitors : job[v].st \in Compressing => v \notin Workers /\ at[v].conn # NoConn

EndInv == Admitted /\ (~wrapped => Settled /\ AllCalledOff /\ TailsIdle)

LEMMA InitEnds == Init => EndInv
<1> SUFFICES ASSUME Init PROVE EndInv
  OBVIOUS
<1>1. \A w \in Whos : at[w].conn = NoConn
  BY DEF Init, RelayInit, NoPlace
<1>2. \A n \in Conns : up[n] = << >>
  BY DEF Init, WireInit
<1>3. Settled
  BY <1>2, EmptySeq DEF Settled
<1>4. AllCalledOff /\ Admitted
  BY <1>1, WhosAre DEF AllCalledOff, CalledOff, Admitted
<1>5. TailsIdle
  BY DEF Init, AgentInit, TailsIdle, NoJob, Compressing
<1> QED BY <1>3, <1>4, <1>5 DEF EndInv

\* Nobody is moved, and nobody who has a place gets new work done.
PlacesStay == \A w \in Whos : at[w].conn # NoConn => at'[w] = at[w]
NoNewWork  == \A v \in Visitors : v \in Workers' => at[v].conn = NoConn \/ v \in Workers

LEMMA SettledKeeps ==
  ASSUME Settled, PlacesStay, NoNewWork, UpShrinks
  PROVE  Settled'
<1> SUFFICES ASSUME NEW n \in Conns PROVE up'[n] \in Seq(Final(at', Workers', n))
  BY DEF Settled
<1> DEFINE S == Final(at, Workers, n)
           T == Final(at', Workers', n)
<1>1. S \subseteq T
  <2> SUFFICES ASSUME NEW f \in S, f.t \in {"abort", "res_end"}
               PROVE  f.who \in Visitors /\ at'[f.who] = Spot(n, f.id) /\ f.who \notin Workers'
    BY DEF Final
  <2>1. f.who \in Visitors /\ at[f.who] = Spot(n, f.id) /\ f.who \notin Workers /\ f.who \in Whos
    BY WhosAre DEF Final
  <2>2. at[f.who].conn # NoConn
    BY <2>1, Constants DEF Spot
  <2> QED BY <2>1, <2>2 DEF PlacesStay, NoNewWork
<1>2. up[n] \in Seq(S)
  BY DEF Settled
<1> HIDE DEF S, T
<1>3. up[n] # << >> => Tail(up[n]) \in Seq(S)
  BY <1>2
<1>4. up'[n] \in Seq(S)
  BY <1>2, <1>3, EmptySeq DEF UpShrinks
<1>5. up'[n] \in Seq(T)
  BY <1>1, <1>4, SeqGrows
<1> QED BY <1>5 DEF T

LEMMA SettledSpeaks ==
  ASSUME TypeInv, Settled, UNCHANGED at, NoNewWork, NEW fs, AgentSend(fs),
         control \in Conns /\ asock[control] = "open" => fs \in Seq(Final(at, Workers', control))
  PROVE  Settled'
<1>1. up \in [Conns -> Seq(FrameSet)] /\ control \in Conns \cup {NoConn}
  BY DEF TypeInv, UpOK, AgentTypeOK
<1>2. ASSUME NEW n \in Conns PROVE up[n] \in Seq(Final(at, Workers', n))
  <2> DEFINE S == Final(at, Workers, n)
             T == Final(at, Workers', n)
  <2>1. S \subseteq T
    <3> SUFFICES ASSUME NEW f \in S, f.t \in {"abort", "res_end"}
                 PROVE  f.who \in Visitors /\ at[f.who] = Spot(n, f.id) /\ f.who \notin Workers'
      BY DEF Final
    <3>1. f.who \in Visitors /\ at[f.who] = Spot(n, f.id) /\ f.who \notin Workers
      BY DEF Final
    <3>2. at[f.who].conn # NoConn
      BY <3>1, Constants DEF Spot
    <3> QED BY <3>1, <3>2 DEF NoNewWork
  <2>2. up[n] \in Seq(S)
    BY DEF Settled
  <2> HIDE DEF S, T
  <2>3. up[n] \in Seq(T)
    BY <2>1, <2>2, SeqGrows
  <2> QED BY <2>3 DEF T
<1>3. CASE up' = up
  BY <1>2, <1>3 DEF Settled
<1>4. CASE /\ control \in Conns /\ asock[control] = "open"
           /\ up' = [up EXCEPT ![control] = @ \o fs]
  <2> SUFFICES ASSUME NEW n \in Conns PROVE up'[n] \in Seq(Final(at, Workers', n))
    BY DEF Settled
  <2>1. CASE n = control
    <3> DEFINE S == Final(at, Workers', control)
    <3>1. up[control] \in Seq(S) /\ fs \in Seq(S)
      BY <1>2, <1>4
    <3>2. up'[control] = up[control] \o fs
      BY <1>1, <1>4
    <3> HIDE DEF S
    <3>3. up[control] \o fs \in Seq(S)
      BY <3>1
    <3> QED BY <2>1, <3>2, <3>3 DEF S
  <2>2. CASE n # control
    BY <1>1, <1>2, <1>4, <2>2
  <2> QED BY <2>1, <2>2
<1> QED BY <1>1, <1>3, <1>4 DEF AgentSend, Posted

\* The steps of the relay's side, by what they send and whom they end.
RelayAdmits ==
  /\ \A m \in Conns : rst[m] \in {"open", "closing", "closed"} => rst'[m] \in {"open", "closing", "closed"}
  /\ \A w \in Whos : at'[w] = at[w] \/ (at'[w].conn = routed /\ routed # NoConn)

LEMMA AdmittedKeeps ==
  ASSUME AllInv, Admitted, RelayAdmits
  PROVE  Admitted'
<1> SUFFICES ASSUME NEW w \in Whos, at'[w].conn # NoConn PROVE rst'[at'[w].conn] \in {"open", "closing", "closed"}
  BY DEF Admitted
<1>1. at[w].conn \in Conns \cup {NoConn} /\ routed \in Conns \cup {NoConn}
  BY DEF AllInv, TypeInv, RelayTypeOK
<1>2. routed # NoConn => rst[routed] \in {"open", "closing"}
  BY DEF AllInv, RelayInv, RoutedIsLive, Live
<1> QED BY <1>1, <1>2 DEF Admitted, RelayAdmits

OpensNobody == \A m \in Conns : OpenWire(m)' => OpenWire(m) \/ \A w \in Whos : at[w].conn # m

LEMMA RelayEnds ==
  ASSUME AllInv, EndInv, UNCHANGED <<job, parked>>, wrapped => wrapped',
         PlacesStay, RelayAdmits, OpensNobody, UpShrinks,
         NEW n, NEW fs \in Seq(DownFrames), down' = down \/ down' = Posted(down, n, fs),
         \A k \in 1..Len(fs) : fs[k].t = "req_head" => at[fs[k].who].conn = NoConn,
         \A v \in Visitors : ~wrapped /\ pub'[v] \in Ended =>
           pub[v] \in Ended \/ (at[v].conn = NoConn /\ at'[v] = at[v]) \/ (at[v].conn # NoConn /\ CalledOff(v)'),
         \A v \in Visitors : pub[v] \in Ended => at'[v] = at[v]
  PROVE  EndInv'
<1>1. Admitted'
  BY AdmittedKeeps DEF EndInv
<1>2. SUFFICES ASSUME ~wrapped PROVE Settled' /\ AllCalledOff' /\ TailsIdle'
  BY <1>1 DEF EndInv
<1>3. Settled /\ AllCalledOff /\ TailsIdle /\ DownOK
  BY <1>2 DEF EndInv, AllInv, TypeInv
<1>4. ASSUME NEW v \in Visitors, at[v].conn # NoConn PROVE \A k \in 1..Len(fs) : ~HeadOf(fs[k], v)
  BY <1>4 DEF HeadOf
<1>5. ASSUME NEW v \in Visitors, at[v].conn # NoConn, v \in Workers' PROVE v \in Workers
  <2>1. OnTheWay(v)' => OnTheWay(v)
    BY <1>3, <1>4, <1>5, PostedHeads
  <2>2. job'[v] = job[v] /\ (WaitsForDsh(v)' <=> WaitsForDsh(v))
    BY DEF WaitsForDsh
  <2> QED BY <1>5, <2>1, <2>2 DEF Workers, Working
<1>6. NoNewWork
  BY <1>5 DEF NoNewWork
<1>7. Settled'
  BY <1>3, <1>6, SettledKeeps
<1>8. ASSUME NEW v \in Visitors, pub'[v] \in Ended PROVE CalledOff(v)'
  <2>1. CASE at[v].conn = NoConn
    BY <1>2, <1>8, <2>1 DEF CalledOff
  <2>2. CASE at[v].conn # NoConn /\ pub[v] \in Ended
    <3>1. CalledOff(v) /\ at'[v] = at[v] /\ at[v].conn \in Conns
      BY <1>3, <2>2, WhosAre, PlaceType DEF AllCalledOff, AllInv, TypeInv
    <3>2. \A m \in Conns : at[v].conn = m /\ OpenWire(m)' => OpenWire(m)
      BY <2>2, <3>1, WhosAre DEF OpensNobody
    <3>3. \A k \in 1..Len(fs) : ~HeadOf(fs[k], v)
      BY <1>4, <2>2
    <3>4. ASSUME NEW m \in Conns, NEW id, Ahead(m, id, v) PROVE Ahead(m, id, v)'
      BY <1>3, <3>3, <3>4, PostedAhead
    <3>5. ASSUME NEW m \in Conns, NEW id, at[v].conn = m, at[v].id = id PROVE CalledOff(v)'
      <4>1. at'[v].conn = m /\ at'[v].id = id
        BY <3>1, <3>5
      <4>2. v \in Workers' => v \in Workers
        BY <1>5, <2>2
      <4>3. CASE ~OpenWire(m)
        <5>1. ~OpenWire(m)'
          BY <3>2, <3>5, <4>3
        <5> QED BY <4>1, <5>1 DEF CalledOff, OpenWire
      <4>4. CASE v \notin Workers
        BY <4>2, <4>4 DEF CalledOff
      <4>5. CASE Ahead(m, id, v)
        <5>1. Ahead(m, id, v)'
          BY <3>4, <4>5
        <5> QED BY <4>1, <5>1 DEF CalledOff, Ahead
      <4> QED BY <2>2, <3>1, <3>5, <4>3, <4>4, <4>5 DEF CalledOff
    <3> QED BY <3>1, <3>5
  <2> QED BY <1>2, <1>8, <2>1, <2>2
<1>9. TailsIdle'
  <2> SUFFICES ASSUME NEW v \in Visitors, job'[v].st \in Compressing PROVE v \notin Workers' /\ at'[v].conn # NoConn
    BY DEF TailsIdle
  <2>1. v \notin Workers /\ at[v].conn # NoConn /\ v \in Whos
    BY <1>3, WhosAre DEF TailsIdle
  <2> QED BY <1>5, <2>1 DEF PlacesStay
<1> QED BY <1>7, <1>8, <1>9 DEF AllCalledOff

LEMMA SendEnds ==
  ASSUME AllInv, EndInv, UNCHANGED <<job, parked, at, rst, routed, wire, wrapped>>, UpShrinks,
         NEW n, NEW g \in DownFrames, g.t # "req_head", down' = down \/ down' = Posted(down, n, <<g>>),
         \A v \in Visitors : ~wrapped /\ pub'[v] \in Ended =>
           pub[v] \in Ended \/ (at[v].conn # NoConn /\ CalledOff(v)')
  PROVE  EndInv'
<1>1. <<g>> \in Seq(DownFrames) /\ Len(<<g>>) = 1 /\ <<g>>[1] = g
  OBVIOUS
<1>2. \A k \in 1..Len(<<g>>) : <<g>>[k].t # "req_head"
  BY <1>1
<1>3. PlacesStay /\ RelayAdmits /\ OpensNobody /\ (wrapped => wrapped')
  BY DEF PlacesStay, RelayAdmits, OpensNobody, OpenWire
<1>4. \A v \in Visitors : pub[v] \in Ended => at'[v] = at[v]
  OBVIOUS
<1>5. UNCHANGED <<job, parked>>
  OBVIOUS
<1> QED BY <1>1, <1>2, <1>3, <1>4, <1>5, RelayEnds

\* Nothing is sent, and whatever is ended loses its connection with it.
LEMMA MuteEnds ==
  ASSUME AllInv, EndInv, UNCHANGED <<job, parked, at, wrapped, down>>, UpShrinks,
         \A m \in Conns : rst[m] \in {"open", "closing", "closed"} => rst'[m] \in {"open", "closing", "closed"},
         OpensNobody,
         \A v \in Visitors : ~wrapped /\ pub'[v] \in Ended =>
           pub[v] \in Ended \/ (at[v].conn # NoConn /\ CalledOff(v)')
  PROVE  EndInv'
<1>1. << >> \in Seq(DownFrames) /\ Len(<< >>) = 0
  BY EmptySeq
<1>2. PlacesStay /\ RelayAdmits /\ (wrapped => wrapped')
  BY DEF PlacesStay, RelayAdmits
<1>3. /\ \A k \in 1..Len(<< >>) : << >>[k].t = "req_head" => at[<< >>[k].who].conn = NoConn
      /\ \A v \in Visitors : pub[v] \in Ended => at'[v] = at[v]
      /\ UNCHANGED <<job, parked>>
  BY <1>1
<1> QED BY <1>1, <1>2, <1>3, RelayEnds

LEMMA StillWorkers == ASSUME UNCHANGED <<job, parked, down>> PROVE Workers' = Workers
BY DEF Workers, Working, OnTheWay, WaitsForDsh

LEMMA AbortCallsOff ==
  ASSUME AllInv, UNCHANGED <<at, rst, wire>>, NEW v \in Visitors, NEW g \in DownFrames, g.t = "abort",
         g.id = at[v].id, RelaySend(at[v].conn, <<g>>)
  PROVE  CalledOff(v)'
<1>1. ASSUME NEW m \in Conns, at[v].conn = m, OpenWire(m) PROVE CalledOff(v)'
  <2>1. down' = Posted(down, m, <<g>>) /\ wire[m] = "up" /\ DownOK
    BY <1>1 DEF RelaySend, OpenWire, AllInv, TypeInv
  <2>2. Ahead(m, g.id, v)'
    BY <2>1, AbortPosted
  <2>3. at'[v].conn = m /\ at'[v].id = g.id
    BY <1>1
  <2> QED BY <2>2, <2>3 DEF CalledOff, Ahead
<1>2. ASSUME NEW m, at[v].conn = m, ~OpenWire(m) PROVE CalledOff(v)'
  BY <1>2 DEF CalledOff, OpenWire
<1>3. OpenWire(at[v].conn) => at[v].conn \in Conns
  BY DEF OpenWire
<1> QED BY <1>1, <1>2, <1>3

LEMMA PublicEndsWork ==
  ASSUME AllInv, EndInv, UNCHANGED agentVars,
         \/ \E v \in Visitors : RequestEnd(v) \/ RequestError(v) \/ ClientClose(v)
         \/ \E b \in Browsers : BrowserMessage(b) \/ BrowserClose(b)
  PROVE  EndInv'
<1>0. UNCHANGED <<job, parked>>
  BY DEF agentVars
<1>1. pub \in [Visitors -> PubSet]
  BY DEF AllInv, TypeInv, RelayTypeOK, PubSet
<1>2. ASSUME UNCHANGED <<at, rst, routed, wire, wrapped, up, pub>>, NEW n, NEW g \in DownFrames, g.t # "req_head",
             RelaySend(n, <<g>>) \/ UNCHANGED down
      PROVE  EndInv'
  <2>1. UpShrinks /\ (down' = down \/ down' = Posted(down, n, <<g>>))
    BY <1>2 DEF UpShrinks, RelaySend
  <2>2. \A v \in Visitors : pub'[v] \in Ended => pub[v] \in Ended
    BY <1>2
  <2> QED BY <1>0, <1>2, <2>1, <2>2, SendEnds
<1>3. ASSUME NEW w \in Whos
      PROVE  /\ at[w].id \in Ids /\ w \in Whos \cup {None}
             /\ Ctl("abort", at[w].id, w) \in DownFrames /\ Ctl("ws_close", at[w].id, w) \in DownFrames
             /\ w \in Visitors => Ctl("req_end", at[w].id, w) \in DownFrames
             /\ w \in Browsers => Data("ws_msg", at[w].id, w, 0) \in DownFrames
  <2>1. at[w].id \in Ids
    BY PlaceType DEF AllInv, TypeInv
  <2> QED BY <2>1, DownType
<1>4. ASSUME NEW v \in Visitors, RequestEnd(v) PROVE EndInv'
  <2>1. Ctl("req_end", at[v].id, v) \in DownFrames /\ Ctl("req_end", at[v].id, v).t # "req_head"
    BY <1>3, WhosAre DEF Ctl
  <2> QED BY <1>2, <1>4, <2>1 DEF RequestEnd
<1>5. ASSUME NEW v \in Visitors, RequestError(v) PROVE EndInv'
  <2>1. Ctl("abort", at[v].id, v) \in DownFrames /\ Ctl("abort", at[v].id, v).t # "req_head"
    BY <1>3, WhosAre DEF Ctl
  <2> QED BY <1>2, <1>5, <2>1 DEF RequestError
<1>6. ASSUME NEW b \in Browsers, BrowserMessage(b) PROVE EndInv'
  <2>1. Data("ws_msg", at[b].id, b, 0) \in DownFrames /\ Data("ws_msg", at[b].id, b, 0).t # "req_head"
    BY <1>3, WhosAre DEF Data
  <2> QED BY <1>2, <1>6, <2>1 DEF BrowserMessage, relayVars
<1>7. ASSUME NEW b \in Browsers, BrowserClose(b) PROVE EndInv'
  <2>1. Ctl("ws_close", at[b].id, b) \in DownFrames /\ Ctl("ws_close", at[b].id, b).t # "req_head"
    BY <1>3, WhosAre DEF Ctl
  <2> QED BY <1>2, <1>7, <2>1 DEF BrowserClose
<1>8. ASSUME NEW v \in Visitors, ClientClose(v) PROVE EndInv'
  <2> DEFINE g == Ctl("abort", at[v].id, v)
  <2>1. g \in DownFrames /\ g.t = "abort" /\ g.id = at[v].id /\ v # None
    BY <1>3, WhosAre DEF Ctl
  <2> HIDE DEF g
  <2>2. /\ pub[v] \in Pending /\ pub' = [pub EXCEPT ![v] = "gone"]
        /\ UNCHANGED <<at, rst, routed, wire, wrapped, up>>
        /\ IF responses[at[v].conn][at[v].id] # None THEN RelaySend(at[v].conn, <<g>>) ELSE UNCHANGED down
    BY <1>8 DEF ClientClose, g
  <2>3. UpShrinks /\ (down' = down \/ down' = Posted(down, at[v].conn, <<g>>))
    BY <2>2 DEF UpShrinks, RelaySend
  <2>4. ASSUME ~wrapped PROVE at[v].conn # NoConn /\ CalledOff(v)'
    <3>1. at[v].conn # NoConn /\ responses[at[v].conn][at[v].id] = v
      BY <2>2, <2>4 DEF AllInv, RelayInv, Present
    <3>2. RelaySend(at[v].conn, <<g>>)
      BY <2>1, <2>2, <3>1
    <3> QED BY <2>1, <2>2, <3>1, <3>2, AbortCallsOff
  <2>5. \A x \in Visitors : ~wrapped /\ pub'[x] \in Ended => pub[x] \in Ended \/ (at[x].conn # NoConn /\ CalledOff(x)')
    BY <1>1, <2>2, <2>4
  <2>6. g.t # "req_head"
    BY <2>1
  <2> QED BY <1>0, <2>1, <2>2, <2>3, <2>5, <2>6, SendEnds
<1> QED BY <1>4, <1>5, <1>6, <1>7, <1>8

LEMMA TimeoutEndsWork ==
  ASSUME AllInv, EndInv, UNCHANGED agentVars, NEW n \in Conns, NEW id \in Ids, IdleTimeout(n, id)
  PROVE  EndInv'
<1> DEFINE g == Ctl("abort", id, None)
           r == responses[n][id]
<1>1. g \in DownFrames /\ g.t = "abort" /\ g.id = id
  BY DownType DEF Ctl
<1> HIDE DEF g
<1>2. /\ pub \in [Visitors -> PubSet] /\ r \in Visitors \cup {None}
      /\ UNCHANGED <<job, parked>>
  BY DEF AllInv, TypeInv, RelayTypeOK, PubSet, agentVars
<1>3. /\ pub' = IF r = None THEN pub ELSE [pub EXCEPT ![r] = WrittenOff(@)]
      /\ UNCHANGED <<at, rst, routed, wire, wrapped, up>> /\ RelaySend(n, <<g>>)
  BY DEF IdleTimeout, g
<1>4. UpShrinks /\ (down' = down \/ down' = Posted(down, n, <<g>>))
  BY <1>3 DEF UpShrinks, RelaySend
<1>5. ASSUME NEW x \in Visitors, r = x PROVE at[x].conn # NoConn /\ CalledOff(x)'
  <2>1. x # None
    BY WhosAre
  <2>2. at[x] = Spot(n, id)
    BY <1>5, <2>1 DEF AllInv, RelayInv, Entered
  <2>3. at[x].conn = n /\ at[x].id = id /\ n # NoConn
    BY <2>2, Constants DEF Spot
  <2> QED BY <1>1, <1>3, <2>3, AbortCallsOff
<1>6. ASSUME NEW x \in Visitors, pub'[x] \in Ended PROVE pub[x] \in Ended \/ (at[x].conn # NoConn /\ CalledOff(x)')
  <2>1. pub'[x] = pub[x] \/ r = x
    BY <1>2, <1>3
  <2> QED BY <1>5, <1>6, <2>1
<1>7. g.t # "req_head"
  BY <1>1
<1> QED BY <1>1, <1>2, <1>3, <1>4, <1>6, <1>7, SendEnds

LEMMA LossEndsWork ==
  ASSUME AllInv, EndInv, UNCHANGED <<job, parked>>, NEW n \in Conns,
         Admit(n) \/ Terminate(n) \/ CloseEvent(n) \/ Loss(n) \/ Handshake(n)
  PROVE  EndInv'
<1>0. /\ rst \in [Conns -> RelayStates] /\ wire \in [Conns -> {"up", "down"}] /\ up \in [Conns -> Seq(FrameSet)]
      /\ responses \in [Conns -> [Ids -> Visitors \cup {None}]] /\ routed \in Conns \cup {NoConn}
      /\ pub \in [Visitors -> PubSet]
  BY DEF AllInv, TypeInv, WireOK, UpOK, RelayTypeOK, PubSet
<1>1. UNCHANGED <<at, wrapped, down>>
  BY DEF Admit, Terminate, CloseEvent, Loss, Lose, Handshake, Accept, Opened, relayVars
<1>2. UNCHANGED up => UpShrinks
  BY DEF UpShrinks
<1>3. CASE Admit(n)
  <2>1. /\ rst[n] = "handshake" /\ UNCHANGED <<pub, up>>
        /\ \A m \in Conns : rst'[m] = IF m = n THEN "open" ELSE IF m = routed THEN "closing" ELSE rst[m]
        /\ \A m \in Conns : wire'[m] = IF m = routed THEN "down" ELSE wire[m]
    BY <1>3 DEF Admit
  <2>2. \A w \in Whos : at[w].conn # n
    BY <2>1, Constants DEF EndInv, Admitted
  <2>3. OpensNobody
    BY <2>1, <2>2 DEF OpensNobody, OpenWire
  <2>4. \A m \in Conns : rst[m] \in {"open", "closing", "closed"} => rst'[m] \in {"open", "closing", "closed"}
    BY <2>1
  <2> QED BY <1>1, <1>2, <2>1, <2>3, <2>4, MuteEnds
<1>4. CASE Terminate(n) \/ Loss(n) \/ Handshake(n)
  <2>1. /\ UNCHANGED <<pub, up>>
        /\ \/ rst' = rst
           \/ rst[n] = "none" /\ rst' = [rst EXCEPT ![n] = "handshake"]
           \/ rst[n] = "open" /\ rst' = [rst EXCEPT ![n] = "closing"]
        /\ wire' = wire \/ wire' = [wire EXCEPT ![n] = "down"]
    BY <1>4 DEF Terminate, Loss, Lose, Handshake, Accept, Opened, relayVars
  <2>2. OpensNobody
    BY <1>0, <2>1 DEF OpensNobody, OpenWire
  <2>3. \A m \in Conns : rst[m] \in {"open", "closing", "closed"} => rst'[m] \in {"open", "closing", "closed"}
    BY <1>0, <2>1
  <2> QED BY <1>1, <1>2, <2>1, <2>2, <2>3, MuteEnds
<1>5. CASE CloseEvent(n)
  <2>1. /\ rst' = [rst EXCEPT ![n] = "closed"] /\ up' = [up EXCEPT ![n] = << >>] /\ UNCHANGED wire
        /\ pub' = [v \in Visitors |-> IF v \in BridgedResponses(n) THEN WrittenOff(pub[v]) ELSE pub[v]]
    BY <1>5 DEF CloseEvent, Cleanup
  <2>2. UpShrinks
    BY <1>0, <2>1 DEF UpShrinks
  <2>3. OpensNobody
    BY <1>0, <2>1 DEF OpensNobody, OpenWire
  <2>4. ASSUME NEW v \in Visitors, pub'[v] \in Ended, pub[v] \notin Ended PROVE at[v].conn # NoConn /\ CalledOff(v)'
    <3>1. v \in BridgedResponses(n) /\ v # None
      BY <2>1, <2>4, WhosAre
    <3>2. PICK id \in Ids : responses[n][id] = v
      BY <3>1 DEF BridgedResponses
    <3>5. at[v] = Spot(n, id)
      BY <3>1, <3>2 DEF AllInv, RelayInv, Entered
    <3>3. at[v].conn = n /\ n # NoConn
      BY <3>5, Constants DEF Spot
    <3>4. rst'[n] = "closed" /\ at'[v].conn = n
      BY <1>0, <1>1, <2>1, <3>3
    <3> QED BY <3>3, <3>4 DEF CalledOff, OpenWire
  <2>5. \A m \in Conns : rst[m] \in {"open", "closing", "closed"} => rst'[m] \in {"open", "closing", "closed"}
    BY <1>0, <2>1
  <2> QED BY <1>1, <2>2, <2>3, <2>4, <2>5, MuteEnds
<1> QED BY <1>3, <1>4, <1>5

\* A stream is opened under a place nobody has: what it sends is nobody's head
\* but its own, and nobody's answer ends with it.
LEMMA OpenedEndsWork ==
  ASSUME AllInv, EndInv, UNCHANGED <<job, parked>>, NEW w \in Whos,
         \/ w \in Visitors /\ Request(w)
         \/ w \in Browsers /\ Upgrade(w)
  PROVE  EndInv'
<1>1. /\ at[w].conn = NoConn /\ at \in [Whos -> [conn : Conns \cup {NoConn}, id : Ids]]
      /\ routed \in Conns \cup {NoConn} /\ nextId \in [Conns -> Ids] /\ pub \in [Visitors -> PubSet]
  BY DEF AllInv, AgentInv, Unplaced, Request, Upgrade, TypeInv, RelayTypeOK, PubSet
<1>2. UNCHANGED <<rst, routed, wire, up>>
  BY DEF Request, Upgrade
<1>3. wrapped => wrapped'
  BY Zenon DEF Request, Upgrade
<1>4. at' = at \/ (routed # NoConn /\ at' = [at EXCEPT ![w] = [conn |-> routed, id |-> nextId[routed]]])
  BY DEF Request, Upgrade
<1>5. PlacesStay /\ RelayAdmits
  BY <1>1, <1>2, <1>4 DEF PlacesStay, RelayAdmits
<1>6. OpensNobody /\ UpShrinks
  BY <1>2 DEF OpensNobody, OpenWire, UpShrinks
<1>7. ASSUME NEW v \in Visitors
      PROVE  /\ pub'[v] \in Ended => pub[v] \in Ended \/ (at[v].conn = NoConn /\ at'[v] = at[v])
             /\ pub[v] \in Ended => at'[v] = at[v]
  <2>1. CASE w \in Browsers /\ Upgrade(w)
    <3>1. UNCHANGED pub /\ v # w
      BY <2>1, WhosAre DEF Upgrade
    <3> QED BY <1>1, <1>4, <3>1, WhosAre
  <2>2. CASE w \in Visitors /\ Request(w)
    <3>1. /\ pub[w] = "idle"
          /\ \/ pub' = [pub EXCEPT ![w] = "failed"] /\ at' = at
             \/ pub' = [pub EXCEPT ![w] = "waiting"]
      BY <2>2 DEF Request
    <3>2. "idle" \notin Ended /\ "waiting" \notin Ended
      BY DEF Ended
    <3> QED BY <1>1, <1>4, <3>1, <3>2, WhosAre
  <2> QED BY <2>1, <2>2
<1>8. \E n : \E fs \in Seq(DownFrames) :
        /\ down' = down \/ down' = Posted(down, n, fs)
        /\ \A k \in 1..Len(fs) : fs[k].t = "req_head" => at[fs[k].who].conn = NoConn
  <2>1. CASE UNCHANGED down
    <3>1. << >> \in Seq(DownFrames) /\ Len(<< >>) = 0
      BY EmptySeq
    <3>2. \A k \in 1..Len(<< >>) : << >>[k].t = "req_head" => at[<< >>[k].who].conn = NoConn
      BY <3>1
    <3> QED BY <2>1, <3>1, <3>2
  <2>2. ASSUME routed # NoConn, w \in Browsers, RelaySend(routed, <<Ctl("ws_open", nextId[routed], w)>>)
        PROVE  \E n : \E fs \in Seq(DownFrames) :
                 /\ down' = down \/ down' = Posted(down, n, fs)
                 /\ \A k \in 1..Len(fs) : fs[k].t = "req_head" => at[fs[k].who].conn = NoConn
    <3> DEFINE g == Ctl("ws_open", nextId[routed], w)
    <3>1. g \in DownFrames /\ g.t = "ws_open"
      BY <1>1, <2>2, DownType DEF Ctl
    <3>2. down' = down \/ down' = Posted(down, routed, <<g>>)
      BY <2>2 DEF RelaySend
    <3> HIDE DEF g
    <3>3. <<g>> \in Seq(DownFrames) /\ \A k \in 1..Len(<<g>>) : <<g>>[k].t # "req_head"
      BY <3>1
    <3> QED BY <3>2, <3>3
  <2>3. ASSUME routed # NoConn, w \in Visitors,
               RelaySend(routed, IF w \in Uploads THEN <<Ctl("req_head", nextId[routed], w)>>
                                 ELSE <<Ctl("req_head", nextId[routed], w), Ctl("req_end", nextId[routed], w)>>)
        PROVE  \E n : \E fs \in Seq(DownFrames) :
                 /\ down' = down \/ down' = Posted(down, n, fs)
                 /\ \A k \in 1..Len(fs) : fs[k].t = "req_head" => at[fs[k].who].conn = NoConn
    <3> DEFINE g == Ctl("req_head", nextId[routed], w)
               h == Ctl("req_end", nextId[routed], w)
               fs == IF w \in Uploads THEN <<g>> ELSE <<g, h>>
    <3>1. g \in DownFrames /\ h \in DownFrames /\ g.who = w /\ h.who = w
      BY <1>1, <2>3, DownType DEF Ctl
    <3>2. down' = down \/ down' = Posted(down, routed, fs)
      BY <2>3 DEF RelaySend
    <3> HIDE DEF g, h
    <3>3. <<g>> \in Seq(DownFrames) /\ \A k \in 1..Len(<<g>>) : <<g>>[k].who = w
      BY <3>1
    <3>4. <<g, h>> \in Seq(DownFrames) /\ \A k \in 1..Len(<<g, h>>) : <<g, h>>[k].who = w
      BY <3>1
    <3>5. fs \in Seq(DownFrames) /\ \A k \in 1..Len(fs) : fs[k].who = w
      BY <3>3, <3>4
    <3> HIDE DEF fs
    <3> QED BY <1>1, <3>2, <3>5
  <2> QED BY <2>1, <2>2, <2>3 DEF Request, Upgrade
<1>9. PICK n : \E fs \in Seq(DownFrames) :
        /\ down' = down \/ down' = Posted(down, n, fs)
        /\ \A k \in 1..Len(fs) : fs[k].t = "req_head" => at[fs[k].who].conn = NoConn
  BY <1>8
<1>10. PICK fs \in Seq(DownFrames) :
        /\ down' = down \/ down' = Posted(down, n, fs)
        /\ \A k \in 1..Len(fs) : fs[k].t = "req_head" => at[fs[k].who].conn = NoConn
  BY <1>9
<1>11. UNCHANGED <<job, parked>>
  OBVIOUS
<1> QED BY <1>3, <1>5, <1>6, <1>7, <1>10, <1>11, RelayEnds

\* The frames from the agent.
LEMMA FrameEndsWork ==
  ASSUME AllInv, EndInv, UNCHANGED agentVars, NEW n \in Conns, NEW f \in FrameSet,
         ~wrapped => f \in Final(at, Workers, n),
         OnAgentFrame(n, f), UNCHANGED wire, UpShrinks
  PROVE  EndInv'
<1> DEFINE r == responses[n][f.id]
           g == Ctl("abort", f.id, f.who)
           c == Ctl("ws_close", f.id, sockets[n][f.id])
<1>0. f.id \in Ids /\ f.who \in Whos \cup {None} /\ UNCHANGED <<job, parked>>
  BY DEF FrameSet, agentVars
<1>1. /\ pub \in [Visitors -> PubSet] /\ r \in Visitors \cup {None}
      /\ sockets[n][f.id] \in Browsers \cup {None}
  BY <1>0 DEF AllInv, TypeInv, RelayTypeOK, PubSet
<1>2. UNCHANGED <<at, rst, routed, wire, wrapped>>
  BY DEF OnAgentFrame
<1>3. g \in DownFrames /\ g.t = "abort" /\ g.id = f.id /\ c \in DownFrames /\ c.t = "ws_close"
  <2>1. sockets[n][f.id] \in Whos \cup {None}
    BY <1>1 DEF Whos
  <2> QED BY <1>0, <2>1, DownType DEF Ctl
<1> HIDE DEF g, c
<1>4. ASSUME NEW x \in Visitors, r = x PROVE at[x] = Spot(n, f.id) /\ at[x].conn = n /\ at[x].id = f.id /\ n # NoConn
  <2>1. at[x] = Spot(n, f.id)
    BY <1>0, <1>4, WhosAre DEF AllInv, RelayInv, Entered
  <2> QED BY <2>1, Constants DEF Spot
<1>5. ASSUME NEW h \in DownFrames, h.t # "req_head", down' = down \/ down' = Posted(down, n, <<h>>),
             \A x \in Visitors : ~wrapped /\ r = x /\ pub'[x] \in Ended => CalledOff(x)',
             UNCHANGED pub \/ \E s : pub' = Moved(r, s)
      PROVE  EndInv'
  <2>1. ASSUME NEW x \in Visitors, ~wrapped, pub'[x] \in Ended PROVE pub[x] \in Ended \/ (at[x].conn # NoConn /\ CalledOff(x)')
    <3>1. pub'[x] = pub[x] \/ r = x
      BY <1>1, <1>5 DEF Moved
    <3> QED BY <1>4, <1>5, <2>1, <3>1
  <2> QED BY <1>0, <1>2, <1>5, <2>1, SendEnds
<1>6. ASSUME NEW x \in Visitors, UNCHANGED down, f.t \in {"abort", "res_end"}, r = x, ~wrapped PROVE CalledOff(x)'
  <2>1. f.who \in Visitors /\ at[f.who] = Spot(n, f.id) /\ f.who \notin Workers
    BY <1>6 DEF Final
  <2>2. at[x] = Spot(n, f.id) /\ x \in Whos /\ f.who \in Whos
    BY <1>4, <1>6, <2>1, WhosAre
  <2>3. x = f.who
    BY <1>6, <2>1, <2>2, OwnsAlone
  <2>4. x \notin Workers'
    BY <1>0, <1>6, <2>1, <2>3, StillWorkers
  <2> QED BY <2>4 DEF CalledOff
<1>7. ASSUME UNCHANGED down, UNCHANGED pub \/ \E s : pub' = Moved(r, s),
             \A x \in Visitors : ~wrapped /\ r = x /\ pub'[x] \in Ended => CalledOff(x)'
      PROVE  EndInv'
  <2>1. CloseFrame \in DownFrames /\ CloseFrame.t # "req_head"
    BY CloseType
  <2> QED BY <1>5, <1>7, <2>1
<1>8. ASSUME ResHead(n, f) \/ (WsMessage(n, f) /\ UNCHANGED down) \/ WsGone(n, f) PROVE EndInv'
  <2>1. UNCHANGED down
    BY <1>8 DEF ResHead, WsGone
  <2>2. UNCHANGED pub \/ pub' = Moved(r, "headers")
    BY <1>8 DEF ResHead, WsMessage, WsGone
  <2>3. ASSUME NEW x \in Visitors, ~wrapped, r = x, pub'[x] \in Ended PROVE CalledOff(x)'
    <3>1. pub[x] \notin Ended
      <4>1. pub[x] \in Pending
        BY <1>0, <2>3, WhosAre DEF AllInv, RelayInv, Entered
      <4> QED BY <4>1 DEF Pending, Ended
    <3>2. pub'[x] = pub[x] \/ pub'[x] = "headers"
      BY <1>1, <2>2 DEF Moved
    <3> QED BY <2>3, <3>1, <3>2 DEF Ended
  <2> QED BY <1>7, <2>1, <2>2, <2>3
<1>9. ASSUME WsMessage(n, f), RelaySend(n, <<c>>), UNCHANGED pub PROVE EndInv'
  <2>1. down' = down \/ down' = Posted(down, n, <<c>>)
    BY <1>9 DEF RelaySend
  <2>2. ASSUME NEW x \in Visitors, ~wrapped, r = x, pub'[x] \in Ended PROVE CalledOff(x)'
    <3>1. pub[x] \in Pending
      BY <1>0, <2>2, WhosAre DEF AllInv, RelayInv, Entered
    <3> QED BY <1>9, <2>2, <3>1 DEF Pending, Ended
  <2> QED BY <1>3, <1>5, <1>9, <2>1, <2>2
<1>10. ASSUME ResEnd(n, f) \/ AgentAbort(n, f), f.t \in {"abort", "res_end"} PROVE EndInv'
  <2>1. UNCHANGED down /\ \E s : pub' = Moved(r, s)
    BY <1>10 DEF ResEnd, AgentAbort
  <2> QED BY <1>6, <1>7, <1>10, <2>1
<1>11. ASSUME ResBody(n, f) PROVE EndInv'
  <2>1. CASE UNCHANGED down /\ (UNCHANGED pub \/ pub' = Moved(r, "headers"))
    <3>1. ASSUME NEW x \in Visitors, ~wrapped, r = x, pub'[x] \in Ended PROVE CalledOff(x)'
      <4>1. pub[x] \in Pending
        BY <1>0, <3>1, WhosAre DEF AllInv, RelayInv, Entered
      <4>2. pub'[x] = pub[x] \/ pub'[x] = "headers"
        BY <1>1, <2>1 DEF Moved
      <4> QED BY <3>1, <4>1, <4>2 DEF Pending, Ended
    <3> QED BY <1>7, <2>1, <3>1
  <2>2. CASE pub' = Moved(r, "destroyed") /\ RelaySend(n, <<g>>)
    <3>1. down' = down \/ down' = Posted(down, n, <<g>>)
      BY <2>2 DEF RelaySend
    <3>2. ASSUME NEW x \in Visitors, r = x PROVE CalledOff(x)'
      BY <1>2, <1>3, <1>4, <2>2, <3>2, AbortCallsOff
    <3> QED BY <1>3, <1>5, <2>2, <3>1, <3>2
  <2> QED BY <1>11, <2>1, <2>2 DEF ResBody, g
<1>12. WsMessage(n, f) => UNCHANGED pub /\ (UNCHANGED down \/ RelaySend(n, <<c>>))
  BY DEF WsMessage, c
<1>13. ASSUME WsMessage(n, f) PROVE EndInv'
  <2>1. CASE UNCHANGED down
    BY <1>8, <1>13, <2>1
  <2>2. CASE RelaySend(n, <<c>>)
    BY <1>9, <1>12, <1>13, <2>2
  <2> QED BY <1>12, <1>13, <2>1, <2>2
<1>14. \/ ResHead(n, f) \/ ResBody(n, f) \/ WsMessage(n, f) \/ WsGone(n, f)
       \/ f.t = "res_end" /\ ResEnd(n, f)
       \/ f.t = "abort" /\ AgentAbort(n, f)
  BY DEF OnAgentFrame
<1>15. CASE ResHead(n, f) \/ WsGone(n, f)
  BY <1>8, <1>15
<1>16. CASE f.t = "res_end" /\ ResEnd(n, f)
  BY <1>10, <1>16
<1>17. CASE f.t = "abort" /\ AgentAbort(n, f)
  BY <1>10, <1>17
<1> QED BY <1>11, <1>13, <1>14, <1>15, <1>16, <1>17

LEMMA ReadEndsWork ==
  ASSUME AllInv, EndInv, NEW n \in Conns, RelayReceive(n)
  PROVE  EndInv'
<1> DEFINE f == Head(up[n])
<1>1. /\ up[n] # << >> /\ up' = [up EXCEPT ![n] = Tail(@)] /\ UNCHANGED agentVars /\ UNCHANGED wire
      /\ PeerClose(n) \/ OnAgentFrame(n, f) \/ UNCHANGED <<relayVars, down>>
  BY DEF RelayReceive
<1>2. up[n] \in Seq(FrameSet) /\ UNCHANGED <<job, parked>>
  BY <1>1 DEF AllInv, TypeInv, UpOK, agentVars
<1>3. UpShrinks
  BY <1>1 DEF UpShrinks, AllInv, TypeInv, UpOK
<1>4. f \in FrameSet
  BY <1>1, <1>2
<1>5. ~wrapped => f \in Final(at, Workers, n)
  <2> DEFINE S == Final(at, Workers, n)
  <2>1. ~wrapped => up[n] \in Seq(S)
    BY DEF EndInv, Settled
  <2> HIDE DEF S
  <2>2. ~wrapped => f \in S
    BY <1>1, <2>1
  <2> QED BY <2>2 DEF S
<1>6. ASSUME UNCHANGED <<relayVars, down>> PROVE EndInv'
  <2>1. OpensNobody /\ UNCHANGED <<at, wrapped, pub, rst>>
    BY <1>1, <1>6 DEF relayVars, OpensNobody, OpenWire
  <2> QED BY <1>2, <1>3, <1>6, <2>1, MuteEnds
<1>7. ASSUME PeerClose(n) PROVE EndInv'
  <2>1. /\ rst[n] \in {"handshake", "open", "closing"} /\ rst' = [rst EXCEPT ![n] = "closing"]
        /\ down' = Posted(down, n, <<CloseFrame>>)
        /\ UNCHANGED <<routed, at, pub, wrapped>>
    BY <1>7 DEF PeerClose
  <2>2. rst \in [Conns -> RelayStates]
    BY DEF AllInv, TypeInv, RelayTypeOK
  <2>3. RelayAdmits /\ PlacesStay /\ OpensNobody
    BY <1>1, <2>1, <2>2 DEF RelayAdmits, PlacesStay, OpensNobody, OpenWire
  <2>4. /\ <<CloseFrame>> \in Seq(DownFrames)
        /\ \A k \in 1..Len(<<CloseFrame>>) : <<CloseFrame>>[k].t # "req_head"
    BY CloseType
  <2>5. /\ \A k \in 1..Len(<<CloseFrame>>) : <<CloseFrame>>[k].t = "req_head" => at[<<CloseFrame>>[k].who].conn = NoConn
        /\ \A v \in Visitors : pub'[v] \in Ended => pub[v] \in Ended
        /\ \A v \in Visitors : pub[v] \in Ended => at'[v] = at[v]
        /\ wrapped => wrapped'
    BY <2>1, <2>4
  <2> QED BY <1>2, <1>3, <2>1, <2>3, <2>4, <2>5, RelayEnds
<1> HIDE DEF f
<1> QED BY <1>1, <1>3, <1>4, <1>5, <1>6, <1>7, FrameEndsWork

\* The steps of the agent's side: nobody gets new work, and the abort that was
\* ahead still is, or has done what it was sent for.
Quits == \A v \in Visitors : job'[v].st \in Compressing =>
           job[v].st \in Compressing \/ (v \notin Workers' /\ at[v].conn # NoConn)

LEMMA AgentEnds ==
  ASSUME AllInv, EndInv, UNCHANGED <<at, pub, rst, wire, wrapped>>, ~wrapped => NoNewWork /\ Quits /\ Settled',
         \A v \in Visitors : ~wrapped /\ at[v].conn \in Conns /\ Ahead(at[v].conn, at[v].id, v) =>
           v \notin Workers' \/ \A n \in Conns, id \in Ids : at[v] = Spot(n, id) => Ahead(n, id, v)'
  PROVE  EndInv'
<1>1. Admitted'
  BY DEF EndInv, Admitted
<1>6. ASSUME ~wrapped PROVE TailsIdle'
  <2> SUFFICES ASSUME NEW v \in Visitors, job'[v].st \in Compressing PROVE v \notin Workers' /\ at'[v].conn # NoConn
    BY DEF TailsIdle
  <2>1. TailsIdle /\ NoNewWork /\ Quits
    BY <1>6 DEF EndInv
  <2> QED BY <2>1 DEF TailsIdle, NoNewWork, Quits
<1>2. SUFFICES ASSUME ~wrapped, NEW v \in Visitors, pub[v] \in Ended PROVE CalledOff(v)'
  BY <1>1, <1>6 DEF EndInv, AllCalledOff
<1>3. CalledOff(v) /\ v \in Whos /\ at[v].id \in Ids /\ at[v] = Spot(at[v].conn, at[v].id)
  BY <1>2, WhosAre, PlaceType, PlaceIs DEF EndInv, AllCalledOff, AllInv, TypeInv
<1>4. CASE at[v].conn = NoConn \/ ~OpenWire(at[v].conn)
  BY <1>4 DEF CalledOff, OpenWire
<1>5. CASE v \notin Workers /\ at[v].conn # NoConn
  <2>1. v \notin Workers'
    BY <1>2, <1>5 DEF NoNewWork
  <2> QED BY <2>1 DEF CalledOff
<1>7. CASE OpenWire(at[v].conn) /\ Ahead(at[v].conn, at[v].id, v)
  <2>1. ASSUME NEW n, NEW id, n = at[v].conn, id = at[v].id PROVE v \notin Workers' \/ Ahead(n, id, v)'
    <3>1. n \in Conns /\ id \in Ids /\ at[v] = Spot(n, id)
      BY <1>3, <1>7, <2>1 DEF OpenWire
    <3> QED BY <1>2, <1>7, <2>1, <3>1
  <2>2. ASSUME NEW n, NEW id, n = at[v].conn, id = at[v].id PROVE CalledOff(v)'
    <3>1. n = at'[v].conn /\ id = at'[v].id
      BY <2>2
    <3> QED BY <2>1, <2>2, <3>1 DEF CalledOff, Ahead
  <2> QED BY <2>2
<1> QED BY <1>3, <1>4, <1>5, <1>7 DEF CalledOff

LEMMA SpeaksEnds ==
  ASSUME AllInv, EndInv, UNCHANGED <<at, pub, rst, wire, wrapped, down>>, ~wrapped => NoNewWork /\ Quits,
         NEW fs, AgentSend(fs) \/ UNCHANGED up,
         ~wrapped /\ control \in Conns => fs \in Seq(Final(at, Workers', control))
  PROVE  EndInv'
<1>1. ASSUME ~wrapped PROVE Settled'
  <2>1. Settled /\ NoNewWork
    BY <1>1 DEF EndInv
  <2>2. CASE UNCHANGED up
    <3>1. UpShrinks /\ PlacesStay
      BY <2>2 DEF UpShrinks, PlacesStay
    <3> QED BY <2>1, <3>1, SettledKeeps
  <2>3. CASE AgentSend(fs)
    BY <1>1, <2>1, <2>3, SettledSpeaks DEF AllInv
  <2> QED BY <2>2, <2>3
<1>2. ASSUME NEW v \in Visitors, Ahead(at[v].conn, at[v].id, v), NEW n \in Conns, NEW id \in Ids, at[v] = Spot(n, id)
      PROVE  Ahead(n, id, v)'
  <2>1. Ahead(n, id, v)
    BY <1>2 DEF Spot
  <2> QED BY <2>1 DEF Ahead, HeadOf
<1> QED BY <1>1, <1>2, AgentEnds

\* What may be said of whom nobody works for, and what may always be said.
LEMMA FinalWords ==
  ASSUME NEW W, NEW n, NEW id \in Ids, NEW w \in Whos
  PROVE  /\ << >> \in Seq(Final(at, W, n))
         /\ \A t \in FrameTypes \ {"abort", "res_end"} :
              /\ <<Ctl(t, id, w)>> \in Seq(Final(at, W, n))
              /\ <<Ctl(t, id, w), Ctl(t, id, w)>> \in Seq(Final(at, W, n))
              /\ \A k \in Keys : <<Data(t, id, w, k)>> \in Seq(Final(at, W, n))
         /\ w \in Visitors /\ at[w] = Spot(n, id) /\ w \notin W =>
              /\ Refusal(id, w) \in Seq(Final(at, W, n))
              /\ \A t \in FrameTypes : <<Ctl(t, id, w)>> \in Seq(Final(at, W, n))
<1> DEFINE S == Final(at, W, n)
<1>1. ASSUME NEW t \in FrameTypes \ {"abort", "res_end"}, NEW k \in 0..(MaxKey + 1)
      PROVE  Ctl(t, id, w) \in S /\ Data(t, id, w, k) \in S
  <2>1. w \in Whos \cup {None}
    OBVIOUS
  <2>2. /\ Ctl(t, id, w) \in FrameSet /\ Ctl(t, id, w).t = t
        /\ Data(t, id, w, k) \in FrameSet /\ Data(t, id, w, k).t = t
    BY <2>1, FrameType
  <2> QED BY <2>2 DEF Final
<1>2. ASSUME w \in Visitors, at[w] = Spot(n, id), w \notin W, NEW t \in FrameTypes PROVE Ctl(t, id, w) \in S
  <2>1. w \in Whos \cup {None} /\ 0 \in 0..(MaxKey + 1)
    BY Constants
  <2>2. Ctl(t, id, w) \in FrameSet /\ Ctl(t, id, w).who = w /\ Ctl(t, id, w).id = id
    BY <2>1, FrameType
  <2> QED BY <1>2, <2>2 DEF Final
<1> HIDE DEF S
<1>3. << >> \in Seq(S)
  BY EmptySeq
<1>4. \A t \in FrameTypes \ {"abort", "res_end"} :
              /\ <<Ctl(t, id, w)>> \in Seq(S) /\ <<Ctl(t, id, w), Ctl(t, id, w)>> \in Seq(S)
              /\ \A k \in Keys : <<Data(t, id, w, k)>> \in Seq(S)
  BY <1>1, Constants
<1>5. ASSUME w \in Visitors, at[w] = Spot(n, id), w \notin W
      PROVE  Refusal(id, w) \in Seq(S) /\ \A t \in FrameTypes : <<Ctl(t, id, w)>> \in Seq(S)
  <2>1. Ctl("res_head", id, w) \in S /\ Data("res_body", id, w, Note) \in S /\ Ctl("res_end", id, w) \in S
    BY <1>1, <1>2, <1>5, Constants DEF FrameTypes
  <2>2. Refusal(id, w) \in Seq(S)
    BY <2>1 DEF Refusal
  <2> QED BY <1>2, <1>5, <2>2
<1> QED BY <1>3, <1>4, <1>5 DEF S

LEMMA EarlyIsFinal ==
  ASSUME AllInv, NEW id \in Ids, NEW n, NEW W
  PROVE  /\ ClosedEarly(id) \in Seq(Final(at, W, n))
         /\ ClosedEarly(id) # << >> => <<Head(ClosedEarly(id))>> \in Seq(Final(at, W, n))
<1>1. lsocks[id] # None => lsocks[id] \in Whos
  BY TalkTypes, WhosAre
<1>2. CASE ClosedEarly(id) = << >>
  BY <1>2, EmptySeq
<1>3. CASE ClosedEarly(id) # << >>
  <2> DEFINE g == Ctl("ws_close", id, lsocks[id])
  <2>1. lsocks[id] # None /\ ClosedEarly(id) = <<g, g>>
    BY <1>3 DEF ClosedEarly
  <2>2. <<g>> \in Seq(Final(at, W, n)) /\ <<g, g>> \in Seq(Final(at, W, n))
    BY <1>1, <2>1, FinalWords DEF FrameTypes
  <2>3. Head(<<g, g>>) = g
    OBVIOUS
  <2> HIDE DEF g
  <2> QED BY <2>1, <2>2, <2>3
<1> QED BY <1>2, <1>3

LEMMA LastIsFinal ==
  ASSUME AllInv, JobsHeld, ~wrapped, NEW v \in Visitors, job[v].st \in AtDsh, NEW W, v \notin W
  PROVE  LastWords(v) \in Seq(Final(at, W, control))
<1>1. at[v] = Spot(control, job[v].id) /\ job[v].id \in Ids /\ v \in Whos
  BY LastWordsSaid, WhosAre
<1>2. Refusal(job[v].id, v) \in Seq(Final(at, W, control)) /\ <<Ctl("abort", job[v].id, v)>> \in Seq(Final(at, W, control))
  BY <1>1, FinalWords DEF FrameTypes
<1> QED BY <1>2 DEF LastWords

\* Who stops working stays idle.
LEMMA Idles ==
  ASSUME AllInv, JobsHeld, ~wrapped, NEW v \in Visitors, job[v].st \in AtDsh, job'[v].st \notin AtDsh,
         Lagging, WaitsForDsh(v)' => WaitsForDsh(v)
  PROVE  v \notin Workers'
<1>1. ~WaitsForDsh(v) /\ ~OnTheWay(v)
  BY WorkIsOne
<1>2. ~OnTheWay(v)'
  BY <1>1, TakenHeads
<1> QED BY <1>1, <1>2 DEF Workers, Working

LEMMA NoMoreWork ==
  ASSUME Lagging, \A v \in Visitors : job'[v].st \in AtDsh => v \in Workers,
         \A v \in Visitors : WaitsForDsh(v)' => v \in Workers
  PROVE  NoNewWork
<1> SUFFICES ASSUME NEW v \in Visitors, v \in Workers' PROVE v \in Workers
  BY DEF NoNewWork
<1>1. OnTheWay(v)' => v \in Workers
  BY TakenHeads DEF Workers, Working
<1> QED BY <1>1 DEF Workers, Working

LEMMA QuitsWell ==
  ASSUME AllInv, TalkInv, ~wrapped, AnswersOnly, Lagging, \A v \in Visitors : WaitsForDsh(v)' => WaitsForDsh(v)
  PROVE  Quits
<1> SUFFICES ASSUME NEW v \in Visitors, job'[v].st \in Compressing, job[v].st \notin Compressing
             PROVE  v \notin Workers' /\ at[v].conn # NoConn
  BY DEF Quits
<1>1. job[v].st \in AtDsh /\ job'[v].st \notin AtDsh /\ JobsHeld
  BY DEF AnswersOnly, TalkInv, AtDsh, Compressing
<1>2. requests[job[v].id] = v /\ job[v].id \in Ids /\ v # None
  BY <1>1, TalkTypes, WhosAre DEF JobSet, JobsHeld
<1>3. at[v] = Spot(control, job[v].id) /\ control \in Conns
  BY <1>2, Owners
<1>4. at[v].conn # NoConn
  BY <1>3, Constants DEF Spot
<1> QED BY <1>1, <1>4, Idles

LEMMA QuitsStill == ASSUME UNCHANGED job PROVE Quits
BY DEF Quits

LEMMA LocalEndsWork ==
  ASSUME AllInv, TalkInv, TailInv, EndInv, UNCHANGED relayVars, NEW v \in Visitors,
         LocalHead(v) \/ LocalBody(v) \/ LocalRead(v) \/ LocalEnd(v) \/ LocalSpill(v) \/ LocalError(v) \/ LocalAnswer(v)
  PROVE  EndInv'
<1>1. ~job[v].sealed /\ (~wrapped => JobsHeld) /\ job \in [Visitors -> JobSet] /\ v \in Whos
  BY TalkTypes, WhosAre DEF TalkInv, Unsealed
<1>2. /\ job[v].st \in AtDsh \cup Compressing /\ JobsOnly /\ job[v].id \in Ids
      /\ \E t \in JobStates : job' = [job EXCEPT ![v].st = t] /\ (job[v].st \in Compressing => t \notin AtDsh)
  BY <1>1, LocalMoves DEF JobSet
<1>3. UNCHANGED <<at, pub, rst, wire, wrapped, down, parked>>
  BY <1>2 DEF JobsOnly, relayVars
<1>4. Lagging /\ \A x \in Visitors : WaitsForDsh(x)' => WaitsForDsh(x)
  BY <1>3, StillLags DEF WaitsForDsh
<1>5. NoNewWork
  <2>1. ASSUME NEW x \in Visitors, job'[x].st \in AtDsh PROVE x \in Workers
    BY <1>1, <1>2, <2>1 DEF Workers, Working
  <2>2. \A x \in Visitors : WaitsForDsh(x)' => x \in Workers
    BY <1>4 DEF Workers, Working
  <2> QED BY <1>4, <2>1, <2>2, NoMoreWork
<1>6. ~wrapped => Quits
  <2>1. AnswersOnly
    BY <1>2, JobsAnswer
  <2> QED BY <1>4, <2>1, QuitsWell
<1>7. ASSUME NEW fs, AgentSend(fs) \/ UNCHANGED up, ~wrapped /\ control \in Conns => fs \in Seq(Final(at, Workers', control))
      PROVE  EndInv'
  BY <1>3, <1>5, <1>6, <1>7, SpeaksEnds
<1>8. CASE LocalHead(v)
  <2>1. <<Ctl("res_head", job[v].id, v)>> \in Seq(Final(at, Workers', control))
    BY <1>1, <1>2, FinalWords DEF FrameTypes
  <2> QED BY <1>7, <1>8, <2>1 DEF LocalHead
<1>9. CASE LocalBody(v) \/ LocalSpill(v)
  <2>1. 0 \in Keys
    BY Constants DEF Keys
  <2>2. <<Data("res_body", job[v].id, v, 0)>> \in Seq(Final(at, Workers', control))
    BY <1>1, <1>2, <2>1, FinalWords DEF FrameTypes
  <2>3. AgentSend(<<Data("res_body", job[v].id, v, 0)>>) \/ UNCHANGED up
    BY <1>9 DEF LocalBody, LocalSpill
  <2> QED BY <1>7, <2>2, <2>3
<1>10. CASE LocalRead(v)
  <2>1. << >> \in Seq(Final(at, Workers', control))
    BY EmptySeq
  <2> QED BY <1>7, <1>10, <2>1 DEF LocalRead
<1>11. CASE LocalEnd(v)
  <2>1. job[v].st \in Compressing /\ AgentSend(<<Ctl("res_end", job[v].id, v)>>)
    BY <1>11 DEF LocalEnd, Compressing
  <2>2. ASSUME ~wrapped PROVE v \notin Workers'
    <3>1. v \notin Workers /\ at[v].conn # NoConn
      BY <2>1, <2>2 DEF EndInv, TailsIdle
    <3> QED BY <1>5, <3>1 DEF NoNewWork
  <2>3. ASSUME ~wrapped, control \in Conns, asock[control] = "open" PROVE <<Ctl("res_end", job[v].id, v)>> \in Seq(Final(at, Workers', control))
    <3>1. at[v] = Spot(control, job[v].id)
      BY <2>1, <2>3, Constants DEF TailInv, TailsHeld
    <3> QED BY <1>1, <1>2, <2>2, <2>3, <3>1, FinalWords DEF FrameTypes
  <2>4. CASE control \in Conns /\ asock[control] = "open"
    BY <1>7, <2>1, <2>3, <2>4
  <2>5. CASE ~(control \in Conns /\ asock[control] = "open")
    <3>1. control \in Conns \cup {NoConn}
      BY DEF AllInv, TypeInv, AgentTypeOK
    <3>2. UNCHANGED up
      BY <2>1, <2>5, <3>1 DEF AgentSend
    <3>3. << >> \in Seq(Final(at, Workers', control))
      BY EmptySeq
    <3> QED BY <1>7, <3>2, <3>3
  <2> QED BY <2>4, <2>5
<1>12. CASE LocalError(v)
  <2>1. job[v].st \in AtDsh /\ job'[v].st \notin AtDsh
    BY <1>1, <1>12 DEF LocalError, CutShort, AtDsh, JobSet
  <2>2. ~wrapped => v \notin Workers'
    BY <1>1, <1>4, <2>1, Idles
  <2>3. ~wrapped => at[v] = Spot(control, job[v].id)
    BY <1>1, <2>1, LastWordsSaid
  <2>4. ~wrapped => /\ <<Ctl("abort", job[v].id, v)>> \in Seq(Final(at, Workers', control))
                    /\ LastWords(v) \in Seq(Final(at, Workers', control))
    BY <1>1, <1>2, <2>1, <2>2, <2>3, FinalWords, LastIsFinal DEF FrameTypes
  <2>5. \E fs : AgentSend(fs) /\ (~wrapped => fs \in Seq(Final(at, Workers', control)))
    BY <1>12, <2>4 DEF LocalError
  <2> QED BY <1>7, <2>5
<1>13. ~LocalAnswer(v)
  BY <1>1 DEF LocalAnswer
<1> QED BY <1>8, <1>9, <1>10, <1>11, <1>12, <1>13

LEMMA LinkEndsWork ==
  ASSUME AllInv, EndInv, UNCHANGED relayVars, NEW b \in Browsers,
         LinkOpen(b) \/ LinkMessage(b) \/ LinkClose(b) \/ LinkRefused(b) \/ LinkCongested(b)
  PROVE  EndInv'
<1>1. UNCHANGED <<at, pub, rst, wire, wrapped, down, parked, job>>
  BY DEF LinkOpen, LinkMessage, LinkClose, LinkRefused, LinkCongested, SocketsOnly, relayVars
<1>2. link[b].id \in Ids /\ b \in Whos
  BY TalkTypes, WhosAre DEF LinkSet
<1>3. NoNewWork /\ Quits
  BY <1>1, StillWorkers, QuitsStill DEF NoNewWork
<1>4. ASSUME NEW fs, AgentSend(fs) \/ UNCHANGED up, ~wrapped /\ control \in Conns => fs \in Seq(Final(at, Workers', control))
      PROVE  EndInv'
  BY <1>1, <1>3, <1>4, SpeaksEnds
<1>5. CASE LinkOpen(b)
  <2>1. << >> \in Seq(Final(at, Workers', control))
    BY EmptySeq
  <2> QED BY <1>4, <1>5, <2>1 DEF LinkOpen
<1>6. CASE LinkMessage(b)
  <2> DEFINE k == IF link[b].sealed THEN e2eKey ELSE 0
  <2>1. k \in Keys
    BY Constants DEF AllInv, TypeInv, AgentTypeOK, Keys
  <2> HIDE DEF k
  <2>2. <<Data("ws_msg", link[b].id, b, k)>> \in Seq(Final(at, Workers', control))
    BY <1>2, <2>1, FinalWords DEF FrameTypes
  <2>3. AgentSend(<<Data("ws_msg", link[b].id, b, k)>>)
    BY <1>6 DEF LinkMessage, k
  <2> QED BY <1>4, <2>2, <2>3
<1>7. ASSUME NEW t \in {"ws_close", "ws_reject"}, AgentSend(<<Ctl(t, link[b].id, b)>>) PROVE EndInv'
  <2>1. <<Ctl(t, link[b].id, b)>> \in Seq(Final(at, Workers', control))
    BY <1>2, FinalWords DEF FrameTypes
  <2> QED BY <1>4, <1>7, <2>1
<1>8. ASSUME AgentSend(ClosedEarly(link[b].id)) PROVE EndInv'
  BY <1>2, <1>4, <1>8, EarlyIsFinal
<1>9. CASE LinkClose(b) \/ LinkCongested(b)
  BY <1>7, <1>9 DEF LinkClose, LinkCongested
<1>10. CASE LinkRefused(b)
  BY <1>7, <1>8, <1>10 DEF LinkRefused
<1> QED BY <1>5, <1>6, <1>9, <1>10

LEMMA SettledEndsWork ==
  ASSUME NothingSealed, AllInv, EndInv, UNCHANGED relayVars, CookieSettled
  PROVE  EndInv'
<1> DEFINE waiting == {id \in Ids : parked[id] # None}
           plain   == {id \in waiting : Fate(parked[id]) = "replayed"}
           sealed  == {id \in waiting : Fate(parked[id]) = "buffered"}
           opened  == {id \in sealed \cap ended : Opens(parked[id])}
           refused(id) == \/ Fate(parked[id]) = "refused"
                          \/ id \in sealed \cap ended /\ ~Opens(parked[id])
           s == [id \in Ids |-> IF id \in waiting /\ refused(id) THEN Refusal(id, parked[id]) ELSE << >>]
<1>1. /\ job' = [v \in Visitors |->
                  IF \E id \in plain \cup opened : parked[id] = v
                  THEN LET id == CHOOSE i \in plain \cup opened : parked[i] = v
                       IN StartJob(v, id, id \in opened)
                  ELSE job[v]]
      /\ parked' = NoneOpen
      /\ AgentSend(InIdOrder(s))
  BY DEF CookieSettled
<1>2. UNCHANGED <<at, pub, rst, wire, wrapped, down>>
  BY DEF CookieSettled, relayVars
<1>3. \A id \in waiting : parked[id] \in Visitors
  BY TalkTypes
<1>4. \A id \in waiting : Fate(parked[id]) = "replayed"
  BY <1>3, NothingIsSealed DEF AllInv
<1>5. \A id \in Ids : s[id] = << >>
  BY <1>4
<1>6. plain \cup opened \subseteq Ids
  OBVIOUS
<1> HIDE DEF waiting, plain, sealed, opened, refused, s
<1>10. Quits
  <2> SUFFICES ASSUME NEW v \in Visitors PROVE job'[v] = job[v] \/ job'[v].st = "sent"
    BY DEF Quits, Compressing
  <2> QED BY <1>1 DEF StartJob
<1>7. NoNewWork
  <2>1. ASSUME NEW v \in Visitors, job'[v].st \in AtDsh PROVE v \in Workers
    <3>1. CASE \E id \in plain \cup opened : parked[id] = v
      BY <1>6, <3>1 DEF Workers, Working, WaitsForDsh
    <3>2. CASE ~ \E id \in plain \cup opened : parked[id] = v
      <4>1. job'[v] = job[v]
        BY <1>1, <3>2
      <4> QED BY <2>1, <4>1 DEF Workers, Working
    <3> QED BY <3>1, <3>2
  <2>2. ASSUME NEW v \in Visitors PROVE ~WaitsForDsh(v)'
    BY <1>1, WhosAre DEF WaitsForDsh, NoneOpen
  <2> QED BY <1>2, <2>1, <2>2, StillLags, NoMoreWork
<1>8. ASSUME NEW F PROVE InIdOrder(s) \in Seq(F)
  <2>1. \A id \in Ids : s[id] \in Seq(F)
    BY <1>5, EmptySeq
  <2> QED BY <2>1, FoldType
<1>9. InIdOrder(s) \in Seq(Final(at, Workers', control))
  BY <1>8
<1> QED BY <1>1, <1>2, <1>7, <1>9, <1>10, SpeaksEnds

LEMMA SetEndsWork ==
  ASSUME AllInv, TalkInv, EndInv, UNCHANGED relayVars, NEW k, SetE2E(k)
  PROVE  EndInv'
<1> DEFINE s == [id \in Ids |->
                 (IF requests[id] = None THEN << >> ELSE LastWords(requests[id])) \o
                 (IF ClosedEarly(id) = << >> THEN << >> ELSE <<Head(ClosedEarly(id))>>)]
<1>1. DropStreams /\ AgentSend(InIdOrder(s)) /\ UNCHANGED down /\ UNCHANGED wire
  BY DEF SetE2E
<1>2. UNCHANGED <<at, pub, rst, wire, wrapped, down>>
  BY <1>1 DEF relayVars
<1>3. ~wrapped => JobsHeld /\ \A v \in Visitors : job'[v].st \notin AtDsh
  BY <1>1, DropsJobs DEF TalkInv
<1>4. \A v \in Visitors : ~WaitsForDsh(v)'
  BY <1>1, WhosAre DEF WaitsForDsh, DropStreams, NoneOpen
<1>5. Lagging
  BY <1>2, StillLags
<1>6. ~wrapped => NoNewWork /\ Quits
  BY <1>1, <1>3, <1>4, <1>5, NoMoreWork, QuitsWell, DropsAnswer
<1>7. ASSUME ~wrapped, NEW id \in Ids PROVE s[id] \in Seq(Final(at, Workers', control))
  <2> DEFINE p == IF requests[id] = None THEN << >> ELSE LastWords(requests[id])
             q == IF ClosedEarly(id) = << >> THEN << >> ELSE <<Head(ClosedEarly(id))>>
             S == Final(at, Workers', control)
  <2>1. ASSUME requests[id] # None PROVE requests[id] \in Visitors /\ job[requests[id]].st \in AtDsh
    BY <1>3, <1>7, <2>1, TalkTypes DEF JobsHeld
  <2>2. ASSUME requests[id] # None, NEW v \in Visitors, requests[id] = v PROVE LastWords(v) \in Seq(S)
    <3>1. job[v].st \in AtDsh /\ job'[v].st \notin AtDsh /\ JobsHeld
      BY <1>3, <1>7, <2>1, <2>2
    <3>2. v \notin Workers'
      BY <1>4, <1>5, <1>7, <3>1, Idles
    <3> QED BY <1>7, <3>1, <3>2, LastIsFinal
  <2> HIDE DEF S
  <2>3. p \in Seq(S)
    <3>1. CASE requests[id] = None
      BY <3>1, EmptySeq
    <3>2. CASE requests[id] # None
      BY <2>1, <2>2, <3>2
    <3> QED BY <3>1, <3>2
  <2>4. q \in Seq(S)
    BY EarlyIsFinal, EmptySeq DEF S
  <2>5. s[id] = p \o q
    OBVIOUS
  <2> HIDE DEF p, q, s
  <2>6. p \o q \in Seq(S)
    BY <2>3, <2>4
  <2> QED BY <2>5, <2>6 DEF S
<1> HIDE DEF s
<1>8. ~wrapped => InIdOrder(s) \in Seq(Final(at, Workers', control))
  BY <1>7, FoldType
<1> QED BY <1>1, <1>2, <1>6, <1>8, SpeaksEnds

LEMMA ClosedEndsWork ==
  ASSUME AllInv, TalkInv, EndInv, UNCHANGED relayVars, NEW n \in Conns, AgentCloseEvent(n)
  PROVE  EndInv'
<1>1. control = n /\ DropStreams /\ down' = [down EXCEPT ![n] = << >>] /\ UNCHANGED up /\ UNCHANGED wire
  BY DEF AgentCloseEvent, AllInv, AgentInv, Sole
<1>2. UNCHANGED <<at, pub, rst, wire, wrapped>>
  BY <1>1 DEF relayVars
<1>3. ~wrapped => \A v \in Visitors : job'[v].st \notin AtDsh
  BY <1>1, DropsJobs DEF TalkInv
<1>4. \A v \in Visitors : ~WaitsForDsh(v)'
  BY <1>1, WhosAre DEF WaitsForDsh, DropStreams, NoneOpen
<1>5. Len(down'[n]) = 0 /\ \A m \in Conns : m # n => down'[m] = down[m]
  BY <1>1 DEF AllInv, TypeInv, DownOK
<1>6. Lagging
  <2>1. \A m \in Conns : \A i \in 1..Len(down[m]) : i + 0 = i
    OBVIOUS
  <2>2. \A i \in 1..Len(down'[n]) : FALSE
    BY <1>5
  <2>3. ASSUME NEW m \in Conns
        PROVE  \E k \in Nat : \A i \in 1..Len(down'[m]) : i + k \in 1..Len(down[m]) /\ down'[m][i] = down[m][i + k]
    <3>1. \A i \in 1..Len(down'[m]) : i + 0 \in 1..Len(down[m]) /\ down'[m][i] = down[m][i + 0]
      BY <1>5, <2>1, <2>2
    <3> QED BY <3>1
  <2> QED BY <2>3 DEF Lagging
<1>7. ~wrapped => NoNewWork /\ Quits
  BY <1>1, <1>3, <1>4, <1>6, NoMoreWork, QuitsWell, DropsAnswer
<1>8. ~wrapped => Settled'
  <2>1. UpShrinks /\ PlacesStay
    BY <1>1, <1>2 DEF UpShrinks, PlacesStay
  <2> QED BY <1>7, <2>1, SettledKeeps DEF EndInv
<1>9. ASSUME NEW v \in Visitors, ~wrapped, Ahead(at[v].conn, at[v].id, v), v \in Workers',
             NEW m \in Conns, NEW id \in Ids, at[v] = Spot(m, id)
      PROVE  Ahead(m, id, v)'
  <2>1. Ahead(m, id, v)
    BY <1>9 DEF Spot
  <2>2. OnTheWay(v)'
    BY <1>3, <1>4, <1>9 DEF Workers, Working
  <2>3. PICK l \in Conns : \E i \in 1..Len(down'[l]) : HeadOf(down'[l][i], v)
    BY <2>2 DEF OnTheWay, HeadOf
  <2>4. l # n /\ down'[l] = down[l]
    BY <1>5, <2>3
  <2>5. PICK i \in 1..Len(down[l]) : HeadOf(down[l][i], v)
    BY <2>3, <2>4
  <2>7. at[v] = Spot(l, down[l][i].id)
    BY <2>5 DEF HeadOf, AllInv, AgentInv, DownPlaced, Placed
  <2>8. Spot(m, id) = Spot(l, down[l][i].id)
    BY <1>9, <2>7
  <2>9. m = l
    BY <2>8, SpotsDiffer
  <2>6. m # n
    BY <2>4, <2>9
  <2> QED BY <1>5, <2>1, <2>6 DEF Ahead, HeadOf
<1> QED BY <1>2, <1>7, <1>8, <1>9, AgentEnds

\* A head the agent takes was its visitor's only one.
LEMMA HeadTaken ==
  ASSUME AllInv, ~wrapped, NEW n \in Conns, AgentReceive(n), Head(down[n]).t = "req_head", NEW v, Head(down[n]).who = v
  PROVE  OnTheWay(v) /\ ~OnTheWay(v)' /\ v \in Visitors
<1> DEFINE f == Head(down[n])
<1>1. asock[n] \in {"open", "closing"} /\ down[n] # << >> /\ down' = [down EXCEPT ![n] = Tail(@)]
  BY DEF AgentReceive
<1>2. n = control /\ DownOK
  BY <1>1 DEF AllInv, AgentInv, Sole, TypeInv
<1>3. /\ f \in DownFrames /\ down[n][1] = f /\ 1 \in 1..Len(down[n]) /\ Lagging
      /\ \A i \in 1..Len(down'[n]) : i + 1 \in 1..Len(down[n]) /\ down'[n][i] = down[n][i + 1]
  BY <1>1, <1>2, TailLags, TakenType DEF DownOK
<1>4. v \in Visitors /\ at[v] = Spot(n, f.id)
  BY <1>3 DEF AllInv, AgentInv, DownPlaced, DownFrames, Placed
<1>5. OnTheWay(v)
  BY <1>3 DEF OnTheWay, HeadOf
<1>6. ASSUME NEW m \in Conns, NEW i \in 1..Len(down'[m]), HeadOf(down'[m][i], v) PROVE FALSE
  <2>1. PICK j \in 1..Len(down[m]) : down'[m][i] = down[m][j]
    BY <1>3 DEF Lagging
  <2>2. at[v] = Spot(m, down[m][j].id)
    BY <1>6, <2>1 DEF HeadOf, AllInv, AgentInv, DownPlaced, Placed
  <2>3. m = n
    BY <1>4, <2>2, SpotsDiffer
  <2>4. /\ i + 1 \in 1..Len(down[n]) /\ down'[n][i] = down[n][i + 1] /\ i + 1 # 1
        /\ down[n][i + 1].t = "req_head" /\ down[n][i + 1].who = v
    BY <1>3, <1>6, <2>3 DEF HeadOf
  <2>5. at[v] = Spot(n, down[n][i + 1].id)
    BY <2>4 DEF AllInv, AgentInv, DownPlaced, Placed
  <2>6. down[n][i + 1].id = f.id
    BY <1>4, <2>5, SpotsDiffer
  <2> QED BY <1>3, <2>4, <2>6 DEF AllInv, AgentInv, OnceEach
<1> QED BY <1>4, <1>5, <1>6 DEF OnTheWay, HeadOf

\* The agent reads what the relay sent it.
LEMMA ReceiveEndsWork ==
  ASSUME NothingSealed, AllInv, TalkInv, EndInv, NEW n \in Conns, AgentReceive(n)
  PROVE  EndInv'
<1> DEFINE f == Head(down[n])
<1>1. /\ asock[n] \in {"open", "closing"} /\ down[n] # << >> /\ AgentDispatch(f) /\ UNCHANGED relayVars
      /\ down' = [down EXCEPT ![n] = Tail(@)] /\ UNCHANGED wire
  BY DEF AgentReceive
<1>2. n = control /\ DownOK
  BY <1>1 DEF AllInv, AgentInv, Sole, TypeInv
<1>3. /\ f \in DownFrames /\ down[n][1] = f /\ 1 \in 1..Len(down[n]) /\ Lagging
      /\ \A i \in 1..Len(down'[n]) : i + 1 \in 1..Len(down[n]) /\ down'[n][i] = down[n][i + 1]
  BY <1>1, <1>2, TailLags, TakenType DEF DownOK
<1>4. Placed(at, control, f) /\ f.id \in Ids
  BY <1>2, <1>3 DEF AllInv, AgentInv, DownPlaced, DownFrames, FrameSet
<1>5. UNCHANGED <<at, pub, rst, wire, wrapped>>
  BY <1>1 DEF relayVars
<1>6. Unsealed /\ (~wrapped => JobsHeld) /\ (~wrapped => Settled) /\ job \in [Visitors -> JobSet]
      /\ parked \in [Ids -> Visitors \cup {None}] /\ requests \in [Ids -> Visitors \cup {None}]
  BY TalkTypes DEF TalkInv, EndInv
<1>7. ASSUME NEW v \in Visitors, NEW m \in Conns, NEW i \in 1..Len(down'[m]), HeadOf(down'[m][i], v)
      PROVE  at[v].conn = m
  <2>1. PICK j \in 1..Len(down[m]) : down'[m][i] = down[m][j]
    BY <1>3 DEF Lagging
  <2>2. at[v] = Spot(m, down[m][j].id)
    BY <1>7, <2>1 DEF HeadOf, AllInv, AgentInv, DownPlaced, Placed
  <2> QED BY <2>2 DEF Spot
<1>8. ASSUME f.t = "req_head", ~wrapped, NEW v, f.who = v PROVE OnTheWay(v) /\ ~OnTheWay(v)' /\ v \in Visitors
  BY <1>8, HeadTaken
<1> HIDE DEF f
\* What a frame does to the work of others, and to the work it is about.
<1>9. ASSUME NEW fs, AgentSend(fs) \/ UNCHANGED up, ~wrapped => NoNewWork /\ Quits,
             ~wrapped => fs \in Seq(Final(at, Workers', control)),
             ~wrapped /\ f.t = "abort" => RelayAbort(f)
      PROVE  EndInv'
  <2>1. ASSUME ~wrapped PROVE Settled'
    <3>1. CASE UNCHANGED up
      <4>1. UpShrinks /\ PlacesStay
        BY <1>5, <3>1 DEF UpShrinks, PlacesStay
      <4> QED BY <1>6, <1>9, <2>1, <4>1, SettledKeeps
    <3>2. CASE AgentSend(fs)
      BY <1>5, <1>6, <1>9, <2>1, <3>2, SettledSpeaks DEF AllInv
    <3> QED BY <1>9, <3>1, <3>2
  <2>2. ASSUME NEW v \in Visitors, ~wrapped, at[v].conn \in Conns, Ahead(at[v].conn, at[v].id, v),
               NEW m \in Conns, NEW id \in Ids, at[v] = Spot(m, id)
        PROVE  v \notin Workers' \/ Ahead(m, id, v)'
    <3>1. Ahead(m, id, v)
      BY <2>2 DEF Spot
    <3>2. \/ Ahead(m, id, v)'
          \/ /\ m = n /\ f.t = "abort" /\ f.id = id
             /\ \A j \in 1..Len(down'[m]) : ~HeadOf(down'[m][j], v)
      BY <1>1, <1>2, <3>1, TakenAhead DEF f
    <3>3. ASSUME m = n, f.t = "abort", f.id = id, \A j \in 1..Len(down'[m]) : ~HeadOf(down'[m][j], v)
          PROVE  v \notin Workers'
      <4>1. RelayAbort(f) /\ at[v] = Spot(control, f.id) /\ v # None /\ at[v].conn = m
        BY <1>2, <1>9, <2>2, <3>3, WhosAre DEF Spot
      <4>2. ~OnTheWay(v)'
        <5>1. \A l \in Conns : \A i \in 1..Len(down'[l]) : ~HeadOf(down'[l][i], v)
          BY <1>7, <3>3, <4>1
        <5> QED BY <5>1 DEF OnTheWay, HeadOf
      <4>3. ASSUME NEW i \in Ids, parked'[i] = v PROVE FALSE
        <5>1. parked' = [parked EXCEPT ![f.id] = None]
          BY <4>1 DEF RelayAbort
        <5>2. i # f.id /\ parked[i] = v
          BY <1>4, <1>6, <4>1, <4>3, <5>1
        <5>3. at[v] = Spot(control, i)
          BY <2>2, <4>1, <5>2, Owners
        <5> QED BY <4>1, <5>2, <5>3, SpotsDiffer
      <4>4. job'[v].st \notin AtDsh
        <5>1. job' = Destroyed(requests[f.id])
          BY <4>1 DEF RelayAbort
        <5>2. CASE requests[f.id] = v
          BY <1>6, <4>1, <5>1, <5>2 DEF Destroyed, CutShort, AtDsh, JobSet
        <5>3. CASE requests[f.id] # v
          <6>1. job'[v] = job[v] /\ job[v].id \in Ids
            BY <1>4, <1>6, <5>1, <5>3 DEF Destroyed, JobSet
          <6>2. ASSUME job[v].st \in AtDsh PROVE FALSE
            <7>1. requests[job[v].id] = v
              BY <1>6, <2>2, <6>2 DEF JobsHeld
            <7>2. at[v] = Spot(control, job[v].id)
              BY <2>2, <4>1, <6>1, <7>1, Owners
            <7> QED BY <4>1, <5>3, <7>1, <7>2, SpotsDiffer
          <6> QED BY <6>1, <6>2
        <5> QED BY <5>2, <5>3
      <4> QED BY <4>2, <4>3, <4>4 DEF Workers, Working, WaitsForDsh
    <3> QED BY <3>2, <3>3
  <2> QED BY <1>5, <1>9, <2>1, <2>2, AgentEnds
<1>10. << >> \in Seq(Final(at, Workers', control))
  BY EmptySeq
<1>11. ASSUME UNCHANGED <<job, parked>> PROVE NoNewWork /\ Quits
  <2>1. \A v \in Visitors : WaitsForDsh(v)' => v \in Workers
    BY <1>11 DEF WaitsForDsh, Workers, Working
  <2>2. \A v \in Visitors : job'[v].st \in AtDsh => v \in Workers
    BY <1>11 DEF Workers, Working
  <2> QED BY <1>3, <1>11, <2>1, <2>2, NoMoreWork, QuitsStill
<1>12. CASE f.t = "req_head" /\ ReqHead(f)
  <2>1. f.who \in Visitors /\ f.who \in Whos /\ f.t # "abort" /\ OpenRequest(f.who, f.id)
    BY <1>3, <1>12, WhosAre DEF DownFrames, ReqHead
  <2>2. Fate(f.who) = "replayed"
    BY <2>1, NothingIsSealed DEF AllInv
  <2>3. CASE AgentSend(Refusal(f.id, f.who)) /\ UNCHANGED <<job, parked>>
    <3>1. ASSUME ~wrapped, NEW v, f.who = v PROVE v \notin Workers'
      <4>1. job[v].st \notin AtDsh /\ ~WaitsForDsh(v) /\ ~OnTheWay(v)'
        BY <1>6, <1>8, <1>12, <2>1, <3>1, WorkIsOne
      <4>2. job'[v].st \notin AtDsh /\ ~WaitsForDsh(v)'
        BY <2>3, <4>1 DEF WaitsForDsh
      <4> QED BY <4>1, <4>2 DEF Workers, Working
    <3>2. ASSUME ~wrapped PROVE Refusal(f.id, f.who) \in Seq(Final(at, Workers', control))
      <4>1. at[f.who] = Spot(control, f.id)
        BY <1>4, <1>12 DEF Placed
      <4> QED BY <1>4, <2>1, <3>1, <3>2, <4>1, FinalWords
    <3> QED BY <1>9, <1>11, <2>1, <2>3, <3>2
  <2>4. CASE /\ UNCHANGED up
             /\ \/ UNCHANGED parked /\ job' = [job EXCEPT ![f.who] = StartJob(f.who, f.id, FALSE)]
                \/ UNCHANGED job /\ parked' = [parked EXCEPT ![f.id] = f.who]
    <3>1. ASSUME ~wrapped PROVE NoNewWork
      <4>1. f.who \in Workers
        BY <1>8, <1>12, <3>1 DEF Workers, Working
      <4>2. ASSUME NEW v \in Visitors, WaitsForDsh(v)' PROVE v \in Workers
        <5>1. WaitsForDsh(v) \/ v = f.who
          BY <1>6, <2>4, <4>2 DEF WaitsForDsh
        <5> QED BY <4>1, <5>1 DEF Workers, Working
      <4>3. ASSUME NEW v \in Visitors, job'[v].st \in AtDsh PROVE v \in Workers
        <5>1. v = f.who \/ job'[v] = job[v]
          BY <1>6, <2>4
        <5> QED BY <4>1, <4>3, <5>1 DEF Workers, Working
      <4> QED BY <1>3, <4>2, <4>3, NoMoreWork
    <3>2. Quits
      <4> SUFFICES ASSUME NEW v \in Visitors PROVE job'[v] = job[v] \/ job'[v].st = "sent"
        BY DEF Quits, Compressing
      <4> QED BY <1>6, <2>4 DEF StartJob
    <3> QED BY <1>9, <1>10, <2>1, <2>4, <3>1, <3>2
  <2> QED BY <2>1, <2>2, <2>3, <2>4 DEF OpenRequest, Replay
<1>13. CASE f.t = "req_end" /\ ReqEnd(f)
  <2>1. buffered[f.id] = None
    BY <1>4, <1>6 DEF Unsealed
  <2>2. UNCHANGED <<job, parked, up>>
    BY <1>13, <2>1 DEF ReqEnd
  <2> QED BY <1>9, <1>10, <1>11, <1>13, <2>2
<1>14. CASE f.t \in {"ws_open", "ws_msg", "ws_close"} /\ (WsOpen(f) \/ WsData(f) \/ WsClose(f))
  <2>1. UNCHANGED <<job, parked>> /\ (UNCHANGED up \/ AgentSend(ClosedEarly(f.id)))
    BY <1>14 DEF WsOpen, WsData, WsClose
  <2>2. ClosedEarly(f.id) \in Seq(Final(at, Workers', control))
    BY <1>4, EarlyIsFinal
  <2> QED BY <1>9, <1>11, <1>14, <2>1, <2>2
<1>15. CASE f.t = "abort" /\ RelayAbort(f)
  <2> DEFINE v == requests[f.id]
             S == Final(at, Workers', control)
             p == IF v = None THEN << >> ELSE LastWords(v)
  <2>1. /\ job' = Destroyed(v) /\ parked' = [parked EXCEPT ![f.id] = None]
        /\ AgentSend(p \o ClosedEarly(f.id)) /\ v \in Visitors \cup {None}
    BY <1>4, <1>6, <1>15 DEF RelayAbort
  <2>2. \A x \in Visitors : WaitsForDsh(x)' => WaitsForDsh(x)
    BY <1>4, <1>6, <2>1, WhosAre DEF WaitsForDsh
  <2>3. \A x \in Visitors : job'[x].st \in AtDsh => job[x].st \in AtDsh
    BY <1>6, <2>1 DEF Destroyed, CutShort, AtDsh, JobSet
  <2>4. NoNewWork
    BY <1>3, <2>2, <2>3, NoMoreWork DEF Workers, Working
  <2>9. ASSUME ~wrapped PROVE Quits
    <3>1. v # None => job[v].st \in AtDsh
      BY <1>4, <1>6, <2>1, <2>9 DEF JobsHeld
    <3>2. UNCHANGED job \/ \E t \in JobStates : v # None /\ job' = [job EXCEPT ![v].st = t]
      BY <2>1 DEF Destroyed, CutShort, JobStates, Compressing
    <3>3. AnswersOnly
      BY <2>1, <3>1, <3>2, JobsAnswer
    <3> QED BY <1>3, <2>2, <2>9, <3>3, QuitsWell
  <2>5. ASSUME ~wrapped, NEW x \in Visitors, x = v PROVE LastWords(x) \in Seq(S)
    <3>1. job[x].st \in AtDsh /\ JobsHeld
      BY <1>4, <1>6, <2>5 DEF JobsHeld
    <3>2. job'[x].st \notin AtDsh
      BY <1>6, <2>1, <2>5, <3>1, WhosAre DEF Destroyed, CutShort, AtDsh, JobSet
    <3>3. x \notin Workers'
      BY <1>3, <2>2, <2>5, <3>1, <3>2, Idles
    <3> QED BY <2>5, <3>1, <3>3, LastIsFinal
  <2>6. ClosedEarly(f.id) \in Seq(S)
    BY <1>4, EarlyIsFinal
  <2> HIDE DEF S
  <2>7. ~wrapped => p \in Seq(S)
    <3>1. CASE v = None
      BY <3>1, EmptySeq
    <3>2. CASE v # None
      BY <2>1, <2>5, <3>2
    <3> QED BY <3>1, <3>2
  <2> HIDE DEF p, v
  <2>8. ~wrapped => p \o ClosedEarly(f.id) \in Seq(S)
    BY <2>6, <2>7
  <2> QED BY <1>9, <1>15, <2>1, <2>4, <2>8, <2>9 DEF S
<1> QED BY <1>1, <1>12, <1>13, <1>14, <1>15 DEF AgentDispatch

LEMMA ReconnectEndsWork ==
  ASSUME AllInv, EndInv, \/ Reconnect /\ UNCHANGED relayVars
                         \/ UNCHANGED vars
  PROVE  EndInv'
<1>1. UNCHANGED <<at, pub, rst, wire, wrapped, down, job, parked, up>>
  BY DEF Reconnect, relayVars, vars, wireVars, agentVars
<1>2. NoNewWork /\ Quits
  BY <1>1, StillWorkers, QuitsStill DEF NoNewWork
<1>3. << >> \in Seq(Final(at, Workers', control))
  BY EmptySeq
<1> QED BY <1>1, <1>2, <1>3, SpeaksEnds

LEMMA StepEndsWork ==
  ASSUME Redials = FALSE, NothingSealed, AllInv, TalkInv, TailInv, EndInv, [Next]_vars
  PROVE  EndInv'
<1>1. ASSUME NEW v \in Visitors, Arrive(v) PROVE EndInv'
  <2>1. UNCHANGED <<job, parked>> /\ v \in Whos /\ Request(v)
    BY <1>1, WhosAre DEF Arrive
  <2> QED BY <2>1, OpenedEndsWork
<1>2. ASSUME Public, UNCHANGED agentVars PROVE EndInv'
  <2>1. UNCHANGED <<job, parked>> /\ Browsers \subseteq Whos
    BY <1>2, WhosAre DEF agentVars
  <2>2. ASSUME NEW b \in Browsers, Upgrade(b) PROVE EndInv'
    BY <2>1, <2>2, OpenedEndsWork
  <2> QED BY <1>2, <2>2, PublicEndsWork DEF Public
<1>3. ASSUME RelaySteps, UNCHANGED agentVars PROVE EndInv'
  <2>1. UNCHANGED <<job, parked>>
    BY <1>3 DEF agentVars
  <2> QED BY <1>3, <2>1, LossEndsWork, TimeoutEndsWork DEF RelaySteps
<1>4. ASSUME NEW n \in Conns, RelayReceive(n) PROVE EndInv'
  BY <1>4, ReadEndsWork
<1>5. ASSUME NEW n \in Conns, AgentReceive(n) PROVE EndInv'
  BY <1>5, ReceiveEndsWork
<1>6. ASSUME NEW n \in Conns, Handshake(n) \/ Loss(n) PROVE EndInv'
  <2>1. UNCHANGED <<job, parked>>
    BY <1>6 DEF Handshake, Opened, Loss, agentVars
  <2> QED BY <1>6, <2>1, LossEndsWork
<1>7. ASSUME AgentSteps, UNCHANGED relayVars PROVE EndInv'
  BY <1>7, LocalEndsWork, LinkEndsWork, SettledEndsWork, SetEndsWork, ReconnectEndsWork, ClosedEndsWork DEF AgentSteps
<1>8. ASSUME UNCHANGED vars PROVE EndInv'
  BY <1>8, ReconnectEndsWork
<1> QED BY <1>1, <1>2, <1>3, <1>4, <1>5, <1>6, <1>7, <1>8 DEF Next

LEMMA EndInvariance ==
  ASSUME Redials = FALSE, NothingSealed, PromptClose
  PROVE  Spec => [](AllInv /\ TalkInv /\ TailInv /\ EndInv)
<1>1. Init => EndInv
  BY InitEnds
<1>2. AllInv /\ TalkInv /\ TailInv /\ EndInv /\ [Next]_vars => EndInv'
  BY StepEndsWork
<1> QED BY <1>1, <1>2, TalkInvariance, PTL DEF Spec

\* dsh does not keep working for nobody: until an id allocator wraps, the local
\* request of a visitor whose response has ended, however it ended, is over as
\* soon as the agent has read what the relay sent it on a connection both still
\* use.  The relay sends its abort behind the request it calls off, over any
\* number of connections and visitors; when no request is sealed (a sealed one
\* out to dsh cannot be called back), the agent never redials next to a socket
\* that still delivers, and a local socket told to close is closed, and a
\* compressor empty, before the next one opens.
THEOREM EndedWorkIsCalledOff ==
  ASSUME Redials = FALSE, NothingSealed, PromptClose
  PROVE  Spec => [](~wrapped => EndedWorkStops)
<1>1. ASSUME AllInv, TalkInv, EndInv, ~wrapped PROVE EndedWorkStops
  <2> SUFFICES ASSUME NEW v \in Visitors, pub[v] \in Ended, at[v].conn # NoConn,
                      down[at[v].conn] = << >>, wire[at[v].conn] = "up", rst[at[v].conn] = "open"
               PROVE  job[v].st \notin AtDsh
    BY DEF EndedWorkStops
  <2>1. CalledOff(v) /\ v \in Whos /\ at[v].conn \in Conns
    BY <1>1, WhosAre, PlaceType DEF EndInv, AllCalledOff, AllInv, TypeInv
  <2>2. OpenWire(at[v].conn) /\ ~Ahead(at[v].conn, at[v].id, v)
    BY <2>1, EmptySeq DEF OpenWire, Ahead
  <2> QED BY <1>1, <2>1, <2>2 DEF CalledOff, Workers, Working
<1>2. AllInv /\ TalkInv /\ EndInv => (~wrapped => EndedWorkStops)
  BY <1>1
<1> QED BY <1>2, EndInvariance, PTL

-----------------------------------------------------------------------------
(* What is sent in the clear.  Every unsealed request that dsh still works *)
(* on is in the table, and every open local socket, so that a new password *)
(* destroys or closes them all: none that began while E2E was off goes on  *)
(* while it is on.  What the compressors hold is out of its reach.         *)

PlainWork ==
  \A v \in Visitors : job[v].st \in AtDsh /\ ~job[v].sealed =>
    requests[job[v].id] = v /\ (ask[v].kind = "api" => e2eKey = 0)
WholeAnswers == \A v \in Visitors : job[v].sealed => job[v].st \notin {"head", "body"}
PlainLinks ==
  \A b \in Browsers : link[b].st \in {"connecting", "open"} /\ ~link[b].sealed => e2eKey = 0

SealInv == ~wrapped => LinksHeld /\ PlainWork /\ WholeAnswers /\ PlainLinks

LEMMA InitSeal == Init => SealInv
<1> SUFFICES ASSUME Init PROVE SealInv
  OBVIOUS
<1>1. /\ \A v \in Visitors : job[v].st = "none" /\ ~job[v].sealed
      /\ \A b \in Browsers : link[b].st = "none"
      /\ \A id \in Ids : lsocks[id] = None
  BY DEF Init, AgentInit, NoJob, NoLink, NoneOpen
<1>2. PlainWork /\ WholeAnswers /\ PlainLinks
  BY <1>1 DEF PlainWork, WholeAnswers, PlainLinks, AtDsh
<1>3. LinksHeld
  BY <1>1, WhosAre DEF LinksHeld
<1> QED BY <1>2, <1>3 DEF SealInv

LEMMA SealTypes ==
  ASSUME AllInv
  PROVE  /\ job \in [Visitors -> JobSet] /\ link \in [Browsers -> LinkSet] /\ None \notin Visitors /\ None \notin Browsers
         /\ requests \in [Ids -> Visitors \cup {None}] /\ parked \in [Ids -> Visitors \cup {None}]
         /\ \A v \in Visitors : job[v].id \in Ids
         /\ \A b \in Browsers : link[b].id \in Ids
<1>1. job \in [Visitors -> JobSet] /\ link \in [Browsers -> LinkSet]
  BY TalkTypes
<1>2. (\A v \in Visitors : job[v].id \in Ids) /\ (\A b \in Browsers : link[b].id \in Ids)
  BY <1>1 DEF JobSet, LinkSet
<1> QED BY <1>1, <1>2, TalkTypes, WhosAre

\* A step of the relay, or one that changes what a visitor without a place asks for.
LEMMA SealStays ==
  ASSUME AllInv, SealInv, AgentDumb, UNCHANGED e2eKey, wrapped => wrapped',
         \A w \in Whos : at[w].conn # NoConn => at'[w] = at[w],
         \A v \in Visitors : at[v].conn # NoConn => ask'[v] = ask[v]
  PROVE  SealInv'
<1>0. UNCHANGED <<control, asock, requests, lsocks, job, link>>
  BY DEF AgentDumb
<1> SUFFICES ASSUME ~wrapped PROVE LinksHeld' /\ PlainWork' /\ WholeAnswers' /\ PlainLinks'
  BY DEF SealInv
<1>1. LinksHeld /\ PlainWork /\ WholeAnswers /\ PlainLinks
  BY DEF SealInv
<1>2. LinksHeld'
  BY <1>0, <1>1, LinksStay
<1>3. WholeAnswers' /\ PlainLinks'
  BY <1>0, <1>1, Zenon DEF WholeAnswers, PlainLinks
<1>4. ASSUME NEW v \in Visitors, job[v].st \in AtDsh /\ ~job[v].sealed
      PROVE  requests[job[v].id] = v /\ (ask'[v].kind = "api" => e2eKey = 0)
  <2>1. requests[job[v].id] = v /\ (ask[v].kind = "api" => e2eKey = 0)
    BY <1>1, <1>4 DEF PlainWork
  <2>2. at[v] = Spot(control, job[v].id) /\ control \in Conns
    BY <2>1, SealTypes, Owners
  <2>3. at[v].conn # NoConn
    BY <2>2, Constants DEF Spot
  <2> QED BY <2>1, <2>3
<1>5. PlainWork'
  BY <1>0, <1>4 DEF PlainWork
<1> QED BY <1>2, <1>3, <1>5

\* The local requests, one lemma per way they move.
LEMMA PlainMoves ==
  ASSUME AllInv, PlainWork, WholeAnswers, UNCHANGED <<ask, e2eKey>>,
         NEW v \in Visitors, NEW s \in {"head", "body", "over"} \cup Compressing, job' = [job EXCEPT ![v].st = s],
         s \in AtDsh => ~job[v].sealed /\ job[v].st \in AtDsh /\ UNCHANGED requests,
         \/ UNCHANGED requests
         \/ \E i \in Ids : requests[i] = v /\ requests' = [requests EXCEPT ![i] = None]
  PROVE  PlainWork' /\ WholeAnswers'
<1>1. /\ job'[v] = [job[v] EXCEPT !.st = s] /\ \A x \in Visitors : x # v => job'[x] = job[x]
  BY SealTypes
<1>2. job'[v].st = s /\ job'[v].id = job[v].id /\ (job'[v].sealed <=> job[v].sealed)
  BY <1>1, SealTypes DEF JobSet
<1>3. ASSUME NEW x \in Visitors, x # v PROVE requests[job[x].id] = x => requests'[job[x].id] = x
  BY <1>3, SealTypes
<1>4. ASSUME NEW x \in Visitors, job'[x].st \in AtDsh /\ ~job'[x].sealed
      PROVE  requests'[job'[x].id] = x /\ (ask[x].kind = "api" => e2eKey = 0)
  <2>1. CASE x = v
    <3>1. s \in AtDsh /\ ~job[v].sealed
      BY <1>2, <1>4, <2>1
    <3>2. requests[job[v].id] = v /\ (ask[v].kind = "api" => e2eKey = 0)
      BY <3>1 DEF PlainWork
    <3> QED BY <1>2, <2>1, <3>1, <3>2
  <2>2. CASE x # v
    <3>1. requests[job[x].id] = x /\ (ask[x].kind = "api" => e2eKey = 0)
      BY <1>1, <1>4, <2>2 DEF PlainWork
    <3> QED BY <1>1, <1>3, <2>2, <3>1
  <2> QED BY <2>1, <2>2
<1>5. PlainWork'
  BY <1>4 DEF PlainWork
<1>6. ASSUME NEW x \in Visitors, job'[x].sealed PROVE job'[x].st \notin {"head", "body"}
  <2>1. CASE x = v
    <3>1. job[v].sealed
      BY <1>2, <1>6, <2>1
    <3> QED BY <1>2, <2>1, <3>1 DEF AtDsh
  <2>2. CASE x # v
    BY <1>1, <1>6, <2>2 DEF WholeAnswers
  <2> QED BY <2>1, <2>2
<1> QED BY <1>5, <1>6 DEF WholeAnswers

LEMMA PlainStarts ==
  ASSUME AllInv, PlainWork, WholeAnswers, UNCHANGED <<ask, e2eKey>>, NEW v \in Visitors, NEW id \in Ids, NEW e \in BOOLEAN,
         job' = [job EXCEPT ![v] = StartJob(v, id, e)],
         IF e THEN UNCHANGED requests
         ELSE /\ requests[id] = None /\ requests' = [requests EXCEPT ![id] = v]
              /\ ask[v].kind = "api" => e2eKey = 0
  PROVE  PlainWork' /\ WholeAnswers'
<1>1. job'[v] = StartJob(v, id, e) /\ \A x \in Visitors : x # v => job'[x] = job[x]
  BY SealTypes
<1>2. job'[v].st = "sent" /\ job'[v].id = id
  BY <1>1 DEF StartJob
<1>3. e => job'[v].sealed
  <2>1. e => StartJob(v, id, e).sealed
    BY Zenon DEF StartJob
  <2>2. StartJob(v, id, e).sealed => job'[v].sealed
    BY <1>1, Zenon
  <2> QED BY <2>1, <2>2, Zenon
<1>4. ASSUME NEW x \in Visitors, job'[x].st \in AtDsh /\ ~job'[x].sealed
      PROVE  requests'[job'[x].id] = x /\ (ask[x].kind = "api" => e2eKey = 0)
  <2>1. CASE x = v
    <3>1. ~e
      BY <1>3, <1>4, <2>1
    <3> QED BY <1>2, <2>1, <3>1, SealTypes
  <2>2. CASE x # v
    <3>1. requests[job[x].id] = x /\ (ask[x].kind = "api" => e2eKey = 0)
      BY <1>1, <1>4, <2>2 DEF PlainWork
    <3> QED BY <1>1, <2>2, <3>1, SealTypes
  <2> QED BY <2>1, <2>2
<1>5. PlainWork'
  BY <1>4 DEF PlainWork
<1>6. ASSUME NEW x \in Visitors, job'[x].sealed PROVE job'[x].st \notin {"head", "body"}
  BY <1>1, <1>2, <1>6 DEF WholeAnswers
<1> QED BY <1>5, <1>6 DEF WholeAnswers

LEMMA PlainDropped ==
  ASSUME AllInv, PlainWork, WholeAnswers, DropStreams
  PROVE  PlainWork' /\ WholeAnswers'
<1>1. job' = [v \in Visitors |-> IF v \in InTable(requests) THEN CutShort(job[v]) ELSE job[v]]
  BY DEF DropStreams, DestroyStreams
<1>2. ASSUME NEW v \in Visitors PROVE job'[v].st \notin AtDsh \/ (v \notin InTable(requests) /\ job'[v] = job[v])
  BY <1>1, SealTypes DEF AtDsh, JobSet, CutShort
<1>3. ASSUME NEW v \in Visitors, job'[v].st \in AtDsh, ~job'[v].sealed PROVE FALSE
  <2>1. v \notin InTable(requests) /\ job'[v] = job[v]
    BY <1>2, <1>3
  <2>2. requests[job[v].id] = v
    BY <1>3, <2>1 DEF PlainWork
  <2> QED BY <2>1, <2>2, SealTypes DEF InTable
<1>4. ASSUME NEW v \in Visitors, job'[v].sealed PROVE job'[v].st \notin {"head", "body"}
  <2>1. CASE job'[v].st \notin AtDsh
    BY <2>1 DEF AtDsh
  <2>2. CASE job'[v] = job[v]
    BY <1>4, <2>2 DEF WholeAnswers
  <2> QED BY <1>2, <2>1, <2>2
<1> QED BY <1>3, <1>4 DEF PlainWork, WholeAnswers

\* The released requests: each is in the table, or sealed.
LEMMA PlainSettled ==
  ASSUME AllInv, PlainWork, WholeAnswers, ~wrapped, CookieSettled
  PROVE  PlainWork' /\ WholeAnswers'
<1> DEFINE waiting == {id \in Ids : parked[id] # None}
           plain   == {id \in waiting : Fate(parked[id]) = "replayed"}
           sealed  == {id \in waiting : Fate(parked[id]) = "buffered"}
           opened  == {id \in sealed \cap ended : Opens(parked[id])}
<1>1. /\ requests' = [id \in Ids |-> IF id \in plain THEN parked[id] ELSE requests[id]]
      /\ job' = [v \in Visitors |->
                  IF \E id \in plain \cup opened : parked[id] = v
                  THEN LET id == CHOOSE i \in plain \cup opened : parked[i] = v
                       IN StartJob(v, id, id \in opened)
                  ELSE job[v]]
      /\ UNCHANGED <<ask, e2eKey>>
  BY DEF CookieSettled
<1>2. /\ \A id \in plain : id \in Ids /\ parked[id] # None /\ requests[id] = None
      /\ \A id \in plain : Fate(parked[id]) = "replayed"
      /\ \A id \in opened : id \in Ids
  BY Owners
<1> HIDE DEF plain, opened, sealed
<1>3. ASSUME NEW x \in Visitors
      PROVE  \/ job'[x] = job[x]
             \/ \E id \in plain \cup opened : parked[id] = x /\ job'[x] = StartJob(x, id, id \in opened)
  <2>1. CASE \E id \in plain \cup opened : parked[id] = x
    <3> DEFINE i0 == CHOOSE i \in plain \cup opened : parked[i] = x
    <3>1. i0 \in plain \cup opened /\ parked[i0] = x
      BY <2>1
    <3>2. job'[x] = StartJob(x, i0, i0 \in opened)
      BY <1>1, <2>1, Zenon
    <3> HIDE DEF i0
    <3> QED BY <3>1, <3>2
  <2>2. CASE ~ \E id \in plain \cup opened : parked[id] = x
    BY <1>1, <2>2
  <2> QED BY <2>1, <2>2
<1>4. \A v, id, e : StartJob(v, id, e).st = "sent" /\ StartJob(v, id, e).id = id
  BY DEF StartJob
<1>5. \A v, id : StartJob(v, id, id \in opened).sealed = (id \in opened)
  BY Zenon DEF StartJob
<1>6. ASSUME NEW x \in Visitors, job'[x].st \in AtDsh /\ ~job'[x].sealed
      PROVE  requests'[job'[x].id] = x /\ (ask[x].kind = "api" => e2eKey = 0)
  <2>1. CASE job'[x] = job[x]
    <3>1. requests[job[x].id] = x /\ (ask[x].kind = "api" => e2eKey = 0)
      BY <1>6, <2>1 DEF PlainWork
    <3> QED BY <1>1, <1>2, <2>1, <3>1, SealTypes
  <2>2. ASSUME NEW id \in plain \cup opened, parked[id] = x, job'[x] = StartJob(x, id, id \in opened)
        PROVE  requests'[job'[x].id] = x /\ (ask[x].kind = "api" => e2eKey = 0)
    <3>1. id \in plain
      BY <1>5, <1>6, <2>2
    <3>2. job'[x].id = id
      BY <1>4, <2>2
    <3>3. ask[x].kind = "api" => e2eKey = 0
      BY <1>2, <2>2, <3>1 DEF Fate
    <3> QED BY <1>1, <1>2, <2>2, <3>1, <3>2, <3>3
  <2> QED BY <1>3, <2>1, <2>2
<1>7. PlainWork'
  BY <1>1, <1>6 DEF PlainWork
<1>8. ASSUME NEW x \in Visitors, job'[x].sealed PROVE job'[x].st \notin {"head", "body"}
  BY <1>3, <1>4, <1>8 DEF WholeAnswers
<1> QED BY <1>7, <1>8 DEF WholeAnswers

\* What may be put on the wire at this moment.
InTheClear(f) ==
  /\ f.key = 0
  /\ \/ f.t = "res_body" /\ ask[f.who].kind = "api" /\ job[f.who].st \notin {"zipped", "spill"}
     \/ f.t = "ws_msg" /\ link[f.who].st = "open"
Sayings    == {f \in FrameSet : InTheClear(f) => e2eKey = 0}
SpokenWell == \A n \in Conns : \A i \in 1..Len(up'[n]) : i > Len(up[n]) /\ InTheClear(up'[n][i]) => e2eKey = 0

LEMMA SaysWell ==
  ASSUME AllInv, NEW fs \in Seq(Sayings), AgentSend(fs)
  PROVE  SpokenWell
<1>1. up \in [Conns -> Seq(FrameSet)]
  BY DEF AllInv, TypeInv, UpOK
<1>2. Sayings \subseteq FrameSet /\ \A k \in 1..Len(fs) : InTheClear(fs[k]) => e2eKey = 0
  BY DEF Sayings
<1>3. fs \in Seq(FrameSet)
  BY <1>2, SeqGrows
<1>4. up' = up \/ up' = Posted(up, control, fs)
  BY DEF AgentSend
<1> SUFFICES ASSUME NEW n \in Conns, NEW i \in 1..Len(up'[n]), i > Len(up[n]), InTheClear(up'[n][i])
             PROVE  e2eKey = 0
  BY DEF SpokenWell
<1>5. i \notin 1..Len(up[n])
  BY <1>1
<1>6. \/ i \in 1..Len(up[n])
      \/ \E k \in 1..Len(fs) : up'[n][i] = fs[k]
  <2>1. CASE up' = up
    BY <2>1
  <2>2. CASE up' = Posted(up, control, fs)
    <3>1. \/ i \in 1..Len(up[n]) /\ Posted(up, control, fs)[n][i] = up[n][i]
          \/ n = control /\ \E k \in 1..Len(fs) : i = Len(up[n]) + k /\ Posted(up, control, fs)[n][i] = fs[k]
      BY <1>1, <1>3, <2>2, Appended
    <3> QED BY <2>2, <3>1
  <2> QED BY <1>4, <2>1, <2>2
<1> QED BY <1>2, <1>5, <1>6

LEMMA SaysNothing ==
  ASSUME AllInv, UpShrinks
  PROVE  SpokenWell
<1> SUFFICES ASSUME NEW n \in Conns, NEW i \in 1..Len(up'[n]), i > Len(up[n]) PROVE FALSE
  BY DEF SpokenWell
<1>1. up[n] \in Seq(FrameSet) /\ Len(up[n]) \in Nat
  BY DEF AllInv, TypeInv, UpOK
<1>2. up[n] # << >> => Len(Tail(up[n])) = Len(up[n]) - 1
  BY <1>1
<1>3. CASE up'[n] = up[n]
  BY <1>1, <1>3
<1>4. CASE up'[n] = << >>
  BY <1>4
<1>5. CASE up[n] # << >> /\ up'[n] = Tail(up[n])
  BY <1>1, <1>2, <1>5
<1> QED BY <1>3, <1>4, <1>5 DEF UpShrinks

\* Whatever is not an answer's body or an event may be said at any time, and a
\* text of the agent's own is not in the clear.
LEMMA FreeToSay ==
  ASSUME NEW id \in Ids, NEW w \in Whos
  PROVE  /\ \A t \in {"res_head", "res_end", "abort", "ws_close", "ws_reject"} :
              <<Ctl(t, id, w)>> \in Seq(Sayings) /\ <<Ctl(t, id, w), Ctl(t, id, w)>> \in Seq(Sayings)
         /\ \A k \in 1..Note : <<Ctl("res_head", id, w), Data("res_body", id, w, k), Ctl("res_end", id, w)>> \in Seq(Sayings)
<1> DEFINE S == Sayings
<1>1. ASSUME NEW t \in {"res_head", "res_end", "abort", "ws_close", "ws_reject"} PROVE Ctl(t, id, w) \in S
  <2>1. t \in FrameTypes /\ w \in Whos \cup {None} /\ 0 \in 0..(MaxKey + 1)
    BY Constants DEF FrameTypes
  <2>2. Ctl(t, id, w) \in FrameSet /\ Ctl(t, id, w).t = t
    BY <2>1, FrameType
  <2> QED BY <2>2 DEF Sayings, InTheClear
<1>2. ASSUME NEW k \in 1..Note PROVE Data("res_body", id, w, k) \in S
  <2>1. "res_body" \in FrameTypes /\ w \in Whos \cup {None} /\ k \in 0..(MaxKey + 1) /\ k # 0
    BY Constants DEF FrameTypes, Note
  <2>2. Data("res_body", id, w, k) \in FrameSet /\ Data("res_body", id, w, k).key = k
    BY <2>1, FrameType
  <2> QED BY <2>1, <2>2 DEF Sayings, InTheClear
<1> HIDE DEF S
<1>3. ASSUME NEW t \in {"res_head", "res_end", "abort", "ws_close", "ws_reject"}
      PROVE  <<Ctl(t, id, w)>> \in Seq(S) /\ <<Ctl(t, id, w), Ctl(t, id, w)>> \in Seq(S)
  BY <1>1
<1>4. ASSUME NEW k \in 1..Note
      PROVE  <<Ctl("res_head", id, w), Data("res_body", id, w, k), Ctl("res_end", id, w)>> \in Seq(S)
  BY <1>1, <1>2
<1> QED BY <1>3, <1>4 DEF S

LEMMA RefusalFree ==
  ASSUME NEW id \in Ids, NEW w \in Whos
  PROVE  Refusal(id, w) \in Seq(Sayings)
<1>1. Note \in 1..Note
  BY Constants DEF Note
<1> QED BY <1>1, FreeToSay DEF Refusal

LEMMA LastWordsFree ==
  ASSUME AllInv, NEW v \in Visitors
  PROVE  LastWords(v) \in Seq(Sayings) /\ <<Ctl("abort", job[v].id, v)>> \in Seq(Sayings)
BY SealTypes, WhosAre, RefusalFree, FreeToSay DEF LastWords

LEMMA NothingFree == << >> \in Seq(Sayings)
BY EmptySeq

LEMMA ClosedEarlyFree ==
  ASSUME AllInv, NEW id \in Ids
  PROVE  /\ ClosedEarly(id) \in Seq(Sayings)
         /\ (IF ClosedEarly(id) = << >> THEN << >> ELSE <<Head(ClosedEarly(id))>>) \in Seq(Sayings)
<1>1. lsocks[id] # None => lsocks[id] \in Whos
  BY TalkTypes, WhosAre
<1>2. CASE ClosedEarly(id) = << >>
  BY <1>2, NothingFree
<1>3. CASE ClosedEarly(id) # << >>
  <2> DEFINE g == Ctl("ws_close", id, lsocks[id])
  <2>1. lsocks[id] # None /\ ClosedEarly(id) = <<g, g>>
    BY <1>3 DEF ClosedEarly
  <2>2. <<g>> \in Seq(Sayings) /\ <<g, g>> \in Seq(Sayings)
    BY <1>1, <2>1, FreeToSay
  <2>3. Head(<<g, g>>) = g
    OBVIOUS
  <2> HIDE DEF g
  <2> QED BY <1>3, <2>1, <2>2, <2>3
<1> QED BY <1>2, <1>3

LEMMA TwoFree == ASSUME NEW s \in Seq(Sayings), NEW r \in Seq(Sayings) PROVE s \o r \in Seq(Sayings)
<1> DEFINE S == Sayings
<1> HIDE DEF S
<1>1. s \in Seq(S) /\ r \in Seq(S)
  BY DEF S
<1>2. s \o r \in Seq(S)
  BY <1>1
<1> QED BY <1>2 DEF S

Sealed == SealInv' /\ (~wrapped => SpokenWell)

LEMMA SealStands ==
  ASSUME wrapped' = wrapped, ~wrapped => LinksHeld' /\ PlainWork' /\ WholeAnswers' /\ PlainLinks' /\ SpokenWell
  PROVE  Sealed
BY DEF Sealed, SealInv

LEMMA SealStill ==
  /\ PlainWork /\ WholeAnswers /\ UNCHANGED <<job, requests, ask, e2eKey>> => PlainWork' /\ WholeAnswers'
  /\ PlainLinks /\ UNCHANGED <<link, e2eKey>> => PlainLinks'
<1>1. PlainWork /\ UNCHANGED <<job, requests, ask, e2eKey>> => PlainWork'
  BY Zenon DEF PlainWork
<1>2. WholeAnswers /\ UNCHANGED job => WholeAnswers'
  BY Zenon DEF WholeAnswers
<1>3. PlainLinks /\ UNCHANGED <<link, e2eKey>> => PlainLinks'
  BY Zenon DEF PlainLinks
<1> QED BY <1>1, <1>2, <1>3

\* The steps of the relay's side say nothing for the agent, and move nobody who
\* has a place.
LEMMA RelayIsQuiet ==
  ASSUME AllInv,
         \/ Public \/ RelaySteps
         \/ \E v \in Visitors : Request(v)
         \/ \E n \in Conns : Loss(n) \/ RelayReceive(n)
  PROVE  UpShrinks /\ (wrapped => wrapped') /\ \A w \in Whos : at[w].conn # NoConn => at'[w] = at[w]
<1>0. up \in [Conns -> Seq(FrameSet)] /\ at \in [Whos -> [conn : Conns \cup {NoConn}, id : Ids]]
  BY DEF AllInv, TypeInv, UpOK, RelayTypeOK
<1>1. ASSUME UNCHANGED <<up, at, wrapped>>
      PROVE  UpShrinks /\ (wrapped => wrapped') /\ \A w \in Whos : at[w].conn # NoConn => at'[w] = at[w]
  BY <1>1 DEF UpShrinks
<1>2. ASSUME NEW w \in Whos, at[w].conn = NoConn, UNCHANGED up, wrapped => wrapped',
             \E p : at' = at \/ at' = [at EXCEPT ![w] = p]
      PROVE  UpShrinks /\ \A x \in Whos : at[x].conn # NoConn => at'[x] = at[x]
  BY <1>0, <1>2 DEF UpShrinks
<1>3. ASSUME NEW v \in Visitors, Request(v)
      PROVE  UpShrinks /\ (wrapped => wrapped') /\ \A w \in Whos : at[w].conn # NoConn => at'[w] = at[w]
  <2>1. at[v].conn = NoConn /\ v \in Whos /\ UNCHANGED up
    BY <1>3, WhosAre DEF AllInv, AgentInv, Unplaced, Request
  <2>2. wrapped => wrapped'
    BY <1>3, Zenon DEF Request
  <2>3. at' = at \/ \E p : at' = [at EXCEPT ![v] = p]
    BY <1>3 DEF Request
  <2> QED BY <1>2, <2>1, <2>2, <2>3
<1>4. ASSUME NEW b \in Browsers, Upgrade(b)
      PROVE  UpShrinks /\ (wrapped => wrapped') /\ \A w \in Whos : at[w].conn # NoConn => at'[w] = at[w]
  <2>1. at[b].conn = NoConn /\ b \in Whos /\ UNCHANGED up
    BY <1>4, WhosAre DEF AllInv, AgentInv, Unplaced, Upgrade
  <2>2. wrapped => wrapped'
    BY <1>4, Zenon DEF Upgrade
  <2>3. at' = at \/ \E p : at' = [at EXCEPT ![b] = p]
    BY <1>4 DEF Upgrade
  <2> QED BY <1>2, <2>1, <2>2, <2>3
<1>5. ASSUME NEW v \in Visitors, RequestEnd(v) \/ RequestError(v) \/ ClientClose(v) PROVE UNCHANGED <<up, at, wrapped>>
  BY <1>5 DEF RequestEnd, RequestError, ClientClose
<1>6. ASSUME NEW b \in Browsers, BrowserMessage(b) \/ BrowserClose(b) PROVE UNCHANGED <<up, at, wrapped>>
  BY <1>6 DEF BrowserMessage, BrowserClose, relayVars
<1>7. ASSUME NEW n \in Conns, Admit(n) \/ Terminate(n) \/ Loss(n) PROVE UNCHANGED <<up, at, wrapped>>
  BY <1>7 DEF Admit, Terminate, Loss, Lose, relayVars
<1>8. ASSUME NEW n \in Conns, NEW id \in Ids, IdleTimeout(n, id) PROVE UNCHANGED <<up, at, wrapped>>
  BY <1>8 DEF IdleTimeout
<1>9. ASSUME NEW n \in Conns, CloseEvent(n) \/ RelayReceive(n)
      PROVE  UpShrinks /\ (wrapped => wrapped') /\ \A w \in Whos : at[w].conn # NoConn => at'[w] = at[w]
  <2>1. CloseEvent(n) => up' = [up EXCEPT ![n] = << >>] /\ UNCHANGED <<at, wrapped>>
    BY DEF CloseEvent
  <2>2. RelayReceive(n) => up[n] # << >> /\ up' = [up EXCEPT ![n] = Tail(@)] /\ UNCHANGED <<at, wrapped>>
    BY DEF RelayReceive, PeerClose, OnAgentFrame, relayVars
  <2>3. UNCHANGED <<at, wrapped>>
    BY <1>9, <2>1, <2>2
  <2>4. UpShrinks
    BY <1>0, <1>9, <2>1, <2>2 DEF UpShrinks
  <2> QED BY <2>3, <2>4
<1> QED BY <1>1, <1>3, <1>4, <1>5, <1>6, <1>7, <1>8, <1>9 DEF Public, RelaySteps

LEMMA RelaySideSeals ==
  ASSUME AllInv, SealInv,
         \/ UNCHANGED agentVars /\ (Public \/ RelaySteps \/ \E n \in Conns : Loss(n) \/ RelayReceive(n))
         \/ \E v \in Visitors : Arrive(v)
  PROVE  Sealed
<1>1. AgentDumb /\ UNCHANGED e2eKey
  BY DEF AgentDumb, agentVars, Arrive
<1>2. UpShrinks /\ (wrapped => wrapped') /\ \A w \in Whos : at[w].conn # NoConn => at'[w] = at[w]
  BY RelayIsQuiet DEF Arrive
<1>3. ASSUME NEW x \in Visitors, at[x].conn # NoConn PROVE ask'[x] = ask[x]
  <2>1. CASE UNCHANGED agentVars
    BY <2>1 DEF agentVars
  <2>2. ASSUME NEW v \in Visitors, Arrive(v) PROVE ask'[x] = ask[x]
    <3>1. at[v].conn = NoConn
      BY <2>2 DEF AllInv, AgentInv, Unplaced, Arrive, Request
    <3>2. \E a : ask' = [ask EXCEPT ![v] = a]
      BY <2>2 DEF Arrive
    <3>3. ask \in [Visitors -> Asks]
      BY DEF AllInv, TypeInv, AgentTypeOK
    <3> QED BY <1>3, <3>1, <3>2, <3>3
  <2> QED BY <2>1, <2>2
<1>4. SealInv'
  BY <1>1, <1>2, <1>3, SealStays
<1> QED BY <1>2, <1>4, SaysNothing DEF Sealed

\* A local socket opens, or is done with.
LEMMA LinkCalm ==
  ASSUME AllInv, PlainLinks, UNCHANGED e2eKey, NEW b \in Browsers, NEW s, link' = [link EXCEPT ![b].st = s],
         s \in {"connecting", "open"} => link[b].st \in {"connecting", "open"}
  PROVE  PlainLinks'
<1>1. /\ link'[b] = [link[b] EXCEPT !.st = s] /\ \A c \in Browsers : c # b => link'[c] = link[c]
  BY SealTypes
<1>2. link'[b].st = s /\ (link'[b].sealed <=> link[b].sealed)
  BY <1>1, SealTypes DEF LinkSet
<1>3. ASSUME NEW c \in Browsers, link'[c].st \in {"connecting", "open"} /\ ~link'[c].sealed PROVE e2eKey = 0
  <2>1. CASE c = b
    BY <1>2, <1>3, <2>1 DEF PlainLinks
  <2>2. CASE c # b
    BY <1>1, <1>3, <2>2 DEF PlainLinks
  <2> QED BY <2>1, <2>2
<1> QED BY <1>3 DEF PlainLinks

LEMMA CloseCalm ==
  ASSUME AllInv, PlainLinks, UNCHANGED e2eKey, NEW id \in Ids, CloseLocal(id)
  PROVE  PlainLinks'
<1> DEFINE b == lsocks[id]
<1>1. b \in Browsers \cup {None}
  BY TalkTypes
<1>2. link' = link \/ (b # None /\ \E s \in {"over", "closing"} : link' = [link EXCEPT ![b].st = s])
  BY DEF CloseLocal
<1> HIDE DEF b
<1>3. ASSUME b # None, NEW s \in {"over", "closing"}, link' = [link EXCEPT ![b].st = s] PROVE PlainLinks'
  BY <1>1, <1>3, LinkCalm
<1> QED BY <1>2, <1>3, SealStill

\* The steps of the agent's side: the frames it reads.
LEMMA RequestSeals ==
  ASSUME AllInv, SealInv, NEW f \in DownFrames, f.t = "req_head", ~wrapped => requests[f.id] = None,
         ReqHead(f), UNCHANGED <<control, asock, at, wrapped, ask, e2eKey>>
  PROVE  Sealed
<1>1. f.who \in Visitors /\ f.who \in Whos /\ f.id \in Ids
  BY WhosAre DEF DownFrames, FrameSet
<1>2. OpenRequest(f.who, f.id) /\ UNCHANGED <<lsocks, link>>
  BY DEF ReqHead
<1> SUFFICES ASSUME ~wrapped PROVE LinksHeld' /\ PlainWork' /\ WholeAnswers' /\ PlainLinks' /\ SpokenWell
  BY SealStands
<1>3. LinksHeld /\ PlainWork /\ WholeAnswers /\ PlainLinks
  BY DEF SealInv
<1>4. LinksHeld' /\ PlainLinks'
  BY <1>2, <1>3, Still, SealStill
<1>5. ASSUME AgentSend(Refusal(f.id, f.who)), UNCHANGED <<requests, job>> PROVE PlainWork' /\ WholeAnswers' /\ SpokenWell
  BY <1>1, <1>3, <1>5, RefusalFree, SaysWell, SealStill
<1>6. ASSUME UNCHANGED up PROVE SpokenWell
  BY <1>6, SaysNothing DEF UpShrinks
<1>7. ASSUME UNCHANGED <<requests, job, up>> PROVE PlainWork' /\ WholeAnswers' /\ SpokenWell
  BY <1>3, <1>6, <1>7, SealStill
<1>8. ASSUME Fate(f.who) = "replayed", requests' = [requests EXCEPT ![f.id] = f.who],
             job' = [job EXCEPT ![f.who] = StartJob(f.who, f.id, FALSE)], UNCHANGED up
      PROVE  PlainWork' /\ WholeAnswers' /\ SpokenWell
  <2>1. ask[f.who].kind = "api" => e2eKey = 0
    BY <1>8 DEF Fate
  <2>2. PlainWork' /\ WholeAnswers'
    BY <1>1, <1>3, <1>8, <2>1, PlainStarts
  <2> QED BY <1>6, <1>8, <2>2
<1>9. PlainWork' /\ WholeAnswers' /\ SpokenWell
  BY <1>2, <1>5, <1>7, <1>8 DEF OpenRequest, Replay
<1> QED BY <1>4, <1>9

LEMMA EndSeals ==
  ASSUME AllInv, SealInv, NEW f \in DownFrames, ReqEnd(f), UNCHANGED <<control, asock, at, wrapped, ask, e2eKey>>
  PROVE  Sealed
<1> DEFINE v == buffered[f.id]
<1>1. f.id \in Ids /\ v \in Visitors \cup {None} /\ Visitors \subseteq Whos
  BY TalkTypes, WhosAre DEF DownFrames, FrameSet
<1>2. UNCHANGED <<requests, lsocks, link>>
  BY DEF ReqEnd
<1> SUFFICES ASSUME ~wrapped PROVE LinksHeld' /\ PlainWork' /\ WholeAnswers' /\ PlainLinks' /\ SpokenWell
  BY SealStands
<1>3. LinksHeld /\ PlainWork /\ WholeAnswers /\ PlainLinks
  BY DEF SealInv
<1>4. LinksHeld' /\ PlainLinks'
  BY <1>2, <1>3, Still, SealStill
<1>5. UNCHANGED up => SpokenWell
  BY SaysNothing DEF UpShrinks
<1>6. \/ UNCHANGED <<job, up>>
      \/ v # None /\ job' = [job EXCEPT ![v] = StartJob(v, f.id, TRUE)] /\ UNCHANGED up
      \/ v # None /\ AgentSend(Refusal(f.id, v)) /\ UNCHANGED job
  BY DEF ReqEnd, FinishE2E
<1> HIDE DEF v
<1>7. CASE UNCHANGED <<job, up>>
  BY <1>2, <1>3, <1>4, <1>5, <1>7, SealStill
<1>8. CASE v # None /\ job' = [job EXCEPT ![v] = StartJob(v, f.id, TRUE)] /\ UNCHANGED up
  <2>1. PlainWork' /\ WholeAnswers'
    BY <1>1, <1>2, <1>3, <1>8, PlainStarts
  <2> QED BY <1>4, <1>5, <1>8, <2>1
<1>9. CASE v # None /\ AgentSend(Refusal(f.id, v)) /\ UNCHANGED job
  <2>1. Refusal(f.id, v) \in Seq(Sayings)
    BY <1>1, <1>9, RefusalFree
  <2> QED BY <1>2, <1>3, <1>4, <1>9, <2>1, SaysWell, SealStill
<1> QED BY <1>6, <1>7, <1>8, <1>9

LEMMA AbortSeals ==
  ASSUME AllInv, SealInv, NEW f \in DownFrames, RelayAbort(f), UNCHANGED <<control, asock, at, wrapped, ask, e2eKey>>
  PROVE  Sealed
<1> DEFINE v == requests[f.id]
           fs == (IF v = None THEN << >> ELSE LastWords(v)) \o ClosedEarly(f.id)
<1>1. f.id \in Ids /\ v \in Visitors \cup {None}
  BY TalkTypes DEF DownFrames, FrameSet
<1>2. /\ job' = Destroyed(v) /\ requests' = [requests EXCEPT ![f.id] = None] /\ CloseLocal(f.id) /\ AgentSend(fs)
  BY DEF RelayAbort
<1> SUFFICES ASSUME ~wrapped PROVE LinksHeld' /\ PlainWork' /\ WholeAnswers' /\ PlainLinks' /\ SpokenWell
  BY SealStands
<1>3. LinksHeld /\ PlainWork /\ WholeAnswers /\ PlainLinks
  BY DEF SealInv
<1>4. LinksHeld' /\ PlainLinks'
  BY <1>1, <1>2, <1>3, LinkClosed, CloseCalm
<1>5. PlainWork' /\ WholeAnswers'
  <2>1. CASE v = None
    BY <1>1, <1>2, <1>3, <2>1, SealTypes, SealStill DEF Destroyed
  <2>2. CASE v # None
    <3>1. requests[f.id] = v /\ \E t \in {"over", "spill"} : job' = [job EXCEPT ![v].st = t]
      BY <1>2, <2>2 DEF Destroyed, CutShort
    <3>2. \E i \in Ids : requests[i] = v /\ requests' = [requests EXCEPT ![i] = None]
      BY <1>1, <1>2
    <3>3. {"over", "spill"} \subseteq {"head", "body", "over"} \cup Compressing /\ "over" \notin AtDsh /\ "spill" \notin AtDsh
      BY DEF Compressing, AtDsh
    <3> HIDE DEF v
    <3> QED BY <1>1, <1>3, <2>2, <3>1, <3>2, <3>3, PlainMoves
  <2> QED BY <2>1, <2>2
<1>6. (IF v = None THEN << >> ELSE LastWords(v)) \in Seq(Sayings) /\ ClosedEarly(f.id) \in Seq(Sayings)
  BY <1>1, LastWordsFree, NothingFree, ClosedEarlyFree
<1>7. fs \in Seq(Sayings)
  BY <1>6, TwoFree
<1> HIDE DEF fs
<1>8. SpokenWell
  BY <1>2, <1>7, SaysWell
<1> QED BY <1>4, <1>5, <1>8

LEMMA SocketSeals ==
  ASSUME AllInv, SealInv, NEW f \in DownFrames, UNCHANGED <<control, asock, at, wrapped, ask, e2eKey>>,
         control \in Conns, ~wrapped => Placed(at, control, f),
         \/ f.t = "ws_open" /\ WsOpen(f)
         \/ f.t = "ws_msg" /\ WsData(f)
         \/ WsClose(f)
  PROVE  Sealed
<1>1. f.id \in Ids /\ (f.t = "ws_open" => f.who \in Browsers /\ f.who \in Whos)
  BY WhosAre DEF DownFrames, FrameSet
<1>2. UNCHANGED <<job, requests>>
  BY DEF WsOpen, WsData, WsClose
<1> SUFFICES ASSUME ~wrapped PROVE LinksHeld' /\ PlainWork' /\ WholeAnswers' /\ PlainLinks' /\ SpokenWell
  BY SealStands
<1>3. LinksHeld /\ PlainWork /\ WholeAnswers /\ PlainLinks
  BY DEF SealInv
<1>4. PlainWork' /\ WholeAnswers'
  BY <1>2, <1>3, SealStill
<1>5. UNCHANGED up => SpokenWell
  BY SaysNothing DEF UpShrinks
<1>6. ASSUME f.t = "ws_open", WsOpen(f) PROVE LinksHeld' /\ PlainLinks' /\ SpokenWell
  <2> DEFINE e == e2eKey # 0
  <2>1. /\ lsocks' = [lsocks EXCEPT ![f.id] = f.who] /\ UNCHANGED up
        /\ link' = [link EXCEPT ![f.who] = [st |-> "connecting", id |-> f.id, sealed |-> e]]
    BY <1>6 DEF WsOpen
  <2>2. e \in BOOLEAN /\ (e <=> e2eKey # 0)
    OBVIOUS
  <2> HIDE DEF e
  <2>3. at[f.who] = Spot(control, f.id)
    BY <1>6 DEF Placed
  <2>4. LinksHeld'
    BY <1>1, <1>3, <1>6, <2>1, <2>2, <2>3, LinkStarts
  <2>5. /\ link'[f.who] = [st |-> "connecting", id |-> f.id, sealed |-> e]
        /\ \A c \in Browsers : c # f.who => link'[c] = link[c]
    BY <1>1, <1>6, <2>1, SealTypes
  <2>6. e => link'[f.who].sealed
    <3>1. e => [st |-> "connecting", id |-> f.id, sealed |-> e].sealed
      BY Zenon
    <3> QED BY <2>5, <3>1, Zenon
  <2>7. ASSUME NEW c \in Browsers, link'[c].st \in {"connecting", "open"} /\ ~link'[c].sealed PROVE e2eKey = 0
    <3>1. CASE c = f.who
      BY <2>2, <2>6, <2>7, <3>1
    <3>2. CASE c # f.who
      BY <1>3, <2>5, <2>7, <3>2 DEF PlainLinks
    <3> QED BY <3>1, <3>2
  <2>8. PlainLinks'
    BY <2>7 DEF PlainLinks
  <2> QED BY <1>5, <2>1, <2>4, <2>8
<1>7. ASSUME WsData(f) PROVE LinksHeld' /\ PlainLinks' /\ SpokenWell
  BY <1>3, <1>5, <1>7, Still, SealStill DEF WsData
<1>8. ASSUME WsClose(f) PROVE LinksHeld' /\ PlainLinks' /\ SpokenWell
  <2>1. CloseLocal(f.id) /\ AgentSend(ClosedEarly(f.id))
    BY <1>8 DEF WsClose
  <2>2. LinksHeld' /\ PlainLinks'
    BY <1>1, <1>3, <2>1, LinkClosed, CloseCalm
  <2>3. SpokenWell
    BY <1>1, <2>1, ClosedEarlyFree, SaysWell
  <2> QED BY <2>2, <2>3
<1> QED BY <1>4, <1>6, <1>7, <1>8

LEMMA ReceiveSeals ==
  ASSUME AllInv, SealInv, NEW n \in Conns, AgentReceive(n)
  PROVE  Sealed
<1> DEFINE f == Head(down[n])
<1>1. /\ asock[n] \in {"open", "closing"} /\ down[n] # << >> /\ AgentDispatch(f) /\ UNCHANGED relayVars
  BY DEF AgentReceive
<1>2. n = control
  BY <1>1 DEF AllInv, AgentInv, Sole
<1>3. f \in DownFrames /\ down[n][1] = f /\ 1 \in 1..Len(down[n])
  BY <1>1, TailLags, TakenType DEF AllInv, TypeInv, DownOK
<1>4. Placed(at, control, f)
  BY <1>2, <1>3 DEF AllInv, AgentInv, DownPlaced
<1>5. ~wrapped /\ f.t = "req_head" => requests[f.id] = None
  <2>1. f.id \in Ids
    BY <1>3 DEF DownFrames, FrameSet
  <2> QED BY <1>2, <1>3, <2>1 DEF AllInv, AgentInv, Unopened, Free
<1> HIDE DEF f
<1>6. UNCHANGED <<control, asock, at, wrapped, ask, e2eKey>> /\ control \in Conns
  BY <1>1, <1>2 DEF relayVars, AgentDispatch
<1>7. f.t = "req_head" /\ ReqHead(f) => Sealed
  BY <1>3, <1>5, <1>6, RequestSeals
<1>8. ReqEnd(f) \/ RelayAbort(f) => Sealed
  BY <1>3, <1>6, EndSeals, AbortSeals
<1>9. (f.t = "ws_open" /\ WsOpen(f)) \/ (f.t = "ws_msg" /\ WsData(f)) \/ WsClose(f) => Sealed
  BY <1>3, <1>4, <1>6, SocketSeals
<1> QED BY <1>1, <1>7, <1>8, <1>9 DEF AgentDispatch

\* The local requests and sockets speak.
LEMMA LocalSeals ==
  ASSUME AllInv, SealInv, UNCHANGED relayVars, NEW v \in Visitors,
         LocalHead(v) \/ LocalBody(v) \/ LocalRead(v) \/ LocalEnd(v) \/ LocalSpill(v) \/ LocalError(v) \/ LocalAnswer(v)
  PROVE  Sealed
<1>1. UNCHANGED <<control, asock, at, wrapped, lsocks, link, ask, e2eKey>>
  BY DEF LocalHead, LocalBody, LocalRead, LocalEnd, LocalSpill, LocalError, LocalAnswer, JobsOnly, relayVars
<1>2. job[v].id \in Ids /\ v \in Whos
  BY SealTypes, WhosAre
<1> SUFFICES ASSUME ~wrapped PROVE LinksHeld' /\ PlainWork' /\ WholeAnswers' /\ PlainLinks' /\ SpokenWell
  BY <1>1, SealStands
<1>3. LinksHeld /\ PlainWork /\ WholeAnswers /\ PlainLinks
  BY DEF SealInv
<1>4. LinksHeld' /\ PlainLinks'
  BY <1>1, <1>3, Still, SealStill
<1>5. job[v].st \in AtDsh /\ ~job[v].sealed => requests[job[v].id] = v /\ (ask[v].kind = "api" => e2eKey = 0)
  BY <1>3 DEF PlainWork
<1>6. job[v].st \in {"head", "body"} => ~job[v].sealed /\ job[v].st \in AtDsh
  BY <1>3 DEF WholeAnswers, AtDsh
<1>7. PlainWork' /\ WholeAnswers'
  <2>1. ASSUME NEW s \in {"head", "body"}, job' = [job EXCEPT ![v].st = s], ~job[v].sealed, job[v].st \in AtDsh, UNCHANGED requests
        PROVE  PlainWork' /\ WholeAnswers'
    <3>1. s \in {"head", "body", "over"} \cup Compressing
      BY <2>1
    <3> QED BY <1>1, <1>3, <2>1, <3>1, PlainMoves
  <2>2. ASSUME NEW s \in {"over"} \cup Compressing, job' = [job EXCEPT ![v].st = s],
               \/ UNCHANGED requests
               \/ ~job[v].sealed /\ job[v].st \in AtDsh /\ requests' = [requests EXCEPT ![job[v].id] = None]
        PROVE  PlainWork' /\ WholeAnswers'
    <3>1. \/ UNCHANGED requests
          \/ \E i \in Ids : requests[i] = v /\ requests' = [requests EXCEPT ![i] = None]
      BY <1>2, <1>5, <2>2
    <3>2. s \in {"head", "body", "over"} \cup Compressing /\ s \notin AtDsh
      BY <2>2 DEF AtDsh, Compressing
    <3> QED BY <1>1, <1>3, <2>2, <3>1, <3>2, PlainMoves
  <2>3. LocalHead(v) => PlainWork' /\ WholeAnswers'
    BY <2>1 DEF LocalHead, AtDsh
  <2>4. ASSUME LocalBody(v) PROVE PlainWork' /\ WholeAnswers'
    <3>1. /\ job[v].st \in {"head", "zipped"} /\ UNCHANGED requests
          /\ job' = [job EXCEPT ![v].st = IF job[v].st = "head" THEN "body" ELSE "flushing"]
      BY <2>4 DEF LocalBody
    <3>2. CASE job[v].st = "head"
      <4>1. job' = [job EXCEPT ![v].st = "body"]
        BY <3>1, <3>2
      <4> QED BY <1>6, <2>1, <3>1, <3>2, <4>1
    <3>3. CASE job[v].st = "zipped"
      <4>1. job' = [job EXCEPT ![v].st = "flushing"] /\ "flushing" \in Compressing
        BY <3>1, <3>3 DEF Compressing
      <4> QED BY <2>2, <3>1, <4>1
    <3> QED BY <3>1, <3>2, <3>3
  <2>5. ASSUME LocalRead(v) PROVE PlainWork' /\ WholeAnswers'
    <3>1. /\ job[v].st \in {"head", "body"} /\ requests' = [requests EXCEPT ![job[v].id] = None]
          /\ \E t \in {"zipped", "flushing"} : job' = [job EXCEPT ![v].st = t]
      BY <2>5 DEF LocalRead
    <3>2. {"zipped", "flushing"} \subseteq Compressing
      BY DEF Compressing
    <3> QED BY <1>6, <2>2, <3>1, <3>2
  <2>6. LocalEnd(v) \/ LocalSpill(v) => PlainWork' /\ WholeAnswers'
    BY <2>2 DEF LocalEnd, LocalSpill
  <2>7. ASSUME LocalError(v) PROVE PlainWork' /\ WholeAnswers'
    <3>1. /\ job[v].st \in AtDsh /\ \E t \in {"over", "spill"} : job' = [job EXCEPT ![v].st = t]
          /\ IF job[v].sealed THEN UNCHANGED requests ELSE requests' = [requests EXCEPT ![job[v].id] = None]
      BY <2>7 DEF LocalError, CutShort
    <3>2. {"over", "spill"} \subseteq {"over"} \cup Compressing
      BY DEF Compressing
    <3> QED BY <2>2, <3>1, <3>2
  <2>8. LocalAnswer(v) => PlainWork' /\ WholeAnswers'
    BY <2>2 DEF LocalAnswer
  <2> QED BY <2>3, <2>4, <2>5, <2>6, <2>7, <2>8
<1>8. SpokenWell
  <2>1. UNCHANGED up => SpokenWell
    BY SaysNothing DEF UpShrinks
  <2>2. ASSUME NEW t \in {"res_head", "res_end", "abort"}, AgentSend(<<Ctl(t, job[v].id, v)>>) PROVE SpokenWell
    BY <1>2, <2>2, FreeToSay, SaysWell
  <2>3. ASSUME AgentSend(<<Data("res_body", job[v].id, v, 0)>>), job[v].st \in {"head", "zipped", "spill"} PROVE SpokenWell
    <3> DEFINE g == Data("res_body", job[v].id, v, 0)
               S == Sayings
    <3>1. "res_body" \in FrameTypes /\ v \in Whos \cup {None} /\ 0 \in 0..(MaxKey + 1)
      BY <1>2, Constants DEF FrameTypes
    <3>2. g \in FrameSet /\ g.t = "res_body" /\ g.who = v
      BY <1>2, <3>1, FrameType
    <3>3. ask[v].kind = "api" /\ job[v].st \notin {"zipped", "spill"} => e2eKey = 0
      BY <1>5, <1>6, <2>3
    <3>4. AgentSend(<<g>>)
      BY <2>3
    <3> HIDE DEF g
    <3>5. g \in S
      BY <3>2, <3>3 DEF Sayings, InTheClear
    <3> HIDE DEF S
    <3>6. <<g>> \in Seq(S)
      BY <3>5
    <3>7. <<g>> \in Seq(Sayings)
      BY <3>6 DEF S
    <3> QED BY <3>4, <3>7, SaysWell
  <2>4. ASSUME LocalAnswer(v) PROVE SpokenWell
    <3>1. CASE e2eKey = 0
      BY <2>1, <2>4, <3>1 DEF LocalAnswer
    <3>2. CASE e2eKey # 0
      <4>1. e2eKey \in 1..Note
        BY <3>2, Constants DEF AllInv, TypeInv, AgentTypeOK, Keys, Note
      <4>2. Answer(job[v].id, v, e2eKey) \in Seq(Sayings)
        BY <1>2, <4>1, FreeToSay DEF Answer
      <4>3. AgentSend(Answer(job[v].id, v, e2eKey))
        BY <2>4, <3>2 DEF LocalAnswer
      <4> QED BY <4>2, <4>3, SaysWell
    <3> QED BY <3>1, <3>2
  <2>5. LocalError(v) => AgentSend(LastWords(v)) \/ AgentSend(<<Ctl("abort", job[v].id, v)>>)
    BY DEF LocalError
  <2>6. AgentSend(LastWords(v)) => SpokenWell
    BY LastWordsFree, SaysWell
  <2>7. LocalHead(v) => AgentSend(<<Ctl("res_head", job[v].id, v)>>)
    BY DEF LocalHead
  <2>8. LocalEnd(v) => AgentSend(<<Ctl("res_end", job[v].id, v)>>)
    BY DEF LocalEnd
  <2>9. LocalBody(v) \/ LocalSpill(v) =>
          /\ AgentSend(<<Data("res_body", job[v].id, v, 0)>>) \/ UNCHANGED up
          /\ job[v].st \in {"head", "zipped", "spill"}
    BY DEF LocalBody, LocalSpill
  <2>10. LocalRead(v) => UNCHANGED up
    BY DEF LocalRead
  <2> QED BY <2>1, <2>2, <2>3, <2>4, <2>5, <2>6, <2>7, <2>8, <2>9, <2>10
<1> QED BY <1>4, <1>7, <1>8

LEMMA LinkSeals ==
  ASSUME AllInv, SealInv, UNCHANGED relayVars, NEW b \in Browsers,
         LinkOpen(b) \/ LinkMessage(b) \/ LinkClose(b) \/ LinkRefused(b) \/ LinkCongested(b)
  PROVE  Sealed
<1>1. UNCHANGED <<at, wrapped, requests, job, ask, e2eKey>>
  BY DEF LinkOpen, LinkMessage, LinkClose, LinkRefused, LinkCongested, SocketsOnly, relayVars
<1>2. link[b].id \in Ids /\ b \in Whos
  BY SealTypes, WhosAre
<1> SUFFICES ASSUME ~wrapped PROVE LinksHeld' /\ PlainWork' /\ WholeAnswers' /\ PlainLinks' /\ SpokenWell
  BY <1>1, SealStands
<1>3. LinksHeld /\ PlainWork /\ WholeAnswers /\ PlainLinks
  BY DEF SealInv
<1>4. LinksHeld'
  BY <1>1, <1>3, LinkSteps
<1>5. PlainWork' /\ WholeAnswers'
  BY <1>1, <1>3, SealStill
<1>6. PlainLinks'
  <2>1. LinkOpen(b) => link' = [link EXCEPT ![b].st = "open"] /\ link[b].st = "connecting"
    BY DEF LinkOpen
  <2>2. LinkMessage(b) => UNCHANGED link
    BY DEF LinkMessage
  <2>3. LinkClose(b) \/ LinkRefused(b) => link' = [link EXCEPT ![b].st = "over"]
    BY DEF LinkClose, LinkRefused
  <2>4. LinkCongested(b) => link' = [link EXCEPT ![b].st = "closing"]
    BY DEF LinkCongested
  <2> QED BY <1>1, <1>3, <2>1, <2>2, <2>3, <2>4, LinkCalm, SealStill
<1>7. SpokenWell
  <2>1. LinkOpen(b) => UNCHANGED up
    BY DEF LinkOpen
  <2>2. UNCHANGED up => SpokenWell
    BY SaysNothing DEF UpShrinks
  <2>3. ASSUME NEW t \in {"ws_close", "ws_reject"}, AgentSend(<<Ctl(t, link[b].id, b)>>) PROVE SpokenWell
    BY <1>2, <2>3, FreeToSay, SaysWell
  <2>4. AgentSend(ClosedEarly(link[b].id)) => SpokenWell
    BY <1>2, ClosedEarlyFree, SaysWell
  <2>5. LinkClose(b) \/ LinkCongested(b) => AgentSend(<<Ctl("ws_close", link[b].id, b)>>)
    BY DEF LinkClose, LinkCongested
  <2>6. LinkRefused(b) => AgentSend(<<Ctl("ws_reject", link[b].id, b)>>) \/ AgentSend(ClosedEarly(link[b].id))
    BY DEF LinkRefused
  <2>7. ASSUME LinkMessage(b) PROVE SpokenWell
    <3> DEFINE k == IF link[b].sealed THEN e2eKey ELSE 0
               g == Data("ws_msg", link[b].id, b, k)
               S == Sayings
    <3>1. k \in 0..(MaxKey + 1)
      BY Constants DEF AllInv, TypeInv, AgentTypeOK, Keys
    <3>2. k = 0 /\ link[b].st = "open" => e2eKey = 0
      <4>1. CASE link[b].sealed
        BY <4>1
      <4>2. CASE ~link[b].sealed
        BY <1>3, <4>2 DEF PlainLinks
      <4> QED BY <4>1, <4>2
    <3>3. AgentSend(<<g>>)
      BY <2>7 DEF LinkMessage
    <3> HIDE DEF k
    <3>4. "ws_msg" \in FrameTypes /\ b \in Whos \cup {None}
      BY <1>2 DEF FrameTypes
    <3>5. g \in FrameSet /\ g.t = "ws_msg" /\ g.who = b /\ g.key = k
      BY <1>2, <3>1, <3>4, FrameType
    <3> HIDE DEF g
    <3>6. g \in S
      BY <3>2, <3>5 DEF Sayings, InTheClear
    <3> HIDE DEF S
    <3>7. <<g>> \in Seq(S)
      BY <3>6
    <3>8. <<g>> \in Seq(Sayings)
      BY <3>7 DEF S
    <3> QED BY <3>3, <3>8, SaysWell
  <2> QED BY <2>1, <2>2, <2>3, <2>4, <2>5, <2>6, <2>7
<1> QED BY <1>4, <1>5, <1>6, <1>7

LEMMA SettledSeals ==
  ASSUME AllInv, SealInv, UNCHANGED relayVars, CookieSettled
  PROVE  Sealed
<1> DEFINE waiting == {id \in Ids : parked[id] # None}
           sealed  == {id \in waiting : Fate(parked[id]) = "buffered"}
           refused(id) == \/ Fate(parked[id]) = "refused"
                          \/ id \in sealed \cap ended /\ ~Opens(parked[id])
           s == [id \in Ids |-> IF id \in waiting /\ refused(id) THEN Refusal(id, parked[id]) ELSE << >>]
<1>1. AgentSend(InIdOrder(s)) /\ UNCHANGED <<control, asock, lsocks, link, e2eKey>>
  BY DEF CookieSettled
<1>2. UNCHANGED <<at, wrapped>>
  BY DEF relayVars
<1> SUFFICES ASSUME ~wrapped PROVE LinksHeld' /\ PlainWork' /\ WholeAnswers' /\ PlainLinks' /\ SpokenWell
  BY <1>2, SealStands
<1>3. LinksHeld /\ PlainWork /\ WholeAnswers /\ PlainLinks
  BY DEF SealInv
<1>4. ASSUME NEW id \in Ids PROVE s[id] \in Seq(Sayings)
  <2>1. parked[id] # None => parked[id] \in Whos
    BY SealTypes, WhosAre
  <2>2. s[id] = << >> \/ (parked[id] # None /\ s[id] = Refusal(id, parked[id]))
    OBVIOUS
  <2> HIDE DEF s
  <2> QED BY <2>1, <2>2, RefusalFree, NothingFree
<1> HIDE DEF s
<1>5. InIdOrder(s) \in Seq(Sayings)
  BY <1>4, FoldType
<1>6. SpokenWell
  BY <1>1, <1>5, SaysWell
<1>7. PlainWork' /\ WholeAnswers'
  BY <1>3, PlainSettled
<1>8. LinksHeld' /\ PlainLinks'
  BY <1>1, <1>2, <1>3, Still, SealStill
<1> QED BY <1>6, <1>7, <1>8

\* Every table is emptied: no local socket is left that opened in the clear.
LEMMA DroppedLinks ==
  ASSUME TypeInv', LinksHeld', DropStreams
  PROVE  PlainLinks'
<1>1. \A id \in Ids : lsocks'[id] = None
  BY DEF DropStreams, NoneOpen
<1>2. ASSUME NEW b \in Browsers, link'[b].st \in {"connecting", "open"} PROVE FALSE
  <2>1. link'[b].id \in Ids
    BY DEF TypeInv, AgentTypeOK
  <2>2. lsocks'[link'[b].id] = b
    BY <1>2 DEF LinksHeld
  <2> QED BY <1>1, <2>1, <2>2, WhosAre
<1> QED BY <1>2 DEF PlainLinks

LEMMA SetSeals ==
  ASSUME AllInv, TypeInv', SealInv, UNCHANGED relayVars, NEW k, SetE2E(k)
  PROVE  Sealed
<1> DEFINE s == [id \in Ids |->
                 (IF requests[id] = None THEN << >> ELSE LastWords(requests[id])) \o
                 (IF ClosedEarly(id) = << >> THEN << >> ELSE <<Head(ClosedEarly(id))>>)]
<1>1. DropStreams /\ AgentSend(InIdOrder(s)) /\ UNCHANGED <<control, asock>>
  BY DEF SetE2E
<1>2. UNCHANGED <<at, wrapped>>
  BY DEF relayVars
<1> SUFFICES ASSUME ~wrapped PROVE LinksHeld' /\ PlainWork' /\ WholeAnswers' /\ PlainLinks' /\ SpokenWell
  BY <1>2, SealStands
<1>3. LinksHeld /\ PlainWork /\ WholeAnswers /\ PlainLinks
  BY DEF SealInv
<1>4. ASSUME NEW id \in Ids PROVE s[id] \in Seq(Sayings)
  <2> DEFINE p == IF requests[id] = None THEN << >> ELSE LastWords(requests[id])
             q == IF ClosedEarly(id) = << >> THEN << >> ELSE <<Head(ClosedEarly(id))>>
  <2>1. requests[id] # None => requests[id] \in Visitors
    BY SealTypes
  <2>2. p \in Seq(Sayings)
    BY <2>1, LastWordsFree, NothingFree
  <2>3. q \in Seq(Sayings)
    BY ClosedEarlyFree
  <2>4. s[id] = p \o q
    OBVIOUS
  <2> HIDE DEF p, q, s
  <2> QED BY <2>2, <2>3, <2>4, TwoFree
<1> HIDE DEF s
<1>5. InIdOrder(s) \in Seq(Sayings)
  BY <1>4, FoldType
<1>6. SpokenWell
  BY <1>1, <1>5, SaysWell
<1>7. PlainWork' /\ WholeAnswers'
  BY <1>1, <1>3, PlainDropped
<1>8. LinksHeld'
  BY <1>1, <1>2, <1>3, LinksDropped
<1>9. PlainLinks'
  BY <1>1, <1>8, DroppedLinks
<1> QED BY <1>6, <1>7, <1>8, <1>9

LEMMA ClosedSeals ==
  ASSUME AllInv, TypeInv', SealInv, UNCHANGED relayVars, NEW n \in Conns, AgentCloseEvent(n)
  PROVE  Sealed
<1>1. DropStreams /\ control' = NoConn /\ UNCHANGED up
  BY DEF AgentCloseEvent, AllInv, AgentInv, Sole
<1>2. UNCHANGED <<at, wrapped>>
  BY DEF relayVars
<1> SUFFICES ASSUME ~wrapped PROVE LinksHeld' /\ PlainWork' /\ WholeAnswers' /\ PlainLinks' /\ SpokenWell
  BY <1>2, SealStands
<1>3. LinksHeld /\ PlainWork /\ WholeAnswers /\ PlainLinks
  BY DEF SealInv
<1>4. PlainWork' /\ WholeAnswers' /\ LinksHeld'
  BY <1>1, <1>2, <1>3, PlainDropped, LinksDropped
<1>5. PlainLinks'
  BY <1>1, <1>4, DroppedLinks
<1>6. SpokenWell
  BY <1>1, SaysNothing DEF UpShrinks
<1> QED BY <1>4, <1>5, <1>6

LEMMA ConnectSeals ==
  ASSUME PromptClose, AllInv, SealInv,
         \/ Reconnect /\ UNCHANGED relayVars
         \/ \E n \in Conns : Handshake(n)
  PROVE  Sealed
<1>1. UNCHANGED <<requests, lsocks, job, link, up, ask, e2eKey, at, wrapped>>
  BY DEF Reconnect, Handshake, Opened, relayVars
<1> SUFFICES ASSUME ~wrapped PROVE LinksHeld' /\ PlainWork' /\ WholeAnswers' /\ PlainLinks' /\ SpokenWell
  BY <1>1, SealStands
<1>2. LinksHeld /\ PlainWork /\ WholeAnswers /\ PlainLinks
  BY DEF SealInv
<1>3. LinksHeld'
  BY <1>1, <1>2, ConnectLinks
<1>4. PlainWork' /\ WholeAnswers' /\ PlainLinks'
  BY <1>1, <1>2, SealStill
<1>5. SpokenWell
  BY <1>1, SaysNothing DEF UpShrinks
<1> QED BY <1>3, <1>4, <1>5

LEMMA StepSeals ==
  ASSUME Redials = FALSE, PromptClose, AllInv, TypeInv', SealInv, [Next]_vars
  PROVE  Sealed
<1>1. ASSUME NEW v \in Visitors, Arrive(v) PROVE Sealed
  BY <1>1, RelaySideSeals
<1>2. ASSUME Public \/ RelaySteps, UNCHANGED agentVars PROVE Sealed
  BY <1>2, RelaySideSeals
<1>3. ASSUME NEW n \in Conns, RelayReceive(n) \/ Loss(n) PROVE Sealed
  <2>1. UNCHANGED agentVars
    BY <1>3 DEF RelayReceive, Loss
  <2> QED BY <1>3, <2>1, RelaySideSeals
<1>4. ASSUME NEW n \in Conns, AgentReceive(n) PROVE Sealed
  BY <1>4, ReceiveSeals
<1>5. ASSUME NEW n \in Conns, Handshake(n) PROVE Sealed
  BY <1>5, ConnectSeals
<1>6. ASSUME AgentSteps, UNCHANGED relayVars PROVE Sealed
  BY <1>6, LocalSeals, LinkSeals, SettledSeals, SetSeals, ConnectSeals, ClosedSeals DEF AgentSteps
<1>7. ASSUME UNCHANGED vars PROVE Sealed
  <2>1. AgentDumb /\ UpShrinks /\ UNCHANGED <<at, wrapped, ask, e2eKey>>
    BY <1>7 DEF vars, wireVars, agentVars, relayVars, AgentDumb, UpShrinks
  <2> QED BY <2>1, SealStays, SaysNothing DEF Sealed
<1> QED BY <1>1, <1>2, <1>3, <1>4, <1>5, <1>6, <1>7 DEF Next

LEMMA SealInvariance ==
  ASSUME Redials = FALSE, PromptClose
  PROVE  Spec => [](AllInv /\ SealInv)
<1>1. Init => AllInv /\ SealInv
  BY InitType, InitRelay, InitAgent, InitSeal DEF AllInv
<1>2. AllInv /\ SealInv /\ [Next]_vars => (AllInv /\ SealInv)'
  <2> SUFFICES ASSUME AllInv, SealInv, [Next]_vars PROVE AllInv' /\ SealInv'
    OBVIOUS
  <2>1. TypeInv' /\ RelayInv' /\ AgentInv'
    BY StepType, RelayStepKeeps, StepCurrent DEF AllInv
  <2>2. SealInv'
    BY <2>1, StepSeals DEF Sealed
  <2> QED BY <2>1, <2>2 DEF AllInv
<1> QED BY <1>1, <1>2, PTL DEF Spec

\* No answer in the clear begins, goes on at dsh or enters the compressor.
Begun(v) ==
  /\ ask[v].kind = "api" /\ ~job'[v].sealed
  /\ job'[v].st \in AtDsh \cup {"zipped", "spill"}
  => e2eKey = 0 \/ (job'[v] = job[v] /\ job[v].st \notin AtDsh)

\* What a compressor holds came from dsh.
ComesFromDsh ==
  \A v \in Visitors : job'[v].st \in {"zipped", "spill"} =>
    job'[v] = job[v] \/ (job[v].st \in AtDsh /\ (job[v].sealed => job'[v].sealed))

LEMMA BegunStill ==
  ASSUME PlainWork, UNCHANGED job, NEW v \in Visitors PROVE Begun(v)
BY DEF PlainWork, Begun

LEMMA BegunKeeps ==
  ASSUME PlainWork, PlainWork', UNCHANGED <<ask, e2eKey>>, ComesFromDsh, NEW v \in Visitors
  PROVE  Begun(v)
<1> SUFFICES ASSUME ask[v].kind = "api", ~job'[v].sealed, job'[v].st \in AtDsh \cup {"zipped", "spill"}, e2eKey # 0
             PROVE  job'[v] = job[v] /\ job[v].st \notin AtDsh
  BY DEF Begun
<1>1. job'[v].st \notin AtDsh
  BY DEF PlainWork
<1>2. job[v].st \notin AtDsh \/ job[v].sealed
  BY DEF PlainWork
<1> QED BY <1>1, <1>2 DEF ComesFromDsh

LEMMA Comes ==
  ASSUME AllInv,
         \/ UNCHANGED job
         \/ \E v \in Visitors, t \in JobStates :
              job' = [job EXCEPT ![v].st = t] /\ (t \in {"zipped", "spill"} => job[v].st \in AtDsh)
         \/ \A v \in Visitors : job'[v] = job[v] \/ job'[v].st = "sent"
  PROVE  ComesFromDsh
<1>1. job \in [Visitors -> JobSet]
  BY SealTypes
<1>2. CASE UNCHANGED job
  BY <1>2 DEF ComesFromDsh
<1>3. ASSUME NEW v \in Visitors, NEW t \in JobStates, job' = [job EXCEPT ![v].st = t], t \in {"zipped", "spill"} => job[v].st \in AtDsh
      PROVE  ComesFromDsh
  <2>1. job'[v] = [job[v] EXCEPT !.st = t] /\ \A x \in Visitors : x # v => job'[x] = job[x]
    BY <1>1, <1>3
  <2>2. job'[v].st = t /\ (job'[v].sealed <=> job[v].sealed)
    BY <1>1, <2>1 DEF JobSet
  <2> QED BY <1>3, <2>1, <2>2 DEF ComesFromDsh
<1>4. CASE \A v \in Visitors : job'[v] = job[v] \/ job'[v].st = "sent"
  BY <1>4 DEF ComesFromDsh
<1> QED BY <1>2, <1>3, <1>4

LEMMA BegunDropped ==
  ASSUME AllInv, PlainWork, DropStreams, NEW v \in Visitors
  PROVE  Begun(v)
<1> SUFFICES ASSUME ask[v].kind = "api", ~job'[v].sealed, job'[v].st \in AtDsh \cup {"zipped", "spill"}, e2eKey # 0
             PROVE  job'[v] = job[v] /\ job[v].st \notin AtDsh
  BY DEF Begun
<1>1. job'[v] = IF v \in InTable(requests) THEN CutShort(job[v]) ELSE job[v]
  BY DEF DropStreams, DestroyStreams
<1>2. job[v].st \in AtDsh => job[v].sealed
  BY DEF PlainWork
<1>3. ASSUME v \in InTable(requests) PROVE FALSE
  <2>1. job'[v] = [job[v] EXCEPT !.st = IF job[v].st = "head" THEN "spill" ELSE "over"] /\ job[v] \in JobSet
    BY <1>1, <1>3, SealTypes DEF CutShort
  <2>2. job'[v].st \in {"spill", "over"} /\ (job'[v].st = "spill" => job[v].st = "head") /\ (job'[v].sealed <=> job[v].sealed)
    BY <2>1 DEF JobSet
  <2>3. job[v].st = "head"
    BY <2>2 DEF AtDsh
  <2> QED BY <1>2, <2>2, <2>3 DEF AtDsh
<1>4. job'[v] = job[v]
  BY <1>1, <1>3
<1> QED BY <1>2, <1>4

LEMMA StepBegins ==
  ASSUME AllInv, ~wrapped, SealInv, SealInv', [Next]_vars, NEW v \in Visitors
  PROVE  Begun(v)
<1>1. PlainWork /\ (~wrapped' => PlainWork')
  BY DEF SealInv
<1>2. ASSUME UNCHANGED job PROVE Begun(v)
  BY <1>1, <1>2, BegunStill
<1>3. ASSUME UNCHANGED <<ask, e2eKey, wrapped>>, ComesFromDsh PROVE Begun(v)
  BY <1>1, <1>3, BegunKeeps
<1>4. ASSUME NEW n \in Conns, AgentReceive(n) PROVE Begun(v)
  <2> DEFINE f == Head(down[n])
  <2>1. AgentDispatch(f) /\ UNCHANGED wrapped
    BY <1>4 DEF AgentReceive, relayVars
  <2>2. down[n] \in Seq(DownFrames) /\ down[n] # << >>
    BY <1>4 DEF AgentReceive, AllInv, TypeInv, DownOK
  <2>3. f \in DownFrames
    BY <2>2
  <2>4. f.id \in Ids /\ f.t \in {"req_head", "req_end", "abort", "ws_open", "ws_msg", "ws_close"}
    BY <2>1, <2>3 DEF DownFrames, FrameSet, AgentDispatch
  <2> HIDE DEF f
  <2>5. UNCHANGED <<ask, e2eKey>>
    BY <2>1 DEF AgentDispatch
  <2>6. ASSUME ReqHead(f) \/ ReqEnd(f) PROVE \A x \in Visitors : job'[x] = job[x] \/ job'[x].st = "sent"
    <3>1. \/ UNCHANGED job \/ job' = [job EXCEPT ![f.who] = StartJob(f.who, f.id, FALSE)]
          \/ job' = [job EXCEPT ![buffered[f.id]] = StartJob(buffered[f.id], f.id, TRUE)]
      BY <2>6 DEF ReqHead, OpenRequest, Replay, ReqEnd, FinishE2E
    <3>2. job \in [Visitors -> JobSet]
      BY SealTypes
    <3> QED BY <3>1, <3>2 DEF StartJob
  <2>7. ASSUME RelayAbort(f) PROVE ComesFromDsh
    <3> DEFINE y == requests[f.id]
    <3>1. y \in Visitors \cup {None} /\ job' = Destroyed(y)
      BY <2>4, <2>7, SealTypes DEF RelayAbort
    <3> HIDE DEF y
    <3>2. CASE y = None
      BY <3>1, <3>2, Comes DEF Destroyed
    <3>3. CASE y # None
      <4>1. job' = [job EXCEPT ![y].st = IF job[y].st = "head" THEN "spill" ELSE "over"]
        BY <3>1, <3>3 DEF Destroyed, CutShort
      <4>2. "spill" \in JobStates /\ "over" \in JobStates /\ "head" \in AtDsh
        BY DEF JobStates, Compressing, AtDsh
      <4>3. CASE job[y].st = "head"
        <5>1. job' = [job EXCEPT ![y].st = "spill"]
          BY <4>1, <4>3
        <5> QED BY <3>1, <3>3, <4>2, <4>3, <5>1, Comes
      <4>4. CASE job[y].st # "head"
        <5>1. job' = [job EXCEPT ![y].st = "over"]
          BY <4>1, <4>4
        <5> QED BY <3>1, <3>3, <4>2, <5>1, Comes
      <4> QED BY <4>3, <4>4
    <3> QED BY <3>2, <3>3
  <2>8. ASSUME WsOpen(f) \/ WsData(f) \/ WsClose(f) PROVE UNCHANGED job
    BY <2>8 DEF WsOpen, WsData, WsClose
  <2> QED BY <1>2, <1>3, <2>1, <2>5, <2>6, <2>7, <2>8, Comes DEF AgentDispatch
<1>5. ASSUME NEW y \in Visitors, UNCHANGED relayVars,
             LocalHead(y) \/ LocalBody(y) \/ LocalRead(y) \/ LocalEnd(y) \/ LocalSpill(y) \/ LocalError(y) \/ LocalAnswer(y)
      PROVE  Begun(v)
  <2>1. UNCHANGED <<ask, e2eKey, wrapped>>
    BY <1>5 DEF LocalHead, LocalBody, LocalRead, LocalEnd, LocalSpill, LocalError, LocalAnswer, JobsOnly, relayVars
  <2>2. {"head", "body", "zipped", "flushing", "spill", "over"} \subseteq JobStates /\ {"head", "body"} \subseteq AtDsh
    BY DEF JobStates, AtDsh, Compressing
  <2>3. \E t \in {"head", "body", "zipped", "flushing", "spill", "over"} :
          job' = [job EXCEPT ![y].st = t] /\ (t \in {"zipped", "spill"} => job[y].st \in {"head", "body"})
    BY <1>5 DEF LocalHead, LocalBody, LocalRead, LocalEnd, LocalSpill, LocalError, LocalAnswer, CutShort
  <2>4. ComesFromDsh
    BY <2>2, <2>3, Comes
  <2> QED BY <1>3, <2>1, <2>4
<1>6. ASSUME CookieSettled, UNCHANGED relayVars PROVE Begun(v)
  <2>1. UNCHANGED <<ask, e2eKey, wrapped>> /\ \A x \in Visitors : job'[x] = job[x] \/ job'[x].st = "sent"
    BY <1>6 DEF CookieSettled, StartJob, relayVars
  <2> QED BY <1>3, <2>1, Comes
<1>7. ASSUME AgentSteps, UNCHANGED relayVars PROVE Begun(v)
  <2>1. ASSUME NEW b \in Browsers, LinkOpen(b) \/ LinkMessage(b) \/ LinkClose(b) \/ LinkRefused(b) \/ LinkCongested(b)
        PROVE  UNCHANGED job
    BY <2>1 DEF LinkOpen, LinkMessage, LinkClose, LinkRefused, LinkCongested, SocketsOnly
  <2>2. ASSUME NEW k \in Keys, SetE2E(k) PROVE Begun(v)
    BY <1>1, <2>2, BegunDropped DEF SetE2E
  <2>3. Reconnect => UNCHANGED job
    BY DEF Reconnect
  <2>4. ASSUME NEW n \in Conns, AgentCloseEvent(n) PROVE Begun(v)
    BY <1>1, <1>2, <2>4, BegunDropped DEF AgentCloseEvent
  <2>5. ASSUME NEW y \in Visitors,
               LocalHead(y) \/ LocalBody(y) \/ LocalRead(y) \/ LocalEnd(y) \/ LocalSpill(y) \/ LocalError(y) \/ LocalAnswer(y)
        PROVE  Begun(v)
    BY <1>5, <1>7, <2>5
  <2>6. ASSUME NEW b \in Browsers, LinkOpen(b) \/ LinkMessage(b) \/ LinkClose(b) \/ LinkRefused(b) \/ LinkCongested(b)
        PROVE  Begun(v)
    BY <1>2, <2>1, <2>6
  <2>7. CookieSettled => Begun(v)
    BY <1>6, <1>7
  <2>8. Reconnect => Begun(v)
    BY <1>2, <2>3
  <2>9. Redial => Begun(v)
    BY <1>1, BegunDropped DEF Redial
  <2> QED BY <1>7, <2>2, <2>4, <2>5, <2>6, <2>7, <2>8, <2>9 DEF AgentSteps
<1>8. ASSUME \/ \E x \in Visitors : Arrive(x)
             \/ (Public \/ RelaySteps) /\ UNCHANGED agentVars
             \/ \E n \in Conns : RelayReceive(n) \/ Loss(n) \/ Handshake(n)
             \/ UNCHANGED vars
      PROVE  UNCHANGED job
  BY <1>8 DEF Arrive, agentVars, vars, RelayReceive, Loss, Handshake, Opened
<1> QED BY <1>2, <1>4, <1>7, <1>8 DEF Next

\* Until an id allocator wraps, dsh's answers and events to the application's
\* calls leave the agent sealed as long as an E2E password is set: an event
\* socket nobody closed says nothing in the clear, no local request made in the
\* clear begins, goes on or hands its answer to a compressor, and all that is
\* sent of one is what a compressor took in before setE2E; over any number of
\* connections and passwords, when the agent never redials next to a socket that
\* still delivers, and a local socket told to close is closed, and a compressor
\* empty, before the next connection opens.
THEOREM NothingLeaksWhileOn ==
  ASSUME Redials = FALSE, PromptClose
  PROVE  Spec /\ []~wrapped => SealedWhileOn
<1> DEFINE Sealing == e2eKey # 0 =>
             /\ \A n \in Conns : \A i \in 1..Len(up'[n]) :
                  LET f == up'[n][i] IN
                  i > Len(up[n]) /\ f.key = 0 =>
                    /\ f.t = "ws_msg" => link[f.who].st # "open"
                    /\ f.t = "res_body" /\ ask[f.who].kind = "api" =>
                         job[f.who].st \in {"zipped", "spill"}
             /\ \A v \in Visitors :
                  /\ ask[v].kind = "api" /\ ~job'[v].sealed
                  /\ job'[v].st \in AtDsh \cup {"zipped", "spill"}
                  => job'[v] = job[v] /\ job[v].st \notin AtDsh
<1>1. AllInv /\ SealInv /\ (AllInv /\ SealInv)' /\ ~wrapped /\ [Next]_vars => [Sealing]_vars
  <2> SUFFICES ASSUME AllInv, SealInv, AllInv', SealInv', ~wrapped, [Next]_vars, e2eKey # 0 PROVE Sealing
    OBVIOUS
  <2>1. SpokenWell
    BY StepSeals DEF Sealed, AllInv
  <2>2. ASSUME NEW n \in Conns, NEW i \in 1..Len(up'[n]), i > Len(up[n]) PROVE ~InTheClear(up'[n][i])
    BY <2>1, <2>2 DEF SpokenWell
  <2>3. ASSUME NEW v \in Visitors PROVE Begun(v)
    BY <2>3, StepBegins
  <2> QED BY <2>2, <2>3 DEF InTheClear, Begun
<1>2. Spec => [](AllInv /\ SealInv)
  BY SealInvariance
<1> QED BY <1>1, <1>2, PTL DEF Spec, SealedWhileOn

-----------------------------------------------------------------------------
(* Whole answers.  What is in flight to the relay for a visitor continues  *)
(* what its response carries already, part by part, up to what the agent   *)
(* has said of it so far.                                                  *)

Answers    == {"res_head", "res_body", "res_end"}
Of(f, v)   == f.who = v /\ f.t \in Answers
Rank(t)    == IF t = "res_head" THEN 1 ELSE IF t = "res_body" THEN 2 ELSE 3
Quiet(v)   == {f \in FrameSet : ~Of(f, v)}

\* The parts b + 1 to m of v's answer are in s, once each and in this order.
Tells(s, v, b, m) ==
  /\ \A i \in 1..Len(s) : Of(s[i], v) => b < Rank(s[i].t) /\ Rank(s[i].t) <= m
  /\ \A r \in 1..3 : b < r /\ r <= m => \E i \in 1..Len(s) : Of(s[i], v) /\ Rank(s[i].t) = r
  /\ \A i, j \in 1..Len(s) : Of(s[i], v) /\ Of(s[j], v) /\ i < j => Rank(s[i].t) < Rank(s[j].t)

LEMMA RankType == \A t : Rank(t) \in 1..3
BY DEF Rank

LEMMA QuietTells ==
  ASSUME NEW v, NEW s \in Seq(Quiet(v)), NEW b \in 0..3
  PROVE  Tells(s, v, b, b)
<1>1. \A i \in 1..Len(s) : s[i] \in Quiet(v)
  <2> DEFINE S == Quiet(v)
  <2>1. s \in Seq(S)
    OBVIOUS
  <2> HIDE DEF S
  <2>2. \A i \in 1..Len(s) : s[i] \in S
    BY <2>1
  <2> QED BY <2>2 DEF S
<1>2. \A i \in 1..Len(s) : ~Of(s[i], v)
  BY <1>1 DEF Quiet
<1> QED BY <1>2 DEF Tells

LEMMA OneTells ==
  ASSUME NEW f, NEW v, Of(f, v), NEW b \in 0..2, Rank(f.t) = b + 1
  PROVE  Tells(<<f>>, v, b, b + 1)
<1>1. Len(<<f>>) = 1 /\ <<f>>[1] = f
  OBVIOUS
<1> QED BY <1>1 DEF Tells

LEMMA TellsThen ==
  ASSUME NEW s \in Seq(FrameSet), NEW t \in Seq(FrameSet), NEW v,
         NEW b \in 0..3, NEW m \in 0..3, NEW k \in 0..3, b <= m, m <= k, Tells(s, v, b, m), Tells(t, v, m, k)
  PROVE  Tells(s \o t, v, b, k)
<1> DEFINE u == s \o t
           L == Len(s)
<1>1. /\ \A i \in 1..Len(u) : \/ i \in 1..L /\ u[i] = s[i]
                              \/ i - L \in 1..Len(t) /\ u[i] = t[i - L] /\ i > L
      /\ \A i \in 1..L : i \in 1..Len(u) /\ u[i] = s[i]
      /\ \A j \in 1..Len(t) : L + j \in 1..Len(u) /\ u[L + j] = t[j]
      /\ L \in Nat /\ Len(t) \in Nat /\ Len(u) \in Nat
  OBVIOUS
<1> HIDE DEF u, L
<1>2. ASSUME NEW i \in 1..Len(u), Of(u[i], v) PROVE b < Rank(u[i].t) /\ Rank(u[i].t) <= k
  <2>1. CASE i \in 1..L /\ u[i] = s[i]
    <3>1. b < Rank(s[i].t) /\ Rank(s[i].t) <= m
      BY <1>2, <2>1 DEF Tells, L
    <3> QED BY <2>1, <3>1, RankType
  <2>2. CASE i - L \in 1..Len(t) /\ u[i] = t[i - L]
    <3>1. m < Rank(t[i - L].t) /\ Rank(t[i - L].t) <= k
      BY <1>2, <2>2 DEF Tells
    <3> QED BY <2>2, <3>1, RankType
  <2> QED BY <1>1, <2>1, <2>2
<1>3. ASSUME NEW r \in 1..3, b < r, r <= k PROVE \E i \in 1..Len(u) : Of(u[i], v) /\ Rank(u[i].t) = r
  <2>1. CASE r <= m
    <3>1. PICK i \in 1..L : Of(s[i], v) /\ Rank(s[i].t) = r
      BY <1>3, <2>1 DEF Tells, L
    <3> QED BY <1>1, <3>1
  <2>2. CASE m < r
    <3>1. PICK j \in 1..Len(t) : Of(t[j], v) /\ Rank(t[j].t) = r
      BY <1>3, <2>2 DEF Tells
    <3>2. L + j \in 1..Len(u) /\ u[L + j] = t[j]
      BY <1>1
    <3> QED BY <3>1, <3>2
  <2> QED BY <2>1, <2>2
<1>4. ASSUME NEW i \in 1..Len(u), NEW j \in 1..Len(u), Of(u[i], v), Of(u[j], v), i < j
      PROVE  Rank(u[i].t) < Rank(u[j].t)
  <2>1. CASE i \in 1..L /\ j \in 1..L
    <3>1. u[i] = s[i] /\ u[j] = s[j]
      BY <1>1, <2>1
    <3> QED BY <1>4, <2>1, <3>1 DEF Tells, L
  <2>2. CASE i \in 1..L /\ j \notin 1..L
    <3>1. u[i] = s[i] /\ j - L \in 1..Len(t) /\ u[j] = t[j - L]
      BY <1>1, <2>2
    <3>2. Rank(s[i].t) <= m
      BY <1>4, <2>2, <3>1 DEF Tells, L
    <3>3. m < Rank(t[j - L].t)
      BY <1>4, <3>1 DEF Tells
    <3> QED BY <3>1, <3>2, <3>3, RankType
  <2>3. CASE i \notin 1..L
    <3>1. i - L \in 1..Len(t) /\ u[i] = t[i - L] /\ i > L
      BY <1>1, <2>3
    <3>2. j \notin 1..L
      BY <1>1, <1>4, <3>1
    <3>3. j - L \in 1..Len(t) /\ u[j] = t[j - L]
      BY <1>1, <3>2
    <3>4. i - L < j - L
      BY <1>1, <1>4
    <3> QED BY <1>4, <3>1, <3>3, <3>4 DEF Tells
  <2> QED BY <2>1, <2>2, <2>3
<1>5. Tells(u, v, b, k)
  BY <1>2, <1>3, <1>4 DEF Tells
<1> QED BY <1>5 DEF u

\* The next frame taken off: of v, it is the next part of v's answer.
LEMMA TellsNext ==
  ASSUME NEW s \in Seq(FrameSet), s # << >>, NEW v, NEW b \in 0..3, NEW m \in 0..3, b <= m, Tells(s, v, b, m)
  PROVE  /\ ~Of(Head(s), v) => Tells(Tail(s), v, b, m)
         /\ Of(Head(s), v) => Rank(Head(s).t) = b + 1 /\ b + 1 <= m /\ Tells(Tail(s), v, b + 1, m)
<1> DEFINE t == Tail(s)
           h == Head(s)
<1>1. /\ t \in Seq(FrameSet) /\ Len(t) = Len(s) - 1 /\ Len(s) \in Nat /\ Len(t) \in Nat
      /\ \A j \in 1..Len(t) : t[j] = s[j + 1]
      /\ h = s[1] /\ 1 \in 1..Len(s)
  BY HeadTailProperties, LenProperties, EmptySeq
<1>2. \A i \in 1..Len(s) : i = 1 \/ (i - 1 \in 1..Len(t) /\ s[i] = t[i - 1])
  BY <1>1
<1>3. \A j \in 1..Len(t) : j + 1 \in 1..Len(s) /\ j + 1 # 1 /\ 1 < j + 1 /\ t[j] = s[j + 1]
  BY <1>1
<1> HIDE DEF t, h
<1>4. ASSUME NEW i \in 1..Len(t), NEW j \in 1..Len(t), Of(t[i], v), Of(t[j], v), i < j
      PROVE  Rank(t[i].t) < Rank(t[j].t)
  <2>1. i + 1 < j + 1
    BY <1>4
  <2> QED BY <1>3, <1>4, <2>1 DEF Tells
<1>5. ASSUME ~Of(h, v) PROVE Tells(t, v, b, m)
  <2>1. ASSUME NEW i \in 1..Len(t), Of(t[i], v) PROVE b < Rank(t[i].t) /\ Rank(t[i].t) <= m
    BY <1>3, <2>1 DEF Tells
  <2>2. ASSUME NEW r \in 1..3, b < r, r <= m PROVE \E i \in 1..Len(t) : Of(t[i], v) /\ Rank(t[i].t) = r
    <3>1. PICK i \in 1..Len(s) : Of(s[i], v) /\ Rank(s[i].t) = r
      BY <2>2 DEF Tells
    <3>2. i - 1 \in 1..Len(t) /\ s[i] = t[i - 1]
      BY <1>1, <1>2, <1>5, <3>1
    <3> QED BY <3>1, <3>2
  <2> QED BY <1>4, <2>1, <2>2 DEF Tells
<1>6. ASSUME Of(h, v) PROVE Rank(h.t) = b + 1 /\ b + 1 <= m /\ Tells(t, v, b + 1, m)
  <2>1. b < Rank(h.t) /\ Rank(h.t) <= m /\ Rank(h.t) \in 1..3
    BY <1>1, <1>6, RankType DEF Tells
  <2>2. b + 1 \in 1..3 /\ b < b + 1 /\ b + 1 <= m
    BY <2>1
  <2>3. PICK i \in 1..Len(s) : Of(s[i], v) /\ Rank(s[i].t) = b + 1
    BY <2>2 DEF Tells
  <2>4. i # 1 => Rank(h.t) < Rank(s[i].t)
    <3>1. i # 1 => 1 < i
      BY <1>1
    <3> QED BY <1>1, <1>6, <2>3, <3>1 DEF Tells
  <2>5. Rank(h.t) = b + 1
    BY <1>1, <2>1, <2>3, <2>4
  <2>6. ASSUME NEW j \in 1..Len(t), Of(t[j], v) PROVE b + 1 < Rank(t[j].t) /\ Rank(t[j].t) <= m
    <3>1. Rank(s[1].t) < Rank(s[j + 1].t) /\ Rank(s[j + 1].t) <= m
      BY <1>1, <1>3, <1>6, <2>6 DEF Tells
    <3> QED BY <1>1, <1>3, <2>5, <3>1
  <2>7. ASSUME NEW r \in 1..3, b + 1 < r, r <= m PROVE \E j \in 1..Len(t) : Of(t[j], v) /\ Rank(t[j].t) = r
    <3>0. b < r
      BY <2>7
    <3>1. PICK j \in 1..Len(s) : Of(s[j], v) /\ Rank(s[j].t) = r
      BY <2>7, <3>0 DEF Tells
    <3>2. j # 1
      BY <1>1, <2>5, <2>7, <3>1
    <3>3. j - 1 \in 1..Len(t) /\ s[j] = t[j - 1]
      BY <1>2, <3>2
    <3> QED BY <3>1, <3>3
  <2> QED BY <1>4, <2>2, <2>5, <2>6, <2>7 DEF Tells
<1> QED BY <1>5, <1>6 DEF t, h

\* What is said one id after the other, when each id continues what the ids
\* before it said.
LEMMA TellsInOrder ==
  ASSUME NEW s, NEW v, NEW lvl, \A id \in Ids : s[id] \in Seq(FrameSet),
         \A i \in 0..MaxId : lvl[i] \in 0..3,
         \A id \in Ids : lvl[id - 1] <= lvl[id] /\ Tells(s[id], v, lvl[id - 1], lvl[id])
  PROVE  lvl[0] <= lvl[MaxId] /\ Tells(InIdOrder(s), v, lvl[0], lvl[MaxId])
<1>0. MaxId \in Nat /\ Ids = 1..MaxId
  BY WireAssumption DEF Ids
<1>1. PICK g : Folds(g, s, MaxId) /\ InIdOrder(s) = g[MaxId]
  BY FoldOrder
<1>2. g = [i \in 0..MaxId |-> IF i = 0 THEN << >> ELSE g[i - 1] \o s[i]]
  BY <1>1 DEF Folds
<1> DEFINE Good(n) == g[n] \in Seq(FrameSet) /\ lvl[0] <= lvl[n] /\ Tells(g[n], v, lvl[0], lvl[n])
           Odd == {n \in 0..MaxId : ~Good(n)}
<1>3. Odd \in SUBSET Nat /\ \A n \in 0..MaxId : n \in Odd <=> ~Good(n)
  BY <1>0
<1> HIDE DEF Odd
<1>4. SUFFICES ASSUME Odd # {} PROVE FALSE
  BY <1>0, <1>1, <1>3
<1>5. PICK n \in Odd : \A m \in Odd : n <= m
  BY <1>3, <1>4, LeastOf
<1>6. n \in 0..MaxId /\ ~Good(n)
  BY <1>3 DEF Odd
<1>7. Good(0)
  <2>1. g[0] = << >> /\ lvl[0] \in 0..3
    BY <1>2, <1>0
  <2>2. << >> \in Seq(Quiet(v)) /\ << >> \in Seq(FrameSet)
    BY EmptySeq
  <2>3. Tells(<< >>, v, lvl[0], lvl[0])
    BY <2>1, <2>2, QuietTells
  <2> QED BY <2>1, <2>2, <2>3
<1>8. n # 0
  BY <1>6, <1>7
<1>9. n - 1 \in 0..MaxId /\ n \in Ids /\ ~(n <= n - 1)
  BY <1>6, <1>8, <1>0
<1>10. Good(n - 1)
  BY <1>3, <1>5, <1>9
<1>11. g[n] = g[n - 1] \o s[n]
  BY <1>2, <1>6, <1>8, <1>9
<1>12. g[n - 1] \in Seq(FrameSet) /\ s[n] \in Seq(FrameSet)
  BY <1>9, <1>10
<1>13. g[n - 1] \o s[n] \in Seq(FrameSet)
  BY <1>12
<1>14. lvl[0] <= lvl[n]
  <2>1. lvl[0] <= lvl[n - 1] /\ lvl[n - 1] <= lvl[n]
    BY <1>9, <1>10
  <2>2. lvl[0] \in Int /\ lvl[n - 1] \in Int /\ lvl[n] \in Int
    BY <1>0, <1>6, <1>9
  <2> QED BY <2>1, <2>2
<1>15. Tells(g[n - 1] \o s[n], v, lvl[0], lvl[n])
  <2>1. lvl[0] \in 0..3 /\ lvl[n - 1] \in 0..3 /\ lvl[n] \in 0..3
    BY <1>0, <1>6, <1>9
  <2>2. lvl[0] <= lvl[n - 1] /\ lvl[n - 1] <= lvl[n]
    BY <1>9, <1>10
  <2>3. Tells(g[n - 1], v, lvl[0], lvl[n - 1]) /\ Tells(s[n], v, lvl[n - 1], lvl[n])
    BY <1>9, <1>10
  <2> QED BY <1>12, <2>1, <2>2, <2>3, TellsThen
<1> QED BY <1>6, <1>11, <1>13, <1>14, <1>15

\* What the agent may say, by whom it is about.
LEMMA Hushes ==
  ASSUME NEW id \in Ids, NEW w \in Whos, NEW v \in Visitors
  PROVE  /\ \A t \in FrameTypes \ Answers :
              /\ <<Ctl(t, id, w)>> \in Seq(Quiet(v)) /\ <<Ctl(t, id, w), Ctl(t, id, w)>> \in Seq(Quiet(v))
              /\ \A k \in 0..(MaxKey + 1) : <<Data(t, id, w, k)>> \in Seq(Quiet(v))
         /\ w # v =>
              /\ Refusal(id, w) \in Seq(Quiet(v))
              /\ \A t \in FrameTypes : <<Ctl(t, id, w)>> \in Seq(Quiet(v)) /\ <<Data(t, id, w, 0)>> \in Seq(Quiet(v))
<1> DEFINE S == Quiet(v)
<1>1. ASSUME NEW t \in FrameTypes, NEW k \in 0..(MaxKey + 1), t \notin Answers \/ w # v
      PROVE  Ctl(t, id, w) \in S /\ Data(t, id, w, k) \in S
  <2>1. w \in Whos \cup {None}
    OBVIOUS
  <2>2. /\ Ctl(t, id, w) \in FrameSet /\ Ctl(t, id, w).t = t /\ Ctl(t, id, w).who = w
        /\ Data(t, id, w, k) \in FrameSet /\ Data(t, id, w, k).t = t /\ Data(t, id, w, k).who = w
    BY <2>1, FrameType
  <2> QED BY <1>1, <2>2 DEF Quiet, Of
<1> HIDE DEF S
<1>2. ASSUME NEW t \in FrameTypes \ Answers
      PROVE  /\ <<Ctl(t, id, w)>> \in Seq(S) /\ <<Ctl(t, id, w), Ctl(t, id, w)>> \in Seq(S)
             /\ \A k \in 0..(MaxKey + 1) : <<Data(t, id, w, k)>> \in Seq(S)
  <2>1. Ctl(t, id, w) \in S /\ \A k \in 0..(MaxKey + 1) : Data(t, id, w, k) \in S
    BY <1>1, Constants
  <2> QED BY <2>1
<1>3. ASSUME w # v, NEW t \in FrameTypes PROVE <<Ctl(t, id, w)>> \in Seq(S) /\ <<Data(t, id, w, 0)>> \in Seq(S)
  <2>1. Ctl(t, id, w) \in S /\ Data(t, id, w, 0) \in S
    BY <1>1, <1>3, Constants
  <2> QED BY <2>1
<1>4. ASSUME w # v PROVE Refusal(id, w) \in Seq(S)
  <2>1. Ctl("res_head", id, w) \in S /\ Data("res_body", id, w, Note) \in S /\ Ctl("res_end", id, w) \in S
    BY <1>1, <1>4, Constants DEF FrameTypes
  <2> QED BY <2>1 DEF Refusal
<1> QED BY <1>2, <1>3, <1>4 DEF S

LEMMA ThreeTell ==
  ASSUME NEW v, NEW h \in FrameSet, NEW p \in FrameSet, NEW e \in FrameSet, Of(h, v), Of(p, v), Of(e, v),
         Rank(h.t) = 0 + 1, Rank(p.t) = 2, Rank(e.t) = 2 + 1
  PROVE  Tells(<<h, p, e>>, v, 0, 3) /\ <<h, p, e>> \in Seq(FrameSet)
<1> DEFINE s == <<h, p, e>>
<1>1. Len(s) = 3 /\ s[1] = h /\ s[2] = p /\ s[3] = e /\ s \in Seq(FrameSet)
  OBVIOUS
<1> HIDE DEF s
<1>2. \A i \in 1..Len(s) : i \in 1..3 /\ Of(s[i], v) /\ Rank(s[i].t) = i
  <2> SUFFICES ASSUME NEW i \in 1..Len(s) PROVE i \in 1..3 /\ Of(s[i], v) /\ Rank(s[i].t) = i
    OBVIOUS
  <2>1. i = 1 \/ i = 2 \/ i = 3
    BY <1>1
  <2> QED BY <1>1, <2>1
<1>3. Tells(s, v, 0, 3)
  BY <1>1, <1>2 DEF Tells
<1> QED BY <1>1, <1>3 DEF s

LEMMA Parts ==
  ASSUME NEW id \in Ids, NEW v \in Visitors
  PROVE  /\ Tells(<<Ctl("res_head", id, v)>>, v, 0, 1) /\ <<Ctl("res_head", id, v)>> \in Seq(FrameSet)
         /\ \A k \in 0..(MaxKey + 1) : /\ Tells(<<Data("res_body", id, v, k)>>, v, 1, 2)
                                       /\ <<Data("res_body", id, v, k)>> \in Seq(FrameSet)
         /\ Tells(<<Ctl("res_end", id, v)>>, v, 2, 3) /\ <<Ctl("res_end", id, v)>> \in Seq(FrameSet)
         /\ Tells(Refusal(id, v), v, 0, 3) /\ Refusal(id, v) \in Seq(FrameSet)
<1> DEFINE h == Ctl("res_head", id, v)
           e == Ctl("res_end", id, v)
           o(k) == Data("res_body", id, v, k)
<1>1. /\ h \in FrameSet /\ Of(h, v) /\ Rank(h.t) = 0 + 1
      /\ e \in FrameSet /\ Of(e, v) /\ Rank(e.t) = 2 + 1
  <2>1. v \in Whos \cup {None} /\ 0 \in 0..(MaxKey + 1) /\ {"res_head", "res_end"} \subseteq FrameTypes
    BY WhosAre, Constants DEF FrameTypes
  <2>2. h \in FrameSet /\ h.t = "res_head" /\ h.who = v /\ e \in FrameSet /\ e.t = "res_end" /\ e.who = v
    BY <2>1, FrameType
  <2> HIDE DEF h, e
  <2> QED BY <2>2 DEF Of, Answers, Rank
<1>2. ASSUME NEW k \in 0..(MaxKey + 1) PROVE o(k) \in FrameSet /\ Of(o(k), v) /\ Rank(o(k).t) = 1 + 1
  <2>1. v \in Whos \cup {None} /\ "res_body" \in FrameTypes
    BY WhosAre DEF FrameTypes
  <2>2. o(k) \in FrameSet /\ o(k).t = "res_body" /\ o(k).who = v
    BY <2>1, FrameType
  <2> HIDE DEF o
  <2> QED BY <2>2 DEF Of, Answers, Rank
<1>3. Note \in 0..(MaxKey + 1) /\ Refusal(id, v) = <<h, o(Note), e>>
  BY Constants DEF Refusal
<1> HIDE DEF h, e, o
<1>4. /\ Tells(<<h>>, v, 0, 1) /\ Tells(<<e>>, v, 2, 3) /\ <<h>> \in Seq(FrameSet) /\ <<e>> \in Seq(FrameSet)
  <2>1. Tells(<<h>>, v, 0, 0 + 1) /\ Tells(<<e>>, v, 2, 2 + 1)
    BY <1>1, OneTells
  <2>2. 0 + 1 = 1 /\ 2 + 1 = 3
    OBVIOUS
  <2>3. <<h>> \in Seq(FrameSet) /\ <<e>> \in Seq(FrameSet)
    BY <1>1
  <2> QED BY <2>1, <2>2, <2>3
<1>5. ASSUME NEW k \in 0..(MaxKey + 1) PROVE Tells(<<o(k)>>, v, 1, 2) /\ <<o(k)>> \in Seq(FrameSet)
  <2>1. Tells(<<o(k)>>, v, 1, 1 + 1)
    BY <1>2, OneTells
  <2>2. 1 + 1 = 2
    OBVIOUS
  <2>3. <<o(k)>> \in Seq(FrameSet)
    BY <1>2
  <2> QED BY <2>1, <2>2, <2>3
<1>6. Tells(<<h, o(Note), e>>, v, 0, 3) /\ <<h, o(Note), e>> \in Seq(FrameSet)
  <2>1. o(Note) \in FrameSet /\ Of(o(Note), v) /\ Rank(o(Note).t) = 2
    BY <1>2, <1>3
  <2> QED BY <1>1, <2>1, ThreeTell
<1> QED BY <1>3, <1>4, <1>5, <1>6 DEF h, e, o

LEMMA LastParts ==
  ASSUME AllInv, NEW w \in Visitors
  PROVE  /\ LastWords(w) \in Seq(FrameSet)
         /\ job[w].st = "sent" => Tells(LastWords(w), w, 0, 3)
         /\ job[w].st # "sent" => LastWords(w) \in Seq(Quiet(w))
         /\ \A v \in Visitors : v # w => LastWords(w) \in Seq(Quiet(v))
<1>1. job[w].id \in Ids /\ w \in Whos /\ "abort" \in FrameTypes \ Answers
  BY SealTypes, WhosAre DEF FrameTypes, Answers
<1>2. \A v \in Visitors : Quiet(v) \subseteq FrameSet
  BY DEF Quiet
<1>3. job[w].st # "sent" => \A v \in Visitors : LastWords(w) \in Seq(Quiet(v))
  BY <1>1, Hushes DEF LastWords
<1>4. job[w].st = "sent" => /\ LastWords(w) = Refusal(job[w].id, w)
                            /\ \A v \in Visitors : v # w => LastWords(w) \in Seq(Quiet(v))
  BY <1>1, Hushes DEF LastWords
<1>5. job[w].st # "sent" => LastWords(w) \in Seq(FrameSet)
  BY <1>2, <1>3, SeqGrows
<1>6. Tells(Refusal(job[w].id, w), w, 0, 3) /\ Refusal(job[w].id, w) \in Seq(FrameSet)
  BY <1>1, Parts
<1> QED BY <1>3, <1>4, <1>5, <1>6

LEMMA EarlyHushes ==
  ASSUME AllInv, NEW id \in Ids, NEW v \in Visitors
  PROVE  /\ ClosedEarly(id) \in Seq(Quiet(v))
         /\ (IF ClosedEarly(id) = << >> THEN << >> ELSE <<Head(ClosedEarly(id))>>) \in Seq(Quiet(v))
<1>0. "ws_close" \in FrameTypes \ Answers
  BY DEF FrameTypes, Answers
<1>1. lsocks[id] # None => lsocks[id] \in Whos
  BY TalkTypes, WhosAre
<1>2. CASE ClosedEarly(id) = << >>
  BY <1>2, EmptySeq
<1>3. CASE ClosedEarly(id) # << >>
  <2> DEFINE g == Ctl("ws_close", id, lsocks[id])
  <2>1. lsocks[id] # None /\ ClosedEarly(id) = <<g, g>>
    BY <1>3 DEF ClosedEarly
  <2>2. <<g>> \in Seq(Quiet(v)) /\ <<g, g>> \in Seq(Quiet(v))
    BY <1>0, <1>1, <2>1, Hushes
  <2>3. Head(<<g, g>>) = g
    OBVIOUS
  <2> HIDE DEF g
  <2> QED BY <1>3, <2>1, <2>2, <2>3
<1> QED BY <1>2, <1>3

\* How much of v's answer the agent has said, and what the response carries.
Unstarted(v) == OnTheWay(v) \/ WaitsForDsh(v) \/ job[v].st = "sent"

\* For whom the agent is heard: it still speaks on the connection of v.
Heard(v) == control \in Conns /\ asock[control] = "open" /\ wire[control] = "up" /\ at[v].conn = control

\* The head has been said; and the body.
Headed == {"head", "zipped", "spill"}
Bodied == {"body", "flushing"}

SaidSoFar(v, m) ==
  /\ Unstarted(v) => m = 0
  /\ job[v].st \in Headed => m <= 1 /\ (Heard(v) => m = 1)
  /\ job[v].st \in Bodied => m <= 2 /\ (Heard(v) => m = 2)

Carried(v) ==
  /\ Len(got[v]) <= 3 /\ \A i \in 1..Len(got[v]) : got[v][i].part \in Answers /\ Rank(got[v][i].part) = i
  /\ pub[v] = "idle" => got[v] = << >>
  /\ pub[v] = "waiting" => Len(got[v]) = 0
  /\ pub[v] = "headers" => Len(got[v]) # 0
  /\ pub[v] = "complete" => Len(got[v]) = 3

Continues(v) ==
  pub[v] \in Pending =>
    \E m \in 0..3 : Len(got[v]) <= m /\ Tells(up[at[v].conn], v, Len(got[v]), m) /\ SaidSoFar(v, m)

WholeInv == ~wrapped => \A v \in Visitors : Carried(v) /\ Continues(v)

LEMMA InitWhole == Init => WholeInv
<1> SUFFICES ASSUME Init, NEW v \in Visitors PROVE Carried(v) /\ Continues(v)
  BY DEF WholeInv
<1>1. pub[v] = "idle" /\ got[v] = << >>
  BY DEF Init, RelayInit
<1> QED BY <1>1 DEF Carried, Continues, Pending

LEMMA SaidStays ==
  ASSUME NEW v, NEW m, SaidSoFar(v, m), Unstarted(v)' => Unstarted(v),
         job'[v].st \in Headed => job[v].st \in Headed, job'[v].st \in Bodied => job[v].st \in Bodied,
         job'[v].st \in Headed \cup Bodied /\ Heard(v)' => Heard(v)
  PROVE  SaidSoFar(v, m)'
BY DEF SaidSoFar

LEMMA NoLevel == ASSUME AllInv, NEW v \in Visitors PROVE Len(got[v]) \in Nat /\ at[v].conn \in Conns \cup {NoConn}
<1>1. got[v] \in Seq(PartSet)
  BY DEF AllInv, TypeInv, RelayTypeOK, PartSet
<1> QED BY <1>1, WhosAre, PlaceType DEF AllInv, TypeInv

\* A step that writes to no response and says nothing.
LEMMA MuteWhole ==
  ASSUME WholeInv, wrapped => wrapped', UNCHANGED got,
         \A v \in Visitors : pub'[v] = pub[v] \/ pub'[v] \in Ended \ {"complete"},
         \A v \in Visitors : ~wrapped /\ pub'[v] \in Pending =>
           /\ at'[v] = at[v] /\ up'[at[v].conn] = up[at[v].conn]
           /\ \A m \in 0..3 : SaidSoFar(v, m) => SaidSoFar(v, m)'
  PROVE  WholeInv'
<1> SUFFICES ASSUME ~wrapped, NEW v \in Visitors PROVE Carried(v)' /\ Continues(v)'
  BY DEF WholeInv
<1>1. Carried(v) /\ Continues(v)
  BY DEF WholeInv
<1>2. Carried(v)'
  BY <1>1 DEF Carried, Ended
<1>3. ASSUME pub'[v] \in Pending
      PROVE  \E m \in 0..3 : Len(got'[v]) <= m /\ Tells(up'[at'[v].conn], v, Len(got'[v]), m) /\ SaidSoFar(v, m)'
  <2>1. pub[v] \in Pending
    BY <1>3 DEF Pending, Ended
  <2>2. PICK m \in 0..3 : Len(got[v]) <= m /\ Tells(up[at[v].conn], v, Len(got[v]), m) /\ SaidSoFar(v, m)
    BY <1>1, <2>1 DEF Continues
  <2>3. at'[v] = at[v] /\ up'[at[v].conn] = up[at[v].conn] /\ SaidSoFar(v, m)'
    BY <1>3, <2>2
  <2> QED BY <2>2, <2>3
<1>4. Continues(v)'
  BY <1>3 DEF Continues, Tells
<1> QED BY <1>2, <1>4

\* A step of the agent that says fs: for whom it is heard, fs goes on where the
\* agent was.
LEMMA SpeaksWhole ==
  ASSUME AllInv, WholeInv, UNCHANGED <<wrapped, at, pub, got>>, NEW fs \in Seq(FrameSet), AgentSend(fs),
         \A v \in Visitors, m \in 0..3 : ~wrapped /\ SaidSoFar(v, m) =>
           /\ Heard(v) => \E k \in m..3 : Tells(fs, v, m, k) /\ SaidSoFar(v, k)'
           /\ ~Heard(v) => SaidSoFar(v, m)'
  PROVE  WholeInv'
<1> SUFFICES ASSUME ~wrapped, NEW v \in Visitors PROVE Carried(v)' /\ Continues(v)'
  BY DEF WholeInv
<1>1. Carried(v) /\ Continues(v) /\ Len(got[v]) \in Nat /\ at[v].conn \in Conns \cup {NoConn}
  BY NoLevel DEF WholeInv
<1>2. Carried(v)'
  BY <1>1 DEF Carried
<1>3. ASSUME pub[v] \in Pending
      PROVE  \E m \in 0..3 : Len(got[v]) <= m /\ Tells(up'[at[v].conn], v, Len(got[v]), m) /\ SaidSoFar(v, m)'
  <2>1. PICK m \in 0..3 : Len(got[v]) <= m /\ Tells(up[at[v].conn], v, Len(got[v]), m) /\ SaidSoFar(v, m)
    BY <1>1, <1>3 DEF Continues
  <2>2. up \in [Conns -> Seq(FrameSet)] /\ control \in Conns \cup {NoConn} /\ NoConn \notin Conns
    BY TalkTypes DEF AllInv, TypeInv, UpOK
  <2>3. CASE Heard(v)
    <3>1. up'[at[v].conn] = up[at[v].conn] \o fs /\ up[at[v].conn] \in Seq(FrameSet)
      BY <2>2, <2>3 DEF Heard, AgentSend, Posted
    <3>2. PICK k \in m..3 : Tells(fs, v, m, k) /\ SaidSoFar(v, k)'
      BY <2>1, <2>3
    <3>3. k \in 0..3 /\ m <= k /\ Len(got[v]) \in 0..3 /\ Len(got[v]) <= k
      <4> DEFINE L == Len(got[v])
      <4>1. L \in Nat /\ L <= m
        BY <1>1, <2>1
      <4> HIDE DEF L
      <4>2. k \in 0..3 /\ m <= k /\ L \in 0..3 /\ L <= k
        BY <4>1
      <4> QED BY <4>2 DEF L
    <3>4. Tells(up[at[v].conn] \o fs, v, Len(got[v]), k)
      BY <2>1, <3>1, <3>2, <3>3, TellsThen
    <3> QED BY <3>1, <3>2, <3>3, <3>4
  <2>4. CASE ~Heard(v)
    <3>1. up'[at[v].conn] = up[at[v].conn]
      BY <2>2, <2>4 DEF Heard, AgentSend, Posted
    <3>2. SaidSoFar(v, m)'
      BY <2>1, <2>4
    <3> QED BY <2>1, <3>1, <3>2
  <2> QED BY <2>3, <2>4
<1>4. Continues(v)'
  BY <1>3 DEF Continues, Tells
<1> QED BY <1>2, <1>4

\* Whoever says nothing, and starts nothing new, stays where it was.
Steady(v) ==
  /\ WaitsForDsh(v)' \/ job'[v].st = "sent" => Unstarted(v)
  /\ job'[v].st \in Headed => job[v].st \in Headed
  /\ job'[v].st \in Bodied => job[v].st \in Bodied
  /\ job'[v].st \in Headed \cup Bodied /\ Heard(v)' => Heard(v)

LEMMA SteadyStays ==
  ASSUME Lagging, NEW v, Steady(v), NEW m, SaidSoFar(v, m)
  PROVE  SaidSoFar(v, m)'
<1>1. OnTheWay(v)' => OnTheWay(v)
  BY TakenHeads
<1>2. Unstarted(v)' => Unstarted(v)
  BY <1>1 DEF Unstarted, Steady
<1> QED BY <1>2, SaidStays DEF Steady

\* What keeps the agent's place on the wire.
StillHeard == UNCHANGED <<control, asock>> /\ \A n \in Conns : wire'[n] = "up" => wire[n] = "up"

LEMMA HeardStill == ASSUME StillHeard, NEW v, at'[v] = at[v], Heard(v)' PROVE Heard(v)
BY DEF Heard, StillHeard

LEMMA StillSteady ==
  ASSUME UNCHANGED <<job, parked>>, StillHeard, NEW v \in Visitors, at'[v] = at[v]
  PROVE  Steady(v)
<1>1. Unstarted(v) \/ ~(WaitsForDsh(v)' \/ job'[v].st = "sent")
  BY DEF Unstarted, WaitsForDsh
<1> QED BY <1>1, HeardStill DEF Steady

\* Whose answer is over may have said anything of it.
LEMMA OverStays ==
  ASSUME NEW v, ~Unstarted(v)', job'[v].st \notin Headed \cup Bodied, NEW k
  PROVE  SaidSoFar(v, k)'
BY DEF SaidSoFar

LEMMA HushWhole ==
  ASSUME AllInv, WholeInv, UNCHANGED <<wrapped, at, pub, got>>, Lagging,
         NEW fs, (AgentSend(fs) /\ fs \in Seq(FrameSet)) \/ UNCHANGED up,
         ~UNCHANGED up => \A v \in Visitors : fs \in Seq(Quiet(v)),
         ~wrapped => \A v \in Visitors : Steady(v)
  PROVE  WholeInv'
<1>1. CASE UNCHANGED up
  BY <1>1, SteadyStays, MuteWhole
<1>2. CASE ~UNCHANGED up
  <2>1. AgentSend(fs) /\ fs \in Seq(FrameSet)
    BY <1>2
  <2>2. ASSUME NEW v \in Visitors, NEW m \in 0..3, ~wrapped, SaidSoFar(v, m)
        PROVE  (\E k \in m..3 : Tells(fs, v, m, k) /\ SaidSoFar(v, k)') /\ SaidSoFar(v, m)'
    <3>1. SaidSoFar(v, m)'
      BY <2>2, SteadyStays
    <3>2. Tells(fs, v, m, m) /\ m \in m..3
      BY <1>2, <2>2, QuietTells
    <3> QED BY <3>1, <3>2
  <2> QED BY <2>1, <2>2, SpeaksWhole
<1> QED BY <1>1, <1>2

LEMMA QuietIsFrames == ASSUME NEW v, NEW fs \in Seq(Quiet(v)) PROVE fs \in Seq(FrameSet)
<1>1. Quiet(v) \subseteq FrameSet
  BY DEF Quiet
<1> QED BY <1>1, SeqGrows

LEMMA LocalWhole ==
  ASSUME AllInv, TalkInv, EndInv, WholeInv, UNCHANGED relayVars, NEW w \in Visitors,
         LocalHead(w) \/ LocalBody(w) \/ LocalRead(w) \/ LocalEnd(w) \/ LocalSpill(w) \/ LocalError(w) \/ LocalAnswer(w)
  PROVE  WholeInv'
<1>1. /\ UNCHANGED <<at, pub, got, wrapped, down, parked>> /\ StillHeard
      /\ ~job[w].sealed /\ (~wrapped => JobsHeld /\ TailsIdle)
  BY DEF LocalHead, LocalBody, LocalRead, LocalEnd, LocalSpill, LocalError, LocalAnswer, JobsOnly, relayVars,
         StillHeard, TalkInv, EndInv, Unsealed
<1>2. job \in [Visitors -> JobSet] /\ job[w].id \in Ids /\ w \in Whos
  BY SealTypes, WhosAre
<1>3. job[w].st \in AtDsh \cup Compressing
  BY DEF LocalHead, LocalBody, LocalRead, LocalEnd, LocalSpill, LocalError, LocalAnswer, AtDsh, Compressing
<1>4. ASSUME ~wrapped PROVE ~OnTheWay(w) /\ ~WaitsForDsh(w)
  <2>1. CASE job[w].st \in AtDsh
    BY <1>1, <1>4, <2>1, WorkIsOne
  <2>2. CASE job[w].st \in Compressing
    BY <1>1, <1>4, <2>2 DEF TailsIdle, Workers, Working
  <2> QED BY <1>3, <2>1, <2>2
<1>5. ASSUME ~wrapped PROVE ~OnTheWay(w)' /\ ~WaitsForDsh(w)'
  BY <1>1, <1>4, <1>5 DEF OnTheWay, WaitsForDsh
<1>6. \A v \in Visitors : Heard(v)' <=> Heard(v)
  BY <1>1 DEF Heard, LocalHead, LocalBody, LocalRead, LocalEnd, LocalSpill, LocalError, LocalAnswer, JobsOnly
\* What all of them have in common: what is said, and how far w is then.
<1>7. ASSUME NEW fs \in Seq(FrameSet), AgentSend(fs), \A v \in Visitors : v # w => fs \in Seq(Quiet(v)),
             NEW s, job' = [job EXCEPT ![w].st = s],
             \A m \in 0..3 : ~wrapped /\ SaidSoFar(w, m) =>
               /\ Heard(w) => \E k \in m..3 : Tells(fs, w, m, k) /\ SaidSoFar(w, k)'
               /\ ~Heard(w) => SaidSoFar(w, m)'
      PROVE  WholeInv'
  <2>1. ASSUME NEW v \in Visitors, v # w, ~wrapped, NEW m \in 0..3, SaidSoFar(v, m)
        PROVE  (\E k \in m..3 : Tells(fs, v, m, k) /\ SaidSoFar(v, k)') /\ SaidSoFar(v, m)'
    <3>1. job'[v] = job[v]
      BY <1>2, <1>7, <2>1
    <3>2. Steady(v)
      BY <1>1, <1>6, <3>1 DEF Steady, Unstarted, WaitsForDsh
    <3>3. SaidSoFar(v, m)'
      BY <1>1, <2>1, <3>2, SteadyStays, StillLags
    <3>4. Tells(fs, v, m, m) /\ m \in m..3
      BY <1>7, <2>1, QuietTells
    <3> QED BY <3>3, <3>4
  <2> QED BY <1>1, <1>7, <2>1, SpeaksWhole
<1>8. ASSUME NEW t \in {"head", "zipped", "spill", "body", "flushing"}, ~wrapped, job' = [job EXCEPT ![w].st = t]
      PROVE  ~Unstarted(w)' /\ job'[w].st = t
  <2>1. job'[w].st = t
    BY <1>2, <1>8 DEF JobSet
  <2> QED BY <1>5, <1>8, <2>1 DEF Unstarted
<1>9. ASSUME LocalHead(w) PROVE WholeInv'
  <2> DEFINE fs == <<Ctl("res_head", job[w].id, w)>>
  <2>1. AgentSend(fs) /\ job' = [job EXCEPT ![w].st = "head"] /\ job[w].st = "sent"
    BY <1>9 DEF LocalHead
  <2>2. fs \in Seq(FrameSet) /\ Tells(fs, w, 0, 1) /\ \A v \in Visitors : v # w => fs \in Seq(Quiet(v))
    BY <1>2, Parts, Hushes DEF FrameTypes
  <2> HIDE DEF fs
  <2>3. ASSUME ~wrapped PROVE SaidSoFar(w, 1)' /\ (~Heard(w) => SaidSoFar(w, 0)')
    BY <1>6, <1>8, <2>1, <2>3 DEF SaidSoFar, Headed, Bodied
  <2>4. ASSUME NEW m \in 0..3, SaidSoFar(w, m) PROVE m = 0 /\ 1 \in m..3
    BY <2>1, <2>4 DEF SaidSoFar, Unstarted
  <2> QED BY <1>7, <2>1, <2>2, <2>3, <2>4
<1>10. ASSUME LocalBody(w) PROVE WholeInv'
  <2> DEFINE fs == <<Data("res_body", job[w].id, w, 0)>>
             t == IF job[w].st = "head" THEN "body" ELSE "flushing"
  <2>1. AgentSend(fs) /\ job' = [job EXCEPT ![w].st = t] /\ job[w].st \in Headed /\ t \in {"body", "flushing"}
    BY <1>2, <1>10 DEF LocalBody, Headed
  <2>2. fs \in Seq(FrameSet) /\ Tells(fs, w, 1, 2) /\ \A v \in Visitors : v # w => fs \in Seq(Quiet(v))
    BY <1>2, Constants, Parts, Hushes DEF FrameTypes
  <2> HIDE DEF fs, t
  <2>3. ASSUME NEW m \in 0..3, ~wrapped, SaidSoFar(w, m)
        PROVE  m \in 0..1 /\ (Heard(w) => m = 1 /\ 2 \in m..3)
    BY <2>1, <2>3 DEF SaidSoFar
  <2>4. ASSUME ~wrapped PROVE ~Unstarted(w)' /\ job'[w].st \in {"body", "flushing"}
    BY <1>8, <2>1, <2>4
  <2>5. ASSUME ~wrapped PROVE SaidSoFar(w, 2)' /\ (~Heard(w) => \A m \in 0..1 : SaidSoFar(w, m)')
    BY <1>6, <2>4, <2>5 DEF SaidSoFar, Headed, Bodied
  <2>6. ASSUME NEW m \in 0..3, ~wrapped, SaidSoFar(w, m)
        PROVE  /\ Heard(w) => \E k \in m..3 : Tells(fs, w, m, k) /\ SaidSoFar(w, k)'
               /\ ~Heard(w) => SaidSoFar(w, m)'
    BY <2>2, <2>3, <2>5, <2>6
  <2> QED BY <1>7, <2>1, <2>2, <2>6
\* What ends the work may have said anything.
<1>11. ASSUME job' = [job EXCEPT ![w].st = "over"], ~wrapped, NEW k PROVE SaidSoFar(w, k)'
  <2>1. job'[w].st = "over"
    BY <1>2, <1>11 DEF JobSet
  <2>2. ~Unstarted(w)' /\ job'[w].st \notin Headed \cup Bodied
    BY <1>5, <1>11, <2>1 DEF Unstarted, Headed, Bodied
  <2> QED BY <2>2, OverStays
\* Reading says nothing.
<1>12. ASSUME LocalRead(w) PROVE WholeInv'
  <2> DEFINE t == IF job[w].st = "head" THEN "zipped" ELSE "flushing"
  <2>1. /\ UNCHANGED up /\ job' = [job EXCEPT ![w].st = t]
        /\ (job[w].st = "head" /\ t = "zipped") \/ (job[w].st = "body" /\ t = "flushing")
    BY <1>2, <1>12 DEF LocalRead
  <2> HIDE DEF t
  <2>2. \A v \in Visitors : v # w => job'[v] = job[v]
    BY <1>2, <2>1
  <2>3. job'[w].st = t
    BY <1>2, <2>1 DEF JobSet
  <2>4. ASSUME NEW v \in Visitors PROVE Steady(v)
    <3>1. CASE v = w
      BY <1>1, <1>6, <2>1, <2>3, <3>1 DEF Steady, Headed, Bodied, Unstarted, WaitsForDsh
    <3>2. CASE v # w
      BY <1>1, <1>6, <2>2, <3>2 DEF Steady, Unstarted, WaitsForDsh
    <3> QED BY <3>1, <3>2
  <2> QED BY <1>1, <2>1, <2>4, StillLags, HushWhole
<1>13. ASSUME LocalEnd(w) PROVE WholeInv'
  <2> DEFINE fs == <<Ctl("res_end", job[w].id, w)>>
  <2>1. AgentSend(fs) /\ job' = [job EXCEPT ![w].st = "over"] /\ job[w].st \in Bodied
    BY <1>13 DEF LocalEnd, Bodied
  <2>2. fs \in Seq(FrameSet) /\ Tells(fs, w, 2, 3) /\ \A v \in Visitors : v # w => fs \in Seq(Quiet(v))
    BY <1>2, Parts, Hushes DEF FrameTypes
  <2> HIDE DEF fs
  <2>3. ASSUME NEW m \in 0..3, ~wrapped, SaidSoFar(w, m)
        PROVE  /\ Heard(w) => \E k \in m..3 : Tells(fs, w, m, k) /\ SaidSoFar(w, k)'
               /\ ~Heard(w) => SaidSoFar(w, m)'
    <3>1. Heard(w) => m = 2 /\ 3 \in m..3
      BY <2>1, <2>3 DEF SaidSoFar
    <3> QED BY <1>11, <2>1, <2>2, <2>3, <3>1
  <2> QED BY <1>7, <2>1, <2>2, <2>3
<1>14. ASSUME LocalSpill(w), ~UNCHANGED up PROVE WholeInv'
  <2> DEFINE fs == <<Data("res_body", job[w].id, w, 0)>>
  <2>1. AgentSend(fs) /\ job' = [job EXCEPT ![w].st = "over"] /\ job[w].st \in Headed
    BY <1>14 DEF LocalSpill, Headed
  <2>2. fs \in Seq(FrameSet) /\ Tells(fs, w, 1, 2) /\ \A v \in Visitors : v # w => fs \in Seq(Quiet(v))
    BY <1>2, Constants, Parts, Hushes DEF FrameTypes
  <2> HIDE DEF fs
  <2>3. ASSUME NEW m \in 0..3, ~wrapped, SaidSoFar(w, m)
        PROVE  /\ Heard(w) => \E k \in m..3 : Tells(fs, w, m, k) /\ SaidSoFar(w, k)'
               /\ ~Heard(w) => SaidSoFar(w, m)'
    <3>1. Heard(w) => m = 1 /\ 2 \in m..3
      BY <2>1, <2>3 DEF SaidSoFar
    <3> QED BY <1>11, <2>1, <2>2, <2>3, <3>1
  <2> QED BY <1>7, <2>1, <2>2, <2>3
<1>15. ASSUME LocalSpill(w), UNCHANGED up PROVE WholeInv'
  <2>1. job' = [job EXCEPT ![w].st = "over"]
    BY <1>15 DEF LocalSpill
  <2>2. \A v \in Visitors : v # w => job'[v] = job[v]
    BY <1>2, <2>1
  <2>3. job'[w].st = "over"
    BY <1>2, <2>1 DEF JobSet
  <2>4. ASSUME NEW v \in Visitors, ~wrapped PROVE Steady(v)
    <3>1. CASE v = w
      BY <1>5, <2>3, <2>4, <3>1 DEF Steady, Headed, Bodied
    <3>2. CASE v # w
      BY <1>1, <1>6, <2>2, <3>2 DEF Steady, Unstarted, WaitsForDsh
    <3> QED BY <3>1, <3>2
  <2> QED BY <1>1, <1>15, <2>4, StillLags, HushWhole
<1>16. ASSUME LocalError(w) PROVE WholeInv'
  <2> DEFINE t == IF job[w].st = "head" THEN "spill" ELSE "over"
  <2>1. job' = [job EXCEPT ![w].st = t] /\ job[w].st \in AtDsh
    BY <1>2, <1>16 DEF LocalError, CutShort, JobSet
  <2>2. job'[w].st = t
    BY <1>2, <2>1 DEF JobSet
  <2>3. (job[w].st = "head" /\ t = "spill") \/ (job[w].st # "head" /\ t = "over")
    OBVIOUS
  <2> HIDE DEF t
  <2>4. ASSUME NEW m \in 0..3, ~wrapped, SaidSoFar(w, m) PROVE SaidSoFar(w, m)'
    <3>1. CASE t = "over"
      BY <1>11, <2>1, <2>4, <3>1
    <3>2. CASE job[w].st = "head" /\ t = "spill"
      <4>1. ~Unstarted(w)'
        BY <1>5, <2>2, <2>4, <3>2 DEF Unstarted
      <4> QED BY <1>6, <2>2, <2>4, <3>2, <4>1 DEF SaidSoFar, Headed, Bodied
    <3> QED BY <2>3, <3>1, <3>2
  <2>5. ASSUME NEW fs \in Seq(FrameSet), AgentSend(fs), \A v \in Visitors : v # w => fs \in Seq(Quiet(v)),
               job[w].st = "sent" => fs \in Seq(Quiet(w)) \/ Tells(fs, w, 0, 3),
               job[w].st # "sent" => fs \in Seq(Quiet(w))
        PROVE  WholeInv'
    <3>1. ASSUME NEW m \in 0..3, ~wrapped, SaidSoFar(w, m)
          PROVE  /\ \E k \in m..3 : Tells(fs, w, m, k) /\ SaidSoFar(w, k)'
                 /\ SaidSoFar(w, m)'
      <4>1. SaidSoFar(w, m)'
        BY <2>4, <3>1
      <4>2. CASE fs \in Seq(Quiet(w))
        <5>1. Tells(fs, w, m, m) /\ m \in m..3
          BY <4>2, QuietTells
        <5> QED BY <4>1, <5>1
      <4>3. CASE job[w].st = "sent" /\ Tells(fs, w, 0, 3)
        <5>1. m = 0 /\ 3 \in m..3
          BY <3>1, <4>3 DEF SaidSoFar, Unstarted
        <5>2. SaidSoFar(w, 3)'
          BY <1>11, <2>1, <2>3, <3>1, <4>3
        <5> QED BY <4>1, <4>3, <5>1, <5>2
      <4> QED BY <2>5, <4>2, <4>3
    <3> QED BY <1>7, <2>1, <2>5, <3>1
  <2>6. CASE AgentSend(LastWords(w))
    BY <2>5, <2>6, LastParts
  <2>7. CASE AgentSend(<<Ctl("abort", job[w].id, w)>>)
    <3> DEFINE fs == <<Ctl("abort", job[w].id, w)>>
    <3>1. \A v \in Visitors : fs \in Seq(Quiet(v))
      BY <1>2, Hushes DEF FrameTypes, Answers
    <3> HIDE DEF fs
    <3>2. fs \in Seq(FrameSet)
      BY <3>1, QuietIsFrames
    <3> QED BY <2>5, <2>7, <3>1, <3>2 DEF fs
  <2> QED BY <1>16, <2>6, <2>7 DEF LocalError
<1> QED BY <1>1, <1>9, <1>10, <1>12, <1>13, <1>14, <1>15, <1>16 DEF LocalAnswer

LEMMA LinkWhole ==
  ASSUME AllInv, WholeInv, UNCHANGED relayVars, NEW b \in Browsers,
         LinkOpen(b) \/ LinkMessage(b) \/ LinkClose(b) \/ LinkRefused(b) \/ LinkCongested(b)
  PROVE  WholeInv'
<1>1. /\ UNCHANGED <<wrapped, at, pub, got>> /\ UNCHANGED <<job, parked, down>> /\ StillHeard
  BY DEF LinkOpen, LinkMessage, LinkClose, LinkRefused, LinkCongested, SocketsOnly, relayVars, StillHeard
<1>2. Lagging /\ \A v \in Visitors : Steady(v)
  BY <1>1, StillLags, StillSteady
<1>3. /\ link[b].id \in Ids /\ b \in Whos /\ {"ws_msg", "ws_close", "ws_reject"} \subseteq FrameTypes \ Answers
      /\ \A k \in Keys : k \in 0..(MaxKey + 1)
      /\ e2eKey \in Keys /\ 0 \in Keys
  BY SealTypes, WhosAre, Constants DEF AllInv, TypeInv, AgentTypeOK, FrameTypes, Answers, Keys
<1>4. ASSUME NEW fs, AgentSend(fs), \A v \in Visitors : fs \in Seq(Quiet(v)), fs \in Seq(FrameSet) PROVE WholeInv'
  BY <1>1, <1>2, <1>4, HushWhole
<1>5. ASSUME UNCHANGED up PROVE WholeInv'
  BY <1>1, <1>2, <1>5, HushWhole
<1>6. ASSUME AgentSend(<<Data("ws_msg", link[b].id, b, IF link[b].sealed THEN e2eKey ELSE 0)>>) PROVE WholeInv'
  <2> DEFINE k == IF link[b].sealed THEN e2eKey ELSE 0
             fs == <<Data("ws_msg", link[b].id, b, k)>>
  <2>1. k \in 0..(MaxKey + 1)
    BY <1>3
  <2> HIDE DEF k
  <2>2. \A v \in Visitors : fs \in Seq(Quiet(v))
    BY <1>3, <2>1, Hushes
  <2>3. fs \in Seq(FrameSet)
    <3>1. b \in Whos \cup {None} /\ "ws_msg" \in FrameTypes
      BY <1>3
    <3>2. Data("ws_msg", link[b].id, b, k) \in FrameSet
      BY <1>3, <2>1, <3>1, FrameType
    <3> QED BY <3>2
  <2> QED BY <1>4, <1>6, <2>2, <2>3 DEF k
<1>7. ASSUME NEW t \in {"ws_close", "ws_reject"}, AgentSend(<<Ctl(t, link[b].id, b)>>) PROVE WholeInv'
  <2>1. \A v \in Visitors : <<Ctl(t, link[b].id, b)>> \in Seq(Quiet(v))
    BY <1>3, Hushes
  <2>2. <<Ctl(t, link[b].id, b)>> \in Seq(FrameSet)
    BY <1>3, Constants, TextType DEF Keys
  <2> QED BY <1>4, <1>7, <2>1, <2>2
<1>8. ASSUME AgentSend(ClosedEarly(link[b].id)) PROVE WholeInv'
  <2>1. ClosedEarly(link[b].id) \in Seq(FrameSet) /\ \A v \in Visitors : ClosedEarly(link[b].id) \in Seq(Quiet(v))
    BY <1>3, EarlyHushes, ClosedEarlyType, TalkTypes DEF LsocksOK
  <2> QED BY <1>4, <1>8, <2>1
<1>9. CASE LinkOpen(b)
  BY <1>5, <1>9 DEF LinkOpen
<1>10. CASE LinkMessage(b)
  BY <1>6, <1>10 DEF LinkMessage
<1>11. CASE LinkClose(b) \/ LinkRefused(b) \/ LinkCongested(b)
  BY <1>7, <1>8, <1>11 DEF LinkClose, LinkRefused, LinkCongested
<1> QED BY <1>9, <1>10, <1>11

LEMMA SettledWhole ==
  ASSUME NothingSealed, AllInv, WholeInv, UNCHANGED relayVars, CookieSettled
  PROVE  WholeInv'
<1> DEFINE waiting == {id \in Ids : parked[id] # None}
           plain   == {id \in waiting : Fate(parked[id]) = "replayed"}
           sealed  == {id \in waiting : Fate(parked[id]) = "buffered"}
           opened  == {id \in sealed \cap ended : Opens(parked[id])}
           refused(id) == \/ Fate(parked[id]) = "refused"
                          \/ id \in sealed \cap ended /\ ~Opens(parked[id])
           s == [id \in Ids |-> IF id \in waiting /\ refused(id) THEN Refusal(id, parked[id]) ELSE << >>]
<1>1. /\ job' = [v \in Visitors |->
                  IF \E id \in plain \cup opened : parked[id] = v
                  THEN LET id == CHOOSE i \in plain \cup opened : parked[i] = v
                       IN StartJob(v, id, id \in opened)
                  ELSE job[v]]
      /\ parked' = NoneOpen
      /\ AgentSend(InIdOrder(s))
  BY DEF CookieSettled
<1>2. UNCHANGED <<wrapped, at, pub, got>> /\ StillHeard /\ Lagging
  BY StillLags DEF CookieSettled, relayVars, StillHeard
<1>3. \A id \in waiting : parked[id] \in Visitors
  BY TalkTypes
<1>4. \A id \in waiting : Fate(parked[id]) = "replayed"
  BY <1>3, NothingIsSealed DEF AllInv
<1>5. \A id \in Ids : s[id] = << >>
  BY <1>4
<1>6. plain \cup opened \subseteq Ids
  OBVIOUS
<1> HIDE DEF waiting, plain, sealed, opened, refused, s
<1>7. ASSUME NEW v \in Visitors PROVE Steady(v)
  <2>1. ~WaitsForDsh(v)'
    BY <1>1, WhosAre DEF WaitsForDsh, NoneOpen
  <2>2. CASE \E id \in plain \cup opened : parked[id] = v
    <3>1. WaitsForDsh(v)
      BY <1>6, <2>2 DEF WaitsForDsh
    <3>2. \E id : job'[v] = StartJob(v, id, id \in opened)
      BY <1>1, <2>2
    <3>3. \A id : StartJob(v, id, id \in opened).st = "sent"
      BY Zenon DEF StartJob
    <3>4. job'[v].st = "sent"
      BY <3>2, <3>3
    <3> QED BY <3>1, <3>4 DEF Steady, Unstarted, Headed, Bodied
  <2>3. CASE ~ \E id \in plain \cup opened : parked[id] = v
    <3>1. job'[v] = job[v]
      BY <1>1, <2>3
    <3> QED BY <1>2, <2>1, <3>1, HeardStill DEF Steady, Unstarted
  <2> QED BY <2>2, <2>3
<1>8. ASSUME NEW F PROVE InIdOrder(s) \in Seq(F)
  <2>1. \A id \in Ids : s[id] \in Seq(F)
    BY <1>5, EmptySeq
  <2> QED BY <2>1, FoldType
<1>9. InIdOrder(s) \in Seq(FrameSet) /\ \A v \in Visitors : InIdOrder(s) \in Seq(Quiet(v))
  BY <1>8
<1> QED BY <1>1, <1>2, <1>7, <1>9, HushWhole

LEMMA DroppedSteady ==
  ASSUME AllInv, JobsHeld, DropStreams, NEW v \in Visitors, at'[v] = at[v], Heard(v)' => Heard(v)
  PROVE  Steady(v) /\ job'[v].st \notin AtDsh /\ ~WaitsForDsh(v)' /\ (job[v].st = "sent" => job'[v].st = "over")
<1>1. job'[v].st \notin AtDsh
  BY DropsJobs
<1>2. ~WaitsForDsh(v)'
  BY WhosAre DEF WaitsForDsh, DropStreams, NoneOpen
<1>3. job'[v] = (IF v \in InTable(requests) THEN CutShort(job[v]) ELSE job[v]) /\ job[v] \in JobSet
  BY SealTypes DEF DropStreams, DestroyStreams
<1>4. job'[v] = job[v] \/ job'[v].st = IF job[v].st = "head" THEN "spill" ELSE "over"
  BY <1>3 DEF CutShort, JobSet
<1>5. job[v].st = "sent" => job'[v].st = "over"
  BY <1>1, <1>4 DEF AtDsh
<1>6. /\ job'[v].st \in Headed => job[v].st \in Headed
      /\ job'[v].st \in Bodied => job[v].st \in Bodied
  BY <1>4 DEF Headed, Bodied
<1>7. job'[v].st # "sent"
  BY <1>1 DEF AtDsh
<1> QED BY <1>1, <1>2, <1>5, <1>6, <1>7 DEF Steady

\* The local requests that are dropped say their last words, in the order of
\* their ids: one of them is v's, if dsh has it and has not answered.
LEMMA SetWhole ==
  ASSUME AllInv, TalkInv, WholeInv, UNCHANGED relayVars, NEW k, SetE2E(k)
  PROVE  WholeInv'
<1> DEFINE p(id) == IF requests[id] = None THEN << >> ELSE LastWords(requests[id])
           q(id) == IF ClosedEarly(id) = << >> THEN << >> ELSE <<Head(ClosedEarly(id))>>
           s == [id \in Ids |-> p(id) \o q(id)]
           fs == InIdOrder(s)
<1>1. DropStreams /\ AgentSend(fs) /\ UNCHANGED down /\ UNCHANGED wire
  BY DEF SetE2E
<1>2. UNCHANGED <<at, pub, got, wrapped, down>> /\ StillHeard
  BY <1>1 DEF relayVars, SetE2E, StillHeard
<1>3. ~wrapped => JobsHeld
  BY DEF TalkInv
<1>4. Lagging
  BY <1>2, StillLags
<1>5. \A id \in Ids : s[id] = p(id) \o q(id) /\ requests[id] \in Visitors \cup {None}
  BY TalkTypes
<1>6. ASSUME NEW id \in Ids, NEW v \in Visitors
      PROVE  /\ q(id) \in Seq(Quiet(v))
             /\ requests[id] # v \/ job[v].st # "sent" => p(id) \in Seq(Quiet(v))
  <2>1. q(id) \in Seq(Quiet(v))
    BY <1>6, EarlyHushes
  <2>2. CASE requests[id] = None
    BY <2>1, <2>2, EmptySeq
  <2>3. CASE requests[id] # None
    <3>1. PICK w \in Visitors : requests[id] = w
      BY <1>5, <2>3
    <3>2. w # v \/ job[v].st # "sent" => LastWords(w) \in Seq(Quiet(v))
      BY LastParts
    <3> QED BY <2>1, <2>3, <3>1, <3>2
  <2> QED BY <2>2, <2>3
<1>7. ASSUME NEW id \in Ids, requests[id] \in Visitors PROVE p(id) = LastWords(requests[id])
  BY <1>7, WhosAre
<1>8. ASSUME NEW id \in Ids PROVE p(id) \in Seq(FrameSet) /\ q(id) \in Seq(FrameSet)
  <2>1. p(id) \in Seq(FrameSet)
    <3>1. CASE requests[id] = None
      BY <3>1, EmptySeq
    <3>2. CASE requests[id] # None
      <4>1. PICK w \in Visitors : requests[id] = w
        BY <1>5, <3>2
      <4> QED BY <3>2, <4>1, LastParts
    <3> QED BY <3>1, <3>2
  <2>2. q(id) \in Seq(FrameSet)
    <3>1. CASE ClosedEarly(id) = << >>
      BY <3>1, EmptySeq
    <3>2. CASE ClosedEarly(id) # << >>
      <4>1. ClosedEarly(id) \in Seq(FrameSet)
        BY ClosedEarlyType, TalkTypes DEF LsocksOK
      <4>2. Head(ClosedEarly(id)) \in FrameSet
        BY <3>2, <4>1
      <4> QED BY <3>2, <4>2
    <3> QED BY <3>1, <3>2
  <2> QED BY <2>1, <2>2
<1> HIDE DEF p, q, s
<1>9. \A id \in Ids : s[id] \in Seq(FrameSet)
  <2> SUFFICES ASSUME NEW id \in Ids PROVE s[id] \in Seq(FrameSet)
    OBVIOUS
  <2>1. p(id) \in Seq(FrameSet) /\ q(id) \in Seq(FrameSet)
    BY <1>8
  <2>2. p(id) \o q(id) \in Seq(FrameSet)
    BY <2>1
  <2> QED BY <1>5, <2>2
<1>10. fs \in Seq(FrameSet)
  BY <1>9, FoldType
<1>11. ASSUME NEW v \in Visitors, NEW id \in Ids, requests[id] # v \/ job[v].st # "sent" PROVE s[id] \in Seq(Quiet(v))
  <2> DEFINE S == Quiet(v)
  <2>1. p(id) \in Seq(S) /\ q(id) \in Seq(S)
    BY <1>6, <1>11
  <2> HIDE DEF S
  <2>2. p(id) \o q(id) \in Seq(S)
    BY <2>1
  <2> QED BY <1>5, <2>2 DEF S
<1>12. ASSUME NEW v \in Visitors, \A id \in Ids : requests[id] # v \/ job[v].st # "sent" PROVE fs \in Seq(Quiet(v))
  <2>1. \A id \in Ids : s[id] \in Seq(Quiet(v))
    BY <1>11, <1>12
  <2> QED BY <2>1, FoldType
<1>13. ASSUME NEW v \in Visitors, ~wrapped, job[v].st = "sent" PROVE Tells(fs, v, 0, 3)
  <2> DEFINE k0 == job[v].id
             lvl == [i \in 0..MaxId |-> IF i < k0 THEN 0 ELSE 3]
  <2>1. k0 \in Ids /\ requests[k0] = v /\ \A id \in Ids : requests[id] = v => id = k0
    BY <1>3, <1>13, SealTypes DEF JobsHeld, AtDsh
  <2>2. MaxId \in Nat /\ Ids = 1..MaxId
    BY Constants DEF Ids
  <2> HIDE DEF k0
  <2>3. /\ lvl[0] = 0 /\ lvl[MaxId] = 3
        /\ \A i \in 0..MaxId : lvl[i] \in 0..3
        /\ \A id \in Ids : /\ id - 1 \in 0..MaxId /\ id \in 0..MaxId
                           /\ id < k0 => lvl[id - 1] = 0 /\ lvl[id] = 0
                           /\ id = k0 => lvl[id - 1] = 0 /\ lvl[id] = 3
                           /\ id > k0 => lvl[id - 1] = 3 /\ lvl[id] = 3
    BY <2>1, <2>2
  <2> HIDE DEF lvl
  <2>4. ASSUME NEW id \in Ids PROVE lvl[id - 1] <= lvl[id] /\ Tells(s[id], v, lvl[id - 1], lvl[id])
    <3>1. CASE id = k0
      <4>1. p(id) = LastWords(v) /\ requests[id] = v
        BY <1>7, <2>1, <3>1
      <4>2. Tells(p(id), v, 0, 3) /\ p(id) \in Seq(FrameSet) /\ q(id) \in Seq(FrameSet)
        BY <1>8, <1>13, <4>1, LastParts
      <4>3. q(id) \in Seq(Quiet(v))
        BY <1>6
      <4>4. Tells(q(id), v, 3, 3)
        BY <4>3, QuietTells
      <4>5. Tells(p(id) \o q(id), v, 0, 3)
        BY <4>2, <4>4, TellsThen
      <4>6. s[id] = p(id) \o q(id)
        BY <1>5
      <4>7. Tells(s[id], v, 0, 3)
        BY <4>5, <4>6
      <4> QED BY <2>3, <3>1, <4>7
    <3>2. CASE id # k0
      <4>1. s[id] \in Seq(Quiet(v))
        BY <1>11, <2>1, <3>2
      <4>2. Tells(s[id], v, 0, 0) /\ Tells(s[id], v, 3, 3)
        BY <4>1, QuietTells
      <4>3. id < k0 \/ id > k0
        BY <2>1, <2>2, <3>2
      <4> QED BY <2>3, <4>2, <4>3
    <3> QED BY <3>1, <3>2
  <2>5. Tells(fs, v, lvl[0], lvl[MaxId])
    BY <1>9, <2>3, <2>4, TellsInOrder
  <2> QED BY <2>3, <2>5
<1> HIDE DEF fs
<1>14. ASSUME NEW v \in Visitors, NEW m \in 0..3, ~wrapped, SaidSoFar(v, m)
       PROVE  (\E j \in m..3 : Tells(fs, v, m, j) /\ SaidSoFar(v, j)') /\ SaidSoFar(v, m)'
  <2>1. /\ JobsHeld /\ Steady(v) /\ job'[v].st \notin AtDsh /\ ~WaitsForDsh(v)'
        /\ job[v].st = "sent" => job'[v].st = "over"
    BY <1>1, <1>2, <1>3, <1>14, DroppedSteady, HeardStill
  <2>2. SaidSoFar(v, m)'
    BY <1>2, <1>4, <1>14, <2>1, SteadyStays
  <2>3. CASE job[v].st # "sent"
    <3>1. Tells(fs, v, m, m) /\ m \in m..3
      BY <1>12, <2>3, QuietTells
    <3> QED BY <2>2, <3>1
  <2>4. CASE job[v].st = "sent"
    <3>1. m = 0 /\ 3 \in m..3
      BY <1>14, <2>4 DEF SaidSoFar, Unstarted
    <3>2. ~OnTheWay(v)
      BY <1>14, <2>1, <2>4, WorkIsOne DEF AtDsh
    <3>3. ~OnTheWay(v)'
      BY <1>4, <3>2, TakenHeads
    <3>4. ~Unstarted(v)' /\ job'[v].st \notin Headed \cup Bodied
      BY <2>1, <2>4, <3>3 DEF Unstarted, Headed, Bodied
    <3>5. SaidSoFar(v, 3)'
      BY <3>4, OverStays
    <3> QED BY <1>13, <1>14, <2>2, <2>4, <3>1, <3>5
  <2> QED BY <2>3, <2>4
<1> QED BY <1>1, <1>2, <1>10, <1>14, SpeaksWhole

LEMMA ConnectWhole ==
  ASSUME PromptClose, AllInv, TalkInv, WholeInv,
         \/ UNCHANGED relayVars /\ (Reconnect \/ \E n \in Conns : AgentCloseEvent(n))
         \/ \E n \in Conns : Handshake(n)
  PROVE  WholeInv'
<1>1. ASSUME Reconnect, UNCHANGED relayVars PROVE WholeInv'
  <2>1. /\ UNCHANGED <<wrapped, at, pub, got, up>> /\ UNCHANGED <<job, parked>> /\ UNCHANGED down
        /\ control' = dialled + 1 /\ asock' = [asock EXCEPT ![dialled + 1] = "connecting"]
    BY <1>1 DEF Reconnect, Dial, relayVars
  <2>2. asock \in [Conns -> AgentStates]
    BY DEF AllInv, TypeInv, AgentTypeOK
  <2>3. control' \in Conns => asock'[control'] # "open"
    BY <2>1, <2>2
  <2>4. \A v \in Visitors : ~Heard(v)'
    BY <2>3 DEF Heard
  <2>5. \A v \in Visitors : Steady(v)
    BY <2>1, <2>4 DEF Steady, Unstarted, WaitsForDsh
  <2> QED BY <2>1, <2>5, StillLags, HushWhole
\* Before a connection opens there is no work for dsh, and nothing compressed
\* is left from the one before.
<1>2. ASSUME NEW n \in Conns, Handshake(n) PROVE WholeInv'
  <2>1. /\ UNCHANGED <<wrapped, at, pub, got, up>> /\ UNCHANGED <<job, parked>> /\ UNCHANGED <<down, control, wire>>
        /\ asock[n] = "connecting" /\ asock' = [asock EXCEPT ![n] = "open"]
        /\ \A v \in Visitors : job[v].st \notin Compressing
    BY <1>2 DEF Handshake, Opened, Accept
  <2>2. asock \in [Conns -> AgentStates]
    BY DEF AllInv, TypeInv, AgentTypeOK
  <2>3. ASSUME ~wrapped, NEW v \in Visitors PROVE Steady(v)
    <3>1. CASE control = n
      <4>1. job[v].st \notin AtDsh
        <5> SUFFICES ASSUME job[v].st \in AtDsh PROVE FALSE
          OBVIOUS
        <5>1. requests[job[v].id] = v /\ v # None /\ job[v].id \in Ids
          BY <2>3, WhosAre, SealTypes DEF TalkInv, JobsHeld
        <5>2. asock[control] = "open"
          BY <2>3, <5>1, Owners
        <5> QED BY <2>1, <3>1, <5>2
      <4>2. job'[v].st \notin Headed \cup Bodied
        BY <2>1, <4>1 DEF Headed, Bodied, AtDsh, Compressing
      <4> QED BY <2>1, <4>2 DEF Steady, Unstarted, WaitsForDsh
    <3>2. CASE control # n
      <4>1. Heard(v)' => Heard(v)
        BY <2>1, <2>2, <3>2 DEF Heard
      <4> QED BY <2>1, <4>1 DEF Steady, Unstarted, WaitsForDsh
    <3> QED BY <3>1, <3>2
  <2> QED BY <2>1, <2>3, StillLags, HushWhole
<1>3. ASSUME NEW n \in Conns, AgentCloseEvent(n), UNCHANGED relayVars PROVE WholeInv'
  <2>1. /\ UNCHANGED <<wrapped, at, pub, got, wire, up>> /\ down' = [down EXCEPT ![n] = << >>]
        /\ control' = control \/ control' = NoConn
        /\ asock' = [asock EXCEPT ![n] = "closed"]
        /\ DropStreams \/ UNCHANGED <<job, parked>>
    BY <1>3 DEF AgentCloseEvent, relayVars
  <2>2. Lagging
    <3>1. down \in [Conns -> Seq(DownFrames)]
      BY DEF AllInv, TypeInv, DownOK
    <3>2. ASSUME NEW m \in Conns PROVE down'[m] = << >> \/ down'[m] = down[m]
      BY <2>1, <3>1
    <3>3. \A m \in Conns : \A i \in 1..Len(down'[m]) : i + 0 \in 1..Len(down[m]) /\ down'[m][i] = down[m][i + 0]
      BY <3>1, <3>2, EmptySeq
    <3> QED BY <3>3 DEF Lagging
  <2>3. asock \in [Conns -> AgentStates] /\ NoConn \notin Conns
    BY Constants DEF AllInv, TypeInv, AgentTypeOK
  <2>4. ASSUME NEW v \in Visitors PROVE Heard(v)' => Heard(v)
    BY <2>1, <2>3 DEF Heard
  <2>5. ASSUME ~wrapped, NEW v \in Visitors PROVE Steady(v)
    <3>1. CASE DropStreams
      BY <2>1, <2>4, <2>5, <3>1, DroppedSteady DEF TalkInv
    <3>2. CASE UNCHANGED <<job, parked>>
      BY <2>4, <3>2 DEF Steady, Unstarted, WaitsForDsh
    <3> QED BY <2>1, <3>1, <3>2
  <2> QED BY <2>1, <2>2, <2>5, HushWhole
<1> QED BY <1>1, <1>2, <1>3

LEMMA ReceiveWhole ==
  ASSUME NothingSealed, AllInv, TalkInv, EndInv, WholeInv, NEW n \in Conns, AgentReceive(n)
  PROVE  WholeInv'
<1> DEFINE f == Head(down[n])
<1>1. /\ asock[n] \in {"open", "closing"} /\ down[n] # << >> /\ AgentDispatch(f) /\ UNCHANGED relayVars
      /\ down' = [down EXCEPT ![n] = Tail(@)] /\ UNCHANGED wire
  BY DEF AgentReceive
<1>2. DownOK
  BY DEF AllInv, TypeInv
<1>3. f \in DownFrames /\ Lagging
  BY <1>1, <1>2, TailLags, TakenType DEF DownOK
<1>4. f.id \in Ids
  BY <1>3 DEF DownFrames, FrameSet
<1>5. UNCHANGED <<wrapped, at, pub, got>> /\ StillHeard /\ \A v \in Visitors : Heard(v)' => Heard(v)
  BY <1>1, HeardStill DEF relayVars, AgentDispatch, StillHeard
<1>6. /\ Unsealed /\ (~wrapped => JobsHeld /\ TailsIdle) /\ job \in [Visitors -> JobSet]
      /\ parked \in [Ids -> Visitors \cup {None}] /\ requests \in [Ids -> Visitors \cup {None}]
  BY TalkTypes DEF TalkInv, EndInv
<1>7. ASSUME ~wrapped, f.t = "req_head", NEW v, f.who = v PROVE OnTheWay(v) /\ ~OnTheWay(v)'
  BY <1>7, HeadTaken
<1> HIDE DEF f
<1>8. ASSUME UNCHANGED <<job, parked>>, UNCHANGED up \/ AgentSend(ClosedEarly(f.id)) PROVE WholeInv'
  <2>1. ClosedEarly(f.id) \in Seq(FrameSet) /\ \A v \in Visitors : ClosedEarly(f.id) \in Seq(Quiet(v))
    BY <1>4, EarlyHushes, ClosedEarlyType, TalkTypes DEF LsocksOK
  <2>2. \A v \in Visitors : Steady(v)
    BY <1>5, <1>8, StillSteady
  <2> QED BY <1>3, <1>5, <1>8, <2>1, <2>2, HushWhole
<1>9. CASE f.t = "req_head" /\ ReqHead(f)
  <2>1. f.who \in Visitors /\ f.who \in Whos /\ OpenRequest(f.who, f.id)
    BY <1>3, <1>9, WhosAre DEF DownFrames, ReqHead
  <2>2. Fate(f.who) = "replayed"
    BY <2>1, NothingIsSealed DEF AllInv
  <2>3. CASE AgentSend(Refusal(f.id, f.who)) /\ UNCHANGED <<job, parked>>
    <3> DEFINE fs == Refusal(f.id, f.who)
    <3>1. /\ fs \in Seq(FrameSet) /\ Tells(fs, f.who, 0, 3)
          /\ \A v \in Visitors : v # f.who => fs \in Seq(Quiet(v))
      BY <1>4, <2>1, Parts, Hushes
    <3> HIDE DEF fs
    <3>2. ASSUME NEW v \in Visitors, v # f.who, ~wrapped, NEW m \in 0..3, SaidSoFar(v, m)
          PROVE  (\E k \in m..3 : Tells(fs, v, m, k) /\ SaidSoFar(v, k)') /\ SaidSoFar(v, m)'
      <4>1. SaidSoFar(v, m)'
        BY <1>3, <1>5, <2>3, <3>2, StillSteady, SteadyStays
      <4>2. Tells(fs, v, m, m) /\ m \in m..3
        BY <3>1, <3>2, QuietTells
      <4> QED BY <4>1, <4>2
    <3>3. ASSUME NEW v, v = f.who, ~wrapped, NEW m \in 0..3, SaidSoFar(v, m)
          PROVE  (\E k \in m..3 : Tells(fs, v, m, k) /\ SaidSoFar(v, k)') /\ SaidSoFar(v, m)'
      <4>1. v \in Visitors /\ OnTheWay(v) /\ ~OnTheWay(v)'
        BY <1>7, <1>9, <2>1, <3>3
      <4>2. m = 0 /\ 3 \in m..3
        BY <3>3, <4>1 DEF SaidSoFar, Unstarted
      <4>3. job[v].st \notin AtDsh /\ ~WaitsForDsh(v)
        BY <1>6, <3>3, <4>1, WorkIsOne
      <4>4. ~Unstarted(v)' /\ job'[v].st \notin Headed \cup Bodied
        <5>1. job[v].st \notin Compressing
          BY <1>6, <3>3, <4>1 DEF TailsIdle, Workers, Working
        <5> QED BY <2>3, <4>1, <4>3, <5>1 DEF Unstarted, WaitsForDsh, AtDsh, Headed, Bodied, Compressing
      <4>5. \A k : SaidSoFar(v, k)'
        BY <4>4, OverStays
      <4> QED BY <3>1, <3>3, <4>2, <4>5
    <3> QED BY <1>5, <2>3, <3>1, <3>2, <3>3, SpeaksWhole DEF fs
  <2>4. CASE /\ UNCHANGED up
             /\ \/ UNCHANGED parked /\ job' = [job EXCEPT ![f.who] = StartJob(f.who, f.id, FALSE)]
                \/ UNCHANGED job /\ parked' = [parked EXCEPT ![f.id] = f.who]
    <3>1. ASSUME ~wrapped, NEW v \in Visitors PROVE Steady(v)
      <4>1. CASE v = f.who
        <5>1. Unstarted(v)
          BY <1>7, <1>9, <3>1, <4>1 DEF Unstarted
        <5>2. job'[v] = job[v] \/ job'[v] = StartJob(v, f.id, FALSE)
          BY <1>6, <2>4, <4>1
        <5>3. StartJob(v, f.id, FALSE).st = "sent"
          BY DEF StartJob
        <5>4. job'[v].st = job[v].st \/ job'[v].st = "sent"
          BY <5>2, <5>3
        <5> QED BY <1>5, <5>1, <5>4 DEF Steady, Headed, Bodied
      <4>2. CASE v # f.who
        <5>1. job'[v] = job[v] /\ (WaitsForDsh(v)' => WaitsForDsh(v))
          BY <1>4, <1>6, <2>4, <4>2 DEF WaitsForDsh
        <5> QED BY <1>5, <5>1 DEF Steady, Unstarted
      <4> QED BY <4>1, <4>2
    <3> QED BY <1>3, <1>5, <2>4, <3>1, HushWhole
  <2> QED BY <2>1, <2>2, <2>3, <2>4 DEF OpenRequest, Replay
<1>10. CASE f.t = "req_end" /\ ReqEnd(f)
  <2>1. buffered[f.id] = None
    BY <1>4, <1>6 DEF Unsealed
  <2>2. UNCHANGED <<job, parked>> /\ UNCHANGED up
    BY <1>10, <2>1 DEF ReqEnd
  <2> QED BY <1>8, <2>2
<1>11. CASE WsOpen(f) \/ WsData(f) \/ WsClose(f)
  <2>1. UNCHANGED <<job, parked>> /\ (UNCHANGED up \/ AgentSend(ClosedEarly(f.id)))
    BY <1>11 DEF WsOpen, WsData, WsClose
  <2> QED BY <1>8, <2>1
<1>12. CASE RelayAbort(f)
  <2> DEFINE r == requests[f.id]
             p == IF r = None THEN << >> ELSE LastWords(r)
             q == ClosedEarly(f.id)
             fs == p \o q
  <2>1. /\ job' = Destroyed(r) /\ parked' = [parked EXCEPT ![f.id] = None]
        /\ AgentSend(fs) /\ r \in Visitors \cup {None}
    BY <1>4, <1>6, <1>12 DEF RelayAbort
  <2>2. q \in Seq(FrameSet) /\ \A v \in Visitors : q \in Seq(Quiet(v))
    BY <1>4, EarlyHushes, ClosedEarlyType, TalkTypes DEF LsocksOK
  <2>3. ASSUME NEW v \in Visitors, r # v \/ job[v].st # "sent" PROVE p \in Seq(Quiet(v))
    <3>1. CASE r = None
      BY <3>1, EmptySeq
    <3>2. CASE r # None
      BY <2>1, <2>3, <3>2, LastParts
    <3> QED BY <3>1, <3>2
  <2>4. ASSUME NEW v \in Visitors, r = v, job[v].st = "sent" PROVE Tells(p, v, 0, 3)
    BY <2>4, LastParts, WhosAre
  <2>5. p \in Seq(FrameSet)
    <3>1. CASE r = None
      BY <3>1, EmptySeq
    <3>2. CASE r # None
      BY <2>1, <3>2, LastParts
    <3> QED BY <3>1, <3>2
  <2> HIDE DEF r, p, q
  <2>6. fs \in Seq(FrameSet)
    BY <2>2, <2>5
  <2> HIDE DEF fs
  <2>7. ASSUME NEW v \in Visitors, NEW m \in 0..3, ~wrapped, SaidSoFar(v, m)
        PROVE  (\E k \in m..3 : Tells(fs, v, m, k) /\ SaidSoFar(v, k)') /\ SaidSoFar(v, m)'
    <3>1. WaitsForDsh(v)' => WaitsForDsh(v)
      BY <1>4, <1>6, <2>1, WhosAre DEF WaitsForDsh
    <3>2. job'[v] = job[v] \/ (r = v /\ job'[v].st = IF job[v].st = "head" THEN "spill" ELSE "over")
      BY <1>6, <2>1 DEF Destroyed, CutShort, JobSet
    <3>3. Steady(v)
      BY <1>5, <3>1, <3>2 DEF Steady, Unstarted, Headed, Bodied
    <3>4. SaidSoFar(v, m)'
      BY <1>3, <2>7, <3>3, SteadyStays
    <3>5. CASE r # v \/ job[v].st # "sent"
      <4> DEFINE S == Quiet(v)
      <4>1. p \in Seq(S) /\ q \in Seq(S)
        BY <2>2, <2>3, <3>5
      <4> HIDE DEF S
      <4>2. fs \in Seq(S)
        BY <4>1 DEF fs
      <4>3. fs \in Seq(Quiet(v))
        BY <4>2 DEF S
      <4>4. Tells(fs, v, m, m) /\ m \in m..3
        BY <4>3, QuietTells
      <4> QED BY <3>4, <4>4
    <3>6. CASE r = v /\ job[v].st = "sent"
      <4>1. m = 0 /\ 3 \in m..3
        BY <2>7, <3>6 DEF SaidSoFar, Unstarted
      <4>2. Tells(p, v, 0, 3) /\ Tells(q, v, 3, 3)
        BY <2>2, <2>4, <3>6, QuietTells
      <4>3. Tells(fs, v, 0, 3)
        BY <2>2, <2>5, <4>2, TellsThen DEF fs
      <4>4. ~OnTheWay(v) /\ ~WaitsForDsh(v)
        BY <1>6, <2>7, <3>6, WorkIsOne DEF AtDsh
      <4>5. job'[v].st = "over"
        BY <1>6, <2>1, <3>6, WhosAre DEF Destroyed, CutShort, JobSet
      <4>6. ~OnTheWay(v)'
        BY <1>3, <4>4, TakenHeads
      <4>7. ~Unstarted(v)' /\ job'[v].st \notin Headed \cup Bodied
        BY <3>1, <4>4, <4>5, <4>6 DEF Unstarted, Headed, Bodied
      <4>8. SaidSoFar(v, 3)'
        BY <4>7, OverStays
      <4> QED BY <3>4, <4>1, <4>3, <4>8
    <3> QED BY <3>5, <3>6
  <2> QED BY <1>5, <2>1, <2>6, <2>7, SpeaksWhole
<1> QED BY <1>1, <1>9, <1>10, <1>11, <1>12 DEF AgentDispatch

\* The relay's side.  It starts a local request with a req_head only.
LEMMA PostedSaid ==
  ASSUME AllInv, UNCHANGED <<job, parked>>,
         NEW n, NEW fs \in Seq(DownFrames), down' = down \/ down' = Posted(down, n, fs),
         NEW v, \A k \in 1..Len(fs) : ~HeadOf(fs[k], v),
         Heard(v)' => Heard(v)
  PROVE  \A m \in 0..3 : SaidSoFar(v, m) => SaidSoFar(v, m)'
<1>1. OnTheWay(v)' => OnTheWay(v)
  BY PostedHeads DEF AllInv, TypeInv
<1>2. Unstarted(v)' => Unstarted(v)
  BY <1>1 DEF Unstarted, WaitsForDsh
<1> QED BY <1>2, SaidStays

LEMMA SendWhole ==
  ASSUME AllInv, WholeInv, UNCHANGED <<job, parked, got, up>>, wrapped => wrapped', StillHeard,
         \A v \in Visitors : at'[v] = at[v] /\ (pub'[v] = pub[v] \/ pub'[v] \in Ended \ {"complete"}),
         NEW n, NEW g \in DownFrames, g.t # "req_head", down' = down \/ down' = Posted(down, n, <<g>>)
  PROVE  WholeInv'
<1>1. /\ <<g>> \in Seq(DownFrames) /\ Len(<<g>>) = 1 /\ <<g>>[1] = g
      /\ \A v : \A k \in 1..Len(<<g>>) : ~HeadOf(<<g>>[k], v)
  BY DEF HeadOf
<1>2. ASSUME NEW v \in Visitors, pub'[v] \in Pending
      PROVE  /\ at'[v] = at[v] /\ up'[at[v].conn] = up[at[v].conn]
             /\ \A m \in 0..3 : SaidSoFar(v, m) => SaidSoFar(v, m)'
  <2>1. pub[v] \in Pending
    BY <1>2 DEF Pending, Ended
  <2>2. Heard(v)' => Heard(v)
    BY HeardStill
  <2> QED BY <1>1, <2>2, PostedSaid
<1> QED BY <1>2, MuteWhole

LEMMA PublicWhole ==
  ASSUME AllInv, WholeInv, UNCHANGED agentVars,
         \/ Public \/ \E n \in Conns, id \in Ids : IdleTimeout(n, id)
  PROVE  WholeInv'
<1>1. /\ UNCHANGED <<job, parked>> /\ UNCHANGED <<control, asock>>
      /\ pub \in [Visitors -> PubSet] /\ at \in [Whos -> [conn : Conns \cup {NoConn}, id : Ids]]
  BY DEF agentVars, AllInv, TypeInv, RelayTypeOK, PubSet
<1>2. ASSUME UNCHANGED <<got, up, wire, at, wrapped>>, NEW v, NEW s \in Ended \ {"complete"},
             pub' = pub \/ pub' = [pub EXCEPT ![v] = s],
             NEW n, NEW g \in DownFrames, g.t # "req_head", RelaySend(n, <<g>>) \/ UNCHANGED down
      PROVE  WholeInv'
  <2>1. \A w \in Visitors : pub'[w] = pub[w] \/ pub'[w] \in Ended \ {"complete"}
    BY <1>1, <1>2
  <2>2. down' = down \/ down' = Posted(down, n, <<g>>)
    BY <1>2 DEF RelaySend
  <2>3. StillHeard
    BY <1>1, <1>2 DEF StillHeard
  <2> QED BY <1>1, <1>2, <2>1, <2>2, <2>3, SendWhole
<1>3. ASSUME NEW w \in Whos
      PROVE  /\ at[w].id \in Ids /\ Ctl("abort", at[w].id, w) \in DownFrames /\ Ctl("ws_close", at[w].id, w) \in DownFrames
             /\ w \in Visitors => Ctl("req_end", at[w].id, w) \in DownFrames
             /\ w \in Browsers => Data("ws_msg", at[w].id, w, 0) \in DownFrames
  <2>1. at[w].id \in Ids /\ w \in Whos \cup {None}
    BY PlaceType DEF AllInv, TypeInv
  <2> QED BY <2>1, DownType
<1>4. "gone" \in Ended \ {"complete"} /\ \A s : WrittenOff(s) \in Ended \ {"complete"}
  BY DEF Ended, WrittenOff
<1>5. ASSUME NEW v \in Visitors, RequestEnd(v) \/ RequestError(v) \/ ClientClose(v) PROVE WholeInv'
  <2>1. /\ Ctl("req_end", at[v].id, v) \in DownFrames /\ Ctl("req_end", at[v].id, v).t # "req_head"
        /\ Ctl("abort", at[v].id, v) \in DownFrames /\ Ctl("abort", at[v].id, v).t # "req_head"
    BY <1>3, WhosAre DEF Ctl
  <2>2. CASE RequestEnd(v)
    BY <1>2, <1>4, <2>1, <2>2 DEF RequestEnd
  <2>3. CASE RequestError(v)
    BY <1>2, <1>4, <2>1, <2>3 DEF RequestError
  <2>4. CASE ClientClose(v)
    BY <1>2, <1>4, <2>1, <2>4 DEF ClientClose
  <2> QED BY <1>5, <2>2, <2>3, <2>4
<1>6. ASSUME NEW b \in Browsers, BrowserMessage(b) \/ BrowserClose(b) PROVE WholeInv'
  <2>1. /\ Data("ws_msg", at[b].id, b, 0) \in DownFrames /\ Data("ws_msg", at[b].id, b, 0).t # "req_head"
        /\ Ctl("ws_close", at[b].id, b) \in DownFrames /\ Ctl("ws_close", at[b].id, b).t # "req_head"
    BY <1>3, WhosAre DEF Ctl, Data
  <2>2. CASE BrowserMessage(b)
    BY <1>2, <1>4, <2>1, <2>2 DEF BrowserMessage, relayVars
  <2>3. CASE BrowserClose(b)
    BY <1>2, <1>4, <2>1, <2>3 DEF BrowserClose
  <2> QED BY <1>6, <2>2, <2>3
<1>7. ASSUME NEW n \in Conns, NEW id \in Ids, IdleTimeout(n, id) PROVE WholeInv'
  <2>1. Ctl("abort", id, None) \in DownFrames /\ Ctl("abort", id, None).t # "req_head"
    BY DownType DEF Ctl
  <2>2. /\ UNCHANGED <<got, up, wire, at, wrapped>> /\ RelaySend(n, <<Ctl("abort", id, None)>>)
        /\ pub' = pub \/ pub' = [pub EXCEPT ![responses[n][id]] = WrittenOff(pub[responses[n][id]])]
    BY <1>7 DEF IdleTimeout
  <2> QED BY <1>2, <1>4, <2>1, <2>2
<1>8. ASSUME NEW b \in Browsers, Upgrade(b) PROVE WholeInv'
  <2> DEFINE g == Ctl("ws_open", nextId[routed], b)
  <2>1. UNCHANGED <<got, up, pub>> /\ StillHeard /\ \A v \in Visitors : at'[v] = at[v]
    BY <1>1, <1>8, WhosAre DEF Upgrade, StillHeard
  <2>2. wrapped => wrapped'
    BY <1>8, Zenon DEF Upgrade
  <2>3. CASE routed = NoConn
    <3>1. UNCHANGED down
      BY <1>8, <2>3 DEF Upgrade
    <3> QED BY <1>1, <2>1, <2>2, <3>1, CloseType, SendWhole
  <2>4. CASE routed # NoConn
    <3>1. nextId[routed] \in Ids
      BY <2>4 DEF AllInv, TypeInv, RelayTypeOK
    <3>2. g \in DownFrames /\ g.t # "req_head"
      BY <3>1, DownType DEF Ctl
    <3>3. down' = down \/ down' = Posted(down, routed, <<g>>)
      BY <1>8, <2>4 DEF Upgrade, RelaySend
    <3> HIDE DEF g
    <3> QED BY <1>1, <2>1, <2>2, <3>2, <3>3, SendWhole
  <2> QED BY <2>3, <2>4
<1> QED BY <1>5, <1>6, <1>7, <1>8 DEF Public

LEMMA LossWhole ==
  ASSUME AllInv, WholeInv, UNCHANGED agentVars, NEW n \in Conns, Admit(n) \/ Terminate(n) \/ CloseEvent(n) \/ Loss(n)
  PROVE  WholeInv'
<1>1. /\ UNCHANGED <<job, parked>> /\ UNCHANGED <<control, asock>>
      /\ UNCHANGED <<got, at, wrapped, down>> /\ wire \in [Conns -> {"up", "down"}]
  BY DEF agentVars, Admit, Terminate, CloseEvent, Loss, Lose, relayVars, AllInv, TypeInv, WireOK
<1>2. CASE Admit(n) \/ Terminate(n) \/ Loss(n)
  <2>1. UNCHANGED <<up, pub>> /\ StillHeard
    BY <1>1, <1>2 DEF Admit, Terminate, Loss, Lose, relayVars, StillHeard
  <2> QED BY <1>1, <2>1, CloseType, SendWhole
<1>3. CASE CloseEvent(n)
  <2>1. Cleanup(n) /\ up' = [up EXCEPT ![n] = << >>] /\ UNCHANGED wire
    BY <1>3 DEF CloseEvent
  <2>2. ResponsesMove /\ \A id \in Ids : responses'[n][id] = None
    BY <2>1, CleanupMoves DEF AllInv
  <2>3. \A v \in Visitors : pub'[v] = pub[v] \/ pub'[v] \in Ended \ {"complete"}
    BY <2>1 DEF Cleanup, WrittenOff, Ended
  <2>4. ASSUME NEW v \in Visitors, ~wrapped, pub'[v] \in Pending
        PROVE  up'[at[v].conn] = up[at[v].conn] /\ \A m \in 0..3 : SaidSoFar(v, m) => SaidSoFar(v, m)'
    <3>1. pub[v] \in Pending /\ responses'[at[v].conn][at[v].id] = responses[at[v].conn][at[v].id]
      BY <2>2, <2>4 DEF ResponsesMove
    <3>2. responses[at[v].conn][at[v].id] = v /\ at[v].id \in Ids /\ v # None
      BY <2>4, <3>1, WhosAre, PlaceType DEF AllInv, RelayInv, Present, TypeInv
    <3>3. at[v].conn # n
      BY <2>2, <3>1, <3>2
    <3>4. up'[at[v].conn] = up[at[v].conn]
      BY <2>1, <3>3 DEF AllInv, TypeInv, UpOK
    <3>5. StillHeard
      BY <1>1, <2>1 DEF StillHeard
    <3>6. Steady(v) /\ Lagging
      BY <1>1, <2>4, <3>5, StillSteady, StillLags
    <3> QED BY <3>4, <3>6, SteadyStays
  <2> QED BY <1>1, <2>3, <2>4, MuteWhole
<1> QED BY <1>2, <1>3

\* Nothing in flight can be about a visitor that has only just come.
LEMMA ArriveWhole ==
  ASSUME AllInv, TalkInv, EndInv, WholeInv, NEW v \in Visitors, Arrive(v)
  PROVE  WholeInv'
<1>1. /\ Request(v) /\ UNCHANGED <<job, parked>> /\ pub[v] = "idle" /\ UNCHANGED <<got, up, wire>>
      /\ pub \in [Visitors -> PubSet] /\ at \in [Whos -> [conn : Conns \cup {NoConn}, id : Ids]] /\ v \in Whos
      /\ routed \in Conns \cup {NoConn} /\ NoConn \notin Conns /\ at[v].conn = NoConn
  BY WhosAre, Constants DEF Arrive, Request, AllInv, TypeInv, RelayTypeOK, PubSet, AgentInv, Unplaced
<1>2. (wrapped => wrapped') /\ StillHeard
  <2>1. wrapped => wrapped'
    BY <1>1, Zenon DEF Request
  <2>2. UNCHANGED <<control, asock>>
    BY DEF Arrive
  <2> QED BY <1>1, <2>1, <2>2 DEF StillHeard
<1>3. CASE routed = NoConn
  <2>1. pub' = [pub EXCEPT ![v] = "failed"] /\ UNCHANGED <<at, down>>
    BY <1>1, <1>3 DEF Request
  <2>2. \A x \in Visitors : at'[x] = at[x] /\ (pub'[x] = pub[x] \/ pub'[x] \in Ended \ {"complete"})
    BY <1>1, <2>1 DEF Ended
  <2> QED BY <1>1, <1>2, <2>1, <2>2, CloseType, SendWhole
<1>4. CASE routed # NoConn
  <2> DEFINE n == routed
             id == nextId[n]
             fs == IF v \in Uploads THEN <<Ctl("req_head", id, v)>>
                   ELSE <<Ctl("req_head", id, v), Ctl("req_end", id, v)>>
  <2>1. /\ n \in Conns /\ at' = [at EXCEPT ![v] = Spot(n, id)] /\ pub' = [pub EXCEPT ![v] = "waiting"]
        /\ down' = down \/ down' = Posted(down, n, fs)
    BY <1>1, <1>4 DEF Request, RelaySend, Spot
  <2>2. id \in Ids
    BY <2>1 DEF AllInv, TypeInv, RelayTypeOK
  <2>3. fs \in Seq(DownFrames) /\ \A k \in 1..Len(fs) : fs[k].who = v
    <3>1. /\ Ctl("req_head", id, v) \in DownFrames /\ Ctl("req_end", id, v) \in DownFrames
          /\ Ctl("req_head", id, v).who = v /\ Ctl("req_end", id, v).who = v
      BY <2>2, DownType DEF Ctl
    <3> QED BY <3>1
  <2> HIDE DEF fs, id, n
  <2>4. ASSUME ~wrapped, NEW x \in Visitors, x # v PROVE Carried(x)' /\ Continues(x)'
    <3>1. at'[x] = at[x] /\ pub'[x] = pub[x]
      BY <1>1, <2>1, <2>4, WhosAre
    <3>2. \A k \in 1..Len(fs) : ~HeadOf(fs[k], x)
      BY <2>3, <2>4 DEF HeadOf
    <3>3. \A m \in 0..3 : SaidSoFar(x, m) => SaidSoFar(x, m)'
      BY <1>1, <1>2, <2>1, <2>3, <3>1, <3>2, PostedSaid, HeardStill
    <3>4. Carried(x) /\ Continues(x)
      BY <2>4 DEF WholeInv
    <3>5. Carried(x)'
      BY <1>1, <3>1, <3>4 DEF Carried
    <3>6. ASSUME pub[x] \in Pending
          PROVE  \E m \in 0..3 : Len(got[x]) <= m /\ Tells(up[at[x].conn], x, Len(got[x]), m) /\ SaidSoFar(x, m)'
      BY <3>3, <3>4, <3>6 DEF Continues
    <3>7. Continues(x)'
      BY <1>1, <3>1, <3>6 DEF Continues, Tells
    <3> QED BY <3>5, <3>7
  <2>5. ASSUME ~wrapped PROVE Carried(v)' /\ Continues(v)'
    <3>1. at'[v] = Spot(n, id) /\ pub'[v] = "waiting" /\ got[v] = << >> /\ at'[v].conn = n
      <4>1. got[v] = << >>
        BY <1>1, <2>5 DEF WholeInv, Carried
      <4> QED BY <1>1, <2>1, <4>1 DEF Spot
    <3>2. up[n] \in Seq(Quiet(v))
      <4> DEFINE S == Said(at, n)
                 Q == Quiet(v)
      <4>1. up[n] \in Seq(S)
        BY <2>1, <2>5 DEF TalkInv, UpPlaced
      <4>2. S \subseteq Q
        <5> SUFFICES ASSUME NEW f \in S PROVE f \in Quiet(v)
          OBVIOUS
        <5>1. f \in FrameSet /\ (f.t \in Answers => at[f.who] = Spot(n, f.id))
          BY DEF Said, Answers
        <5>2. f.t \in Answers => f.who # v
          BY <1>1, <2>1, <5>1 DEF Spot
        <5> QED BY <5>1, <5>2 DEF Quiet, Of
      <4> HIDE DEF S, Q
      <4>3. up[n] \in Seq(Q)
        BY <4>1, <4>2, SeqGrows
      <4> QED BY <4>3 DEF Q
    <3>3. Tells(up[n], v, 0, 0)
      BY <3>2, QuietTells
    <3>4. job[v].st \notin AtDsh
      <4> SUFFICES ASSUME job[v].st \in AtDsh PROVE FALSE
        OBVIOUS
      <4>1. requests[job[v].id] = v /\ v # None /\ job[v].id \in Ids
        BY <2>5, SealTypes DEF TalkInv, JobsHeld
      <4>2. at[v] = Spot(control, job[v].id) /\ control \in Conns
        BY <2>5, <4>1, Owners
      <4> QED BY <1>1, <4>2 DEF Spot
    <3>5. SaidSoFar(v, 0)'
      <4>1. job[v].st \notin Compressing
        BY <1>1, <2>5 DEF EndInv, TailsIdle
      <4>2. job'[v].st \notin Headed \cup Bodied
        BY <1>1, <3>4, <4>1 DEF AtDsh, Compressing, Headed, Bodied
      <4> QED BY <4>2 DEF SaidSoFar
    <3>6. Carried(v)'
      <4>1. Len(got[v]) = 0
        BY <3>1
      <4>2. got'[v] = got[v]
        BY <1>1
      <4> QED BY <3>1, <4>1, <4>2 DEF Carried
    <3>7. Continues(v)'
      <4>1. Len(got'[v]) = 0 /\ up'[at'[v].conn] = up[n]
        BY <1>1, <3>1
      <4>2. Tells(up[n], v, Len(got'[v]), 0) /\ Len(got'[v]) <= 0
        BY <3>3, <4>1
      <4> QED BY <3>5, <4>1, <4>2 DEF Continues, Tells
    <3> QED BY <3>6, <3>7
  <2> QED BY <1>2, <2>4, <2>5 DEF WholeInv
<1> QED BY <1>3, <1>4

\* What a frame of the agent writes to the response of v, if that is the one
\* under its id.
LEMMA FrameWrites ==
  ASSUME AllInv, NEW n \in Conns, NEW f \in FrameSet, OnAgentFrame(n, f), NEW v \in Visitors
  PROVE  /\ responses[n][f.id] # v \/ f.t \notin Answers =>
              got'[v] = got[v] /\ (pub'[v] = pub[v] \/ pub'[v] \in Ended \ {"complete"})
         /\ responses[n][f.id] = v /\ f.t \in Answers =>
              \/ pub'[v] = "destroyed" /\ got'[v] = got[v]
              \/ f.t = "res_head" /\ pub[v] # "waiting" /\ pub'[v] = pub[v] /\ got'[v] = got[v]
              \/ \E p \in PartSet : /\ p.part = f.t /\ got'[v] = Append(got[v], p)
                                    /\ pub'[v] = IF f.t = "res_end" THEN "complete" ELSE "headers"
<1> DEFINE r == responses[n][f.id]
           p == [part |-> f.t, who |-> f.who, key |-> f.key]
<1>1. r \in Visitors \cup {None} /\ v # None
  BY WhosAre DEF AllInv, TypeInv, RelayTypeOK, FrameSet
<1>2. pub \in [Visitors -> PubSet] /\ got \in [Visitors -> Seq(PartSet)]
  BY Zenon DEF AllInv, TypeInv, RelayTypeOK, PubSet, PartSet
<1>3. \/ got' = got /\ pub' = Moved(r, "destroyed")
      \/ got' = got /\ pub' = pub /\ (f.t \notin Answers \/ r = None \/ (f.t = "res_head" /\ pub[r] # "waiting"))
      \/ f.t \in {"res_head", "res_body"} /\ r # None /\ got' = Wrote(r, f) /\ pub' = Moved(r, "headers")
      \/ f.t = "res_end" /\ got' = Wrote(r, f) /\ pub' = Moved(r, "complete")
  <2>1. ASSUME ResHead(n, f), f.t = "res_head"
        PROVE  \/ got' = got /\ pub' = pub /\ (r = None \/ pub[r] # "waiting")
               \/ r # None /\ got' = Wrote(r, f) /\ pub' = Moved(r, "headers")
    BY <2>1 DEF ResHead
  <2>2. ASSUME ResBody(n, f)
        PROVE  \/ got' = got /\ pub' = pub /\ r = None
               \/ got' = got /\ pub' = Moved(r, "destroyed")
               \/ r # None /\ got' = Wrote(r, f) /\ pub' = Moved(r, "headers")
    BY <2>2 DEF ResBody
  <2>3. ASSUME WsMessage(n, f) \/ WsGone(n, f) PROVE got' = got /\ pub' = pub
    BY <2>3 DEF WsMessage, WsGone
  <2>4. ASSUME AgentAbort(n, f) PROVE got' = got /\ pub' = Moved(r, "destroyed")
    BY <2>4 DEF AgentAbort
  <2>5. ASSUME ResEnd(n, f) PROVE got' = Wrote(r, f) /\ pub' = Moved(r, "complete")
    BY <2>5 DEF ResEnd
  <2> HIDE DEF r
  <2> QED BY <2>1, <2>2, <2>3, <2>4, <2>5 DEF OnAgentFrame, Answers
<1>4. f.t \in Answers => p \in PartSet /\ p.part = f.t
  BY DEF PartSet, Answers, FrameSet
<1> HIDE DEF r
<1>5. ASSUME r # v \/ f.t \notin Answers
      PROVE  got'[v] = got[v] /\ (pub'[v] = pub[v] \/ pub'[v] \in Ended \ {"complete"})
  BY <1>1, <1>2, <1>3, <1>5 DEF Moved, Wrote, Ended, Answers
<1>6. ASSUME r = v, f.t \in Answers
      PROVE  \/ pub'[v] = "destroyed" /\ got'[v] = got[v]
             \/ f.t = "res_head" /\ pub[v] # "waiting" /\ pub'[v] = pub[v] /\ got'[v] = got[v]
             \/ /\ got'[v] = Append(got[v], p)
                /\ pub'[v] = IF f.t = "res_end" THEN "complete" ELSE "headers"
  BY <1>1, <1>2, <1>3, <1>6 DEF Moved, Wrote
<1> HIDE DEF p
<1> QED BY <1>4, <1>5, <1>6 DEF r

LEMMA ReadWhole ==
  ASSUME AllInv, TalkInv, WholeInv, NEW n \in Conns, RelayReceive(n)
  PROVE  WholeInv'
<1> DEFINE f == Head(up[n])
<1>1. /\ up[n] # << >> /\ up' = [up EXCEPT ![n] = Tail(@)] /\ UNCHANGED agentVars /\ UNCHANGED wire
      /\ \/ f.t = "close" /\ PeerClose(n)
         \/ OnAgentFrame(n, f)
         \/ rst[n] = "handshake" /\ UNCHANGED <<relayVars, down>>
  BY DEF RelayReceive
<1>2. up \in [Conns -> Seq(FrameSet)] /\ up[n] \in Seq(FrameSet) /\ f \in FrameSet
  BY <1>1 DEF AllInv, TypeInv, UpOK
<1>3. UNCHANGED <<at, wrapped>> /\ UNCHANGED <<job, parked>> /\ StillHeard
  BY <1>1 DEF PeerClose, OnAgentFrame, relayVars, agentVars, StillHeard
<1>4. ~wrapped /\ f.t \in Answers => f.who \in Whos /\ at[f.who] = Spot(n, f.id)
  <2> DEFINE S == Said(at, n)
  <2>1. ~wrapped => up[n] \in Seq(S)
    BY DEF TalkInv, UpPlaced
  <2> HIDE DEF S
  <2>2. ~wrapped => f \in S
    BY <1>1, <2>1
  <2> QED BY <2>2 DEF S, Said, Answers
<1> HIDE DEF f
<1>5. \E g \in DownFrames : g.t # "req_head" /\ (down' = down \/ down' = Posted(down, n, <<g>>))
  <2>1. f.id \in Ids /\ f.who \in Whos \cup {None}
    BY <1>2 DEF FrameSet
  <2>2. sockets[n][f.id] \in Browsers \cup {None}
    BY <2>1 DEF AllInv, TypeInv, RelayTypeOK
  <2>3. sockets[n][f.id] \in Whos \cup {None}
    BY <2>2, WhosAre
  <2>4. /\ Ctl("abort", f.id, f.who) \in DownFrames /\ Ctl("ws_close", f.id, sockets[n][f.id]) \in DownFrames
        /\ Ctl("abort", f.id, f.who).t # "req_head" /\ Ctl("ws_close", f.id, sockets[n][f.id]).t # "req_head"
        /\ CloseFrame \in DownFrames /\ CloseFrame.t # "req_head"
    BY <2>1, <2>3, DownType, CloseType DEF Ctl
  <2>5. \/ down' = down \/ down' = Posted(down, n, <<CloseFrame>>)
        \/ down' = Posted(down, n, <<Ctl("abort", f.id, f.who)>>)
        \/ down' = Posted(down, n, <<Ctl("ws_close", f.id, sockets[n][f.id])>>)
    BY <1>1 DEF PeerClose, OnAgentFrame, ResHead, ResBody, ResEnd, WsMessage, WsGone, AgentAbort, RelaySend
  <2> QED BY <2>4, <2>5
<1>6. ASSUME NEW v \in Visitors PROVE \A m \in 0..3 : SaidSoFar(v, m) => SaidSoFar(v, m)'
  <2>1. PICK g \in DownFrames : g.t # "req_head" /\ (down' = down \/ down' = Posted(down, n, <<g>>))
    BY <1>5
  <2>2. <<g>> \in Seq(DownFrames) /\ \A k \in 1..Len(<<g>>) : ~HeadOf(<<g>>[k], v)
    BY <2>1 DEF HeadOf
  <2> QED BY <1>3, <2>1, <2>2, PostedSaid, HeardStill
\* What it means to be pending: under its own id, and only there.
<1>7. ASSUME NEW v \in Visitors, ~wrapped, pub[v] \in Pending
      PROVE  /\ responses[at[v].conn][at[v].id] = v /\ at[v].conn \in Conns /\ at[v].id \in Ids
             /\ rst[at[v].conn] \in Live /\ Len(got[v]) \in Nat /\ got[v] \in Seq(PartSet)
  <2>1. responses[at[v].conn][at[v].id] = v /\ at[v].conn \in Conns /\ at[v].id \in Ids /\ v # None
    BY <1>7, WhosAre, NoLevel, PlaceType DEF AllInv, RelayInv, Present, TypeInv
  <2>2. rst[at[v].conn] \in Live
    BY <2>1 DEF AllInv, RelayInv, Entered
  <2>3. got[v] \in Seq(PartSet)
    BY DEF AllInv, TypeInv, RelayTypeOK, PartSet
  <2> QED BY <2>1, <2>2, <2>3
\* A visitor nothing is written to.
<1>8. ASSUME NEW v \in Visitors, ~wrapped, got'[v] = got[v], pub'[v] = pub[v] \/ pub'[v] \in Ended \ {"complete"},
             pub[v] \in Pending /\ at[v].conn = n => ~Of(f, v)
      PROVE  Carried(v)' /\ Continues(v)'
  <2>1. Carried(v) /\ Continues(v)
    BY <1>8 DEF WholeInv
  <2>2. Carried(v)'
    BY <1>8, <2>1 DEF Carried, Ended
  <2>3. ASSUME pub'[v] \in Pending
        PROVE  \E m \in 0..3 : Len(got[v]) <= m /\ Tells(up'[at[v].conn], v, Len(got[v]), m) /\ SaidSoFar(v, m)'
    <3>1. pub[v] \in Pending
      BY <1>8, <2>3 DEF Pending, Ended
    <3>2. PICK m \in 0..3 : Len(got[v]) <= m /\ Tells(up[at[v].conn], v, Len(got[v]), m) /\ SaidSoFar(v, m)
      BY <2>1, <3>1 DEF Continues
    <3>3. SaidSoFar(v, m)'
      BY <1>6, <3>2
    <3>4. CASE at[v].conn # n
      <4>1. up'[at[v].conn] = up[at[v].conn]
        BY <1>1, <1>2, <1>7, <1>8, <3>1, <3>4
      <4> QED BY <3>2, <3>3, <4>1
    <3>5. CASE at[v].conn = n
      <4> DEFINE L == Len(got[v])
      <4>1. L \in 0..3 /\ L <= m
        <5>1. L \in Nat /\ L <= m
          BY <1>7, <1>8, <3>1, <3>2
        <5> HIDE DEF L
        <5> QED BY <5>1
      <4> HIDE DEF L
      <4>2. Tells(up[n], v, L, m)
        BY <3>2, <3>5 DEF L
      <4>3. ~Of(Head(up[n]), v)
        BY <1>8, <3>1, <3>5 DEF f
      <4>4. Tells(Tail(up[n]), v, L, m)
        BY <1>1, <1>2, <4>1, <4>2, <4>3, TellsNext
      <4>5. up'[n] = Tail(up[n])
        BY <1>1, <1>2
      <4> QED BY <3>3, <3>5, <4>1, <4>4, <4>5 DEF L
    <3> QED BY <3>4, <3>5
  <2>4. Continues(v)'
    BY <1>3, <1>8, <2>3 DEF Continues, Tells
  <2> QED BY <2>2, <2>4
<1>9. ASSUME UNCHANGED <<got, pub>>, f.t = "close" \/ rst[n] = "handshake", NEW v \in Visitors, ~wrapped
      PROVE  Carried(v)' /\ Continues(v)'
  <2>1. pub[v] \in Pending /\ at[v].conn = n => ~Of(f, v)
    BY <1>7, <1>9 DEF Of, Answers, Live
  <2> QED BY <1>8, <1>9, <2>1
<1>10. ASSUME OnAgentFrame(n, f), NEW v \in Visitors, ~wrapped
       PROVE  Carried(v)' /\ Continues(v)'
  <2> DEFINE r == responses[n][f.id]
  <2>1. pub[v] \in Pending /\ Of(f, v) => r = v /\ f.t \in Answers
    <3>1. pub[v] \in Pending /\ Of(f, v) => at[v] = Spot(n, f.id)
      BY <1>4, <1>10 DEF Of
    <3>2. at[v] = Spot(n, f.id) => at[v].conn = n /\ at[v].id = f.id
      BY DEF Spot
    <3> QED BY <1>7, <1>10, <3>1, <3>2 DEF Of
  <2>2. r = v => pub[v] \in Pending /\ at[v] = Spot(n, f.id) /\ at[v].conn = n
    <3>1. f.id \in Ids /\ v # None
      BY <1>2, WhosAre DEF FrameSet
    <3>2. r = v => pub[v] \in Pending /\ at[v] = Spot(n, f.id)
      BY <3>1 DEF AllInv, RelayInv, Entered
    <3> QED BY <3>2 DEF Spot
  <2>3. CASE r # v \/ f.t \notin Answers
    <3>1. got'[v] = got[v] /\ (pub'[v] = pub[v] \/ pub'[v] \in Ended \ {"complete"})
      BY <1>2, <1>10, <2>3, FrameWrites
    <3>2. pub[v] \in Pending => ~Of(f, v)
      BY <2>1, <2>3
    <3> QED BY <1>8, <1>10, <3>1, <3>2
  <2>4. CASE r = v /\ f.t \in Answers
    <3>1. Of(f, v)
      <4>1. f.who \in Whos /\ v \in Whos /\ at[f.who] = Spot(n, f.id) /\ at[v] = Spot(n, f.id)
        BY <1>4, <1>10, <2>2, <2>4, WhosAre
      <4>2. f.who = v
        BY <1>10, <4>1, OwnsAlone
      <4> QED BY <2>4, <4>2 DEF Of
    <3>2. Carried(v) /\ Continues(v) /\ pub[v] \in Pending /\ at[v].conn = n
      BY <1>10, <2>2, <2>4 DEF WholeInv
    <3> DEFINE L == Len(got[v])
    <3>3. L \in Nat /\ got[v] \in Seq(PartSet)
      BY <1>7, <1>10, <3>2
    <3>4. PICK m \in 0..3 : L <= m /\ Tells(up[n], v, L, m) /\ SaidSoFar(v, m)
      BY <3>2 DEF Continues
    <3> HIDE DEF L
    <3>5. L \in 0..3 /\ L <= m
      BY <3>3, <3>4
    <3>6. Rank(f.t) = L + 1 /\ L + 1 <= m /\ Tells(Tail(up[n]), v, L + 1, m)
      BY <1>1, <1>2, <3>1, <3>4, <3>5, TellsNext DEF f
    <3>7. \/ pub'[v] = "destroyed" /\ got'[v] = got[v]
          \/ f.t = "res_head" /\ pub[v] # "waiting" /\ pub'[v] = pub[v] /\ got'[v] = got[v]
          \/ \E p \in PartSet : /\ p.part = f.t /\ got'[v] = Append(got[v], p)
                                /\ pub'[v] = IF f.t = "res_end" THEN "complete" ELSE "headers"
      BY <1>2, <1>10, <2>4, FrameWrites
    <3>8. CASE pub'[v] = "destroyed" /\ got'[v] = got[v]
      BY <3>2, <3>8 DEF Carried, Continues, Pending
    <3>9. CASE f.t = "res_head" /\ pub[v] # "waiting"
      <4>1. L = 0
        BY <3>5, <3>6, <3>9 DEF Rank
      <4> QED BY <3>2, <3>9, <4>1 DEF Carried, Pending, L
    <3>10. ASSUME NEW p \in PartSet, p.part = f.t, got'[v] = Append(got[v], p),
                  pub'[v] = IF f.t = "res_end" THEN "complete" ELSE "headers"
           PROVE  Carried(v)' /\ Continues(v)'
      <4>1. /\ Len(got'[v]) = L + 1 /\ got'[v][L + 1] = p
            /\ \A i \in 1..(L + 1) : i = L + 1 \/ (i \in 1..L /\ got'[v][i] = got[v][i])
        BY <3>3, <3>10 DEF L
      <4>2. L + 1 <= 3 /\ L + 1 # 0 /\ L + 1 \in 0..3
        BY <3>4, <3>5, <3>6
      <4>3. ASSUME NEW i \in 1..Len(got'[v]) PROVE got'[v][i].part \in Answers /\ Rank(got'[v][i].part) = i
        <5>1. CASE i = L + 1
          BY <2>4, <3>6, <3>10, <4>1, <5>1
        <5>2. CASE i \in 1..L /\ got'[v][i] = got[v][i]
          BY <3>2, <5>2 DEF Carried, L
        <5> QED BY <4>1, <5>1, <5>2
      <4>4. pub'[v] \in {"complete", "headers"} /\ (pub'[v] = "complete" => L + 1 = 3)
        BY <3>6, <3>10 DEF Rank
      <4>5. Len(got'[v]) <= 3 /\ Len(got'[v]) # 0 /\ (pub'[v] = "complete" => Len(got'[v]) = 3)
        BY <4>1, <4>2, <4>4
      <4>6. Carried(v)'
        BY <4>3, <4>4, <4>5 DEF Carried
      <4>7. Tells(up'[at'[v].conn], v, Len(got'[v]), m) /\ Len(got'[v]) <= m /\ SaidSoFar(v, m)'
        <5>1. up'[at'[v].conn] = Tail(up[n])
          BY <1>1, <1>2, <1>3, <3>2
        <5>2. SaidSoFar(v, m)'
          BY <1>6, <3>4
        <5> QED BY <3>6, <4>1, <5>1, <5>2
      <4>8. Continues(v)'
        BY <4>7 DEF Continues, Tells
      <4> QED BY <4>6, <4>8
    <3> QED BY <3>7, <3>8, <3>9, <3>10
  <2> QED BY <2>3, <2>4
<1>11. \A v \in Visitors : ~wrapped => Carried(v)' /\ Continues(v)'
  BY <1>1, <1>9, <1>10 DEF PeerClose, relayVars
<1> QED BY <1>3, <1>11 DEF WholeInv

LEMMA StepWhole ==
  ASSUME Redials = FALSE, NothingSealed, PromptClose, AllInv, TalkInv, EndInv, WholeInv, [Next]_vars
  PROVE  WholeInv'
<1>1. ASSUME Public \/ RelaySteps, UNCHANGED agentVars PROVE WholeInv'
  BY <1>1, PublicWhole, LossWhole DEF RelaySteps
<1>2. ASSUME NEW n \in Conns, RelayReceive(n) \/ AgentReceive(n) \/ Handshake(n) \/ Loss(n) PROVE WholeInv'
  <2>1. Loss(n) => UNCHANGED agentVars
    BY DEF Loss
  <2> QED BY <1>2, <2>1, ReadWhole, ReceiveWhole, ConnectWhole, LossWhole
<1>3. ASSUME AgentSteps, UNCHANGED relayVars PROVE WholeInv'
  BY <1>3, LocalWhole, LinkWhole, SettledWhole, SetWhole, ConnectWhole DEF AgentSteps
<1>4. ASSUME UNCHANGED vars PROVE WholeInv'
  <2>1. UNCHANGED <<wrapped, at, pub, got, up>> /\ UNCHANGED <<job, parked>> /\ UNCHANGED down /\ StillHeard
    BY <1>4 DEF vars, wireVars, relayVars, agentVars, StillHeard
  <2> QED BY <2>1, StillLags, StillSteady, HushWhole
<1> QED BY <1>1, <1>2, <1>3, <1>4, ArriveWhole DEF Next

LEMMA WholeInvariance ==
  ASSUME Redials = FALSE, NothingSealed, PromptClose
  PROVE  Spec => [](AllInv /\ WholeInv)
<1>1. Init => WholeInv
  BY InitWhole
<1>2. AllInv /\ TalkInv /\ EndInv /\ WholeInv /\ [Next]_vars => WholeInv'
  BY StepWhole
<1> QED BY <1>1, <1>2, EndInvariance, PTL DEF Spec

\* Complete means whole: until an id allocator wraps, a response the relay ended
\* on res_end carries the head, the body and the end of its answer, each once
\* and in this order, whatever was parked, aborted, dropped or lost around it;
\* when no request is sealed, the agent never redials next to a socket that still
\* delivers, and no local socket closes, and no compressor ends, after the next
\* connection is open.
THEOREM CompleteAnswersAreWhole ==
  ASSUME Redials = FALSE, NothingSealed, PromptClose
  PROVE  Spec => [](~wrapped => CompleteIsWhole)
<1>1. ASSUME AllInv, WholeInv, ~wrapped PROVE CompleteIsWhole
  <2> SUFFICES ASSUME NEW v \in Visitors, pub[v] = "complete"
               PROVE  [i \in 1..Len(got[v]) |-> got[v][i].part] = <<"res_head", "res_body", "res_end">>
    BY DEF CompleteIsWhole
  <2> DEFINE parts == [i \in 1..3 |-> got[v][i].part]
  <2>1. Len(got[v]) = 3 /\ \A i \in 1..3 : got[v][i].part \in Answers /\ Rank(got[v][i].part) = i
    BY <1>1 DEF WholeInv, Carried
  <2>2. \A t \in Answers : /\ Rank(t) = 1 => t = "res_head"
                           /\ Rank(t) = 2 => t = "res_body"
                           /\ Rank(t) = 3 => t = "res_end"
    BY DEF Answers, Rank
  <2>3. /\ got[v][1].part = "res_head" /\ got[v][2].part = "res_body" /\ got[v][3].part = "res_end"
    BY <2>1, <2>2
  <2>4. parts = <<"res_head", "res_body", "res_end">>
    BY <2>3
  <2> QED BY <2>1, <2>4
<1>2. AllInv /\ WholeInv => (~wrapped => CompleteIsWhole)
  BY <1>1
<1> QED BY <1>2, WholeInvariance, PTL
=============================================================================
