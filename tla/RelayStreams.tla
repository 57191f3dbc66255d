---------------------------- MODULE RelayStreams ----------------------------
(***************************************************************************)
(* The relay's half of the tunnel of one (subdomain, device): the          *)
(* AgentConnection objects, the public responses and browser sockets       *)
(* bridged over them, and the handlers of packages/relay/src/server.ts     *)
(* that move them.  Node runs one handler at a time, so each handler is    *)
(* one action.                                                             *)
(***************************************************************************)
EXTENDS Wire

CONSTANT Uploads      \* the visitors whose request body outlasts the first read

ASSUME UploadsAssumption == Uploads \subseteq Visitors

VARIABLES
  rst,        \* rst[n]: readyState of the relay's socket of connection n
  routed,     \* the connection the device's entry in `agents` points at
  nextId,     \* nextId[n]: the id allocator of AgentConnection n
  responses,  \* responses[n][id]: the pending public response, or None
  activity,   \* activity[n]: the ids with an entry in the activity map
  sockets,    \* sockets[n][id]: the bridged browser socket, or None
  at,         \* at[w]: the (connection, id) the handlers of w closed over
  pub,        \* pub[v]: the state of v's http.ServerResponse
  body,       \* body[v]: whether v's request body is still being received
  got,        \* got[v]: what was written to v's response, in order
  tab,        \* tab[b]: the state of b's browser socket
  heard,      \* ghost, heard[b]: whose messages b's browser socket got, b's own left out
  wrapped     \* ghost: whether any id allocator has wrapped

relayVars == <<rst, routed, nextId, responses, activity, sockets, at, pub, body,
               got, tab, heard, wrapped>>

RelayStates == {"none", "handshake", "open", "closing", "closed"}
Pending     == {"waiting", "headers"}       \* headersSent is false, true
\* How a response ended: res_end, written off by the relay before or after
\* its head, destroyed, or left by its client.
Ended       == {"complete", "failed", "cut", "destroyed", "gone"}
NoPlace     == [conn |-> NoConn, id |-> 1]

RelayTypeOK ==
  /\ rst \in [Conns -> RelayStates]
  /\ routed \in Conns \cup {NoConn}
  /\ nextId \in [Conns -> Ids]
  /\ responses \in [Conns -> [Ids -> Visitors \cup {None}]]
  /\ activity \in [Conns -> SUBSET Ids]
  /\ sockets \in [Conns -> [Ids -> Browsers \cup {None}]]
  /\ at \in [Whos -> [conn : Conns \cup {NoConn}, id : Ids]]
  /\ pub \in [Visitors -> {"idle"} \cup Pending \cup Ended]
  /\ body \in [Visitors -> {"none", "open", "over"}]
  /\ got \in [Visitors -> Seq([part : {"res_head", "res_body", "res_end"}, who : Whos \cup {None}, key : 0..(MaxKey + 1)])]
  /\ tab \in [Browsers -> {"idle", "open", "closed"}]
  /\ heard \in [Browsers -> SUBSET (Whos \cup {None})]
  /\ wrapped \in BOOLEAN

RelayInit ==
  /\ rst = [n \in Conns |-> "none"]
  /\ routed = NoConn
  /\ nextId = [n \in Conns |-> 1]
  /\ responses = [n \in Conns |-> [id \in Ids |-> None]]
  /\ activity = [n \in Conns |-> {}]
  /\ sockets = [n \in Conns |-> [id \in Ids |-> None]]
  /\ at = [w \in Whos |-> NoPlace]
  /\ pub = [v \in Visitors |-> "idle"]
  /\ body = [v \in Visitors |-> "none"]
  /\ got = [v \in Visitors |-> << >>]
  /\ tab = [b \in Browsers |-> "idle"]
  /\ heard = [b \in Browsers |-> {}]
  /\ wrapped = FALSE

-----------------------------------------------------------------------------
(* Helpers.                                                                *)

\* AgentConnection.send: nothing leaves unless the socket is OPEN.
RelaySend(n, fs) == down' = IF rst[n] = "open" THEN Posted(down, n, fs) ELSE down

\* allocId: the id handed out is nextId[n]; this is what replaces it.
AllocNextUnwrapped(id) == id + 1                     \* mutant: no wrap
AllocNext(id) == IF id >= MaxId THEN 1 ELSE id + 1

\* Response r (None: no entry) moves to state s / is sent frame f.
Moved(r, s)   == IF r = None THEN pub ELSE [pub EXCEPT ![r] = s]
Wrote(r, f)   == IF r = None THEN got
                 ELSE [got EXCEPT ![r] = Append(@, [part |-> f.t, who |-> f.who, key |-> f.key])]

\* A response the agent answers for is watched by the sweep.
WatchForgotten(n, id) == UNCHANGED activity          \* mutant: no activity.set
Watch(n, id) == activity' = [activity EXCEPT ![n] = @ \cup {id}]

\* responses.delete(id); activity.delete(id)
ForgetActivityOnly(n, id) ==                         \* mutant: the response stays
  UNCHANGED responses /\ activity' = [activity EXCEPT ![n] = @ \ {id}]
Forget(n, id) ==
  /\ responses' = [responses EXCEPT ![n][id] = None]
  /\ activity'  = [activity EXCEPT ![n] = @ \ {id}]

\* How the relay itself ends a response the tunnel cannot finish: a status of
\* its own if the head is not out yet, else the body just ends.
WrittenOff(s) == IF s = "waiting" THEN "failed" ELSE "cut"

\* cleanup: every response and browser socket bridged over n is failed.
BridgedUnstarted(n) ==                               \* mutant: only those without a head
  {v \in Visitors : pub[v] = "waiting" /\ \E id \in Ids : responses[n][id] = v}
BridgedResponses(n) == {v \in Visitors : \E id \in Ids : responses[n][id] = v}

BridgedNoSockets(n) == {}                            \* mutant: sockets are forgotten
BridgedSockets(n) == {b \in Browsers : \E id \in Ids : sockets[n][id] = b}

Cleanup(n) ==
  /\ pub' = [v \in Visitors |-> IF v \in BridgedResponses(n) THEN WrittenOff(pub[v]) ELSE pub[v]]
  /\ tab' = [b \in Browsers |-> IF b \in BridgedSockets(n) THEN "closed" ELSE tab[b]]
  /\ responses' = [responses EXCEPT ![n] = [id \in Ids |-> None]]
  /\ sockets' = [sockets EXCEPT ![n] = [id \in Ids |-> None]]
  /\ activity' = [activity EXCEPT ![n] = {}]

-----------------------------------------------------------------------------
(* Public HTTP: onRequest and the events of the request and the response.  *)

\* onRequest past the login gate, for a device that is or is not connected.  A
\* request without a body ends in the same turn of the event loop.
Request(v) ==
  /\ pub[v] = "idle"
  /\ IF routed = NoConn
     THEN /\ pub' = [pub EXCEPT ![v] = "failed"]
          /\ UNCHANGED <<nextId, responses, activity, at, body, wrapped, down>>
     ELSE LET id == nextId[routed] IN
          /\ nextId' = [nextId EXCEPT ![routed] = AllocNext(id)]
          /\ wrapped' = (wrapped \/ id >= MaxId)
          /\ responses' = [responses EXCEPT ![routed][id] = v]
          /\ Watch(routed, id)
          /\ at' = [at EXCEPT ![v] = [conn |-> routed, id |-> id]]
          /\ pub' = [pub EXCEPT ![v] = "waiting"]
          /\ body' = [body EXCEPT ![v] = IF v \in Uploads THEN "open" ELSE "over"]
          /\ RelaySend(routed, IF v \in Uploads THEN <<Ctl("req_head", id, v)>>
                               ELSE <<Ctl("req_head", id, v), Ctl("req_end", id, v)>>)
  /\ UNCHANGED <<rst, routed, sockets, got, tab, heard, up, wire>>

\* req 'end': the whole body went out, as data frames that no property tells
\* from the end itself.
RequestEnd(v) ==
  /\ body[v] = "open"
  /\ body' = [body EXCEPT ![v] = "over"]
  /\ RelaySend(at[v].conn, <<Ctl("req_end", at[v].id, v)>>)
  /\ UNCHANGED <<rst, routed, nextId, responses, activity, sockets, at, pub, got,
                 tab, heard, wrapped, up, wire>>

\* req 'error': the upload broke off.
RequestError(v) ==
  /\ "quit" \in Mishaps
  /\ body[v] = "open"
  /\ body' = [body EXCEPT ![v] = "over"]
  /\ RelaySend(at[v].conn, <<Ctl("abort", at[v].id, v)>>)
  /\ UNCHANGED <<rst, routed, nextId, responses, activity, sockets, at, pub, got,
                 tab, heard, wrapped, up, wire>>

\* res 'close' before the response was ended: its client went away.
ClientClose(v) ==
  LET n == at[v].conn  id == at[v].id IN
  /\ "quit" \in Mishaps
  /\ pub[v] \in Pending
  /\ pub' = [pub EXCEPT ![v] = "gone"]
  /\ body' = [body EXCEPT ![v] = "over"]
  /\ Forget(n, id)
  /\ IF responses[n][id] # None
     THEN RelaySend(n, <<Ctl("abort", id, v)>>)
     ELSE UNCHANGED down
  /\ UNCHANGED <<rst, routed, nextId, sockets, at, got, tab, heard, wrapped, up, wire>>

\* sweep, for one pending stream the agent has been quiet on for too long.
IdleTimeout(n, id) ==
  /\ "idle" \in Mishaps
  /\ n = routed
  /\ id \in activity[n]
  /\ LET r == responses[n][id]
     IN pub' = IF r = None THEN pub ELSE [pub EXCEPT ![r] = WrittenOff(@)]
  /\ Forget(n, id)
  /\ RelaySend(n, <<Ctl("abort", id, None)>>)
  /\ UNCHANGED <<rst, routed, nextId, sockets, at, body, got, tab, heard, wrapped, up, wire>>

-----------------------------------------------------------------------------
(* Browser sockets: onUpgrade past the login gate, and bridgeSocket.       *)

Upgrade(b) ==
  /\ tab[b] = "idle"
  /\ IF routed = NoConn
     THEN /\ tab' = [tab EXCEPT ![b] = "closed"]
          /\ UNCHANGED <<nextId, sockets, at, wrapped, down>>
     ELSE LET id == nextId[routed] IN
          /\ nextId' = [nextId EXCEPT ![routed] = AllocNext(id)]
          /\ wrapped' = (wrapped \/ id >= MaxId)
          /\ sockets' = [sockets EXCEPT ![routed][id] = b]
          /\ at' = [at EXCEPT ![b] = [conn |-> routed, id |-> id]]
          /\ tab' = [tab EXCEPT ![b] = "open"]
          /\ RelaySend(routed, <<Ctl("ws_open", id, b)>>)
  /\ UNCHANGED <<rst, routed, responses, activity, pub, body, got, heard, up, wire>>

BrowserMessage(b) ==
  /\ tab[b] = "open"
  /\ Len(down[at[b].conn]) < MaxQueue
  /\ RelaySend(at[b].conn, <<Data("ws_msg", at[b].id, b, 0)>>)
  /\ UNCHANGED <<relayVars, up, wire>>

\* browser 'close', and 'message' with the agent's uplink congested.
BrowserClose(b) ==
  LET n == at[b].conn  id == at[b].id IN
  /\ tab[b] = "open"
  /\ tab' = [tab EXCEPT ![b] = "closed"]
  /\ sockets' = [sockets EXCEPT ![n][id] = None]
  /\ IF sockets[n][id] # None
     THEN RelaySend(n, <<Ctl("ws_close", id, b)>>)
     ELSE UNCHANGED down
  /\ UNCHANGED <<rst, routed, nextId, responses, activity, at, pub, body, got,
                 heard, wrapped, up, wire>>

-----------------------------------------------------------------------------
(* dispatchAgentFrame, one operator per kind of frame f of connection n.   *)

ResHead(n, f) ==
  LET r == responses[n][f.id]
      fresh == r # None /\ pub[r] = "waiting"
  IN /\ Watch(n, f.id)
     /\ pub' = IF fresh THEN Moved(r, "headers") ELSE pub
     /\ got' = IF fresh THEN Wrote(r, f) ELSE got
     /\ UNCHANGED <<responses, sockets, tab, heard, down>>

ResBody(n, f) ==
  LET r == responses[n][f.id] IN
  \/ /\ r = None
     /\ UNCHANGED <<responses, activity, pub, got, down>>
     /\ UNCHANGED <<sockets, tab, heard>>
  \/ /\ r # None
     /\ Watch(n, f.id)
     /\ pub' = Moved(r, "headers")
     /\ got' = Wrote(r, f)
     /\ UNCHANGED <<responses, sockets, tab, heard, down>>
  \/ /\ r # None /\ "slow" \in Mishaps     \* the client reads too slowly: its buffer is full
     /\ Forget(n, f.id)
     /\ pub' = Moved(r, "destroyed")
     /\ RelaySend(n, <<Ctl("abort", f.id, f.who)>>)
     /\ UNCHANGED <<sockets, tab, heard, got>>

ResEnd(n, f) ==
  LET r == responses[n][f.id] IN
  /\ pub' = Moved(r, "complete")
  /\ got' = Wrote(r, f)
  /\ Forget(n, f.id)
  /\ UNCHANGED <<sockets, tab, heard, down>>

WsMessage(n, f) ==
  LET b == sockets[n][f.id] IN
  \/ /\ heard' = IF b = None THEN heard ELSE [heard EXCEPT ![b] = @ \cup ({f.who} \ {b})]
     /\ UNCHANGED <<sockets, tab, down>>
     /\ UNCHANGED <<responses, activity, pub, got>>
  \/ /\ b # None /\ "slow" \in Mishaps     \* the browser reads too slowly
     /\ sockets' = [sockets EXCEPT ![n][f.id] = None]
     /\ tab' = [tab EXCEPT ![b] = "closed"]
     /\ RelaySend(n, <<Ctl("ws_close", f.id, b)>>)
     /\ UNCHANGED <<responses, activity, pub, got, heard>>

\* ws_reject and ws_close differ in the close code only.
WsGone(n, f) ==
  LET b == sockets[n][f.id] IN
  /\ tab' = IF b = None THEN tab ELSE [tab EXCEPT ![b] = "closed"]
  /\ sockets' = [sockets EXCEPT ![n][f.id] = None]
  /\ UNCHANGED <<responses, activity, pub, got, heard, down>>

AgentAbort(n, f) ==
  LET r == responses[n][f.id]  b == sockets[n][f.id] IN
  /\ pub' = Moved(r, "destroyed")
  /\ tab' = IF b = None THEN tab ELSE [tab EXCEPT ![b] = "closed"]
  /\ sockets' = [sockets EXCEPT ![n][f.id] = None]
  /\ Forget(n, f.id)
  /\ UNCHANGED <<got, heard, down>>

OnAgentFrame(n, f) ==
  /\ rst[n] \in {"open", "closing"}
  /\ \/ f.t = "res_head"  /\ ResHead(n, f)
     \/ f.t = "res_body"  /\ ResBody(n, f)
     \/ f.t = "res_end"   /\ ResEnd(n, f)
     \/ f.t = "ws_msg"    /\ WsMessage(n, f)
     \/ f.t \in {"ws_close", "ws_reject"} /\ WsGone(n, f)
     \/ f.t = "abort"     /\ AgentAbort(n, f)
  /\ UNCHANGED <<rst, routed, nextId, at, body, wrapped>>

-----------------------------------------------------------------------------
(* The life of a connection at the relay.                                  *)

\* The WebSocket handshake is done and the relay waits for HELLO.
Accept(n) == rst[n] = "none" /\ rst' = [rst EXCEPT ![n] = "handshake"]

\* admitAgent: connection n takes the device's entry over from its predecessor.
Admit(n) ==
  /\ rst[n] = "handshake"
  /\ rst' = [m \in Conns |-> IF m = n THEN "open" ELSE IF m = routed THEN "closing" ELSE rst[m]]
  /\ wire' = [m \in Conns |-> IF m = routed THEN "down" ELSE wire[m]]
  /\ routed' = n
  /\ UNCHANGED <<nextId, responses, activity, sockets, at, pub, body, got, tab, heard,
                 wrapped, down, up>>

\* terminate on a silent connection (sweep) or a malformed frame (onAgentFrame).
Terminate(n) ==
  /\ rst[n] = "open"
  /\ rst' = [rst EXCEPT ![n] = "closing"]
  /\ wire' = [wire EXCEPT ![n] = "down"]
  /\ UNCHANGED <<routed, nextId, responses, activity, sockets, at, pub, body, got, tab,
                 heard, wrapped, down, up>>

\* The peer's close frame: the socket answers it and stops being OPEN.
PeerClose(n) ==
  /\ rst[n] \in {"handshake", "open", "closing"}
  /\ rst' = [rst EXCEPT ![n] = "closing"]
  /\ down' = Posted(down, n, <<CloseFrame>>)
  /\ UNCHANGED <<routed, nextId, responses, activity, sockets, at, pub, body, got, tab,
                 heard, wrapped>>

\* The socket's 'close' event: the routing entry goes only if it is still this
\* connection's, the streams bridged over it fail in any case.
CloseEvent(n) ==
  /\ \/ rst[n] = "closing"
     \/ rst[n] \in {"handshake", "open"} /\ wire[n] = "down"
  /\ rst' = [rst EXCEPT ![n] = "closed"]
  /\ routed' = IF routed = n THEN NoConn ELSE routed
  /\ Cleanup(n)
  /\ up' = [up EXCEPT ![n] = << >>]
  /\ UNCHANGED <<nextId, at, body, got, heard, wrapped, down, wire>>
=============================================================================
