---------------------------- MODULE AgentStreams ----------------------------
(***************************************************************************)
(* The agent's half of the tunnel (class AgentTunnel of                    *)
(* packages/agent/src/index.ts): the control socket it currently calls its *)
(* own, the tables that map stream ids to local requests and sockets, and  *)
(* the local requests and sockets themselves, which live on after their    *)
(* table entry is gone until an event of theirs ends them.                 *)
(*                                                                         *)
(* Neither a local request nor a local socket remembers the connection it  *)
(* was opened for: what it has to say goes to `this.control`, under the id *)
(* its handlers closed over.  A response may pass through a compressor,    *)
(* which says its piece after dsh has said all of its own.                 *)
(***************************************************************************)
EXTENDS Wire

CONSTANTS
  Kinds,      \* the kinds of request in play: a subset of RequestKinds
  Fenced,     \* whether dsh wants a session cookie at all (dshAuth is not null)
  PromptClose \* assumption on timing: a local socket told to close is closed,
              \* and a compressor whose input is over is empty, before the
              \* agent's next connection to the relay is open

VARIABLES
  control,    \* this.control, or NoConn
  dialled,    \* how many connections were dialled so far
  asock,      \* asock[n]: readyState of the agent's socket of connection n
  requests,   \* requests[id]: the visitor of the replay in the table, or None
  buffered,   \* reqE2E[id]: the visitor whose sealed body is being collected
  parked,     \* parked[id]: the visitor waiting for dsh's session cookie
  ended,      \* ids in parked whose req_end has arrived
  lsocks,     \* sockets[id]: the browser of the local socket in the table
  job,        \* job[v]: the local HTTP request made for v
  fed,        \* ghost, fed[v]: whose req_end completed v's local request, v left out
  link,       \* link[b]: the local socket opened for b
  told,       \* ghost, told[b]: whose messages the local socket of b got, b's own left out
  e2eKey,     \* the current end-to-end key, 0 when E2E is off
  lastKey,    \* how many keys have been derived
  cookie,     \* the session-cookie exchange with dsh: see CookieStates
  ask,        \* ask[v]: what v asks for, and the key its page sealed it under
  crashed     \* an exception escaped into the event loop of dsh's process

agentVars == <<control, dialled, asock, requests, buffered, parked, ended, lsocks,
               job, fed, link, told, e2eKey, lastKey, cookie, ask, crashed>>

\* A page or asset, an /api call, a request for the agent's own /dshn/ routes.
RequestKinds == {"page", "api", "dshn"}

ASSUME KindsAssumption ==
  Kinds \subseteq RequestKinds /\ Kinds # {} /\ Fenced \in BOOLEAN /\ PromptClose \in BOOLEAN

AgentStates == {"none", "connecting", "open", "closing", "closed"}
\* dshAuth.ready(); not ready, an exchange in flight; not ready, none in flight.
CookieStates == {"ready", "fetching", "failed"}
\* At dsh: the request is out, its response has begun, its body has been sent on.
AtDsh     == {"sent", "head", "body"}
\* In the compressor only: all of dsh's answer ("zipped"), its tail once the body
\* has been sent on ("flushing"), some of an answer that was cut short ("spill").
Compressing == {"zipped", "flushing", "spill"}
JobStates   == {"none", "over"} \cup AtDsh \cup Compressing
LinkStates  == {"none", "connecting", "open", "closing", "over"}
NoJob       == [st |-> "none", id |-> 1, sealed |-> FALSE]
NoLink      == [st |-> "none", id |-> 1, sealed |-> FALSE]
Asks        == [kind : Kinds, key : Keys, bodied : BOOLEAN]
NoneOpen    == [id \in Ids |-> None]

AgentTypeOK ==
  /\ control \in Conns \cup {NoConn}
  /\ dialled \in 0..MaxConn
  /\ asock \in [Conns -> AgentStates]
  /\ requests \in [Ids -> Visitors \cup {None}]
  /\ buffered \in [Ids -> Visitors \cup {None}]
  /\ parked \in [Ids -> Visitors \cup {None}]
  /\ ended \subseteq Ids
  /\ lsocks \in [Ids -> Browsers \cup {None}]
  /\ job \in [Visitors -> [st : JobStates, id : Ids, sealed : BOOLEAN]]
  /\ fed \in [Visitors -> SUBSET Visitors]
  /\ link \in [Browsers -> [st : LinkStates, id : Ids, sealed : BOOLEAN]]
  /\ told \in [Browsers -> SUBSET Browsers]
  /\ e2eKey \in Keys
  /\ lastKey \in Keys
  /\ cookie \in CookieStates
  /\ ask \in [Visitors -> Asks]
  /\ crashed \in BOOLEAN

AgentInit ==
  /\ control = NoConn
  /\ dialled = 0
  /\ asock = [n \in Conns |-> "none"]
  /\ requests = NoneOpen /\ buffered = NoneOpen /\ parked = NoneOpen
  /\ ended = {}
  /\ lsocks = NoneOpen
  /\ job = [v \in Visitors |-> NoJob]
  /\ fed = [v \in Visitors |-> {}]
  /\ link = [b \in Browsers |-> NoLink]
  /\ told = [b \in Browsers |-> {}]
  /\ e2eKey = 0 /\ lastKey = 0
  /\ cookie = IF Fenced THEN "fetching" ELSE "ready"
  /\ ask = [v \in Visitors |-> CHOOSE a \in Asks : a.key = 0]
  /\ crashed = FALSE

-----------------------------------------------------------------------------
(* Sending: on whatever socket is the control socket now, if it is OPEN.   *)

AgentSend(fs) ==
  up' = IF control # NoConn /\ asock[control] = "open" THEN Posted(up, control, fs) ELSE up

\* A short answer of the agent's own: 404, 428, 400, 502.
Refusal(id, v) == <<Ctl("res_head", id, v), Data("res_body", id, v, Note), Ctl("res_end", id, v)>>
\* dsh's whole answer at once, its body sealed under k.
AnswerEndsEarly(id, v, k) ==                         \* mutant: res_end before the body
  <<Ctl("res_head", id, v), Ctl("res_end", id, v), Data("res_body", id, v, k)>>
Answer(id, v, k) == <<Ctl("res_head", id, v), Data("res_body", id, v, k), Ctl("res_end", id, v)>>

\* The frames of s[1], s[2], ... s[MaxId], in that order.
InIdOrder(s) ==
  LET upTo[i \in 0..MaxId] == IF i = 0 THEN << >> ELSE upTo[i - 1] \o s[i] IN upTo[MaxId]

-----------------------------------------------------------------------------
(* dropStreams.                                                            *)

InTable(table) == {table[id] : id \in Ids} \ {None}

\* What destroying a local request makes its handlers send.
LastWordsEnd(v) ==                                   \* mutant: a broken body just ends
  IF job[v].st = "sent" THEN Refusal(job[v].id, v) ELSE <<Ctl("res_end", job[v].id, v)>>
LastWords(v) ==
  IF job[v].st = "sent" THEN Refusal(job[v].id, v) ELSE <<Ctl("abort", job[v].id, v)>>

\* And what it leaves: nothing ends or empties the compressor the response was
\* being piped into.
CutShort(j) == [j EXCEPT !.st = IF @ = "head" THEN "spill" ELSE "over"]

\* The tables are emptied; the requests in `requests` are destroyed, the
\* sockets in `sockets` start closing, and nothing else is touched.
DestroyStreams ==
  /\ job' = [v \in Visitors |-> IF v \in InTable(requests) THEN CutShort(job[v]) ELSE job[v]]
  /\ link' = [b \in Browsers |->
                IF b \notin InTable(lsocks) THEN link[b]
                ELSE [link[b] EXCEPT !.st = IF @ = "connecting" THEN "over" ELSE "closing"]]
DropNothing ==                                       \* mutant: streams are kept
  UNCHANGED <<job, link, requests, buffered, parked, ended, lsocks>>
DropWithoutClearing ==                               \* mutant: the tables are kept
  DestroyStreams /\ UNCHANGED <<requests, buffered, parked, ended, lsocks>>
DropStreams ==
  /\ DestroyStreams
  /\ requests' = NoneOpen /\ buffered' = NoneOpen /\ parked' = NoneOpen
  /\ ended' = {}
  /\ lsocks' = NoneOpen

-----------------------------------------------------------------------------
(* replayRequest and finishE2ERequest.                                     *)

Fate(v) ==
  IF e2eKey = 0 \/ ask[v].kind # "api" THEN "replayed"
  ELSE IF ask[v].key = 0 THEN "refused" ELSE "buffered"

\* Whether a collected sealed request opens under the current key.
Opens(v) == ~ask[v].bodied \/ ask[v].key = e2eKey

StartJob(v, id, sealed) == [st |-> "sent", id |-> id, sealed |-> sealed]

Replay(v, id) ==
  \/ /\ Fate(v) = "replayed"
     /\ requests' = [requests EXCEPT ![id] = v]
     /\ job' = [job EXCEPT ![v] = StartJob(v, id, FALSE)]
     /\ UNCHANGED <<buffered, up>>
  \/ /\ Fate(v) = "buffered"
     /\ buffered' = [buffered EXCEPT ![id] = v]
     /\ UNCHANGED <<requests, job, up>>
  \/ /\ Fate(v) = "refused"
     /\ AgentSend(Refusal(id, v))
     /\ UNCHANGED <<requests, buffered, job>>

OpenRequest(v, id) ==
  \/ /\ ask[v].kind = "dshn"
     /\ AgentSend(Refusal(id, v))
     /\ UNCHANGED <<requests, buffered, parked, ended, job, cookie>>
  \/ /\ ask[v].kind # "dshn" /\ cookie # "ready"
     /\ parked' = [parked EXCEPT ![id] = v]
     /\ ended' = ended \ {id}
     /\ cookie' = "fetching"
     /\ UNCHANGED <<requests, buffered, job, up>>
  \/ /\ ask[v].kind # "dshn" /\ cookie = "ready"
     /\ Replay(v, id)
     /\ UNCHANGED <<parked, ended, cookie>>

FinishE2E(id) ==
  LET v == buffered[id] IN
  /\ buffered' = [buffered EXCEPT ![id] = None]
  /\ IF e2eKey = 0 THEN UNCHANGED <<job, up>>
     ELSE IF Opens(v)
     THEN job' = [job EXCEPT ![v] = StartJob(v, id, TRUE)] /\ UNCHANGED up
     ELSE AgentSend(Refusal(id, v)) /\ UNCHANGED job

-----------------------------------------------------------------------------
(* dispatch, one operator per kind of frame.  Nothing in it looks at which *)
(* connection the frame came from.                                         *)

ReqHead(f) ==
  /\ OpenRequest(f.who, f.id)
  /\ UNCHANGED <<lsocks, fed, link, told>>

ReqEnd(f) ==
  LET v == requests[f.id] IN
  /\ \/ /\ parked[f.id] # None
        /\ ended' = ended \cup {f.id}
        /\ UNCHANGED <<buffered, job, fed, up>>
     \/ /\ parked[f.id] = None /\ buffered[f.id] # None
        /\ FinishE2E(f.id)
        /\ UNCHANGED <<ended, fed>>
     \/ /\ parked[f.id] = None /\ buffered[f.id] = None
        /\ fed' = IF v = None THEN fed ELSE [fed EXCEPT ![v] = @ \cup ({f.who} \ {v})]
        /\ UNCHANGED <<buffered, ended, job, up>>
  /\ UNCHANGED <<requests, parked, lsocks, link, told, cookie>>

\* sock.close() on the local socket in the table: it leaves the table only with
\* its own 'close' event, which for a socket still connecting comes at once.
CloseLocal(id) ==
  LET b == lsocks[id] IN
  IF b = None THEN UNCHANGED <<link, lsocks>>
  ELSE LET connecting == link[b].st = "connecting" IN
       /\ link' = [link EXCEPT ![b].st = IF connecting THEN "over" ELSE "closing"]
       /\ lsocks' = IF connecting THEN [lsocks EXCEPT ![id] = None] ELSE lsocks

\* The error a closed, still connecting, socket reports to the relay.
ClosedEarly(id) ==
  IF lsocks[id] # None /\ link[lsocks[id]].st = "connecting"
  THEN <<Ctl("ws_close", id, lsocks[id]), Ctl("ws_close", id, lsocks[id])>> ELSE << >>

NotDestroyed(v) == job                               \* mutant: abort only forgets
Destroyed(v) == IF v = None THEN job ELSE [job EXCEPT ![v] = CutShort(@)]

RelayAbort(f) ==
  LET v == requests[f.id] IN
  /\ job' = Destroyed(v)
  /\ requests' = [requests EXCEPT ![f.id] = None]
  /\ buffered' = [buffered EXCEPT ![f.id] = None]
  /\ parked' = [parked EXCEPT ![f.id] = None]
  /\ ended' = ended \ {f.id}
  /\ CloseLocal(f.id)
  /\ AgentSend((IF v = None THEN << >> ELSE LastWords(v)) \o ClosedEarly(f.id))
  /\ UNCHANGED <<fed, told, cookie>>

WsOpen(f) ==
  /\ lsocks' = [lsocks EXCEPT ![f.id] = f.who]
  /\ link' = [link EXCEPT ![f.who] = [st |-> "connecting", id |-> f.id, sealed |-> e2eKey # 0]]
  /\ UNCHANGED <<requests, buffered, parked, ended, job, fed, told, cookie, up>>

\* A local socket that is not open yet throws, and the frame is lost.
WsData(f) ==
  LET b == lsocks[f.id] IN
  /\ told' = IF b # None /\ link[b].st = "open" THEN [told EXCEPT ![b] = @ \cup ({f.who} \ {b})] ELSE told
  /\ UNCHANGED <<requests, buffered, parked, ended, lsocks, job, fed, link, cookie, up>>

WsClose(f) ==
  /\ CloseLocal(f.id)
  /\ AgentSend(ClosedEarly(f.id))
  /\ UNCHANGED <<requests, buffered, parked, ended, job, fed, told, cookie>>

AgentDispatch(f) ==
  /\ ~crashed
  /\ \/ f.t = "req_head" /\ ReqHead(f)
     \/ f.t = "req_end"  /\ ReqEnd(f)
     \/ f.t = "abort"    /\ RelayAbort(f)
     \/ f.t = "ws_open"  /\ WsOpen(f)
     \/ f.t = "ws_msg"   /\ WsData(f)
     \/ f.t = "ws_close" /\ WsClose(f)
  /\ UNCHANGED <<control, dialled, asock, e2eKey, lastKey, ask, crashed>>

-----------------------------------------------------------------------------
(* Events of the local requests and sockets.                               *)

JobsOnly == UNCHANGED <<control, dialled, asock, buffered, parked, ended, lsocks, fed,
                        link, told, e2eKey, lastKey, ask, down, wire>>

\* The response of an unsealed replay begins.  A 401 invalidates the session
\* cookie; the response is passed on all the same.
LocalHead(v) ==
  /\ ~crashed /\ job[v].st = "sent" /\ ~job[v].sealed
  /\ job' = [job EXCEPT ![v].st = "head"]
  /\ cookie' \in IF Fenced THEN {cookie, "fetching"} ELSE {cookie}
  /\ AgentSend(<<Ctl("res_head", job[v].id, v)>>)
  /\ UNCHANGED <<requests, crashed>> /\ JobsOnly

\* Its body goes out, from dsh or from the compressor: one frame stands for all.
LocalBody(v) ==
  /\ ~crashed /\ job[v].st \in {"head", "zipped"}
  /\ job' = [job EXCEPT ![v].st = IF @ = "head" THEN "body" ELSE "flushing"]
  /\ AgentSend(<<Data("res_body", job[v].id, v, 0)>>)
  /\ UNCHANGED <<requests, cookie, crashed>> /\ JobsOnly

\* dsh's answer has been read to its end: req 'close' clears the table entry under
\* the id, whoever's it is, and nothing can stop what the compressor holds.
LocalRead(v) ==
  /\ ~crashed /\ job[v].st \in {"head", "body"}
  /\ job' = [job EXCEPT ![v].st = IF @ = "head" THEN "zipped" ELSE "flushing"]
  /\ requests' = [requests EXCEPT ![job[v].id] = None]
  /\ UNCHANGED <<cookie, crashed, up>> /\ JobsOnly

\* The compressor ends.  (A response sent as it is ends as soon as it is read.)
LocalEnd(v) ==
  /\ ~crashed /\ job[v].st = "flushing"
  /\ job' = [job EXCEPT ![v].st = "over"]
  /\ AgentSend(<<Ctl("res_end", job[v].id, v)>>)
  /\ UNCHANGED <<requests, cookie, crashed>> /\ JobsOnly

\* What the compressor of an answer cut short had taken in still comes out.
LocalSpill(v) ==
  /\ ~crashed /\ job[v].st = "spill"
  /\ job' = [job EXCEPT ![v].st = "over"]
  /\ AgentSend(<<Data("res_body", job[v].id, v, 0)>>) \/ UNCHANGED up
  /\ UNCHANGED <<requests, cookie, crashed>> /\ JobsOnly

\* dsh cannot be reached (502) or breaks off its response (abort).
LocalError(v) ==
  /\ "fail" \in Mishaps
  /\ ~crashed /\ job[v].st \in AtDsh
  /\ job' = [job EXCEPT ![v] = CutShort(@)]
  /\ requests' = IF job[v].sealed THEN requests ELSE [requests EXCEPT ![job[v].id] = None]
  /\ AgentSend(LastWords(v)) \/ AgentSend(<<Ctl("abort", job[v].id, v)>>)
  /\ UNCHANGED <<cookie, crashed>> /\ JobsOnly

\* The whole response of a sealed replay is in: it is sealed under the key of
\* this moment.  With no key, sealing throws outside every guard.
LocalAnswer(v) ==
  /\ ~crashed /\ job[v].st = "sent" /\ job[v].sealed
  /\ job' = [job EXCEPT ![v].st = "over"]
  /\ cookie' \in IF Fenced THEN {cookie, "fetching"} ELSE {cookie}
  /\ crashed' = (e2eKey = 0)
  /\ IF e2eKey = 0 THEN UNCHANGED up ELSE AgentSend(Answer(job[v].id, v, e2eKey))
  /\ UNCHANGED requests /\ JobsOnly

SocketsOnly == UNCHANGED <<control, dialled, asock, requests, buffered, parked, ended, job,
                           fed, told, e2eKey, lastKey, cookie, ask, crashed, down, wire>>

LinkOpen(b) ==
  /\ ~crashed /\ link[b].st = "connecting"
  /\ link' = [link EXCEPT ![b].st = "open"]
  /\ UNCHANGED <<lsocks, up>> /\ SocketsOnly

\* dsh pushes an event; a closing socket still delivers what dsh sent first.
LinkMessage(b) ==
  /\ ~crashed /\ link[b].st \in {"open", "closing"}
  /\ control # NoConn => Len(up[control]) < MaxQueue
  /\ AgentSend(<<Data("ws_msg", link[b].id, b, IF link[b].sealed THEN e2eKey ELSE 0)>>)
  /\ UNCHANGED <<lsocks, link>> /\ SocketsOnly

\* sock 'close': the table entry under the id goes, whoever's it is.
LinkClose(b) ==
  /\ ~crashed /\ link[b].st \in {"open", "closing"}
  /\ link' = [link EXCEPT ![b].st = "over"]
  /\ lsocks' = [lsocks EXCEPT ![link[b].id] = None]
  /\ AgentSend(<<Ctl("ws_close", link[b].id, b)>>)
  /\ SocketsOnly

\* dsh refuses the upgrade with a status, or the socket fails: 'error', then 'close'.
LinkRefused(b) ==
  /\ "fail" \in Mishaps
  /\ ~crashed /\ link[b].st = "connecting"
  /\ link' = [link EXCEPT ![b].st = "over"]
  /\ lsocks' = [lsocks EXCEPT ![link[b].id] = None]
  /\ \/ AgentSend(<<Ctl("ws_reject", link[b].id, b)>>)
     \/ AgentSend(ClosedEarly(link[b].id))
  /\ SocketsOnly

\* The uplink is congested: the socket is dropped with a 1013.
LinkCongested(b) ==
  /\ "slow" \in Mishaps
  /\ ~crashed /\ link[b].st \in {"open", "closing"}
  /\ control # NoConn /\ lsocks[link[b].id] # None
  /\ link' = [link EXCEPT ![b].st = "closing"]
  /\ lsocks' = [lsocks EXCEPT ![link[b].id] = None]
  /\ AgentSend(<<Ctl("ws_close", link[b].id, b)>>)
  /\ SocketsOnly

-----------------------------------------------------------------------------
(* The session cookie and the end-to-end password.                         *)

\* The cookie exchange settles, with a cookie or without, and every parked
\* request is released: the callbacks run one after the other with nothing in
\* between.
CookieSettled ==
  LET at(id)      == parked[id]
      waiting     == {id \in Ids : parked[id] # None}
      plain       == {id \in waiting : Fate(at(id)) = "replayed"}
      sealed      == {id \in waiting : Fate(at(id)) = "buffered"}
      opened      == {id \in sealed \cap ended : Opens(at(id))}
      refused(id) == \/ Fate(at(id)) = "refused"
                     \/ id \in sealed \cap ended /\ ~Opens(at(id))
  IN /\ ~crashed /\ cookie = "fetching"
     /\ cookie' \in {"ready", "failed"}
     /\ requests' = [id \in Ids |-> IF id \in plain THEN at(id) ELSE requests[id]]
     /\ buffered' = [id \in Ids |-> IF id \in sealed \ ended THEN at(id) ELSE buffered[id]]
     /\ job' = [v \in Visitors |->
                  IF \E id \in plain \cup opened : at(id) = v
                  THEN LET id == CHOOSE i \in plain \cup opened : at(i) = v
                       IN StartJob(v, id, id \in opened)
                  ELSE job[v]]
     /\ parked' = NoneOpen /\ ended' = {}
     /\ AgentSend(InIdOrder([id \in Ids |-> IF id \in waiting /\ refused(id)
                                             THEN Refusal(id, at(id)) ELSE << >>]))
     /\ UNCHANGED <<control, dialled, asock, lsocks, fed, link, told, e2eKey, lastKey, ask,
                    crashed, down, wire>>

\* setE2E with a changed password: off (k = 0) or a key never used before.
SetE2E(k) ==
  /\ ~crashed /\ k # e2eKey /\ k \in {0, lastKey + 1} \cap Keys
  /\ e2eKey' = k
  /\ lastKey' = IF k = 0 THEN lastKey ELSE k
  /\ DropStreams
  /\ AgentSend(InIdOrder([id \in Ids |->
                 (IF requests[id] = None THEN << >> ELSE LastWords(requests[id])) \o
                 (IF ClosedEarly(id) = << >> THEN << >> ELSE <<Head(ClosedEarly(id))>>)]))
  /\ UNCHANGED <<control, dialled, asock, fed, told, cookie, ask, crashed, down, wire>>

-----------------------------------------------------------------------------
(* The control socket, as far as the streams see it.                       *)

\* connect(): the next connection is dialled and becomes the control socket.
Dial == /\ dialled < MaxConn
        /\ dialled' = dialled + 1
        /\ control' = dialled + 1

\* The reconnect timer fires, or the user configures the tunnel again.
Reconnect ==
  /\ ~crashed /\ control = NoConn /\ Dial
  /\ asock' = [asock EXCEPT ![dialled + 1] = "connecting"]
  /\ UNCHANGED <<requests, buffered, parked, ended, lsocks, job, fed, link, told, e2eKey,
                 lastKey, cookie, ask, crashed, down, up, wire>>

\* The new socket is open on both sides; HELLO goes out first.
Opened(n) ==
  /\ ~crashed /\ asock[n] = "connecting" /\ wire[n] = "up"
  /\ PromptClose => /\ \A b \in Browsers : link[b].st # "closing"
                    /\ \A v \in Visitors : job[v].st \notin Compressing
  /\ asock' = [asock EXCEPT ![n] = "open"]
  /\ UNCHANGED <<control, dialled, requests, buffered, parked, ended, lsocks, job, fed,
                 link, told, e2eKey, lastKey, cookie, ask, crashed, down, up, wire>>

\* The deliberate ends of a connection: every stream is dropped, the old socket
\* starts closing and, in redial() and configure(), the next is dialled at once;
\* after disconnect() the agent waits for a configure().
Redial ==
  /\ ~crashed /\ control # NoConn /\ asock[control] \in {"connecting", "open"}
  /\ DropStreams
  /\ \/ /\ Dial
        /\ asock' = [asock EXCEPT ![control] = "closing", ![dialled + 1] = "connecting"]
     \/ /\ control' = NoConn
        /\ asock' = [asock EXCEPT ![control] = "closing"]
        /\ UNCHANGED dialled
  /\ IF asock[control] = "open"
     THEN up' = Posted(up, control, <<CloseFrame>>) /\ UNCHANGED wire
     ELSE wire' = [wire EXCEPT ![control] = "down"] /\ UNCHANGED up
  /\ UNCHANGED <<fed, told, e2eKey, lastKey, cookie, ask, crashed, down>>

\* The socket's 'close' event.  onClose runs only for the control socket; by
\* then nothing can be sent, so what is dropped has no last words.
AgentCloseEvent(n) ==
  /\ ~crashed
  /\ asock[n] \in {"connecting", "open", "closing"}
  /\ wire[n] = "down" \/ (down[n] # << >> /\ Head(down[n]).t = "close")
  /\ asock' = [asock EXCEPT ![n] = "closed"]
  /\ down' = [down EXCEPT ![n] = << >>]
  /\ IF control = n
     THEN control' = NoConn /\ DropStreams
     ELSE UNCHANGED <<control, requests, buffered, parked, ended, lsocks, job, link>>
  /\ UNCHANGED <<dialled, fed, told, e2eKey, lastKey, cookie, ask, crashed, up, wire>>
=============================================================================
