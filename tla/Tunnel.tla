------------------------------- MODULE Tunnel -------------------------------
(***************************************************************************)
(* The tunnel of one device: the relay's half and the agent's half over    *)
(* the connections the agent dials one after the other.  Visitors, browser *)
(* sockets, dsh and the network are the environment.                       *)
(***************************************************************************)
EXTENDS RelayStreams, AgentStreams

CONSTANT Redials      \* whether the user or the relay makes the agent redial

ASSUME RedialsAssumption == Redials \in BOOLEAN

vars == <<wireVars, relayVars, agentVars>>

TypeOK == WireTypeOK /\ RelayTypeOK /\ AgentTypeOK

Init == WireInit /\ RelayInit /\ AgentInit

-----------------------------------------------------------------------------
\* A visitor's page seals under a key some shell of the agent carried, or not
\* at all; only /api requests are sealed.
Arrive(v) ==
  /\ Request(v)
  /\ \E a \in Asks :
       /\ a.key <= lastKey
       /\ a.kind # "api" => a.key = 0 /\ ~a.bodied
       /\ ask' = [ask EXCEPT ![v] = a]
  /\ UNCHANGED <<control, dialled, asock, requests, buffered, parked, ended, lsocks, job,
                 fed, link, told, e2eKey, lastKey, cookie, crashed>>

Public ==
  \/ \E v \in Visitors : RequestEnd(v) \/ RequestError(v) \/ ClientClose(v)
  \/ \E b \in Browsers : Upgrade(b) \/ BrowserMessage(b) \/ BrowserClose(b)

\* The relay takes the next frame of connection n off the wire.  Until it is
\* admitted, nobody listens for what follows HELLO.
RelayReceive(n) ==
  /\ up[n] # << >>
  /\ LET f == Head(up[n]) IN
     \/ f.t = "close" /\ PeerClose(n)
     \/ f.t # "close" /\ OnAgentFrame(n, f)
     \/ f.t # "close" /\ rst[n] = "handshake" /\ UNCHANGED <<relayVars, down>>
  /\ up' = [up EXCEPT ![n] = Tail(@)]
  /\ UNCHANGED <<wire, agentVars>>

\* The agent takes the next frame of connection n off the wire: any socket of
\* its own that has not closed yet delivers.
AgentReceive(n) ==
  /\ asock[n] \in {"open", "closing"}
  /\ down[n] # << >>
  /\ AgentDispatch(Head(down[n]))
  /\ down' = [down EXCEPT ![n] = Tail(@)]
  /\ UNCHANGED <<wire, relayVars>>

Handshake(n) ==
  /\ Opened(n)
  /\ Accept(n)
  /\ UNCHANGED <<routed, nextId, responses, activity, sockets, at, pub, body, got, tab,
                 heard, wrapped>>

Loss(n) ==
  /\ asock[n] \notin {"none", "closed"}
  /\ Lose(n)
  /\ UNCHANGED <<relayVars, agentVars>>

RelaySteps ==
  \/ \E n \in Conns : Admit(n) \/ Terminate(n) \/ CloseEvent(n)
  \/ \E n \in Conns, id \in Ids : IdleTimeout(n, id)

AgentSteps ==
  \/ \E v \in Visitors : \/ LocalHead(v) \/ LocalBody(v) \/ LocalRead(v) \/ LocalEnd(v)
                         \/ LocalSpill(v) \/ LocalError(v) \/ LocalAnswer(v)
  \/ \E b \in Browsers : \/ LinkOpen(b) \/ LinkMessage(b) \/ LinkClose(b)
                         \/ LinkRefused(b) \/ LinkCongested(b)
  \/ CookieSettled
  \/ \E k \in Keys : SetE2E(k)
  \/ Reconnect
  \/ Redials /\ Redial
  \/ \E n \in Conns : AgentCloseEvent(n)

Next ==
  \/ \E v \in Visitors : Arrive(v)
  \/ (Public \/ RelaySteps) /\ UNCHANGED agentVars
  \/ AgentSteps /\ UNCHANGED relayVars
  \/ \E n \in Conns : RelayReceive(n) \/ AgentReceive(n) \/ Handshake(n) \/ Loss(n)

\* The relay's sweep runs on an interval and judges every entry of the activity
\* map, and a socket that is closing or whose connection is gone gets its
\* 'close' event.  Nothing is assumed of visitors, of dsh or of the agent.
Fairness ==
  /\ \A n \in Conns, id \in Ids : WF_vars(IdleTimeout(n, id) /\ UNCHANGED agentVars)
  /\ \A n \in Conns : WF_vars(CloseEvent(n) /\ UNCHANGED agentVars)

Spec == Init /\ [][Next]_vars

FairSpec == Spec /\ Fairness

-----------------------------------------------------------------------------
(* Safety.                                                                 *)

\* A response of a response table is in the activity map, so that the sweep sees
\* it and a stuck origin cannot pin it for good.  As long as ids have not wrapped,
\* the pending responses are exactly the entries of these tables, each under the
\* place its own handlers know, on a connection whose 'close' event is still to
\* come; the same for browser sockets.  So no response is ever orphaned by a
\* takeover, a timeout or a loss.
PendingIsBridged ==
  /\ \A n \in Conns, id \in Ids : responses[n][id] # None => id \in activity[n]
  /\ ~wrapped =>
      /\ \A v \in Visitors, n \in Conns, id \in Ids :
           (responses[n][id] = v) <=>
           (pub[v] \in Pending /\ at[v] = [conn |-> n, id |-> id] /\ rst[n] \in {"open", "closing"})
      /\ \A b \in Browsers, n \in Conns, id \in Ids :
           (sockets[n][id] = b) <=>
           (tab[b] = "open" /\ at[b] = [conn |-> n, id |-> id] /\ rst[n] \in {"open", "closing"})
      /\ \A v \in Visitors : pub[v] \in Pending => rst[at[v].conn] \in {"open", "closing"}
      /\ \A b \in Browsers : tab[b] = "open" => rst[at[b].conn] \in {"open", "closing"}

\* What a public response carries was said about that very request, what a
\* browser socket hears was said to it, and what a local request or socket is
\* fed came from its own visitor: stream ids never mix two streams up.
NoCrossTalk ==
  /\ \A v \in Visitors : \A i \in 1..Len(got[v]) : got[v][i].who = v
  /\ \A b \in Browsers : heard[b] = {} /\ told[b] = {}
  /\ \A v \in Visitors : fed[v] = {}

\* The agent's tables hold streams of its current control connection only, and
\* an id is in one of the tables at most: nothing is left over from the one
\* before (dropStreams in onClose).
StreamsAreCurrent ==
  LET tables(id) == {requests[id], buffered[id], parked[id], lsocks[id]} \ {None} IN
  \A id \in Ids :
    /\ \A w \in tables(id) : at[w] = [conn |-> control, id |-> id]
    /\ \A w, x \in tables(id) : w = x
    /\ (parked[id] # None) => (requests[id] = None /\ buffered[id] = None)
    /\ (buffered[id] # None) => requests[id] = None

\* A response the relay ended on res_end carries the whole of its answer, once
\* and in order: no part is lost or doubled by parking, buffering or sealing.
CompleteIsWhole ==
  \A v \in Visitors : pub[v] = "complete" =>
    [i \in 1..Len(got[v]) |-> got[v][i].part] = <<"res_head", "res_body", "res_end">>

\* dsh's answers and events to the application's calls leave the agent sealed
\* whenever E2E is on.  An event socket that nobody closed says nothing in the
\* clear then, and no answer to a call in the clear begins, goes on at dsh or
\* enters the compressor: all that is sent of one comes out of the compressor,
\* which no setE2E reaches, and went in while E2E was off.
\* Checked where it happens, on the frames put on the wire by a step.
SealedWhileOn ==
  [][e2eKey # 0 =>
       /\ \A n \in Conns : \A i \in 1..Len(up'[n]) :
            LET f == up'[n][i] IN
            i > Len(up[n]) /\ f.key = 0 =>
              /\ f.t = "ws_msg" => link[f.who].st # "open"
              /\ f.t = "res_body" /\ ask[f.who].kind = "api" =>
                   job[f.who].st \in {"zipped", "spill"}
       /\ \A v \in Visitors :
            /\ ask[v].kind = "api" /\ ~job'[v].sealed
            /\ job'[v].st \in AtDsh \cup {"zipped", "spill"}
            => job'[v] = job[v] /\ job[v].st \notin AtDsh]_vars

\* Once a response has ended, nothing more is written to it.
NothingAfterTheEnd ==
  [][\A v \in Visitors : pub[v] \in Ended => got'[v] = got[v] /\ pub'[v] = pub[v]]_vars

\* The local request of a visitor whose response has ended is over as soon as
\* the agent has read what the relay sent it: dsh does not keep working for
\* nobody.  (A sealed request cannot be called back: see the README.)
EndedWorkStops ==
  \A v \in Visitors :
    (/\ pub[v] \in Ended /\ at[v].conn # NoConn
     /\ down[at[v].conn] = << >> /\ wire[at[v].conn] = "up"
     /\ rst[at[v].conn] = "open" /\ control = at[v].conn)
    => job[v].st \notin AtDsh \/ job[v].sealed

-----------------------------------------------------------------------------
(* Liveness.                                                               *)

\* Every public response ends, whatever dsh, the agent and the network do.
EveryResponseEnds == \A v \in Visitors : (pub[v] \in Pending) ~> (pub[v] \in Ended)
=============================================================================
