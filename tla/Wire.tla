-------------------------------- MODULE Wire --------------------------------
(***************************************************************************)
(* The control connections between one agent device and the relay, seen    *)
(* from the outside: what is in flight in each direction and whether the   *)
(* TCP connection underneath still carries anything.                       *)
(*                                                                         *)
(* Connections are numbered in the order the agent dials them.  A frame is *)
(* abstracted to its type, its stream id and two ghosts: "who", the public *)
(* request or browser socket the content belongs to, and "key", the        *)
(* end-to-end key its body is sealed under (0: plaintext).                 *)
(***************************************************************************)
EXTENDS Naturals, Sequences

CONSTANTS
  MaxConn,    \* bound: how many control connections the agent ever dials
  MaxId,      \* the largest stream id; 16^8 - 1 in the code
  MaxQueue,   \* bound: frames in flight when another WebSocket message is sent
  MaxKey,     \* bound: how many end-to-end passwords are ever set
  Visitors,   \* public HTTP requests
  Browsers,   \* public WebSockets
  Mishaps,    \* bound: what may go wrong with single streams, of AllMishaps
  None        \* no visitor, no browser

\* A client leaves early or reads too slowly, the agent is quiet for longer than
\* the relay waits, dsh fails a request.
AllMishaps == {"quit", "slow", "idle", "fail"}

ASSUME WireAssumption ==
  /\ Mishaps \subseteq AllMishaps
  /\ MaxConn \in Nat \ {0}
  /\ MaxId \in Nat \ {0}
  /\ MaxKey \in Nat
  /\ MaxQueue \in Nat
  /\ Visitors \cap Browsers = {}
  /\ None \notin Visitors \cup Browsers

VARIABLES
  down,       \* down[n]: frames from the relay to the agent, in order
  up,         \* up[n]: frames from the agent to the relay, in order
  wire        \* wire[n]: "up" while the connection carries frames

wireVars == <<down, up, wire>>

Conns  == 1..MaxConn
Ids    == 1..MaxId
NoConn == 0
Keys   == 0..MaxKey
Note   == MaxKey + 1     \* the "key" of a text the agent itself wrote
Whos   == Visitors \cup Browsers

FrameTypes == {"req_head", "req_end", "abort", "res_head", "res_body", "res_end",
               "ws_open", "ws_msg", "ws_close", "ws_reject", "close"}

FrameSet == [t : FrameTypes, id : Ids, who : Whos \cup {None}, key : 0..(MaxKey + 1)]

\* A control frame, a data frame in the clear, a data frame sealed under k.
Ctl(t, id, who)       == [t |-> t, id |-> id, who |-> who, key |-> 0]
Data(t, id, who, k)   == [t |-> t, id |-> id, who |-> who, key |-> k]
\* The close frame of the WebSocket protocol itself.
CloseFrame            == [t |-> "close", id |-> 1, who |-> None, key |-> 0]

\* Channel ch after fs were written to connection n: a dead wire carries nothing.
Posted(ch, n, fs) == IF wire[n] = "up" THEN [ch EXCEPT ![n] = @ \o fs] ELSE ch

WireTypeOK ==
  /\ down \in [Conns -> Seq(FrameSet)]
  /\ up   \in [Conns -> Seq(FrameSet)]
  /\ wire \in [Conns -> {"up", "down"}]

WireInit ==
  /\ down = [n \in Conns |-> << >>]
  /\ up   = [n \in Conns |-> << >>]
  /\ wire = [n \in Conns |-> "up"]

\* The network loses the connection; both ends learn of it later, each through
\* its own 'close' event.
Lose(n) ==
  /\ wire[n] = "up"
  /\ wire' = [wire EXCEPT ![n] = "down"]
  /\ UNCHANGED <<down, up>>
=============================================================================
