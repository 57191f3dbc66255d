---------------------------- MODULE PremiumRoute ----------------------------
(***************************************************************************)
(* The premium route of one subdomain (packages/relay/src/server.ts,       *)
(* premiumSerial to dropPremiumDns, and dns.ts): the claim's assignment,   *)
(* the dedicated DNS record behind it, and the queue of operations that    *)
(* keep the two together while claims come and go, agents connect, calls   *)
(* of the DNS provider fail and the operator edits the zone by hand.       *)
(*                                                                         *)
(* The relay runs with managed DNS.  An await is a call of the provider:   *)
(* other handlers run between two calls of an operation.                   *)
(***************************************************************************)
EXTENDS Naturals, Sequences, FiniteSets

CONSTANTS
  Agents,      \* agent connections of the subdomain
  MaxRecord,   \* bound: how many DNS records of the name are ever made
  MaxQueue,    \* bound: operations queued when the admin asks for another
  MaxEdits,    \* bound: how often the operator edits the zone
  Faults       \* of AllFaults

\* A call fails before or after it took effect, the relay stops.
AllFaults == {"call", "stop"}

ASSUME PremiumAssumption ==
  /\ MaxRecord \in Nat /\ MaxQueue \in Nat /\ MaxEdits \in Nat
  /\ Faults \subseteq AllFaults

VARIABLES
  claimed,  \* whether a claim of the name stands
  premium,  \* the claim's premium field: the id of the record it remembers, 0: standard
  zone,     \* zone[i]: the A record with id i
  made,     \* how many records were ever made; ids are not used again
  queue,    \* premiumOps: operations not settled yet, the running one first
  run,      \* where the running operation stands
  told,     \* told[a]: the route agent a was last told
  edits,    \* bound: edits of the operator
  troubled, \* ghost: "no"; a call failed or the operator lent a hand; or the relay "stopped"
  posted,   \* ghost: the records there are that the relay made
  taken     \* ghost: the records the operator took over, or made, since the operation looked
            \* that is about to write

ghosts == <<troubled, posted, taken>>
vars   == <<claimed, premium, zone, made, queue, run, told, edits, ghosts>>

Records == 1..MaxRecord
\* "ours" carries the relay's comment and points at the accelerator; "turned" carries
\* it and points elsewhere, or is proxied; "theirs" does not carry it.
Contents  == {"none", "ours", "turned", "theirs"}
Owned     == {i \in Records : zone[i] \in {"ours", "turned"}}
Theirs    == {i \in Records : zone[i] = "theirs"}
Routes    == {"standard", "premium"}
\* Which call is awaited, about which record, which records are still to be deleted,
\* and what a removal is for.
Calls     == {"none", "find", "make", "retarget", "read", "delete", "sweep", "deleteNext"}
Purposes  == {"none", "disable", "drop", "undo"}
NoRun     == [at |-> "none", id |-> 0, todo |-> {}, for |-> "none"]
\* At most one operation of the queue, whichever, is watched (ghost).
Ops       == [op : {"enable", "disable", "drop"}, id : 0..MaxRecord, watched : BOOLEAN]

TypeOK ==
  /\ claimed \in BOOLEAN
  /\ premium \in 0..MaxRecord
  /\ ~claimed => premium = 0
  /\ zone \in [Records -> Contents]
  /\ made \in 0..MaxRecord
  /\ queue \in Seq(Ops)
  /\ run \in [at : Calls, id : 0..MaxRecord, todo : SUBSET Records, for : Purposes]
  /\ told \in [Agents -> Routes \cup {"none"}]
  /\ edits \in 0..MaxEdits
  /\ troubled \in {"no", "some", "stopped"}
  /\ posted \subseteq Records /\ taken \subseteq Records

Init ==
  /\ claimed = FALSE /\ premium = 0
  /\ zone = [i \in Records |-> "none"] /\ made = 0
  /\ queue = << >> /\ run = NoRun
  /\ told = [a \in Agents |-> "none"]
  /\ edits = 0 /\ troubled = "no" /\ posted = {} /\ taken = {}

-----------------------------------------------------------------------------
(* Helpers.                                                                *)

Running == run.at # "none"
\* premiumSerial: an operation starts in the same turn in which it is queued or the
\* one before it settles; no other handler comes in between.
Quiet   == Running \/ queue = << >>
Writing == run.at \in {"make", "retarget", "delete", "deleteNext"}
Trouble == troubled' = IF troubled = "stopped" THEN "stopped" ELSE "some"

Route(p) == IF p = 0 THEN "standard" ELSE "premium"

NotifyNobody(p) == UNCHANGED told                       \* mutant: agents are not told
\* notifyRoute, to the live agents.
NotifyRoute(p)  == told' = [a \in Agents |-> IF told[a] = "none" THEN "none" ELSE Route(p)]

\* premiumSerial, for operation op and the record it remembers.
Watched == \E j \in DOMAIN queue : queue[j].watched
Enqueue(op, i) ==
  \E w \in {FALSE, ~Watched} : queue' = Append(queue, [op |-> op, id |-> i, watched |-> w])

\* The operation settles.  The next one runs whether or not it failed.
Settle == queue' = Tail(queue) /\ run' = NoRun
Await(call, i, todo, purpose) ==
  run' = [at |-> call, id |-> i, todo |-> todo, for |-> purpose] /\ UNCHANGED queue
FailDropsAll == queue' = << >> /\ run' = NoRun          \* mutant: the chain ends with a failure
Fail        == Settle

\* unpoint, up to its first await.
Unpoint(i, purpose) ==
  IF i # 0 THEN Await("read", i, {}, purpose) ELSE Await("sweep", 0, {}, purpose)

\* What an operation does once its record is removed.
Removed ==
  /\ Settle
  /\ IF run.for = "disable" /\ claimed
     THEN premium' = 0 /\ NotifyRoute(0)
     ELSE UNCHANGED <<premium, told>>

\* The provider makes another record of the name, whoever asked.
NewRecord(content) ==
  /\ made < MaxRecord /\ made' = made + 1
  /\ zone' = [zone EXCEPT ![made + 1] = content]

-----------------------------------------------------------------------------
(* The operations, one action per await.                                   *)

Begin(op) ==
  CASE op.op = "enable" /\ claimed /\ premium = 0  -> Await("find", 0, {}, "none")
    [] op.op = "disable" /\ claimed /\ premium # 0 -> Unpoint(premium, "disable")
    [] op.op = "drop"                                -> Unpoint(op.id, "drop")
    [] OTHER                                         -> Settle

Start ==
  /\ ~Running /\ queue # << >>
  /\ Begin(Head(queue))
  /\ UNCHANGED <<claimed, premium, zone, made, told, edits, ghosts>>

\* setPremiumRoute, once `point` returned record i.
Grant(i) ==
  \/ claimed /\ premium' = i /\ NotifyRoute(i) /\ Settle
  \/ ~claimed /\ Unpoint(i, "undo") /\ UNCHANGED <<premium, told>>

MakeAlways ==                                           \* mutant: our own record is not looked for
  /\ made < MaxRecord /\ Await("make", 0, {}, "none") /\ UNCHANGED <<premium, told>>

\* point, with the records of the name at hand.
Found ==
  \/ Theirs # {} /\ Fail /\ UNCHANGED <<premium, told>>
  \/ \E i \in Owned : /\ Theirs = {}
                      /\ \/ zone[i] = "ours" /\ Grant(i)
                         \/ zone[i] = "turned" /\ Await("retarget", i, {}, "none") /\ UNCHANGED <<premium, told>>
  \/ Theirs \cup Owned = {} /\ made < MaxRecord /\ Await("make", 0, {}, "none") /\ UNCHANGED <<premium, told>>

\* unpoint, with the record of the remembered id at hand.
ReadUnchecked ==                                        \* mutant: deleted whoever it belongs to
  /\ IF zone[run.id] = "none" THEN Await("sweep", 0, {}, run.for) ELSE Await("delete", run.id, {}, run.for)
Read ==
  \/ zone[run.id] = "theirs" /\ Fail
  \/ run.id \in Owned /\ Await("delete", run.id, {}, run.for)
  \/ zone[run.id] = "none" /\ Await("sweep", 0, {}, run.for)

\* unpoint, with `todo` of the relay's own records of the name still there, in any order.
SweepOn(todo) ==
  \/ todo = {} /\ Removed
  \/ \E i \in todo : Await("deleteNext", i, todo, run.for) /\ UNCHANGED <<premium, told>>

\* The provider makes, retargets or deletes the record: what of the zone a call changes.
Makes   == run.at = "make" /\ NewRecord("ours") /\ posted' = posted \cup {made + 1}
Changes ==
  /\ run.at \in {"retarget", "delete", "deleteNext"} /\ zone[run.id] # "none"
  /\ zone' = [zone EXCEPT ![run.id] = IF run.at = "retarget" THEN "ours" ELSE "none"]
  /\ posted' = IF run.at = "retarget" THEN posted ELSE posted \ {run.id}
  /\ UNCHANGED made
Idles   == UNCHANGED <<zone, made, posted>>

\* The provider answers the call.
Looks ==
  /\ Idles /\ taken' = {}
  /\ \/ run.at = "find" /\ Found
     \/ run.at = "read" /\ Read /\ UNCHANGED <<premium, told>>
     \/ run.at = "sweep" /\ SweepOn(Owned)

Writes ==
  /\ \/ Makes /\ Grant(made + 1)
     \/ /\ Changes
        /\ \/ run.at = "retarget" /\ Grant(run.id)
           \/ run.at = "delete" /\ Removed
           \/ run.at = "deleteNext" /\ SweepOn(run.todo \ {run.id})
     \* The record is gone: an error.
     \/ /\ run.at \in {"retarget", "delete", "deleteNext"} /\ zone[run.id] = "none"
        /\ Fail /\ Idles /\ UNCHANGED <<premium, told>>
  /\ taken' = IF run'.at = "deleteNext" THEN taken ELSE {}

Answered == (Looks \/ Writes) /\ UNCHANGED troubled

\* The call fails: refused, timed out, or answered too late, with the write done or not.
CallFails ==
  /\ "call" \in Faults /\ Running
  /\ Fail /\ Trouble /\ taken' = {} /\ UNCHANGED <<premium, told>>
  /\ Idles \/ Makes \/ Changes

Provider == (Answered \/ CallFails) /\ UNCHANGED <<claimed, edits>>

-----------------------------------------------------------------------------
(* Everybody else.                                                         *)

\* handleAdminPremium.
Toggle(op) ==
  /\ Quiet /\ Len(queue) < MaxQueue
  /\ Enqueue(op, 0)
  /\ UNCHANGED <<claimed, premium, zone, made, run, told, edits, ghosts>>

DropNoDns == UNCHANGED queue                            \* mutant: the claim is looked at after it is gone
\* dropPremiumDns.
DropPremiumDns == IF premium = 0 THEN UNCHANGED queue ELSE Enqueue("drop", premium)

\* handleAdminAction, release and ban: the record, the claim, the agents.
Release ==
  /\ Quiet /\ claimed /\ Len(queue) < MaxQueue
  /\ DropPremiumDns
  /\ claimed' = FALSE /\ premium' = 0
  /\ told' = [a \in Agents |-> "none"]
  /\ UNCHANGED <<zone, made, run, edits, ghosts>>

\* A HELLO claims the name, or verifies against its claim; READY names the route.
Admit(a) ==
  /\ Quiet /\ told[a] = "none"
  /\ claimed' = TRUE /\ told' = [told EXCEPT ![a] = Route(premium)]
  /\ UNCHANGED <<premium, zone, made, queue, run, edits, ghosts>>

Leave(a) ==
  /\ Quiet /\ told[a] # "none" /\ told' = [told EXCEPT ![a] = "none"]
  /\ UNCHANGED <<claimed, premium, zone, made, queue, run, edits, ghosts>>

\* The relay stops.  The claims file is written at once; operations are not.
Stop ==
  /\ "stop" \in Faults
  /\ queue' = << >> /\ run' = NoRun /\ told' = [a \in Agents |-> "none"]
  /\ troubled' = "stopped" /\ taken' = {}
  /\ UNCHANGED <<claimed, premium, zone, made, edits, posted>>

\* The operator, in the provider's own panel and at any time: makes a record of the name,
\* deletes one, retargets one of the relay's, takes one over by clearing its comment, or
\* has the relay adopt one by stamping it.  One id is left for the relay (bound).
Hand ==
  /\ edits < MaxEdits /\ edits' = edits + 1
  /\ \/ /\ made + 1 < MaxRecord /\ NewRecord("theirs")
        /\ taken' = IF Writing THEN taken \cup {made + 1} ELSE {}
        /\ UNCHANGED posted
     \/ \E i \in Records, c \in Contents :
          /\ zone[i] # "none" /\ c # zone[i] /\ (c = "turned" => zone[i] = "ours")
          /\ zone' = [zone EXCEPT ![i] = c] /\ UNCHANGED made
          /\ taken' = IF Writing /\ c = "theirs" THEN taken \cup {i} ELSE taken \ {i}
          /\ posted' = IF c = "none" THEN posted \ {i} ELSE posted
  /\ Trouble
  /\ UNCHANGED <<claimed, premium, queue, run, told>>

Next ==
  \/ Start \/ Provider
  \/ Toggle("enable") \/ Toggle("disable") \/ Release
  \/ \E a \in Agents : Admit(a) \/ Leave(a)
  \/ Stop \/ Hand

Spec == Init /\ [][Next]_vars

\* A call of the provider ends: CF_TIMEOUT_MS aborts it.
FairSpec == Spec /\ WF_vars(Start) /\ WF_vars(Provider)
-----------------------------------------------------------------------------
(* Properties.                                                             *)

Still == queue = << >>

\* Unless a call failed, the relay stopped or the operator edited the zone: once every
\* operation has settled, a name on the standard route, or held by nobody,
\* has no record of the relay's left, in whatever order enabling, disabling, releasing
\* and claiming anew came (setPremiumRoute: "nothing may keep pointing a name nobody
\* holds at the accelerator").
NothingLeftBehind == Still /\ premium = 0 /\ troubled = "no" => Owned = {}

\* However many calls fail or take effect unheard, wherever the relay stops and whatever
\* the operator does meanwhile, of the records the relay made for the name at most one is
\* there (point: "so the name never has two answers").
OneRecord == Cardinality(posted) <= 1

\* No operation, with whatever id it remembers and whatever the operator did before it or
\* in the middle of it, changes or deletes a record that did not carry the relay's comment
\* when the operation last looked (unpoint: "an id remembered from an earlier life of
\* the name may now belong to a record the operator made").
TheirsStayTheirs ==
  [][Provider => \A i \in Theirs \ taken : zone'[i] = "theirs"]_vars

\* Every connected agent was last told the route that the claim has now, whenever it
\* joined (notifyRoute and READY: "Live agents are told to re-route").
AgentsKnowTheRoute == \A a \in Agents : told[a] \in {"none", Route(premium)}

\* Every queued operation gets its turn, and an end, however many before it failed, unless
\* the relay stops (premiumSerial: "after every earlier one for that subdomain has
\* settled").
Turn == queue # << >> /\ Head(queue).watched

EveryOperationRuns ==
  /\ Watched ~> Turn \/ troubled = "stopped"
  /\ Turn ~> ~Turn
=============================================================================
