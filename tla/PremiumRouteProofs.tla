------------------------- MODULE PremiumRouteProofs -------------------------
(***************************************************************************)
(* Theorems about the premium route, for every set of agents, every number *)
(* of records and operations, and every combination of faults.             *)
(***************************************************************************)
EXTENDS PremiumRoute, FiniteSetTheorems, TLAPS

-----------------------------------------------------------------------------
(* The inductive invariant.                                                *)

\* An operation that runs is at the head of the queue.
RunQueued == Running => queue # << >>

\* Ids that were not given out hold nothing.
Unmade == \A i \in Records : zone[i] # "none" => i <= made

\* What the running operation is about to write was looked at: a record is made only where
\* the relay has none, and what is changed or deleted was the relay's own, unless the
\* operator took it over since.
Aimed ==
  /\ run.at = "make" => posted = {}
  /\ run.at \in {"read", "delete", "retarget", "deleteNext"} => run.id \in Records
  /\ run.at \in {"delete", "retarget", "deleteNext"} /\ zone[run.id] = "theirs" => run.id \in taken
  /\ run.at = "deleteNext" => \A i \in run.todo : zone[i] = "theirs" => i \in taken

\* The records the relay made are there, and there is one of them at most.
Posted == \A i \in posted : zone[i] # "none"
Single == \A i, j \in posted : i = j

IInv == TypeOK /\ AgentsKnowTheRoute /\ RunQueued /\ Unmade /\ Aimed /\ Posted /\ Single

Runs == [at : Calls, id : 0..MaxRecord, todo : SUBSET Records, for : Purposes]

-----------------------------------------------------------------------------
LEMMA Constants ==
  /\ NoRun \in Runs /\ Records = 1..MaxRecord /\ MaxRecord \in Nat /\ MaxQueue \in Nat /\ MaxEdits \in Nat
  /\ \A i \in Records : i \in 0..MaxRecord /\ i # 0
BY PremiumAssumption DEF NoRun, Runs, Calls, Purposes, Records

LEMMA InitInv == Init => IInv
<1> SUFFICES ASSUME Init PROVE IInv
  OBVIOUS
<1>1. run \in Runs /\ run.at = "none"
  BY Constants DEF Init, NoRun
<1>2. zone \in [Records -> Contents] /\ told \in [Agents -> Routes \cup {"none"}]
  BY DEF Init, Contents
<1>3. made \in 0..MaxRecord /\ premium \in 0..MaxRecord /\ edits \in 0..MaxEdits /\ queue \in Seq(Ops)
  BY Constants DEF Init
<1>4. TypeOK
  BY <1>1, <1>2, <1>3 DEF Init, TypeOK, Runs
<1> QED BY <1>1, <1>4 DEF Init, IInv, AgentsKnowTheRoute, RunQueued, Running, Unmade, Aimed, Posted, Single

-----------------------------------------------------------------------------
(* The parts of a step.                                                    *)

\* The running operation stands well with the zone as it is afterwards.
Going == /\ run' \in Runs /\ queue' \in Seq(Ops) /\ RunQueued' /\ Aimed'

\* Assignment and agents agree.
Agreed == /\ premium' \in 0..MaxRecord /\ (~claimed => premium' = 0)
          /\ told' \in [Agents -> Routes \cup {"none"}] /\ AgentsKnowTheRoute'

LEMMA SettleGoes ==
  ASSUME TypeOK, RunQueued, Running \/ queue # << >>, Settle
  PROVE  Going
BY Constants DEF Settle, TypeOK, RunQueued, Running, NoRun, Going, Aimed, Runs

LEMMA AwaitGoes ==
  ASSUME TypeOK, queue # << >>, NEW c \in Calls, NEW i \in 0..MaxRecord, NEW s \in SUBSET Records, NEW p \in Purposes,
         Await(c, i, s, p),
         c = "make" => posted' = {},
         c \in {"delete", "retarget", "deleteNext"} /\ zone'[i] = "theirs" => i \in taken',
         c = "deleteNext" => \A j \in s : zone'[j] = "theirs" => j \in taken',
         c \in {"read", "delete", "retarget", "deleteNext"} => i \in Records
  PROVE  Going
<1>1. /\ run' \in Runs /\ queue' = queue
      /\ run'.at = c /\ run'.id = i /\ run'.todo = s /\ run'.for = p
  BY DEF Await, Runs
<1> QED BY <1>1 DEF Going, TypeOK, RunQueued, Aimed

LEMMA UnpointGoes ==
  ASSUME TypeOK, queue # << >>, NEW i \in 0..MaxRecord, NEW p \in Purposes, Unpoint(i, p)
  PROVE  Going
<1>1. CASE i # 0
  <2>1. Await("read", i, {}, p) /\ i \in Records
    BY <1>1, Constants DEF Unpoint
  <2> QED BY <2>1, AwaitGoes DEF Calls
<1>2. CASE i = 0
  <2>1. Await("sweep", 0, {}, p)
    BY <1>2 DEF Unpoint
  <2> QED BY <2>1, AwaitGoes, Constants DEF Calls
<1> QED BY <1>1, <1>2

LEMMA Unnoticed ==
  ASSUME TypeOK, AgentsKnowTheRoute, premium' = premium, told' = told
  PROVE  Agreed
BY DEF TypeOK, AgentsKnowTheRoute, Agreed

LEMMA Noticed ==
  ASSUME TypeOK, AgentsKnowTheRoute, NEW i \in 0..MaxRecord, claimed, premium' = i, NotifyRoute(i)
  PROVE  Agreed
<1>1. Route(i) \in Routes
  BY DEF Route, Routes
<1> QED BY <1>1 DEF Agreed, NotifyRoute, AgentsKnowTheRoute, TypeOK

LEMMA RemovedGoes ==
  ASSUME IInv, Running, Removed
  PROVE  Going /\ Agreed
<1>1. Going
  BY SettleGoes DEF IInv, Removed
<1>2. CASE run.for = "disable" /\ claimed
  BY <1>1, <1>2, Noticed, Constants DEF Removed, IInv
<1>3. CASE ~(run.for = "disable" /\ claimed)
  BY <1>1, <1>3, Unnoticed DEF Removed, IInv
<1> QED BY <1>2, <1>3

LEMMA GrantGoes ==
  ASSUME IInv, Running, NEW i \in Records, Grant(i)
  PROVE  Going /\ Agreed
<1>1. CASE claimed /\ premium' = i /\ NotifyRoute(i) /\ Settle
  BY <1>1, SettleGoes, Noticed, Constants DEF IInv
<1>2. CASE ~claimed /\ Unpoint(i, "undo") /\ UNCHANGED <<premium, told>>
  <2>1. "undo" \in Purposes /\ i \in 0..MaxRecord /\ queue # << >>
    BY Constants DEF Purposes, IInv, RunQueued
  <2> QED BY <1>2, <2>1, UnpointGoes, Unnoticed DEF IInv
<1> QED BY <1>1, <1>2 DEF Grant

\* What a call does to the zone: nothing, or one record of the relay's made where it has
\* none, put right, or deleted.
Zoned == zone' \in [Records -> Contents] /\ made' \in 0..MaxRecord /\ posted' \subseteq Records
         /\ Unmade' /\ Posted' /\ Single'

LEMMA ZoneKept ==
  ASSUME IInv, UNCHANGED <<zone, made, posted>>
  PROVE  Zoned
BY DEF IInv, TypeOK, Zoned, Unmade, Posted, Single

LEMMA ZoneMade ==
  ASSUME IInv, Makes
  PROVE  Zoned /\ made + 1 \in Records
<1>0. posted = {} /\ made \in 0..MaxRecord
  BY DEF Makes, IInv, TypeOK, Aimed
<1>1. /\ made + 1 \in Records /\ made' = made + 1 /\ made' \in 0..MaxRecord
      /\ zone' = [zone EXCEPT ![made + 1] = "ours"] /\ posted' = {made + 1}
  BY <1>0, Constants DEF Makes, NewRecord
<1>2. zone' \in [Records -> Contents] /\ zone'[made + 1] = "ours"
      /\ \A i \in Records : i # made + 1 => zone'[i] = zone[i]
  BY <1>1 DEF IInv, TypeOK, Contents
<1>3. Unmade'
  BY <1>1, <1>2, Constants DEF IInv, TypeOK, Unmade
<1> QED BY <1>1, <1>2, <1>3 DEF Zoned, Posted, Single

LEMMA ZoneChanged ==
  ASSUME IInv, Changes
  PROVE  Zoned /\ run.id \in Records
<1> DEFINE c == IF run.at = "retarget" THEN "ours" ELSE "none"
<1>1. /\ run.id \in Records /\ zone[run.id] # "none" /\ zone' = [zone EXCEPT ![run.id] = c]
      /\ posted' = (IF run.at = "retarget" THEN posted ELSE posted \ {run.id}) /\ made' = made
  BY DEF Changes, IInv, Aimed
<1>2. zone' \in [Records -> Contents] /\ zone'[run.id] = c /\ \A j \in Records : j # run.id => zone'[j] = zone[j]
  BY <1>1 DEF IInv, TypeOK, Contents
<1>3. Unmade'
  BY <1>1, <1>2 DEF IInv, Unmade
<1>4. posted' \subseteq posted /\ posted \subseteq Records /\ (c = "none" => run.id \notin posted')
  BY <1>1 DEF IInv, TypeOK
<1>5. Posted' /\ Single'
  BY <1>2, <1>4 DEF IInv, Posted, Single
<1> QED BY <1>1, <1>2, <1>3, <1>4, <1>5 DEF IInv, TypeOK, Zoned

LEMMA Together ==
  ASSUME IInv, Going, Agreed, Zoned, claimed' = claimed, troubled' \in {"no", "some", "stopped"},
         taken' \subseteq Records, edits' \in 0..MaxEdits
  PROVE  IInv'
<1>1. TypeOK'
  BY DEF IInv, TypeOK, Going, Agreed, Zoned, Runs
<1> QED BY <1>1 DEF IInv, Going, Agreed, Zoned

-----------------------------------------------------------------------------
(* The steps of an operation.                                              *)

LEMMA Rests ==
  ASSUME IInv, UNCHANGED <<premium, told>>
  PROVE  Agreed
BY Unnoticed DEF IInv

LEMMA StartInv ==
  ASSUME IInv, Start
  PROVE  IInv'
<1>1. ~Running /\ queue # << >> /\ Begin(Head(queue)) /\ UNCHANGED <<claimed, premium, zone, made, told, edits, ghosts>>
  BY DEF Start
<1>2. Zoned
  BY <1>1, ZoneKept DEF ghosts
<1>3. TypeOK /\ RunQueued /\ Head(queue) \in Ops /\ premium \in 0..MaxRecord
  <2>1. TypeOK /\ RunQueued /\ queue \in Seq(Ops) /\ premium \in 0..MaxRecord
    BY DEF IInv, TypeOK
  <2> QED BY <1>1, <2>1
<1>4. Going
  <2>1. CASE Await("find", 0, {}, "none")
    BY <1>1, <1>3, <2>1, AwaitGoes, Constants DEF Calls, Purposes
  <2>2. CASE Unpoint(premium, "disable")
    BY <1>1, <1>3, <2>2, UnpointGoes DEF Purposes
  <2>3. CASE Unpoint(Head(queue).id, "drop")
    <3>1. Head(queue).id \in 0..MaxRecord
      BY <1>3 DEF Ops
    <3> QED BY <1>1, <1>3, <2>3, <3>1, UnpointGoes DEF Purposes
  <2>4. CASE Settle
    BY <1>1, <1>3, <2>4, SettleGoes
  <2> QED BY <1>1, <2>1, <2>2, <2>3, <2>4 DEF Begin
<1>5. Agreed
  BY <1>1, Rests
<1>6. troubled' \in {"no", "some", "stopped"} /\ taken' \subseteq Records /\ edits' \in 0..MaxEdits
  BY <1>1, <1>3 DEF TypeOK, ghosts
<1> QED BY <1>1, <1>2, <1>4, <1>5, <1>6, Together

LEMMA FoundGoes ==
  ASSUME IInv, Running, Found, UNCHANGED <<zone, posted>>
  PROVE  Going /\ Agreed
<1>1. TypeOK /\ RunQueued /\ queue # << >>
  BY DEF IInv, RunQueued
<1>2. CASE Theirs # {} /\ Fail /\ UNCHANGED <<premium, told>>
  BY <1>1, <1>2, SettleGoes, Rests DEF Fail
<1>3. ASSUME NEW i \in Owned, zone[i] = "ours" /\ Grant(i)
      PROVE  Going /\ Agreed
  BY <1>3, GrantGoes DEF Owned
<1>4. ASSUME NEW i \in Owned, Await("retarget", i, {}, "none") /\ UNCHANGED <<premium, told>>
      PROVE  Going /\ Agreed
  <2>1. i \in Records /\ i \in 0..MaxRecord /\ zone'[i] # "theirs"
    BY Constants DEF Owned
  <2>2. Going
    BY <1>1, <1>4, <2>1, AwaitGoes DEF Calls, Purposes
  <2> QED BY <1>4, <2>2, Rests
<1>5. CASE Theirs \cup Owned = {} /\ Await("make", 0, {}, "none") /\ UNCHANGED <<premium, told>>
  <2>1. \A i \in Records : zone[i] = "none"
    BY <1>1, <1>5 DEF TypeOK, Contents, Theirs, Owned
  <2>2. posted' = {}
    BY <2>1 DEF IInv, TypeOK, Posted
  <2>3. Going
    BY <1>1, <1>5, <2>2, AwaitGoes, Constants DEF Calls, Purposes
  <2> QED BY <1>5, <2>3, Rests
<1> QED BY <1>2, <1>3, <1>4, <1>5 DEF Found

LEMMA ReadGoes ==
  ASSUME IInv, run.at = "read", Read, UNCHANGED <<premium, told, zone, posted>>
  PROVE  Going /\ Agreed
<1>1. /\ TypeOK /\ RunQueued /\ Running /\ queue # << >>
      /\ run.for \in Purposes /\ run.id \in 0..MaxRecord /\ run.id \in Records
  BY DEF IInv, RunQueued, Running, TypeOK, Aimed
<1>2. Going
  <2>1. CASE Fail
    BY <1>1, <2>1, SettleGoes DEF Fail
  <2>2. CASE run.id \in Owned /\ Await("delete", run.id, {}, run.for)
    BY <1>1, <2>2, AwaitGoes DEF Calls, Owned
  <2>3. CASE Await("sweep", 0, {}, run.for)
    BY <1>1, <2>3, AwaitGoes, Constants DEF Calls
  <2> QED BY <2>1, <2>2, <2>3 DEF Read
<1> QED BY <1>2, Rests

LEMMA SweepGoes ==
  ASSUME IInv, Running, NEW todo \in SUBSET Records, SweepOn(todo),
         \A j \in todo : zone'[j] = "theirs" => j \in taken' \/ run'.at # "deleteNext"
  PROVE  Going /\ Agreed
<1>1. TypeOK /\ queue # << >> /\ run.for \in Purposes
  BY DEF IInv, RunQueued, TypeOK
<1>2. CASE todo = {} /\ Removed
  BY <1>2, RemovedGoes
<1>3. ASSUME NEW i \in todo, Await("deleteNext", i, todo, run.for) /\ UNCHANGED <<premium, told>>
      PROVE  Going /\ Agreed
  <2>1. i \in Records /\ i \in 0..MaxRecord /\ run'.at = "deleteNext"
    BY <1>3, Constants DEF Await
  <2>2. \A j \in todo : zone'[j] = "theirs" => j \in taken'
    BY <2>1
  <2>3. Going
    BY <1>1, <1>3, <2>1, <2>2, AwaitGoes DEF Calls
  <2> QED BY <1>3, <2>3, Rests
<1> QED BY <1>2, <1>3 DEF SweepOn

LEMMA LooksGoes ==
  ASSUME IInv, Looks
  PROVE  Going /\ Agreed /\ Zoned
<1>1. UNCHANGED <<zone, made, posted>> /\ taken' = {}
  BY DEF Looks, Idles
<1>2. CASE run.at = "find" /\ Found
  BY <1>1, <1>2, FoundGoes, ZoneKept DEF Running
<1>3. CASE run.at = "read" /\ Read /\ UNCHANGED <<premium, told>>
  BY <1>1, <1>3, ReadGoes, ZoneKept
<1>4. CASE run.at = "sweep" /\ SweepOn(Owned)
  <2>1. Owned \in SUBSET Records /\ \A j \in Owned : zone'[j] # "theirs"
    BY <1>1 DEF Owned
  <2> QED BY <1>1, <1>4, <2>1, SweepGoes, ZoneKept DEF Running
<1> QED BY <1>2, <1>3, <1>4 DEF Looks

LEMMA WritesGoes ==
  ASSUME IInv, Writes
  PROVE  Going /\ Agreed /\ Zoned
<1>1. CASE Makes /\ Grant(made + 1)
  <2>1. Running /\ Zoned /\ made + 1 \in Records
    BY <1>1, ZoneMade DEF Makes, Running
  <2> QED BY <1>1, <2>1, GrantGoes
<1>2. CASE Changes /\ (run.at = "retarget" => Grant(run.id)) /\ (run.at = "delete" => Removed)
           /\ (run.at = "deleteNext" => SweepOn(run.todo \ {run.id}))
  <2>1. Running /\ Zoned /\ run.id \in Records
    BY <1>2, ZoneChanged DEF Changes, Running
  <2>2. CASE run.at = "deleteNext"
    <3>1. run.todo \ {run.id} \in SUBSET Records /\ SweepOn(run.todo \ {run.id})
      BY <1>2, <2>2 DEF IInv, TypeOK
    <3>2. \A j \in run.todo \ {run.id} : zone'[j] = zone[j]
      BY <1>2, <3>1 DEF Changes, IInv, TypeOK
    <3>3. \A j \in run.todo \ {run.id} : zone'[j] = "theirs" => j \in taken' \/ run'.at # "deleteNext"
      BY <2>2, <3>2 DEF IInv, Aimed, Writes
    <3> QED BY <2>1, <3>1, <3>3, SweepGoes
  <2> QED BY <1>2, <2>1, <2>2, GrantGoes, RemovedGoes DEF Changes
<1>3. CASE run.at \in {"retarget", "delete", "deleteNext"} /\ Fail /\ Idles /\ UNCHANGED <<premium, told>>
  BY <1>3, SettleGoes, Rests, ZoneKept DEF IInv, Fail, Idles, Running
<1> QED BY <1>1, <1>2, <1>3 DEF Writes

LEMMA CallFailsZone ==
  ASSUME IInv, CallFails
  PROVE  Zoned
BY ZoneKept, ZoneMade, ZoneChanged DEF CallFails, Idles

LEMMA ProviderInv ==
  ASSUME IInv, Provider
  PROVE  IInv'
<1>1. claimed' = claimed /\ edits' = edits /\ edits \in 0..MaxEdits /\ taken \subseteq Records
      /\ troubled \in {"no", "some", "stopped"}
  BY DEF Provider, IInv, TypeOK
<1>2. CASE Answered
  <2>1. Going /\ Agreed /\ Zoned
    BY <1>2, LooksGoes, WritesGoes DEF Answered
  <2>2. taken' \subseteq Records /\ troubled' = troubled
    BY <1>1, <1>2 DEF Answered, Looks, Writes
  <2> QED BY <1>1, <2>1, <2>2, Together
<1>3. CASE CallFails
  <2>1. Going
    BY <1>3, SettleGoes DEF CallFails, Fail, IInv
  <2>2. Agreed
    BY <1>3, Rests DEF CallFails
  <2>3. troubled' \in {"no", "some", "stopped"} /\ taken' = {}
    BY <1>3 DEF CallFails, Trouble
  <2> QED BY <1>1, <1>3, <2>1, <2>2, <2>3, CallFailsZone, Together
<1> QED BY <1>2, <1>3 DEF Provider

-----------------------------------------------------------------------------
(* Everybody else.                                                         *)

\* The queue grows at its end; what runs goes on.
LEMMA Longer ==
  ASSUME IInv, NEW o \in Ops, queue' = Append(queue, o), run' = run, zone' = zone, posted' = posted, taken' = taken
  PROVE  Going
<1>1. queue' \in Seq(Ops) /\ queue' # << >>
  BY DEF IInv, TypeOK
<1> QED BY <1>1 DEF IInv, TypeOK, Runs, Going, RunQueued, Running, Aimed

LEMMA Same ==
  ASSUME IInv, queue' = queue, run' = run, zone' = zone, posted' = posted, taken' = taken
  PROVE  Going
BY DEF IInv, TypeOK, Runs, Going, RunQueued, Running, Aimed

LEMMA EnqueueGoes ==
  ASSUME IInv, NEW op \in {"enable", "disable", "drop"}, NEW i \in 0..MaxRecord, Enqueue(op, i),
         run' = run, zone' = zone, posted' = posted, taken' = taken
  PROVE  Going
<1>1. PICK w \in {FALSE, ~Watched} : queue' = Append(queue, [op |-> op, id |-> i, watched |-> w])
  BY DEF Enqueue
<1>2. w \in BOOLEAN
  BY Zenon
<1>3. [op |-> op, id |-> i, watched |-> w] \in Ops
  BY <1>2 DEF Ops
<1> QED BY <1>1, <1>3, Longer

LEMMA Typed ==
  ASSUME IInv, Going, Zoned, claimed' \in BOOLEAN, troubled' \in {"no", "some", "stopped"}, premium' \in 0..MaxRecord,
         taken' \subseteq Records, edits' \in 0..MaxEdits,
         ~claimed' => premium' = 0, told' \in [Agents -> Routes \cup {"none"}], AgentsKnowTheRoute'
  PROVE  IInv'
<1>1. TypeOK'
  BY DEF TypeOK, Going, Zoned, Runs
<1> QED BY <1>1 DEF IInv, Going, Zoned

LEMMA ToggleInv ==
  ASSUME IInv, Toggle("enable") \/ Toggle("disable")
  PROVE  IInv'
<1>1. /\ Enqueue("enable", 0) \/ Enqueue("disable", 0)
      /\ UNCHANGED <<claimed, premium, zone, made, run, told, edits, ghosts>>
  BY DEF Toggle
<1>2. Going
  BY <1>1, EnqueueGoes, Constants DEF ghosts
<1>3. Agreed /\ Zoned
  BY <1>1, Rests, ZoneKept DEF ghosts
<1> QED BY <1>1, <1>2, <1>3, Together DEF IInv, TypeOK, ghosts

LEMMA ReleaseInv ==
  ASSUME IInv, Release
  PROVE  IInv'
<1>1. /\ claimed' = FALSE /\ premium' = 0 /\ told' = [a \in Agents |-> "none"]
      /\ UNCHANGED <<zone, made, run, edits, ghosts>> /\ DropPremiumDns /\ premium \in 0..MaxRecord
  BY DEF Release, IInv, TypeOK
<1>2. Going
  BY <1>1, EnqueueGoes, Same DEF DropPremiumDns, ghosts
<1>3. Zoned
  BY <1>1, ZoneKept DEF ghosts
<1>4. premium' \in 0..MaxRecord /\ told' \in [Agents -> Routes \cup {"none"}] /\ AgentsKnowTheRoute'
  BY <1>1, Constants DEF AgentsKnowTheRoute
<1> QED BY <1>1, <1>2, <1>3, <1>4, Typed DEF IInv, TypeOK, ghosts

LEMMA AdmitInv ==
  ASSUME IInv, NEW a \in Agents, Admit(a)
  PROVE  IInv'
<1>1. /\ claimed' = TRUE /\ told' = [told EXCEPT ![a] = Route(premium)]
      /\ UNCHANGED <<premium, zone, made, queue, run, edits, ghosts>>
  BY DEF Admit
<1>2. Route(premium) \in Routes /\ Route(premium') = Route(premium)
  BY <1>1 DEF Route, Routes
<1>3. told' \in [Agents -> Routes \cup {"none"}] /\ AgentsKnowTheRoute'
  BY <1>1, <1>2 DEF IInv, TypeOK, AgentsKnowTheRoute
<1> QED BY <1>1, <1>3, Same, ZoneKept, Typed DEF IInv, TypeOK, ghosts

LEMMA LeaveInv ==
  ASSUME IInv, NEW a \in Agents, Leave(a)
  PROVE  IInv'
<1>1. /\ told' = [told EXCEPT ![a] = "none"]
      /\ UNCHANGED <<claimed, premium, zone, made, queue, run, edits, ghosts>>
  BY DEF Leave
<1>2. told' \in [Agents -> Routes \cup {"none"}] /\ AgentsKnowTheRoute'
  BY <1>1 DEF IInv, TypeOK, AgentsKnowTheRoute, Route
<1> QED BY <1>1, <1>2, Same, ZoneKept, Typed DEF IInv, TypeOK, ghosts

LEMMA StopInv ==
  ASSUME IInv, Stop
  PROVE  IInv'
<1>1. /\ queue' = << >> /\ run' = NoRun /\ told' = [a \in Agents |-> "none"] /\ troubled' = "stopped" /\ taken' = {}
      /\ UNCHANGED <<claimed, premium, zone, made, edits, posted>>
  BY DEF Stop
<1>2. Going
  BY <1>1, Constants DEF Going, RunQueued, Running, Aimed, NoRun
<1>3. told' \in [Agents -> Routes \cup {"none"}] /\ AgentsKnowTheRoute'
  BY <1>1 DEF AgentsKnowTheRoute
<1> QED BY <1>1, <1>2, <1>3, ZoneKept, Typed DEF IInv, TypeOK

\* What the operator makes his own while an operation is about to write is in `taken`.
LEMMA HandInv ==
  ASSUME IInv, Hand
  PROVE  IInv'
<1>1. /\ edits' \in 0..MaxEdits /\ troubled' \in {"no", "some", "stopped"}
      /\ UNCHANGED <<claimed, premium, queue, run, told>>
  BY Constants DEF Hand, Trouble, IInv, TypeOK
<1>2. Agreed
  BY <1>1, Rests
<1>3. /\ TypeOK /\ Aimed /\ Unmade /\ Posted /\ Single /\ RunQueued
      /\ zone \in [Records -> Contents] /\ posted \subseteq Records /\ taken \subseteq Records
  BY DEF IInv, TypeOK
<1>4. ASSUME zone' \in [Records -> Contents], posted' \subseteq posted, taken' \subseteq Records,
             Writing => \A j \in Records : zone'[j] = "theirs" => j \in taken' \/ (zone[j] = "theirs" /\ j \notin taken)
      PROVE  Going
  <2>1. run' = run /\ queue' = queue /\ run \in Runs /\ queue \in Seq(Ops) /\ run.todo \subseteq Records
    BY <1>1, <1>3 DEF TypeOK, Runs
  <2>2. RunQueued'
    BY <1>1, <1>3 DEF RunQueued, Running
  <2>3. Aimed'
    BY <1>3, <1>4, <2>1 DEF Aimed, Writing
  <2> QED BY <2>1, <2>2, <2>3 DEF Going
<1>5. CASE /\ made + 1 < MaxRecord /\ NewRecord("theirs")
           /\ taken' = (IF Writing THEN taken \cup {made + 1} ELSE {})
           /\ UNCHANGED posted
  <2>1. made + 1 \in Records /\ made' = made + 1 /\ zone' = [zone EXCEPT ![made + 1] = "theirs"] /\ made' \in 0..MaxRecord
    BY <1>5, Constants DEF NewRecord, IInv, TypeOK
  <2>2. zone' \in [Records -> Contents] /\ zone'[made + 1] = "theirs"
        /\ \A i \in Records : i # made + 1 => zone'[i] = zone[i]
    BY <1>3, <2>1 DEF Contents
  <2>3. Unmade'
    BY <1>3, <2>1, <2>2, Constants DEF TypeOK, Unmade
  <2>4. Zoned
    BY <1>3, <1>5, <2>1, <2>2, <2>3 DEF Zoned, Single, Posted
  <2>5. Going
    BY <1>3, <1>4, <1>5, <2>1, <2>2
  <2> QED BY <1>1, <1>2, <1>3, <1>5, <2>1, <2>4, <2>5, Together
<1>6. ASSUME NEW i \in Records, NEW c \in Contents, zone[i] # "none",
             zone' = [zone EXCEPT ![i] = c], made' = made,
             taken' = (IF Writing /\ c = "theirs" THEN taken \cup {i} ELSE taken \ {i}),
             posted' = (IF c = "none" THEN posted \ {i} ELSE posted)
      PROVE  IInv'
  <2>1. zone' \in [Records -> Contents] /\ zone'[i] = c /\ \A j \in Records : j # i => zone'[j] = zone[j]
    BY <1>3, <1>6
  <2>2. Unmade'
    BY <1>3, <1>6, <2>1 DEF Unmade
  <2>3. posted' \subseteq posted /\ (c = "none" => i \notin posted') /\ taken' \subseteq Records
    BY <1>3, <1>6
  <2>4. Posted' /\ Single'
    BY <1>3, <2>1, <2>3 DEF Posted, Single
  <2>5. Zoned
    BY <1>3, <1>6, <2>1, <2>2, <2>3, <2>4 DEF Zoned, TypeOK
  <2>6. Going
    BY <1>3, <1>4, <1>6, <2>1, <2>3
  <2> QED BY <1>1, <1>2, <2>3, <2>5, <2>6, Together
<1> QED BY <1>5, <1>6 DEF Hand

LEMMA NextInv == IInv /\ [Next]_vars => IInv'
<1> SUFFICES ASSUME IInv, [Next]_vars PROVE IInv'
  OBVIOUS
<1>1. CASE UNCHANGED vars
  BY <1>1, Same, ZoneKept, Rests, Together DEF vars, ghosts, IInv, TypeOK
<1> QED BY <1>1, StartInv, ProviderInv, ToggleInv, ReleaseInv, AdmitInv, LeaveInv, StopInv, HandInv DEF Next

-----------------------------------------------------------------------------
(* Nothing left behind.                                                    *)

\* Without trouble every record is as the relay made it, there is one at most, and what
\* the running operation is about to write is as it saw it.
Clean == \A i \in Records : zone[i] \in {"none", "ours"}
Lone  == \A i, j \in Owned : i = j
Looked ==
  /\ run.at = "make" => Owned = {}
  /\ run.at \in {"retarget", "delete", "deleteNext"} => run.id \in Owned
  /\ run.at = "deleteNext" => run.todo \subseteq Owned

\* While nothing runs, a record that no assignment stands for has its removal queued.
Accounted ==
  Owned # {} /\ premium = 0 /\ ~Running => \E j \in DOMAIN queue : queue[j].op = "drop"

Tidy    == Clean /\ Lone /\ Looked /\ Accounted
LeftInv == troubled = "no" => Tidy

LEMMA UnpointRuns ==
  ASSUME NEW i, NEW p, Unpoint(i, p)
  PROVE  Running'
BY DEF Unpoint, Await, Running

\* After a call that leaves the record in place, the route stands for it or the operation
\* goes on to remove it.
LEMMA GrantCovers ==
  ASSUME NEW i \in Records, Grant(i)
  PROVE  (premium' # 0 \/ Running') /\ Looked'
<1>1. CASE premium' = i /\ Settle
  BY <1>1, Constants DEF Settle, NoRun, Looked
<1>2. CASE Unpoint(i, "undo")
  BY <1>2, UnpointRuns DEF Unpoint, Await, Looked
<1> QED BY <1>1, <1>2 DEF Grant

LEMMA SweepCovers ==
  ASSUME NEW todo, SweepOn(todo), todo \subseteq Owned'
  PROVE  (todo = {} \/ Running') /\ Looked'
BY DEF SweepOn, Removed, Await, Settle, NoRun, Running, Looked

LEMMA LooksLeft ==
  ASSUME IInv, Tidy, Looks
  PROVE  Tidy'
<1>1. zone' = zone /\ zone \in [Records -> Contents] /\ Theirs = {} /\ Owned = {i \in Records : zone[i] = "ours"}
      /\ Owned' = Owned /\ Clean' /\ Lone'
  BY DEF IInv, TypeOK, Tidy, Clean, Theirs, Owned, Looks, Idles, Lone
<1>2. ASSUME premium' # 0 \/ Running' \/ Owned = {}, Looked' PROVE Tidy'
  BY <1>1, <1>2 DEF Accounted, Tidy
<1>3. CASE run.at = "find" /\ Found
  <2>1. ASSUME NEW i \in Owned, Grant(i) PROVE Tidy'
    BY <1>2, <2>1, GrantCovers DEF Owned
  <2>2. CASE Theirs \cup Owned = {} /\ Await("make", 0, {}, "none")
    <3>1. Running' /\ Looked'
      BY <1>1, <2>2 DEF Await, Running, Looked
    <3> QED BY <1>2, <3>1
  <2> QED BY <1>1, <1>3, <2>1, <2>2 DEF Found
<1>4. CASE run.at = "read" /\ Read
  <2>1. run.id \in Records /\ zone[run.id] # "theirs"
    BY <1>4 DEF IInv, Aimed, Tidy, Clean
  <2>2. Running' /\ Looked'
    BY <1>1, <1>4, <2>1 DEF Read, Await, Running, Looked
  <2> QED BY <1>2, <2>2
<1>5. CASE run.at = "sweep" /\ SweepOn(Owned)
  BY <1>1, <1>2, <1>5, SweepCovers
<1> QED BY <1>3, <1>4, <1>5 DEF Looks

\* A record that is there is changed, and the operation goes on as its call says.
LEMMA WritesOne ==
  ASSUME Writes, Changes
  PROVE  /\ run.at = "retarget" => Grant(run.id)
         /\ run.at = "delete" => Removed
         /\ run.at = "deleteNext" => SweepOn(run.todo \ {run.id})
<1>1. run.at \in {"retarget", "delete", "deleteNext"} /\ zone[run.id] # "none"
  BY DEF Changes
<1>2. ~Makes
  BY <1>1 DEF Makes
<1> QED BY <1>1, <1>2 DEF Writes

LEMMA WritesLeft ==
  ASSUME IInv, Tidy, Writes
  PROVE  Tidy'
<1>1. zone \in [Records -> Contents] /\ Owned = {i \in Records : zone[i] = "ours"} /\ \A i, j \in Owned : i = j
  BY DEF IInv, TypeOK, Tidy, Clean, Owned, Lone
<1>2. ASSUME Clean', Lone', Looked', premium' # 0 \/ Running' \/ Owned' = {} PROVE Tidy'
  BY <1>2 DEF Accounted, Tidy
<1>3. CASE Makes /\ Grant(made + 1)
  <2>1. made + 1 \in Records
    BY <1>3, ZoneMade
  <2>2. zone' = [zone EXCEPT ![made + 1] = "ours"] /\ Owned = {}
    BY <1>3 DEF Makes, NewRecord, Tidy, Looked
  <2>3. Clean' /\ Lone'
    BY <1>1, <2>2 DEF Tidy, Clean, Lone, Owned
  <2> QED BY <1>2, <1>3, <2>1, <2>3, GrantCovers
<1>4. CASE Changes /\ run.at = "retarget" /\ Grant(run.id)
  <2>1. run.id \in Records /\ zone' = [zone EXCEPT ![run.id] = "ours"] /\ zone[run.id] = "ours"
    BY <1>1, <1>4 DEF Changes, Tidy, Looked
  <2>2. Clean' /\ Lone'
    BY <1>1, <2>1 DEF Tidy, Clean, Lone, Owned
  <2> QED BY <1>2, <1>4, <2>1, <2>2, GrantCovers
<1>5. CASE Changes /\ run.at \in {"delete", "deleteNext"}
  <2>1. run.id \in Owned /\ zone' = [zone EXCEPT ![run.id] = "none"]
    BY <1>5 DEF Changes, Tidy, Looked
  <2>2. Clean' /\ Owned' = {} /\ Lone'
    BY <1>1, <2>1 DEF Tidy, Clean, Lone, Owned
  <2>3. Looked'
    <3>1. CASE run.at = "delete"
      <4>1. Removed
        BY <1>5, <3>1, WritesOne
      <4> QED BY <4>1 DEF Removed, Settle, NoRun, Looked
    <3>2. CASE run.at = "deleteNext"
      <4>1. SweepOn(run.todo \ {run.id})
        BY <1>5, <3>2, WritesOne
      <4>2. run.todo \ {run.id} = {}
        BY <1>1, <2>1, <3>2 DEF Tidy, Looked
      <4> QED BY <4>1, <4>2, SweepCovers
    <3> QED BY <1>5, <3>1, <3>2
  <2> QED BY <1>2, <2>2, <2>3
\* The record the operation is about to write is there.
<1>6. CASE run.at \in {"retarget", "delete", "deleteNext"} /\ zone[run.id] = "none"
  BY <1>1, <1>6 DEF Tidy, Looked
<1>7. CASE Changes
  BY <1>4, <1>5, <1>7, WritesOne DEF Changes
<1> QED BY <1>3, <1>6, <1>7 DEF Writes

\* The first operation runs, or was not a removal.
LEMMA StartLeft ==
  ASSUME IInv, Tidy, Start
  PROVE  Tidy'
<1>1. /\ ~Running /\ queue # << >> /\ Begin(Head(queue))
      /\ UNCHANGED <<claimed, premium, zone, made, told, edits, ghosts>>
  BY DEF Start
<1>2. Clean' /\ Owned' = Owned /\ Lone'
  BY <1>1 DEF Tidy, Clean, Lone, Owned
<1>3. ASSUME Running', Looked' PROVE Tidy'
  BY <1>2, <1>3 DEF Tidy, Accounted
<1>4. CASE Await("find", 0, {}, "none") \/ Unpoint(premium, "disable") \/ Unpoint(Head(queue).id, "drop")
  <2>1. Running' /\ Looked'
    BY <1>4, UnpointRuns DEF Unpoint, Await, Running, Looked
  <2> QED BY <1>3, <2>1
<1>5. CASE Settle /\ Head(queue).op # "drop"
  <2>1. queue' = Tail(queue) /\ queue \in Seq(Ops)
    BY <1>5 DEF Settle, IInv, TypeOK
  <2>2. ASSUME NEW j \in DOMAIN queue, queue[j].op = "drop"
        PROVE  \E i \in DOMAIN queue' : queue'[i].op = "drop"
    <3>1. queue[1] = Head(queue) /\ j \in 1..Len(queue) /\ j # 1
      BY <1>1, <1>5, <2>1, <2>2
    <3>2. j - 1 \in DOMAIN Tail(queue) /\ Tail(queue)[j - 1] = queue[j]
      BY <1>1, <2>1, <3>1
    <3> QED BY <2>1, <2>2, <3>2
  <2>3. Looked'
    BY <1>5 DEF Settle, NoRun, Looked
  <2> QED BY <1>1, <1>2, <2>2, <2>3 DEF Tidy, Accounted
<1> QED BY <1>1, <1>4, <1>5 DEF Begin

\* The queue grows at its end.
LEMMA LongerLeft ==
  ASSUME IInv, Tidy, NEW op \in {"enable", "disable", "drop"}, NEW i \in 0..MaxRecord, Enqueue(op, i),
         run' = run, zone' = zone, premium' = premium \/ op = "drop"
  PROVE  Tidy'
<1>1. PICK w \in {FALSE, ~Watched} : queue' = Append(queue, [op |-> op, id |-> i, watched |-> w])
  BY DEF Enqueue
<1>2. /\ DOMAIN queue' = 1..(Len(queue) + 1) /\ DOMAIN queue = 1..Len(queue) /\ Len(queue) \in Nat
      /\ queue'[Len(queue) + 1].op = op /\ \A j \in 1..Len(queue) : queue'[j] = queue[j]
  BY <1>1 DEF IInv, TypeOK
<1>3. Clean' /\ Lone' /\ Looked' /\ Owned' = Owned /\ Running' = Running
  BY DEF Tidy, Clean, Lone, Looked, Owned, Running
<1>4. ASSUME NEW j \in DOMAIN queue, queue[j].op = "drop"
      PROVE  \E k \in DOMAIN queue' : queue'[k].op = "drop"
  BY <1>2, <1>4
<1>5. CASE premium' = premium
  BY <1>3, <1>4, <1>5 DEF Tidy, Accounted
<1>6. CASE op = "drop"
  <2>1. Len(queue) + 1 \in DOMAIN queue' /\ queue'[Len(queue) + 1].op = "drop"
    BY <1>2, <1>6
  <2> QED BY <1>3, <2>1 DEF Tidy, Accounted
<1> QED BY <1>5, <1>6

LEMMA SameLeft ==
  ASSUME Tidy, UNCHANGED <<premium, zone, queue, run>>
  PROVE  Tidy'
BY DEF Tidy, Clean, Lone, Looked, Accounted, Owned, Running

LEMMA NextLeft == IInv /\ LeftInv /\ [Next]_vars => LeftInv'
<1> SUFFICES ASSUME IInv, LeftInv, [Next]_vars, troubled' = "no" PROVE Tidy'
  BY DEF LeftInv
<1>1. ASSUME troubled' = troubled PROVE Tidy
  BY <1>1 DEF LeftInv
<1>2. CASE Start
  BY <1>1, <1>2, StartLeft DEF Start, ghosts
<1>3. CASE Provider
  <2>1. Answered /\ troubled' = troubled
    BY <1>3 DEF Provider, CallFails, Trouble, Answered
  <2> QED BY <1>1, <2>1, LooksLeft, WritesLeft DEF Answered
<1>4. CASE Toggle("enable") \/ Toggle("disable")
  BY <1>1, <1>4, LongerLeft, Constants DEF Toggle, ghosts
<1>5. CASE Release
  <2>1. UNCHANGED <<zone, run, troubled>> /\ premium' = 0 /\ DropPremiumDns /\ premium \in 0..MaxRecord
    BY <1>5 DEF Release, ghosts, IInv, TypeOK
  <2>2. CASE premium = 0
    BY <1>1, <2>1, <2>2, SameLeft DEF DropPremiumDns
  <2>3. CASE premium # 0
    BY <1>1, <2>1, <2>3, LongerLeft DEF DropPremiumDns
  <2> QED BY <2>2, <2>3
<1>6. CASE (\E a \in Agents : Admit(a) \/ Leave(a)) \/ UNCHANGED vars
  BY <1>1, <1>6, SameLeft DEF Admit, Leave, vars, ghosts
<1>7. CASE Stop \/ Hand
  BY <1>7 DEF Stop, Hand, Trouble
<1> QED BY <1>2, <1>3, <1>4, <1>5, <1>6, <1>7 DEF Next

-----------------------------------------------------------------------------
(* The theorems.                                                           *)

LEMMA RouteInvariant == Spec => []IInv
BY InitInv, NextInv, PTL DEF Spec

(* The state of route, record, queue and operation is what the code makes. *)
THEOREM PremiumTypeOK == Spec => []TypeOK
<1>1. IInv => TypeOK
  BY DEF IInv
<1> QED BY <1>1, RouteInvariant, PTL

(* Every connected agent was last told the route that the claim has now.   *)
THEOREM AgentsAreTold == Spec => []AgentsKnowTheRoute
<1>1. IInv => AgentsKnowTheRoute
  BY DEF IInv
<1> QED BY <1>1, RouteInvariant, PTL

(* Whatever fails, stops or is edited by hand, whenever and however often, *)
(* of the records the relay made for the name one is there at most.        *)
THEOREM NeverTwoRecords == Spec => []OneRecord
<1>1. ASSUME IInv PROVE OneRecord
  <2>1. CASE posted = {}
    BY <2>1, FS_EmptySet DEF OneRecord
  <2>2. CASE posted # {}
    <3>1. PICK i : i \in posted
      BY <2>2
    <3>2. posted = {i}
      BY <1>1, <3>1 DEF IInv, Single
    <3>3. Cardinality({i}) = 1
      BY FS_Singleton, Zenon
    <3>4. Cardinality(posted) = 1
      BY <3>2, <3>3, Zenon
    <3> QED BY <3>4 DEF OneRecord
  <2> QED BY <2>1, <2>2
<1> QED BY <1>1, RouteInvariant, PTL

(* Whatever the operator edits before or in the middle of an operation, it *)
(* changes or deletes no record that did not carry the relay's comment when*)
(* the operation last looked (TheirsStayTheirs).                           *)
THEOREM StrangersAreSafe == Spec => TheirsStayTheirs
<1>1. ASSUME IInv, Provider, NEW i \in Theirs \ taken
      PROVE  zone'[i] = "theirs"
  <2>1. zone \in [Records -> Contents] /\ i \in Records /\ zone[i] = "theirs" /\ i <= made /\ made \in Nat
    BY <1>1 DEF IInv, TypeOK, Unmade, Theirs
  <2>2. ASSUME NewRecord("ours") PROVE zone'[i] = "theirs"
    BY <2>1, <2>2, Constants DEF NewRecord
  <2>3. ASSUME Changes PROVE zone'[i] = "theirs"
    <3>1. run.id # i /\ run.id \in Records
      BY <1>1, <2>1, <2>3 DEF IInv, Aimed, Changes
    <3> QED BY <2>1, <2>3, <3>1 DEF Changes
  <2>4. ASSUME Idles PROVE zone'[i] = "theirs"
    BY <2>1, <2>4 DEF Idles
  <2>5. Idles \/ Changes \/ NewRecord("ours")
    BY <1>1 DEF Provider, Answered, Looks, Writes, CallFails, Makes
  <2> QED BY <2>2, <2>3, <2>4, <2>5
<1>2. IInv /\ [Next]_vars => [Provider => \A i \in Theirs \ taken : zone'[i] = "theirs"]_vars
  BY <1>1
<1> QED BY <1>2, RouteInvariant, PTL DEF Spec, TheirsStayTheirs

(* Unless a call failed, the relay stopped or the operator edited the zone,*)
(* once every operation has settled a name without the premium route has no*)
(* record of the relay's left, however operations were queued.             *)
THEOREM NothingIsLeft == Spec => []NothingLeftBehind
<1>1. Init => LeftInv
  BY DEF Init, LeftInv, Tidy, Clean, Lone, Looked, Accounted, Owned, NoRun
<1>2. ASSUME IInv, LeftInv PROVE NothingLeftBehind
  <2> SUFFICES ASSUME queue = << >>, premium = 0, troubled = "no" PROVE Owned = {}
    BY DEF NothingLeftBehind, Still
  <2>1. ~Running /\ DOMAIN queue = {}
    BY <1>2 DEF IInv, RunQueued
  <2> QED BY <1>2, <2>1 DEF LeftInv, Tidy, Accounted
<1> QED BY <1>1, <1>2, NextLeft, RouteInvariant, PTL DEF Spec
=============================================================================
