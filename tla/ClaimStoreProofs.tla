-------------------------- MODULE ClaimStoreProofs --------------------------
(***************************************************************************)
(* Theorems about the claim store, the browser sessions over it and the    *)
(* admission of agents, for any sets of names, devices, callers, browsers, *)
(* sockets and peers, and any budget.                                      *)
(***************************************************************************)
EXTENDS Sessions, Registry, SequenceTheorems, FiniteSetTheorems, WellFoundedInduction, TLAPS

-----------------------------------------------------------------------------
(* The claim store: type correctness.                                      *)

LEMMA WithoutType ==
  ASSUME NEW S, NEW q \in Seq(S), NEW d
  PROVE  Without(q, d) \in Seq(S)
<1>1. CASE ~ \E i \in DOMAIN q : q[i] = d
  BY <1>1 DEF Without
<1>2. CASE \E i \in DOMAIN q : q[i] = d
  <2> DEFINE k == Place(q, d)
  <2>1. k \in 1..Len(q)
    BY <1>2 DEF Place
  <2>2. SubSeq(q, 1, k - 1) \in Seq(S)
    BY <2>1, SubSeqProperties
  <2>3. SubSeq(q, k + 1, Len(q)) \in Seq(S)
    BY <2>1, SubSeqProperties
  <2> QED BY <1>2, <2>2, <2>3 DEF Without
<1> QED BY <1>1, <1>2

LEMMA RecentType ==
  ASSUME NEW S, NEW q \in Seq(S)
  PROVE  Recent(q) \in Seq(S)
<1>1. (IF Len(q) > MaxDevices THEN Len(q) - MaxDevices + 1 ELSE 1) \in 1..(Len(q) + 1)
  BY ClaimStoreAssumption
<1> QED BY <1>1, SubSeqProperties DEF Recent

LEMMA TouchType ==
  ASSUME StoreTypeOK, NEW s \in Names, NEW d \in Devices, TouchDevice(s, d)
  PROVE  known' \in [Names -> Seq(Devices)]
<1>1. Append(Without(known[s], d), d) \in Seq(Devices)
  BY WithoutType DEF StoreTypeOK
<1>2. Recent(Append(Without(known[s], d), d)) \in Seq(Devices)
  BY <1>1, RecentType
<1> QED BY <1>2 DEF TouchDevice, StoreTypeOK

LEMMA EmptyIsSeq ==
  ASSUME NEW S PROVE << >> \in Seq(S)
OBVIOUS

\* What each action does to the variables, for the cases of the proofs below.
LEMMA InitType == StoreInit => StoreTypeOK
<1> SUFFICES ASSUME StoreInit PROVE StoreTypeOK
  OBVIOUS
<1>1. claims \in [Names -> MaybeClaim] /\ file.claims \in [Names -> MaybeClaim]
  BY DEF StoreInit, MaybeClaim
<1>2. known \in [Names -> Seq(Devices)] /\ file.known \in [Names -> Seq(Devices)]
  BY EmptyIsSeq DEF StoreInit, NoDevices
<1>3. call \in [Callers -> CallSet]
  BY DEF StoreInit, CallSet, Idle
<1>4. minted \in 0..MaxVersion
  BY ClaimStoreAssumption DEF StoreInit
<1> QED BY <1>1, <1>2, <1>3, <1>4 DEF StoreInit, StoreTypeOK

\* A write leaves a well-typed file behind, when what it writes is well typed.
LEMMA PersistType ==
  ASSUME StoreTypeOK, Persist \/ PersistLazily \/ NotPersisted,
         claims' \in [Names -> MaybeClaim], banned' \subseteq Names, known' \in [Names -> Seq(Devices)]
  PROVE  /\ lazy' \in BOOLEAN /\ behind' \in BOOLEAN
         /\ file' \in [claims : [Names -> MaybeClaim], banned : SUBSET Names, known : [Names -> Seq(Devices)]]
<1>1. CASE Persist
  <2>1. lazy' \in BOOLEAN /\ behind' \in BOOLEAN
    BY <1>1 DEF Persist, StoreTypeOK
  <2>2. banned' \in SUBSET Names
    OBVIOUS
  <2>3. CASE file' = [claims |-> claims', banned |-> banned', known |-> known']
    BY <2>1, <2>2, <2>3
  <2>4. CASE UNCHANGED file
    BY <2>1, <2>4 DEF StoreTypeOK
  <2> QED BY <1>1, <2>3, <2>4 DEF Persist
<1>2. CASE PersistLazily
  BY <1>2 DEF PersistLazily, StoreTypeOK
<1>3. CASE NotPersisted
  BY <1>3 DEF NotPersisted, StoreTypeOK
<1> QED BY <1>1, <1>2, <1>3

LEMMA CallType ==
  ASSUME NEW c \in Callers, NEW s \in Names, NEW p \in Passwords, call \in [Callers -> CallSet]
  PROVE  /\ At(c, "hashing", s, p) => call' \in [Callers -> CallSet]
         /\ At(c, "ok", s, p) => call' \in [Callers -> CallSet]
         /\ At(c, "denied", s, p) => call' \in [Callers -> CallSet]
         /\ Comparing(c, s, p) /\ claims[s] \in Claims => call' \in [Callers -> CallSet]
<1>1. [st |-> "hashing", name |-> s, pw |-> p] \in CallSet
  BY DEF CallSet
<1>2. [st |-> "ok", name |-> s, pw |-> p] \in CallSet /\ [st |-> "denied", name |-> s, pw |-> p] \in CallSet
  BY DEF CallSet
<1>3. claims[s] \in Claims => [st |-> "comparing", name |-> s, pw |-> p, seen |-> claims[s]] \in CallSet
  BY DEF CallSet
<1> QED BY <1>1, <1>2, <1>3 DEF At, Comparing

\* A call in progress has a name and a password; one that compares has a record.
LEMMA CallInProgress ==
  ASSUME StoreTypeOK, NEW c \in Callers
  PROVE  /\ call[c].st # "idle" => call[c].name \in Names /\ call[c].pw \in Passwords
         /\ call[c].st = "comparing" => call[c].seen \in Claims
<1>1. call[c] \in CallSet
  BY DEF StoreTypeOK
<1> QED BY <1>1 DEF CallSet, Idle

LEMMA CallerType ==
  ASSUME StoreTypeOK, NEW c \in Callers, Caller(c)
  PROVE  StoreTypeOK'
<1> USE DEF StoreTypeOK
<1>1. ASSUME NEW s \in Names, NEW p \in Passwords, ClaimOrVerify(c, s, p) PROVE StoreTypeOK'
  <2>1. claims[s] # NoClaim => claims[s] \in Claims
    BY DEF MaybeClaim
  <2>2. call' \in [Callers -> CallSet]
    BY <1>1, <2>1, CallType DEF ClaimOrVerify
  <2> QED BY <1>1, <2>2, PersistType DEF ClaimOrVerify, records
<1>2. CASE Hashed(c)
  <2> DEFINE s == call[c].name
             p == call[c].pw
  <2>1. s \in Names /\ p \in Passwords
    BY <1>2, CallInProgress DEF Hashed
  <2>2. CASE /\ TakenSince(s) /\ Comparing(c, s, p)
             /\ UNCHANGED <<records, minted>> /\ NotPersisted
    <3>1. claims[s] \in Claims
      BY <2>1, <2>2 DEF TakenSince, MaybeClaim
    <3>2. call' \in [Callers -> CallSet]
      BY <2>1, <2>2, <3>1, CallType
    <3> QED BY <2>2, <3>2, PersistType DEF records
  <2>3. CASE At(c, "denied", s, p) /\ UNCHANGED <<records, minted>> /\ NotPersisted
    <3>1. call' \in [Callers -> CallSet]
      BY <2>1, <2>3, CallType
    <3> QED BY <2>3, <3>1, PersistType DEF records
  <2>4. CASE NewClaim(c, s, p)
    <3>1. call' \in [Callers -> CallSet]
      BY <2>1, <2>4, CallType DEF NewClaim
    <3>2. minted' \in 1..MaxVersion
      BY <2>4, ClaimStoreAssumption DEF NewClaim
    <3>3. claims' \in [Names -> MaybeClaim]
      BY <2>1, <2>4, <3>2 DEF NewClaim, MaybeClaim, Claims
    <3> QED BY <2>4, <3>1, <3>2, <3>3, PersistType DEF NewClaim
  <2> QED BY <1>2, <2>2, <2>3, <2>4 DEF Hashed
<1>3. CASE Compared(c)
  <2>1. call[c].name \in Names /\ call[c].pw \in Passwords
    BY <1>3, CallInProgress DEF Compared
  <2>2. \/ At(c, "ok", call[c].name, call[c].pw)
        \/ At(c, "denied", call[c].name, call[c].pw)
    BY <1>3 DEF Compared
  <2>3. call' \in [Callers -> CallSet]
    BY <2>1, <2>2, CallType
  <2> QED BY <1>3, <2>3, PersistType DEF Compared, records
<1>4. CASE Return(c) /\ UNCHANGED <<records, minted>> /\ NotPersisted
  <2>1. call' \in [Callers -> CallSet]
    BY <1>4 DEF Return, CallSet
  <2> QED BY <1>4, <2>1, PersistType DEF records
<1> QED BY <1>1, <1>2, <1>3, <1>4 DEF Caller

LEMMA EventType ==
  ASSUME StoreTypeOK, Event
  PROVE  StoreTypeOK'
<1> USE DEF StoreTypeOK
<1>0. UNCHANGED call
  BY DEF Event
<1>1. ASSUME NEW s \in Names, Remove(s) \/ Ban(s) PROVE StoreTypeOK'
  <2>1. claims' \in [Names -> MaybeClaim]
    BY <1>1 DEF Remove, Ban, Erase, MaybeClaim
  <2>2. known' \in [Names -> Seq(Devices)]
    <3>1. known' = [known EXCEPT ![s] = << >>]
      BY <1>1 DEF Remove, Ban, Erase
    <3>2. << >> \in Seq(Devices)
      BY EmptyIsSeq
    <3> QED BY <3>1, <3>2
  <2>3. banned' \subseteq Names /\ minted' = minted
    BY <1>1 DEF Remove, Ban
  <2>4. Persist \/ NotPersisted
    BY <1>1 DEF Remove, Ban
  <2> QED BY <1>0, <2>1, <2>2, <2>3, <2>4, PersistType
<1>2. ASSUME NEW s \in Names, Unban(s) PROVE StoreTypeOK'
  BY <1>0, <1>2, PersistType DEF Unban
<1>3. ASSUME NEW s \in Names, NEW d \in Devices, TouchDevice(s, d) PROVE StoreTypeOK'
  <2>1. known' \in [Names -> Seq(Devices)]
    BY <1>3, TouchType
  <2> QED BY <1>0, <1>3, <2>1, PersistType DEF TouchDevice
<1>4. CASE Flush
  BY <1>0, <1>4, PersistType DEF Flush, records
<1> QED BY <1>1, <1>2, <1>3, <1>4 DEF Event

LEMMA RestartType ==
  ASSUME StoreTypeOK, Restart
  PROVE  StoreTypeOK'
BY DEF StoreTypeOK, Restart, CallSet

\* The store's variables keep their types (StoreTypeOK of the checked runs).
THEOREM TypeCorrect == StoreSpec => []StoreTypeOK
<1>1. StoreTypeOK /\ [StoreNext]_storeVars => StoreTypeOK'
  <2>1. StoreTypeOK /\ StoreNext => StoreTypeOK'
    BY CallerType, EventType, RestartType DEF StoreNext
  <2>2. StoreTypeOK /\ UNCHANGED storeVars => StoreTypeOK'
    BY DEF StoreTypeOK, storeVars, records
  <2> QED BY <2>1, <2>2
<1> QED BY <1>1, InitType, PTL DEF StoreSpec
-----------------------------------------------------------------------------
(* Safety.                                                                 *)

\* BannedIsFree is not inductive: a restart makes true whatever the file says.  Nor is
\* FileIsCurrent: releasing an unclaimed name writes nothing, which is right only as
\* long as unclaimed names have no devices.
NoStrayDevices == \A s \in Names : claims[s] = NoClaim => known[s] = << >>

Sound == BannedIsFree /\ NoStrayDevices

\* The same of what a restart would load, even if it is an old state.
FileIsSound ==
  \A s \in Names : /\ s \in file.banned => file.claims[s] = NoClaim
                   /\ file.claims[s] = NoClaim => file.known[s] = << >>

LEMMA WritesKeepSound ==
  ASSUME StoreTypeOK, FileIsSound, Sound', Persist \/ PersistLazily \/ NotPersisted
  PROVE  FileIsSound'
BY DEF StoreTypeOK, Sound, BannedIsFree, NoStrayDevices, FileIsSound, Persist, PersistLazily, NotPersisted

LEMMA CallerKeepsSound ==
  ASSUME StoreTypeOK, Sound, NEW c \in Callers, Caller(c)
  PROVE  Sound' /\ (Persist \/ NotPersisted)
<1>1. CASE UNCHANGED records /\ NotPersisted
  BY <1>1 DEF Sound, BannedIsFree, NoStrayDevices, records
<1>2. CASE /\ ~TakenSince(call[c].name) /\ ~BannedSince(call[c].name)
           /\ NewClaim(c, call[c].name, call[c].pw)
  BY <1>2 DEF NewClaim, TakenSince, BannedSince, StoreTypeOK, Sound, BannedIsFree, NoStrayDevices
<1> QED
  BY <1>1, <1>2 DEF Caller, ClaimOrVerify, Hashed, Compared, records

LEMMA EventKeepsSound ==
  ASSUME StoreTypeOK, Sound, Event
  PROVE  Sound' /\ (Persist \/ PersistLazily \/ NotPersisted)
<1> USE DEF StoreTypeOK, Sound, BannedIsFree, NoStrayDevices
<1>1. ASSUME NEW s \in Names, Remove(s) \/ Ban(s) \/ Unban(s)
      PROVE  Sound' /\ (Persist \/ NotPersisted)
  BY <1>1 DEF Remove, Ban, Unban, Erase
<1>2. ASSUME NEW s \in Names, NEW d \in Devices, TouchDevice(s, d)
      PROVE  Sound' /\ (PersistLazily \/ NotPersisted)
  BY <1>2 DEF TouchDevice
<1>3. CASE Flush
  BY <1>3 DEF Flush, records
<1> QED BY <1>1, <1>2, <1>3 DEF Event

LEMMA StepKeepsSound ==
  ASSUME StoreTypeOK, Sound, FileIsSound, [StoreNext]_storeVars
  PROVE  Sound' /\ FileIsSound'
<1>1. ASSUME NEW c \in Callers, Caller(c) PROVE Sound' /\ FileIsSound'
  BY <1>1, CallerKeepsSound, WritesKeepSound
<1>2. CASE Event
  BY <1>2, EventKeepsSound, WritesKeepSound
<1>3. CASE Restart
  BY <1>3 DEF Restart, Sound, BannedIsFree, NoStrayDevices, FileIsSound, StoreTypeOK
<1>4. CASE UNCHANGED storeVars
  BY <1>4 DEF storeVars, records, Sound, BannedIsFree, NoStrayDevices, FileIsSound
<1> QED BY <1>1, <1>2, <1>3, <1>4 DEF StoreNext

THEOREM AlwaysSound == StoreSpec => [](Sound /\ FileIsSound)
<1>1. StoreInit => Sound /\ FileIsSound
  BY DEF StoreInit, NoDevices, Sound, BannedIsFree, NoStrayDevices, FileIsSound
<1> QED BY <1>1, StepKeepsSound, TypeCorrect, PTL DEF StoreSpec

\* No name is both banned and claimed, however calls, admin actions, failed writes and
\* restarts interleave (claims.ts, claimOrVerify and ban).
THEOREM BannedStaysFree == StoreSpec => []BannedIsFree
BY AlwaysSound, PTL DEF Sound

LEMMA StepKeepsFileCurrent ==
  ASSUME StoreTypeOK, Sound, FileIsCurrent, [StoreNext]_storeVars
  PROVE  FileIsCurrent'
<1> USE DEF FileIsCurrent
<1>1. ASSUME Persist PROVE FileIsCurrent'
  BY <1>1 DEF Persist, StoreTypeOK
<1>2. ASSUME UNCHANGED records, NotPersisted PROVE FileIsCurrent'
  BY <1>2 DEF records, NotPersisted
<1>3. ASSUME UNCHANGED <<claims, banned>>, PersistLazily PROVE FileIsCurrent'
  BY <1>3 DEF PersistLazily
<1>4. ASSUME NEW c \in Callers, Caller(c) PROVE FileIsCurrent'
  <2>1. (UNCHANGED records /\ NotPersisted) \/ Persist
    BY <1>4 DEF Caller, ClaimOrVerify, Hashed, NewClaim, Compared, records
  <2> QED BY <2>1, <1>1, <1>2
<1>5. ASSUME NEW s \in Names, Remove(s) PROVE FileIsCurrent'
  <2>1. CASE claims[s] # NoClaim
    BY <1>5, <2>1, <1>1 DEF Remove
  <2>2. CASE claims[s] = NoClaim
    <3>1. UNCHANGED records
      BY <1>5, <2>2 DEF Remove, Erase, StoreTypeOK, Sound, NoStrayDevices, records
    <3> QED BY <1>5, <2>2, <3>1, <1>2 DEF Remove
  <2> QED BY <2>1, <2>2
<1>6. ASSUME NEW s \in Names, Ban(s) PROVE FileIsCurrent'
  BY <1>6, <1>1 DEF Ban
<1>7. ASSUME NEW s \in Names, Unban(s) PROVE FileIsCurrent'
  <2>1. s \notin banned => UNCHANGED records
    BY <1>7 DEF Unban, records, StoreTypeOK
  <2> QED BY <1>7, <2>1, <1>1, <1>2 DEF Unban
<1>8. ASSUME NEW s \in Names, NEW d \in Devices, TouchDevice(s, d) PROVE FileIsCurrent'
  <2>1. (UNCHANGED records /\ NotPersisted) \/ (UNCHANGED <<claims, banned>> /\ PersistLazily)
    BY <1>8 DEF TouchDevice, records
  <2> QED BY <2>1, <1>2, <1>3
<1>9. CASE Flush
  BY <1>9, <1>1 DEF Flush
<1>10. CASE Restart
  BY <1>10 DEF Restart
<1>11. CASE UNCHANGED storeVars
  BY <1>11, <1>2 DEF storeVars, NotPersisted
<1> QED BY <1>4, <1>5, <1>6, <1>7, <1>8, <1>9, <1>10, <1>11 DEF StoreNext, Event

\* As long as the last write did not fail, a crash loses no change of ownership, and of
\* the device bookkeeping only what the lazy timer was about to write (claims.ts,
\* persist).
THEOREM FileStaysCurrent == StoreSpec => []FileIsCurrent
<1>1. StoreInit => FileIsCurrent
  BY DEF StoreInit, FileIsCurrent
<1> QED BY <1>1, StepKeepsFileCurrent, TypeCorrect, AlwaysSound, PTL DEF StoreSpec
-----------------------------------------------------------------------------
(* Writes that do not fail.                                                *)

LEMMA NeverBehind == ASSUME MayFail = FALSE PROVE StoreSpec => []~behind
<1>1. StoreInit => ~behind
  BY DEF StoreInit
<1>2. ~behind /\ [StoreNext]_storeVars => ~behind'
  <2> SUFFICES ASSUME ~behind, [StoreNext]_storeVars PROVE ~behind'
    OBVIOUS
  <2> USE DEF Persist, PersistLazily, NotPersisted
  <2>1. ASSUME NEW c \in Callers, Caller(c) PROVE ~behind'
    BY <2>1 DEF Caller, ClaimOrVerify, Hashed, NewClaim, Compared
  <2>2. CASE Event
    BY <2>2 DEF Event, Remove, Ban, Unban, TouchDevice, Flush
  <2>3. CASE Restart
    BY <2>3 DEF Restart
  <2> QED BY <2>1, <2>2, <2>3 DEF StoreNext, storeVars
<1> QED BY <1>1, <1>2, PTL DEF StoreSpec

\* What holds in every reachable state of a store whose writes succeed.
StoreInv == StoreTypeOK /\ Sound /\ FileIsCurrent /\ ~behind

LEMMA AlwaysStoreInv == ASSUME MayFail = FALSE PROVE StoreSpec => []StoreInv
BY TypeCorrect, AlwaysSound, FileStaysCurrent, NeverBehind, PTL DEF StoreInv

\* A restart finds the owners it left, when no write failed.
LEMMA RestartKeepsOwners ==
  ASSUME StoreInv, Restart
  PROVE  UNCHANGED <<claims, banned>>
BY DEF StoreInv, FileIsCurrent, Restart

\* A claim goes only by being erased: of any number of first claims of one name, hashed
\* at the same time, one wins, and no restart undoes it (claims.ts, claimOrVerify).
THEOREM FirstClaimAlwaysWins == ASSUME MayFail = FALSE PROVE StoreSpec => FirstClaimWins
<1> DEFINE Kept == \A s \in Names : claims[s] # NoClaim => claims'[s] \in {claims[s], NoClaim}
<1>1. StoreInv /\ [StoreNext]_storeVars => [Kept]_claims
  <2> SUFFICES ASSUME StoreInv, [StoreNext]_storeVars PROVE Kept \/ UNCHANGED claims
    OBVIOUS
  <2> USE DEF StoreInv, StoreTypeOK
  <2>1. ASSUME NEW c \in Callers, Caller(c) PROVE Kept \/ UNCHANGED claims
    <3>1. \/ UNCHANGED claims
          \/ ~TakenSince(call[c].name) /\ NewClaim(c, call[c].name, call[c].pw)
      BY <2>1 DEF Caller, ClaimOrVerify, Hashed, Compared, records
    <3> QED BY <3>1 DEF NewClaim, TakenSince
  <2>2. CASE Event
    BY <2>2 DEF Event, Remove, Ban, Unban, TouchDevice, Flush, Erase, records
  <2>3. CASE Restart
    BY <2>3, RestartKeepsOwners
  <2> QED BY <2>1, <2>2, <2>3 DEF StoreNext, storeVars, records
<1> QED BY <1>1, AlwaysStoreInv, PTL DEF StoreSpec, FirstClaimWins

-----------------------------------------------------------------------------
(* The store implements atomic claims.                                     *)

\* The abstract view of the calls, and how it moves with the concrete one.
Op == [d \in Callers |-> Phase(call[d])]

LEMMA OpMoves ==
  ASSUME call \in [Callers -> CallSet], NEW c \in Callers, NEW k, call' = [call EXCEPT ![c] = k]
  PROVE  Op' = [Op EXCEPT ![c] = Phase(k)]
BY DEF Op

LEMMA OpAt ==
  ASSUME call \in [Callers -> CallSet], NEW c \in Callers, NEW s, NEW p
  PROVE  /\ At(c, "hashing", s, p) => Op' = [Op EXCEPT ![c] = [st |-> "pending", name |-> s, pw |-> p]]
         /\ At(c, "ok", s, p)      => Op' = [Op EXCEPT ![c] = [st |-> "decided", ok |-> TRUE]]
         /\ At(c, "denied", s, p)  => Op' = [Op EXCEPT ![c] = [st |-> "decided", ok |-> FALSE]]
         /\ Comparing(c, s, p)     => Op' = [Op EXCEPT ![c] = [st |-> "decided", ok |-> (claims[s].pw = p)]]
<1>1. ASSUME NEW st, At(c, st, s, p) PROVE Op' = [Op EXCEPT ![c] = Phase([st |-> st, name |-> s, pw |-> p])]
  BY <1>1, OpMoves DEF At
<1>2. ASSUME Comparing(c, s, p)
      PROVE  Op' = [Op EXCEPT ![c] = Phase([st |-> "comparing", name |-> s, pw |-> p, seen |-> claims[s]])]
  BY <1>2, OpMoves DEF Comparing
<1>3. At(c, "hashing", s, p) => Op' = [Op EXCEPT ![c] = [st |-> "pending", name |-> s, pw |-> p]]
  <2>1. Phase([st |-> "hashing", name |-> s, pw |-> p]) = [st |-> "pending", name |-> s, pw |-> p]
    BY DEF Phase
  <2>2. At(c, "hashing", s, p) => Op' = [Op EXCEPT ![c] = Phase([st |-> "hashing", name |-> s, pw |-> p])]
    BY <1>1
  <2> QED BY <2>1, <2>2
<1>4. At(c, "ok", s, p) => Op' = [Op EXCEPT ![c] = [st |-> "decided", ok |-> TRUE]]
  <2>1. Phase([st |-> "ok", name |-> s, pw |-> p]) = [st |-> "decided", ok |-> TRUE]
    BY DEF Phase
  <2>2. At(c, "ok", s, p) => Op' = [Op EXCEPT ![c] = Phase([st |-> "ok", name |-> s, pw |-> p])]
    BY <1>1
  <2> QED BY <2>1, <2>2
<1>5. At(c, "denied", s, p) => Op' = [Op EXCEPT ![c] = [st |-> "decided", ok |-> FALSE]]
  <2>1. Phase([st |-> "denied", name |-> s, pw |-> p]) = [st |-> "decided", ok |-> FALSE]
    BY DEF Phase
  <2>2. At(c, "denied", s, p) => Op' = [Op EXCEPT ![c] = Phase([st |-> "denied", name |-> s, pw |-> p])]
    BY <1>1
  <2> QED BY <2>1, <2>2
<1>6. Comparing(c, s, p) => Op' = [Op EXCEPT ![c] = [st |-> "decided", ok |-> (claims[s].pw = p)]]
  <2>1. Phase([st |-> "comparing", name |-> s, pw |-> p, seen |-> claims[s]])
          = [st |-> "decided", ok |-> (claims[s].pw = p)]
    BY DEF Phase
  <2> QED BY <1>2, <2>1
<1> QED BY <1>3, <1>4, <1>5, <1>6

LEMMA AtomicClaimOrVerify ==
  ASSUME StoreInv, NEW c \in Callers, NEW s \in Names, NEW p \in Passwords, ClaimOrVerify(c, s, p)
  PROVE  Atomic!Call(c, s, p)
<1>0. Op[c] = Atomic!OpIdle /\ UNCHANGED <<claims, banned, minted>>
  BY DEF ClaimOrVerify, records, Op, Phase, Idle, Atomic!OpIdle
<1>a. call \in [Callers -> CallSet]
  BY DEF StoreInv, StoreTypeOK
<1>1. CASE s \in banned /\ At(c, "denied", s, p)
  <2>1. Op' = [Op EXCEPT ![c] = [st |-> "decided", ok |-> FALSE]]
    BY <1>1, <1>a, OpAt
  <2> QED BY <1>0, <1>1, <2>1 DEF Atomic!Call, Atomic!Decide, Op
<1>2. CASE At(c, "hashing", s, p)
  <2>1. Op' = [Op EXCEPT ![c] = [st |-> "pending", name |-> s, pw |-> p]]
    BY <1>2, <1>a, OpAt
  <2> QED BY <1>0, <2>1 DEF Atomic!Call, Op
<1>3. CASE s \notin banned /\ claims[s] # NoClaim /\ Comparing(c, s, p)
  <2>1. Op' = [Op EXCEPT ![c] = [st |-> "decided", ok |-> (claims[s].pw = p)]]
    BY <1>3, <1>a, OpAt
  <2> QED BY <1>0, <1>3, <2>1 DEF Atomic!Call, Atomic!Decide, Op
<1> QED BY <1>1, <1>2, <1>3 DEF ClaimOrVerify

LEMMA AtomicHashed ==
  ASSUME StoreInv, NEW c \in Callers, Hashed(c)
  PROVE  Atomic!Settle(c)
<1> DEFINE s == call[c].name
           p == call[c].pw
<1>0. call \in [Callers -> CallSet] /\ call[c].st = "hashing"
  BY DEF Hashed, StoreInv, StoreTypeOK
<1>1. s \in Names /\ p \in Passwords
  BY <1>0, CallInProgress DEF StoreInv
<1>2. Op[c] = [st |-> "pending", name |-> s, pw |-> p]
  BY <1>0 DEF Op, Phase
<1>3. Op[c].st = "pending" /\ Op[c].name = s /\ Op[c].pw = p
  BY <1>2
<1>4. UNCHANGED banned
  BY DEF Hashed, NewClaim, records
<1>5. CASE claims[s] # NoClaim /\ Comparing(c, s, p) /\ UNCHANGED <<claims, minted>>
  <2>1. s \notin banned
    BY <1>1, <1>5 DEF StoreInv, Sound, BannedIsFree
  <2>2. Op' = [Op EXCEPT ![c] = [st |-> "decided", ok |-> (claims[s].pw = p)]]
    BY <1>0, <1>5, OpAt
  <2> QED BY <1>3, <1>4, <1>5, <2>1, <2>2 DEF Atomic!Settle, Atomic!Decide, Op
<1>6. CASE s \in banned /\ At(c, "denied", s, p) /\ UNCHANGED <<claims, minted>>
  <2>1. Op' = [Op EXCEPT ![c] = [st |-> "decided", ok |-> FALSE]]
    BY <1>0, <1>6, OpAt
  <2> QED BY <1>3, <1>4, <1>6, <2>1 DEF Atomic!Settle, Atomic!Decide, Op
<1>7. CASE claims[s] = NoClaim /\ s \notin banned /\ NewClaim(c, s, p)
  <2>1. Op' = [Op EXCEPT ![c] = [st |-> "decided", ok |-> TRUE]]
    BY <1>0, <1>7, OpAt DEF NewClaim
  <2> QED BY <1>3, <1>4, <1>7, <2>1 DEF NewClaim, Atomic!Settle, Atomic!Decide, Op
<1> QED BY <1>5, <1>6, <1>7 DEF Hashed, TakenSince, BannedSince, records

\* The comparison was decided when the record was read: the hash adds nothing.
LEMMA AtomicCompared ==
  ASSUME StoreInv, NEW c \in Callers, Compared(c)
  PROVE  UNCHANGED <<claims, banned, minted, Op>>
<1> DEFINE k == call[c]
<1>0. call \in [Callers -> CallSet] /\ k.st = "comparing"
  BY DEF Compared, StoreInv, StoreTypeOK
<1>1. Op[c] = [st |-> "decided", ok |-> (k.seen.pw = k.pw)]
  BY <1>0 DEF Op, Phase
<1>2. Op' = [Op EXCEPT ![c] = Op[c]]
  <2>1. CASE k.seen.pw = k.pw
    <3>1. At(c, "ok", k.name, k.pw)
      BY <2>1 DEF Compared
    <3> QED BY <1>0, <1>1, <2>1, <3>1, OpAt
  <2>2. CASE k.seen.pw # k.pw
    <3>1. At(c, "denied", k.name, k.pw)
      BY <2>2 DEF Compared
    <3> QED BY <1>0, <1>1, <2>2, <3>1, OpAt
  <2> QED BY <2>1, <2>2
<1>3. Op' = Op
  BY <1>2 DEF Op
<1> QED BY <1>3 DEF Compared, records

LEMMA AtomicReturn ==
  ASSUME StoreInv, NEW c \in Callers, Return(c), UNCHANGED <<claims, banned, minted>>
  PROVE  Atomic!Return(c)
<1>1. call \in [Callers -> CallSet]
  BY DEF StoreInv, StoreTypeOK
<1>2. Op[c].st = "decided"
  BY DEF Return, Settled, Op, Phase
<1>3. Op' = [Op EXCEPT ![c] = Phase(Idle)]
  BY <1>1, OpMoves DEF Return
<1>4. Phase(Idle) = Atomic!OpIdle
  BY DEF Phase, Idle, Atomic!OpIdle
<1> QED BY <1>2, <1>3, <1>4 DEF Atomic!Return, Op

LEMMA AtomicEvent ==
  ASSUME StoreInv, Event
  PROVE  (\E s \in Names : Atomic!Release(s) \/ Atomic!Bar(s) \/ Atomic!Unbar(s))
         \/ UNCHANGED <<claims, banned, minted, Op>>
<1>0. UNCHANGED Op
  BY DEF Event, Op
<1>1. ASSUME NEW s \in Names, Remove(s) PROVE Atomic!Release(s)
  BY <1>0, <1>1 DEF Remove, Erase, Atomic!Release, Op
<1>2. ASSUME NEW s \in Names, Ban(s) PROVE Atomic!Bar(s)
  BY <1>0, <1>2 DEF Ban, Erase, Atomic!Bar, Op
<1>3. ASSUME NEW s \in Names, Unban(s) PROVE Atomic!Unbar(s)
  BY <1>0, <1>3 DEF Unban, Atomic!Unbar, Op
<1>4. ASSUME (\E s \in Names, d \in Devices : TouchDevice(s, d)) \/ Flush
      PROVE  UNCHANGED <<claims, banned, minted, Op>>
  BY <1>0, <1>4 DEF TouchDevice, Flush, records
<1> QED BY <1>1, <1>2, <1>3, <1>4 DEF Event

LEMMA AtomicRestart ==
  ASSUME StoreInv, Restart
  PROVE  Atomic!Crash
<1>1. UNCHANGED <<claims, banned, minted>>
  BY RestartKeepsOwners DEF Restart
<1>2. Op' = [c \in Callers |-> Atomic!OpIdle]
  BY DEF Restart, Op, Phase, Idle, Atomic!OpIdle
<1> QED BY <1>1, <1>2 DEF Atomic!Crash, Op

\* With writes that succeed, the store is indistinguishable from one that decides each
\* call at one instant and loses no owner in a crash (AtomicClaims).
THEOREM StoreIsAtomic == ASSUME MayFail = FALSE PROVE StoreSpec => ImplementsAtomicClaims
<1>1. StoreInit => Atomic!Init
  BY DEF StoreInit, Atomic!Init, Atomic!OpIdle, Phase, Idle
<1>2. StoreInv /\ [StoreNext]_storeVars => [Atomic!Next]_(Atomic!atomicVars)
  <2> SUFFICES ASSUME StoreInv, [StoreNext]_storeVars
               PROVE  Atomic!Next \/ UNCHANGED <<claims, banned, minted, Op>>
    BY DEF Atomic!atomicVars, Op
  <2>1. ASSUME NEW c \in Callers, Caller(c) PROVE Atomic!Next \/ UNCHANGED <<claims, banned, minted, Op>>
    BY <2>1, AtomicClaimOrVerify, AtomicHashed, AtomicCompared, AtomicReturn DEF Caller, Atomic!Next, records
  <2>2. CASE Event
    BY <2>2, AtomicEvent DEF Atomic!Next
  <2>3. CASE Restart
    BY <2>3, AtomicRestart DEF Atomic!Next
  <2>4. CASE UNCHANGED storeVars
    BY <2>4 DEF storeVars, records, Op
  <2> QED BY <2>1, <2>2, <2>3, <2>4 DEF StoreNext
<1> QED BY <1>1, <1>2, AlwaysStoreInv, PTL DEF StoreSpec, ImplementsAtomicClaims, Atomic!Spec


-----------------------------------------------------------------------------
(* Browser sessions.                                                       *)
(*                                                                         *)
(* The inductive invariant: no claim, in memory or in the file, and no     *)
(* cookie carries a version that is still to come.                         *)

Made(cs) == \A s \in Names : cs[s] # NoClaim => cs[s].ver <= minted

Dated ==
  /\ Made(claims) /\ Made(file.claims)
  /\ \A l \in Logins : cookie[l] # NoCookie => cookie[l].ver <= minted

SessionsInv == SessionsTypeOK /\ Sound /\ FileIsSound /\ FileIsCurrent /\ Dated

\* What a step of the store makes of the claims: they stay or go, are what the file
\* holds, or one is new and carries a version that nothing has yet.
Kept(cs)  == \A s \in Names : cs[s] \in {claims[s], NoClaim}
NewOne(cs) ==
  /\ minted' = minted + 1
  /\ \E s \in Names : /\ cs[s] # NoClaim /\ cs[s].ver = minted + 1
                      /\ \A t \in Names \ {s} : cs[t] = claims[t]

-----------------------------------------------------------------------------
LEMMA StoreStep == SessionsNext => [StoreNext]_storeVars
<1> SUFFICES ASSUME SessionsNext PROVE StoreNext \/ UNCHANGED storeVars
  OBVIOUS
<1>1. CASE Store
  BY <1>1 DEF Store, StoreNext
<1>2. CASE \E l \in Logins : LoggedIn(l) \/ Expire(l) \/ \E s \in Names, p \in Passwords : Login(l, s, p)
  BY <1>2 DEF LoggedIn, Expire, Login
<1>3. CASE LoginsRestart
  BY <1>3 DEF LoginsRestart, StoreNext
<1> QED BY <1>1, <1>2, <1>3 DEF SessionsNext

LEMMA StoreTypeStep == ASSUME StoreTypeOK, [StoreNext]_storeVars PROVE StoreTypeOK'
<1>1. CASE StoreNext
  BY <1>1, CallerType, EventType, RestartType DEF StoreNext
<1>2. CASE UNCHANGED storeVars
  BY <1>2 DEF StoreTypeOK, storeVars, records
<1> QED BY <1>1, <1>2

LEMMA CallerMoves ==
  ASSUME StoreTypeOK, NEW c \in Callers, Caller(c)
  PROVE  (UNCHANGED <<claims, minted>> \/ NewOne(claims')) /\ (Persist \/ NotPersisted)
<1> USE DEF StoreTypeOK
<1>1. CASE UNCHANGED <<records, minted>> /\ NotPersisted
  BY <1>1 DEF records
<1>2. CASE Hashed(c) /\ NewClaim(c, call[c].name, call[c].pw)
  <2>1. call[c].name \in Names
    BY <1>2, CallInProgress DEF Hashed
  <2>2. /\ claims' = [claims EXCEPT ![call[c].name] = [pw |-> call[c].pw, ver |-> minted + 1]]
        /\ minted' = minted + 1 /\ minted + 1 \in 1..MaxVersion /\ Persist
    BY <1>2, ClaimStoreAssumption DEF NewClaim
  <2>3. claims'[call[c].name].ver = minted + 1
    BY <2>1, <2>2
  <2>4. claims'[call[c].name] \in Claims
    BY <1>2, <2>1, <2>2, CallInProgress DEF Hashed, Claims
  <2>5. claims'[call[c].name] # NoClaim
    BY <2>4, ClaimStoreAssumption DEF Claims
  <2>6. \A t \in Names \ {call[c].name} : claims'[t] = claims[t]
    BY <2>2
  <2> QED BY <2>1, <2>2, <2>3, <2>5, <2>6 DEF NewOne
<1> QED BY <1>1, <1>2 DEF Caller, ClaimOrVerify, Hashed, Compared

LEMMA EventMoves ==
  ASSUME StoreTypeOK, Event
  PROVE  Kept(claims') /\ UNCHANGED minted /\ (Persist \/ PersistLazily \/ NotPersisted)
<1> USE DEF StoreTypeOK, Kept
<1>1. ASSUME NEW s \in Names, Remove(s) \/ Ban(s) \/ Unban(s)
      PROVE  Kept(claims') /\ UNCHANGED minted /\ (Persist \/ NotPersisted)
  BY <1>1 DEF Remove, Ban, Unban, Erase
<1>2. ASSUME NEW s \in Names, NEW d \in Devices, TouchDevice(s, d)
      PROVE  Kept(claims') /\ UNCHANGED minted /\ (PersistLazily \/ NotPersisted)
  BY <1>2 DEF TouchDevice
<1>3. CASE Flush
  BY <1>3 DEF Flush, records
<1> QED BY <1>1, <1>2, <1>3 DEF Event

\* Memory and file after a step of the store.
LEMMA ClaimsMove ==
  ASSUME StoreTypeOK, FileIsCurrent, [StoreNext]_storeVars
  PROVE  /\ \/ Kept(claims') /\ UNCHANGED minted
            \/ NewOne(claims')
            \/ claims' = file.claims /\ UNCHANGED minted /\ (~behind => claims' = claims)
         /\ file'.claims \in {file.claims, claims'}
<1>1. ASSUME Persist \/ PersistLazily \/ NotPersisted PROVE file'.claims \in {file.claims, claims'}
  BY <1>1 DEF Persist, PersistLazily, NotPersisted
<1>2. ASSUME NEW c \in Callers, Caller(c)
      PROVE  ((Kept(claims') /\ UNCHANGED minted) \/ NewOne(claims')) /\ file'.claims \in {file.claims, claims'}
  BY <1>1, <1>2, CallerMoves DEF Kept
<1>3. CASE Event
  BY <1>1, <1>3, EventMoves
<1>4. CASE Restart
  BY <1>4 DEF Restart, FileIsCurrent
<1>5. CASE UNCHANGED storeVars
  BY <1>5 DEF storeVars, records, Kept
<1> QED BY <1>2, <1>3, <1>4, <1>5 DEF StoreNext

\* Versions only go up, and none is ahead of `minted`.
LEMMA MadeStep ==
  ASSUME StoreTypeOK, FileIsCurrent, Made(claims), Made(file.claims), [StoreNext]_storeVars
  PROVE  Made(claims)' /\ Made(file.claims)' /\ minted' >= minted /\ minted \in Nat /\ minted' \in Nat
<1>1. minted \in Nat /\ minted' \in Nat
  BY StoreTypeStep DEF StoreTypeOK
<1>2. \A s \in Names : /\ claims[s] # NoClaim => claims[s].ver \in Nat
                       /\ file.claims[s] # NoClaim => file.claims[s].ver \in Nat
  BY ClaimStoreAssumption DEF StoreTypeOK, MaybeClaim, Claims
<1>3. minted' >= minted
  BY <1>1, ClaimsMove DEF NewOne
<1>4. Made(claims)'
  <2>1. CASE Kept(claims') /\ UNCHANGED minted
    BY <2>1 DEF Kept, Made
  <2>2. CASE NewOne(claims')
    BY <1>1, <1>2, <2>2 DEF NewOne, Made
  <2>3. CASE claims' = file.claims /\ UNCHANGED minted
    BY <2>3 DEF Made
  <2> QED BY <2>1, <2>2, <2>3, ClaimsMove
<1>5. Made(file.claims)'
  <2>1. CASE file'.claims = claims'
    BY <1>4, <2>1 DEF Made
  <2>2. CASE file'.claims = file.claims
    BY <1>1, <1>2, <1>3, <2>2 DEF Made
  <2> QED BY <2>1, <2>2, ClaimsMove
<1> QED BY <1>1, <1>3, <1>4, <1>5

-----------------------------------------------------------------------------
(* Logins and cookies.                                                     *)

LEMMA VersionType ==
  ASSUME StoreTypeOK, NEW s \in Names
  PROVE  /\ SessionVersionOf(s) \in 0..MaxVersion
         /\ Made(claims) => SessionVersionOf(s) <= minted
BY ClaimStoreAssumption DEF StoreTypeOK, MaybeClaim, Claims, SessionVersionOf, Made

Verifying == [st : {"verifying"}, name : Names, pw : Passwords, seen : Claims]
LoginType  == login \in [Logins -> {NoLogin} \cup Verifying]
CookieType == cookie \in [Logins -> Cookies \cup {NoCookie}]

LEMMA SessionType ==
  ASSUME SessionsTypeOK, SessionsNext
  PROVE  LoginType' /\ CookieType'
<1> USE DEF SessionsTypeOK, LoginType, CookieType, Verifying
<1>1. CASE Store
  BY <1>1 DEF Store, sessionVars
<1>2. ASSUME NEW l \in Logins, NEW s \in Names, NEW p \in Passwords, Login(l, s, p)
      PROVE  LoginType' /\ CookieType'
  <2>1. claims[s] \in Claims
    BY <1>2 DEF Login, HasPassword, StoreTypeOK, MaybeClaim
  <2> QED BY <1>2, <2>1 DEF Login
<1>3. ASSUME NEW l \in Logins, LoggedIn(l) PROVE LoginType' /\ CookieType'
  <2>1. login[l].name \in Names
    BY <1>3 DEF LoggedIn, NoLogin
  <2>2. [name |-> login[l].name, ver |-> SessionVersionOf(login[l].name), fresh |-> TRUE] \in Cookies
    BY <2>1, VersionType DEF Cookies
  <2> QED BY <1>3, <2>2 DEF LoggedIn
<1>4. CASE LoginsRestart
  BY <1>4 DEF LoginsRestart
<1>5. ASSUME NEW l \in Logins, Expire(l) PROVE LoginType' /\ CookieType'
  <2>1. [cookie[l] EXCEPT !.fresh = FALSE] \in Cookies
    BY <1>5 DEF Expire, Cookies
  <2> QED BY <1>5, <2>1 DEF Expire
<1> QED BY <1>1, <1>2, <1>3, <1>4, <1>5 DEF SessionsNext

LEMMA CookiesDated ==
  ASSUME SessionsTypeOK, FileIsCurrent, Dated, SessionsNext
  PROVE  Dated'
<1>0. /\ minted' >= minted /\ minted \in Nat /\ minted' \in Nat
      /\ Made(claims)' /\ Made(file.claims)'
  BY StoreStep, MadeStep DEF SessionsTypeOK, Dated
<1>1. CASE UNCHANGED cookie
  <2>1. \A l \in Logins : cookie[l] # NoCookie => cookie[l].ver \in Nat
    BY ClaimStoreAssumption DEF SessionsTypeOK, Cookies
  <2>2. \A l \in Logins : cookie'[l] # NoCookie => cookie'[l].ver <= minted'
    BY <1>0, <1>1, <2>1 DEF Dated
  <2> QED BY <1>0, <2>2 DEF Dated
<1>2. ASSUME NEW l \in Logins, LoggedIn(l) PROVE Dated'
  <2>1. login[l].name \in Names
    BY <1>2 DEF LoggedIn, NoLogin, SessionsTypeOK
  <2>2. SessionVersionOf(login[l].name) <= minted
    BY <2>1, VersionType DEF SessionsTypeOK, Dated
  <2>3. minted' = minted
    BY <1>2 DEF LoggedIn, storeVars
  <2>4. cookie \in [Logins -> Cookies \cup {NoCookie}]
    BY DEF SessionsTypeOK
  <2>5. \A m \in Logins : cookie'[m] # NoCookie => cookie'[m].ver <= minted
    BY <1>2, <2>2, <2>4 DEF LoggedIn, Dated
  <2> QED BY <1>0, <2>3, <2>5 DEF Dated
<1>3. ASSUME NEW l \in Logins, Expire(l) PROVE Dated'
  <2>1. cookie \in [Logins -> Cookies \cup {NoCookie}] /\ minted' = minted
    BY <1>3 DEF SessionsTypeOK, Expire, storeVars
  <2>2. cookie'[l].ver = cookie[l].ver /\ \A m \in Logins \ {l} : cookie'[m] = cookie[m]
    BY <1>3, <2>1 DEF Expire, Cookies
  <2>3. \A m \in Logins : cookie'[m] # NoCookie => cookie'[m].ver <= minted
    BY <1>3, <2>2 DEF Expire, Dated
  <2> QED BY <1>0, <2>1, <2>3 DEF Dated
<1> QED BY <1>1, <1>2, <1>3 DEF SessionsNext, Store, sessionVars, Login, LoginsRestart

LEMMA SessionsInitInv == SessionsInit => SessionsInv
<1> SUFFICES ASSUME SessionsInit PROVE SessionsInv
  OBVIOUS
<1>1. SessionsTypeOK
  BY InitType DEF SessionsInit, SessionsTypeOK
<1>2. Sound /\ FileIsSound /\ FileIsCurrent
  BY DEF SessionsInit, StoreInit, NoDevices, Sound, BannedIsFree, NoStrayDevices, FileIsSound, FileIsCurrent
<1>3. Dated
  BY DEF SessionsInit, StoreInit, Dated, Made
<1> QED BY <1>1, <1>2, <1>3 DEF SessionsInv

LEMMA SessionsStepInv == SessionsInv /\ [SessionsNext]_serverVars => SessionsInv'
<1> SUFFICES ASSUME SessionsInv, [SessionsNext]_serverVars PROVE SessionsInv'
  OBVIOUS
<1>1. CASE SessionsNext
  <2>1. StoreTypeOK' /\ Sound' /\ FileIsSound' /\ FileIsCurrent'
    BY <1>1, StoreStep, StoreTypeStep, StepKeepsSound, StepKeepsFileCurrent DEF SessionsInv, SessionsTypeOK
  <2>2. SessionsTypeOK'
    BY <1>1, <2>1, SessionType DEF SessionsInv, SessionsTypeOK, LoginType, CookieType, Verifying
  <2>3. Dated'
    BY <1>1, CookiesDated DEF SessionsInv
  <2> QED BY <2>1, <2>2, <2>3 DEF SessionsInv
<1>2. CASE UNCHANGED serverVars
  <2>1. StoreTypeOK' /\ Sound' /\ FileIsSound' /\ FileIsCurrent'
    BY <1>2, StoreTypeStep, StepKeepsSound, StepKeepsFileCurrent DEF SessionsInv, SessionsTypeOK, serverVars
  <2>2. SessionsTypeOK'
    BY <1>2, <2>1 DEF SessionsInv, SessionsTypeOK, serverVars, sessionVars
  <2>3. Dated'
    BY <1>2 DEF SessionsInv, Dated, Made, serverVars, storeVars, sessionVars
  <2> QED BY <2>1, <2>2, <2>3 DEF SessionsInv
<1> QED BY <1>1, <1>2

-----------------------------------------------------------------------------
(* The theorems.                                                           *)

LEMMA SessionsInvariance == SessionsSpec => []SessionsInv
BY SessionsInitInv, SessionsStepInv, PTL DEF SessionsSpec

\* Logins in progress and cookies keep their types.
THEOREM SessionsAreTyped == SessionsSpec => []SessionsTypeOK
<1>1. SessionsInv => SessionsTypeOK
  BY DEF SessionsInv
<1> QED BY <1>1, SessionsInvariance, PTL

\* However often a name is released, banned and claimed anew, and wherever the relay
\* stops, a session that ended stays ended, unless a write failed (RevokedForGood).
THEOREM RevokedSessionsStayDead == SessionsSpec => RevokedForGood
<1> DEFINE Stays == ~behind => \A l \in Logins :
             cookie[l] # NoCookie /\ ~Verifies(l) /\ cookie'[l] = cookie[l] => ~Verifies(l)'
<1>1. ASSUME SessionsInv, SessionsNext PROVE Stays
  <2> SUFFICES ASSUME ~behind, NEW l \in Logins, cookie[l] # NoCookie, cookie'[l] = cookie[l], Verifies(l)'
               PROVE  Verifies(l)
    OBVIOUS
  <2> DEFINE s == cookie[l].name
  <2>1. s \in Names /\ cookie[l].ver <= minted /\ cookie[l].ver \in Nat /\ minted \in Nat
    BY <1>1, ClaimStoreAssumption DEF SessionsInv, SessionsTypeOK, StoreTypeOK, Cookies, Dated
  <2>2. claims'[s] # NoClaim /\ claims'[s].ver = cookie[l].ver
    BY DEF Verifies, SessionVersionOf
  <2>3. Kept(claims') \/ NewOne(claims')
    BY <1>1, StoreStep, ClaimsMove DEF SessionsInv, SessionsTypeOK, Kept
  <2>4. claims'[s] = claims[s]
    BY <2>1, <2>2, <2>3 DEF Kept, NewOne
  <2> QED BY <2>2, <2>4 DEF Verifies, SessionVersionOf
<1>2. SessionsInv /\ [SessionsNext]_serverVars => [Stays]_serverVars
  BY <1>1
<1> QED BY <1>2, SessionsInvariance, PTL DEF SessionsSpec, RevokedForGood

-----------------------------------------------------------------------------
(* The admission of agents: its inductive invariant.                       *)

Hellos == [name : Names, pw : Passwords, dev : Devices]

\* How the parts of a socket's state belong together: its stage, whether it is open,
\* whether its share was given back, its rank, its call and its HELLO.
Shape(st, o, r, n, k, h) ==
  /\ k.st # "idle" => st \in {"checking", "closed"} /\ h \in Hellos /\ h.name = k.name /\ h.pw = k.pw
  /\ st \in {"checking", "admitted"} => h \in Hellos
  /\ o => st \in {"silent", "checking", "admitted"}
  /\ n > 0 => st \in {"admitted", "closed"} /\ k.st = "idle"
  /\ st \in {"none", "silent", "checking", "dropped", "failed"} => ~r
  /\ st \in {"admitted", "closed"} => r

Shaped == \A w \in Callers : Shape(stage[w], open[w], released[w], since[w], call[w], hello[w])

Routed == LiveIsRouted /\ RoutedIsNotClosed

\* The sockets of p that are charged to its budget.
Charged(p) == {w \in Callers : peer[w] = p /\ stage[w] # "none" /\ ~released[w]}
Charges    == \A p \in Peers : preHello[p] = Cardinality(Charged(p))

\* What a check in progress has found still holds, unless it was overtaken; and the same
\* of an agent it admitted.
Holds(k) ==
  /\ k.st = "comparing" => claims[k.name] = k.seen
  /\ k.st = "ok" => claims[k.name] # NoClaim /\ claims[k.name].pw = k.pw
Founded == \A w \in Callers : stage[w] = "checking" /\ w \notin overtaken => Holds(call[w])

IInv == TypeOK /\ Shaped /\ Routed /\ Charges /\ Founded /\ AgentsOwnTheName

LEMMA Types ==
  ASSUME TypeOK, NEW w \in Callers
  PROVE  /\ StoreTypeOK /\ call \in [Callers -> CallSet] /\ call[w] \in CallSet /\ open \in [Callers -> BOOLEAN]
         /\ stage \in [Callers -> {"none", "silent", "checking", "admitted", "dropped", "failed", "closed"}]
         /\ peer \in [Callers -> Peers] /\ hello \in [Callers -> Hellos \cup {NoHello}] /\ released \in [Callers -> BOOLEAN]
         /\ since \in [Callers -> 0..Cardinality(Callers)] /\ Cardinality(Callers) \in Nat
         /\ agents \in [Names -> [Devices -> Callers \cup {NoSocket}]] /\ NoSocket \notin Callers
         /\ preHello \in [Peers -> 0..MaxPre] /\ MaxPre \in Nat \ {0} /\ NoClaim \notin Claims
         /\ claims \in [Names -> MaybeClaim] /\ IsFiniteSet(Callers)
BY RegistryAssumption, ClaimStoreAssumption, FS_CardinalityType DEF TypeOK, StoreTypeOK, Hellos, Claims

LEMMA InitInv == Init => IInv
<1> SUFFICES ASSUME Init PROVE IInv
  OBVIOUS
<1>1. StoreTypeOK /\ call = [c \in Callers |-> Idle]
  BY InitType DEF Init, StoreInit
<1>2. Cardinality(Callers) \in Nat
  BY RegistryAssumption, FS_CardinalityType
<1>3. TypeOK
  BY <1>1, <1>2, RegistryAssumption DEF Init, TypeOK, Nowhere
<1>4. Shaped
  BY <1>1 DEF Init, Shaped, Shape, Idle
<1>5. Charges
  <2> SUFFICES ASSUME NEW p \in Peers PROVE preHello[p] = Cardinality(Charged(p))
    BY DEF Charges
  <2>1. Charged(p) = {}
    BY DEF Init, Charged
  <2> QED BY <2>1, FS_EmptySet DEF Init
<1> QED BY <1>3, <1>4, <1>5 DEF Init, IInv, Routed, LiveIsRouted, RoutedIsNotClosed, Nowhere, Live, Founded, AgentsOwnTheName
-----------------------------------------------------------------------------
(* What several steps have in common.                                      *)

\* The store's part of a step that touches a device or leaves the records alone.
LEMMA StoreKeepsType ==
  ASSUME StoreTypeOK, NEW s \in Names, NEW d \in Devices, TouchDevice(s, d) \/ intact, call' \in [Callers -> CallSet]
  PROVE  StoreTypeOK' /\ claims' = claims
<1>1. CASE TouchDevice(s, d)
  <2>1. known' \in [Names -> Seq(Devices)]
    <3>1. known \in [Names -> Seq(Devices)]
      BY DEF StoreTypeOK
    <3> QED BY <1>1, <3>1, TouchType
  <2>2. claims' = claims /\ banned' = banned /\ minted' = minted
    BY <1>1 DEF TouchDevice
  <2>3. PersistLazily \/ NotPersisted
    BY <1>1 DEF TouchDevice
  <2>4. claims' \in [Names -> MaybeClaim] /\ banned' \subseteq Names /\ minted' \in 0..MaxVersion
    BY <2>2 DEF StoreTypeOK
  <2> QED BY <2>1, <2>2, <2>3, <2>4, PersistType DEF StoreTypeOK
<1>2. CASE intact
  BY <1>2 DEF intact, records, StoreTypeOK
<1> QED BY <1>1, <1>2

LEMMA Untouched == ASSUME StoreTypeOK, intact, call' \in [Callers -> CallSet] PROVE StoreTypeOK' /\ claims' = claims
BY DEF intact, records, StoreTypeOK

LEMMA ReturnType == ASSUME StoreTypeOK, NEW w \in Callers, Return(w) PROVE call' \in [Callers -> CallSet]
BY DEF StoreTypeOK, Return, CallSet

\* A step that routes nobody and closes, at most, some.
Steadies ==
  /\ agents' = agents /\ overtaken \subseteq overtaken'
  /\ \A v \in Callers : /\ stage'[v] = "admitted" <=> stage[v] = "admitted"
                        /\ stage[v] = "admitted" => hello'[v] = hello[v] /\ (open'[v] => open[v])

LEMMA SteadyRouted == ASSUME Routed, TypeOK, Steadies PROVE Routed'
<1>1. NoSocket \notin Callers /\ agents \in [Names -> [Devices -> Callers \cup {NoSocket}]]
  BY RegistryAssumption DEF TypeOK
<1>2. LiveIsRouted'
  BY DEF Routed, Steadies, LiveIsRouted, Live, IsCurrent
<1>3. RoutedIsNotClosed'
  BY <1>1 DEF Routed, Steadies, RoutedIsNotClosed
<1> QED BY <1>2, <1>3 DEF Routed

LEMMA SteadyOwners == ASSUME AgentsOwnTheName, Steadies, claims' = claims PROVE AgentsOwnTheName'
BY DEF AgentsOwnTheName, Steadies, Live

\* Checks that did not move, or ended.
LEMMA FoundedStays ==
  ASSUME Founded, claims' = claims, overtaken \subseteq overtaken',
         \A v \in Callers : (call'[v] = call[v] \/ call'[v] = Idle) /\ (stage'[v] = "checking" => stage[v] = "checking")
  PROVE  Founded'
<1> SUFFICES ASSUME NEW v \in Callers, stage'[v] = "checking", v \notin overtaken' PROVE Holds(call[v])'
  BY DEF Founded
<1>1. Holds(call[v])
  BY DEF Founded
<1> QED BY <1>1 DEF Holds, Idle

-----------------------------------------------------------------------------
(* The budget.                                                             *)

LEMMA ChargedFinite == ASSUME NEW p PROVE IsFiniteSet(Charged(p)) /\ Cardinality(Charged(p)) \in Nat
<1>1. Charged(p) \subseteq Callers
  BY DEF Charged
<1> QED BY <1>1, RegistryAssumption, FS_Subset, FS_CardinalityType

LEMMA ChargesStay ==
  ASSUME Charges, peer' = peer, released' = released, preHello' = preHello,
         \A v \in Callers : stage'[v] = "none" <=> stage[v] = "none"
  PROVE  Charges'
<1>1. \A p \in Peers : Charged(p)' = Charged(p)
  BY DEF Charged
<1> QED BY <1>1 DEF Charges

LEMMA OneIsCharged ==
  ASSUME TypeOK, Charges, NEW w \in Callers, stage[w] = "none", ~released[w], Room(peer[w]),
         preHello' = [preHello EXCEPT ![peer[w]] = @ + 1], peer' = peer, released' = released,
         stage'[w] # "none", \A v \in Callers \ {w} : stage'[v] = stage[v]
  PROVE  Charges' /\ preHello' \in [Peers -> 0..MaxPre]
<1> DEFINE p == peer[w]
<1>1. p \in Peers /\ preHello \in [Peers -> 0..MaxPre] /\ MaxPre \in Nat
  BY RegistryAssumption DEF TypeOK
<1>2. Charged(p)' = Charged(p) \cup {w} /\ w \notin Charged(p)
  BY DEF Charged
<1>3. \A q \in Peers \ {p} : Charged(q)' = Charged(q)
  BY DEF Charged
<1>4. Cardinality(Charged(p)') = Cardinality(Charged(p)) + 1
  BY <1>2, ChargedFinite, FS_AddElement
<1>5. preHello'[p] = preHello[p] + 1 /\ \A q \in Peers \ {p} : preHello'[q] = preHello[q]
  BY <1>1
<1>6. ASSUME NEW q \in Peers PROVE preHello'[q] = Cardinality(Charged(q)')
  BY <1>3, <1>4, <1>5 DEF Charges
<1>7. preHello' \in [Peers -> 0..MaxPre]
  BY <1>1 DEF Room
<1> QED BY <1>6, <1>7 DEF Charges

LEMMA ReleaseIsExact ==
  ASSUME TypeOK, Charges, NEW w \in Callers, stage[w] # "none", Release(w), peer' = peer,
         \A v \in Callers : stage'[v] = "none" <=> stage[v] = "none"
  PROVE  Charges' /\ preHello' \in [Peers -> 0..MaxPre] /\ released' \in [Callers -> BOOLEAN]
<1> DEFINE p == peer[w]
<1>1. p \in Peers /\ preHello \in [Peers -> 0..MaxPre] /\ MaxPre \in Nat /\ released \in [Callers -> BOOLEAN]
  BY RegistryAssumption DEF TypeOK
<1>2. released' \in [Callers -> BOOLEAN] /\ released'[w] /\ \A v \in Callers \ {w} : released'[v] = released[v]
  BY <1>1 DEF Release
<1>3. \A q \in Peers \ {p} : Charged(q)' = Charged(q)
  BY <1>2 DEF Charged
<1>4. CASE released[w]
  <2>1. Charged(p)' = Charged(p) /\ preHello' = preHello
    BY <1>2, <1>4 DEF Charged, Release
  <2> QED BY <1>1, <1>2, <1>3, <2>1 DEF Charges
<1>5. CASE ~released[w]
  <2>1. Charged(p)' = Charged(p) \ {w} /\ w \in Charged(p)
    BY <1>2, <1>5 DEF Charged
  <2>2. Cardinality(Charged(p)') = Cardinality(Charged(p)) - 1
    BY <2>1, ChargedFinite, FS_RemoveElement
  <2>3. Charged(p) # {}
    BY <2>1
  <2>4. Cardinality(Charged(p)) # 0
    BY <2>3, ChargedFinite, FS_EmptySet
  <2>5. preHello[p] > 0 /\ preHello[p] = Cardinality(Charged(p))
    BY <1>1, <2>4, ChargedFinite DEF Charges
  <2>6. preHello' = [preHello EXCEPT ![p] = @ - 1]
    BY <1>1, <1>5, <2>5 DEF Release
  <2>7. preHello'[p] = preHello[p] - 1 /\ \A q \in Peers \ {p} : preHello'[q] = preHello[q]
    BY <1>1, <2>6
  <2>8. ASSUME NEW q \in Peers PROVE preHello'[q] = Cardinality(Charged(q)')
    BY <1>3, <2>2, <2>5, <2>7 DEF Charges
  <2>9. preHello' \in [Peers -> 0..MaxPre]
    BY <1>1, <2>5, <2>6
  <2> QED BY <1>2, <2>8, <2>9 DEF Charges
<1> QED BY <1>4, <1>5
LEMMA SteadyStep ==
  ASSUME IInv, Steadies, claims' = claims,
         \A v \in Callers : (call'[v] = call[v] \/ call'[v] = Idle) /\ (stage'[v] = "checking" => stage[v] = "checking")
  PROVE  Routed' /\ Founded' /\ AgentsOwnTheName'
<1>1. TypeOK /\ Routed /\ Founded /\ AgentsOwnTheName /\ overtaken \subseteq overtaken'
  BY DEF IInv, Steadies
<1> QED BY <1>1, SteadyRouted, FoundedStays, SteadyOwners

\* A socket that is not open any more keeps its shape, and one without a call too.
LEMMA ShapeShut ==
  ASSUME NEW st, NEW o, NEW r, NEW n, NEW k, NEW h, Shape(st, o, r, n, k, h)
  PROVE  /\ Shape(st, FALSE, r, n, k, h)
         /\ Shape(st, o, r, n, Idle, h)
BY DEF Shape, Idle

-----------------------------------------------------------------------------
(* The steps of a socket.                                                  *)

LEMMA UpgradeInv ==
  ASSUME IInv, NEW w \in Callers, Upgrade(w)
  PROVE  IInv'
<1>1. /\ TypeOK /\ Shaped /\ Charges /\ stage[w] = "none" /\ Room(peer[w])
      /\ preHello' = [preHello EXCEPT ![peer[w]] = @ + 1]
      /\ UNCHANGED <<storeVars, peer, hello, released, agents, since, overtaken>>
  BY DEF IInv, Upgrade
<1>2. \/ stage' = [stage EXCEPT ![w] = "silent"] /\ open' = [open EXCEPT ![w] = TRUE]
      \/ stage' = [stage EXCEPT ![w] = "failed"] /\ UNCHANGED open
  BY DEF Upgrade
<1>3. call' = call /\ claims' = claims /\ StoreTypeOK'
  BY <1>1 DEF storeVars, records, TypeOK, StoreTypeOK
<1>4. Shape(stage[w], open[w], released[w], since[w], call[w], hello[w])
  BY <1>1 DEF Shaped
<1>5. ~released[w] /\ ~open[w] /\ call[w].st = "idle" /\ ~(since[w] > 0)
  BY <1>1, <1>4, Types DEF Shape
<1>6. \A v \in Callers \ {w} : stage'[v] = stage[v] /\ open'[v] = open[v]
  BY <1>1, <1>2, Types
<1>7. stage'[w] \in {"silent", "failed"} /\ (stage'[w] = "failed" => ~open'[w])
  BY <1>1, <1>2, <1>5, Types
<1>8. Charges' /\ preHello' \in [Peers -> 0..MaxPre]
  BY <1>1, <1>5, <1>6, <1>7, OneIsCharged
<1>9. TypeOK'
  BY <1>1, <1>2, <1>3, <1>8 DEF TypeOK
<1>10. Shaped'
  <2> SUFFICES ASSUME NEW v \in Callers
               PROVE  Shape(stage'[v], open'[v], released'[v], since'[v], call'[v], hello'[v])
    BY DEF Shaped
  <2>1. CASE v = w
    BY <1>1, <1>3, <1>5, <1>7, <2>1 DEF Shape
  <2>2. CASE v # w
    BY <1>1, <1>3, <1>6, <2>2 DEF Shaped
  <2> QED BY <2>1, <2>2
<1>11. Steadies
  BY <1>1, <1>6, <1>7 DEF Steadies
<1>12. Routed' /\ Founded' /\ AgentsOwnTheName'
  BY <1>1, <1>3, <1>6, <1>7, <1>11, SteadyStep
<1> QED BY <1>8, <1>9, <1>10, <1>12 DEF IInv

\* A step that shuts some sockets and drops, at most, w; calls may end.
LEMMA ShutInv ==
  ASSUME IInv, NEW ws, Shut(ws), StoreTypeOK', claims' = claims,
         call' = call \/ \E w \in Callers : Return(w),
         stage' = stage \/ \E w \in Callers : w \in ws /\ stage[w] \in {"silent", "checking"}
                                              /\ stage' = [stage EXCEPT ![w] = "dropped"] /\ call'[w].st = "idle",
         UNCHANGED <<peer, hello, released, preHello, agents, since, overtaken>>
  PROVE  IInv'
<1>1. TypeOK /\ Shaped /\ Charges
  BY DEF IInv
<1>2. \A v \in Callers : call'[v] = call[v] \/ call'[v] = Idle
  BY <1>1, Types DEF Return
<1>3. \A v \in Callers : open'[v] \in BOOLEAN /\ (open'[v] => open[v]) /\ (v \in ws => ~open'[v])
  BY <1>1, Types DEF Shut
<1>4. open' \in [Callers -> BOOLEAN]
  BY <1>1, Types DEF Shut
<1>5. \A v \in Callers : \/ stage'[v] = stage[v]
                         \/ v \in ws /\ stage[v] \in {"silent", "checking"} /\ stage'[v] = "dropped" /\ call'[v].st = "idle"
  BY <1>1, Types
<1>6. TypeOK'
  <2>1. stage' \in [Callers -> {"none", "silent", "checking", "admitted", "dropped", "failed", "closed"}]
    BY <1>1 DEF TypeOK
  <2> QED BY <1>1, <1>4, <2>1 DEF TypeOK
<1>7. Shaped'
  <2> SUFFICES ASSUME NEW v \in Callers
               PROVE  Shape(stage'[v], open'[v], released'[v], since'[v], call'[v], hello'[v])
    BY DEF Shaped
  <2>1. Shape(stage[v], open[v], released[v], since[v], call[v], hello[v])
    BY <1>1 DEF Shaped
  <2>2. CASE stage'[v] = stage[v]
    BY <1>2, <1>3, <2>1, <2>2, ShapeShut DEF Shape, Idle
  <2>3. CASE v \in ws /\ stage[v] \in {"silent", "checking"} /\ stage'[v] = "dropped" /\ call'[v].st = "idle"
    BY <1>3, <2>1, <2>3 DEF Shape
  <2> QED BY <1>5, <2>2, <2>3
<1>8. Charges'
  BY <1>1, <1>5, ChargesStay
<1>9. Steadies
  BY <1>3, <1>5 DEF Steadies
<1>10. Routed' /\ Founded' /\ AgentsOwnTheName'
  BY <1>2, <1>5, <1>9, SteadyStep
<1> QED BY <1>6, <1>7, <1>8, <1>10 DEF IInv

LEMMA RejectedInv ==
  ASSUME IInv, NEW w \in Callers, Rejected(w)
  PROVE  IInv'
<1>1. TypeOK /\ Shaped /\ stage[w] = "silent"
  BY DEF IInv, Rejected
<1>2. call' = call /\ claims' = claims /\ StoreTypeOK'
  BY <1>1 DEF Rejected, storeVars, records, TypeOK, StoreTypeOK
<1>3. call[w].st = "idle"
  BY <1>1 DEF Shaped, Shape
<1> QED BY <1>1, <1>2, <1>3, ShutInv DEF Rejected, Drop

LEMMA GoneInv ==
  ASSUME IInv, NEW w \in Callers, Gone(w)
  PROVE  IInv'
<1>1. call' = call /\ claims' = claims /\ StoreTypeOK'
  BY DEF IInv, Gone, storeVars, records, TypeOK, StoreTypeOK
<1> QED BY <1>1, ShutInv DEF Gone

LEMMA DenyInv ==
  ASSUME IInv, NEW w \in Callers, Deny(w)
  PROVE  IInv'
<1>1. TypeOK /\ Shaped /\ StoreTypeOK /\ Return(w) /\ open[w] /\ call[w].st = "denied"
  BY DEF IInv, Deny, TypeOK
<1>2. StoreTypeOK' /\ claims' = claims
  BY <1>1, ReturnType, Untouched DEF Deny
<1>3. call'[w] = Idle
  BY <1>1, Types DEF Return
<1>4. stage[w] = "checking"
  BY <1>1 DEF Shaped, Shape
<1>5. /\ Shut({w}) /\ stage' = [stage EXCEPT ![w] = "dropped"]
      /\ UNCHANGED <<peer, hello, released, preHello, agents, since, overtaken>>
  BY DEF Deny, Drop
<1>6. call'[w].st = "idle" /\ w \in {w}
  BY <1>3 DEF Idle
<1>7. \E v \in Callers : v \in {w} /\ stage[v] \in {"silent", "checking"}
                         /\ stage' = [stage EXCEPT ![v] = "dropped"] /\ call'[v].st = "idle"
  BY <1>4, <1>5, <1>6
<1> QED BY <1>1, <1>2, <1>5, <1>7, ShutInv

LEMMA TooLateInv ==
  ASSUME IInv, NEW w \in Callers, TooLate(w)
  PROVE  IInv'
<1>1. TypeOK /\ StoreTypeOK /\ Return(w) /\ UNCHANGED regVars
  BY DEF IInv, TooLate, TypeOK
<1>2. StoreTypeOK' /\ claims' = claims
  BY <1>1, ReturnType, Untouched DEF TooLate
<1>3. Shut({})
  BY <1>1, Types DEF Shut, regVars
<1> QED BY <1>1, <1>2, <1>3, ShutInv DEF regVars
\* A check begins or moves on: what it found holds of the records of the moment.
LEMMA HelloInv ==
  ASSUME IInv, NEW w \in Callers, NEW s \in Names, NEW p \in Passwords, NEW d \in Devices, Hello(w, s, p, d)
  PROVE  IInv'
<1> DEFINE h == [name |-> s, pw |-> p, dev |-> d]
<1>1. /\ TypeOK /\ Shaped /\ Routed /\ Charges /\ Founded /\ AgentsOwnTheName
      /\ stage[w] = "silent" /\ open[w] /\ ClaimOrVerify(w, s, p)
      /\ hello' = [hello EXCEPT ![w] = h] /\ stage' = [stage EXCEPT ![w] = "checking"]
      /\ UNCHANGED <<open, peer, released, preHello, agents, since, overtaken>>
  BY DEF IInv, Hello
<1>2. h \in Hellos /\ h.name = s /\ h.pw = p
  BY DEF Hellos
<1> HIDE DEF h
<1>3. StoreTypeOK'
  BY <1>1, CallerType DEF Caller, TypeOK
<1>4. claims' = claims
  BY <1>1 DEF ClaimOrVerify, records
<1>5. /\ call'[w].st \in {"denied", "hashing", "comparing"} /\ call'[w].name = s /\ call'[w].pw = p
      /\ call'[w].st = "comparing" => claims[s] = call'[w].seen
      /\ \A v \in Callers \ {w} : call'[v] = call[v]
  BY <1>1, Types DEF ClaimOrVerify, At, Comparing
<1>6. /\ hello'[w] = h /\ stage'[w] = "checking"
      /\ \A v \in Callers \ {w} : hello'[v] = hello[v] /\ stage'[v] = stage[v]
  BY <1>1, Types
<1>7. TypeOK'
  <2>1. hello' \in [Callers -> [name : Names, pw : Passwords, dev : Devices] \cup {NoHello}]
    BY <1>1, <1>2 DEF TypeOK, Hellos
  <2>2. stage' \in [Callers -> {"none", "silent", "checking", "admitted", "dropped", "failed", "closed"}]
    BY <1>1 DEF TypeOK
  <2> QED BY <1>1, <1>3, <2>1, <2>2 DEF TypeOK
<1>8. Shaped'
  <2> SUFFICES ASSUME NEW v \in Callers
               PROVE  Shape(stage'[v], open'[v], released'[v], since'[v], call'[v], hello'[v])
    BY DEF Shaped
  <2>1. Shape(stage[v], open[v], released[v], since[v], call[v], hello[v])
    BY <1>1 DEF Shaped
  <2>2. CASE v = w
    BY <1>1, <1>2, <1>5, <1>6, <2>1, <2>2 DEF Shape
  <2>3. CASE v # w
    BY <1>1, <1>5, <1>6, <2>1, <2>3
  <2> QED BY <2>2, <2>3
<1>9. Charges'
  BY <1>1, <1>6, ChargesStay
<1>10. Steadies
  BY <1>1, <1>6 DEF Steadies
<1>11. Founded'
  <2> SUFFICES ASSUME NEW v \in Callers, stage'[v] = "checking", v \notin overtaken' PROVE Holds(call[v])'
    BY DEF Founded
  <2>1. CASE v = w
    BY <1>4, <1>5, <2>1 DEF Holds
  <2>2. CASE v # w
    BY <1>1, <1>4, <1>5, <1>6, <2>2 DEF Holds, Founded
  <2> QED BY <2>1, <2>2
<1> QED BY <1>1, <1>4, <1>7, <1>8, <1>9, <1>10, <1>11, SteadyRouted, SteadyOwners DEF IInv

LEMMA CheckInv ==
  ASSUME IInv, NEW w \in Callers, Check(w)
  PROVE  IInv'
<1> DEFINE s == call[w].name
           p == call[w].pw
<1>1. /\ TypeOK /\ Shaped /\ Routed /\ Charges /\ Founded /\ AgentsOwnTheName /\ StoreTypeOK
      /\ UNCHANGED regVars /\ (Hashed(w) \/ Compared(w)) /\ Quiet
  BY DEF IInv, Check, TypeOK, Hashed, Compared
<1>2. StoreTypeOK'
  BY <1>1, CallerType DEF Caller
<1>3. s \in Names /\ p \in Passwords /\ call[w].st \in {"hashing", "comparing"}
  BY <1>1, CallInProgress DEF Hashed, Compared
<1>4. \/ claims' = claims
      \/ NewClaim(w, s, p) /\ claims[s] = NoClaim
  BY <1>1 DEF Hashed, Compared, records, TakenSince
<1>5. /\ call'[w].st \in {"comparing", "ok", "denied"} /\ call'[w].name = s /\ call'[w].pw = p
      /\ \A v \in Callers \ {w} : call'[v] = call[v]
  BY <1>1, Types DEF Hashed, Compared, NewClaim, At, Comparing
<1>6. TypeOK'
  BY <1>1, <1>2 DEF TypeOK, regVars
<1>7. Shaped'
  <2> SUFFICES ASSUME NEW v \in Callers
               PROVE  Shape(stage'[v], open'[v], released'[v], since'[v], call'[v], hello'[v])
    BY DEF Shaped
  <2>1. Shape(stage[v], open[v], released[v], since[v], call[v], hello[v])
    BY <1>1 DEF Shaped
  <2>2. CASE v = w
    BY <1>1, <1>3, <1>5, <2>1, <2>2 DEF Shape, regVars
  <2>3. CASE v # w
    BY <1>1, <1>5, <2>1, <2>3 DEF regVars
  <2> QED BY <2>2, <2>3
<1>8. Charges'
  BY <1>1, ChargesStay DEF regVars
<1>9. Routed'
  BY <1>1, SteadyRouted DEF Steadies, regVars
<1>10. \A n \in Names : claims[n] # NoClaim => claims'[n] = claims[n]
  BY <1>3, <1>4, Types, <1>1 DEF NewClaim
<1>11. AgentsOwnTheName'
  <2> SUFFICES ASSUME NEW v \in Callers, Live(v), v \notin overtaken
               PROVE  claims'[hello[v].name] # NoClaim /\ claims'[hello[v].name].pw = hello[v].pw
    BY <1>1 DEF AgentsOwnTheName, regVars, Live
  <2>1. claims[hello[v].name] # NoClaim /\ claims[hello[v].name].pw = hello[v].pw
    BY <1>1 DEF AgentsOwnTheName
  <2>2. hello[v].name \in Names
    BY <1>1 DEF Shaped, Shape, Live, Hellos
  <2> QED BY <1>10, <2>1, <2>2
<1>12. Founded'
  <2> SUFFICES ASSUME NEW v \in Callers, stage[v] = "checking", v \notin overtaken PROVE Holds(call[v])'
    BY <1>1 DEF Founded, regVars
  <2>1. Holds(call[v])
    BY <1>1 DEF Founded
  <2>2. CASE v # w
    <3>1. call[v].st = "comparing" => claims[call[v].name] = call[v].seen /\ call[v].name \in Names /\ call[v].seen # NoClaim
      BY <1>1, <2>1, CallInProgress, Types DEF Holds
    <3>2. call[v].st # "ok"
      BY <1>1 DEF Quiet
    <3> QED BY <1>5, <1>10, <2>2, <3>1, <3>2 DEF Holds
  <2>3. CASE v = w /\ Compared(w)
    <3>1. claims[s] = call[w].seen /\ call[w].seen # NoClaim /\ claims' = claims
      BY <1>1, <2>1, <2>3, CallInProgress, Types DEF Holds, Compared, records
    <3>2. call'[w].st = "ok" => claims[s].pw = p
      BY <1>1, <2>3, <3>1, Types DEF Compared, At
    <3>3. call'[w].st # "comparing"
      BY <1>1, <2>3, Types DEF Compared, At
    <3> QED BY <1>5, <2>3, <3>1, <3>2, <3>3 DEF Holds
  <2>4. CASE v = w /\ Hashed(w)
    <3>1. CASE NewClaim(w, s, p)
      <4>1. claims'[s] = [pw |-> p, ver |-> minted + 1] /\ minted + 1 \in 1..MaxVersion
        BY <1>1, <1>3, <3>1, Types, ClaimStoreAssumption DEF NewClaim, StoreTypeOK
      <4>2. claims'[s] # NoClaim /\ claims'[s].pw = p
        BY <1>3, <4>1, ClaimStoreAssumption
      <4>3. call'[w].st = "ok"
        BY <1>1, <3>1, Types DEF NewClaim, At
      <4> QED BY <1>5, <2>4, <4>2, <4>3 DEF Holds
    <3>2. CASE Comparing(w, s, p) /\ claims' = claims
      <4>1. call'[w].st = "comparing" /\ call'[w].seen = claims[s]
        BY <1>1, <3>2, Types DEF Comparing
      <4> QED BY <1>5, <2>4, <3>2, <4>1 DEF Holds
    <3>3. CASE At(w, "denied", s, p)
      <4>1. call'[w].st = "denied"
        BY <1>1, <3>3, Types DEF At
      <4> QED BY <2>4, <4>1 DEF Holds
    <3> QED BY <2>4, <3>1, <3>2, <3>3 DEF Hashed, records
  <2> QED BY <1>1, <2>2, <2>3, <2>4
<1> QED BY <1>6, <1>7, <1>8, <1>9, <1>11, <1>12 DEF IInv
LEMMA AdmitInv ==
  ASSUME IInv, NEW w \in Callers, Admit(w)
  PROVE  IInv'
<1> DEFINE h == hello[w]
           before == agents[h.name][h.dev]
           ranked == {v \in Callers : since[v] > 0}
<1>1. /\ TypeOK /\ Shaped /\ Routed /\ Charges /\ Founded /\ AgentsOwnTheName /\ StoreTypeOK
      /\ call[w].st = "ok" /\ open[w] /\ Return(w) /\ Release(w) /\ TouchDevice(h.name, h.dev)
      /\ open' = [v \in Callers |-> open[v] /\ v \notin {before}]
      /\ agents' = [agents EXCEPT ![h.name][h.dev] = w]
      /\ stage' = [stage EXCEPT ![w] = "admitted"]
      /\ since' = [since EXCEPT ![w] = Cardinality(ranked) + 1]
      /\ UNCHANGED <<peer, hello, overtaken>>
  BY DEF IInv, Admit, TypeOK, Supersede, Shut
<1>2. Shape(stage[w], open[w], released[w], since[w], call[w], hello[w])
  BY <1>1 DEF Shaped
<1>3. /\ stage[w] = "checking" /\ h \in Hellos /\ h.name = call[w].name /\ h.pw = call[w].pw
      /\ ~(since[w] > 0) /\ ~released[w]
  BY <1>1, <1>2 DEF Shape
<1>4. h.name \in Names /\ h.pw \in Passwords /\ h.dev \in Devices
  BY <1>3 DEF Hellos
<1> HIDE DEF h
<1>5. call' \in [Callers -> CallSet] /\ call'[w] = Idle /\ \A v \in Callers \ {w} : call'[v] = call[v]
  BY <1>1, ReturnType, Types DEF Return
<1>6. StoreTypeOK' /\ claims' = claims
  BY <1>1, <1>4, <1>5, StoreKeepsType
<1>7. stage'[w] = "admitted" /\ \A v \in Callers \ {w} : stage'[v] = stage[v]
  BY <1>1, Types
<1>8. Charges' /\ preHello' \in [Peers -> 0..MaxPre] /\ released' \in [Callers -> BOOLEAN]
  BY <1>1, <1>3, <1>7, ReleaseIsExact
<1>9. Cardinality(ranked) + 1 \in 1..Cardinality(Callers)
  <2>1. ranked \subseteq Callers \ {w}
    BY <1>3
  <2>2. IsFiniteSet(Callers \ {w}) /\ Cardinality(Callers \ {w}) = Cardinality(Callers) - 1
    BY RegistryAssumption, FS_RemoveElement
  <2>3. IsFiniteSet(ranked) /\ Cardinality(ranked) <= Cardinality(Callers \ {w})
    BY <2>1, <2>2, FS_Subset
  <2>4. Cardinality(ranked) \in Nat /\ Cardinality(Callers) \in Nat
    BY <2>3, RegistryAssumption, FS_CardinalityType
  <2> HIDE DEF ranked
  <2> QED BY <2>2, <2>3, <2>4
<1>10. /\ since'[w] > 0 /\ since' \in [Callers -> 0..Cardinality(Callers)]
       /\ \A v \in Callers \ {w} : since'[v] = since[v]
  <2> HIDE DEF ranked
  <2> QED BY <1>1, <1>9, Types
<1>11. /\ open' \in [Callers -> BOOLEAN]
       /\ \A v \in Callers : (open'[v] => open[v]) /\ (v = before => ~open'[v])
  BY <1>1, Types
<1>12. /\ agents' \in [Names -> [Devices -> Callers \cup {NoSocket}]] /\ agents'[h.name][h.dev] = w
       /\ \A n \in Names, d \in Devices : ~(n = h.name /\ d = h.dev) => agents'[n][d] = agents[n][d]
  BY <1>1, <1>4, Types
<1>13. TypeOK'
  <2>1. stage' \in [Callers -> {"none", "silent", "checking", "admitted", "dropped", "failed", "closed"}]
    BY <1>1, Types
  <2> QED BY <1>1, <1>6, <1>8, <1>10, <1>11, <1>12, <2>1 DEF TypeOK
<1>14. Shaped'
  <2> SUFFICES ASSUME NEW v \in Callers
               PROVE  Shape(stage'[v], open'[v], released'[v], since'[v], call'[v], hello'[v])
    BY DEF Shaped
  <2>1. CASE v = w
    <3>1. released'[w]
      BY <1>1, Types DEF Release
    <3> QED BY <1>1, <1>3, <1>5, <1>7, <2>1, <3>1 DEF Shape, Idle, h
  <2>2. CASE v # w
    <3>1. Shape(stage[v], open[v], released[v], since[v], call[v], hello[v])
      BY <1>1 DEF Shaped
    <3>2. released'[v] = released[v]
      BY <1>1, <2>2, Types DEF Release
    <3>3. CASE open'[v] = open[v]
      BY <1>1, <1>5, <1>7, <1>10, <2>2, <3>1, <3>2, <3>3
    <3>4. CASE open'[v] = FALSE
      <4>1. Shape(stage[v], FALSE, released[v], since[v], call[v], hello[v])
        BY <3>1, ShapeShut
      <4> QED BY <1>1, <1>5, <1>7, <1>10, <2>2, <3>2, <3>4, <4>1
    <3> QED BY <1>11, <3>3, <3>4, Types, <1>1
  <2> QED BY <2>1, <2>2
<1>15. LiveIsRouted'
  <2> SUFFICES ASSUME NEW v \in Callers, stage'[v] = "admitted", open'[v]
               PROVE  agents'[hello[v].name][hello[v].dev] = v
    BY <1>1 DEF LiveIsRouted, Live, IsCurrent
  <2>1. CASE v = w
    BY <1>12, <2>1 DEF h
  <2>2. CASE v # w
    <3>1. agents[hello[v].name][hello[v].dev] = v /\ v # before
      BY <1>1, <1>7, <1>11, <2>2 DEF Routed, LiveIsRouted, Live, IsCurrent
    <3>2. hello[v].name \in Names /\ hello[v].dev \in Devices
      BY <1>1, <1>7, <2>2 DEF Shaped, Shape, Hellos
    <3> QED BY <1>12, <3>1, <3>2
  <2> QED BY <2>1, <2>2
<1>16. RoutedIsNotClosed'
  <2> SUFFICES ASSUME NEW n \in Names, NEW d \in Devices, agents'[n][d] # NoSocket
               PROVE  LET v == agents'[n][d] IN stage'[v] = "admitted" /\ hello[v].name = n /\ hello[v].dev = d
    BY <1>1 DEF RoutedIsNotClosed
  <2>1. CASE n = h.name /\ d = h.dev
    BY <1>7, <1>12, <2>1 DEF h
  <2>2. CASE ~(n = h.name /\ d = h.dev)
    <3>1. agents'[n][d] = agents[n][d] /\ agents[n][d] \in Callers
      BY <1>1, <1>12, <2>2, Types
    <3>2. LET v == agents[n][d] IN stage[v] = "admitted" /\ hello[v].name = n /\ hello[v].dev = d
      BY <1>1, <3>1 DEF Routed, RoutedIsNotClosed
    <3> QED BY <1>3, <1>7, <3>1, <3>2
  <2> QED BY <2>1, <2>2
<1>17. Founded'
  BY <1>1, <1>5, <1>6, <1>7, FoundedStays
<1>18. AgentsOwnTheName'
  <2> SUFFICES ASSUME NEW v \in Callers, stage'[v] = "admitted", open'[v], v \notin overtaken
               PROVE  claims[hello[v].name] # NoClaim /\ claims[hello[v].name].pw = hello[v].pw
    BY <1>1, <1>6 DEF AgentsOwnTheName, Live
  <2>1. CASE v = w
    BY <1>1, <1>3, <2>1 DEF Founded, Holds, h
  <2>2. CASE v # w
    BY <1>1, <1>7, <1>11, <2>2 DEF AgentsOwnTheName, Live
  <2> QED BY <2>1, <2>2
<1> QED BY <1>8, <1>13, <1>14, <1>15, <1>16, <1>17, <1>18 DEF IInv, Routed
LEMMA CloseEventInv ==
  ASSUME IInv, NEW w \in Callers, CloseEvent(w)
  PROVE  IInv'
<1> DEFINE h == hello[w]
<1>1. /\ TypeOK /\ Shaped /\ Routed /\ Charges /\ Founded /\ AgentsOwnTheName /\ StoreTypeOK
      /\ ~open[w] /\ stage[w] \notin {"none", "failed", "closed"} /\ stage' = [stage EXCEPT ![w] = "closed"]
      /\ Release(w) /\ Unroute(w)
      /\ UNCHANGED <<call, open, peer, hello, since, overtaken>>
  BY DEF IInv, CloseEvent, TypeOK
<1>2. stage'[w] = "closed" /\ \A v \in Callers \ {w} : stage'[v] = stage[v]
  BY <1>1, Types
<1>3. stage[w] = "admitted" => h \in Hellos /\ h.name \in Names /\ h.dev \in Devices
  BY <1>1 DEF Shaped, Shape, Hellos
<1>4. call' \in [Callers -> CallSet]
  BY <1>1, Types
<1>5. StoreTypeOK' /\ claims' = claims
  <2>1. CASE stage[w] = "admitted" /\ IsCurrent(w)
    BY <1>1, <1>3, <1>4, <2>1, StoreKeepsType DEF Unroute, Vacate
  <2>2. CASE ~(stage[w] = "admitted" /\ IsCurrent(w))
    BY <1>1, <1>4, <2>2, Untouched DEF Unroute
  <2> QED BY <2>1, <2>2
<1>6. Charges' /\ preHello' \in [Peers -> 0..MaxPre] /\ released' \in [Callers -> BOOLEAN]
  BY <1>1, <1>2, ReleaseIsExact
\* Only the place of w itself is vacated.
<1>7. /\ agents' \in [Names -> [Devices -> Callers \cup {NoSocket}]]
      /\ \A n \in Names, d \in Devices : \/ agents'[n][d] = agents[n][d] /\ agents[n][d] # w
                                         \/ agents'[n][d] = NoSocket /\ agents[n][d] = w
  <2>1. CASE stage[w] = "admitted" /\ IsCurrent(w)
    <3>1. agents' = [agents EXCEPT ![h.name][h.dev] = NoSocket] /\ agents[h.name][h.dev] = w
      BY <1>1, <2>1 DEF Unroute, Vacate, IsCurrent
    <3>2. \A n \in Names, d \in Devices : agents[n][d] = w => n = h.name /\ d = h.dev
      BY <1>1, Types DEF Routed, RoutedIsNotClosed
    <3> HIDE DEF h
    <3> QED BY <1>1, <1>3, <2>1, <3>1, <3>2, Types
  <2>2. CASE ~(stage[w] = "admitted" /\ IsCurrent(w))
    <3>1. agents' = agents
      BY <1>1, <2>2 DEF Unroute
    <3>2. \A n \in Names, d \in Devices : agents[n][d] # w
      BY <1>1, <2>2, Types DEF Routed, RoutedIsNotClosed, IsCurrent
    <3> QED BY <1>1, <3>1, <3>2, Types
  <2> QED BY <2>1, <2>2
<1>8. TypeOK'
  <2>1. stage' \in [Callers -> {"none", "silent", "checking", "admitted", "dropped", "failed", "closed"}]
    BY <1>1, Types
  <2> QED BY <1>1, <1>5, <1>6, <1>7, <2>1 DEF TypeOK
<1>9. Shaped'
  <2> SUFFICES ASSUME NEW v \in Callers
               PROVE  Shape(stage'[v], open'[v], released'[v], since'[v], call'[v], hello'[v])
    BY DEF Shaped
  <2>1. Shape(stage[v], open[v], released[v], since[v], call[v], hello[v])
    BY <1>1 DEF Shaped
  <2>2. CASE v = w
    <3>1. released'[v]
      BY <1>1, <2>2, Types DEF Release
    <3> QED BY <1>1, <1>2, <2>1, <2>2, <3>1 DEF Shape
  <2>3. CASE v # w
    <3>1. released'[v] = released[v]
      BY <1>1, <2>3, Types DEF Release
    <3> QED BY <1>1, <1>2, <2>1, <2>3, <3>1
  <2> QED BY <2>2, <2>3
<1>10. LiveIsRouted'
  <2> SUFFICES ASSUME NEW v \in Callers, stage'[v] = "admitted", open[v]
               PROVE  agents'[hello[v].name][hello[v].dev] = v
    BY <1>1 DEF LiveIsRouted, Live, IsCurrent
  <2>1. v # w /\ stage[v] = "admitted"
    BY <1>2
  <2>2. agents[hello[v].name][hello[v].dev] = v /\ hello[v].name \in Names /\ hello[v].dev \in Devices
    BY <1>1, <2>1 DEF Routed, LiveIsRouted, Live, IsCurrent, Shaped, Shape, Hellos
  <2> QED BY <1>7, <2>1, <2>2
<1>11. RoutedIsNotClosed'
  <2> SUFFICES ASSUME NEW n \in Names, NEW d \in Devices, agents'[n][d] # NoSocket
               PROVE  LET v == agents'[n][d] IN stage'[v] = "admitted" /\ hello[v].name = n /\ hello[v].dev = d
    BY <1>1 DEF RoutedIsNotClosed
  <2>1. agents'[n][d] = agents[n][d] /\ agents[n][d] # w /\ agents[n][d] \in Callers
    BY <1>1, <1>7, Types
  <2>2. LET v == agents[n][d] IN stage[v] = "admitted" /\ hello[v].name = n /\ hello[v].dev = d
    BY <1>1, <2>1 DEF Routed, RoutedIsNotClosed
  <2> QED BY <1>2, <2>1, <2>2
<1>12. Founded'
  BY <1>1, <1>2, <1>5, FoundedStays
<1>13. AgentsOwnTheName'
  BY <1>1, <1>2, <1>5 DEF AgentsOwnTheName, Live
<1> QED BY <1>6, <1>8, <1>9, <1>10, <1>11, <1>12, <1>13 DEF IInv, Routed

-----------------------------------------------------------------------------
(* The admin, the timer and the end of the process.                        *)

LEMMA KickInv ==
  ASSUME IInv, NEW s \in Names, AdminKick(s)
  PROVE  IInv'
<1>1. call' = call /\ claims' = claims /\ StoreTypeOK'
  BY DEF IInv, AdminKick, Elsewhere, intact, records, TypeOK, StoreTypeOK
<1> QED BY <1>1, ShutInv DEF AdminKick, Kick, Elsewhere

\* A release or a ban deletes the claim: its live agents are kicked, the checks of its
\* name overtaken.
LEMMA EraseInv ==
  ASSUME IInv, NEW s \in Names, Kick(s), Elsewhere, Overtake(s), Erase(s), StoreTypeOK'
  PROVE  IInv'
<1>1. /\ TypeOK /\ Shaped /\ Routed /\ Charges /\ Founded /\ AgentsOwnTheName
      /\ UNCHANGED <<call, stage, peer, hello, released, preHello, agents, since>>
  BY DEF IInv, Elsewhere
<1>2. /\ open' \in [Callers -> BOOLEAN]
      /\ \A v \in Callers : (open'[v] => open[v]) /\ (v \in Group(s) => ~open'[v])
  BY <1>1, Types DEF Kick, Shut
<1>3. /\ \A n \in Names \ {s} : claims'[n] = claims[n]
      /\ overtaken' \subseteq Callers /\ overtaken \subseteq overtaken'
      /\ \A v \in Callers : stage[v] = "checking" /\ hello[v].name = s => v \in overtaken'
  BY <1>1 DEF Erase, Overtake, TypeOK, StoreTypeOK
<1>4. TypeOK'
  BY <1>1, <1>2, <1>3 DEF TypeOK
<1>5. Shaped'
  <2> SUFFICES ASSUME NEW v \in Callers
               PROVE  Shape(stage[v], open'[v], released[v], since[v], call[v], hello[v])
    BY <1>1 DEF Shaped
  <2>1. Shape(stage[v], open[v], released[v], since[v], call[v], hello[v])
    BY <1>1 DEF Shaped
  <2>2. CASE open'[v] = FALSE
    <3>1. Shape(stage[v], FALSE, released[v], since[v], call[v], hello[v])
      BY <2>1, ShapeShut
    <3> QED BY <2>2, <3>1
  <2>3. CASE open'[v] = open[v]
    BY <2>1, <2>3
  <2>4. open'[v] = FALSE \/ open'[v] = open[v]
    BY <1>1, <1>2, Types
  <2> QED BY <2>2, <2>3, <2>4
<1>6. Charges'
  BY <1>1, ChargesStay
<1>7. Routed'
  BY <1>1, <1>2, <1>3, SteadyRouted DEF Steadies
<1>8. Founded'
  <2> SUFFICES ASSUME NEW v \in Callers, stage[v] = "checking", v \notin overtaken' PROVE Holds(call[v])'
    BY <1>1 DEF Founded
  <2>1. Holds(call[v]) /\ hello[v].name # s
    BY <1>1, <1>3 DEF Founded
  <2>2. CASE call[v].st \notin {"comparing", "ok"}
    BY <1>1, <2>2 DEF Holds
  <2>3. CASE call[v].st \in {"comparing", "ok"}
    <3>1. call[v].name \in Names \ {s}
      BY <1>1, <2>1, <2>3, CallInProgress DEF Shaped, Shape, TypeOK
    <3> QED BY <1>1, <1>3, <2>1, <3>1 DEF Holds
  <2> QED BY <2>2, <2>3
<1>9. AgentsOwnTheName'
  <2> SUFFICES ASSUME NEW v \in Callers, stage[v] = "admitted", open'[v], v \notin overtaken'
               PROVE  claims'[hello[v].name] # NoClaim /\ claims'[hello[v].name].pw = hello[v].pw
    BY <1>1 DEF AgentsOwnTheName, Live
  <2>1. claims[hello[v].name] # NoClaim /\ claims[hello[v].name].pw = hello[v].pw
    BY <1>1, <1>2, <1>3 DEF AgentsOwnTheName, Live
  <2>2. hello[v].name \in Names /\ hello[v].dev \in Devices
    BY <1>1 DEF Shaped, Shape, Hellos
  <2>3. agents[hello[v].name][hello[v].dev] = v
    BY <1>1, <1>2 DEF Routed, LiveIsRouted, Live, IsCurrent
  <2>4. hello[v].name # s
    BY <1>1, <1>2, <2>2, <2>3, RegistryAssumption DEF Group
  <2> QED BY <1>3, <2>1, <2>2, <2>4
<1> QED BY <1>4, <1>5, <1>6, <1>7, <1>8, <1>9 DEF IInv

LEMMA AdminInv ==
  ASSUME IInv, NEW s \in Names, Admin(s)
  PROVE  IInv'
<1>1. StoreTypeOK
  BY DEF IInv, TypeOK
<1>2. ASSUME AdminRelease(s) \/ AdminBan(s) PROVE IInv'
  <2>1. Event
    BY <1>2 DEF AdminRelease, AdminBan, Elsewhere, Event
  <2>2. StoreTypeOK'
    BY <1>1, <2>1, EventType
  <2> QED BY <1>2, <2>2, EraseInv DEF AdminRelease, AdminBan, Remove, Ban
<1>3. CASE AdminUnban(s)
  <2>1. Event
    BY <1>3 DEF AdminUnban, Elsewhere, Event
  <2>2. StoreTypeOK' /\ claims' = claims /\ call' = call
    BY <1>1, <1>3, <2>1, EventType DEF AdminUnban, Elsewhere, Unban
  <2>3. Shut({})
    <3>1. open' = open /\ open \in [Callers -> BOOLEAN]
      BY <1>3 DEF AdminUnban, IInv, TypeOK
    <3> QED BY <3>1 DEF Shut
  <2> QED BY <1>3, <2>2, <2>3, ShutInv DEF AdminUnban, Elsewhere
<1> QED BY <1>2, <1>3, KickInv DEF Admin

LEMMA TimerInv == ASSUME IInv, Timer PROVE IInv'
<1>1. StoreTypeOK /\ Event
  BY DEF IInv, TypeOK, Timer, Event
<1>2. StoreTypeOK' /\ claims' = claims /\ call' = call
  BY <1>1, EventType DEF Timer, Flush, records
<1>3. Shut({})
  <2>1. open' = open /\ open \in [Callers -> BOOLEAN]
    BY DEF Timer, regVars, IInv, TypeOK
  <2> QED BY <2>1 DEF Shut
<1> QED BY <1>2, <1>3, ShutInv DEF Timer, regVars

LEMMA RestartInv == ASSUME IInv, RelayRestart PROVE IInv'
<1>1. /\ TypeOK /\ Shaped /\ Restart
      /\ stage' = [w \in Callers |-> IF stage[w] = "none" THEN "none" ELSE "closed"]
      /\ open' = [w \in Callers |-> FALSE]
      /\ released' = [w \in Callers |-> stage[w] # "none"]
      /\ preHello' = [p \in Peers |-> 0]
      /\ agents' = Nowhere
      /\ UNCHANGED <<peer, hello, since, overtaken>>
  BY DEF IInv, RelayRestart
<1>2. StoreTypeOK' /\ \A v \in Callers : call'[v] = Idle
  BY <1>1, RestartType DEF TypeOK, Restart
<1>3. TypeOK'
  <2>1. preHello' \in [Peers -> 0..MaxPre]
    BY <1>1, RegistryAssumption
  <2> QED BY <1>1, <1>2, <2>1 DEF TypeOK, Nowhere
<1>4. Shaped'
  <2> SUFFICES ASSUME NEW v \in Callers
               PROVE  Shape(stage'[v], open'[v], released'[v], since[v], Idle, hello[v])
    BY <1>1, <1>2 DEF Shaped
  <2>1. /\ stage'[v] = IF stage[v] = "none" THEN "none" ELSE "closed"
        /\ open'[v] = FALSE /\ released'[v] = (stage[v] # "none")
    BY <1>1
  <2>2. since[v] > 0 => stage[v] # "none"
    BY <1>1 DEF Shaped, Shape
  <2> QED BY <2>1, <2>2 DEF Shape, Idle
<1>5. Charges'
  <2> SUFFICES ASSUME NEW p \in Peers PROVE preHello'[p] = Cardinality(Charged(p)')
    BY DEF Charges
  <2>1. Charged(p)' = {}
    BY <1>1 DEF Charged
  <2> QED BY <1>1, <2>1, FS_EmptySet
<1>6. \A v \in Callers : stage'[v] \notin {"checking", "admitted"}
  BY <1>1
<1> QED BY <1>1, <1>3, <1>4, <1>5, <1>6
        DEF IInv, Routed, LiveIsRouted, RoutedIsNotClosed, Nowhere, Live, Founded, AgentsOwnTheName

LEMMA StepInv == IInv /\ [Next]_vars => IInv'
<1> SUFFICES ASSUME IInv, [Next]_vars PROVE IInv'
  OBVIOUS
<1>1. ASSUME NEW w \in Callers, Socket(w) PROVE IInv'
  BY <1>1, UpgradeInv, HelloInv, RejectedInv, CheckInv, AdmitInv, DenyInv, TooLateInv, GoneInv, CloseEventInv DEF Socket
<1>2. ASSUME NEW s \in Names, Admin(s) PROVE IInv'
  BY <1>2, AdminInv
<1>3. CASE UNCHANGED vars
  <2>1. call' = call /\ claims' = claims /\ StoreTypeOK' /\ UNCHANGED regVars
    BY <1>3 DEF vars, storeVars, records, IInv, TypeOK, StoreTypeOK
  <2>2. Shut({})
    BY <2>1 DEF Shut, regVars, IInv, TypeOK
  <2> QED BY <2>1, <2>2, ShutInv DEF regVars
<1> QED BY <1>1, <1>2, <1>3, TimerInv, RestartInv DEF Next

-----------------------------------------------------------------------------
(* The theorems.                                                           *)

LEMMA Invariance == Spec => []IInv
BY InitInv, StepInv, PTL DEF Spec

\* The variables of the registry and of the store under it keep their types.
THEOREM RegistryTypeOK == Spec => []TypeOK
<1>1. IInv => TypeOK
  BY DEF IInv
<1> QED BY <1>1, Invariance, PTL

\* However admissions, supersessions, kicks and late 'close' events meet, a live agent
\* is the one its name and device are routed to (LiveIsRouted of the checked runs).
THEOREM LiveAgentsAreRouted == Spec => []LiveIsRouted
<1>1. IInv => LiveIsRouted
  BY DEF IInv, Routed
<1> QED BY <1>1, Invariance, PTL

\* The routing table names only sockets whose 'close' is still to come (RoutedIsNotClosed).
THEOREM TableNamesTheLiving == Spec => []RoutedIsNotClosed
<1>1. IInv => RoutedIsNotClosed
  BY DEF IInv, Routed
<1> QED BY <1>1, Invariance, PTL

\* A peer is charged for its unauthenticated sockets and for the handshakes that failed
\* before there was a socket, for no more and no fewer: a socket that is admitted or gone is
\* charged nothing (BudgetIsExact).
THEOREM BudgetStaysExact == Spec => []BudgetIsExact
<1>1. IInv => BudgetIsExact
  <2> SUFFICES ASSUME IInv, NEW p \in Peers
               PROVE  preHello[p] = Cardinality(Unauthenticated(p)) + Cardinality(Aborted(p))
    BY DEF BudgetIsExact
  <2>1. Charged(p) = Unauthenticated(p) \cup Aborted(p)
    <3>1. \A w \in Callers : stage[w] \in {"none", "silent", "checking", "admitted", "dropped", "failed", "closed"}
      BY DEF IInv, TypeOK
    <3> QED BY <3>1 DEF IInv, Shaped, Shape, Charged, Unauthenticated, Aborted
  <2>2. Unauthenticated(p) \cap Aborted(p) = {}
    BY DEF Unauthenticated, Aborted
  <2>3. IsFiniteSet(Unauthenticated(p)) /\ IsFiniteSet(Aborted(p))
    <3>1. Unauthenticated(p) \subseteq Callers /\ Aborted(p) \subseteq Callers
      BY DEF Unauthenticated, Aborted
    <3> QED BY <3>1, RegistryAssumption, FS_Subset
  <2>4. Cardinality(Charged(p)) = Cardinality(Unauthenticated(p)) + Cardinality(Aborted(p))
    <3>1. Cardinality(Unauthenticated(p) \cup Aborted(p))
            = Cardinality(Unauthenticated(p)) + Cardinality(Aborted(p)) - Cardinality(Unauthenticated(p) \cap Aborted(p))
      BY <2>3, FS_Union
    <3>2. Cardinality(Unauthenticated(p) \cap Aborted(p)) = 0
      BY <2>2, FS_EmptySet
    <3>3. Cardinality(Unauthenticated(p)) \in Nat /\ Cardinality(Aborted(p)) \in Nat
      BY <2>3, FS_CardinalityType
    <3> QED BY <2>1, <3>1, <3>2, <3>3
  <2> QED BY <2>4 DEF IInv, Charges
<1> QED BY <1>1, Invariance, PTL

\* A live agent presented the password of the claim that stands, unless its name was
\* released or banned while the password was being checked (AgentsOwnTheName).
THEOREM OwnersOnly == Spec => []AgentsOwnTheName
<1>1. IInv => AgentsOwnTheName
  BY DEF IInv
<1> QED BY <1>1, Invariance, PTL
-----------------------------------------------------------------------------
(* The store under the registry.                                           *)

\* An admission returns from the store and touches the device in one step.
Admission == \E w \in Callers, s \in Names, d \in Devices : Return(w) /\ TouchDevice(s, d)

LEMMA StoreMoves ==
  ASSUME IInv, [Next]_vars
  PROVE  [StoreNext]_storeVars \/ Admission
<1> USE DEF StoreNext
<1>1. ASSUME NEW w \in Callers, Socket(w) PROVE StoreNext \/ UNCHANGED storeVars \/ Admission
  <2>1. ASSUME NEW s \in Names, NEW p \in Passwords, NEW d \in Devices, Hello(w, s, p, d) PROVE StoreNext
    BY <2>1 DEF Hello, Caller
  <2>2. CASE Check(w)
    BY <2>2 DEF Check, Caller
  <2>3. CASE Admit(w)
    <3>1. call[w].st # "idle"
      BY <2>3 DEF Admit
    <3>2. hello[w].name \in Names /\ hello[w].dev \in Devices
      BY <3>1 DEF IInv, Shaped, Shape, Hellos
    <3> QED BY <2>3, <3>2 DEF Admit, Admission
  <2>4. CASE Deny(w) \/ TooLate(w)
    <3>1. Return(w) /\ UNCHANGED <<records, minted>> /\ NotPersisted
      BY <2>4 DEF Deny, TooLate, intact, NotPersisted, records
    <3> QED BY <3>1 DEF Caller
  <2>5. CASE Upgrade(w) \/ Rejected(w) \/ Gone(w)
    BY <2>5 DEF Upgrade, Rejected, Gone
  <2>6. CASE CloseEvent(w)
    <3>1. CASE stage[w] = "admitted" /\ IsCurrent(w)
      <4>1. hello[w].name \in Names /\ hello[w].dev \in Devices
        BY <3>1 DEF IInv, Shaped, Shape, Hellos
      <4>2. Quiet /\ UNCHANGED call /\ TouchDevice(hello[w].name, hello[w].dev)
        BY <2>6, <3>1 DEF CloseEvent, Unroute, Vacate
      <4> QED BY <4>1, <4>2 DEF Event
    <3>2. CASE ~(stage[w] = "admitted" /\ IsCurrent(w))
      BY <2>6, <3>2 DEF CloseEvent, Unroute, intact, storeVars, records
    <3> QED BY <3>1, <3>2
  <2> QED BY <1>1, <2>1, <2>2, <2>3, <2>4, <2>5, <2>6 DEF Socket
<1>2. ASSUME NEW s \in Names, Admin(s) PROVE StoreNext \/ UNCHANGED storeVars
  <2>1. CASE AdminKick(s)
    BY <2>1 DEF AdminKick, Elsewhere, intact, storeVars, records
  <2>2. CASE AdminRelease(s) \/ AdminBan(s) \/ AdminUnban(s)
    BY <2>2 DEF AdminRelease, AdminBan, AdminUnban, Elsewhere, Event
  <2> QED BY <1>2, <2>1, <2>2 DEF Admin
<1>3. CASE Timer
  BY <1>3 DEF Timer, Event
<1>4. CASE RelayRestart
  BY <1>4 DEF RelayRestart
<1>5. CASE UNCHANGED vars
  BY <1>5 DEF vars
<1> QED BY <1>1, <1>2, <1>3, <1>4, <1>5 DEF Next

\* The store is as sound under the registry as it is by itself.
Safe == Sound /\ FileIsSound /\ FileIsCurrent

LEMMA SafeStep ==
  ASSUME IInv, Safe, [Next]_vars
  PROVE  Safe'
<1>1. StoreTypeOK
  BY DEF IInv, TypeOK
<1>2. CASE [StoreNext]_storeVars
  BY <1>1, <1>2, StepKeepsSound, StepKeepsFileCurrent DEF Safe
<1>3. ASSUME NEW w \in Callers, NEW s \in Names, NEW d \in Devices, Return(w), TouchDevice(s, d) PROVE Safe'
  <2>1. /\ UNCHANGED <<claims, banned>>
        /\ (UNCHANGED known /\ NotPersisted) \/ (claims[s] # NoClaim /\ PersistLazily)
    BY <1>3 DEF TouchDevice
  <2>2. \A n \in Names : n # s => known'[n] = known[n]
    BY <1>1, <1>3 DEF TouchDevice, StoreTypeOK
  <2>3. Sound'
    BY <2>1, <2>2 DEF Safe, Sound, BannedIsFree, NoStrayDevices, StoreTypeOK
  <2>4. FileIsSound'
    BY <1>1, <2>1, <2>3, WritesKeepSound DEF Safe
  <2>5. FileIsCurrent'
    BY <2>1 DEF Safe, FileIsCurrent, NotPersisted, PersistLazily
  <2> QED BY <2>3, <2>4, <2>5 DEF Safe
<1> QED BY <1>2, <1>3, StoreMoves DEF Admission

LEMMA AlwaysSafe == Spec => []Safe
<1>1. Init => Safe
  BY DEF Init, StoreInit, NoDevices, Safe, Sound, BannedIsFree, NoStrayDevices, FileIsSound, FileIsCurrent
<1>2. Safe /\ IInv /\ [Next]_vars => Safe'
  BY SafeStep
<1> QED BY <1>1, <1>2, Invariance, PTL DEF Spec

LEMMA NeverBehindHere == ASSUME MayFail = FALSE PROVE Spec => []~behind
<1>1. Init => ~behind
  BY DEF Init, StoreInit
<1>2. ~behind /\ IInv /\ [Next]_vars => ~behind'
  <2> SUFFICES ASSUME ~behind, IInv, [Next]_vars PROVE ~behind'
    OBVIOUS
  <2> USE DEF Persist, PersistLazily, NotPersisted
  <2>1. ASSUME NEW c \in Callers, Caller(c) PROVE ~behind'
    BY <2>1 DEF Caller, ClaimOrVerify, Hashed, NewClaim, Compared
  <2>2. CASE Event
    BY <2>2 DEF Event, Remove, Ban, Unban, TouchDevice, Flush
  <2>3. CASE Restart
    BY <2>3 DEF Restart
  <2>4. CASE Admission
    BY <2>4 DEF Admission, TouchDevice
  <2> QED BY <2>1, <2>2, <2>3, <2>4, StoreMoves DEF StoreNext, storeVars
<1> QED BY <1>1, <1>2, Invariance, PTL DEF Spec

\* With writes that succeed, the whole admission, with its kicks, releases, bans, late
\* closes and restarts, uses the store as one that decides each check at one instant
\* (ImplementsAtomicClaims of the registry's run).
THEOREM AdmissionIsAtomic == ASSUME MayFail = FALSE PROVE Spec => ImplementsAtomicClaims
<1>1. Init => Atomic!Init
  BY DEF Init, StoreInit, Atomic!Init, Atomic!OpIdle, Phase, Idle
<1>2. StoreInv /\ IInv /\ [Next]_vars => [Atomic!Next]_(Atomic!atomicVars)
  <2> SUFFICES ASSUME StoreInv, IInv, [Next]_vars
               PROVE  Atomic!Next \/ UNCHANGED <<claims, banned, minted, Op>>
    BY DEF Atomic!atomicVars, Op
  <2>1. ASSUME NEW c \in Callers, Caller(c) PROVE Atomic!Next \/ UNCHANGED <<claims, banned, minted, Op>>
    BY <2>1, AtomicClaimOrVerify, AtomicHashed, AtomicCompared, AtomicReturn DEF Caller, Atomic!Next, records
  <2>2. CASE Event
    BY <2>2, AtomicEvent DEF Atomic!Next
  <2>3. CASE Restart
    BY <2>3, AtomicRestart DEF Atomic!Next
  <2>4. CASE Admission
    BY <2>4, AtomicReturn DEF Admission, TouchDevice, Atomic!Next
  <2>5. CASE UNCHANGED storeVars
    BY <2>5 DEF storeVars, records, Op
  <2> QED BY <2>1, <2>2, <2>3, <2>4, <2>5, StoreMoves DEF StoreNext
<1>3. Spec => []StoreInv
  <2>1. IInv => StoreTypeOK
    BY DEF IInv, TypeOK
  <2>2. Safe => Sound /\ FileIsCurrent
    BY DEF Safe
  <2> QED BY <2>1, <2>2, Invariance, AlwaysSafe, NeverBehindHere, PTL DEF StoreInv
<1> QED BY <1>1, <1>2, <1>3, Invariance, PTL DEF Spec, ImplementsAtomicClaims, Atomic!Spec

-----------------------------------------------------------------------------
(* Which device serves a name.                                             *)

\* The ranks of the admissions: whoever is admitted has one, no two have the same, and
\* none is beyond the number of admissions.
Ranks ==
  /\ \A v \in Callers : stage[v] = "admitted" => since[v] > 0
  /\ \A v \in Callers : since[v] <= Cardinality({u \in Callers : since[u] > 0})
  /\ \A u, v \in Callers : since[u] > 0 /\ since[u] = since[v] => u = v

\* The choice that Resolve makes, of a name's row of the table and the ranks.
IsOldest(row, f, w) == \A d \in Devices : row[d] # NoSocket => w # NoSocket /\ f[w] <= f[row[d]]
Oldest(row, f)      == CHOOSE w \in {row[d] : d \in Devices} : IsOldest(row, f, w)

LEMMA ResolveIsOldest ==
  ASSUME NEW s
  PROVE  Resolve(s) = Oldest(agents[s], since) /\ Resolve(s)' = Oldest(agents'[s], since')
BY DEF Resolve, Oldest, IsOldest

Less == {ss \in Nat \X Nat : ss[1] < ss[2]}

LEMMA LeastRank ==
  ASSUME NEW T \in SUBSET Nat, T # {}
  PROVE  \E x \in T : \A y \in T : x <= y
<1>1. IsWellFoundedOn(Less, Nat)
  BY NatLessThanWellFounded DEF OpToRel, Less
<1>2. \A x, y \in Nat : ~ (<<y, x>> \in Less) => x <= y
  BY DEF Less
<1>3. PICK x \in T : \A y \in T : ~ (<<y, x>> \in Less)
  BY <1>1, WFMin
<1>4. \A y \in T : x <= y
  BY <1>2, <1>3
<1> QED BY <1>4

\* Resolve finds the oldest device of a row that has any.
LEMMA OldestIsThere ==
  ASSUME NEW row \in [Devices -> Callers \cup {NoSocket}], NEW f \in [Callers -> Nat], Devices # {}
  PROVE  Oldest(row, f) \in {row[d] : d \in Devices} /\ IsOldest(row, f, Oldest(row, f))
<1> DEFINE G == {row[d] : d \in Devices} \ {NoSocket}
           T == {f[w] : w \in G}
<1>1. \E w \in {row[d] : d \in Devices} : IsOldest(row, f, w)
  <2>1. CASE G = {}
    BY <2>1 DEF IsOldest
  <2>2. CASE G # {}
    <3>1. T \in SUBSET Nat /\ T # {}
      BY <2>2
    <3>2. PICK x \in T : \A y \in T : x <= y
      BY <3>1, LeastRank
    <3>3. PICK w \in G : x = f[w]
      OBVIOUS
    <3>4. \A d \in Devices : row[d] # NoSocket => f[row[d]] \in T
      OBVIOUS
    <3> QED BY <3>2, <3>3, <3>4 DEF IsOldest
  <2> QED BY <2>1, <2>2
<1> QED BY <1>1 DEF Oldest

\* It is r if r is in the row, and strictly older than every other device of it.
LEMMA OldestIs ==
  ASSUME NEW row \in [Devices -> Callers \cup {NoSocket}], NEW f \in [Callers -> Nat],
         NEW r \in Callers, r \in {row[d] : d \in Devices},
         \A d \in Devices : row[d] \notin {r, NoSocket} => f[r] < f[row[d]]
  PROVE  Oldest(row, f) = r
<1>1. PICK e \in Devices : r = row[e]
  OBVIOUS
<1>2. r # NoSocket /\ Devices # {}
  BY <1>1, RegistryAssumption
<1> DEFINE w == Oldest(row, f)
<1>3. w \in {row[d] : d \in Devices} /\ IsOldest(row, f, w)
  BY <1>2, OldestIsThere
<1> HIDE DEF w
<1>4. w # NoSocket /\ f[w] <= f[r]
  BY <1>1, <1>2, <1>3 DEF IsOldest
<1>5. PICK d \in Devices : w = row[d]
  BY <1>3
<1>6. ASSUME w # r PROVE FALSE
  <2>1. f[r] < f[w] /\ w \in Callers
    BY <1>4, <1>5, <1>6
  <2> QED BY <1>4, <2>1
<1> QED BY <1>6 DEF w

LEMMA RanksOfARow ==
  ASSUME IInv, Ranks, NEW s \in Names
  PROVE  /\ agents[s] \in [Devices -> Callers \cup {NoSocket}] /\ since \in [Callers -> Nat]
         /\ \A d \in Devices : agents[s][d] # NoSocket => agents[s][d] \in Callers /\ since[agents[s][d]] > 0
<1>1. /\ agents[s] \in [Devices -> Callers \cup {NoSocket}] /\ since \in [Callers -> Nat]
  BY Types DEF IInv, TypeOK
<1> QED BY <1>1 DEF IInv, Routed, RoutedIsNotClosed, Ranks

LEMMA AdmitRanks ==
  ASSUME IInv, Ranks, NEW w \in Callers, Admit(w)
  PROVE  /\ Ranks' /\ since' \in [Callers -> Nat]
         /\ \A v \in Callers \ {w} : since'[v] = since[v] /\ since[v] < since'[w]
<1> DEFINE ranked == {v \in Callers : since[v] > 0}
           n == Cardinality(ranked)
<1>1. since \in [Callers -> Nat] /\ stage \in [Callers -> {"none", "silent", "checking", "admitted", "dropped", "failed", "closed"}]
  BY DEF IInv, TypeOK
<1>2. since' = [since EXCEPT ![w] = n + 1] /\ stage' = [stage EXCEPT ![w] = "admitted"]
  BY DEF Admit
<1>3. ~(since[w] > 0)
  BY DEF Admit, IInv, Shaped, Shape
<1>4. IsFiniteSet(ranked) /\ n \in Nat
  <2>1. ranked \subseteq Callers
    OBVIOUS
  <2> QED BY <2>1, RegistryAssumption, FS_Subset, FS_CardinalityType
<1>5. \A v \in Callers : since[v] <= n
  BY DEF Ranks
<1>6. Cardinality({u \in Callers : since'[u] > 0}) = n + 1
  <2>1. Cardinality(ranked \cup {w}) = n + 1
    BY <1>3, <1>4, FS_AddElement
  <2>2. {u \in Callers : since'[u] > 0} = ranked \cup {w}
    <3> HIDE DEF n
    <3> QED BY <1>1, <1>2, <1>4
  <2> QED BY <2>1, <2>2
<1> HIDE DEF n, ranked
<1>7. since'[w] = n + 1 /\ since' \in [Callers -> Nat] /\ \A v \in Callers \ {w} : since'[v] = since[v]
  BY <1>1, <1>2, <1>4
<1>8. \A v \in Callers \ {w} : since[v] < since'[w]
  BY <1>1, <1>4, <1>5, <1>7
<1>9. \A v \in Callers : since'[v] <= n + 1
  BY <1>1, <1>4, <1>5, <1>7
<1>10. \A v \in Callers : stage'[v] = "admitted" => since'[v] > 0
  BY <1>1, <1>2, <1>4, <1>7 DEF Ranks
<1>11. ASSUME NEW u \in Callers, NEW v \in Callers, since'[u] > 0, since'[u] = since'[v] PROVE u = v
  BY <1>1, <1>7, <1>8, <1>11 DEF Ranks
<1> QED BY <1>6, <1>7, <1>8, <1>9, <1>10, <1>11 DEF Ranks

\* Nobody else gives out ranks or places.
LEMMA OthersRank ==
  ASSUME IInv, [Next]_vars, ~ \E w \in Callers : Admit(w)
  PROVE  /\ since' = since /\ \A v \in Callers : stage'[v] = "admitted" => stage[v] = "admitted"
         /\ \A s \in Names, d \in Devices : agents'[s][d] \in {agents[s][d], NoSocket}
<1>1. /\ stage \in [Callers -> {"none", "silent", "checking", "admitted", "dropped", "failed", "closed"}]
      /\ agents \in [Names -> [Devices -> Callers \cup {NoSocket}]]
  BY DEF IInv, TypeOK
<1>2. CASE RelayRestart
  BY <1>1, <1>2 DEF RelayRestart, Nowhere
<1>3. ASSUME NEW w \in Callers, CloseEvent(w)
      PROVE  /\ since' = since /\ \A v \in Callers : stage'[v] = "admitted" => stage[v] = "admitted"
             /\ \A s \in Names, d \in Devices : agents'[s][d] \in {agents[s][d], NoSocket}
  BY <1>1, <1>3 DEF CloseEvent, Unroute, Vacate
<1>4. ASSUME NEW w \in Callers, Drop(w)
      PROVE  since' = since /\ agents' = agents /\ \A v \in Callers : stage'[v] = "admitted" => stage[v] = "admitted"
  BY <1>1, <1>4 DEF Drop
<1>5. ASSUME NEW w \in Callers, Socket(w), ~Admit(w), ~CloseEvent(w)
      PROVE  since' = since /\ agents' = agents /\ \A v \in Callers : stage'[v] = "admitted" => stage[v] = "admitted"
  BY <1>1, <1>4, <1>5 DEF Socket, Upgrade, Hello, Rejected, Check, Deny, TooLate, Gone, regVars
<1>6. CASE (\E s \in Names : Admin(s)) \/ Timer \/ UNCHANGED vars
  BY <1>6 DEF Admin, AdminKick, AdminRelease, AdminBan, AdminUnban, Elsewhere, Timer, regVars, vars
<1> QED BY <1>2, <1>3, <1>5, <1>6 DEF Next

LEMMA NextRanks == IInv /\ Ranks /\ [Next]_vars => Ranks'
<1>1. ASSUME IInv, Ranks, [Next]_vars, ~ \E w \in Callers : Admit(w) PROVE Ranks'
  BY <1>1, OthersRank DEF Ranks
<1> QED BY <1>1, AdmitRanks

LEMMA RanksInvariant == Spec => [](IInv /\ Ranks)
<1>1. Init => Ranks
  <2> SUFFICES ASSUME Init PROVE Ranks
    OBVIOUS
  <2>1. {u \in Callers : since[u] > 0} = {}
    BY DEF Init
  <2> QED BY <2>1, FS_EmptySet DEF Init, Ranks
<1> QED BY <1>1, InitInv, StepInv, NextRanks, PTL DEF Spec

LEMMA SteadyRoute ==
  ASSUME IInv, Ranks, [Next]_vars, IInv', NEW s \in Names,
         Resolve(s) # NoSocket, Resolve(s) \in {agents'[s][d] : d \in Devices}
  PROVE  Resolve(s)' = Resolve(s)
<1> DEFINE r == Resolve(s)
           row == agents'[s]
<1>1. /\ agents[s] \in [Devices -> Callers \cup {NoSocket}] /\ since \in [Callers -> Nat] /\ Devices # {}
      /\ \A d \in Devices : agents[s][d] # NoSocket => agents[s][d] \in Callers /\ since[agents[s][d]] > 0
  BY RanksOfARow
<1>2. r \in {agents[s][d] : d \in Devices} /\ IsOldest(agents[s], since, r)
  BY <1>1, OldestIsThere, ResolveIsOldest
<1>3. row \in [Devices -> Callers \cup {NoSocket}] /\ r \in {row[d] : d \in Devices}
  BY DEF IInv, TypeOK
<1>4. r # NoSocket
  OBVIOUS
<1> HIDE DEF r, row
<1>5. r \in Callers /\ since[r] > 0
  BY <1>1, <1>2, <1>4
<1>6. \A d \in Devices : agents[s][d] \notin {r, NoSocket} => since[r] < since[agents[s][d]]
  <2> SUFFICES ASSUME NEW d \in Devices, agents[s][d] \notin {r, NoSocket} PROVE since[r] < since[agents[s][d]]
    OBVIOUS
  <2>1. agents[s][d] \in Callers /\ since[r] <= since[agents[s][d]]
    BY <1>1, <1>2 DEF IsOldest
  <2>2. since[r] # since[agents[s][d]]
    BY <1>5, <2>1 DEF Ranks
  <2> QED BY <1>1, <1>5, <2>1, <2>2
<1>7. since' \in [Callers -> Nat] /\ \A d \in Devices : row[d] \notin {r, NoSocket} => since'[r] < since'[row[d]]
  <2>1. ASSUME NEW w \in Callers, Admit(w)
        PROVE  since' \in [Callers -> Nat] /\ \A d \in Devices : row[d] \notin {r, NoSocket} => since'[r] < since'[row[d]]
    <3>1. /\ since' \in [Callers -> Nat] /\ \A v \in Callers \ {w} : since'[v] = since[v] /\ since[v] < since'[w]
      BY <2>1, AdmitRanks
    <3>2. r # w
      <4>1. ~(since[w] > 0)
        BY <2>1 DEF Admit, IInv, Shaped, Shape
      <4> QED BY <1>5, <4>1
    <3>3. \A d \in Devices : row[d] \in {agents[s][d], w}
      BY <2>1, Types DEF Admit, row, IInv
    <3>4. ASSUME NEW d \in Devices, row[d] \notin {r, NoSocket} PROVE since'[r] < since'[row[d]]
      <4>1. CASE row[d] = w
        BY <1>5, <3>1, <3>2, <4>1
      <4>2. CASE row[d] # w
        <5>1. row[d] = agents[s][d] /\ row[d] \in Callers
          BY <1>3, <3>3, <3>4, <4>2
        <5>2. since[r] < since[row[d]]
          BY <1>6, <3>4, <5>1
        <5> QED BY <1>5, <3>1, <3>2, <4>2, <5>1, <5>2
      <4> QED BY <4>1, <4>2
    <3> QED BY <3>1, <3>4
  <2>2. CASE ~ \E w \in Callers : Admit(w)
    <3>1. since' = since /\ \A d \in Devices : row[d] \in {agents[s][d], NoSocket}
      BY <2>2, OthersRank DEF row
    <3> QED BY <1>1, <1>6, <3>1
  <2> QED BY <2>1, <2>2
<1>8. Oldest(row, since') = r
  BY <1>3, <1>5, <1>7, OldestIs
<1> QED BY <1>8, ResolveIsOldest DEF r, row

(* The device that serves a name's sessions serves them for as long as it  *)
(* stays in the table, whoever joins, reconnects or leaves.                *)
THEOREM RoutesStaySteady == Spec => RoutesAreSteady
<1>1. ASSUME IInv, Ranks, [Next]_vars, IInv'
      PROVE  \A s \in Names : Resolve(s) # NoSocket /\ Resolve(s) \in {agents'[s][d] : d \in Devices}
                                => Resolve(s)' = Resolve(s)
  BY <1>1, SteadyRoute
<1>2. (IInv /\ Ranks) /\ [Next]_vars /\ (IInv /\ Ranks)' =>
        [\A s \in Names : Resolve(s) # NoSocket /\ Resolve(s) \in {agents'[s][d] : d \in Devices}
                            => Resolve(s)' = Resolve(s)]_vars
  BY <1>1
<1> QED BY <1>2, RanksInvariant, PTL DEF Spec, RoutesAreSteady
=============================================================================
