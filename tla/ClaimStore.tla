----------------------------- MODULE ClaimStore -----------------------------
(***************************************************************************)
(* The relay's claim store (packages/relay/src/claims.ts): who owns which  *)
(* name, which names are banned, which devices each claim remembers, and   *)
(* what of it is on disk.                                                  *)
(*                                                                         *)
(* Passwords are hashed on the thread pool, so claimOrVerify gives way to  *)
(* every other handler at each `await`.  A call in progress keeps what it  *)
(* read before; each of its resumptions is one action.                     *)
(***************************************************************************)
EXTENDS Naturals, Sequences, FiniteSets

CONSTANTS
  Names,        \* subdomain labels
  Passwords,    \* agent passwords
  Callers,      \* the calls of claimOrVerify, one at a time each
  Devices,      \* device ids
  MaxDevices,   \* MAX_DEVICES_PER_CLAIM, 20 in the code
  MaxVersion,   \* bound: how many claims are ever made
  MayFail,      \* whether writing the file may fail
  NoClaim       \* no claim

ASSUME ClaimStoreAssumption ==
  /\ MaxDevices \in Nat \ {0}
  /\ MaxVersion \in Nat
  /\ MayFail \in BOOLEAN
  /\ NoClaim \notin [pw : Passwords, ver : 1..MaxVersion]

VARIABLES
  claims,    \* claims[s]: the record of s: its password, and its version
             \* (creation time and salt, never the same twice)
  banned,    \* the set of banned names
  known,     \* known[s]: the remembered devices of s, least recently seen first
  lazy,      \* whether the timer of a lazy persist is running
  file,      \* the claims file
  behind,    \* ghost: the last attempt to write the file failed
  minted,    \* how many claims were ever made
  call       \* call[c]: where claimOrVerify stands for caller c

records   == <<claims, banned, known>>
storeVars == <<claims, banned, known, lazy, file, behind, minted, call>>

Claims     == [pw : Passwords, ver : 1..MaxVersion]
MaybeClaim == Claims \cup {NoClaim}
NoDevices  == [s \in Names |-> << >>]

\* "hashing" a password for a new claim; "comparing" with the record in `seen`.
CallStates == {"idle", "hashing", "comparing", "ok", "denied"}
Idle       == [st |-> "idle"]
CallSet    == {Idle}
              \cup [st : {"hashing"}, name : Names, pw : Passwords]
              \cup [st : {"comparing"}, name : Names, pw : Passwords, seen : Claims]
              \cup [st : {"ok", "denied"}, name : Names, pw : Passwords]

StoreTypeOK ==
  /\ claims \in [Names -> MaybeClaim]
  /\ banned \subseteq Names
  /\ known \in [Names -> Seq(Devices)]
  /\ lazy \in BOOLEAN
  /\ file \in [claims : [Names -> MaybeClaim], banned : SUBSET Names, known : [Names -> Seq(Devices)]]
  /\ behind \in BOOLEAN
  /\ minted \in 0..MaxVersion
  /\ call \in [Callers -> CallSet]

StoreInit ==
  /\ claims = [s \in Names |-> NoClaim]
  /\ banned = {}
  /\ known = NoDevices
  /\ lazy = FALSE
  /\ file = [claims |-> claims, banned |-> {}, known |-> NoDevices]
  /\ behind = FALSE
  /\ minted = 0
  /\ call = [c \in Callers |-> Idle]

-----------------------------------------------------------------------------
(* persist: the state it writes is the one the handler leaves behind, so   *)
(* it is the last conjunct of an action.  The file is replaced by a        *)
(* rename: a crash finds the old or the new one, never a part.             *)

Persist ==
  /\ lazy' = FALSE
  /\ \/ file' = [claims |-> claims', banned |-> banned', known |-> known'] /\ behind' = FALSE
     \/ MayFail /\ behind' = TRUE /\ UNCHANGED file

PersistLazily == lazy' = TRUE /\ UNCHANGED <<file, behind>>

NotPersisted == UNCHANGED <<lazy, file, behind>>

-----------------------------------------------------------------------------
(* claimOrVerify.                                                          *)

\* A settled promise runs its continuation before the event loop takes the next
\* event: between a result and its use by the caller nothing else happens.
Quiet == \A c \in Callers : call[c].st \notin {"ok", "denied"}

At(c, st, s, p) == call' = [call EXCEPT ![c] = [st |-> st, name |-> s, pw |-> p]]

Comparing(c, s, p) ==
  call' = [call EXCEPT ![c] = [st |-> "comparing", name |-> s, pw |-> p, seen |-> claims[s]]]

\* Up to the first await.
ClaimOrVerify(c, s, p) ==
  /\ Quiet /\ call[c] = Idle
  /\ \/ s \in banned /\ At(c, "denied", s, p)
     \/ s \notin banned /\ claims[s] = NoClaim /\ At(c, "hashing", s, p)
     \/ s \notin banned /\ claims[s] # NoClaim /\ Comparing(c, s, p)
  /\ UNCHANGED <<records, minted>> /\ NotPersisted

NewClaim(c, s, p) ==
  /\ minted < MaxVersion
  /\ claims' = [claims EXCEPT ![s] = [pw |-> p, ver |-> minted + 1]]
  /\ minted' = minted + 1
  /\ At(c, "ok", s, p)
  /\ UNCHANGED <<banned, known>>
  /\ Persist

\* What a first claim looks at again after the hash: somebody may have claimed or
\* banned the name in the meantime.
NotLookedAt(s) == FALSE                                 \* mutant: one look is left out
AlwaysTaken(s) == TRUE                                  \* mutant: compared with no record
TakenSince(s)  == claims[s] # NoClaim
BannedSince(s) == s \in banned

\* The hash for a new claim is in.
Hashed(c) ==
  LET s == call[c].name  p == call[c].pw IN
  /\ Quiet /\ call[c].st = "hashing"
  /\ \/ /\ TakenSince(s)
        /\ Comparing(c, s, p)
        /\ UNCHANGED <<records, minted>> /\ NotPersisted
     \/ /\ ~TakenSince(s) /\ BannedSince(s)
        /\ At(c, "denied", s, p)
        /\ UNCHANGED <<records, minted>> /\ NotPersisted
     \/ ~TakenSince(s) /\ ~BannedSince(s) /\ NewClaim(c, s, p)

\* The hash with the salt of the record in `seen` is in.  Nothing is read again.
Compared(c) ==
  LET s == call[c].name  p == call[c].pw IN
  /\ Quiet /\ call[c].st = "comparing"
  /\ At(c, IF call[c].seen.pw = p THEN "ok" ELSE "denied", s, p)
  /\ UNCHANGED <<records, minted>> /\ NotPersisted

\* The caller takes the result.
Settled(c) == call[c].st \in {"ok", "denied"}
Return(c)  == Settled(c) /\ call' = [call EXCEPT ![c] = Idle]

-----------------------------------------------------------------------------
(* The other methods run to completion.                                    *)

Recent(q) == SubSeq(q, IF Len(q) > MaxDevices THEN Len(q) - MaxDevices + 1 ELSE 1, Len(q))

Place(q, d)   == CHOOSE i \in DOMAIN q : q[i] = d
Without(q, d) == IF \E i \in DOMAIN q : q[i] = d
                 THEN SubSeq(q, 1, Place(q, d) - 1) \o SubSeq(q, Place(q, d) + 1, Len(q))
                 ELSE q

TouchDevice(s, d) ==
  /\ UNCHANGED <<claims, banned, minted>>
  /\ \/ claims[s] = NoClaim /\ UNCHANGED known /\ NotPersisted
     \/ claims[s] # NoClaim /\ known' = [known EXCEPT ![s] = Recent(Append(Without(known[s], d), d))] /\ PersistLazily

\* The devices are part of the record: they go with it.
Erase(s) ==
  /\ claims' = [claims EXCEPT ![s] = NoClaim]
  /\ known'  = [known EXCEPT ![s] = << >>]

RemoveLazily(s) ==                                      \* mutant: coalesced like a touch
  /\ Erase(s) /\ UNCHANGED <<banned, minted>>
  /\ IF claims[s] # NoClaim THEN PersistLazily ELSE NotPersisted

Remove(s) ==
  /\ Erase(s) /\ UNCHANGED <<banned, minted>>
  /\ IF claims[s] # NoClaim THEN Persist ELSE NotPersisted

Ban(s) ==
  /\ Erase(s) /\ banned' = banned \cup {s} /\ UNCHANGED minted
  /\ Persist

Unban(s) ==
  /\ banned' = banned \ {s} /\ UNCHANGED <<claims, known, minted>>
  /\ IF s \in banned THEN Persist ELSE NotPersisted

\* The timer of a lazy persist, and flush at a shutdown.
Flush == lazy /\ UNCHANGED <<records, minted>> /\ Persist

\* The process stops, with or without notice, and the next one reads the file.
Restart ==
  /\ claims' = file.claims /\ banned' = file.banned /\ known' = file.known
  /\ lazy' = FALSE /\ behind' = FALSE
  /\ call' = [c \in Callers |-> Idle]
  /\ UNCHANGED <<file, minted>>

-----------------------------------------------------------------------------
(* The store by itself.                                                    *)

Caller(c) ==
  \/ \E s \in Names, p \in Passwords : ClaimOrVerify(c, s, p)
  \/ Hashed(c)
  \/ Compared(c)
  \/ Return(c) /\ UNCHANGED <<records, minted>> /\ NotPersisted

Event ==
  /\ Quiet /\ UNCHANGED call
  /\ \/ \E s \in Names : Remove(s) \/ Ban(s) \/ Unban(s)
     \/ \E s \in Names, d \in Devices : TouchDevice(s, d)
     \/ Flush

StoreNext == (\E c \in Callers : Caller(c)) \/ Event \/ (Quiet /\ Restart)

StoreSpec == StoreInit /\ [][StoreNext]_storeVars

-----------------------------------------------------------------------------
(* Properties.                                                             *)

\* No name is both banned and claimed, whatever was banned while a first claim was
\* being hashed and whichever file a restart found (claims.ts, claimOrVerify's second
\* look at `banned`).
BannedIsFree == \A s \in banned : claims[s] = NoClaim

\* Unless a write failed, the file holds every ownership change already made, and all
\* but the device bookkeeping of a running timer (claims.ts, persist: "Ownership
\* changes hit the disk at once").
FileIsCurrent ==
  ~behind => /\ file.claims = claims /\ file.banned = banned
             /\ file.known = known \/ lazy

\* A claim is never replaced by another one: however many first claims of a name were
\* being hashed at once, one wins and the others are measured against it (claims.ts,
\* claimOrVerify: "a concurrent HELLO may have claimed it first").
FirstClaimWins ==
  [][\A s \in Names : claims[s] # NoClaim => claims'[s] \in {claims[s], NoClaim}]_claims

\* Seen from outside, every call of claimOrVerify takes effect at one instant between
\* its start and its end, and a crash loses calls in progress but no ownership.
Phase(k) ==
  CASE k.st = "idle"      -> [st |-> "idle"]
    [] k.st = "hashing"   -> [st |-> "pending", name |-> k.name, pw |-> k.pw]
    [] k.st = "comparing" -> [st |-> "decided", ok |-> (k.seen.pw = k.pw)]
    [] k.st = "ok"        -> [st |-> "decided", ok |-> TRUE]
    [] k.st = "denied"    -> [st |-> "decided", ok |-> FALSE]

Atomic == INSTANCE AtomicClaims WITH
  owner <- claims, barred <- banned, op <- [c \in Callers |-> Phase(call[c])]

ImplementsAtomicClaims == Atomic!Spec

=============================================================================
