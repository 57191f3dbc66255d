--------------------------- MODULE RateGatesProofs ---------------------------
(***************************************************************************)
(* Theorems about the rate gates, for every set of clients and requests,   *)
(* every budget and every length of a minute, a window and a lockout (as   *)
(* long as a lockout is no longer than the window, which it is: ten        *)
(* minutes and fifteen).                                                   *)
(***************************************************************************)
EXTENDS RateGates, FiniteSetTheorems, TLAPS

-----------------------------------------------------------------------------
(* What holds of the count c of a key, its admitted events q, its budget b *)
(* and the clock t.                                                        *)

\* The events come in time order, and each belongs to a count that some event
\* began, at most b of them to one count.
Grouped(q, b, t) ==
  /\ \A i, j \in DOMAIN q : i <= j => q[i].at <= q[j].at
  /\ \A i \in DOMAIN q :
       /\ q[i].at <= t
       /\ q[i].first \in 1..i /\ i - q[i].first < b
       /\ q[q[i].first].first = q[i].first

\* A count begins a minute or more after the one before it began.
Apart(q) ==
  \A i \in DOMAIN q : i > 1 /\ q[i].first = i => q[i].at - q[q[i - 1].first].at >= Minute

\* The entry is the last count, or was dropped when that count's minute was over.
Latest(q, c, t) ==
  /\ c.n > 0 => /\ Len(q) > 0
                /\ c.since = q[q[Len(q)].first].at
                /\ Len(q) - q[Len(q)].first < c.n
  /\ c.n = 0 /\ Len(q) > 0 => t - q[q[Len(q)].first].at >= Minute

CountOK(q, c, b, t) == Grouped(q, b, t) /\ Apart(q) /\ Latest(q, c, t)

\* What holds of the login gate's entry g of a key with n as its maximum, locked
\* out at b: while the lock must hold, the last failure set it.
Protected(b, t) == b # Never /\ t < b + Lockout - Slow

LockOK(g, b, n, t) ==
  /\ b <= t
  /\ Protected(b, t) => /\ g.count >= n
                        /\ g.last >= b - Slow
                        /\ g.until = g.last + Lockout

\* A request that is under way arrived no longer ago than a request may take.
TryOK(w, t) == w.open => w.from \in Clients /\ w.at <= t /\ t - w.at <= Slow

IInv ==
  /\ TypeOK
  /\ \A k \in Keys : CountOK(passed[k], counts[k], Budget(k), now)
  /\ \A k \in Keys : LockOK(gate[k], burst[k], Max(k), now)
  /\ \A r \in Requests : TryOK(try[r], now)

-----------------------------------------------------------------------------
(* The sequence q of a key's events, with one more.                        *)

Events == [at : Nat, first : Nat]

LEMMA EventFields ==
  ASSUME NEW q \in Seq(Events)
  PROVE  \A i \in DOMAIN q : q[i].at \in Nat /\ q[i].first \in Nat
<1>1. \A i \in DOMAIN q : q[i] \in Events
  OBVIOUS
<1> QED BY <1>1 DEF Events

\* A new count: the one before it is a minute old, or there was none.
LEMMA CountBegins ==
  ASSUME NEW q \in Seq(Events), NEW c \in [n : Nat, since : Nat], NEW b \in Nat \ {0}, NEW t \in Nat,
         CountOK(q, c, b, t), Stale(c, t)
  PROVE  CountOK(Append(q, [at |-> t, first |-> Len(q) + 1]), [n |-> 1, since |-> t], b, t)
<1> DEFINE e == [at |-> t, first |-> Len(q) + 1]
           z == Append(q, e)
<1>1. /\ Len(z) = Len(q) + 1 /\ DOMAIN z = 1..(Len(q) + 1) /\ DOMAIN q = 1..Len(q) /\ Len(q) \in Nat
      /\ z[Len(q) + 1] = e /\ \A i \in 1..Len(q) : z[i] = q[i]
  OBVIOUS
<1>2. \A i \in 1..Len(q) : q[i].at \in Nat /\ q[i].first \in Nat
  BY EventFields
<1>3. Grouped(q, b, t) /\ Apart(q) /\ Latest(q, c, t)
  BY DEF CountOK
<1> HIDE DEF z
<1>4. Grouped(z, b, t)
  <2>1. ASSUME NEW i \in DOMAIN z, NEW j \in DOMAIN z, i <= j PROVE z[i].at <= z[j].at
    <3>1. CASE j = Len(q) + 1
      BY <1>1, <1>2, <1>3, <2>1, <3>1 DEF Grouped
    <3>2. CASE j # Len(q) + 1
      BY <1>1, <1>3, <2>1, <3>2 DEF Grouped
    <3> QED BY <3>1, <3>2
  <2>2. ASSUME NEW i \in DOMAIN z
        PROVE  /\ z[i].at <= t /\ z[i].first \in 1..i /\ i - z[i].first < b
               /\ z[z[i].first].first = z[i].first
    <3>1. CASE i = Len(q) + 1
      BY <1>1, <3>1
    <3>2. CASE i # Len(q) + 1
      <4>1. i \in 1..Len(q) /\ z[i] = q[i]
        BY <1>1, <3>2
      <4>2. q[i].first \in 1..Len(q)
        BY <1>3, <1>1, <4>1 DEF Grouped
      <4> QED BY <1>1, <1>3, <4>1, <4>2 DEF Grouped
    <3> QED BY <3>1, <3>2
  <2> QED BY <2>1, <2>2 DEF Grouped
<1>5. Apart(z)
  <2> SUFFICES ASSUME NEW i \in DOMAIN z, i > 1, z[i].first = i
               PROVE  z[i].at - z[z[i - 1].first].at >= Minute
    BY DEF Apart
  <2>1. i - 1 \in 1..Len(q) /\ z[i - 1] = q[i - 1]
    BY <1>1
  <2>2. q[i - 1].first \in 1..Len(q) /\ z[q[i - 1].first] = q[q[i - 1].first]
    BY <1>1, <1>3, <2>1 DEF Grouped
  <2>3. CASE i = Len(q) + 1
    <3>1. t - q[q[Len(q)].first].at >= Minute
      <4>1. CASE c.n = 0
        BY <1>1, <1>3, <2>1, <2>3, <4>1 DEF Latest
      <4>2. CASE c.n > 0
        BY <1>3, <4>2 DEF Latest, Stale, Over
      <4> QED BY <4>1, <4>2
    <3> QED BY <1>1, <2>1, <2>2, <2>3, <3>1
  <2>4. CASE i # Len(q) + 1
    BY <1>1, <1>3, <2>1, <2>2, <2>4 DEF Apart
  <2> QED BY <2>3, <2>4
<1>6. Latest(z, [n |-> 1, since |-> t], t)
  BY <1>1 DEF Latest
<1> QED BY <1>4, <1>5, <1>6 DEF CountOK, z

\* One more of the same count, within the budget.
LEMMA CountGoesOn ==
  ASSUME NEW q \in Seq(Events), NEW c \in [n : Nat, since : Nat], NEW b \in Nat \ {0}, NEW t \in Nat,
         CountOK(q, c, b, t), ~Stale(c, t), c.n + 1 <= b
  PROVE  CountOK(Append(q, [at |-> t, first |-> q[Len(q)].first]), [c EXCEPT !.n = @ + 1], b, t)
<1> DEFINE f == q[Len(q)].first
           e == [at |-> t, first |-> f]
           z == Append(q, e)
<1>1. /\ Len(z) = Len(q) + 1 /\ DOMAIN z = 1..(Len(q) + 1) /\ DOMAIN q = 1..Len(q) /\ Len(q) \in Nat
      /\ z[Len(q) + 1] = e /\ \A i \in 1..Len(q) : z[i] = q[i]
  OBVIOUS
<1>2. \A i \in 1..Len(q) : q[i].at \in Nat /\ q[i].first \in Nat
  BY EventFields
<1>3. Grouped(q, b, t) /\ Apart(q) /\ Latest(q, c, t)
  BY DEF CountOK
<1>4. c.n > 0 /\ Len(q) > 0 /\ c.since = q[f].at /\ Len(q) - f < c.n
  BY <1>3 DEF Latest, Stale
<1>5. f \in 1..Len(q) /\ q[f].first = f
  BY <1>1, <1>3, <1>4 DEF Grouped
<1>6. z[f] = q[f]
  BY <1>1, <1>5
<1> HIDE DEF z, f
<1>7. Grouped(z, b, t)
  <2>1. ASSUME NEW i \in DOMAIN z, NEW j \in DOMAIN z, i <= j PROVE z[i].at <= z[j].at
    <3>1. CASE j = Len(q) + 1
      BY <1>1, <1>2, <1>3, <2>1, <3>1 DEF Grouped
    <3>2. CASE j # Len(q) + 1
      BY <1>1, <1>3, <2>1, <3>2 DEF Grouped
    <3> QED BY <3>1, <3>2
  <2>2. ASSUME NEW i \in DOMAIN z
        PROVE  /\ z[i].at <= t /\ z[i].first \in 1..i /\ i - z[i].first < b
               /\ z[z[i].first].first = z[i].first
    <3>1. CASE i = Len(q) + 1
      BY <1>1, <1>4, <1>5, <1>6, <3>1
    <3>2. CASE i # Len(q) + 1
      <4>1. i \in 1..Len(q) /\ z[i] = q[i]
        BY <1>1, <3>2
      <4>2. q[i].first \in 1..Len(q)
        BY <1>3, <1>1, <4>1 DEF Grouped
      <4> QED BY <1>1, <1>3, <4>1, <4>2 DEF Grouped
    <3> QED BY <3>1, <3>2
  <2> QED BY <2>1, <2>2 DEF Grouped
<1>8. Apart(z)
  <2> SUFFICES ASSUME NEW i \in DOMAIN z, i > 1, z[i].first = i
               PROVE  z[i].at - z[z[i - 1].first].at >= Minute
    BY DEF Apart
  <2>1. i # Len(q) + 1
    BY <1>1, <1>5
  <2>2. i \in 1..Len(q) /\ i - 1 \in 1..Len(q) /\ z[i - 1] = q[i - 1] /\ z[i] = q[i]
    BY <1>1, <2>1
  <2>3. q[i - 1].first \in 1..Len(q) /\ z[q[i - 1].first] = q[q[i - 1].first]
    BY <1>1, <1>3, <2>2 DEF Grouped
  <2> QED BY <1>1, <1>3, <2>2, <2>3 DEF Apart
<1>9. Latest(z, [c EXCEPT !.n = @ + 1], t)
  BY <1>1, <1>4, <1>5, <1>6 DEF Latest
<1> QED BY <1>7, <1>8, <1>9 DEF CountOK, z, f

\* An event that is counted and not admitted.
LEMMA CountIsOver ==
  ASSUME NEW q \in Seq(Events), NEW c \in [n : Nat, since : Nat], NEW b \in Nat \ {0}, NEW t \in Nat,
         CountOK(q, c, b, t), ~Stale(c, t)
  PROVE  CountOK(q, [c EXCEPT !.n = @ + 1], b, t)
<1>1. Latest(q, c, t) => Latest(q, [c EXCEPT !.n = @ + 1], t)
  <2> SUFFICES ASSUME Latest(q, c, t) PROVE Latest(q, [c EXCEPT !.n = @ + 1], t)
    OBVIOUS
  <2>1. c.n > 0 /\ Len(q) > 0 /\ c.since = q[q[Len(q)].first].at /\ Len(q) - q[Len(q)].first < c.n
    BY DEF Latest, Stale
  <2>2. q[Len(q)].first \in Nat
    BY <2>1, EventFields
  <2> QED BY <2>1, <2>2 DEF Latest
<1> QED BY <1>1 DEF CountOK

\* The sweep drops a count only when its minute is over.
LEMMA CountIsPruned ==
  ASSUME NEW q \in Seq(Events), NEW c \in [n : Nat, since : Nat], NEW b \in Nat \ {0}, NEW t \in Nat,
         CountOK(q, c, b, t), Over(c, t)
  PROVE  CountOK(q, NoCount, b, t)
BY DEF CountOK, Latest, Over, NoCount

LEMMA CountAges ==
  ASSUME NEW q \in Seq(Events), NEW c \in [n : Nat, since : Nat], NEW b \in Nat \ {0}, NEW t \in Nat,
         CountOK(q, c, b, t)
  PROVE  CountOK(q, c, b, t + 1)
<1>1. \A i \in DOMAIN q : q[i].at \in Nat /\ q[i].first \in Nat
  BY EventFields
<1>2. Grouped(q, b, t + 1)
  BY <1>1 DEF CountOK, Grouped
<1>3. Latest(q, c, t + 1)
  <2>1. CASE Len(q) > 0
    <3>1. q[Len(q)].first \in DOMAIN q
      BY <2>1 DEF CountOK, Grouped
    <3>2. q[q[Len(q)].first].at \in Nat
      BY <1>1, <3>1
    <3>3. Latest(q, c, t)
      BY DEF CountOK
    <3> QED BY <2>1, <3>2, <3>3, GatesAssumption DEF Latest
  <2>2. CASE ~(Len(q) > 0)
    BY <2>2 DEF CountOK, Latest
  <2> QED BY <2>1, <2>2
<1> QED BY <1>2, <1>3 DEF CountOK

LEMMA Between ==
  ASSUME NEW a \in Nat, NEW b \in Nat, NEW c \in Nat, NEW d \in Nat, NEW m \in Nat,
         a <= b, c - b >= m, c <= d
  PROVE  d - a >= m
OBVIOUS

\* Grouped and apart, the events cannot be denser than twice the budget a minute.
LEMMA TwiceAtMost ==
  ASSUME NEW q \in Seq(Events), NEW b \in Nat \ {0}, NEW t \in Nat, Grouped(q, b, t), Apart(q),
         NEW i \in DOMAIN q, NEW j \in DOMAIN q, j - i >= 2 * b - 1
  PROVE  q[j].at - q[i].at >= Minute
<1> DEFINE f == q[j].first
           g == q[f - 1].first
<1>1. \A k \in DOMAIN q : q[k].at \in Nat /\ q[k].first \in Nat
  BY EventFields
<1>2. DOMAIN q = 1..Len(q) /\ Len(q) \in Nat
  OBVIOUS
<1>3. f \in 1..j /\ j - f < b /\ q[f].first = f
  BY DEF Grouped
<1>4. f - 1 \in DOMAIN q /\ f > 1 /\ f \in DOMAIN q
  BY <1>2, <1>3
<1>5. g \in 1..(f - 1) /\ (f - 1) - g < b
  BY <1>4 DEF Grouped
<1>6. i <= g /\ g \in DOMAIN q
  BY <1>2, <1>3, <1>4, <1>5
<1>7. q[f].at - q[g].at >= Minute
  BY <1>3, <1>4 DEF Apart
<1>8. q[i].at <= q[g].at /\ q[f].at <= q[j].at
  <2>1. f \in DOMAIN q /\ f <= j
    BY <1>3, <1>4
  <2> HIDE DEF f, g
  <2> QED BY <1>6, <2>1 DEF Grouped
<1>9. /\ q[i].at \in Nat /\ q[j].at \in Nat /\ q[f].at \in Nat /\ q[g].at \in Nat
  BY <1>1, <1>4, <1>6
<1>10. Minute \in Nat
  BY GatesAssumption
<1> HIDE DEF f, g
<1> QED BY <1>7, <1>8, <1>9, <1>10, Between

-----------------------------------------------------------------------------
(* The steps.                                                              *)

LEMMA BudgetType == ASSUME NEW k \in Keys PROVE Budget(k) \in Nat \ {0}
<1>1. \A a, b \in Nat \ {0} : a * b \in Nat \ {0}
  OBVIOUS
<1> QED BY <1>1, GatesAssumption DEF Budget

LEMMA MaxType == ASSUME NEW k \in Keys PROVE Max(k) \in Nat \ {0}
BY GatesAssumption DEF Max

LEMMA InitInv == Init => IInv
<1> SUFFICES ASSUME Init PROVE IInv
  OBVIOUS
<1>1. << >> \in Seq(Events) /\ << >> \in Seq(Nat) /\ Len(<< >>) = 0 /\ DOMAIN << >> = 1..0
  OBVIOUS
<1>2. TypeOK
  BY <1>1 DEF Init, TypeOK, NoCount, NoGate, NoTry, Never, Keys, Events
<1>3. ASSUME NEW k \in Keys PROVE CountOK(passed[k], counts[k], Budget(k), now)
  <2>1. passed[k] = << >> /\ counts[k] = NoCount
    BY DEF Init
  <2> QED BY <1>1, <2>1 DEF CountOK, Grouped, Apart, Latest, NoCount
<1>4. ASSUME NEW k \in Keys PROVE LockOK(gate[k], burst[k], Max(k), now)
  BY DEF Init, LockOK, Protected, Never
<1>5. ASSUME NEW r \in Requests PROVE TryOK(try[r], now)
  BY DEF Init, TryOK, NoTry
<1> QED BY <1>2, <1>3, <1>4, <1>5 DEF IInv

\* A HELLO: each key that is looked at counts it.
LEMMA HelloInv ==
  ASSUME IInv, NEW h \in Clients, Hello(h)
  PROVE  IInv'
<1> DEFINE seen == IF Admits(h) THEN KeysOf(h) ELSE {h}
<1>1. /\ now' = now /\ gate' = gate /\ try' = try /\ burst' = burst /\ wrong' = wrong
      /\ counts' = [k \in Keys |-> IF k \in seen THEN Counted(k) ELSE counts[k]]
      /\ passed' = [k \in Keys |-> IF k \in seen /\ Admits(k) THEN Admitted(k) ELSE passed[k]]
  BY DEF Hello, loginVars
<1> HIDE DEF seen
<1>2. ASSUME NEW k \in Keys
      PROVE  /\ passed'[k] \in Seq(Events) /\ counts'[k] \in [n : Nat, since : Nat]
             /\ CountOK(passed'[k], counts'[k], Budget(k), now)
  <2> DEFINE q == passed[k]
             c == counts[k]
  <2>1. q \in Seq(Events) /\ c \in [n : Nat, since : Nat] /\ now \in Nat
    BY DEF IInv, TypeOK, Events
  <2>2. CountOK(q, c, Budget(k), now)
    BY DEF IInv
  <2>3. Budget(k) \in Nat \ {0}
    BY BudgetType
  <2> HIDE DEF q, c
  <2>4. CASE k \notin seen
    BY <1>1, <2>1, <2>2, <2>4 DEF q, c
  <2>5. CASE k \in seen /\ Stale(c, now)
    <3>1. Counted(k) = [n |-> 1, since |-> now]
      BY <2>5 DEF Counted, c
    <3>2. Admits(k)
      BY <2>3, <3>1 DEF Admits
    <3>3. Admitted(k) = Append(q, [at |-> now, first |-> Len(q) + 1])
      BY <2>5 DEF Admitted, q, c
    <3>4. [at |-> now, first |-> Len(q) + 1] \in Events
      BY <2>1 DEF Events
    <3>5. Append(q, [at |-> now, first |-> Len(q) + 1]) \in Seq(Events)
      BY <2>1, <3>4
    <3>6. passed'[k] = Append(q, [at |-> now, first |-> Len(q) + 1]) /\ counts'[k] = [n |-> 1, since |-> now]
      BY <1>1, <2>5, <3>1, <3>2, <3>3
    <3>7. CountOK(Append(q, [at |-> now, first |-> Len(q) + 1]), [n |-> 1, since |-> now], Budget(k), now)
      BY <2>1, <2>2, <2>3, <2>5, CountBegins
    <3> QED BY <2>1, <3>5, <3>6, <3>7
  <2>6. CASE k \in seen /\ ~Stale(c, now)
    <3>1. Counted(k) = [c EXCEPT !.n = @ + 1]
      BY <2>6 DEF Counted, c
    <3>2. Counted(k) = [n |-> c.n + 1, since |-> c.since]
      BY <2>1, <3>1
    <3>3. counts'[k] = [c EXCEPT !.n = @ + 1] /\ counts'[k] \in [n : Nat, since : Nat]
      BY <1>1, <2>1, <2>6, <3>1, <3>2
    <3>4. CASE Admits(k)
      <4>1. c.n + 1 <= Budget(k)
        BY <3>2, <3>4 DEF Admits
      <4>2. Admitted(k) = Append(q, [at |-> now, first |-> q[Len(q)].first])
        BY <2>6 DEF Admitted, q, c
      <4>3. Len(q) > 0
        BY <2>1, <2>2, <2>6 DEF CountOK, Latest, Stale
      <4>4. Len(q) \in DOMAIN q
        BY <2>1, <4>3
      <4>5. [at |-> now, first |-> q[Len(q)].first] \in Events
        BY <2>1, <4>4, EventFields DEF Events
      <4>6. Append(q, [at |-> now, first |-> q[Len(q)].first]) \in Seq(Events)
        BY <2>1, <4>5
      <4>7. passed'[k] = Append(q, [at |-> now, first |-> q[Len(q)].first])
        BY <1>1, <2>6, <3>4, <4>2
      <4>8. CountOK(Append(q, [at |-> now, first |-> q[Len(q)].first]), [c EXCEPT !.n = @ + 1], Budget(k), now)
        BY <2>1, <2>2, <2>3, <2>6, <4>1, CountGoesOn
      <4> QED BY <3>3, <4>6, <4>7, <4>8
    <3>5. CASE ~Admits(k)
      <4>1. passed'[k] = q
        BY <1>1, <3>5 DEF q
      <4>2. CountOK(q, [c EXCEPT !.n = @ + 1], Budget(k), now)
        BY <2>1, <2>2, <2>3, <2>6, CountIsOver
      <4> QED BY <2>1, <3>3, <4>1, <4>2
    <3> QED BY <3>4, <3>5
  <2> QED BY <2>4, <2>5, <2>6
<1>3. TypeOK'
  <2>1. counts' \in [Keys -> [n : Nat, since : Nat]]
    BY <1>1, <1>2
  <2>2. passed' \in [Keys -> Seq(Events)]
    BY <1>1, <1>2
  <2> QED BY <1>1, <2>1, <2>2 DEF TypeOK, IInv, Events
<1>4. \A k \in Keys : LockOK(gate'[k], burst'[k], Max(k), now') 
  BY <1>1 DEF IInv
<1>5. \A r \in Requests : TryOK(try'[r], now')
  BY <1>1 DEF IInv
<1> QED BY <1>1, <1>2, <1>3, <1>4, <1>5 DEF IInv

\* The login steps leave the count of HELLOs alone.
LEMMA ArriveInv ==
  ASSUME IInv, NEW r \in Requests, NEW h \in Clients, Arrive(r, h)
  PROVE  IInv'
<1>1. /\ now' = now /\ counts' = counts /\ passed' = passed /\ gate' = gate /\ burst' = burst /\ wrong' = wrong
      /\ try' = [try EXCEPT ![r] = [open |-> TRUE, from |-> h, at |-> now]]
  BY DEF Arrive, helloVars
<1>2. TypeOK'
  <2>1. now \in Nat /\ h \in Keys /\ try \in [Requests -> [open : BOOLEAN, from : Keys, at : Nat]]
    BY DEF IInv, TypeOK, Keys
  <2>2. [open |-> TRUE, from |-> h, at |-> now] \in [open : BOOLEAN, from : Keys, at : Nat]
    BY <2>1
  <2>3. try' \in [Requests -> [open : BOOLEAN, from : Keys, at : Nat]]
    BY <1>1, <2>1, <2>2
  <2>4. /\ now' \in Nat /\ counts' \in [Keys -> [n : Nat, since : Nat]]
        /\ gate' \in [Keys -> [count : Nat, last : Nat, until : Nat]]
    BY <1>1 DEF IInv, TypeOK
  <2>5. passed' \in [Keys -> Seq([at : Nat, first : Nat])] /\ burst' \in [Keys -> Int] /\ wrong' \in [Keys -> Seq(Nat)]
    BY <1>1 DEF IInv, TypeOK
  <2> QED BY <2>3, <2>4, <2>5 DEF TypeOK
<1>3. ASSUME NEW o \in Requests PROVE TryOK(try'[o], now')
  <2>1. CASE o = r
    <3>1. try'[o] = [open |-> TRUE, from |-> h, at |-> now]
      BY <1>1, <2>1 DEF IInv, TypeOK
    <3>2. now \in Nat /\ now - now = 0 /\ 0 <= Slow
      BY GatesAssumption DEF IInv, TypeOK
    <3> QED BY <1>1, <3>1, <3>2 DEF TryOK
  <2>2. CASE o # r
    <3>1. try'[o] = try[o]
      BY <1>1, <2>2 DEF IInv, TypeOK
    <3> QED BY <1>1, <3>1 DEF IInv
  <2> QED BY <2>1, <2>2
<1> QED BY <1>1, <1>2, <1>3 DEF IInv

LEMMA CloseOK ==
  ASSUME IInv, NEW r \in Requests, Close(r), now' = now
  PROVE  /\ try' \in [Requests -> [open : BOOLEAN, from : Keys, at : Nat]]
         /\ \A o \in Requests : TryOK(try'[o], now')
BY DEF IInv, TypeOK, Close, NoTry, TryOK, Keys

LEMMA RightInv ==
  ASSUME IInv, NEW r \in Requests, Right(r)
  PROVE  IInv'
<1> DEFINE ks == KeysOf(try[r].from)
<1>1. /\ now' = now /\ counts' = counts /\ passed' = passed /\ Close(r)
      /\ gate' = [k \in Keys |-> IF k \in ks THEN NoGate ELSE gate[k]]
      /\ burst' = [k \in Keys |-> IF k \in ks THEN Never ELSE burst[k]]
      /\ wrong' = [k \in Keys |-> IF k \in ks THEN << >> ELSE wrong[k]]
  BY DEF Right, helloVars
<1> HIDE DEF ks
<1>2. << >> \in Seq(Nat) /\ NoGate \in [count : Nat, last : Nat, until : Nat] /\ Never \in Int
  BY DEF NoGate, Never
<1>3. TypeOK'
  BY <1>1, <1>2, CloseOK DEF IInv, TypeOK
<1>4. ASSUME NEW k \in Keys PROVE LockOK(gate'[k], burst'[k], Max(k), now')
  <2>1. CASE k \in ks
    BY <1>1, <2>1 DEF LockOK, Protected, Never, IInv, TypeOK
  <2>2. CASE k \notin ks
    BY <1>1, <2>2 DEF IInv
  <2> QED BY <2>1, <2>2
<1> QED BY <1>1, <1>3, <1>4, CloseOK DEF IInv

\* A failure counted with a late reading of the clock does not open a lock.
LEMMA FailedOK ==
  ASSUME IInv, NEW k \in Keys, NEW t \in Nat, t <= now, now - t <= Slow
  PROVE  /\ Failed(k, t) \in [count : Nat, last : Nat, until : Nat]
         /\ LockOK(Failed(k, t), IF TooMany(k, Fails(k, t)) THEN now ELSE burst[k], Max(k), now)
<1> DEFINE n == Fails(k, t)
<1>1. /\ gate[k] \in [count : Nat, last : Nat, until : Nat] /\ burst[k] \in Int /\ now \in Nat
      /\ Lockout \in Nat /\ Slow \in Nat /\ Window \in Nat /\ Lockout <= Window
      /\ Max(k) \in Nat \ {0}
  BY MaxType, GatesAssumption DEF IInv, TypeOK
<1>2. n \in Nat
  BY <1>1 DEF Fails
<1>3. LockOK(gate[k], burst[k], Max(k), now)
  BY DEF IInv
<1>4. Failed(k, t) = [count |-> n, last |-> t, until |-> IF n >= Max(k) THEN t + Lockout ELSE 0]
  BY DEF Failed, TooMany
<1>5. CASE n >= Max(k)
  BY <1>1, <1>2, <1>3, <1>4, <1>5 DEF LockOK, TooMany
<1>6. CASE ~(n >= Max(k))
  <2>1. ASSUME Protected(burst[k], now) PROVE FALSE
    <3>1. gate[k].count >= Max(k) /\ gate[k].last >= burst[k] - Slow
      BY <1>3, <2>1 DEF LockOK
    <3>2. t - gate[k].last < Window
      BY <1>1, <2>1, <3>1 DEF Protected
    <3>3. n = gate[k].count + 1
      BY <1>1, <3>1, <3>2 DEF Fails
    <3> QED BY <1>1, <1>6, <3>1, <3>3
  <2> QED BY <1>1, <1>2, <1>3, <1>4, <1>6, <2>1 DEF LockOK, TooMany
<1> QED BY <1>5, <1>6

LEMMA WrongInv ==
  ASSUME IInv, NEW r \in Requests, Wrong(r)
  PROVE  IInv'
<1> DEFINE ks == KeysOf(try[r].from)
           t  == try[r].at
<1>1. /\ now' = now /\ counts' = counts /\ passed' = passed /\ Close(r)
      /\ gate' = [k \in Keys |-> IF k \in ks THEN Failed(k, t) ELSE gate[k]]
      /\ burst' = [k \in Keys |-> IF k \in ks /\ TooMany(k, Fails(k, t)) THEN now ELSE burst[k]]
      /\ wrong' = [k \in Keys |-> IF k \in ks THEN Append(wrong[k], now) ELSE wrong[k]]
  BY DEF Wrong, helloVars
<1>2. t \in Nat /\ t <= now /\ now - t <= Slow /\ now \in Nat
  <2>1. try[r].open
    BY DEF Wrong
  <2> QED BY <2>1 DEF IInv, TypeOK, TryOK
<1> HIDE DEF ks, t
<1>3. ASSUME NEW k \in Keys
      PROVE  /\ gate'[k] \in [count : Nat, last : Nat, until : Nat] /\ burst'[k] \in Int
             /\ LockOK(gate'[k], burst'[k], Max(k), now')
  <2>1. CASE k \in ks
    <3>1. gate'[k] = Failed(k, t) /\ burst'[k] = (IF TooMany(k, Fails(k, t)) THEN now ELSE burst[k])
      BY <1>1, <2>1
    <3>2. burst'[k] \in Int
      BY <1>2, <3>1 DEF IInv, TypeOK
    <3> QED BY <1>1, <1>2, <3>1, <3>2, FailedOK
  <2>2. CASE k \notin ks
    BY <1>1, <2>2 DEF IInv, TypeOK
  <2> QED BY <2>1, <2>2
<1>4. wrong' \in [Keys -> Seq(Nat)]
  BY <1>1, <1>2 DEF IInv, TypeOK
<1>5. gate' \in [Keys -> [count : Nat, last : Nat, until : Nat]] /\ burst' \in [Keys -> Int]
  BY <1>1, <1>3
<1>6. TypeOK'
  BY <1>1, <1>4, <1>5, CloseOK DEF IInv, TypeOK
<1> QED BY <1>1, <1>3, <1>6, CloseOK DEF IInv

LEMMA GiveUpInv ==
  ASSUME IInv, NEW r \in Requests, GiveUp(r)
  PROVE  IInv'
<1>1. /\ now' = now /\ counts' = counts /\ passed' = passed /\ Close(r)
      /\ gate' = gate /\ burst' = burst /\ wrong' = wrong
  BY DEF GiveUp, helloVars
<1>2. TypeOK'
  BY <1>1, CloseOK DEF IInv, TypeOK
<1> QED BY <1>1, <1>2, CloseOK DEF IInv

\* The sweep drops no count whose minute is not over and no lock that holds.
LEMMA SweepInv ==
  ASSUME IInv, Sweep
  PROVE  IInv'
<1>1. /\ now' = now /\ passed' = passed /\ try' = try /\ burst' = burst /\ wrong' = wrong
      /\ gate' = [k \in Keys |-> IF Idle(gate[k]) THEN NoGate ELSE gate[k]]
      /\ counts' = [k \in Keys |-> IF Over(counts[k], now) THEN NoCount ELSE counts[k]]
  BY DEF Sweep
<1>2. TypeOK'
  BY <1>1 DEF IInv, TypeOK, NoGate, NoCount
<1>3. ASSUME NEW k \in Keys PROVE CountOK(passed'[k], counts'[k], Budget(k), now')
  <2>1. /\ passed[k] \in Seq(Events) /\ counts[k] \in [n : Nat, since : Nat] /\ now \in Nat
        /\ Budget(k) \in Nat \ {0} /\ CountOK(passed[k], counts[k], Budget(k), now)
    BY BudgetType DEF IInv, TypeOK, Events
  <2>2. CASE Over(counts[k], now)
    BY <1>1, <2>1, <2>2, CountIsPruned
  <2>3. CASE ~Over(counts[k], now)
    BY <1>1, <2>1, <2>3
  <2> QED BY <2>2, <2>3
<1>4. ASSUME NEW k \in Keys PROVE LockOK(gate'[k], burst'[k], Max(k), now')
  <2>1. /\ gate[k] \in [count : Nat, last : Nat, until : Nat] /\ burst[k] \in Int /\ now \in Nat
        /\ LockOK(gate[k], burst[k], Max(k), now)
    BY DEF IInv, TypeOK
  <2>2. CASE Protected(burst[k], now)
    <3>1. gate[k].until > now
      BY <2>1, <2>2, GatesAssumption DEF LockOK, Protected
    <3>2. gate'[k] = gate[k]
      BY <1>1, <2>1, <3>1 DEF Idle
    <3> QED BY <1>1, <2>1, <3>2
  <2>3. CASE ~Protected(burst[k], now)
    BY <1>1, <2>1, <2>3 DEF LockOK
  <2> QED BY <2>2, <2>3
<1> QED BY <1>1, <1>2, <1>3, <1>4 DEF IInv

LEMMA TickInv ==
  ASSUME IInv, Tick
  PROVE  IInv'
<1>1. /\ now' = now + 1 /\ now \in Nat /\ counts' = counts /\ passed' = passed
      /\ gate' = gate /\ try' = try /\ burst' = burst /\ wrong' = wrong
  BY DEF Tick, helloVars, loginVars, IInv, TypeOK
<1>2. TypeOK'
  BY <1>1 DEF IInv, TypeOK
<1>3. ASSUME NEW k \in Keys PROVE CountOK(passed'[k], counts'[k], Budget(k), now')
  <2>1. /\ passed[k] \in Seq(Events) /\ counts[k] \in [n : Nat, since : Nat]
        /\ Budget(k) \in Nat \ {0} /\ CountOK(passed[k], counts[k], Budget(k), now)
    BY BudgetType DEF IInv, TypeOK, Events
  <2>2. CountOK(passed[k], counts[k], Budget(k), now + 1)
    BY <1>1, <2>1, CountAges
  <2> QED BY <1>1, <2>2
<1>4. ASSUME NEW k \in Keys PROVE LockOK(gate'[k], burst'[k], Max(k), now')
  <2>1. burst[k] \in Int /\ LockOK(gate[k], burst[k], Max(k), now)
    BY DEF IInv, TypeOK
  <2> QED BY <1>1, <2>1, GatesAssumption DEF LockOK, Protected
<1>5. ASSUME NEW r \in Requests PROVE TryOK(try'[r], now')
  BY <1>1 DEF Tick, IInv, TypeOK, TryOK
<1> QED BY <1>1, <1>2, <1>3, <1>4, <1>5 DEF IInv

LEMMA NextInv == IInv /\ [Next]_vars => IInv'
<1> SUFFICES ASSUME IInv, [Next]_vars PROVE IInv'
  OBVIOUS
<1>1. CASE UNCHANGED vars
  BY <1>1 DEF vars, helloVars, loginVars, IInv, TypeOK
<1> QED BY <1>1, HelloInv, ArriveInv, RightInv, WrongInv, GiveUpInv, SweepInv, TickInv DEF Next

-----------------------------------------------------------------------------
(* The guesses.  What holds of the times q of a key's wrong passwords, its *)
(* login entry g, when it was locked out b, how many requests o of its are *)
(* under way, its maximum m and the clock t.                               *)

Recent(x, t) == t < x + Lockout - Slow

Open(k) == {r \in Requests : try[r].open /\ k \in KeysOf(try[r].from)}

InOrder(q, t) == \A i \in DOMAIN q : q[i] <= t /\ \A j \in DOMAIN q : i <= j => q[i] <= q[j]

\* The wrong passwords since a recent one are all counted, and when they are as
\* many as the maximum the key is locked: then only requests that were under way
\* may add to them.
Tallied(q, g, b, o, m, t) ==
  \A i \in DOMAIN q : Recent(q[i], t) =>
    /\ g.count >= Len(q) - i + 1 /\ g.last >= q[Len(q)] - Slow
    /\ Len(q) - i + 1 >= m => b >= q[i] /\ Len(q) - i + 1 - m + o <= Cardinality(Requests) - 1

Sparse(q, m) ==
  \A i, j \in DOMAIN q : j - i >= m + Cardinality(Requests) - 1 => q[j] - q[i] >= Lockout - Slow

GuessOK(q, g, b, o, m, t) == InOrder(q, t) /\ Tallied(q, g, b, o, m, t) /\ Sparse(q, m)

GuessInv == \A k \in Keys : GuessOK(wrong[k], gate[k], burst[k], Cardinality(Open(k)), Max(k), now)

LEMMA OpenType ==
  ASSUME NEW k
  PROVE  /\ IsFiniteSet(Open(k)) /\ Cardinality(Open(k)) \in Nat /\ Cardinality(Requests) \in Nat
         /\ Cardinality(Open(k)) <= Cardinality(Requests)
<1>1. Open(k) \in SUBSET Requests
  BY DEF Open
<1> QED BY <1>1, GatesAssumption, FS_Subset, FS_CardinalityType

\* A failure counted for a recent wrong password is within the window.
LEMMA WithinWindow ==
  ASSUME NEW x \in Nat, NEW t \in Nat, NEW a \in Nat, NEW c \in Nat, NEW e \in Nat, NEW s \in Nat,
         NEW l \in Nat, NEW w \in Nat, l <= w, x <= t, t < a + l - s, a <= c, e >= c - s
  PROVE  x - e < w /\ ~(x - e > w)
OBVIOUS

\* A wrong password read at time x, of a request that was under way, is checked:
\* it goes to the end of the wrong ones.
LEMMA OneMore ==
  ASSUME NEW q \in Seq(Nat), NEW t \in Nat
  PROVE  /\ Len(q) \in Nat /\ DOMAIN q = 1..Len(q) /\ DOMAIN Append(q, t) = 1..(Len(q) + 1)
         /\ Len(Append(q, t)) = Len(q) + 1 /\ Append(q, t)[Len(q) + 1] = t
         /\ \A i \in 1..Len(q) : Append(q, t)[i] = q[i] /\ q[i] \in Nat
OBVIOUS

\* Counting it keeps the order, the tally and the distance of the guesses.
LEMMA GuessCounts ==
  ASSUME NEW q \in Seq(Nat), NEW g \in [count : Nat, last : Nat, until : Nat], NEW b \in Int, NEW m \in Nat \ {0},
         NEW t \in Nat, NEW x \in Nat, x <= t, t - x <= Slow,
         NEW o \in Nat, o >= 1, o <= Cardinality(Requests), Cardinality(Requests) \in Nat,
         NEW n, n = (IF g.count > 0 /\ x - g.last < Window THEN g.count + 1 ELSE 1),
         NEW h, h.count = n, h.last = x, NEW d, d = (IF n >= m THEN t ELSE b),
         GuessOK(q, g, b, o, m, t)
  PROVE  GuessOK(Append(q, t), h, d, o - 1, m, t)
<1> DEFINE z == Append(q, t)
           L == Len(q)
           R == Cardinality(Requests)
<1>0. g.count \in Nat /\ g.last \in Nat /\ n \in Nat \ {0} /\ R \in Nat
  OBVIOUS
<1>1. /\ Len(z) = L + 1 /\ DOMAIN z = 1..(L + 1) /\ DOMAIN q = 1..L /\ L \in Nat
      /\ z[L + 1] = t /\ \A i \in 1..L : z[i] = q[i] /\ q[i] \in Nat
  BY OneMore
<1>2. Slow \in Nat /\ Lockout \in Nat /\ Window \in Nat /\ Lockout <= Window
  BY GatesAssumption
<1>3. InOrder(q, t) /\ Tallied(q, g, b, o, m, t) /\ Sparse(q, m)
  BY DEF GuessOK
<1> HIDE DEF z, L, R
<1>a. \A i \in 1..L : q[i] \in Nat /\ q[i] <= t /\ \A j \in 1..L : i <= j => q[i] <= q[j]
  BY <1>1, <1>3 DEF InOrder
<1>4. InOrder(z, t)
  <2>1. ASSUME NEW i \in 1..(L + 1)
        PROVE  z[i] <= t /\ \A j \in 1..(L + 1) : i <= j => z[i] <= z[j]
    <3>1. CASE i = L + 1
      <4>1. ASSUME NEW j \in 1..(L + 1), i <= j PROVE j = L + 1
        BY <1>1, <3>1, <4>1
      <4> QED BY <1>1, <3>1, <4>1
    <3>2. CASE i # L + 1
      <4>1. i \in 1..L /\ z[i] = q[i] /\ q[i] \in Nat /\ q[i] <= t
        BY <1>1, <1>a, <3>2
      <4>2. ASSUME NEW j \in 1..(L + 1), i <= j PROVE z[i] <= z[j]
        <5>1. CASE j = L + 1
          BY <1>1, <4>1, <5>1
        <5>2. CASE j # L + 1
          <6>1. j \in 1..L /\ z[j] = q[j]
            BY <1>1, <5>2
          <6> QED BY <1>a, <4>1, <4>2, <6>1
        <5> QED BY <5>1, <5>2
      <4> QED BY <4>1, <4>2
    <3> QED BY <3>1, <3>2
  <2> QED BY <1>1, <2>1 DEF InOrder
<1>5. ASSUME NEW i \in 1..L, Recent(q[i], t)
      PROVE  /\ g.count >= L - i + 1 /\ n = g.count + 1
             /\ L - i + 1 >= m => L - i + 1 - m + o <= R - 1
  <2>1. /\ g.count >= L - i + 1 /\ g.last >= q[L] - Slow
        /\ L - i + 1 >= m => L - i + 1 - m + o <= R - 1
    BY <1>1, <1>3, <1>5 DEF Tallied, L, R
  <2>2. L \in 1..L /\ i <= L /\ q[L] >= q[i] /\ q[L] \in Nat /\ q[i] \in Nat
    <3>1. L \in 1..L /\ i <= L
      BY <1>1
    <3>2. q[L] \in Nat /\ q[i] \in Nat
      BY <1>a, <3>1
    <3>3. q[L] >= q[i]
      BY <1>a, <3>1, <3>2
    <3> QED BY <3>1, <3>2, <3>3
  <2>3. t < q[i] + Lockout - Slow
    BY <1>5 DEF Recent
  <2>4. x - g.last < Window
    <3> DEFINE a == q[i]
               c == q[L]
               e == g.last
    <3>1. a \in Nat /\ c \in Nat /\ e \in Nat /\ a <= c /\ e >= c - Slow /\ t < a + Lockout - Slow
      BY <1>0, <2>1, <2>2, <2>3
    <3> HIDE DEF a, c, e
    <3>2. x - e < Window
      BY <1>2, <3>1, WithinWindow
    <3> QED BY <3>2 DEF e
  <2>5. g.count > 0
    BY <1>0, <1>1, <2>1, <2>2
  <2> QED BY <2>1, <2>4, <2>5
<1>6. Tallied(z, h, d, o - 1, m, t)
  <2> SUFFICES ASSUME NEW i \in 1..(L + 1), Recent(z[i], t)
               PROVE  /\ h.count >= (L + 1) - i + 1 /\ h.last >= z[L + 1] - Slow
                      /\ (L + 1) - i + 1 >= m => d >= z[i] /\ (L + 1) - i + 1 - m + (o - 1) <= R - 1
    BY <1>1 DEF Tallied, R
  <2>1. h.last >= z[L + 1] - Slow
    BY <1>1, <1>2
  <2>2. z[i] <= t /\ z[i] \in Nat
    <3>1. CASE i = L + 1
      BY <1>1, <3>1
    <3>2. CASE i # L + 1
      <4>1. i \in 1..L
        BY <1>1, <3>2
      <4> QED BY <1>1, <1>a, <4>1
    <3> QED BY <3>1, <3>2
  <2>3. CASE i = L + 1
    <3>1. n >= 1 /\ h.count = n
      BY <1>0
    <3>2. (L + 1) - i + 1 = 1
      BY <1>1, <2>3
    <3>3. ASSUME 1 >= m PROVE d >= z[i] /\ 1 - m + (o - 1) <= R - 1
      <4>1. m = 1 /\ d = t
        BY <3>1, <3>3
      <4>2. o <= R /\ R \in Nat
        BY <1>0 DEF R
      <4>3. 1 - m + (o - 1) <= R - 1
        BY <4>1, <4>2
      <4> QED BY <2>2, <4>1, <4>3
    <3>4. (L + 1) - i + 1 - m + (o - 1) = 1 - m + (o - 1)
      BY <1>0, <1>1, <2>3
    <3>5. h.count >= (L + 1) - i + 1
      BY <3>1, <3>2
    <3>6. (L + 1) - i + 1 >= m => d >= z[i] /\ (L + 1) - i + 1 - m + (o - 1) <= R - 1
      BY <3>2, <3>3, <3>4
    <3> QED BY <2>1, <3>5, <3>6
  <2>4. CASE i \in 1..L
    <3>1. /\ g.count >= L - i + 1 /\ n = g.count + 1
          /\ L - i + 1 >= m => L - i + 1 - m + o <= R - 1
      BY <1>1, <1>5, <2>4
    <3>2. h.count >= (L + 1) - i + 1
      <4>1. h.count = n
        OBVIOUS
      <4>2. n = g.count + 1 /\ g.count >= L - i + 1 /\ g.count \in Nat /\ L \in Nat /\ i \in Int
        BY <1>0, <1>1, <2>4, <3>1
      <4> QED BY <4>1, <4>2
    <3>3. ASSUME (L + 1) - i + 1 >= m PROVE d >= z[i] /\ (L + 1) - i + 1 - m + (o - 1) <= R - 1
      <4>1. d = t
        <5>1. n >= (L + 1) - i + 1 /\ n \in Nat /\ L \in Nat /\ i \in Int
          BY <1>0, <1>1, <2>4, <3>2
        <5>2. n >= m
          BY <3>3, <5>1
        <5> QED BY <5>2
      <4>2. (L + 1) - i + 1 - m + (o - 1) <= R - 1
        <5>1. CASE L - i + 1 >= m
          BY <1>0, <1>1, <3>1, <5>1
        <5>2. CASE ~(L - i + 1 >= m)
          BY <1>0, <1>1, <3>3, <5>2 DEF R
        <5> QED BY <5>1, <5>2
      <4> QED BY <2>2, <4>1, <4>2
    <3> QED BY <2>1, <3>2, <3>3
  <2> QED BY <1>1, <2>3, <2>4
<1>7. Sparse(z, m)
  <2> SUFFICES ASSUME NEW i \in 1..(L + 1), NEW j \in 1..(L + 1), j - i >= m + R - 1
               PROVE  z[j] - z[i] >= Lockout - Slow
    BY <1>1 DEF Sparse, R
  <2>0. i <= j /\ R >= 1
    BY <1>0, <1>1 DEF R
  <2>1. CASE j \in 1..L
    <3>1. i \in 1..L /\ z[i] = q[i] /\ z[j] = q[j]
      BY <1>1, <2>0, <2>1
    <3> QED BY <1>1, <1>3, <2>1, <3>1 DEF Sparse, R
  <2>2. CASE j = L + 1
    <3>1. i \in 1..L
      BY <1>0, <1>1, <2>0, <2>2
    <3>2. z[i] = q[i] /\ z[j] = t /\ q[i] \in Nat
      BY <1>1, <2>2, <3>1
    <3>3. Recent(q[i], t) => L - i + 1 >= m /\ L - i + 1 - m + o <= R - 1
      <4>1. L - i + 1 >= m
        BY <1>0, <1>1, <2>0, <2>2, <3>1
      <4> QED BY <1>5, <3>1, <4>1
    <3>4. ~Recent(q[i], t)
      BY <1>0, <1>1, <2>2, <3>1, <3>3
    <3>5. ~(t < q[i] + Lockout - Slow)
      BY <3>4 DEF Recent
    <3>6. t - q[i] >= Lockout - Slow
      <4> DEFINE a == q[i]
      <4>1. a \in Nat /\ ~(t < a + Lockout - Slow)
        BY <3>2, <3>5
      <4> HIDE DEF a
      <4>2. t - a >= Lockout - Slow
        BY <1>2, <4>1
      <4> QED BY <4>2 DEF a
    <3> QED BY <3>2, <3>6
  <2> QED BY <1>1, <2>1, <2>2
<1> QED BY <1>4, <1>6, <1>7 DEF GuessOK, z

\* Fewer requests under way, or a later clock, disturb nothing.
LEMMA GuessEases ==
  ASSUME NEW q \in Seq(Nat), NEW g \in [count : Nat, last : Nat, until : Nat], NEW b \in Int, NEW m \in Nat \ {0},
         NEW t \in Nat, NEW u \in Nat, t <= u, NEW o \in Nat, NEW p \in Nat, p <= o,
         Cardinality(Requests) \in Nat, GuessOK(q, g, b, o, m, t)
  PROVE  GuessOK(q, g, b, p, m, u)
<1>1. DOMAIN q = 1..Len(q) /\ Len(q) \in Nat /\ \A i \in 1..Len(q) : q[i] \in Nat
  OBVIOUS
<1>2. Slow \in Nat /\ Lockout \in Nat
  BY GatesAssumption
<1>3. InOrder(q, u)
  BY <1>1 DEF GuessOK, InOrder
<1>4. Tallied(q, g, b, p, m, u)
  <2> SUFFICES ASSUME NEW i \in 1..Len(q), Recent(q[i], u)
               PROVE  /\ g.count >= Len(q) - i + 1 /\ g.last >= q[Len(q)] - Slow
                      /\ Len(q) - i + 1 >= m => b >= q[i] /\ Len(q) - i + 1 - m + p <= Cardinality(Requests) - 1
    BY <1>1 DEF Tallied
  <2>1. Recent(q[i], t)
    BY <1>1, <1>2 DEF Recent
  <2>2. /\ g.count >= Len(q) - i + 1 /\ g.last >= q[Len(q)] - Slow
        /\ Len(q) - i + 1 >= m => b >= q[i] /\ Len(q) - i + 1 - m + o <= Cardinality(Requests) - 1
    BY <1>1, <2>1 DEF GuessOK, Tallied
  <2>3. ASSUME Len(q) - i + 1 >= m PROVE Len(q) - i + 1 - m + p <= Cardinality(Requests) - 1
    <3>1. Len(q) - i + 1 - m + o <= Cardinality(Requests) - 1
      BY <2>2, <2>3
    <3> QED BY <1>1, <3>1
  <2> QED BY <2>2, <2>3
<1> QED BY <1>3, <1>4 DEF GuessOK

LEMMA InitGuess == Init => GuessInv
<1>1. DOMAIN << >> = {}
  OBVIOUS
<1> QED BY <1>1 DEF Init, GuessInv, GuessOK, InOrder, Tallied, Sparse

LEMMA KeyTypes ==
  ASSUME IInv, NEW k \in Keys
  PROVE  /\ wrong[k] \in Seq(Nat) /\ gate[k] \in [count : Nat, last : Nat, until : Nat] /\ burst[k] \in Int
         /\ now \in Nat /\ Max(k) \in Nat \ {0} /\ LockOK(gate[k], burst[k], Max(k), now)
BY MaxType DEF IInv, TypeOK

\* A key that is locked admits no further request, so none is added.
LEMMA ArriveGuess ==
  ASSUME IInv, GuessInv, NEW r \in Requests, NEW c \in Clients, Arrive(r, c)
  PROVE  GuessInv'
<1>1. /\ now' = now /\ gate' = gate /\ burst' = burst /\ wrong' = wrong
      /\ ~try[r].open /\ try' = [try EXCEPT ![r] = [open |-> TRUE, from |-> c, at |-> now]]
      /\ \A k \in KeysOf(c) : ~Locked(k)
  BY DEF Arrive
<1>2. try \in [Requests -> [open : BOOLEAN, from : Keys, at : Nat]]
  BY DEF IInv, TypeOK
<1> SUFFICES ASSUME NEW k \in Keys
             PROVE  GuessOK(wrong[k], gate[k], burst[k], Cardinality(Open(k)'), Max(k), now)
  BY <1>1, Zenon DEF GuessInv
<1>3. GuessOK(wrong[k], gate[k], burst[k], Cardinality(Open(k)), Max(k), now)
  BY DEF GuessInv
<1>4. \A o \in Requests : o # r => try'[o] = try[o]
  BY <1>1, <1>2
<1>5. try'[r].open /\ try'[r].from = c
  BY <1>1, <1>2
<1>6. CASE k \notin KeysOf(c)
  <2>1. Open(k)' = Open(k)
    BY <1>1, <1>4, <1>5, <1>6 DEF Open
  <2> QED BY <1>3, <2>1
<1>7. CASE k \in KeysOf(c)
  <2>1. ~(gate[k].until > now)
    BY <1>1, <1>7 DEF Locked
  <2>2. ~Protected(burst[k], now)
    BY <2>1, KeyTypes, GatesAssumption DEF LockOK, Protected
  <2>3. DOMAIN wrong[k] = 1..Len(wrong[k]) /\ Len(wrong[k]) \in Nat /\ \A i \in 1..Len(wrong[k]) : wrong[k][i] \in Nat
    BY KeyTypes
  <2>4. ASSUME NEW i \in DOMAIN wrong[k], Recent(wrong[k][i], now), Len(wrong[k]) - i + 1 >= Max(k) PROVE FALSE
    <3>1. burst[k] >= wrong[k][i]
      BY <1>3, <2>4 DEF GuessOK, Tallied
    <3>2. wrong[k][i] \in Nat /\ burst[k] \in Int /\ now \in Nat /\ Slow \in Nat /\ Lockout \in Nat
      BY <2>3, KeyTypes, GatesAssumption
    <3>3. burst[k] # Never /\ now < burst[k] + Lockout - Slow
      BY <2>4, <3>1, <3>2 DEF Recent, Never
    <3> QED BY <2>2, <3>3 DEF Protected
  <2> QED BY <1>3, <2>4 DEF GuessOK, Tallied
<1> QED BY <1>6, <1>7

\* A request is over: it is no longer under way, and no other changes.
LEMMA ClosedOpen ==
  ASSUME IInv, NEW r \in Requests, try[r].open, Close(r), NEW k
  PROVE  /\ k \in KeysOf(try[r].from) => Cardinality(Open(k)') = Cardinality(Open(k)) - 1 /\ Cardinality(Open(k)) >= 1
         /\ k \notin KeysOf(try[r].from) => Open(k)' = Open(k)
         /\ Cardinality(Open(k)') \in Nat /\ Cardinality(Open(k)') <= Cardinality(Open(k))
<1>1. try \in [Requests -> [open : BOOLEAN, from : Keys, at : Nat]]
  BY DEF IInv, TypeOK
<1>2. ~try'[r].open /\ \A o \in Requests : o # r => try'[o] = try[o]
  BY <1>1 DEF Close, NoTry
<1>3. Open(k)' = Open(k) \ {r}
  BY <1>2 DEF Open
<1>4. r \in Open(k) <=> k \in KeysOf(try[r].from)
  BY DEF Open
<1>5. IsFiniteSet(Open(k)) /\ Cardinality(Open(k)) \in Nat
  BY OpenType
<1>6. /\ IsFiniteSet(Open(k) \ {r})
      /\ Cardinality(Open(k) \ {r}) = IF r \in Open(k) THEN Cardinality(Open(k)) - 1 ELSE Cardinality(Open(k))
  BY <1>5, FS_RemoveElement
<1>7. Cardinality(Open(k) \ {r}) \in Nat
  BY <1>6, FS_CardinalityType
<1>8. CASE r \in Open(k)
  BY <1>3, <1>4, <1>5, <1>6, <1>7, <1>8
<1>9. CASE r \notin Open(k)
  BY <1>3, <1>4, <1>5, <1>6, <1>7, <1>9
<1> QED BY <1>8, <1>9

LEMMA RequestGuess ==
  ASSUME IInv, GuessInv, NEW r \in Requests, Right(r) \/ Wrong(r) \/ GiveUp(r)
  PROVE  GuessInv'
<1> DEFINE ks == KeysOf(try[r].from)
           t  == try[r].at
<1>1. now' = now /\ try[r].open /\ Close(r)
  BY DEF Right, Wrong, GiveUp
<1> SUFFICES ASSUME NEW k \in Keys
             PROVE  GuessOK(wrong'[k], gate'[k], burst'[k], Cardinality(Open(k)'), Max(k), now)
  BY <1>1, Zenon DEF GuessInv
<1>2. GuessOK(wrong[k], gate[k], burst[k], Cardinality(Open(k)), Max(k), now)
  BY DEF GuessInv
<1>3. /\ k \in ks => Cardinality(Open(k)') = Cardinality(Open(k)) - 1 /\ Cardinality(Open(k)) >= 1
      /\ Cardinality(Open(k)') \in Nat /\ Cardinality(Open(k)') <= Cardinality(Open(k))
  BY <1>1, ClosedOpen
<1>4. /\ t \in Nat /\ t <= now /\ now - t <= Slow
  BY <1>1 DEF IInv, TypeOK, TryOK
<1> HIDE DEF ks, t
<1>5. CASE wrong'[k] = wrong[k] /\ gate'[k] = gate[k] /\ burst'[k] = burst[k]
  <2>1. GuessOK(wrong[k], gate[k], burst[k], Cardinality(Open(k)'), Max(k), now)
    <3>1. /\ Cardinality(Requests) \in Nat /\ Cardinality(Open(k)) \in Nat /\ Cardinality(Open(k)') \in Nat
          /\ Cardinality(Open(k)') <= Cardinality(Open(k)) /\ now \in Nat /\ now <= now
      BY <1>3, KeyTypes, OpenType
    <3>2. wrong[k] \in Seq(Nat) /\ gate[k] \in [count : Nat, last : Nat, until : Nat] /\ burst[k] \in Int
          /\ Max(k) \in Nat \ {0}
      BY KeyTypes
    <3> QED BY <1>2, <3>1, <3>2, GuessEases
  <2> QED BY <1>5, <2>1
<1>6. CASE Right(r) /\ k \in ks
  <2>1. wrong'[k] = << >>
    BY <1>6 DEF Right, ks
  <2>2. DOMAIN << >> = {}
    OBVIOUS
  <2> QED BY <2>1, <2>2 DEF GuessOK, InOrder, Tallied, Sparse
<1>7. CASE Wrong(r) /\ k \in ks
  <2> DEFINE n == Fails(k, t)
             h == Failed(k, t)
             d == IF TooMany(k, n) THEN now ELSE burst[k]
  <2>1. wrong'[k] = Append(wrong[k], now) /\ gate'[k] = h /\ burst'[k] = d
    BY <1>7 DEF Wrong, ks, t
  <2>2. n = (IF gate[k].count > 0 /\ t - gate[k].last < Window THEN gate[k].count + 1 ELSE 1)
    BY DEF Fails
  <2>3. h.count = n /\ h.last = t
    BY DEF Failed
  <2>4. d = (IF n >= Max(k) THEN now ELSE burst[k])
    BY DEF TooMany
  <2> HIDE DEF n, h, d
  <2>5. GuessOK(Append(wrong[k], now), h, d, Cardinality(Open(k)) - 1, Max(k), now)
    BY <1>2, <1>3, <1>4, <1>7, <2>2, <2>3, <2>4, KeyTypes, OpenType, GuessCounts
  <2> QED BY <1>3, <1>7, <2>1, <2>5
<1> QED BY <1>5, <1>6, <1>7 DEF Right, Wrong, GiveUp, ks

\* The sweep drops no entry that counts a recent failure.
LEMMA SweepGuess ==
  ASSUME IInv, GuessInv, Sweep
  PROVE  GuessInv'
<1>1. /\ now' = now /\ try' = try /\ burst' = burst /\ wrong' = wrong
      /\ gate' = [k \in Keys |-> IF Idle(gate[k]) THEN NoGate ELSE gate[k]]
  BY DEF Sweep
<1> SUFFICES ASSUME NEW k \in Keys
             PROVE  GuessOK(wrong[k], gate'[k], burst[k], Cardinality(Open(k)), Max(k), now)
  BY <1>1, Zenon DEF GuessInv, Open
<1>2. GuessOK(wrong[k], gate[k], burst[k], Cardinality(Open(k)), Max(k), now)
  BY DEF GuessInv
<1>3. CASE ~Idle(gate[k])
  BY <1>1, <1>2, <1>3
<1>4. CASE Idle(gate[k])
  <2>1. /\ DOMAIN wrong[k] = 1..Len(wrong[k]) /\ Len(wrong[k]) \in Nat
        /\ \A i \in 1..Len(wrong[k]) : wrong[k][i] \in Nat
    BY KeyTypes
  <2>2. ASSUME NEW i \in 1..Len(wrong[k]), Recent(wrong[k][i], now) PROVE FALSE
    <3>1. Len(wrong[k]) \in 1..Len(wrong[k]) /\ i <= Len(wrong[k])
      BY <2>1
    <3>2. gate[k].last >= wrong[k][Len(wrong[k])] - Slow /\ wrong[k][i] <= wrong[k][Len(wrong[k])]
      BY <1>2, <2>1, <2>2, <3>1 DEF GuessOK, Tallied, InOrder
    <3>3. now - gate[k].last > Window
      BY <1>4 DEF Idle
    <3>4. now < wrong[k][i] + Lockout - Slow
      BY <2>2 DEF Recent
    <3>5. wrong[k][i] \in Nat /\ wrong[k][Len(wrong[k])] \in Nat /\ gate[k].last \in Nat /\ now \in Nat
      BY <2>1, <3>1, KeyTypes
    <3>6. Slow \in Nat /\ Lockout \in Nat /\ Window \in Nat /\ Lockout <= Window
      BY GatesAssumption
    <3>7. ~(now - gate[k].last > Window)
      <4> DEFINE a == wrong[k][i]
                 c == wrong[k][Len(wrong[k])]
                 e == gate[k].last
      <4>1. e >= c - Slow /\ a <= c /\ now < a + Lockout - Slow /\ a \in Nat /\ c \in Nat /\ e \in Nat /\ now \in Nat
        BY <3>2, <3>4, <3>5
      <4> HIDE DEF a, c, e
      <4>2. ~(now - e > Window)
        BY <3>6, <4>1
      <4> QED BY <4>2 DEF e
    <3> QED BY <3>3, <3>7
  <2>3. Tallied(wrong[k], gate'[k], burst[k], Cardinality(Open(k)), Max(k), now)
    BY <2>1, <2>2 DEF Tallied
  <2> QED BY <1>2, <2>3 DEF GuessOK
<1> QED BY <1>3, <1>4

LEMMA NextGuess == IInv /\ GuessInv /\ [Next]_vars => GuessInv'
<1> SUFFICES ASSUME IInv, GuessInv, [Next]_vars PROVE GuessInv'
  OBVIOUS
<1>1. ASSUME UNCHANGED loginVars, now' = now \/ now' = now + 1 PROVE GuessInv'
  <2> SUFFICES ASSUME NEW k \in Keys
               PROVE  GuessOK(wrong[k], gate[k], burst[k], Cardinality(Open(k)), Max(k), now')
    BY <1>1, Zenon DEF GuessInv, Open, loginVars
  <2>1. GuessOK(wrong[k], gate[k], burst[k], Cardinality(Open(k)), Max(k), now)
    BY DEF GuessInv
  <2>2. now \in Nat /\ now' \in Nat /\ now <= now' /\ Cardinality(Open(k)) <= Cardinality(Open(k))
    BY <1>1, KeyTypes, OpenType
  <2> QED BY <2>1, <2>2, KeyTypes, OpenType, GuessEases
<1>2. ASSUME NEW c \in Clients, Hello(c) PROVE GuessInv'
  BY <1>1, <1>2 DEF Hello
<1>3. ASSUME Tick PROVE GuessInv'
  BY <1>1, <1>3 DEF Tick
<1>4. ASSUME UNCHANGED vars PROVE GuessInv'
  BY <1>1, <1>4 DEF vars
<1> QED BY <1>2, <1>3, <1>4, ArriveGuess, RequestGuess, SweepGuess DEF Next

-----------------------------------------------------------------------------
(* The theorems.                                                           *)

LEMMA GatesInvariant == Spec => []IInv
BY InitInv, NextInv, PTL DEF Spec

(* Counts, locks and requests are what MinuteGate and loginGate keep.      *)
THEOREM GatesTypeOK == Spec => []TypeOK
<1>1. IInv => TypeOK
  BY DEF IInv
<1> QED BY <1>1, GatesInvariant, PTL

(* No minute sees twice the HELLO budget of a key, wherever it begins and  *)
(* whenever the sweep prunes.                                              *)
THEOREM HelloRate == Spec => []AtMostTwice
<1>1. IInv => AtMostTwice
  <2> SUFFICES ASSUME IInv, NEW k \in Keys, NEW i \in DOMAIN passed[k], NEW j \in DOMAIN passed[k],
                      j - i >= 2 * Budget(k) - 1
               PROVE  passed[k][j].at - passed[k][i].at >= Minute
    BY DEF AtMostTwice
  <2>1. passed[k] \in Seq(Events) /\ now \in Nat /\ Budget(k) \in Nat \ {0}
    BY BudgetType DEF IInv, TypeOK, Events
  <2>2. Grouped(passed[k], Budget(k), now) /\ Apart(passed[k])
    BY DEF IInv, CountOK
  <2> QED BY <2>1, <2>2, TwiceAtMost
<1> QED BY <1>1, GatesInvariant, PTL

(* A lockout holds for its time less that of a slow request, whatever the  *)
(* sweep and late failures do, until a right password comes.               *)
THEOREM LockoutHolds == Spec => []LockHolds
<1>1. IInv => LockHolds
  <2> SUFFICES ASSUME IInv, NEW k \in Keys, burst[k] # Never, now < burst[k] + Lockout - Slow
               PROVE  Locked(k)
    BY DEF LockHolds
  <2>1. /\ gate[k] \in [count : Nat, last : Nat, until : Nat] /\ burst[k] \in Int /\ now \in Nat
        /\ LockOK(gate[k], burst[k], Max(k), now)
    BY DEF IInv, TypeOK
  <2> QED BY <2>1, GatesAssumption DEF LockOK, Protected, Locked
<1> QED BY <1>1, GatesInvariant, PTL

(* However login requests overlap and whenever the sweep runs, no key has  *)
(* more wrong passwords checked within a lockout, less the time a request  *)
(* takes, than its maximum and one for each further request under way.     *)
THEOREM GuessRate == Spec => []GuessesAreBounded
<1>1. Init => IInv /\ GuessInv
  BY InitInv, InitGuess
<1>2. IInv /\ GuessInv /\ [Next]_vars => (IInv /\ GuessInv)'
  BY NextInv, NextGuess
<1>3. GuessInv => GuessesAreBounded
  BY DEF GuessInv, GuessOK, Sparse, GuessesAreBounded
<1> QED BY <1>1, <1>2, <1>3, PTL DEF Spec
=============================================================================
