------------------------- MODULE RateLimiterProofs -------------------------
(***************************************************************************)
(* Proofs about RateLimiter for every set of requests and addresses, every *)
(* burst, every interval that lets a limiter fill up, and every time.  The *)
(* inductive invariant IInv ties the three times the code compares: when a *)
(* request took a limiter from the map, when the limiter was last used and *)
(* when it last let a request through.                                     *)
(***************************************************************************)
EXTENDS RateLimiter, TLAPS

\* No limiter is from the future, and none has let a request through long
\* after it was last taken from the map.
TimesInv ==
    \A a \in DOMAIN limiters :
        /\ limiters[a].last <= now
        /\ limiters[a].lastUsed <= now
        /\ limiters[a].last <= limiters[a].lastUsed + MaxStall

\* A request that is about to Allow took its limiter from the map not long ago.
WaitingInv ==
    \A r \in Requests : verdict[r] = "waiting" =>
        /\ addr[r] \in DOMAIN limiters
        /\ limiters[addr[r]].lastUsed >= since[r]
        /\ now <= since[r] + MaxStall

IInv == TypeOK /\ TimesInv /\ WaitingInv /\ MapIsSwept

-----------------------------------------------------------------------------
LEMMA InitIInv == Init => IInv
BY BurstAssumption, TimesAssumption, IntervalAssumption
   DEF Init, IInv, TypeOK, TimesInv, WaitingInv, MapIsSwept

\* What a limiter has is within the burst.
LEMMA TokensBound ==
    ASSUME NEW l \in Limiter, NEW t \in Nat, l.last <= t
    PROVE  TokensAt(l, t) \in 0 .. Burst
BY BurstAssumption DEF Limiter, TokensAt

\* getLimiter leaves the request's limiter in the map, used just now; all others
\* are as they were or are gone, and gone only after an interval without use.
LEMMA GetLimiterStep ==
    ASSUME IInv, NEW r \in Requests, NEW a \in Addresses, GetLimiter(r, a)
    PROVE  /\ a \in DOMAIN limiters'
           /\ DOMAIN limiters' \subseteq DOMAIN limiters \cup {a}
           /\ limiters' = [x \in DOMAIN limiters' |-> limiters'[x]]
           /\ limiters'[a] = IF a \in DOMAIN limiters THEN UsedEntry(limiters[a]) ELSE NewEntry
           /\ \A x \in DOMAIN limiters' \ {a} : limiters'[x] = limiters[x]
           /\ \A x \in DOMAIN limiters \ DOMAIN limiters' : now - limiters[x].lastUsed > Interval
           /\ lastCleanup' = lastCleanup \/ lastCleanup' = now
           /\ lastCleanup' # lastCleanup =>
                 \A x \in DOMAIN limiters' : now - limiters'[x].lastUsed <= Interval
<1> DEFINE entry == IF a \in DOMAIN limiters THEN UsedEntry(limiters[a]) ELSE NewEntry
           used == [x \in DOMAIN limiters \cup {a} |-> IF x = a THEN entry ELSE limiters[x]]
           due == now - lastCleanup > Interval
<1>1. entry \in Limiter /\ entry.lastUsed = now
  BY BurstAssumption DEF IInv, TypeOK, UsedEntry, NewEntry, Limiter
<1>2. limiters' = (IF due THEN Cleaned(used) ELSE used) /\ lastCleanup' = IF due THEN now ELSE lastCleanup
  BY DEF GetLimiter
<1>3. now - entry.lastUsed <= Interval
  BY <1>1, IntervalAssumption DEF IInv, TypeOK
<1> HIDE DEF entry
<1>4. CASE due
  <2>1. limiters' = [x \in {y \in DOMAIN used : now - used[y].lastUsed <= Interval} |-> used[x]]
    BY <1>2, <1>4 DEF Cleaned
  <2>2. a \in DOMAIN limiters' /\ limiters'[a] = entry
    BY <2>1, <1>3
  <2>3. \A x \in DOMAIN limiters : now - limiters[x].lastUsed \in Int
    BY DEF IInv, TypeOK, Limiter
  <2>4. \A x \in DOMAIN limiters \ DOMAIN limiters' : now - limiters[x].lastUsed > Interval
    BY <2>1, <2>2, <2>3, IntervalAssumption
  <2>5. \A x \in DOMAIN limiters' : now - limiters'[x].lastUsed <= Interval
    BY <2>1
  <2> QED
    BY <1>2, <1>4, <2>1, <2>2, <2>4, <2>5 DEF entry
<1>5. CASE ~due
  BY <1>2, <1>5 DEF entry
<1> QED
  BY <1>4, <1>5

LEMMA NextIInv == IInv /\ [Next]_vars => IInv'
<1> USE BurstAssumption, TimesAssumption, IntervalAssumption
<1> SUFFICES ASSUME IInv, [Next]_vars PROVE IInv'
  OBVIOUS
<1>1. CASE Tick
  BY <1>1 DEF Tick, IInv, TypeOK, TimesInv, WaitingInv, MapIsSwept, Limiter
<1>2. ASSUME NEW r \in Requests, Allow(r) PROVE IInv'
  <2> DEFINE a == addr[r]
             l == limiters[a]
             n == TokensAt(l, now)
  <2>1. a \in DOMAIN limiters /\ l \in Limiter /\ now \in Nat
    BY <1>2 DEF Allow, IInv, WaitingInv, TypeOK
  <2>2. n \in 0 .. Burst
    BY <2>1, TokensBound DEF IInv, TimesInv
  <2>3. now <= l.lastUsed + MaxStall
    BY <1>2, <2>1 DEF Allow, IInv, WaitingInv, TypeOK, Limiter
  <2>4. CASE n > 0
    <3> DEFINE l2 == Taken(l, n)
    <3>1. limiters' = [limiters EXCEPT ![a] = l2]
      BY <1>2, <2>1, <2>4 DEF Allow, Limiter, IInv, TypeOK
    <3>2. l2 \in Limiter /\ l2.last = now /\ l2.lastUsed = l.lastUsed
      <4>1. n - 1 \in 0 .. Burst
        BY <2>2, <2>4
      <4> HIDE DEF n, l
      <4> QED
        BY <2>1, <4>1 DEF Taken, Limiter
    <3>3. DOMAIN limiters' = DOMAIN limiters /\ limiters'[a] = l2
          /\ \A x \in DOMAIN limiters \ {a} : limiters'[x] = limiters[x]
      BY <2>1, <3>1
    <3>4. verdict' = [verdict EXCEPT ![r] = "passed"] /\ UNCHANGED <<now, lastCleanup, addr, since>>
      BY <1>2, <2>4 DEF Allow
    <3>p. passed' \in [Addresses -> Nat]
      <4>1. addr[r] \in Addresses /\ passed \in [Addresses -> Nat]
        BY DEF IInv, TypeOK
      <4>2. passed' = passed \/ passed' = [passed EXCEPT ![addr[r]] = @ + 1]
        BY <1>2, <2>4 DEF Allow
      <4> QED
        BY <4>1, <4>2
    <3> HIDE DEF l2
    <3>5. TypeOK'
      BY <3>1, <3>2, <3>3, <3>4, <3>p DEF IInv, TypeOK
    <3>6. TimesInv' /\ MapIsSwept'
      BY <2>1, <2>3, <3>2, <3>3, <3>4 DEF IInv, TimesInv, MapIsSwept, TypeOK, Limiter
    <3>7. WaitingInv'
      BY <2>1, <3>2, <3>3, <3>4 DEF IInv, WaitingInv, TypeOK
    <3> QED
      BY <3>5, <3>6, <3>7 DEF IInv
  <2>5. CASE ~(n > 0)
    BY <1>2, <2>5 DEF Allow, IInv, TypeOK, TimesInv, WaitingInv, MapIsSwept
  <2> QED
    BY <2>4, <2>5
<1>3. ASSUME NEW r \in Requests, NEW a \in Addresses, GetLimiter(r, a) PROVE IInv'
  <2> DEFINE e == limiters'[a]
  <2>1. e \in Limiter /\ e.lastUsed = now /\ e.last <= now
    <3>1. now \in Nat /\ e = IF a \in DOMAIN limiters THEN UsedEntry(limiters[a]) ELSE NewEntry
      BY <1>3, GetLimiterStep DEF IInv, TypeOK
    <3>2. CASE a \in DOMAIN limiters
      <4>1. limiters[a] \in Limiter /\ limiters[a].last <= now
        BY <3>2 DEF IInv, TypeOK, TimesInv
      <4> QED
        BY <3>1, <3>2, <4>1 DEF UsedEntry, Limiter
    <3>3. CASE a \notin DOMAIN limiters
      BY <3>1, <3>3 DEF NewEntry, Limiter
    <3> QED
      BY <3>2, <3>3
  <2>2. UNCHANGED <<now, passed>> /\ addr' = [addr EXCEPT ![r] = a] /\ since' = [since EXCEPT ![r] = now]
        /\ verdict' = [verdict EXCEPT ![r] = "waiting"]
    BY <1>3 DEF GetLimiter
  <2>3. a \in DOMAIN limiters'
        /\ DOMAIN limiters' \subseteq DOMAIN limiters \cup {a}
        /\ limiters' = [x \in DOMAIN limiters' |-> limiters'[x]]
        /\ \A x \in DOMAIN limiters' \ {a} : limiters'[x] = limiters[x]
    BY <1>3, GetLimiterStep
  <2>4. lastCleanup' \in 0 .. now /\ (lastCleanup' # lastCleanup => lastCleanup' = now)
    BY <1>3, GetLimiterStep DEF IInv, TypeOK
  <2>5. TypeOK'
    BY <2>1, <2>2, <2>3, <2>4 DEF IInv, TypeOK
  <2>6. TimesInv'
    BY <2>1, <2>2, <2>3 DEF IInv, TypeOK, TimesInv, Limiter
  <2>7. WaitingInv'
    <3> SUFFICES ASSUME NEW q \in Requests, verdict'[q] = "waiting"
                 PROVE  /\ addr'[q] \in DOMAIN limiters'
                        /\ limiters'[addr'[q]].lastUsed >= since'[q]
                        /\ now' <= since'[q] + MaxStall
      BY DEF WaitingInv
    <3>1. CASE q = r
      BY <2>1, <2>2, <2>3, <3>1 DEF IInv, TypeOK
    <3>2. CASE q # r
      <4>1. addr'[q] = addr[q] /\ since'[q] = since[q] /\ verdict[q] = "waiting"
        BY <2>2, <3>2 DEF IInv, TypeOK
      <4>2. /\ addr[q] \in DOMAIN limiters
            /\ limiters[addr[q]] \in Limiter
            /\ limiters[addr[q]].lastUsed >= since[q]
            /\ now <= since[q] + MaxStall
            /\ since[q] \in 0 .. now
            /\ now \in Nat
        BY <4>1 DEF IInv, WaitingInv, TypeOK
      <4>3. ~(now - limiters[addr[q]].lastUsed > Interval)
        BY <4>2 DEF Limiter
      <4>4. addr[q] \in DOMAIN limiters'
        BY <1>3, <4>2, <4>3, GetLimiterStep
      <4> QED
        BY <2>1, <2>2, <2>3, <4>1, <4>2, <4>4
    <3> QED
      BY <3>1, <3>2
  <2>8. MapIsSwept'
    <3>1. CASE lastCleanup' = lastCleanup
      BY <2>1, <2>2, <2>3, <3>1 DEF IInv, MapIsSwept, TypeOK
    <3>2. CASE lastCleanup' # lastCleanup
      <4>1. lastCleanup' = now
        BY <2>4, <3>2
      <4>2. \A x \in DOMAIN limiters' : limiters'[x] \in Limiter /\ now - limiters'[x].lastUsed <= Interval
        BY <1>3, <2>5, <3>2, GetLimiterStep DEF TypeOK
      <4> QED
        BY <4>1, <4>2 DEF MapIsSwept, Limiter, IInv, TypeOK
    <3> QED
      BY <3>1, <3>2
  <2> QED
    BY <2>5, <2>6, <2>7, <2>8 DEF IInv
<1>4. CASE UNCHANGED vars
  BY <1>4 DEF vars, IInv, TypeOK, TimesInv, WaitingInv, MapIsSwept
<1> QED
  BY <1>1, <1>2, <1>3, <1>4 DEF Next

\* Every reachable state satisfies the inductive invariant.
THEOREM IInvCorrect == Spec => []IInv
BY InitIInv, NextIInv, PTL DEF Spec

\* Limiters never have less than no token or more than the burst.
THEOREM TypeCorrect == Spec => []TypeOK
<1>1. IInv => TypeOK
  BY DEF IInv
<1> QED
  BY <1>1, IInvCorrect, PTL

\* The cleanup never drops the limiter that a request is about to ask, however
\* many requests and addresses there are.
THEOREM HeldIsListedCorrect == Spec => []HeldIsListed
<1>1. IInv => HeldIsListed
  BY DEF IInv, WaitingInv, HeldIsListed
<1> QED
  BY <1>1, IInvCorrect, PTL

\* The map holds only what was used within an interval before the last cleanup.
THEOREM MapIsSweptCorrect == Spec => []MapIsSwept
<1>1. IInv => MapIsSwept
  BY DEF IInv
<1> QED
  BY <1>1, IInvCorrect, PTL

-----------------------------------------------------------------------------
(* The refinement of TokenBucket.                                          *)

Held == [a \in Addresses |->
            IF a \in DOMAIN limiters THEN TokensAt(limiters[a], now) ELSE Burst]

LEMMA BucketInit == Init => Buckets!Init
BY DEF Init, Buckets!Init

LEMMA HeldType == IInv => Held \in [Addresses -> 0 .. Burst]
<1> SUFFICES ASSUME IInv, NEW a \in Addresses PROVE Held[a] \in 0 .. Burst
  BY DEF Held
<1>1. CASE a \in DOMAIN limiters
  BY <1>1, TokensBound DEF Held, IInv, TypeOK, TimesInv
<1>2. CASE a \notin DOMAIN limiters
  BY <1>2, BurstAssumption DEF Held
<1> QED
  BY <1>1, <1>2

\* A unit of time is a token for every bucket that is not full.
LEMMA TickHeld ==
    ASSUME IInv, Tick
    PROVE  Held' = [a \in Addresses |-> IF Held[a] < Burst THEN Held[a] + 1 ELSE Burst]
<1>1. now \in Nat /\ now' = now + 1 /\ limiters' = limiters
  BY DEF Tick, IInv, TypeOK
<1>2. ASSUME NEW a \in Addresses
      PROVE  Held'[a] = IF Held[a] < Burst THEN Held[a] + 1 ELSE Burst
  <2>1. CASE a \in DOMAIN limiters
    <3>1. limiters[a] \in Limiter
      BY <2>1 DEF IInv, TypeOK
    <3>2. Held[a] = TokensAt(limiters[a], now) /\ Held'[a] = TokensAt(limiters[a], now + 1)
      BY <1>1, <2>1 DEF Held
    <3> QED
      BY <1>1, <3>1, <3>2, BurstAssumption DEF TokensAt, Limiter
  <2>2. CASE a \notin DOMAIN limiters
    BY <1>1, <2>2, BurstAssumption DEF Held
  <2> QED
    BY <2>1, <2>2
<1> QED
  BY <1>2 DEF Held

\* Allow takes a token of the request's own address and of no other, or finds none.
LEMMA AllowHeld ==
    ASSUME IInv, NEW r \in Requests, Allow(r)
    PROVE  \/ /\ Held[addr[r]] > 0
              /\ Held' = [Held EXCEPT ![addr[r]] = @ - 1]
              /\ verdict' = [verdict EXCEPT ![r] = "passed"]
              /\ passed' = IF now < From THEN passed ELSE [passed EXCEPT ![addr[r]] = @ + 1]
           \/ /\ ~(Held[addr[r]] > 0)
              /\ verdict' = [verdict EXCEPT ![r] = "refused"]
              /\ UNCHANGED <<Held, passed>>
<1> USE BurstAssumption
<1> DEFINE l == limiters[addr[r]]
           n == TokensAt(l, now)
<1>1. addr[r] \in DOMAIN limiters /\ addr[r] \in Addresses /\ l \in Limiter /\ now \in Nat
  BY DEF Allow, IInv, WaitingInv, TypeOK
<1>2. n \in 0 .. Burst
  BY <1>1, TokensBound DEF IInv, TimesInv
<1>3. Held[addr[r]] = n
  BY <1>1 DEF Held
<1>4. CASE n > 0
  <2>1. /\ DOMAIN limiters' = DOMAIN limiters
        /\ limiters'[addr[r]] = Taken(l, n)
        /\ \A x \in DOMAIN limiters \ {addr[r]} : limiters'[x] = limiters[x]
        /\ UNCHANGED <<now, addr>>
    BY <1>1, <1>4 DEF Allow, IInv, TypeOK, Limiter
  <2>2. TokensAt(limiters'[addr[r]], now) = n - 1
    <3>1. limiters'[addr[r]].tokens = n - 1 /\ limiters'[addr[r]].last = now
      BY <2>1 DEF Taken
    <3> HIDE DEF n
    <3> QED
      BY <1>1, <1>2, <1>4, <3>1 DEF TokensAt
  <2>3. Held'[addr[r]] = n - 1
    <3> HIDE DEF n
    <3> QED
      BY <1>1, <2>1, <2>2 DEF Held
  <2>4. \A x \in Addresses \ {addr[r]} : Held'[x] = Held[x]
    BY <2>1 DEF Held
  <2>5. Held' = [Held EXCEPT ![addr[r]] = @ - 1]
    BY <1>1, <1>3, <2>3, <2>4 DEF Held
  <2> QED
    BY <1>3, <1>4, <2>5 DEF Allow
<1>5. CASE ~(n > 0)
  BY <1>3, <1>5 DEF Allow, Held
<1> QED
  BY <1>4, <1>5

\* getLimiter is not to be seen: a new limiter is as full as none, and one that a
\* cleanup deletes has filled up.
LEMMA GetLimiterHeld ==
    ASSUME IInv, NEW r \in Requests, NEW a \in Addresses, GetLimiter(r, a)
    PROVE  UNCHANGED Held
<1> USE BurstAssumption, IntervalAssumption
<1>1. now' = now /\ now \in Nat
  BY DEF GetLimiter, IInv, TypeOK
<1>2. \A x \in DOMAIN limiters : limiters[x] \in Limiter /\ limiters[x].last <= now
                                 /\ limiters[x].last <= limiters[x].lastUsed + MaxStall
  BY DEF IInv, TypeOK, TimesInv
<1>3. ASSUME NEW x \in Addresses PROVE Held'[x] = Held[x]
  <2>1. CASE x = a
    <3>1. CASE a \in DOMAIN limiters
      <4>1. limiters'[a] = UsedEntry(limiters[a]) /\ a \in DOMAIN limiters'
        BY <3>1, GetLimiterStep
      <4>2. TokensAt(UsedEntry(limiters[a]), now) = TokensAt(limiters[a], now)
        BY <1>2, <3>1 DEF UsedEntry, TokensAt, Limiter
      <4> QED
        BY <1>1, <2>1, <3>1, <4>1, <4>2 DEF Held
    <3>2. CASE a \notin DOMAIN limiters
      <4>1. limiters'[a] = NewEntry /\ a \in DOMAIN limiters'
        BY <3>2, GetLimiterStep
      <4>2. TokensAt(NewEntry, now) = Burst
        BY <1>1 DEF NewEntry, TokensAt
      <4> QED
        BY <1>1, <2>1, <3>2, <4>1, <4>2 DEF Held
    <3> QED
      BY <3>1, <3>2
  <2>2. CASE x # a /\ x \in DOMAIN limiters'
    BY <1>1, <2>2, GetLimiterStep DEF Held
  <2>3. CASE x # a /\ x \in DOMAIN limiters /\ x \notin DOMAIN limiters'
    <3>1. now - limiters[x].lastUsed > Interval
      BY <2>3, GetLimiterStep
    <3>2. TokensAt(limiters[x], now) = Burst
      BY <1>1, <1>2, <2>3, <3>1 DEF TokensAt, Limiter
    <3> QED
      BY <2>3, <3>2 DEF Held
  <2>4. CASE x # a /\ x \notin DOMAIN limiters
    <3>1. x \notin DOMAIN limiters'
      BY <2>4, GetLimiterStep
    <3> QED
      BY <2>4, <3>1 DEF Held
  <2> QED
    BY <2>1, <2>2, <2>3, <2>4
<1> QED
  BY <1>3 DEF Held

LEMMA BucketStep ==
    ASSUME IInv, [Next]_vars
    PROVE  Buckets!Next \/ UNCHANGED <<Held, addr, verdict>>
<1>1. CASE Tick
  <2>1. Buckets!Refill
    BY <1>1, TickHeld DEF Buckets!Refill, Held, Tick
  <2> QED
    BY <2>1 DEF Buckets!Next
<1>2. ASSUME NEW r \in Requests, Allow(r)
      PROVE  Buckets!Next \/ UNCHANGED <<Held, addr, verdict>>
  <2>1. Buckets!Judge(r)
    BY <1>2, AllowHeld DEF Buckets!Judge, Held, Allow
  <2> QED
    BY <2>1 DEF Buckets!Next
<1>3. ASSUME NEW r \in Requests, NEW a \in Addresses, GetLimiter(r, a)
      PROVE  Buckets!Next \/ UNCHANGED <<Held, addr, verdict>>
  <2>1. Buckets!Arrive(r, a)
    BY <1>3, GetLimiterHeld DEF Buckets!Arrive, Held, GetLimiter
  <2> QED
    BY <2>1 DEF Buckets!Next
<1>4. CASE UNCHANGED vars
  BY <1>4 DEF vars, Held
<1> QED
  BY <1>1, <1>2, <1>3, <1>4 DEF Next

\* Dropping and making limiters, and what concurrent requests do between
\* getLimiter and Allow, is not to be seen: every address has one token bucket.
THEOREM BucketSpecCorrect == Spec => BucketSpec
<1>1. IInv /\ [Next]_vars => [Buckets!Next]_(Buckets!vars)
  BY BucketStep DEF Buckets!vars, Held
<1> QED
  BY <1>1, BucketInit, IInvCorrect, PTL DEF Spec, BucketSpec, Buckets!Spec

-----------------------------------------------------------------------------
(* The bound on what gets through.  It is not inductive: what has passed   *)
(* says nothing of what is left.  With the tokens left it is: a token is   *)
(* spent for every request, and only time brings one back.                 *)

\* How long the window has lasted.
Elapsed == IF now < From THEN 0 ELSE now - From

WindowInv ==
    \A a \in Addresses :
        /\ passed[a] + Held[a] <= Burst + Elapsed
        /\ now < From => passed[a] = 0

LEMMA WindowInit == Init => WindowInv
BY BurstAssumption, TimesAssumption DEF Init, WindowInv, Held, Elapsed

LEMMA WindowStep == IInv /\ WindowInv /\ [Next]_vars => WindowInv'
<1> SUFFICES ASSUME IInv, WindowInv, [Next]_vars PROVE WindowInv'
  OBVIOUS
<1> USE BurstAssumption, TimesAssumption
<1>t. /\ now \in Nat /\ Held \in [Addresses -> 0 .. Burst] /\ passed \in [Addresses -> Nat]
      /\ addr \in [Requests -> Addresses]
  BY HeldType DEF IInv, TypeOK
<1>1. CASE Tick
  <2>1. now' = now + 1 /\ passed' = passed
    BY <1>1 DEF Tick
  <2>2. \A a \in Addresses : Held'[a] <= Held[a] + 1 /\ Held'[a] <= Burst /\ Held'[a] \in Nat
    BY <1>t, <1>1, TickHeld
  <2>3. CASE now' < From
    BY <1>t, <2>1, <2>2, <2>3 DEF WindowInv, Elapsed
  <2>4. CASE now' = From
    BY <1>t, <2>1, <2>2, <2>4 DEF WindowInv, Elapsed
  <2>5. CASE now >= From
    BY <1>t, <2>1, <2>2, <2>5 DEF WindowInv, Elapsed
  <2> QED
    BY <1>t, <2>1, <2>3, <2>4, <2>5
<1>2. ASSUME NEW r \in Requests, Allow(r) PROVE WindowInv'
  <2>1. now' = now /\ addr[r] \in Addresses /\ Elapsed' = Elapsed
    BY <1>t, <1>2 DEF Allow, Elapsed
  <2>2. CASE /\ Held' = [Held EXCEPT ![addr[r]] = @ - 1]
             /\ passed' = IF now < From THEN passed ELSE [passed EXCEPT ![addr[r]] = @ + 1]
    BY <1>t, <2>1, <2>2 DEF WindowInv, Elapsed
  <2>3. CASE UNCHANGED <<Held, passed>>
    BY <2>1, <2>3 DEF WindowInv
  <2> QED
    BY <1>2, <2>2, <2>3, AllowHeld
<1>3. ASSUME NEW r \in Requests, NEW a \in Addresses, GetLimiter(r, a) PROVE WindowInv'
  BY <1>3, GetLimiterHeld DEF GetLimiter, WindowInv, Elapsed
<1>4. CASE UNCHANGED vars
  BY <1>4 DEF vars, WindowInv, Held, Elapsed
<1> QED
  BY <1>1, <1>2, <1>3, <1>4 DEF Next

\* No more requests of an address get through in any window than a burst and what the
\* rate adds, for every burst, every interval and every number of overlapping requests.
THEOREM WindowBoundCorrect == Spec => []WindowBound
<1>1. IInv /\ WindowInv => WindowBound
  <2> SUFFICES ASSUME IInv, WindowInv, now >= From, NEW a \in Addresses
               PROVE  passed[a] <= Burst + (now - From)
    BY DEF WindowBound
  <2>1. Held[a] \in 0 .. Burst /\ passed[a] \in Nat /\ now \in Nat
    BY HeldType DEF IInv, TypeOK
  <2>2. Elapsed = now - From /\ passed[a] + Held[a] <= Burst + Elapsed
    BY <2>1, TimesAssumption DEF WindowInv, Elapsed
  <2> QED
    BY <2>1, <2>2, BurstAssumption, TimesAssumption
<1>2. IInv /\ WindowInv /\ [Next]_vars => (IInv /\ WindowInv)'
  BY NextIInv, WindowStep
<1> QED
  BY <1>1, <1>2, InitIInv, WindowInit, PTL DEF Spec

=============================================================================
