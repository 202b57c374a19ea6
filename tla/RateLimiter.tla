---------------------------- MODULE RateLimiter ----------------------------
(***************************************************************************)
(* The rate limiter in front of all HTTP handlers: a map from addresses to *)
(* limiters (golang.org/x/time/rate), from which those that have not been  *)
(* used for an interval are removed now and then.  A request gets its      *)
(* limiter under the map's lock and asks it for a token afterwards.  Time  *)
(* is counted in units in which a limiter gains one token (100 ms).        *)
(***************************************************************************)
EXTENDS Integers, FiniteSets

CONSTANTS
    Requests,  \* requests, one after the other
    Addresses, \* RemoteAddr values: each is a host and a port
    HostOf,    \* the host of an address
    Burst,     \* the limiters' burst
    Interval,  \* cleanupInterval
    MaxStall,  \* a request takes no longer than this from getLimiter to Allow
    MaxTime,   \* bound: how long the clients are watched
    From       \* when a window begins in which requests are counted

ASSUME BurstAssumption == Burst \in Nat
ASSUME TimesAssumption == MaxTime \in Nat /\ From \in Nat
\* A limiter that nobody has used for an interval is full.
ASSUME IntervalAssumption == MaxStall \in Nat /\ Interval \in Nat /\ Interval >= Burst + MaxStall

VARIABLES
    now,
    limiters,    \* the map: limiters by address
    lastCleanup,
    addr,        \* the address a request comes from
    since,       \* when it got its limiter
    verdict,     \* what has become of it
    passed       \* history: requests let through since From, by address

vars == <<now, limiters, lastCleanup, addr, since, verdict, passed>>

\* A limiter had this many tokens when it last let a request through; lastUsed
\* is when it was last taken from the map.
Limiter == [tokens : 0..Burst, last : Int, lastUsed : Int]

\* The tokens a limiter has at time t.
TokensAt(l, t) == IF l.tokens + (t - l.last) < Burst THEN l.tokens + (t - l.last) ELSE Burst

Init ==
    /\ now = 0
    /\ limiters = [a \in {} |-> {}]
    /\ lastCleanup = 0
    /\ addr \in [Requests -> Addresses]
    /\ since = [r \in Requests |-> 0]
    /\ verdict = [r \in Requests |-> "none"]
    /\ passed = [a \in Addresses |-> 0]

----------------------------------------------------------------------------
\* Mutant: nothing is ever deleted.
CleanedNever(ls) == ls

\* cleanup, when the last one is more than an interval ago.
Cleaned(ls) ==
    [a \in {x \in DOMAIN ls : now - ls[x].lastUsed <= Interval} |-> ls[a]]

\* A full limiter.
NewEntry == [tokens |-> Burst, last |-> now, lastUsed |-> now]
\* Mutant: lastUsed is when the entry was made.
UsedEntryForgets(l) == l

\* Mutant: every request makes a new limiter.
UsedEntryReplaced(l) == [l EXCEPT !.tokens = Burst, !.last = now, !.lastUsed = now]

\* An entry that is used again.
UsedEntry(l) == [l EXCEPT !.lastUsed = now]

\* getLimiter: the address's limiter, or a new one, and now and then a cleanup.
GetLimiter(r, a) ==
    LET entry == IF a \in DOMAIN limiters THEN UsedEntry(limiters[a]) ELSE NewEntry
        used == [x \in DOMAIN limiters \cup {a} |-> IF x = a THEN entry ELSE limiters[x]]
        due == now - lastCleanup > Interval
    IN  /\ verdict[r] # "waiting"
        /\ limiters' = IF due THEN Cleaned(used) ELSE used
        /\ lastCleanup' = IF due THEN now ELSE lastCleanup
        /\ addr' = [addr EXCEPT ![r] = a]
        /\ since' = [since EXCEPT ![r] = now]
        /\ verdict' = [verdict EXCEPT ![r] = "waiting"]
        /\ UNCHANGED <<now, passed>>

\* A limiter that has n tokens and takes one.
Taken(l, n) == [tokens |-> n - 1, last |-> now, lastUsed |-> l.lastUsed]

\* Allow, and limit's answer.
Allow(r) ==
    LET l == limiters[addr[r]]
        n == TokensAt(l, now)
    IN  /\ verdict[r] = "waiting"
        /\ IF n > 0
           THEN /\ verdict' = [verdict EXCEPT ![r] = "passed"]
                /\ limiters' = [limiters EXCEPT ![addr[r]] = Taken(l, n)]
                /\ passed' = IF now < From THEN passed ELSE [passed EXCEPT ![addr[r]] = @ + 1]
           ELSE /\ verdict' = [verdict EXCEPT ![r] = "refused"]
                /\ UNCHANGED <<limiters, passed>>
        /\ UNCHANGED <<now, lastCleanup, addr, since>>

\* Time passes, but not while a request has been about to Allow for too long.
Tick ==
    /\ now < MaxTime
    /\ \A r \in Requests : verdict[r] = "waiting" => now < since[r] + MaxStall
    /\ now' = now + 1
    /\ UNCHANGED <<limiters, lastCleanup, addr, since, verdict, passed>>

Next ==
    \/ Tick
    \/ \E r \in Requests : Allow(r) \/ \E a \in Addresses : GetLimiter(r, a)

Spec == Init /\ [][Next]_vars

----------------------------------------------------------------------------
TypeOK ==
    /\ now \in 0..MaxTime
    /\ lastCleanup \in 0..now
    /\ DOMAIN limiters \subseteq Addresses
    /\ limiters \in [DOMAIN limiters -> Limiter]
    /\ addr \in [Requests -> Addresses]
    /\ since \in [Requests -> 0..now]
    /\ verdict \in [Requests -> {"none", "waiting", "passed", "refused"}]
    /\ passed \in [Addresses -> Nat]

\* "Rate limiting: 10 requests per second, burst of 20" (server.go:370): however
\* requests overlap with each other and with cleanups, and whenever one begins to
\* count, no more requests of an address get through than a burst and what the rate
\* adds meanwhile.
WindowBound ==
    now >= From => \A a \in Addresses : passed[a] <= Burst + (now - From)

\* A request that is about to Allow holds a limiter that is still in the map:
\* the cleanup another request runs meanwhile never splits an address's
\* requests over two limiters.
HeldIsListed ==
    \A r \in Requests : verdict[r] = "waiting" => addr[r] \in DOMAIN limiters

\* The map does not grow with the addresses ever seen: what it holds has been
\* used within an interval before the last cleanup.
MapIsSwept ==
    \A a \in DOMAIN limiters : limiters[a].lastUsed >= lastCleanup - Interval

\* Dropping limiters is not noticed: the limiter is a token bucket for each
\* address, where an address without a limiter has a full one.
Buckets == INSTANCE TokenBucket WITH
    Clients <- Addresses,
    client <- addr,
    tokens <- [a \in Addresses |->
                IF a \in DOMAIN limiters THEN TokensAt(limiters[a], now) ELSE Burst]

BucketSpec == Buckets!Spec

\* "rateLimiter provides per-IP rate limiting" (src/server/server.go:52): no
\* more requests of one host get through than one bucket holds and gains.
PerHostLimit ==
    \A h \in {HostOf[a] : a \in Addresses} :
        Cardinality({r \in Requests : verdict[r] = "passed" /\ HostOf[addr[r]] = h})
            <= Burst + now
=============================================================================
