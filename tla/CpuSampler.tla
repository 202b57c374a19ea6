----------------------------- MODULE CpuSampler ----------------------------
(***************************************************************************)
(* The CPU sampler behind GET /api/v1/system: it turns the kernel's        *)
(* cumulative counters into the share of busy time since its last sample.  *)
(* Requests share it under a mutex, which a fresh sample holds while it    *)
(* sleeps.                                                                 *)
(***************************************************************************)
EXTENDS Integers

CONSTANTS
    Requests,
    MaxGap,   \* an older baseline is not used (2 minutes)
    MaxNap,   \* a fresh sample takes no longer (100 ms and the scheduler's delay)
    Word,     \* 2^64
    MaxCount, MaxTime \* bounds: the counters and the time

ASSUME SamplerAssumption ==
    /\ MaxGap \in Nat /\ MaxNap \in Nat /\ MaxCount \in Nat /\ MaxTime \in Nat
    /\ Word \in Nat /\ 2 * MaxCount < Word

VARIABLES
    now,
    busy, idle,  \* the counters: iowait is in idle, all others are in busy
    prevTotal, prevIdle, primed, lastAt, lastUsage, \* cpuSampler
    base,        \* history: when the sampler's counters were read
    pc,          \* how far a request is
    napAt,       \* when the fresh sample began
    usage,       \* what Usage returned
    span         \* history: how old the counters were then that it was measured against

world == <<now, busy, idle>>
sampler == <<prevTotal, prevIdle, primed, lastAt, lastUsage, base>>
vars == <<world, sampler, pc, napAt, usage, span>>

\* The sampler is made with the service and primed, if the counters can be read.
Init ==
    /\ now = 0
    /\ busy \in 0 .. MaxCount /\ idle \in 0 .. MaxCount
    /\ \/ primed = TRUE /\ prevTotal = busy + idle /\ prevIdle = idle
       \/ primed = FALSE /\ prevTotal = 0 /\ prevIdle = 0
    /\ lastAt = 0 /\ lastUsage = 0 /\ base = 0 /\ napAt = 0
    /\ pc = [r \in Requests |-> "none"]
    /\ usage = [r \in Requests |-> 0] /\ span = [r \in Requests |-> 0]

-----------------------------------------------------------------------------
Napping == \E r \in Requests : pc[r] = "nap"

\* Time and the kernel: the counters go up, but that of iowait may go down (proc(5)).
Pass(t, b, i) ==
    /\ t - now \in {0, 1}
    /\ Napping => t <= napAt + MaxNap
    /\ b >= busy /\ i >= idle - 1
    /\ now' = t /\ busy' = b /\ idle' = i
    /\ UNCHANGED <<sampler, pc, napAt, usage, span>>

Ask(r) ==
    /\ pc[r] \in {"none", "done"}
    /\ pc' = [pc EXCEPT ![r] = "wait"]
    /\ usage' = [usage EXCEPT ![r] = 0]
    /\ span' = [span EXCEPT ![r] = 0]
    /\ UNCHANGED <<world, sampler, napAt>>

-----------------------------------------------------------------------------
Total == busy + idle

\* Differences are those of unsigned integers.
Minus(x, y) == (x - y) % Word

\* Mutant: only the sum of the counters is compared.
WentBackByTotal == Total < prevTotal

WentBack == Total < prevTotal \/ idle < prevIdle

Rebase == prevTotal' = Total /\ prevIdle' = idle /\ base' = now

Returns(r, percent, since) ==
    /\ pc' = [pc EXCEPT ![r] = "done"]
    /\ usage' = [usage EXCEPT ![r] = percent]
    /\ span' = [span EXCEPT ![r] = now - since]

\* The share of busy ticks since the baseline.  If there are no ticks since, it is the
\* last share again, however old that is; it is measured against the baseline as well.
Measure(r) ==
    LET deltaTotal == Minus(Total, prevTotal)
        deltaIdle == Minus(idle, prevIdle)
        share == (100 * Minus(deltaTotal, deltaIdle)) \div deltaTotal
    IN  /\ Rebase
        /\ lastAt' = now
        /\ lastUsage' = IF deltaTotal = 0 THEN lastUsage ELSE share
        /\ Returns(r, lastUsage', base)
        /\ UNCHANGED primed

\* Mutant: an old baseline is as good as a new one.
TooOldNever == FALSE

\* Nobody has asked for so long that the baseline is not used.
TooOld == now - lastAt > MaxGap

\* A fresh sample begins.
Nap(r) ==
    /\ Rebase
    /\ pc' = [pc EXCEPT ![r] = "nap"]
    /\ napAt' = now
    /\ UNCHANGED <<primed, lastAt, lastUsage, usage, span>>

\* Usage with the lock, which is free.  /proc/stat may not be readable.
Usage(r) ==
    /\ pc[r] = "wait"
    /\ ~Napping
    /\ \/ Returns(r, 0, now) /\ UNCHANGED <<sampler, napAt>>
       \/ /\ ~primed \/ WentBack
          /\ Rebase /\ primed' = TRUE /\ lastAt' = now
          /\ Returns(r, 0, now)
          /\ UNCHANGED <<lastUsage, napAt>>
       \/ /\ primed /\ ~WentBack
          /\ IF TooOld THEN Nap(r) ELSE Measure(r) /\ UNCHANGED napAt
    /\ UNCHANGED world

\* freshSample after its sleep; when it fails the baseline stays.
FreshSample(r) ==
    /\ pc[r] = "nap"
    /\ \/ ~WentBack /\ Measure(r)
       \/ /\ lastAt' = now
          /\ Returns(r, 0, now)
          /\ UNCHANGED <<prevTotal, prevIdle, primed, lastUsage, base>>
    /\ UNCHANGED <<world, napAt>>

-----------------------------------------------------------------------------
Next ==
    \/ \E t \in 0 .. MaxTime, b \in 0 .. MaxCount, i \in 0 .. MaxCount : Pass(t, b, i)
    \/ \E r \in Requests : Ask(r) \/ Usage(r) \/ FreshSample(r)

Spec == Init /\ [][Next]_vars

-----------------------------------------------------------------------------
SamplerTypeOK ==
    /\ now \in 0 .. MaxTime /\ busy \in 0 .. MaxCount /\ idle \in 0 .. MaxCount
    /\ prevTotal \in 0 .. 2 * MaxCount /\ prevIdle \in 0 .. prevTotal
    /\ primed \in BOOLEAN
    /\ lastAt \in 0 .. MaxTime /\ base \in 0 .. MaxTime /\ napAt \in 0 .. MaxTime
    /\ lastUsage \in Nat
    /\ pc \in [Requests -> {"none", "wait", "nap", "done"}]
    /\ usage \in [Requests -> Nat] /\ span \in [Requests -> 0 .. MaxTime]

\* Safety: a usage is a percentage before clampPercent sees it: no difference of the
\* counters wraps around, although iowait goes back (sampler_linux.go:44, 56-62, 80).
UsageIsShare == \A r \in Requests : usage[r] <= 100

\* Safety: a usage is measured against counters that were read MaxGap ago at most, and
\* a nap: it is the share of the ticks since then, or there are none and the last share,
\* which may be much older, is repeated (sampler_linux.go:59-61, 88-90).  That holds
\* however long nobody has asked and whatever has failed before: lastAt, by which a
\* baseline is too old, is not when the baseline was read (lines 49-54, 75-82).
WindowIsRecent == \A r \in Requests : span[r] <= MaxGap + MaxNap

=============================================================================
