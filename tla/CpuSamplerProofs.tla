-------------------------- MODULE CpuSamplerProofs -------------------------
(***************************************************************************)
(* Proofs about the CPU sampler, for any requests, intervals and counters. *)
(***************************************************************************)
EXTENDS CpuSampler, TLAPS

\* Only iowait goes back: the busy ticks of the baseline are none too many.
ShareInv ==
    /\ prevTotal - prevIdle <= busy
    /\ lastUsage <= 100

\* The baseline is no older than lastAt says, by more than a nap.
ClockInv ==
    /\ base <= now /\ lastAt <= now
    /\ lastAt <= base + MaxNap
    /\ Napping => base = napAt /\ now <= napAt + MaxNap
    /\ \A q, r \in Requests : pc[q] = "nap" /\ pc[r] = "nap" => q = r

IInv == SamplerTypeOK /\ ShareInv /\ ClockInv /\ UsageIsShare /\ WindowIsRecent

-----------------------------------------------------------------------------
LEMMA MinusSmall ==
    ASSUME NEW x \in Nat, NEW y \in Nat, y <= x, x < Word
    PROVE  Minus(x, y) = x - y
BY SamplerAssumption DEF Minus

LEMMA ShareIsPercent ==
    ASSUME NEW d \in Nat, NEW b \in Nat, d > 0, b <= d
    PROVE  (100 * b) \div d \in 0 .. 100
OBVIOUS

\* A request that has or gets the lock returns: what it returns is in order, and
\* nobody else begins to nap.
LEMMA ReturnsOK ==
    ASSUME IInv, NEW r \in Requests, NEW percent \in 0 .. 100, NEW since \in 0 .. now,
           Returns(r, percent, since), UNCHANGED world,
           now - since <= MaxGap + MaxNap,
           pc[r] = "nap" \/ ~Napping
    PROVE  /\ pc' \in [Requests -> {"none", "wait", "nap", "done"}]
           /\ usage' \in [Requests -> Nat] /\ span' \in [Requests -> 0 .. MaxTime]
           /\ UsageIsShare' /\ WindowIsRecent'
           /\ ~Napping'
<1>1. /\ pc' \in [Requests -> {"none", "wait", "nap", "done"}]
      /\ usage' \in [Requests -> Nat]
  BY DEF Returns, IInv, SamplerTypeOK
<1>2. now - since \in 0 .. MaxTime
  BY SamplerAssumption DEF IInv, SamplerTypeOK
<1>3. span' \in [Requests -> 0 .. MaxTime]
  BY <1>2 DEF Returns, IInv, SamplerTypeOK
<1>4. UsageIsShare'
  BY DEF Returns, IInv, SamplerTypeOK, UsageIsShare
<1>5. WindowIsRecent'
  BY DEF Returns, IInv, SamplerTypeOK, WindowIsRecent
<1>6. ~Napping'
  BY DEF Returns, IInv, SamplerTypeOK, ClockInv, Napping
<1>7. QED
  BY <1>1, <1>3, <1>4, <1>5, <1>6

\* The sampler's own part of the invariant, when nobody naps afterwards.
LEMMA SamplerOK ==
    ASSUME IInv, UNCHANGED world, UNCHANGED napAt,
           prevTotal' - prevIdle' <= busy,
           prevTotal' \in 0 .. 2 * MaxCount, prevIdle' \in 0 .. prevTotal',
           primed' \in BOOLEAN, lastUsage' \in 0 .. 100,
           base' \in 0 .. now, lastAt' \in 0 .. now, lastAt' <= base' + MaxNap,
           pc' \in [Requests -> {"none", "wait", "nap", "done"}],
           usage' \in [Requests -> Nat], span' \in [Requests -> 0 .. MaxTime],
           UsageIsShare', WindowIsRecent', ~Napping'
    PROVE  IInv'
<1>1. SamplerTypeOK'
  BY SamplerAssumption DEF IInv, SamplerTypeOK, world
<1>2. ShareInv'
  BY DEF ShareInv, world
<1>3. ClockInv'
  <2>1. \A q \in Requests : pc'[q] # "nap"
    BY DEF Napping
  <2>2. /\ base' <= now /\ lastAt' <= now /\ lastAt' <= base' + MaxNap /\ now' = now
    <3>1. now \in Nat /\ MaxNap \in Nat
      BY SamplerAssumption DEF IInv, SamplerTypeOK
    <3>2. base' <= now /\ lastAt' <= now
      BY <3>1
    <3>3. now' = now
      BY DEF world
    <3>4. QED
      BY <3>2, <3>3
  <2>3. QED
    BY <2>1, <2>2 DEF ClockInv, Napping
<1>4. QED
  BY <1>1, <1>2, <1>3 DEF IInv

LEMMA TotalType ==
    ASSUME SamplerTypeOK
    PROVE  /\ Total \in 0 .. 2 * MaxCount /\ Total < Word
           /\ idle \in 0 .. Total /\ Total - idle = busy /\ idle < Word
           /\ prevTotal \in Nat /\ prevIdle \in Nat
BY SamplerAssumption DEF SamplerTypeOK, Total

\* A measurement over a baseline that the counters have not gone back behind.
LEMMA MeasureOK ==
    ASSUME IInv, NEW r \in Requests, Measure(r), ~WentBack,
           UNCHANGED world, UNCHANGED napAt,
           now - base <= MaxGap + MaxNap,
           pc[r] = "nap" \/ ~Napping
    PROVE  IInv'
<1> DEFINE dt == Minus(Total, prevTotal)
           di == Minus(idle, prevIdle)
<1>1. SamplerTypeOK /\ ShareInv /\ ClockInv
  BY DEF IInv
<1>2. dt = Total - prevTotal /\ di = idle - prevIdle
  BY <1>1, TotalType, MinusSmall DEF WentBack
<1>3. dt \in Nat /\ dt < Word /\ di \in Nat /\ di <= dt
  BY <1>1, <1>2, TotalType, SamplerAssumption DEF WentBack, ShareInv, SamplerTypeOK
<1>4. Minus(dt, di) = dt - di
  BY <1>3, MinusSmall
<1>5. /\ prevTotal' = Total /\ prevIdle' = idle /\ base' = now /\ lastAt' = now
      /\ UNCHANGED primed
      /\ lastUsage' = IF dt = 0 THEN lastUsage ELSE (100 * Minus(dt, di)) \div dt
      /\ Returns(r, lastUsage', base)
  BY DEF Measure, Rebase
<1> HIDE DEF dt, di
<1>6. lastUsage' \in 0 .. 100
  <2>1. CASE dt = 0
    BY <1>1, <1>5, <2>1 DEF SamplerTypeOK, ShareInv
  <2>2. CASE dt # 0
    <3>1. dt - di \in Nat /\ dt - di <= dt /\ dt > 0
      BY <1>3, <2>2
    <3>2. QED
      <4>1. (100 * (dt - di)) \div dt \in 0 .. 100
        BY <1>3, <3>1, ShareIsPercent
      <4>2. QED
        BY <1>4, <1>5, <2>2, <4>1
  <2>3. QED
    BY <2>1, <2>2
<1>7. base \in 0 .. now
  BY <1>1 DEF SamplerTypeOK, ClockInv
<1>8. now \in 0 .. now /\ now <= now + MaxNap
  BY <1>1, SamplerAssumption DEF SamplerTypeOK
<1>9. primed' \in BOOLEAN
  BY <1>1, <1>5 DEF SamplerTypeOK
<1>10. prevTotal' - prevIdle' <= busy /\ prevTotal' \in 0 .. 2 * MaxCount
       /\ prevIdle' \in 0 .. prevTotal'
  BY <1>1, <1>5, TotalType DEF SamplerTypeOK
<1>11. QED
  BY <1>5, <1>6, <1>7, <1>8, <1>9, <1>10, ReturnsOK, SamplerOK

LEMMA UsageOK ==
    ASSUME IInv, NEW r \in Requests, Usage(r)
    PROVE  IInv'
<1>1. SamplerTypeOK /\ ShareInv /\ ClockInv /\ ~Napping /\ UNCHANGED world
  BY DEF IInv, Usage
<1>2. now \in 0 .. now /\ now - now <= MaxGap + MaxNap /\ 0 \in 0 .. 100
      /\ base \in 0 .. now /\ lastAt \in 0 .. now /\ lastUsage \in 0 .. 100
  BY <1>1, SamplerAssumption DEF SamplerTypeOK, ShareInv, ClockInv
<1>3. CASE Returns(r, 0, now) /\ UNCHANGED <<sampler, napAt>>
  <2>1. /\ prevTotal' - prevIdle' <= busy
        /\ prevTotal' \in 0 .. 2 * MaxCount /\ prevIdle' \in 0 .. prevTotal'
        /\ primed' \in BOOLEAN /\ lastUsage' \in 0 .. 100
        /\ base' \in 0 .. now /\ lastAt' \in 0 .. now /\ lastAt' <= base' + MaxNap
    BY <1>1, <1>2, <1>3 DEF SamplerTypeOK, ShareInv, ClockInv, sampler
  <2>2. QED
    BY <1>1, <1>2, <1>3, <2>1, ReturnsOK, SamplerOK
<1>4. CASE /\ Rebase /\ primed' = TRUE /\ lastAt' = now
           /\ Returns(r, 0, now)
           /\ UNCHANGED <<lastUsage, napAt>>
  <2>1. /\ prevTotal' - prevIdle' <= busy
        /\ prevTotal' \in 0 .. 2 * MaxCount /\ prevIdle' \in 0 .. prevTotal'
        /\ primed' \in BOOLEAN /\ lastUsage' \in 0 .. 100
        /\ base' \in 0 .. now /\ lastAt' \in 0 .. now /\ lastAt' <= base' + MaxNap
    BY <1>1, <1>2, <1>4, TotalType, SamplerAssumption DEF SamplerTypeOK, Rebase
  <2>2. QED
    BY <1>1, <1>2, <1>4, <2>1, ReturnsOK, SamplerOK
<1>5. CASE ~WentBack /\ Nap(r)
  <2>1. /\ prevTotal' = Total /\ prevIdle' = idle /\ base' = now /\ napAt' = now
        /\ pc' = [pc EXCEPT ![r] = "nap"]
        /\ UNCHANGED <<primed, lastAt, lastUsage, usage, span>>
    BY <1>5 DEF Nap, Rebase
  <2>2. SamplerTypeOK'
    BY <1>1, <2>1, TotalType DEF SamplerTypeOK, world
  <2>3. ShareInv' /\ UsageIsShare' /\ WindowIsRecent'
    BY <1>1, <2>1, TotalType DEF IInv, ShareInv, UsageIsShare, WindowIsRecent, world
  <2>4. ClockInv'
    <3>1. \A q \in Requests : pc'[q] = "nap" => q = r
      BY <1>1, <2>1 DEF SamplerTypeOK, Napping
    <3>2. QED
      BY <1>1, <2>1, <3>1, SamplerAssumption DEF SamplerTypeOK, ClockInv, world
  <2>5. QED
    BY <2>2, <2>3, <2>4 DEF IInv
<1>6. CASE ~WentBack /\ ~TooOld /\ Measure(r) /\ UNCHANGED napAt
  <2>1. now - base <= MaxGap + MaxNap
    BY <1>1, <1>6, SamplerAssumption DEF TooOld, SamplerTypeOK, ClockInv
  <2>2. QED
    BY <1>1, <1>6, <2>1, MeasureOK
<1>7. QED
  BY <1>3, <1>4, <1>5, <1>6 DEF Usage

LEMMA FreshSampleOK ==
    ASSUME IInv, NEW r \in Requests, FreshSample(r)
    PROVE  IInv'
<1>1. SamplerTypeOK /\ ShareInv /\ ClockInv /\ UNCHANGED world /\ UNCHANGED napAt /\ pc[r] = "nap"
  BY DEF IInv, FreshSample
<1>2. base = napAt /\ now <= base + MaxNap
  BY <1>1 DEF ClockInv, Napping
<1>3. now \in 0 .. now /\ now - now <= MaxGap + MaxNap /\ 0 \in 0 .. 100
      /\ base \in 0 .. now /\ lastUsage \in 0 .. 100 /\ now - base <= MaxGap + MaxNap
  BY <1>1, <1>2, SamplerAssumption DEF SamplerTypeOK, ShareInv, ClockInv
<1>4. CASE ~WentBack /\ Measure(r)
  BY <1>1, <1>3, <1>4, MeasureOK
<1>5. CASE /\ lastAt' = now /\ Returns(r, 0, now)
           /\ UNCHANGED <<prevTotal, prevIdle, primed, lastUsage, base>>
  <2>1. /\ prevTotal' - prevIdle' <= busy
        /\ prevTotal' \in 0 .. 2 * MaxCount /\ prevIdle' \in 0 .. prevTotal'
        /\ primed' \in BOOLEAN /\ lastUsage' \in 0 .. 100
        /\ base' \in 0 .. now /\ lastAt' \in 0 .. now /\ lastAt' <= base' + MaxNap
    BY <1>1, <1>2, <1>3, <1>5 DEF SamplerTypeOK, ShareInv
  <2>2. QED
    BY <1>1, <1>3, <1>5, <2>1, ReturnsOK, SamplerOK
<1>6. QED
  BY <1>4, <1>5 DEF FreshSample

LEMMA AskOK ==
    ASSUME IInv, NEW r \in Requests, Ask(r)
    PROVE  IInv'
<1>1. SamplerTypeOK'
  BY SamplerAssumption DEF IInv, SamplerTypeOK, Ask, world, sampler
<1>2. ShareInv' /\ ClockInv'
  BY DEF IInv, SamplerTypeOK, ShareInv, ClockInv, Napping, Ask, world, sampler
<1>3. UsageIsShare' /\ WindowIsRecent'
  BY SamplerAssumption DEF IInv, SamplerTypeOK, UsageIsShare, WindowIsRecent, Ask
<1>4. QED
  BY <1>1, <1>2, <1>3 DEF IInv

LEMMA PassOK ==
    ASSUME IInv, NEW t \in 0 .. MaxTime, NEW b \in 0 .. MaxCount, NEW i \in 0 .. MaxCount,
           Pass(t, b, i)
    PROVE  IInv'
<1>1. SamplerTypeOK' /\ UsageIsShare' /\ WindowIsRecent'
  BY DEF IInv, SamplerTypeOK, UsageIsShare, WindowIsRecent, Pass, sampler
<1>2. t >= now
  BY DEF Pass, IInv, SamplerTypeOK
<1>3. ShareInv' /\ ClockInv'
  BY <1>2, SamplerAssumption DEF IInv, SamplerTypeOK, ShareInv, ClockInv, Napping, Pass, sampler
<1>4. QED
  BY <1>1, <1>3 DEF IInv

-----------------------------------------------------------------------------
LEMMA IInvInit == Init => IInv
<1> SUFFICES ASSUME Init PROVE IInv
  OBVIOUS
<1>1. SamplerTypeOK
  <2>1. busy \in Nat /\ idle \in Nat /\ busy <= MaxCount /\ idle <= MaxCount
    BY SamplerAssumption DEF Init
  <2>2. prevTotal \in 0 .. 2 * MaxCount /\ prevIdle \in 0 .. prevTotal /\ primed \in BOOLEAN
    <3>1. /\ busy + idle \in 0 .. 2 * MaxCount /\ idle \in 0 .. busy + idle
          /\ 0 \in 0 .. 2 * MaxCount /\ 0 \in 0 .. 0
      BY <2>1, SamplerAssumption
    <3>2. QED
      BY <3>1 DEF Init
  <2>3. 0 \in 0 .. MaxTime
    BY SamplerAssumption
  <2>4. QED
    BY <2>2, <2>3 DEF Init, SamplerTypeOK
<1>2. ShareInv /\ ClockInv
  BY SamplerAssumption DEF Init, ShareInv, ClockInv, Napping
<1>3. UsageIsShare /\ WindowIsRecent
  BY SamplerAssumption DEF Init, UsageIsShare, WindowIsRecent
<1>4. QED
  BY <1>1, <1>2, <1>3 DEF IInv

LEMMA IInvStep == IInv /\ [Next]_vars => IInv'
<1> SUFFICES ASSUME IInv, [Next]_vars PROVE IInv'
  OBVIOUS
<1>1. CASE UNCHANGED vars
  BY <1>1 DEF vars, world, sampler, IInv, SamplerTypeOK, ShareInv, ClockInv, Napping,
     UsageIsShare, WindowIsRecent
<1>2. QED
  BY <1>1, UsageOK, FreshSampleOK, AskOK, PassOK DEF Next

LEMMA IInvAlways == Spec => []IInv
BY IInvInit, IInvStep, PTL DEF Spec

\* The sampler's state keeps its types.
THEOREM SamplerTypeCorrect == Spec => []SamplerTypeOK
BY IInvAlways, PTL DEF IInv

\* A usage is a percentage, whatever iowait does: the two comparisons before each
\* subtraction are enough, as only iowait goes back (sampler_linux.go:44, 80).
THEOREM UsageIsShareCorrect == Spec => []UsageIsShare
BY IInvAlways, PTL DEF IInv

\* A usage is measured against counters read MaxGap and a nap ago at most, also after
\* samples that failed, which move lastAt and not the baseline (sampler_linux.go:49-54,
\* 75-82); without a tick since then it is the last share, whose age is not bounded.
THEOREM WindowIsRecentCorrect == Spec => []WindowIsRecent
BY IInvAlways, PTL DEF IInv
=============================================================================
