---------------------------- MODULE FleetProofs ----------------------------
(***************************************************************************)
(* Proofs about the registry for any workers, callers and configs.  That a *)
(* worker is only called offline for a reason is an invariant of the whole *)
(* way a result takes: the worker, the probe that asked it, the cache, and *)
(* the probes that take it from there.                                     *)
(***************************************************************************)
EXTENDS Fleet, TLAPS

ProbeState ==
    [worker : Worker, at : {"look", "ask"}, snap : {NoSnapshot}]
    \cup [worker : Worker, at : {"keep", "done"}, snap : Snapshot]

-----------------------------------------------------------------------------
(* Snapshots.                                                              *)

LEMMA OnlineType ==
    ASSUME NEW w \in Worker, NEW rm \in Remote
    PROVE  LocalModelItems(w, rm) \in Snapshot /\ LocalModelItems(w, rm).status = "online"
<1>1. CASE rm.running = NoModel \/ rm.as = "absent"
  <2>1. Online(w, NoModel, "launched") \in Snapshot
    BY DEF Snapshot
  <2>2. QED
    BY <1>1, <2>1 DEF LocalModelItems, Online
<1>2. CASE ~(rm.running = NoModel \/ rm.as = "absent")
  <2>1. rm.running \in Models /\ rm.as \in Shown \ {"absent"}
    BY <1>2 DEF Remote, Shown
  <2>2. Online(w, rm.running, rm.as) \in Snapshot
    BY <2>1 DEF Snapshot
  <2>3. QED
    BY <1>2, <2>2 DEF LocalModelItems, Online
<1>3. QED
  BY <1>1, <1>2

LEMMA OfflineType ==
    ASSUME NEW w \in Worker, NEW e \in {"unreachable", "unauthorized", "cancelled"}
    PROVE  Offline(w, e) \in Snapshot /\ Offline(w, e).worker = w
BY DEF Snapshot, Offline

-----------------------------------------------------------------------------
(* What a step of a probe changes.                                         *)

LEMMA ProbeChange ==
    ASSUME FleetTypeOK, NEW c \in Callers, NEW i \in DOMAIN probes[c],
           NEW at, NEW snap, ProbeGoto(c, i, at, snap)
    PROVE  /\ probes[c][i].worker \in Worker
           /\ \A d \in Callers : DOMAIN probes'[d] = DOMAIN probes[d]
           /\ \A d \in Callers : \A j \in DOMAIN probes[d] :
                \/ probes'[d][j] = probes[d][j]
                \/ d = c /\ probes'[d][j].at = at /\ probes'[d][j].snap = snap
           /\ [worker |-> probes[c][i].worker, at |-> at, snap |-> snap] \in ProbeState =>
                probes' \in [Callers -> Seq(ProbeState)]
<1> DEFINE new == [worker |-> probes[c][i].worker, at |-> at, snap |-> snap]
<1>1. probes \in [Callers -> Seq(ProbeState)]
  BY DEF FleetTypeOK, ProbeState
<1>2. probes' = [probes EXCEPT ![c] = [probes[c] EXCEPT ![i] = new]]
  BY <1>1 DEF ProbeGoto
<1>3. probes[c] \in Seq(ProbeState)
  BY <1>1
<1>4. probes[c][i] \in ProbeState
  BY <1>3
<1>5. probes[c][i].worker \in Worker
  BY <1>4 DEF ProbeState
<1>6. new \in ProbeState => [probes[c] EXCEPT ![i] = new] \in Seq(ProbeState)
  BY <1>3
<1>7. new.at = at /\ new.snap = snap
  OBVIOUS
<1>8. QED
  BY <1>1, <1>2, <1>3, <1>5, <1>6, <1>7

LEMMA SnapshotsType ==
    ASSUME FleetTypeOK, NEW c \in Callers, Snapshots(c)
    PROVE  /\ probes' \in [Callers -> Seq(ProbeState)]
           /\ \A d \in Callers \ {c} : probes'[d] = probes[d]
           /\ \A i \in DOMAIN probes'[c] : probes'[c][i].at = "look"
<1> DEFINE asked == [i \in DOMAIN workers |->
                        [worker |-> workers[i], at |-> "look", snap |-> NoSnapshot]]
<1>1. probes \in [Callers -> Seq(ProbeState)] /\ workers \in Seq(Worker)
  BY DEF FleetTypeOK, ProbeState
<1>2. probes' = [probes EXCEPT ![c] = asked]
  BY DEF Snapshots
<1>3. \A i \in DOMAIN workers : asked[i] \in ProbeState /\ asked[i].at = "look"
  BY <1>1 DEF ProbeState
<1>4. asked \in Seq(ProbeState)
  BY <1>1, <1>3
<1>5. QED
  BY <1>1, <1>2, <1>3, <1>4

-----------------------------------------------------------------------------
(* Types.                                                                  *)

LEMMA FleetTypeInit == FleetInit => FleetTypeOK
<1> SUFFICES ASSUME FleetInit PROVE FleetTypeOK
  OBVIOUS
<1>1. workers \in Seq(Worker)
  BY FleetAssumption DEF FleetInit
<1>2. reloading \in BOOLEAN
  BY DEF FleetInit
<1>3. QED
  BY <1>1, <1>2 DEF FleetInit, FleetTypeOK

LEMMA RemoteType ==
    ASSUME FleetTypeOK, NEW u, NEW m \in Models \cup {NoModel}, Runs(u, m)
    PROVE  /\ remote' \in [Urls -> Remote]
           /\ \A v \in Urls : remote'[v].up = remote[v].up
<1> DEFINE new == [up |-> remote[u].up, running |-> m, as |-> "launched"]
<1>1. remote \in [Urls -> Remote]
  BY DEF FleetTypeOK
<1>2. u \in Urls => new \in Remote /\ new.up = remote[u].up
  BY <1>1 DEF Remote, Shown
<1>3. remote' = [remote EXCEPT ![u] = new]
  BY DEF Runs
<1>4. QED
  BY <1>1, <1>2, <1>3

LEMMA MachinesType ==
    ASSUME FleetTypeOK, Machines
    PROVE  /\ FleetTypeOK'
           /\ \A u \in Urls : (~remote'[u].up /\ remote[u].up) => u \in flaky'
           /\ flaky \subseteq flaky'
           /\ UNCHANGED <<workers, cache, reloading, probes, asking, gone>>
<1>0. ASSUME remote' \in [Urls -> Remote], flaky' \subseteq Urls,
             UNCHANGED <<workers, cache, reloading, probes, asking, gone>>
      PROVE  FleetTypeOK'
  BY <1>0 DEF FleetTypeOK
<1>1. ASSUME NEW u \in Urls, RemoteRuns(u)
      PROVE  /\ remote' \in [Urls -> Remote]
             /\ \A v \in Urls : remote'[v].up = remote[v].up
  BY <1>1, RemoteType DEF RemoteRuns, Runs
<1>2. ASSUME NEW u \in Urls, RemoteReloads(u)
      PROVE  /\ remote' \in [Urls -> Remote]
             /\ \A v \in Urls : remote'[v].up = remote[v].up
  <2>1. PICK as \in Shown : remote' = [remote EXCEPT ![u].as = as]
    BY <1>2 DEF RemoteReloads
  <2>2. remote[u] \in [up : BOOLEAN, running : Models, as : Shown]
    BY <1>2 DEF RemoteReloads, FleetTypeOK, Remote
  <2>3. /\ [remote[u] EXCEPT !.as = as] \in Remote
        /\ [remote[u] EXCEPT !.as = as].up = remote[u].up
    BY <2>2 DEF Remote
  <2>4. QED
    BY <2>1, <2>3 DEF FleetTypeOK
<1>3. ASSUME NEW u \in Urls, RemoteFails(u)
      PROVE  /\ remote' \in [Urls -> Remote] /\ flaky' = flaky \cup {u}
             /\ \A v \in Urls \ {u} : remote'[v].up = remote[v].up
  <2>1. remote[u] \in Remote
    BY DEF FleetTypeOK
  <2>2. [remote[u] EXCEPT !.up = ~remote[u].up] \in Remote
    BY <2>1 DEF Remote
  <2>3. QED
    BY <1>3, <2>2 DEF RemoteFails, FleetTypeOK
<1>4. ASSUME NEW x, NEW m \in Models, WorkerStartModel(x, m) \/ WorkerStopModel(x, m)
      PROVE  /\ remote' \in [Urls -> Remote]
             /\ \A v \in Urls : remote'[v].up = remote[v].up
             /\ UNCHANGED <<workers, cache, reloading, probes, asking, gone, flaky>>
  <2>1. PICK n \in Models \cup {NoModel} : Command(x, n)
    BY <1>4 DEF WorkerStartModel, WorkerStopModel
  <2>2. QED
    BY <2>1, RemoteType DEF Command
<1>5. CASE \E u \in Urls : RemoteRuns(u) \/ RemoteReloads(u)
  BY <1>0, <1>1, <1>2, <1>5 DEF RemoteRuns, RemoteReloads, FleetTypeOK
<1>6. CASE \E u \in Urls : RemoteFails(u)
  <2>1. PICK u \in Urls : RemoteFails(u)
    BY <1>6
  <2>2. flaky' \subseteq Urls
    BY <1>3, <2>1 DEF FleetTypeOK
  <2>3. QED
    BY <1>0, <1>3, <2>1, <2>2 DEF RemoteFails
<1>7. CASE \E x \in Urls \cup {w.name : w \in Worker}, m \in Models :
             WorkerStartModel(x, m) \/ WorkerStopModel(x, m)
  BY <1>0, <1>4, <1>7 DEF FleetTypeOK
<1>8. QED
  BY <1>5, <1>6, <1>7 DEF Machines

\* A probe's step: the new result, and the cache.
LEMMA ProbeType ==
    ASSUME FleetTypeOK, NEW c \in Callers, Probe(c)
    PROVE  FleetTypeOK'
<1> PICK i \in DOMAIN probes[c] : Look(c, i) \/ Ask(c, i) \/ Keep(c, i)
  BY DEF Probe
<1>p. probes \in [Callers -> Seq(ProbeState)] /\ probes[c][i] \in ProbeState
  BY DEF FleetTypeOK, ProbeState
<1>w. /\ probes[c][i].worker \in Worker /\ probes[c][i].worker.url \in Urls
      /\ probes[c][i].at \in {"keep", "done"} => probes[c][i].snap \in Snapshot
  BY <1>p, FleetAssumption DEF ProbeState
<1>0. ASSUME NEW at, NEW snap, ProbeGoto(c, i, at, snap),
             \/ at \in {"look", "ask"} /\ snap = NoSnapshot
             \/ at \in {"keep", "done"} /\ snap \in Snapshot
      PROVE  probes' \in [Callers -> Seq(ProbeState)]
  <2>1. [worker |-> probes[c][i].worker, at |-> at, snap |-> snap] \in ProbeState
    BY <1>0, <1>w DEF ProbeState
  <2>2. QED
    BY <1>0, <2>1, ProbeChange
<1>1. CASE Look(c, i)
  <2> DEFINE e == cache[probes[c][i].worker.url]
  <2>1. e \in Snapshot \cup {NoSnapshot}
    BY <1>w DEF FleetTypeOK
  <2>2. ProbeGoto(c, i, IF e # NoSnapshot THEN "done" ELSE "ask", e)
    BY <1>1 DEF Look
  <2>3. probes' \in [Callers -> Seq(ProbeState)]
    BY <1>0, <2>1, <2>2
  <2>4. QED
    BY <1>1, <2>3 DEF Look, FleetTypeOK, ProbeState
<1>2. CASE Ask(c, i)
  <2> DEFINE w == probes[c][i].worker
  <2>1. remote[w.url] \in Remote
    BY <1>w DEF FleetTypeOK
  <2>2. /\ LocalModelItems(w, remote[w.url]) \in Snapshot
        /\ \A e \in {"unreachable", "unauthorized", "cancelled"} : Offline(w, e) \in Snapshot
    BY <1>w, <2>1, OnlineType, OfflineType
  <2>3. \/ ProbeGoto(c, i, "keep", LocalModelItems(w, remote[w.url]))
        \/ \E e \in {"unreachable", "unauthorized", "cancelled"} :
              ProbeGoto(c, i, IF Cacheable(c) THEN "keep" ELSE "done", Offline(w, e))
    BY <1>2 DEF Ask
  <2>4. probes' \in [Callers -> Seq(ProbeState)]
    BY <1>0, <2>2, <2>3
  <2>5. QED
    BY <1>2, <2>4 DEF Ask, FleetTypeOK, ProbeState
<1>3. CASE Keep(c, i)
  <2>1. probes[c][i].snap \in Snapshot
    BY <1>3, <1>w DEF Keep
  <2>2. probes' \in [Callers -> Seq(ProbeState)]
    BY <1>0, <1>3, <2>1 DEF Keep
  <2>3. cache' \in [Urls -> Snapshot \cup {NoSnapshot}]
    BY <1>3, <2>1 DEF Keep, FleetTypeOK
  <2>4. QED
    BY <1>3, <2>2, <2>3 DEF Keep, FleetTypeOK, ProbeState
<1>4. QED
  BY <1>1, <1>2, <1>3

LEMMA FleetTypeStep == FleetTypeOK /\ [FleetNext]_fleetVars => FleetTypeOK'
<1> SUFFICES ASSUME FleetTypeOK, [FleetNext]_fleetVars PROVE FleetTypeOK'
  OBVIOUS
<1>1. CASE Machines
  BY <1>1, MachinesType
<1>2. ASSUME NEW specs \in Configs, Reload(specs) PROVE FleetTypeOK'
  BY <1>2, FleetAssumption DEF Reload, FleetTypeOK
<1>3. CASE ReloadDropsCache \/ \E u \in Urls : Expire(u)
  BY <1>3 DEF ReloadDropsCache, Expire, FleetTypeOK
<1>4. ASSUME NEW c \in Callers, Probe(c) PROVE FleetTypeOK'
  BY <1>4, ProbeType
<1>5. ASSUME NEW v \in Viewers, GetFleet(v) PROVE FleetTypeOK'
  <2>1. probes' \in [Callers -> Seq(ProbeState)]
    BY <1>5, SnapshotsType DEF GetFleet, Callers
  <2>2. QED
    BY <1>5, <2>1 DEF GetFleet, FleetTypeOK, ProbeState
<1>6. ASSUME NEW v \in Viewers, ClientGoes(v) \/ Reply(v) PROVE FleetTypeOK'
  <2>0. probes \in [Callers -> Seq(ProbeState)] /\ <<>> \in Seq(ProbeState)
    BY DEF FleetTypeOK, ProbeState
  <2>1. probes' \in [Callers -> Seq(ProbeState)]
    BY <1>6, <2>0 DEF ClientGoes, Reply
  <2>2. asking' \subseteq Viewers /\ gone' \subseteq asking'
    BY <1>6 DEF ClientGoes, Reply, FleetTypeOK
  <2>3. QED
    BY <1>6, <2>1, <2>2 DEF ClientGoes, Reply, FleetTypeOK, ProbeState
<1>7. CASE UNCHANGED fleetVars
  BY <1>7 DEF fleetVars, FleetTypeOK
<1>8. QED
  BY <1>1, <1>2, <1>3, <1>4, <1>5, <1>6, <1>7 DEF FleetNext, Registry

\* Every variable keeps its type; in particular whatever is cached or in the hands of a
\* caller that uses it is a snapshot.
THEOREM FleetTypeCorrect == FleetSpec => []FleetTypeOK
BY FleetTypeInit, FleetTypeStep, PTL DEF FleetSpec

-----------------------------------------------------------------------------
(* Who is called offline.                                                  *)

Offlined(snap) == snap.status = "offline" => Blamed(snap)

\* A worker that does not answer has been seen to fail; and every result that others
\* may come to see has a reason.
BlameInv ==
    /\ \A u \in Urls : remote[u].up \/ u \in flaky
    /\ \A u \in Urls : cache[u] # NoSnapshot => Offlined(cache[u])
    /\ \A c \in Callers : \A i \in DOMAIN probes[c] :
          probes[c][i].at = "keep" => Offlined(probes[c][i].snap)
    /\ \A c \in Callers \ gone : \A i \in DOMAIN probes[c] :
          probes[c][i].at = "done" => Offlined(probes[c][i].snap)

LEMMA ProbeBlame ==
    ASSUME FleetTypeOK, BlameInv, NEW c \in Callers, Probe(c)
    PROVE  BlameInv'
<1> PICK i \in DOMAIN probes[c] : Look(c, i) \/ Ask(c, i) \/ Keep(c, i)
  BY DEF Probe
<1> DEFINE w == probes[c][i].worker
<1>w. /\ probes[c][i] \in ProbeState /\ w \in Worker /\ w.url \in Urls
  BY FleetAssumption DEF FleetTypeOK, ProbeState
<1>0. ASSUME NEW at, NEW snap, ProbeGoto(c, i, at, snap), UNCHANGED <<remote, cache, gone, flaky>>,
             at = "keep" \/ (at = "done" /\ c \notin gone) => Offlined(snap)
      PROVE  BlameInv'
  <2>1. /\ \A d \in Callers : DOMAIN probes'[d] = DOMAIN probes[d]
        /\ \A d \in Callers : \A j \in DOMAIN probes[d] :
              \/ probes'[d][j] = probes[d][j]
              \/ d = c /\ probes'[d][j].at = at /\ probes'[d][j].snap = snap
    BY <1>0, ProbeChange
  <2>2. QED
    BY <1>0, <2>1 DEF BlameInv, Offlined, Blamed
<1>1. CASE Look(c, i)
  <2> DEFINE e == cache[w.url]
  <2>1. ProbeGoto(c, i, IF e # NoSnapshot THEN "done" ELSE "ask", e)
    BY <1>1 DEF Look
  <2>2. e # NoSnapshot => Offlined(e)
    BY <1>w DEF BlameInv
  <2>3. QED
    BY <1>0, <1>1, <2>1, <2>2 DEF Look
<1>2. CASE Ask(c, i)
  <2>0. remote[w.url] \in Remote
    BY <1>w DEF FleetTypeOK
  <2>1. CASE ProbeGoto(c, i, "keep", LocalModelItems(w, remote[w.url]))
    <3>1. Offlined(LocalModelItems(w, remote[w.url]))
      BY <1>w, <2>0, OnlineType DEF Offlined
    <3>2. QED
      BY <1>0, <1>2, <2>1, <3>1 DEF Ask
  <2>2. CASE /\ KeyOf[w.url] # w.key
             /\ ProbeGoto(c, i, IF Cacheable(c) THEN "keep" ELSE "done", Offline(w, "unauthorized"))
    <3>1. Offlined(Offline(w, "unauthorized"))
      BY <1>w, <2>2, OfflineType DEF Offlined, Blamed
    <3>2. QED
      BY <1>0, <1>2, <2>2, <3>1 DEF Ask
  <2>3. CASE /\ ~remote[w.url].up
             /\ ProbeGoto(c, i, IF Cacheable(c) THEN "keep" ELSE "done", Offline(w, "unreachable"))
    <3>1. Offlined(Offline(w, "unreachable"))
      BY <1>w, <2>3, OfflineType DEF Offlined, Blamed, BlameInv
    <3>2. QED
      BY <1>0, <1>2, <2>3, <3>1 DEF Ask
  <2>4. CASE c \in gone /\ ProbeGoto(c, i, "done", Offline(w, "cancelled"))
    BY <1>0, <1>2, <2>4 DEF Ask
  <2>5. QED
    BY <1>2, <2>1, <2>2, <2>3, <2>4 DEF Ask, Cacheable
<1>3. CASE Keep(c, i)
  <2> DEFINE s == probes[c][i].snap
  <2>1. Offlined(s) /\ probes[c][i].at = "keep"
    BY <1>3 DEF Keep, BlameInv
  <2>2. /\ cache' = [cache EXCEPT ![w.url] = s]
        /\ ProbeGoto(c, i, "done", s)
        /\ UNCHANGED <<remote, gone, flaky>>
    BY <1>3 DEF Keep
  <2>3. /\ \A d \in Callers : DOMAIN probes'[d] = DOMAIN probes[d]
        /\ \A d \in Callers : \A j \in DOMAIN probes[d] :
              \/ probes'[d][j] = probes[d][j]
              \/ d = c /\ probes'[d][j].at = "done" /\ probes'[d][j].snap = s
    <3> HIDE DEF s
    <3> QED
      BY <2>2, ProbeChange
  <2>4. \A u \in Urls : cache'[u] = cache[u] \/ cache'[u] = s
    BY <2>2 DEF FleetTypeOK
  <2>5. QED
    BY <2>1, <2>2, <2>3, <2>4 DEF BlameInv, Offlined, Blamed
<1>4. QED
  BY <1>1, <1>2, <1>3

LEMMA BlameStep ==
    ASSUME FleetTypeOK, BlameInv, [FleetNext]_fleetVars
    PROVE  BlameInv'
<1>0. ASSUME UNCHANGED <<remote, cache, probes, gone, flaky>> PROVE BlameInv'
  BY <1>0 DEF BlameInv, Offlined, Blamed
<1>1. CASE Machines
  <2>1. /\ \A u \in Urls : (~remote'[u].up /\ remote[u].up) => u \in flaky'
        /\ flaky \subseteq flaky'
        /\ UNCHANGED <<workers, cache, reloading, probes, asking, gone>>
    BY <1>1, MachinesType
  <2>2. QED
    BY <2>1 DEF BlameInv, Offlined, Blamed
<1>2. ASSUME NEW specs \in Configs, Reload(specs) PROVE BlameInv'
  BY <1>0, <1>2 DEF Reload
<1>3. CASE ReloadDropsCache \/ \E u \in Urls : Expire(u)
  <2>1. /\ UNCHANGED <<remote, probes, gone, flaky>>
        /\ \A u \in Urls : cache'[u] = cache[u] \/ cache'[u] = NoSnapshot
    BY <1>3 DEF ReloadDropsCache, Expire, FleetTypeOK
  <2>2. QED
    BY <2>1 DEF BlameInv, Offlined, Blamed
<1>4. ASSUME NEW c \in Callers, Probe(c) PROVE BlameInv'
  BY <1>4, ProbeBlame
<1>5. ASSUME NEW v \in Viewers, GetFleet(v) PROVE BlameInv'
  <2>1. /\ \A d \in Callers \ {v} : probes'[d] = probes[d]
        /\ \A i \in DOMAIN probes'[v] : probes'[v][i].at = "look"
        /\ UNCHANGED <<remote, cache, gone, flaky>>
    BY <1>5, SnapshotsType DEF GetFleet, Callers
  <2>2. QED
    BY <2>1 DEF BlameInv, Offlined, Blamed
<1>6. ASSUME NEW v \in Viewers, ClientGoes(v) PROVE BlameInv'
  BY <1>6 DEF ClientGoes, BlameInv, Offlined, Blamed
<1>7. ASSUME NEW v \in Viewers, Reply(v) PROVE BlameInv'
  <2>1. /\ \A d \in Callers \ {v} : probes'[d] = probes[d]
        /\ DOMAIN probes'[v] = {}
        /\ gone' = gone \ {v}
        /\ UNCHANGED <<remote, cache, flaky>>
    BY <1>7 DEF Reply, FleetTypeOK, Callers
  <2>2. QED
    BY <2>1 DEF BlameInv, Offlined, Blamed
<1>8. CASE UNCHANGED fleetVars
  BY <1>0, <1>8 DEF fleetVars
<1>9. QED
  BY <1>1, <1>2, <1>3, <1>4, <1>5, <1>6, <1>7, <1>8 DEF FleetNext, Registry

\* A caller that is still there is told that a worker is offline only when the worker
\* has failed to answer or was asked with a wrong key, whoever else hung up while the
\* result was on its way (fleet.go:216-222).
THEOREM HealthyNotOfflineCorrect == FleetSpec => []HealthyNotOffline
<1>1. FleetInit => BlameInv
  BY DEF FleetInit, BlameInv, Remote
<1>2. FleetTypeOK /\ BlameInv /\ [FleetNext]_fleetVars => BlameInv'
  BY BlameStep
<1>3. BlameInv => HealthyNotOffline
  BY DEF BlameInv, HealthyNotOffline, Offlined
<1>4. QED
  BY <1>1, <1>2, <1>3, FleetTypeCorrect, PTL DEF FleetSpec

-----------------------------------------------------------------------------
(* What views wait for.  Whether goroutines run is fairness, and           *)
(* ViewAnswered is model-checked; that they do not run in circles is       *)
(* safety.                                                                 *)

\* How many steps a probe has ahead of it.
ProbeAhead(at) == CASE at = "look" -> 3 [] at = "ask" -> 2 [] at = "keep" -> 1 [] OTHER -> 0

\* A probe of d's moves on, and nothing sets one back.
Advance(d) ==
    /\ DOMAIN probes'[d] = DOMAIN probes[d]
    /\ \A i \in DOMAIN probes[d] :
          probes'[d][i] = probes[d][i] \/ ProbeAhead(probes'[d][i].at) < ProbeAhead(probes[d][i].at)

LEMMA ProbeAdvances ==
    ASSUME FleetTypeOK, NEW c \in Callers, Probe(c)
    PROVE  /\ \A d \in Callers : Advance(d)
           /\ \E i \in DOMAIN probes[c] : ProbeAhead(probes'[c][i].at) < ProbeAhead(probes[c][i].at)
<1> PICK i \in DOMAIN probes[c] : Look(c, i) \/ Ask(c, i) \/ Keep(c, i)
  BY DEF Probe
<1>0. ASSUME NEW at, NEW snap, ProbeGoto(c, i, at, snap), ProbeAhead(at) < ProbeAhead(probes[c][i].at)
      PROVE  /\ \A d \in Callers : Advance(d)
             /\ ProbeAhead(probes'[c][i].at) < ProbeAhead(probes[c][i].at)
  <2>1. /\ \A d \in Callers : DOMAIN probes'[d] = DOMAIN probes[d]
        /\ \A d \in Callers : \A j \in DOMAIN probes[d] :
              probes'[d][j] = probes[d][j] \/ (d = c /\ j = i /\ probes'[d][j].at = at)
        /\ probes'[c][i].at = at
    <3>1. probes \in [Callers -> Seq(ProbeState)]
      BY DEF FleetTypeOK, ProbeState
    <3>2. probes' = [probes EXCEPT ![c] = [probes[c] EXCEPT
                        ![i] = [worker |-> probes[c][i].worker, at |-> at, snap |-> snap]]]
      BY <1>0, <3>1 DEF ProbeGoto
    <3>3. QED
      BY <3>1, <3>2
  <2>2. QED
    BY <1>0, <2>1 DEF Advance
<1>1. CASE Look(c, i)
  <2>1. \E at \in {"done", "ask"}, snap \in {cache[probes[c][i].worker.url]} :
            ProbeGoto(c, i, at, snap)
    BY <1>1 DEF Look
  <2>2. QED
    BY <1>0, <1>1, <2>1 DEF Look, ProbeAhead
<1>2. CASE Ask(c, i)
  <2>1. probes[c][i].at = "ask" /\ \E at \in {"keep", "done"} : \E snap : ProbeGoto(c, i, at, snap)
    BY <1>2 DEF Ask
  <2>2. QED
    BY <1>0, <2>1 DEF ProbeAhead
<1>3. CASE Keep(c, i)
  BY <1>0, <1>3 DEF Keep, ProbeAhead
<1>4. QED
  BY <1>0, <1>1, <1>2, <1>3

\* A view never waits longer than three steps of each of its probes: their number is
\* fixed when it begins, one that has not ended can always go on (it waits for no other
\* probe and no lock), and no reload, no cache entry and no other caller sets one back
\* (fleet.go:180-233).
THEOREM ViewsEnd ==
    FleetSpec =>
        [][\A v \in Viewers : v \in asking /\ v \in asking' =>
              /\ Advance(v)
              /\ Probe(v) => \E i \in DOMAIN probes[v] :
                                ProbeAhead(probes'[v][i].at) < ProbeAhead(probes[v][i].at)]_fleetVars
<1>1. ASSUME FleetTypeOK, FleetNext, NEW v \in Viewers, v \in asking, v \in asking'
      PROVE  Advance(v)
  <2>v. v \in Callers
    BY DEF Callers
  <2>1. CASE UNCHANGED probes
    BY <2>1 DEF Advance
  <2>2. ASSUME NEW c \in Callers, Probe(c) PROVE Advance(v)
    BY <1>1, <2>v, <2>2, ProbeAdvances
  <2>3. ASSUME NEW u \in Viewers, GetFleet(u) PROVE Advance(v)
    <3>1. u # v
      BY <1>1, <2>3 DEF GetFleet
    <3>2. QED
      BY <1>1, <2>v, <2>3, <3>1, SnapshotsType DEF GetFleet, Advance, Callers
  <2>4. ASSUME NEW u \in Viewers, Reply(u) PROVE Advance(v)
    <3>1. u # v
      BY <1>1, <2>4 DEF Reply
    <3>2. QED
      BY <1>1, <2>v, <2>4, <3>1 DEF Reply, Advance, FleetTypeOK
  <2>5. QED
    BY <1>1, <2>1, <2>2, <2>3, <2>4, MachinesType
    DEF FleetNext, Registry, Reload, ReloadDropsCache, Expire, ClientGoes
<1>2. ASSUME FleetTypeOK, NEW v \in Viewers, Probe(v)
      PROVE  \E i \in DOMAIN probes[v] : ProbeAhead(probes'[v][i].at) < ProbeAhead(probes[v][i].at)
  BY <1>2, ProbeAdvances DEF Callers
<1>3. FleetTypeOK /\ [FleetNext]_fleetVars =>
        [\A v \in Viewers : v \in asking /\ v \in asking' =>
            /\ Advance(v)
            /\ Probe(v) => \E i \in DOMAIN probes[v] :
                              ProbeAhead(probes'[v][i].at) < ProbeAhead(probes[v][i].at)]_fleetVars
  BY <1>1, <1>2
<1>4. QED
  BY <1>3, FleetTypeCorrect, PTL DEF FleetSpec

-----------------------------------------------------------------------------
(* What a reload leaves behind.                                            *)

\* The workers that the cache, the probes and their results speak of.
Cached == {cache[u].worker : u \in {x \in Urls : cache[x] # NoSnapshot}}
ProbedBy(c) == {probes[c][i].worker : i \in DOMAIN probes[c]}
ResultsOf(c) ==
    {probes[c][i].snap.worker : i \in {j \in DOMAIN probes[c] : probes[c][j].at \in {"keep", "done"}}}

Around == Cached \cup UNION {ProbedBy(c) \cup ResultsOf(c) : c \in Callers}

LEMMA InAround ==
    /\ \A u \in Urls : cache[u] # NoSnapshot => cache[u].worker \in Around
    /\ \A c \in Callers : \A i \in DOMAIN probes[c] :
          /\ probes[c][i].worker \in Around
          /\ probes[c][i].at \in {"keep", "done"} => probes[c][i].snap.worker \in Around
<1>1. \A u \in Urls : cache[u] # NoSnapshot => cache[u].worker \in Cached
  BY DEF Cached
<1>2. \A c \in Callers : \A i \in DOMAIN probes[c] :
          /\ probes[c][i].worker \in ProbedBy(c)
          /\ probes[c][i].at \in {"keep", "done"} => probes[c][i].snap.worker \in ResultsOf(c)
  BY DEF ProbedBy, ResultsOf
<1>3. Cached \subseteq Around /\ \A c \in Callers : ProbedBy(c) \cup ResultsOf(c) \subseteq Around
  BY DEF Around
<1>4. QED
  BY <1>1, <1>2, <1>3

LEMMA AroundWithin ==
    ASSUME NEW S,
           \A u \in Urls : cache'[u] # NoSnapshot => cache'[u].worker \in S,
           \A c \in Callers : \A i \in DOMAIN probes'[c] :
              /\ probes'[c][i].worker \in S
              /\ probes'[c][i].at \in {"keep", "done"} => probes'[c][i].snap.worker \in S
    PROVE  Around' \subseteq S
<1>1. Cached' \subseteq S
  BY DEF Cached
<1>2. \A c \in Callers : ProbedBy(c)' \subseteq S /\ ResultsOf(c)' \subseteq S
  BY DEF ProbedBy, ResultsOf
<1>3. QED
  BY <1>1, <1>2 DEF Around

InList == {workers[i] : i \in DOMAIN workers}

LEMMA ProbeAround ==
    ASSUME FleetTypeOK, NEW c \in Callers, Probe(c)
    PROVE  Around' \subseteq Around
<1> PICK i \in DOMAIN probes[c] : Look(c, i) \/ Ask(c, i) \/ Keep(c, i)
  BY DEF Probe
<1> DEFINE w == probes[c][i].worker
<1>w. /\ probes \in [Callers -> Seq(ProbeState)] /\ probes[c][i] \in ProbeState
      /\ w \in Worker /\ w.url \in Urls /\ w \in Around
  <2>1. probes \in [Callers -> Seq(ProbeState)] /\ probes[c][i] \in ProbeState
    BY DEF FleetTypeOK, ProbeState
  <2>2. w \in Around
    BY InAround
  <2>3. QED
    BY <2>1, <2>2, FleetAssumption DEF ProbeState
<1>0. ASSUME NEW at, NEW snap, ProbeGoto(c, i, at, snap),
             at \in {"keep", "done"} => snap.worker \in Around,
             \A u \in Urls : cache'[u] = NoSnapshot \/ cache'[u] = cache[u]
                              \/ cache'[u].worker \in Around
      PROVE  Around' \subseteq Around
  <2>1. /\ \A d \in Callers : DOMAIN probes'[d] = DOMAIN probes[d]
        /\ \A d \in Callers : \A j \in DOMAIN probes[d] :
              \/ probes'[d][j] = probes[d][j]
              \/ /\ probes'[d][j].worker \in Around
                 /\ probes'[d][j].at = at /\ probes'[d][j].snap = snap
    <3>1. probes' = [probes EXCEPT ![c] = [probes[c] EXCEPT
                        ![i] = [worker |-> w, at |-> at, snap |-> snap]]]
      BY <1>0, <1>w DEF ProbeGoto
    <3>2. QED
      BY <1>w, <3>1
  <2>2. \A d \in Callers : \A j \in DOMAIN probes[d] : probes'[d][j].worker \in Around
    BY <2>1, InAround
  <2>3. \A d \in Callers : \A j \in DOMAIN probes[d] :
            probes'[d][j].at \in {"keep", "done"} => probes'[d][j].snap.worker \in Around
    BY <1>0, <2>1, InAround
  <2>4. \A u \in Urls : cache'[u] # NoSnapshot => cache'[u].worker \in Around
    BY <1>0, InAround
  <2>5. QED
    BY <2>1, <2>2, <2>3, <2>4, AroundWithin
<1>1. CASE Look(c, i)
  <2> DEFINE e == cache[w.url]
  <2>1. ProbeGoto(c, i, IF e # NoSnapshot THEN "done" ELSE "ask", e) /\ UNCHANGED cache
    BY <1>1 DEF Look
  <2>2. e # NoSnapshot => e.worker \in Around
    BY <1>w, InAround
  <2>3. QED
    BY <1>0, <2>1, <2>2
<1>2. CASE Ask(c, i)
  <2>1. LocalModelItems(w, remote[w.url]).worker = w
    BY DEF LocalModelItems, Online
  <2>2. \A e : Offline(w, e).worker = w
    BY DEF Offline
  <2>3. UNCHANGED cache /\ \E at \in {"keep", "done"}, snap \in {LocalModelItems(w, remote[w.url])} \cup
            {Offline(w, e) : e \in {"unreachable", "unauthorized", "cancelled"}} :
            ProbeGoto(c, i, at, snap)
    BY <1>2 DEF Ask
  <2>4. QED
    BY <1>0, <1>w, <2>1, <2>2, <2>3
<1>3. CASE Keep(c, i)
  <2>1. probes[c][i].snap.worker \in Around
    BY <1>3, InAround DEF Keep
  <2>2. \A u \in Urls : cache'[u] = cache[u] \/ cache'[u] = probes[c][i].snap
    BY <1>3 DEF Keep, FleetTypeOK
  <2>3. ProbeGoto(c, i, "done", probes[c][i].snap)
    BY <1>3 DEF Keep
  <2>4. QED
    BY <1>0, <2>1, <2>2, <2>3
<1>4. QED
  BY <1>1, <1>2, <1>3

\* What a reload has dropped from the list dies out: a probe of an old entry may still
\* fill the cache with it after the reload has dropped the cache, and others may take it
\* from there, but once it is nowhere it comes from nowhere again (fleet.go:131-150, 207).
THEOREM DroppedDieOut == FleetSpec => [][Around' \subseteq Around \cup InList]_fleetVars
<1>1. ASSUME FleetTypeOK, FleetNext PROVE Around' \subseteq Around \cup InList
  <2>1. CASE UNCHANGED <<cache, probes>>
    BY <2>1, InAround, AroundWithin
  <2>2. ASSUME NEW c \in Callers, Probe(c) PROVE Around' \subseteq Around
    BY <1>1, <2>2, ProbeAround
  <2>3. CASE ReloadDropsCache \/ \E u \in Urls : Expire(u)
    <3>1. UNCHANGED probes /\ \A u \in Urls : cache'[u] = cache[u] \/ cache'[u] = NoSnapshot
      BY <1>1, <2>3 DEF ReloadDropsCache, Expire, FleetTypeOK
    <3>2. QED
      BY <3>1, InAround, AroundWithin
  <2>4. ASSUME NEW v \in Viewers, GetFleet(v) PROVE Around' \subseteq Around \cup InList
    <3>1. probes' = [probes EXCEPT ![v] = [i \in DOMAIN workers |->
                        [worker |-> workers[i], at |-> "look", snap |-> NoSnapshot]]]
      BY <2>4 DEF GetFleet, Snapshots
    <3>2. UNCHANGED cache /\ v \in Callers /\ DOMAIN probes = Callers
      BY <1>1, <2>4 DEF GetFleet, Callers, FleetTypeOK
    <3>3. /\ \A d \in Callers \ {v} : probes'[d] = probes[d]
          /\ \A i \in DOMAIN probes'[v] : probes'[v][i].at = "look" /\ probes'[v][i].worker \in InList
      BY <3>1, <3>2 DEF InList
    <3>4. \A u \in Urls : cache'[u] # NoSnapshot => cache'[u].worker \in Around \cup InList
      BY <3>2, InAround
    <3>5. ASSUME NEW d \in Callers, NEW i \in DOMAIN probes'[d]
          PROVE  /\ probes'[d][i].worker \in Around \cup InList
                 /\ probes'[d][i].at \in {"keep", "done"} =>
                       probes'[d][i].snap.worker \in Around \cup InList
      <4>1. CASE d = v
        BY <3>3, <3>5, <4>1
      <4>2. CASE d # v
        <5>1. probes'[d] = probes[d]
          BY <3>3, <4>2
        <5>2. QED
          BY <3>5, <5>1, InAround
      <4>3. QED
        BY <4>1, <4>2
    <3>6. QED
      BY <3>4, <3>5, AroundWithin
  <2>5. ASSUME NEW v \in Viewers, Reply(v) PROVE Around' \subseteq Around
    <3>1. UNCHANGED cache /\ DOMAIN probes'[v] = {} /\ \A d \in Callers \ {v} : probes'[d] = probes[d]
      BY <1>1, <2>5 DEF Reply, FleetTypeOK, Callers
    <3>2. QED
      BY <3>1, InAround, AroundWithin
  <2>6. QED
    BY <1>1, <2>1, <2>2, <2>3, <2>4, <2>5, MachinesType DEF FleetNext, Registry, Reload, ClientGoes
<1>2. FleetTypeOK /\ [FleetNext]_fleetVars => [Around' \subseteq Around \cup InList]_fleetVars
  BY <1>1
<1>3. QED
  BY <1>2, FleetTypeCorrect, PTL DEF FleetSpec
=============================================================================
