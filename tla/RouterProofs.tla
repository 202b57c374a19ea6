---------------------------- MODULE RouterProofs ----------------------------
(***************************************************************************)
(* Proofs about the proxy for any requests, machines, models and names.    *)
(***************************************************************************)
EXTENDS Router, FleetProofs, FiniteSetTheorems, WellFoundedInduction

-----------------------------------------------------------------------------
(* What a rebuild makes of what it has read.                               *)

\* What a source can be, of a model m that a machine shows as cfg.
IsSource(s, machine, host, m, cfg) ==
    /\ \E warming \in BOOLEAN : s = Source(machine, host, warming, m, cfg)
    /\ m \in Models
    /\ cfg \in {ModelConfig[m], Changed[m]}

LocalSource(s, near) ==
    /\ near # NoServer
    /\ IsSource(s, LocalMachine, LocalMachine, near.model, ModelConfig[near.model])

WorkerSource(s, snap) ==
    /\ snap.status = "online"
    /\ snap.running # NoModel
    /\ IsSource(s, snap.worker.name, Hostname(snap.worker), snap.running,
                IF snap.as = "launched" THEN ModelConfig[snap.running] ELSE Changed[snap.running])

LEMMA SnapshotFields ==
    ASSUME NEW snap \in Snapshot
    PROVE  /\ snap.worker \in Worker
           /\ snap.running \in Models \cup {NoModel}
BY DEF Snapshot, Online, Offline

LEMMA SourcesAre ==
    ASSUME NEW near \in RunningServer \cup {NoServer},
           NEW snaps, DOMAIN snaps \subseteq Nat \ {0},
           \A i \in DOMAIN snaps : snaps[i] \in Snapshot
    PROVE  /\ DOMAIN Sources(near, snaps) \subseteq Nat
           /\ \A i \in DOMAIN Sources(near, snaps) :
                LET s == Sources(near, snaps)[i] IN
                /\ s.target.port # Unparsed
                /\ \/ LocalSource(s, near)
                   \/ i \in DOMAIN snaps /\ WorkerSource(s, snaps[i])
<1> DEFINE Here == Source(LocalMachine, LocalMachine, near.status = "starting",
                          near.model, ModelConfig[near.model])
           There(snap) == Source(snap.worker.name, Hostname(snap.worker), FALSE, snap.running,
                                 IF snap.as = "launched" THEN ModelConfig[snap.running]
                                 ELSE Changed[snap.running])
           active == {i \in DOMAIN snaps : snaps[i].status = "online" /\ snaps[i].running # NoModel}
           found == [i \in active \cup (IF near = NoServer THEN {} ELSE {0}) |->
                        IF i = 0 THEN Here ELSE There(snaps[i])]
           routable == {i \in DOMAIN found : found[i].target.port # Unparsed}
<1>1. Sources(near, snaps) = [i \in routable |-> found[i]]
  BY DEF Sources, Restrict
<1>2. near # NoServer => LocalSource(Here, near)
  <2>1. near # NoServer => near \in RunningServer
    OBVIOUS
  <2>2. QED
    BY <2>1 DEF LocalSource, IsSource, RunningServer
<1>3. ASSUME NEW i \in active PROVE WorkerSource(There(snaps[i]), snaps[i])
  <2>1. snaps[i].running \in Models
    BY SnapshotFields
  <2>2. QED
    BY <2>1 DEF WorkerSource, IsSource
<1>4. ASSUME NEW i \in routable
      PROVE  /\ found[i].target.port # Unparsed
             /\ \/ LocalSource(found[i], near)
                \/ i \in DOMAIN snaps /\ WorkerSource(found[i], snaps[i])
  <2> HIDE DEF Here, There
  <2>1. CASE i = 0
    BY <1>2, <2>1
  <2>2. CASE i # 0
    BY <1>3, <2>2
  <2>3. QED
    BY <2>1, <2>2
<1>5. routable \subseteq Nat
  <2> HIDE DEF Here, There
  <2> QED
    OBVIOUS
<1>6. QED
  <2> HIDE DEF routable, found
  <2> QED
    BY <1>1, <1>4, <1>5

LEMMA PortType ==
    ASSUME NEW m \in Models, NEW cfg \in {ModelConfig[m], Changed[m]}
    PROVE  RoutablePort(cfg) \in Nat
BY RouterAssumption DEF RoutablePort, DefaultLlamaPort

WellTyped(s) ==
    /\ s.id \in Published \cap s.keys
    /\ s.keys \subseteq Names
    /\ s.target \in Target

LEMMA SourceType ==
    ASSUME NEW s, NEW machine \in {LocalMachine} \cup {w.name : w \in Worker},
           NEW host \in {LocalMachine} \cup Urls, NEW m, NEW cfg,
           IsSource(s, machine, host, m, cfg)
    PROVE  WellTyped(s)
<1>1. PICK warming \in BOOLEAN : s = Source(machine, host, warming, m, cfg)
  BY DEF IsSource
<1>2. m \in Models /\ cfg \in {ModelConfig[m], Changed[m]}
  BY DEF IsSource
<1>3. s.id = PublishName(m, cfg) /\ s.keys = {m, PublishName(m, cfg)}
  BY <1>1 DEF Source, Keys
<1>4. PublishName(m, cfg) \in Published
  BY <1>2 DEF Published
<1>5. Keys(m, cfg) \subseteq Names
  BY <1>2 DEF Names, NamesOf
<1>6. s.target \in Target
  BY <1>1, <1>2, PortType DEF Source, Target
<1>7. QED
  BY <1>3, <1>4, <1>5, <1>6 DEF Keys, WellTyped

\* Every source of a rebuild is well typed.
LEMMA SourcesType ==
    ASSUME NEW near \in RunningServer \cup {NoServer},
           NEW snaps, DOMAIN snaps \subseteq Nat \ {0},
           \A i \in DOMAIN snaps : snaps[i] \in Snapshot
    PROVE  \A i \in DOMAIN Sources(near, snaps) :
                WellTyped(Sources(near, snaps)[i])
<1> SUFFICES ASSUME NEW i \in DOMAIN Sources(near, snaps)
             PROVE  WellTyped(Sources(near, snaps)[i])
  OBVIOUS
<1> DEFINE s == Sources(near, snaps)[i]
<1>1. LocalSource(s, near) \/ (i \in DOMAIN snaps /\ WorkerSource(s, snaps[i]))
  BY SourcesAre
<1>2. CASE LocalSource(s, near)
  BY <1>2, SourceType DEF LocalSource
<1>3. CASE i \in DOMAIN snaps /\ WorkerSource(s, snaps[i])
  <2>1. snaps[i].worker.name \in {w.name : w \in Worker} /\ Hostname(snaps[i].worker) \in Urls
    BY <1>3, SnapshotFields, FleetAssumption DEF Hostname
  <2>2. QED
    BY <1>3, <2>1, SourceType DEF WorkerSource
<1>4. QED
  BY <1>1, <1>2, <1>3

LEMMA LeastExists ==
    ASSUME NEW S, S \subseteq Nat, S # {}
    PROVE  Min(S) \in S
<1>1. PICK x \in S : \A y \in S : <<y, x>> \notin OpToRel(<, Nat)
  BY NatLessThanWellFounded, WFMin, Zenon
<1>2. \A y \in S : ~(y < x)
  BY <1>1, Zenon DEF OpToRel
<1>3. \A y \in S : x <= y
  BY <1>2
<1>4. QED
  BY <1>3 DEF Min

\* A published name leads to one of the sources that claim it.
LEMMA FirstTargetIs ==
    ASSUME NEW sources, DOMAIN sources \subseteq Nat, NEW n
    PROVE  \/ /\ FirstTarget(sources, n) = NoTarget
              /\ \A i \in DOMAIN sources : n \notin sources[i].keys
           \/ \E i \in DOMAIN sources :
                n \in sources[i].keys /\ FirstTarget(sources, n) = sources[i].target
<1> DEFINE claims == {i \in DOMAIN sources : n \in sources[i].keys}
<1>1. CASE claims = {}
  BY <1>1 DEF FirstTarget
<1>2. CASE claims # {}
  <2>1. Min(claims) \in claims
    BY <1>2, LeastExists
  <2>2. FirstTarget(sources, n) = sources[Min(claims)].target
    BY <1>2 DEF FirstTarget
  <2>3. QED
    BY <2>1, <2>2
<1>3. QED
  BY <1>1, <1>2

-----------------------------------------------------------------------------
(* What a step does to the requests.                                       *)

Others(r) == \A q \in Requests \ {r} : req'[q] = req[q]

\* Request q keeps everything but its place in the handler.
Keeps(q) ==
    /\ req'[q].name = req[q].name
    /\ req'[q].attempt = req[q].attempt
    /\ req'[q].tgt = req[q].tgt
    /\ req'[q].near = req[q].near
    /\ req'[q].sent = req[q].sent
    /\ req'[q].renewed = req[q].renewed
    /\ req'[q].reply = req[q].reply

Returned(r, n, answer) ==
    /\ req'[r].pc = "done"
    /\ req'[r].name = req[r].name
    /\ req'[r].attempt = 1
    /\ req'[r].near = NoServer
    /\ req'[r].sent = n
    /\ req'[r].reply = answer

LEMMA GotoIs ==
    ASSUME req \in [Requests -> Request], NEW r \in Requests, NEW pc \in Pc, Goto(r, pc)
    PROVE  /\ req' \in [Requests -> Request]
           /\ Others(r) /\ Keeps(r)
           /\ req'[r].pc = pc
BY DEF Goto, Request, Others, Keeps

LEMMA ReturnsIs ==
    ASSUME req \in [Requests -> Request], NEW r \in Requests, NEW n \in 0..2,
           NEW answer \in Replies, Returns(r, n, answer)
    PROVE  /\ req' \in [Requests -> Request]
           /\ Others(r)
           /\ Returned(r, n, answer)
<1> DEFINE new == [pc |-> "done", name |-> req[r].name, attempt |-> 1, tgt |-> NoTarget,
                   near |-> NoServer, sent |-> n, renewed |-> FALSE, reply |-> answer]
<1>1. new \in Request
  BY DEF Request, Pc
<1>2. req' = [req EXCEPT ![r] = new]
  BY DEF Returns
<1>3. QED
  BY <1>1, <1>2 DEF Others, Returned

\* What a request does with a target it has found.
Routed(r, tgt) ==
    \/ tgt.warming /\ req[r].attempt = 1 /\ Returned(r, req[r].sent, "warming")
    \/ /\ req'[r].pc = "send"
       /\ req'[r].tgt = tgt
       /\ req'[r].name = req[r].name
       /\ req'[r].attempt = req[r].attempt
       /\ req'[r].near = req[r].near
       /\ req'[r].sent = req[r].sent
       /\ req'[r].renewed = req[r].renewed
       /\ req'[r].reply = req[r].reply

LEMMA RouteIs ==
    ASSUME req \in [Requests -> Request], NEW r \in Requests, NEW tgt \in Target, Route(r, tgt)
    PROVE  /\ req' \in [Requests -> Request]
           /\ Others(r)
           /\ Routed(r, tgt)
<1>1. CASE tgt.warming /\ req[r].attempt = 1
  <2>1. Returns(r, req[r].sent, "warming") /\ req[r].sent \in 0..2
    BY <1>1 DEF Route, Answer, Request
  <2>2. QED
    BY <1>1, <2>1, ReturnsIs DEF Replies, Routed
<1>2. CASE ~(tgt.warming /\ req[r].attempt = 1)
  BY <1>2 DEF Route, Request, Others, Routed, Pc
<1>3. QED
  BY <1>1, <1>2

-----------------------------------------------------------------------------
(* The steps of a request, one by one.                                     *)

\* Only an attempt that is not the second one has a successor, and every attempt is
\* counted once.
AttemptInv ==
    \A r \in Requests :
        /\ ~At(r, "done") => req[r].reply = NoReply
        /\ req[r].pc \notin {"invalidate", "done"} => req[r].sent = req[r].attempt - 1
        /\ At(r, "invalidate") => req[r].attempt = 1 /\ req[r].sent = 1

\* A group stays in flight, its leader's, until the leader releases it.
LeaderInv ==
    \A r \in Requests :
        req[r].pc \in {"rebuild", "probing", "close", "release"} =>
            inflight[req[r].name] # NoGroup /\ inflight[req[r].name].leader = r

\* The name is found in a table that is not too old.
Found(r) ==
    /\ fresh
    /\ req[r].name \in Names
    /\ table[req[r].name] \in Target
    /\ Routed(r, table[req[r].name])

RouterElse == <<local, table, entries, fresh, inflight, ran, moves>>

LEMMA AcceptIs ==
    ASSUME RouterTypeOK, NEW r \in Requests, Accept(r)
    PROVE  /\ req' \in [Requests -> Request] /\ Others(r)
           /\ \/ Keeps(r) /\ req'[r].pc = "lookup"
              \/ \E answer \in Replies : Returned(r, req[r].sent, answer)
           /\ UNCHANGED <<fleetVars, RouterElse>>
<1>1. req \in [Requests -> Request] /\ req[r].sent \in 0..2
  BY DEF RouterTypeOK, Request
<1>2. CASE Goto(r, "lookup")
  BY <1>1, <1>2, GotoIs DEF Accept, Pc, RouterElse
<1>3. CASE \E answer \in {"turned_away", "bad_request"} : Returns(r, req[r].sent, answer)
  BY <1>1, <1>3, ReturnsIs DEF Accept, Replies, RouterElse
<1>4. QED
  BY <1>2, <1>3 DEF Accept, TurnedAway, Answer

LEMMA LookupIs ==
    ASSUME RouterTypeOK, NEW r \in Requests, Lookup(r)
    PROVE  /\ req' \in [Requests -> Request] /\ Others(r)
           /\ \/ Keeps(r) /\ req'[r].pc = "refresh"
              \/ Returned(r, req[r].sent, "list")
              \/ Found(r)
           /\ UNCHANGED <<fleetVars, RouterElse>>
<1> DEFINE name == req[r].name
<1>1. req \in [Requests -> Request] /\ req[r].sent \in 0..2 /\ name \in Names \cup {ListName}
  BY DEF RouterTypeOK, Request
<1>2. CASE Goto(r, "refresh")
  BY <1>1, <1>2, GotoIs DEF Lookup, Pc, RouterElse
<1>3. CASE Answer(r, "list")
  BY <1>1, <1>3, ReturnsIs DEF ListModels, Lookup, Answer, Replies, RouterElse
<1>4. CASE fresh /\ name # ListName /\ table[name] # NoTarget /\ Route(r, table[name])
  <2>1. name \in Names /\ table[name] \in Target
    BY <1>1, <1>4 DEF RouterTypeOK
  <2>2. QED
    BY <1>1, <1>4, <2>1, RouteIs DEF Lookup, Found, RouterElse
<1>5. QED
  BY <1>2, <1>3, <1>4 DEF ListModels, Lookup

LEMMA LookupAgainIs ==
    ASSUME RouterTypeOK, NEW r \in Requests, LookupAgain(r)
    PROVE  /\ req' \in [Requests -> Request] /\ Others(r)
           /\ \/ \E answer \in Replies : Returned(r, req[r].sent, answer)
              \/ Found(r)
           /\ UNCHANGED <<fleetVars, RouterElse>>
<1> DEFINE name == req[r].name
<1>1. req \in [Requests -> Request] /\ req[r].sent \in 0..2 /\ name \in Names \cup {ListName}
  BY DEF RouterTypeOK, Request
<1>2. CASE Answer(r, "list") \/ Answer(r, "not_found")
  BY <1>1, <1>2, ReturnsIs DEF ListModels, LookupAgain, Answer, Replies, RouterElse
<1>3. CASE fresh /\ name # ListName /\ table[name] # NoTarget /\ Route(r, table[name])
  <2>1. name \in Names /\ table[name] \in Target
    BY <1>1, <1>3 DEF RouterTypeOK
  <2>2. QED
    BY <1>1, <1>3, <2>1, RouteIs DEF LookupAgain, Found, RouterElse
<1>4. QED
  BY <1>2, <1>3 DEF ListModels, LookupAgain

LEMMA RefreshIs ==
    ASSUME RouterTypeOK, NEW r \in Requests, Refresh(r)
    PROVE  /\ req' \in [Requests -> Request] /\ Others(r) /\ Keeps(r)
           /\ \/ req'[r].pc \in {"wait", "again"} /\ UNCHANGED inflight
              \/ /\ req'[r].pc = "rebuild"
                 /\ inflight[req[r].name] = NoGroup
                 /\ inflight' = [inflight EXCEPT ![req[r].name] = [leader |-> r, closed |-> FALSE]]
           /\ UNCHANGED <<fleetVars, local, table, entries, fresh, ran, moves>>
<1>1. req \in [Requests -> Request]
  BY DEF RouterTypeOK
<1>2. \E pc \in {"wait", "again", "rebuild"} : Goto(r, pc)
  BY DEF Refresh
<1>3. QED
  BY <1>1, <1>2, GotoIs DEF Refresh, Pc

LEMMA RebuildIs ==
    ASSUME RouterTypeOK, NEW r \in Requests, Rebuild(r)
    PROVE  /\ At(r, "rebuild")
           /\ req' \in [Requests -> Request] /\ Others(r)
           /\ req'[r].pc = "probing" /\ req'[r].near = local
           /\ req'[r].name = req[r].name /\ req'[r].attempt = req[r].attempt
           /\ req'[r].sent = req[r].sent /\ req'[r].renewed = req[r].renewed
           /\ req'[r].reply = req[r].reply
           /\ Snapshots(r)
           /\ UNCHANGED <<workers, cache, reloading, remote, asking, gone, flaky>>
           /\ UNCHANGED RouterElse
<1>1. req' = [req EXCEPT ![r].pc = "probing", ![r].near = local]
  BY DEF Rebuild
<1>2. req \in [Requests -> Request] /\ local \in RunningServer \cup {NoServer}
  BY DEF RouterTypeOK
<1>3. /\ req' \in [Requests -> Request] /\ Others(r)
      /\ req'[r].pc = "probing" /\ req'[r].near = local
      /\ req'[r].name = req[r].name /\ req'[r].attempt = req[r].attempt
      /\ req'[r].sent = req[r].sent /\ req'[r].renewed = req[r].renewed
      /\ req'[r].reply = req[r].reply
  <2> DEFINE a == [req[r] EXCEPT !.pc = "probing"]
             new == [a EXCEPT !.near = local]
  <2>1. req[r] \in Request
    BY <1>2
  <2>2. /\ a \in Request /\ a.pc = "probing" /\ a.name = req[r].name
        /\ a.attempt = req[r].attempt /\ a.sent = req[r].sent
        /\ a.renewed = req[r].renewed /\ a.reply = req[r].reply
    BY <2>1 DEF Request, Pc
  <2>3. /\ new \in Request /\ new.pc = a.pc /\ new.name = a.name
        /\ new.attempt = a.attempt /\ new.sent = a.sent
        /\ new.renewed = a.renewed /\ new.reply = a.reply /\ new.near = local
    <3> HIDE DEF a
    <3> QED
      BY <1>2, <2>2 DEF Request
  <2>4. req' = [req EXCEPT ![r] = new]
    BY <1>1, <1>2
  <2>5. QED
    <3> HIDE DEF a, new
    <3> QED
      BY <1>2, <2>2, <2>3, <2>4 DEF Others
<1>4. QED
  BY <1>3 DEF Rebuild, RouterElse

LEMMA InstallIs ==
    ASSUME RouterTypeOK, NEW r \in Requests, Install(r)
    PROVE  /\ At(r, "probing") /\ req'[r].pc = "close"
           /\ \A q \in Requests \ {r} : req'[q].pc = req[q].pc
           /\ req' \in [Requests -> Request]
           /\ \A q \in Requests :
                /\ req'[q].name = req[q].name
                /\ req'[q].attempt = req[q].attempt
                /\ req'[q].tgt = req[q].tgt
                /\ req'[q].sent = req[q].sent
                /\ req'[q].reply = req[q].reply
                /\ req[q].attempt = 2 => req'[q].renewed
                /\ req'[q].near \in {req[q].near, NoServer}
<1> DEFINE new(q) == [req[q] EXCEPT !.renewed = req[q].attempt = 2,
                                    !.pc = IF q = r THEN "close" ELSE @,
                                    !.near = IF q = r THEN NoServer ELSE @]
<1>1. req' = [q \in Requests |-> new(q)]
  BY DEF Install
<1>2. req \in [Requests -> Request]
  BY DEF RouterTypeOK
<1>3. ASSUME NEW q \in Requests
      PROVE  /\ new(q) \in Request
             /\ new(q).pc = IF q = r THEN "close" ELSE req[q].pc
             /\ new(q).name = req[q].name
             /\ new(q).attempt = req[q].attempt
             /\ new(q).tgt = req[q].tgt
             /\ new(q).sent = req[q].sent
             /\ new(q).reply = req[q].reply
             /\ new(q).renewed = (req[q].attempt = 2)
             /\ new(q).near \in {req[q].near, NoServer}
  <2> DEFINE a == [req[q] EXCEPT !.renewed = req[q].attempt = 2]
             b == [a EXCEPT !.pc = IF q = r THEN "close" ELSE req[q].pc]
             c == [b EXCEPT !.near = IF q = r THEN NoServer ELSE req[q].near]
  <2>1. req[q] \in Request
    BY <1>2
  <2>2. /\ a \in Request /\ a.renewed = (req[q].attempt = 2)
        /\ a.pc = req[q].pc /\ a.name = req[q].name /\ a.attempt = req[q].attempt
        /\ a.tgt = req[q].tgt /\ a.sent = req[q].sent /\ a.reply = req[q].reply
        /\ a.near = req[q].near
    BY <2>1 DEF Request
  <2>3. /\ b \in Request /\ b.renewed = a.renewed
        /\ b.pc = IF q = r THEN "close" ELSE req[q].pc
        /\ b.name = a.name /\ b.attempt = a.attempt
        /\ b.tgt = a.tgt /\ b.sent = a.sent /\ b.reply = a.reply /\ b.near = a.near
    <3> HIDE DEF a
    <3> QED
      BY <2>1, <2>2 DEF Request, Pc
  <2>4. /\ c \in Request /\ c.renewed = b.renewed /\ c.pc = b.pc
        /\ c.near = IF q = r THEN NoServer ELSE req[q].near
        /\ c.name = b.name /\ c.attempt = b.attempt
        /\ c.tgt = b.tgt /\ c.sent = b.sent /\ c.reply = b.reply
    <3> HIDE DEF b
    <3> QED
      BY <2>1, <2>3 DEF Request
  <2>5. new(q) = c
    OBVIOUS
  <2>6. QED
    <3> HIDE DEF new, a, b, c
    <3> QED
      BY <2>2, <2>3, <2>4, <2>5
<1>4. At(r, "probing")
  BY DEF Install
<1>5. QED
  <2> HIDE DEF new
  <2> QED
    BY <1>1, <1>3, <1>4

LEMMA CloseGroupIs ==
    ASSUME RouterTypeOK, NEW r \in Requests, CloseGroup(r)
    PROVE  /\ At(r, "close") /\ req'[r].pc = "release"
           /\ req' \in [Requests -> Request]
           /\ \A q \in Requests : Keeps(q)
           /\ \A q \in Requests \ {r} : \/ req'[q].pc = req[q].pc
                                           /\ ~(req[q].pc = "wait" /\ req[q].name = req[r].name)
                                        \/ req[q].pc = "wait" /\ req'[q].pc = "again"
           /\ inflight' = [inflight EXCEPT ![req[r].name].closed = TRUE]
           /\ UNCHANGED <<fleetVars, local, table, entries, fresh, ran, moves>>
<1>1. req \in [Requests -> Request]
  BY DEF RouterTypeOK
<1>2. \A q \in Requests :
        req'[q] = [req[q] EXCEPT !.pc = IF q = r THEN "release"
                                        ELSE IF @ = "wait" /\ req[q].name = req[r].name THEN "again"
                                        ELSE @]
  BY DEF CloseGroup
<1>3. ASSUME NEW q \in Requests PROVE req'[q] \in Request /\ Keeps(q)
  <2>1. PICK pc \in {"release", "again", req[q].pc} : req'[q] = [req[q] EXCEPT !.pc = pc]
    BY <1>2
  <2>2. req[q] \in Request /\ pc \in Pc
    BY <1>1 DEF Request, Pc
  <2>3. QED
    BY <2>1, <2>2 DEF Request, Keeps
<1>4. /\ req'[r].pc = "release"
      /\ \A q \in Requests \ {r} : \/ req'[q].pc = req[q].pc
                                      /\ ~(req[q].pc = "wait" /\ req[q].name = req[r].name)
                                   \/ req[q].pc = "wait" /\ req'[q].pc = "again"
  <2>1. \A q \in Requests :
            req'[q].pc = IF q = r THEN "release"
                         ELSE IF req[q].pc = "wait" /\ req[q].name = req[r].name THEN "again"
                         ELSE req[q].pc
    <3> SUFFICES ASSUME NEW q \in Requests
                 PROVE  req'[q].pc = IF q = r THEN "release"
                                     ELSE IF req[q].pc = "wait" /\ req[q].name = req[r].name THEN "again"
                                     ELSE req[q].pc
      OBVIOUS
    <3>1. req[q] \in Request
      BY <1>1
    <3>2. QED
      BY <1>2, <3>1 DEF Request
  <2>2. QED
    BY <2>1
<1>5. req' = [q \in Requests |-> req'[q]]
  BY DEF CloseGroup
<1>6. QED
  BY <1>3, <1>4, <1>5 DEF CloseGroup

LEMMA ReleaseGroupIs ==
    ASSUME RouterTypeOK, NEW r \in Requests, ReleaseGroup(r)
    PROVE  /\ At(r, "release") /\ req'[r].pc = "again"
           /\ req' \in [Requests -> Request] /\ Others(r) /\ Keeps(r)
           /\ inflight' = [inflight EXCEPT ![req[r].name] = NoGroup]
           /\ UNCHANGED <<fleetVars, local, table, entries, fresh, ran, moves>>
BY GotoIs DEF RouterTypeOK, ReleaseGroup, Pc

LEMMA ForwardIs ==
    ASSUME RouterTypeOK, AttemptInv, NEW r \in Requests, Forward(r)
    PROVE  /\ At(r, "send")
           /\ req' \in [Requests -> Request] /\ Others(r)
           /\ req'[r].sent = req[r].sent + 1
           /\ \/ \E answer \in Replies : Returned(r, req[r].sent + 1, answer)
              \/ /\ req'[r].pc = "invalidate"
                 /\ req[r].attempt = 1 /\ req'[r].attempt = 1
                 /\ req'[r].name = req[r].name
                 /\ req'[r].renewed = req[r].renewed
                 /\ req'[r].near = req[r].near
                 /\ req'[r].reply = req[r].reply
           /\ UNCHANGED <<fleetVars, RouterElse>>
<1>1. req \in [Requests -> Request] /\ At(r, "send")
  BY DEF RouterTypeOK, Forward
<1>2. req[r].sent = req[r].attempt - 1 /\ req[r].attempt \in 1..2 /\ req[r].sent \in 0..2
  BY <1>1 DEF AttemptInv, At, Request
<1>3. req[r].sent + 1 \in 1..2
  BY <1>2
<1>4. CASE \E answer \in {"upstream", "bad_gateway"} : Returns(r, req[r].sent + 1, answer)
  <2>1. PICK answer \in {"upstream", "bad_gateway"} : Returns(r, req[r].sent + 1, answer)
    BY <1>4
  <2>2. req' \in [Requests -> Request] /\ Others(r) /\ Returned(r, req[r].sent + 1, answer)
    BY <1>1, <1>3, <2>1, ReturnsIs DEF Replies
  <2>3. QED
    BY <1>1, <2>2 DEF Forward, Returned, Replies, RouterElse
<1>5. CASE /\ req[r].attempt = 1
           /\ req' = [req EXCEPT ![r].pc = "invalidate", ![r].sent = req[r].sent + 1,
                                 ![r].tgt = NoTarget]
  BY <1>1, <1>3, <1>5 DEF Forward, Request, Others, Pc, RouterElse
<1>6. QED
  BY <1>4, <1>5 DEF Forward

LEMMA InvalidateIs ==
    ASSUME RouterTypeOK, NEW r \in Requests, Invalidate(r)
    PROVE  /\ At(r, "invalidate")
           /\ req' \in [Requests -> Request] /\ Others(r)
           /\ req'[r].pc = "lookup" /\ req'[r].attempt = 2
           /\ req'[r].name = req[r].name /\ req'[r].near = req[r].near
           /\ req'[r].sent = req[r].sent /\ req'[r].reply = req[r].reply
           /\ ~fresh'
           /\ table' = [table EXCEPT ![req[r].name] = NoTarget]
           /\ UNCHANGED <<fleetVars, local, entries, inflight, ran, moves>>
<1>1. req' = [req EXCEPT ![r].pc = "lookup", ![r].attempt = 2]
  BY DEF Invalidate
<1>2. req \in [Requests -> Request]
  BY DEF RouterTypeOK
<1>3. /\ req' \in [Requests -> Request] /\ Others(r)
      /\ req'[r].pc = "lookup" /\ req'[r].attempt = 2
      /\ req'[r].name = req[r].name /\ req'[r].near = req[r].near
      /\ req'[r].sent = req[r].sent /\ req'[r].reply = req[r].reply
  <2> DEFINE a == [req[r] EXCEPT !.pc = "lookup"]
             new == [a EXCEPT !.attempt = 2]
  <2>1. req[r] \in Request
    BY <1>2
  <2>2. /\ a \in Request /\ a.pc = "lookup" /\ a.name = req[r].name
        /\ a.near = req[r].near /\ a.sent = req[r].sent /\ a.reply = req[r].reply
    BY <2>1 DEF Request, Pc
  <2>3. /\ new \in Request /\ new.pc = a.pc /\ new.name = a.name
        /\ new.near = a.near /\ new.sent = a.sent /\ new.reply = a.reply
        /\ new.attempt = 2
    <3> HIDE DEF a
    <3> QED
      BY <2>2 DEF Request
  <2>4. req' = [req EXCEPT ![r] = new]
    BY <1>1, <1>2
  <2>5. QED
    <3> HIDE DEF a, new
    <3> QED
      BY <1>2, <2>2, <2>3, <2>4 DEF Others
<1>4. QED
  BY <1>3 DEF Invalidate

-----------------------------------------------------------------------------
(* Types.                                                                  *)

ReadSnaps(r) == [i \in DOMAIN probes[r] |-> probes[r][i].snap]

\* When a rebuild has all its snapshots, they are snapshots.
LEMMA SnapsType ==
    ASSUME RouterTypeOK, NEW r \in Requests, SnapshotsDone(r)
    PROVE  /\ DOMAIN ReadSnaps(r) \subseteq Nat \ {0}
           /\ \A i \in DOMAIN ReadSnaps(r) : ReadSnaps(r)[i] \in Snapshot
<1>1. probes[r] \in Seq(ProbeState)
  BY DEF RouterTypeOK, FleetTypeOK, ProbeState, Callers, Requests
<1>2. \A i \in DOMAIN probes[r] : probes[r][i].snap \in Snapshot
  <2> SUFFICES ASSUME NEW i \in DOMAIN probes[r] PROVE probes[r][i].snap \in Snapshot
    OBVIOUS
  <2>1. probes[r][i] \in ProbeState /\ probes[r][i].at = "done"
    BY <1>1 DEF SnapshotsDone
  <2>2. QED
    BY <2>1 DEF ProbeState
<1>3. DOMAIN probes[r] \subseteq Nat \ {0}
  BY <1>1
<1>4. QED
  BY <1>2, <1>3 DEF ReadSnaps

\* What an installed table is made of.
LEMMA Installed ==
    ASSUME RouterTypeOK, NEW r \in Requests, Install(r)
    PROVE  /\ table' = [n \in Names |-> FirstTarget(Sources(req[r].near, ReadSnaps(r)), n)]
           /\ entries' = Listed(Sources(req[r].near, ReadSnaps(r)))
           /\ fresh' = TRUE
           /\ SnapshotsDone(r)
           /\ probes' = [probes EXCEPT ![r] = <<>>]
           /\ UNCHANGED <<workers, cache, reloading, remote, asking, gone, flaky>>
           /\ UNCHANGED <<local, inflight, ran, moves>>
BY DEF Install, ReadSnaps

LEMMA TableType ==
    ASSUME RouterTypeOK, NEW r \in Requests, Install(r)
    PROVE  /\ table' \in [Names -> Target \cup {NoTarget}]
           /\ entries' \subseteq Published
<1> DEFINE sources == Sources(req[r].near, ReadSnaps(r))
<1>1. req[r].near \in RunningServer \cup {NoServer}
  BY DEF RouterTypeOK, Request
<1>2. DOMAIN sources \subseteq Nat /\ \A i \in DOMAIN sources : WellTyped(sources[i])
  BY <1>1, Installed, SnapsType, SourcesAre, SourcesType
<1>3. \A n \in Names : FirstTarget(sources, n) \in Target \cup {NoTarget}
  <2> HIDE DEF sources
  <2> QED
    BY <1>2, FirstTargetIs DEF WellTyped
<1>4. Listed(sources) \subseteq Published
  <2> HIDE DEF sources
  <2> QED
    BY <1>2 DEF Listed, WellTyped
<1>5. QED
  <2> HIDE DEF sources
  <2> QED
    BY <1>3, <1>4, Installed DEF sources

LEMMA RouterTypeInit == Init => RouterTypeOK
<1> SUFFICES ASSUME Init PROVE RouterTypeOK
  OBVIOUS
<1>1. FleetTypeOK
  BY FleetTypeInit DEF Init
<1>2. req \in [Requests -> Request]
  <2>1. PICK want \in Wants :
          req = [r \in Requests |->
            [pc |-> "new", name |-> want[r], attempt |-> 1, tgt |-> NoTarget,
             near |-> NoServer, sent |-> 0, renewed |-> FALSE, reply |-> NoReply]]
    BY DEF Init
  <2>2. \A r \in Requests : want[r] \in Names \cup {ListName}
    BY RouterAssumption
  <2>3. QED
    BY <2>1, <2>2 DEF Request, Pc
<1>3. moves \in 0..MaxMoves
  BY RouterAssumption DEF Init
<1>4. QED
  BY <1>1, <1>2, <1>3 DEF Init, RouterTypeOK

LEMMA FleetKept ==
    ASSUME FleetTypeOK, UNCHANGED fleetVars
    PROVE  FleetTypeOK'
BY DEF FleetTypeOK, fleetVars

LEMMA ServeType ==
    ASSUME RouterTypeOK, AttemptInv, LeaderInv, NEW r \in Requests, Serve(r)
    PROVE  RouterTypeOK'
<1>0. /\ FleetTypeOK /\ r \in Callers
      /\ req[r].name \in Names \cup {ListName}
      /\ inflight \in [Names \cup {ListName} -> Group \cup {NoGroup}]
      /\ table \in [Names -> Target \cup {NoTarget}]
  BY DEF RouterTypeOK, Request, Callers, Requests
<1>1. CASE Accept(r) \/ Lookup(r) \/ LookupAgain(r) \/ Forward(r)
  <2>1. req' \in [Requests -> Request] /\ UNCHANGED <<fleetVars, RouterElse>>
    BY <1>1, AcceptIs, LookupIs, LookupAgainIs, ForwardIs
  <2>2. QED
    BY <1>0, <2>1, FleetKept DEF RouterTypeOK, RouterElse
<1>2. CASE Refresh(r)
  <2>1. inflight' \in [Names \cup {ListName} -> Group \cup {NoGroup}]
    <3>1. [leader |-> r, closed |-> FALSE] \in Group
      BY DEF Group
    <3>2. QED
      BY <1>0, <1>2, <3>1, RefreshIs
  <2>2. QED
    BY <1>0, <1>2, <2>1, RefreshIs, FleetKept DEF RouterTypeOK
<1>3. CASE Rebuild(r)
  <2>1. probes' \in [Callers -> Seq(ProbeState)]
    BY <1>0, <1>3, RebuildIs, SnapshotsType
  <2>2. FleetTypeOK'
    BY <1>0, <1>3, <2>1, RebuildIs DEF FleetTypeOK, ProbeState
  <2>3. QED
    BY <1>3, <2>2, RebuildIs DEF RouterTypeOK, RouterElse
<1>4. CASE Install(r)
  <2>1. probes' \in [Callers -> Seq(ProbeState)]
    <3>1. probes \in [Callers -> Seq(ProbeState)] /\ <<>> \in Seq(ProbeState)
      BY <1>0 DEF FleetTypeOK, ProbeState
    <3>2. QED
      BY <1>4, <3>1, Installed
  <2>2. FleetTypeOK'
    BY <1>0, <1>4, <2>1, Installed DEF FleetTypeOK, ProbeState
  <2>3. req' \in [Requests -> Request]
    BY <1>4, InstallIs
  <2>4. QED
    BY <1>4, <2>2, <2>3, Installed, TableType DEF RouterTypeOK
<1>5. CASE CloseGroup(r)
  <2>1. inflight' \in [Names \cup {ListName} -> Group \cup {NoGroup}]
    <3> DEFINE g == inflight[req[r].name]
    <3>1. g \in Group
      BY <1>0, <1>5, CloseGroupIs DEF LeaderInv, At
    <3>2. [g EXCEPT !.closed = TRUE] \in Group
      BY <3>1 DEF Group
    <3>3. QED
      BY <1>0, <1>5, <3>2, CloseGroupIs
  <2>2. QED
    BY <1>0, <1>5, <2>1, CloseGroupIs, FleetKept DEF RouterTypeOK
<1>6. CASE ReleaseGroup(r)
  <2>1. inflight' \in [Names \cup {ListName} -> Group \cup {NoGroup}]
    BY <1>0, <1>6, ReleaseGroupIs
  <2>2. QED
    BY <1>0, <1>6, <2>1, ReleaseGroupIs, FleetKept DEF RouterTypeOK
<1>7. CASE Invalidate(r)
  <2>1. table' \in [Names -> Target \cup {NoTarget}]
    BY <1>0, <1>7, InvalidateIs
  <2>2. fresh' \in BOOLEAN
    BY <1>7 DEF Invalidate
  <2>3. QED
    BY <1>0, <1>7, <2>1, <2>2, InvalidateIs, FleetKept DEF RouterTypeOK
<1>8. QED
  BY <1>1, <1>2, <1>3, <1>4, <1>5, <1>6, <1>7 DEF Serve

LEMMA RouterTypeStep ==
    ASSUME RouterTypeOK, AttemptInv, LeaderInv, [Next]_vars
    PROVE  RouterTypeOK'
<1>0. FleetTypeOK
  BY DEF RouterTypeOK
<1>1. CASE LocalMoves
  <2>1. local' \in RunningServer \cup {NoServer}
    BY <1>1 DEF LocalMoves, RouterTypeOK, RunningServer
  <2>2. moves' \in 0..MaxMoves
    BY <1>1, RouterAssumption DEF LocalMoves, RouterTypeOK
  <2>3. QED
    BY <1>0, <1>1, <2>1, <2>2, FleetKept DEF LocalMoves, RouterTypeOK
<1>2. CASE MachinesMove
  <2>1. FleetTypeOK'
    BY <1>0, <1>2, MachinesType DEF MachinesMove
  <2>2. moves' \in 0..MaxMoves
    BY <1>2, RouterAssumption DEF MachinesMove, RouterTypeOK
  <2>3. QED
    BY <1>2, <2>1, <2>2 DEF MachinesMove, RouterTypeOK
<1>3. CASE RegistryMoves
  <2>1. FleetTypeOK'
    BY <1>0, <1>3, FleetTypeStep DEF RegistryMoves, FleetNext
  <2>2. QED
    BY <1>3, <2>1 DEF RegistryMoves, routerVars, RouterTypeOK
<1>4. CASE TableAges
  BY <1>0, <1>4, FleetKept DEF TableAges, RouterTypeOK
<1>5. ASSUME NEW r \in Requests, Serve(r) PROVE RouterTypeOK'
  BY <1>5, ServeType
<1>6. CASE UNCHANGED vars
  BY <1>0, <1>6, FleetKept DEF vars, routerVars, RouterTypeOK
<1>7. QED
  BY <1>1, <1>2, <1>3, <1>4, <1>5, <1>6 DEF Next

-----------------------------------------------------------------------------
(* Attempts, groups and renewals.                                          *)

\* After an invalidate, a table that is not too old was installed since.
RenewedInv ==
    \A r \in Requests :
        req[r].attempt = 2 /\ (fresh \/ At(r, "send")) => req[r].renewed

RouterInv == RouterTypeOK /\ AttemptInv /\ LeaderInv /\ RenewedInv /\ ListedIsRouted

\* What is no request's step leaves them alone; the table can only get too old.
LEMMA OtherSteps ==
    ASSUME LocalMoves \/ MachinesMove \/ RegistryMoves \/ TableAges \/ UNCHANGED vars
    PROVE  /\ UNCHANGED <<req, inflight, table, entries>>
           /\ fresh' => fresh
BY DEF LocalMoves, MachinesMove, RegistryMoves, TableAges, vars, routerVars

LEMMA ServeAttempt ==
    ASSUME RouterTypeOK, AttemptInv, NEW r \in Requests, Serve(r)
    PROVE  AttemptInv'
<1>1. /\ req \in [Requests -> Request]
      /\ \A q \in Requests : req[q].attempt \in 1..2 /\ req[q].sent \in 0..2
  BY DEF RouterTypeOK, Request
<1>2. CASE Accept(r)
  BY <1>1, <1>2, AcceptIs DEF Accept, AttemptInv, At, Others, Keeps, Returned
<1>3. CASE Lookup(r)
  BY <1>1, <1>3, LookupIs DEF Lookup, AttemptInv, At, Others, Keeps, Returned, Found, Routed
<1>4. CASE LookupAgain(r)
  BY <1>1, <1>4, LookupAgainIs DEF LookupAgain, AttemptInv, At, Others, Returned, Found, Routed
<1>5. CASE Refresh(r)
  BY <1>1, <1>5, RefreshIs DEF Refresh, AttemptInv, At, Others, Keeps
<1>6. CASE Rebuild(r)
  BY <1>1, <1>6, RebuildIs DEF AttemptInv, At, Others
<1>7. CASE Install(r)
  BY <1>1, <1>7, InstallIs DEF AttemptInv, At
<1>8. CASE CloseGroup(r)
  <2>1. \A q \in Requests :
            /\ Keeps(q)
            /\ (q = r /\ req[q].pc = "close" /\ req'[q].pc = "release")
               \/ req'[q].pc = req[q].pc
               \/ (req[q].pc = "wait" /\ req'[q].pc = "again")
    BY <1>8, CloseGroupIs DEF At
  <2>2. QED
    BY <2>1 DEF AttemptInv, At, Keeps
<1>9. CASE ReleaseGroup(r)
  BY <1>1, <1>9, ReleaseGroupIs DEF AttemptInv, At, Others, Keeps
<1>10. CASE Forward(r)
  BY <1>1, <1>10, ForwardIs DEF AttemptInv, At, Others, Returned
<1>11. CASE Invalidate(r)
  BY <1>1, <1>11, InvalidateIs DEF AttemptInv, At, Others
<1>12. QED
  BY <1>2, <1>3, <1>4, <1>5, <1>6, <1>7, <1>8, <1>9, <1>10, <1>11 DEF Serve

LEMMA ServeLeader ==
    ASSUME RouterTypeOK, AttemptInv, LeaderInv, NEW r \in Requests, Serve(r)
    PROVE  LeaderInv'
<1>1. /\ req \in [Requests -> Request]
      /\ \A q \in Requests : req[q].name \in Names \cup {ListName}
      /\ inflight \in [Names \cup {ListName} -> Group \cup {NoGroup}]
  BY DEF RouterTypeOK, Request
<1>2. CASE Accept(r)
  BY <1>1, <1>2, AcceptIs DEF LeaderInv, Others, Keeps, Returned, RouterElse
<1>3. CASE Lookup(r)
  BY <1>1, <1>3, LookupIs DEF LeaderInv, Others, Keeps, Returned, Found, Routed, RouterElse
<1>4. CASE LookupAgain(r)
  BY <1>1, <1>4, LookupAgainIs DEF LeaderInv, Others, Returned, Found, Routed, RouterElse
<1>5. CASE Refresh(r)
  <2>1. CASE UNCHANGED inflight /\ req'[r].pc \in {"wait", "again"}
    <3>1. req'[r].pc \notin {"rebuild", "probing", "close", "release"}
      BY <2>1
    <3>2. Others(r)
      BY <1>5, RefreshIs
    <3>3. QED
      BY <2>1, <3>1, <3>2 DEF LeaderInv, Others
  <2>2. CASE /\ req'[r].pc = "rebuild" /\ inflight[req[r].name] = NoGroup
             /\ inflight' = [inflight EXCEPT ![req[r].name] = [leader |-> r, closed |-> FALSE]]
    <3>1. [leader |-> r, closed |-> FALSE] # NoGroup
      <4>1. [leader |-> r, closed |-> FALSE] \in Group
        BY DEF Group
      <4>2. QED
        BY <4>1, RouterAssumption
    <3>2. QED
      BY <1>1, <1>5, <2>2, <3>1, RefreshIs DEF LeaderInv, Others, Keeps
  <2>3. QED
    BY <1>5, <2>1, <2>2, RefreshIs
<1>6. CASE Rebuild(r)
  BY <1>1, <1>6, RebuildIs DEF LeaderInv, Others, RouterElse, At
<1>7. CASE Install(r)
  BY <1>1, <1>7, InstallIs, Installed DEF LeaderInv, At
<1>8. CASE CloseGroup(r)
  <2> DEFINE n == req[r].name
  <2>1. inflight[n] \in Group
    BY <1>1, <1>8, CloseGroupIs DEF LeaderInv, At
  <2>2. /\ [inflight[n] EXCEPT !.closed = TRUE] \in Group
        /\ [inflight[n] EXCEPT !.closed = TRUE].leader = inflight[n].leader
    BY <2>1 DEF Group
  <2>3. \A m \in Names \cup {ListName} : inflight[m] # NoGroup =>
            inflight'[m] # NoGroup /\ inflight'[m].leader = inflight[m].leader
    <3> HIDE DEF n
    <3>1. inflight' = [inflight EXCEPT ![n] = [inflight[n] EXCEPT !.closed = TRUE]]
      BY <1>1, <1>8, CloseGroupIs DEF n
    <3>2. [inflight[n] EXCEPT !.closed = TRUE] # NoGroup
      BY <2>2, RouterAssumption
    <3>3. QED
      BY <1>1, <2>2, <3>1, <3>2
  <2>4. \A q \in Requests :
            /\ req'[q].name = req[q].name
            /\ req'[q].pc \in {"rebuild", "probing", "close", "release"} =>
                    req[q].pc \in {"rebuild", "probing", "close", "release"}
    BY <1>8, CloseGroupIs DEF Keeps, At
  <2>5. QED
    BY <1>1, <2>3, <2>4 DEF LeaderInv
<1>9. CASE ReleaseGroup(r)
  BY <1>1, <1>9, ReleaseGroupIs DEF LeaderInv, Others, Keeps, At
<1>10. CASE Forward(r)
  BY <1>1, <1>10, ForwardIs DEF LeaderInv, Others, Returned, RouterElse
<1>11. CASE Invalidate(r)
  BY <1>1, <1>11, InvalidateIs DEF LeaderInv, Others
<1>12. QED
  BY <1>2, <1>3, <1>4, <1>5, <1>6, <1>7, <1>8, <1>9, <1>10, <1>11 DEF Serve

LEMMA ServeRenewed ==
    ASSUME RouterTypeOK, AttemptInv, RenewedInv, NEW r \in Requests, Serve(r)
    PROVE  RenewedInv'
<1>1. req \in [Requests -> Request]
  BY DEF RouterTypeOK
<1>2. CASE Accept(r)
  BY <1>1, <1>2, AcceptIs DEF RenewedInv, At, Others, Keeps, Returned, RouterElse
<1>3. CASE Lookup(r)
  BY <1>1, <1>3, LookupIs DEF RenewedInv, At, Others, Keeps, Returned, Found, Routed, RouterElse
<1>4. CASE LookupAgain(r)
  BY <1>1, <1>4, LookupAgainIs DEF RenewedInv, At, Others, Returned, Found, Routed, RouterElse
<1>5. CASE Refresh(r)
  BY <1>1, <1>5, RefreshIs DEF RenewedInv, At, Others, Keeps
<1>6. CASE Rebuild(r)
  BY <1>1, <1>6, RebuildIs DEF RenewedInv, At, Others, RouterElse
<1>7. CASE Install(r)
  BY <1>1, <1>7, InstallIs DEF RenewedInv
<1>8. CASE CloseGroup(r)
  <2>1. \A q \in Requests : Keeps(q) /\ (At(q, "send")' => At(q, "send"))
    BY <1>8, CloseGroupIs DEF At
  <2>2. QED
    BY <1>8, <2>1, CloseGroupIs DEF RenewedInv, Keeps
<1>9. CASE ReleaseGroup(r)
  BY <1>1, <1>9, ReleaseGroupIs DEF RenewedInv, At, Others, Keeps
<1>10. CASE Forward(r)
  BY <1>1, <1>10, ForwardIs DEF RenewedInv, At, Others, Returned, RouterElse
<1>11. CASE Invalidate(r)
  BY <1>1, <1>11, InvalidateIs DEF RenewedInv, At, Others
<1>12. QED
  BY <1>2, <1>3, <1>4, <1>5, <1>6, <1>7, <1>8, <1>9, <1>10, <1>11 DEF Serve

LEMMA ServeListed ==
    ASSUME RouterTypeOK, AttemptInv, ListedIsRouted, NEW r \in Requests, Serve(r)
    PROVE  ListedIsRouted'
<1>1. CASE Install(r)
  <2> DEFINE sources == Sources(req[r].near, ReadSnaps(r))
  <2>1. req[r].near \in RunningServer \cup {NoServer}
    BY DEF RouterTypeOK, Request
  <2>2. DOMAIN sources \subseteq Nat /\ \A i \in DOMAIN sources : WellTyped(sources[i])
    BY <1>1, <2>1, Installed, SnapsType, SourcesAre, SourcesType
  <2>3. ASSUME NEW n \in Listed(sources) PROVE n \in Names /\ FirstTarget(sources, n) # NoTarget
    <3> HIDE DEF sources
    <3>1. PICK i \in DOMAIN sources : n = sources[i].id
      BY <2>3 DEF Listed
    <3>2. n \in sources[i].keys /\ n \in Names
      BY <2>2, <3>1 DEF WellTyped
    <3>3. PICK j \in DOMAIN sources : FirstTarget(sources, n) = sources[j].target
      BY <2>2, <3>2, FirstTargetIs
    <3>4. QED
      BY <2>2, <3>2, <3>3, RouterAssumption DEF WellTyped
  <2>4. QED
    <3> HIDE DEF sources
    <3> QED
      BY <1>1, <2>3, Installed DEF ListedIsRouted, sources
<1>2. CASE Invalidate(r)
  BY <1>2, InvalidateIs DEF ListedIsRouted
<1>3. CASE Accept(r) \/ Lookup(r) \/ LookupAgain(r) \/ Rebuild(r) \/ Forward(r)
  BY <1>3, AcceptIs, LookupIs, LookupAgainIs, RebuildIs, ForwardIs DEF ListedIsRouted, RouterElse
<1>4. CASE Refresh(r) \/ CloseGroup(r) \/ ReleaseGroup(r)
  BY <1>4, RefreshIs, CloseGroupIs, ReleaseGroupIs DEF ListedIsRouted
<1>5. QED
  BY <1>1, <1>2, <1>3, <1>4 DEF Serve

LEMMA RouterInvInit == Init => RouterInv
<1> SUFFICES ASSUME Init PROVE RouterInv
  OBVIOUS
<1>1. \A r \in Requests : /\ At(r, "new") /\ req[r].attempt = 1 /\ req[r].sent = 0
                          /\ req[r].reply = NoReply
  BY DEF Init, At
<1>2. fresh = FALSE
  BY DEF Init
<1>3. QED
  BY <1>1, <1>2, RouterTypeInit
     DEF RouterInv, AttemptInv, LeaderInv, RenewedInv, ListedIsRouted, At

LEMMA RouterInvStep == RouterInv /\ [Next]_vars => RouterInv'
<1> SUFFICES ASSUME RouterInv, [Next]_vars PROVE RouterInv'
  OBVIOUS
<1>1. RouterTypeOK'
  BY RouterTypeStep DEF RouterInv
<1>2. ASSUME NEW r \in Requests, Serve(r)
      PROVE  AttemptInv' /\ LeaderInv' /\ RenewedInv' /\ ListedIsRouted'
  BY <1>2, ServeAttempt, ServeLeader, ServeRenewed, ServeListed DEF RouterInv
<1>3. CASE LocalMoves \/ MachinesMove \/ RegistryMoves \/ TableAges \/ UNCHANGED vars
  <2>1. UNCHANGED <<req, inflight, table, entries>> /\ (fresh' => fresh)
    BY <1>3, OtherSteps
  <2>2. QED
    BY <2>1, <1>1 DEF RouterInv, AttemptInv, LeaderInv, RenewedInv, ListedIsRouted, At
<1>4. QED
  BY <1>1, <1>2, <1>3 DEF Next, RouterInv

LEMMA RouterInvCorrect == Spec => []RouterInv
BY RouterInvInit, RouterInvStep, PTL DEF Spec

\* Every variable keeps its type: a table entry is a place on a known machine, and no
\* request makes a third attempt (proxy.go:152-219, handler.go:215-241).
THEOREM RouterTypeCorrect == Spec => []RouterTypeOK
BY RouterInvCorrect, PTL DEF RouterInv

\* No two requests rebuild the table for one name at the same time (proxy.go:118-141).
THEOREM SingleFlightCorrect == Spec => []SingleFlight
<1>1. RouterInv => SingleFlight
  <2> SUFFICES ASSUME RouterInv, NEW n \in Names \cup {ListName}
               PROVE  Cardinality({r \in Requests :
                        /\ req[r].name = n
                        /\ req[r].pc \in {"rebuild", "probing", "close"}}) <= 1
    BY DEF SingleFlight
  <2> DEFINE S == {r \in Requests : /\ req[r].name = n
                                    /\ req[r].pc \in {"rebuild", "probing", "close"}}
  <2>1. \A q, r \in S : q = r
    BY DEF RouterInv, LeaderInv
  <2>2. CASE S = {}
    BY <2>2, FS_EmptySet
  <2>3. CASE S # {}
    <3>1. PICK r \in S : S = {r}
      BY <2>1, <2>3
    <3>2. QED
      BY <3>1, FS_Singleton
  <2>4. QED
    BY <2>2, <2>3
<1>2. QED
  BY <1>1, RouterInvCorrect, PTL

\* Every name that GET /v1/models lists from a table that is not too old resolves in it
\* (proxy.go:143-150, 192-219).
THEOREM ListedIsRoutedCorrect == Spec => []ListedIsRouted
BY RouterInvCorrect, PTL DEF RouterInv

\* The second attempt only goes to a target of a table that was installed after the
\* first one failed (handler.go:217-225).
THEOREM RetryIsRenewedCorrect == Spec => []RetryIsRenewed
<1>1. RouterInv => RetryIsRenewed
  BY DEF RouterInv, RenewedInv, RetryIsRenewed
<1>2. QED
  BY <1>1, RouterInvCorrect, PTL

-----------------------------------------------------------------------------
(* Waiting for a rebuild.                                                  *)

Leading == {"rebuild", "probing", "close"}

\* A group in flight has a leader, who has not closed it before "release".
GroupInv ==
    \A n \in Names \cup {ListName} : inflight[n] # NoGroup =>
        LET l == inflight[n].leader IN
        /\ req[l].name = n
        /\ \/ req[l].pc \in Leading /\ ~inflight[n].closed
           \/ At(l, "release") /\ inflight[n].closed

WaitInv ==
    \A r \in Requests : At(r, "wait") =>
        inflight[req[r].name] # NoGroup /\ ~inflight[req[r].name].closed

\* A step by somebody who leads no group, and waits for none afterwards.
LEMMA AsideKeepsGroups ==
    ASSUME RouterTypeOK, GroupInv, WaitInv, NEW r \in Requests, Others(r), UNCHANGED inflight,
           req[r].pc \notin Leading \cup {"release"}, req'[r].name = req[r].name,
           req'[r].pc = "wait" =>
                inflight[req[r].name] # NoGroup /\ ~inflight[req[r].name].closed
    PROVE  GroupInv' /\ WaitInv'
<1>1. \A n \in Names \cup {ListName} : inflight[n] # NoGroup =>
         inflight[n].leader \in Requests \ {r}
  BY DEF RouterTypeOK, Group, GroupInv, At
<1>2. GroupInv'
  BY <1>1 DEF GroupInv, Others, At
<1>3. WaitInv'
  BY DEF WaitInv, Others, At
<1>4. QED
  BY <1>2, <1>3

LEMMA ServeGroups ==
    ASSUME RouterInv, GroupInv, WaitInv, NEW r \in Requests, Serve(r)
    PROVE  GroupInv' /\ WaitInv'
<1>0. RouterTypeOK /\ AttemptInv /\ LeaderInv
  BY DEF RouterInv
<1>1. /\ req \in [Requests -> Request]
      /\ \A q \in Requests : req[q].name \in Names \cup {ListName}
      /\ inflight \in [Names \cup {ListName} -> Group \cup {NoGroup}]
  BY <1>0 DEF RouterTypeOK, Request
<1>g. \A n \in Names \cup {ListName} : inflight[n] # NoGroup => inflight[n] \in Group
  BY <1>1
<1>l. \A n \in Names \cup {ListName} : inflight[n] # NoGroup => inflight[n].leader \in Requests
  BY <1>g DEF Group
<1>2. CASE Accept(r) \/ Lookup(r) \/ LookupAgain(r) \/ Forward(r) \/ Invalidate(r)
  <2>1. Others(r) /\ UNCHANGED inflight /\ req'[r].name = req[r].name /\ req'[r].pc # "wait"
    BY <1>0, <1>2, AcceptIs, LookupIs, LookupAgainIs, ForwardIs, InvalidateIs
    DEF Keeps, Returned, Found, Routed, RouterElse
  <2>2. req[r].pc \notin Leading \cup {"release"}
    BY <1>2 DEF Accept, Lookup, LookupAgain, Forward, Invalidate, At, Leading
  <2>3. QED
    BY <1>0, <2>1, <2>2, AsideKeepsGroups
<1>3. CASE Refresh(r)
  <2>0. Others(r) /\ Keeps(r) /\ At(r, "refresh")
    BY <1>0, <1>3, RefreshIs DEF Refresh
  <2>1. CASE inflight[req[r].name] # NoGroup
    <3>1. UNCHANGED inflight
      BY <1>3, <2>1 DEF Refresh
    <3>2. req'[r].pc = "wait" => ~inflight[req[r].name].closed
      BY <1>1, <1>3, <2>1 DEF Refresh, Goto, Request
    <3>3. QED
      BY <1>0, <2>0, <2>1, <3>1, <3>2, AsideKeepsGroups DEF Keeps, At, Leading
  <2>2. CASE inflight[req[r].name] = NoGroup
    <3> DEFINE new == [leader |-> r, closed |-> FALSE]
    <3>0. new \in Group
      BY DEF Group
    <3>1. new \in Group /\ new # NoGroup /\ new.leader = r /\ new.closed = FALSE
      BY <3>0, RouterAssumption
    <3>2. inflight' = [inflight EXCEPT ![req[r].name] = new] /\ req'[r].pc = "rebuild"
      BY <1>0, <1>1, <1>3, <2>2, RefreshIs DEF Refresh, Goto, Request
    <3> HIDE DEF new
    <3>3. GroupInv'
      <4> SUFFICES ASSUME NEW n \in Names \cup {ListName}, inflight'[n] # NoGroup
                   PROVE  LET l == inflight'[n].leader IN
                          /\ req'[l].name = n
                          /\ \/ req'[l].pc \in Leading /\ ~inflight'[n].closed
                             \/ req'[l].pc = "release" /\ inflight'[n].closed
        BY DEF GroupInv, At
      <4>1. CASE n = req[r].name
        <5>1. inflight'[n] = new
          BY <1>1, <3>2, <4>1
        <5>2. req'[r].name = n /\ req'[r].pc \in Leading
          BY <2>0, <3>2, <4>1 DEF Keeps, Leading
        <5>3. QED
          BY <3>1, <5>1, <5>2
      <4>2. CASE n # req[r].name
        <5>1. inflight'[n] = inflight[n] /\ inflight[n].leader \in Requests \ {r}
          BY <1>1, <1>l, <2>0, <3>2, <4>2 DEF GroupInv, At, Leading
        <5>2. QED
          BY <2>0, <5>1 DEF GroupInv, Others, At
      <4>3. QED
        BY <4>1, <4>2
    <3>4. WaitInv'
      BY <1>1, <2>0, <2>2, <3>1, <3>2 DEF WaitInv, Others, Keeps, At
    <3>5. QED
      BY <3>3, <3>4
  <2>3. QED
    BY <2>1, <2>2
<1>4. CASE Rebuild(r) \/ Install(r)
  <2>1. /\ UNCHANGED inflight
        /\ \A q \in Requests : req'[q].name = req[q].name
        /\ \A q \in Requests : \/ req'[q].pc = req[q].pc
                               \/ req[q].pc \in Leading /\ req'[q].pc \in Leading
    <3>1. CASE Rebuild(r)
      BY <1>0, <3>1, RebuildIs DEF Others, RouterElse, At, Leading
    <3>2. CASE Install(r)
      BY <1>0, <3>2, InstallIs, Installed DEF At, Leading
    <3>3. QED
      BY <1>4, <3>1, <3>2
  <2>2. \A q \in Requests : (req'[q].pc = "wait" <=> req[q].pc = "wait")
                          /\ (req'[q].pc = "release" <=> req[q].pc = "release")
                          /\ (req'[q].pc \in Leading <=> req[q].pc \in Leading)
    BY <2>1 DEF Leading
  <2>3. GroupInv'
    BY <1>l, <2>1, <2>2 DEF GroupInv, At
  <2>4. WaitInv'
    BY <2>1, <2>2 DEF WaitInv, At
  <2>5. QED
    BY <2>3, <2>4
<1>5. CASE CloseGroup(r)
  <2> DEFINE g == [inflight[req[r].name] EXCEPT !.closed = TRUE]
  <2>0. At(r, "close") /\ inflight[req[r].name] # NoGroup /\ inflight[req[r].name].leader = r
    BY <1>0, <1>5, CloseGroupIs DEF LeaderInv, At
  <2>1. g \in Group /\ g.leader = r /\ g.closed
    BY <1>1, <1>g, <2>0 DEF Group
  <2>2. inflight' = [inflight EXCEPT ![req[r].name] = g]
    BY <1>0, <1>5, CloseGroupIs
  <2>3. /\ req'[r].pc = "release" /\ \A q \in Requests : req'[q].name = req[q].name
        /\ \A q \in Requests \ {r} :
              \/ req'[q].pc = req[q].pc /\ ~(req[q].pc = "wait" /\ req[q].name = req[r].name)
              \/ req[q].pc = "wait" /\ req'[q].pc = "again"
    BY <1>0, <1>5, CloseGroupIs DEF Keeps
  <2> HIDE DEF g
  <2>4. GroupInv'
    <3> SUFFICES ASSUME NEW n \in Names \cup {ListName}, inflight'[n] # NoGroup
                 PROVE  LET l == inflight'[n].leader IN
                        /\ req'[l].name = n
                        /\ \/ req'[l].pc \in Leading /\ ~inflight'[n].closed
                           \/ req'[l].pc = "release" /\ inflight'[n].closed
      BY DEF GroupInv, At
    <3>1. CASE n = req[r].name
      BY <1>1, <2>1, <2>2, <2>3, <3>1
    <3>2. CASE n # req[r].name
      <4>1. inflight'[n] = inflight[n] /\ inflight[n].leader \in Requests
        BY <1>1, <1>l, <2>2, <3>2
      <4>2. inflight[n].leader # r /\ req[inflight[n].leader].pc # "wait"
        BY <3>2, <4>1 DEF GroupInv, At, Leading
      <4>3. QED
        BY <2>3, <4>1, <4>2 DEF GroupInv, At
    <3>3. QED
      BY <3>1, <3>2
  <2>5. WaitInv'
    <3> SUFFICES ASSUME NEW q \in Requests, req'[q].pc = "wait"
                 PROVE  inflight'[req[q].name] # NoGroup /\ ~inflight'[req[q].name].closed
      BY <2>3 DEF WaitInv, At
    <3>1. req[q].pc = "wait" /\ req[q].name # req[r].name
      BY <2>3
    <3>2. QED
      BY <1>1, <2>2, <3>1 DEF WaitInv, At
  <2>6. QED
    BY <2>4, <2>5
<1>6. CASE ReleaseGroup(r)
  <2>0. /\ At(r, "release") /\ req'[r].pc = "again" /\ Others(r)
        /\ req'[r].name = req[r].name
        /\ inflight' = [inflight EXCEPT ![req[r].name] = NoGroup]
    BY <1>0, <1>6, ReleaseGroupIs DEF Keeps
  <2>1. inflight[req[r].name] # NoGroup /\ inflight[req[r].name].leader = r
        /\ inflight[req[r].name].closed
    BY <1>0, <1>1, <2>0 DEF LeaderInv, GroupInv, At, Leading
  <2>2. \A n \in (Names \cup {ListName}) \ {req[r].name} :
           inflight[n] # NoGroup => inflight[n].leader \in Requests \ {r}
    BY <1>l DEF GroupInv
  <2>3. GroupInv'
    BY <1>1, <2>0, <2>2 DEF GroupInv, Others, At
  <2>4. WaitInv'
    BY <1>1, <2>0, <2>1 DEF WaitInv, Others, At
  <2>5. QED
    BY <2>3, <2>4
<1>7. QED
  BY <1>2, <1>3, <1>4, <1>5, <1>6 DEF Serve

LEMMA GroupsCorrect == Spec => [](GroupInv /\ WaitInv)
<1>1. Init => GroupInv /\ WaitInv
  BY DEF Init, GroupInv, WaitInv, At
<1>2. RouterInv /\ GroupInv /\ WaitInv /\ [Next]_vars => (GroupInv /\ WaitInv)'
  <2> SUFFICES ASSUME RouterInv, GroupInv, WaitInv, [Next]_vars PROVE GroupInv' /\ WaitInv'
    OBVIOUS
  <2>1. CASE LocalMoves \/ MachinesMove \/ RegistryMoves \/ TableAges \/ UNCHANGED vars
    <3>1. UNCHANGED <<req, inflight>>
      BY <2>1, OtherSteps
    <3>2. QED
      BY <3>1 DEF GroupInv, WaitInv, At
  <2>2. QED
    BY <2>1, ServeGroups DEF Next
<1>3. QED
  BY <1>1, <1>2, RouterInvCorrect, PTL DEF Spec

\* Nobody waits for a rebuild that is over or that nobody makes: a request never sleeps
\* through the close of the group it joined (proxy.go:118-141).
THEOREM WaitersAreLedCorrect == Spec => []WaitersAreLed
<1>1. RouterInv /\ GroupInv /\ WaitInv => WaitersAreLed
  <2> SUFFICES ASSUME RouterInv, GroupInv, WaitInv, NEW r \in Requests, At(r, "wait")
               PROVE  LET g == inflight[req[r].name] IN
                      /\ g # NoGroup /\ ~g.closed
                      /\ req[g.leader].name = req[r].name
                      /\ req[g.leader].pc \in {"rebuild", "probing", "close"}
    BY DEF WaitersAreLed
  <2>1. req[r].name \in Names \cup {ListName}
    BY DEF RouterInv, RouterTypeOK, Request
  <2>2. QED
    BY <2>1 DEF GroupInv, WaitInv, Leading
<1>2. QED
  BY <1>1, RouterInvCorrect, GroupsCorrect, PTL

-----------------------------------------------------------------------------
(* How far a request can go.                                               *)

\* The steps a handler has ahead of it in one attempt, at most.
Ahead(pc) ==
    CASE pc = "new" -> 11 [] pc = "lookup" -> 10 [] pc = "refresh" -> 9
      [] pc \in {"wait", "rebuild"} -> 8 [] pc = "probing" -> 7 [] pc = "close" -> 6
      [] pc = "release" -> 5 [] pc = "again" -> 4 [] pc = "send" -> 3
      [] pc = "invalidate" -> 2 [] OTHER -> 0

\* The steps it has ahead of it, the second attempt's included.
Left(r) ==
    IF At(r, "done") THEN 0 ELSE Ahead(req[r].pc) + (IF req[r].attempt = 1 THEN 11 ELSE 0)

\* Further on in the same attempt.
LEMMA LeftFalls ==
    ASSUME NEW r \in Requests, req'[r].pc = "done" \/ req'[r].attempt = req[r].attempt,
           ~At(r, "done"), Ahead(req'[r].pc) < Ahead(req[r].pc),
           NEW from \in Pc, NEW to \in Pc, At(r, from), req'[r].pc = to
    PROVE  Left(r)' < Left(r)
<1>1. Ahead(from) \in Nat /\ Ahead(to) \in Nat
  BY DEF Ahead
<1>2. CASE to = "done"
  BY <1>1, <1>2 DEF Left, At, Ahead
<1>3. CASE to # "done"
  BY <1>1, <1>3 DEF Left, At
<1>4. QED
  BY <1>2, <1>3

LEMMA ServeFalls ==
    ASSUME RouterInv, NEW r \in Requests, Serve(r)
    PROVE  Left(r)' < Left(r)
<1>0. RouterTypeOK /\ AttemptInv
  BY DEF RouterInv
<1>1. CASE Accept(r)
  <2>1. At(r, "new") /\ \/ req'[r].pc = "lookup" /\ req'[r].attempt = req[r].attempt
                        \/ req'[r].pc = "done"
    BY <1>0, <1>1, AcceptIs DEF Accept, Keeps, Returned
  <2>2. QED
    BY <2>1, LeftFalls DEF At, Pc, Ahead
<1>2. CASE Lookup(r)
  <2>1. At(r, "lookup") /\ \/ req'[r].pc \in {"refresh", "send"} /\ req'[r].attempt = req[r].attempt
                           \/ req'[r].pc = "done"
    BY <1>0, <1>2, LookupIs DEF Lookup, Keeps, Returned, Found, Routed
  <2>2. QED
    BY <2>1, LeftFalls DEF At, Pc, Ahead
<1>3. CASE LookupAgain(r)
  <2>1. At(r, "again") /\ \/ req'[r].pc = "send" /\ req'[r].attempt = req[r].attempt
                          \/ req'[r].pc = "done"
    BY <1>0, <1>3, LookupAgainIs DEF LookupAgain, Returned, Found, Routed
  <2>2. QED
    BY <2>1, LeftFalls DEF At, Pc, Ahead
<1>4. CASE Refresh(r)
  <2>1. At(r, "refresh") /\ req'[r].pc \in {"wait", "again", "rebuild"}
        /\ req'[r].attempt = req[r].attempt
    BY <1>0, <1>4, RefreshIs DEF Refresh, Keeps
  <2>2. QED
    BY <2>1, LeftFalls DEF At, Pc, Ahead
<1>5. CASE Rebuild(r)
  <2>1. At(r, "rebuild") /\ req'[r].pc = "probing" /\ req'[r].attempt = req[r].attempt
    BY <1>0, <1>5, RebuildIs
  <2>2. QED
    BY <2>1, LeftFalls DEF At, Pc, Ahead
<1>6. CASE Install(r)
  <2>1. At(r, "probing") /\ req'[r].pc = "close" /\ req'[r].attempt = req[r].attempt
    BY <1>0, <1>6, InstallIs
  <2>2. QED
    BY <2>1, LeftFalls DEF At, Pc, Ahead
<1>7. CASE CloseGroup(r)
  <2>1. At(r, "close") /\ req'[r].pc = "release" /\ req'[r].attempt = req[r].attempt
    BY <1>0, <1>7, CloseGroupIs DEF Keeps
  <2>2. QED
    BY <2>1, LeftFalls DEF At, Pc, Ahead
<1>8. CASE ReleaseGroup(r)
  <2>1. At(r, "release") /\ req'[r].pc = "again" /\ req'[r].attempt = req[r].attempt
    BY <1>0, <1>8, ReleaseGroupIs DEF Keeps
  <2>2. QED
    BY <2>1, LeftFalls DEF At, Pc, Ahead
<1>9. CASE Forward(r)
  <2>1. At(r, "send") /\ \/ req'[r].pc = "invalidate" /\ req'[r].attempt = req[r].attempt
                         \/ req'[r].pc = "done"
    BY <1>0, <1>9, ForwardIs DEF Returned
  <2>2. QED
    BY <2>1, LeftFalls DEF At, Pc, Ahead
<1>10. CASE Invalidate(r)
  \* The way back: to the second attempt, which has no way back.
  <2>1. /\ req[r].pc = "invalidate" /\ req[r].attempt = 1
        /\ req'[r].pc = "lookup" /\ req'[r].attempt = 2
    BY <1>0, <1>10, InvalidateIs DEF At, AttemptInv
  <2>2. QED
    BY <2>1 DEF Left, At, Ahead
<1>11. QED
  BY <1>1, <1>2, <1>3, <1>4, <1>5, <1>6, <1>7, <1>8, <1>9, <1>10 DEF Serve

\* What others do leaves a request where it is, or wakes it.
LEMMA OthersLeave ==
    ASSUME RouterInv, NEW r \in Requests, Serve(r), NEW q \in Requests \ {r}
    PROVE  Left(q)' <= Left(q)
<1>0. RouterTypeOK /\ AttemptInv /\ Left(q) \in Nat
  BY DEF RouterInv, Left, Ahead
<1>1. /\ req'[q].attempt = req[q].attempt
      /\ req'[q].pc = req[q].pc \/ (req[q].pc = "wait" /\ req'[q].pc = "again")
  <2>1. CASE Others(r)
    BY <2>1 DEF Others
  <2>2. CASE Install(r)
    BY <1>0, <2>2, InstallIs
  <2>3. CASE CloseGroup(r)
    BY <1>0, <2>3, CloseGroupIs DEF Keeps
  <2>4. QED
    BY <1>0, <2>1, <2>2, <2>3, AcceptIs, LookupIs, LookupAgainIs, RefreshIs, RebuildIs,
       ReleaseGroupIs, ForwardIs, InvalidateIs DEF Serve
<1>2. CASE req'[q].pc = req[q].pc
  <2>1. Left(q)' = Left(q)
    BY <1>1, <1>2 DEF Left, At
  <2>2. QED
    BY <1>0, <2>1
<1>3. CASE req[q].pc = "wait" /\ req'[q].pc = "again"
  BY <1>1, <1>3 DEF Left, At, Ahead
<1>4. QED
  BY <1>1, <1>2, <1>3

\* A request makes at most 22 steps: each one brings it nearer to its end, and nothing
\* that others do sets it back.  Its only way back is the retry, which it takes once
\* (handler.go:203-241).
THEOREM RequestsEnd ==
    Spec => /\ \A r \in Requests : Left(r) <= 22
            /\ [][\A r \in Requests :
                     (Serve(r) => Left(r)' < Left(r)) /\ Left(r)' <= Left(r)]_vars
<1>1. Init => \A r \in Requests : Left(r) <= 22
  <2> SUFFICES ASSUME Init, NEW r \in Requests PROVE Left(r) <= 22
    OBVIOUS
  <2>1. req[r].pc = "new" /\ req[r].attempt = 1
    BY DEF Init
  <2>2. QED
    BY <2>1 DEF Left, At, Ahead
<1>2. ASSUME RouterInv, Next, NEW r \in Requests
      PROVE  (Serve(r) => Left(r)' < Left(r)) /\ Left(r)' <= Left(r)
  <2>0. Left(r) \in Nat /\ Left(r)' \in Nat
    BY DEF Left, Ahead
  <2>1. CASE LocalMoves \/ MachinesMove \/ RegistryMoves \/ TableAges
    <3>1. UNCHANGED req
      BY <2>1, OtherSteps
    <3>2. Left(r)' = Left(r)
      BY <3>1 DEF Left, At
    <3>3. ~Serve(r)
      BY <1>2, <2>0, <3>2, ServeFalls
    <3>4. QED
      BY <2>0, <3>2, <3>3
  <2>2. ASSUME NEW q \in Requests, Serve(q) PROVE (Serve(r) => Left(r)' < Left(r)) /\ Left(r)' <= Left(r)
    BY <1>2, <2>0, <2>2, ServeFalls, OthersLeave
  <2>3. QED
    BY <1>2, <2>1, <2>2 DEF Next
<1>3. RouterInv /\ [Next]_vars =>
        [\A r \in Requests : (Serve(r) => Left(r)' < Left(r)) /\ Left(r)' <= Left(r)]_vars
  BY <1>2
<1>4. QED
  BY <1>1, <1>3, RouterInvCorrect, PTL DEF Spec

-----------------------------------------------------------------------------
(* The registry under the proxy.                                           *)

LEMMA RouterBlameStep ==
    ASSUME RouterInv, BlameInv, [Next]_vars
    PROVE  BlameInv'
<1>0. RouterTypeOK /\ FleetTypeOK
  BY DEF RouterInv, RouterTypeOK
<1>1. CASE UNCHANGED fleetVars \/ Machines \/ Registry
  BY <1>0, <1>1, BlameStep DEF FleetNext
<1>2. ASSUME NEW r \in Requests, Rebuild(r) PROVE BlameInv'
  <2>1. /\ \A d \in Callers \ {r} : probes'[d] = probes[d]
        /\ \A i \in DOMAIN probes'[r] : probes'[r][i].at = "look"
    BY <1>0, <1>2, SnapshotsType DEF Rebuild, Callers, Requests
  <2>2. UNCHANGED <<remote, cache, gone, flaky>>
    BY <1>2 DEF Rebuild
  <2>3. QED
    BY <2>1, <2>2 DEF BlameInv, Offlined, Blamed
<1>3. ASSUME NEW r \in Requests, Install(r) PROVE BlameInv'
  <2>1. /\ \A d \in Callers \ {r} : probes'[d] = probes[d]
        /\ DOMAIN probes'[r] = {}
    <3>1. probes' = [probes EXCEPT ![r] = <<>>] /\ r \in Callers /\ DOMAIN probes = Callers
      BY <1>0, <1>3, Installed DEF FleetTypeOK, Callers, Requests
    <3>2. probes'[r] = <<>> /\ DOMAIN <<>> = {}
      BY <3>1
    <3>3. QED
      BY <3>1, <3>2
  <2>2. UNCHANGED <<remote, cache, gone, flaky>>
    BY <1>3 DEF Install
  <2>3. QED
    BY <2>1, <2>2 DEF BlameInv, Offlined, Blamed
<1>4. ASSUME NEW r \in Requests, Serve(r), ~Rebuild(r), ~Install(r) PROVE UNCHANGED fleetVars
  BY <1>4 DEF Serve, Accept, Lookup, LookupAgain, Refresh, CloseGroup, ReleaseGroup, Forward,
              Invalidate
<1>5. CASE LocalMoves \/ MachinesMove \/ RegistryMoves \/ TableAges \/ UNCHANGED vars
  BY <1>1, <1>5 DEF LocalMoves, MachinesMove, RegistryMoves, TableAges, vars
<1>6. QED
  BY <1>1, <1>2, <1>3, <1>4, <1>5 DEF Next

\* The rebuilds of the routing table share the cache with the views, whose clients may
\* hang up in the middle of a probe: still no rebuild, and no view that somebody waits
\* for, takes a healthy worker for offline and its models out of the table
\* (fleet.go:173-222, proxy.go:152-187).
THEOREM HealthyNotOfflineInRouter == Spec => []HealthyNotOffline
<1>1. Init => BlameInv
  BY DEF Init, FleetInit, BlameInv, Remote
<1>2. RouterInv /\ BlameInv /\ [Next]_vars => BlameInv'
  BY RouterBlameStep
<1>3. BlameInv => HealthyNotOffline
  BY DEF BlameInv, HealthyNotOffline, Offlined
<1>4. QED
  BY <1>1, <1>2, <1>3, RouterInvCorrect, PTL DEF Spec

-----------------------------------------------------------------------------
(* The proxy implements Exchange.                                          *)

sentBar == [r \in Requests |-> req[r].sent]
answerBar == [r \in Requests |-> req[r].reply]

\* No step but one of r's makes an attempt or answers.
LEMMA QuietStep ==
    ASSUME \A q \in Requests : req'[q].sent = req[q].sent /\ req'[q].reply = req[q].reply
    PROVE  UNCHANGED Exchanges!vars
BY DEF Exchanges!vars

LEMMA BarChange ==
    ASSUME NEW r \in Requests, Others(r), NEW n, NEW answer,
           req'[r].sent = n, req'[r].reply = answer
    PROVE  /\ sentBar' = [sentBar EXCEPT ![r] = n]
           /\ answerBar' = [answerBar EXCEPT ![r] = answer]
BY DEF Others, sentBar, answerBar

\* A request that returns without an attempt.
LEMMA RefuseStep ==
    ASSUME NEW r \in Requests, Others(r), req[r].reply = NoReply,
           NEW answer \in Replies, Returned(r, req[r].sent, answer)
    PROVE  Exchanges!Refuse(r)
<1>1. /\ sentBar' = [sentBar EXCEPT ![r] = req[r].sent]
      /\ answerBar' = [answerBar EXCEPT ![r] = answer]
  BY BarChange DEF Returned
<1>2. sentBar' = sentBar
  BY <1>1 DEF sentBar
<1>3. answerBar[r] = NoReply
  BY DEF answerBar
<1>4. QED
  BY <1>1, <1>2, <1>3 DEF Exchanges!Refuse, sentBar, answerBar

LEMMA AttemptStep ==
    ASSUME NEW r \in Requests, Others(r), req[r].reply = NoReply, req[r].sent \in 0..1,
           req'[r].sent = req[r].sent + 1,
           \/ req'[r].reply \in Replies
           \/ req'[r].reply = NoReply /\ req[r].sent = 0
    PROVE  Exchanges!Attempt(r)
<1>1. /\ sentBar' = [sentBar EXCEPT ![r] = req[r].sent + 1]
      /\ answerBar' = [answerBar EXCEPT ![r] = req'[r].reply]
  BY BarChange
<1>2. sentBar[r] = req[r].sent /\ answerBar[r] = NoReply
  BY DEF sentBar, answerBar
<1>3. sentBar' = [sentBar EXCEPT ![r] = sentBar[r] + 1] /\ sentBar[r] < 2
  BY <1>1, <1>2
<1>4. CASE req'[r].reply \in Replies
  <2>1. \E a \in Replies : answerBar' = [answerBar EXCEPT ![r] = a]
    BY <1>1, <1>4
  <2>2. QED
    BY <1>2, <1>3, <2>1 DEF Exchanges!Attempt, sentBar, answerBar
<1>5. CASE req'[r].reply = NoReply /\ req[r].sent = 0
  <2>1. answerBar' = answerBar
    BY <1>1, <1>5 DEF answerBar
  <2>2. QED
    BY <1>2, <1>3, <1>5, <2>1 DEF Exchanges!Attempt, sentBar, answerBar
<1>6. QED
  BY <1>4, <1>5

LEMMA ExchangeStep == RouterInv /\ [Next]_vars => [Exchanges!Next]_Exchanges!vars
<1> SUFFICES ASSUME RouterInv, [Next]_vars PROVE [Exchanges!Next]_Exchanges!vars
  OBVIOUS
<1>0. RouterTypeOK /\ AttemptInv
  BY DEF RouterInv
<1>1. ASSUME NEW r \in Requests, Serve(r) PROVE [Exchanges!Next]_Exchanges!vars
  <2>0. Exchanges!Refuse(r) \/ Exchanges!Attempt(r) => Exchanges!Next
    BY DEF Exchanges!Next
  <2>q. Others(r) /\ Keeps(r) => UNCHANGED Exchanges!vars
    BY QuietStep DEF Others, Keeps
  <2>a. req[r].sent \in 0..2 /\ req[r].attempt \in 1..2
    BY <1>0 DEF RouterTypeOK, Request
  <2>1. CASE Accept(r)
    <3>1. req[r].reply = NoReply
      BY <1>0, <2>1 DEF Accept, At, AttemptInv
    <3>2. QED
      BY <1>0, <2>0, <2>q, <2>1, <3>1, AcceptIs, RefuseStep
  <2>2. CASE Lookup(r) \/ LookupAgain(r)
    <3>1. req[r].reply = NoReply
      BY <1>0, <2>2 DEF Lookup, LookupAgain, At, AttemptInv
    <3>2. /\ Others(r)
          /\ \/ Keeps(r)
             \/ \E answer \in Replies : Returned(r, req[r].sent, answer)
             \/ Found(r)
      BY <1>0, <2>2, LookupIs, LookupAgainIs DEF Replies
    <3>3. CASE Found(r) /\ ~\E answer \in Replies : Returned(r, req[r].sent, answer)
      <4>1. Others(r) /\ req'[r].sent = req[r].sent /\ req'[r].reply = req[r].reply
        BY <3>2, <3>3 DEF Found, Routed, Replies
      <4>2. QED
        BY <4>1, QuietStep DEF Others
    <3>4. QED
      BY <2>0, <2>q, <3>1, <3>2, <3>3, RefuseStep
  <2>3. CASE Refresh(r) \/ ReleaseGroup(r)
    BY <1>0, <2>q, <2>3, RefreshIs, ReleaseGroupIs
  <2>4. CASE Rebuild(r)
    BY <1>0, <2>4, RebuildIs, QuietStep DEF Others
  <2>5. CASE Install(r)
    BY <1>0, <2>5, InstallIs, QuietStep
  <2>6. CASE CloseGroup(r)
    BY <1>0, <2>6, CloseGroupIs, QuietStep DEF Keeps
  <2>7. CASE Invalidate(r)
    BY <1>0, <2>7, InvalidateIs, QuietStep DEF Others
  <2>8. CASE Forward(r)
    <3>1. req[r].reply = NoReply /\ req[r].sent = req[r].attempt - 1
      BY <1>0, <2>8 DEF Forward, At, AttemptInv
    <3>2. /\ Others(r) /\ req'[r].sent = req[r].sent + 1
          /\ \/ req'[r].reply \in Replies
             \/ req'[r].reply = NoReply /\ req[r].attempt = 1
      BY <1>0, <2>8, <3>1, ForwardIs DEF Returned
    <3>3. QED
      BY <2>0, <2>a, <3>1, <3>2, AttemptStep
  <2>9. QED
    BY <1>1, <2>1, <2>2, <2>3, <2>4, <2>5, <2>6, <2>7, <2>8 DEF Serve
<1>2. CASE LocalMoves \/ MachinesMove \/ RegistryMoves \/ TableAges \/ UNCHANGED vars
  BY <1>2, OtherSteps, QuietStep
<1>3. QED
  BY <1>1, <1>2 DEF Next

\* Whatever the machines, the registry and the other requests do, each request is an
\* Exchange: it is answered at most once, after at most two attempts, and only an
\* attempt that left its client without an answer is followed by another one
\* (handler.go:215-295).
THEOREM ExchangeCorrect == Spec => ExchangeSpec
<1>1. Init => Exchanges!Init
  BY DEF Init, Exchanges!Init
<1>2. QED
  BY <1>1, ExchangeStep, RouterInvCorrect, PTL DEF Spec, ExchangeSpec, Exchanges!Spec

-----------------------------------------------------------------------------
(* Where requests are sent.                                                *)

\* No worker's config is edited under the model it runs, and no model is configured
\* with port 0, which a launch takes as it is and the proxy takes for the default.
AsConfigured ==
    /\ EditedUrls = {}
    /\ \A m \in Models : ModelConfig[m].port # 0

\* What a snapshot shows active has run there as it is shown.
Seen(snap) ==
    snap.status = "online" /\ snap.running # NoModel =>
        snap.as = "launched" /\ Place(snap.worker.url, snap.running) \in ran

\* A model with this name has listened there.
Backed(n, tgt) ==
    \E p \in ran : p.host = tgt.host /\ p.port = tgt.port /\ n \in NamesOf(p.model)

\* The way of a place from the machines to a request.
RemoteInv == \A u \in Urls : remote[u].as = "launched"
ListeningInv == Listening \subseteq ran
CacheInv == \A u \in Urls : cache[u] # NoSnapshot => Seen(cache[u])
ProbesInv ==
    \A c \in Callers : \A i \in DOMAIN probes[c] :
        probes[c][i].snap # NoSnapshot => Seen(probes[c][i].snap)
NearInv ==
    \A r \in Requests :
        req[r].near # NoServer => Place(LocalMachine, req[r].near.model) \in ran
TableInv == \A n \in Names : table[n] # NoTarget => Backed(n, table[n])
SendInv == \A r \in Requests : At(r, "send") => Backed(req[r].name, req[r].tgt)

RanInv ==
    RemoteInv /\ ListeningInv /\ CacheInv /\ ProbesInv /\ NearInv /\ TableInv /\ SendInv

LEMMA PortsAgree ==
    ASSUME AsConfigured, NEW m \in Models
    PROVE  RoutablePort(ModelConfig[m]) = BoundPort(m)
BY RouterAssumption DEF AsConfigured, RoutablePort, BoundPort

\* Whatever a source of a rebuild leads to has listened there, under all its keys.
LEMMA SourceBacked ==
    ASSUME AsConfigured, RouterTypeOK, RanInv, NEW r \in Requests, SnapshotsDone(r),
           NEW i \in DOMAIN Sources(req[r].near, ReadSnaps(r)),
           NEW n \in Sources(req[r].near, ReadSnaps(r))[i].keys
    PROVE  Backed(n, Sources(req[r].near, ReadSnaps(r))[i].target)
<1> DEFINE near == req[r].near
           snaps == ReadSnaps(r)
           s == Sources(near, snaps)[i]
<1>1. near \in RunningServer \cup {NoServer}
  BY DEF RouterTypeOK, Request
<1>2. /\ DOMAIN snaps \subseteq Nat \ {0}
      /\ \A j \in DOMAIN snaps : snaps[j] \in Snapshot
  BY SnapsType
<1>3. LocalSource(s, near) \/ (i \in DOMAIN snaps /\ WorkerSource(s, snaps[i]))
  BY <1>1, <1>2, SourcesAre
<1>4. ASSUME NEW machine, NEW host, NEW m,
             IsSource(s, machine, host, m, ModelConfig[m]), Place(host, m) \in ran
      PROVE  Backed(n, s.target)
  <2>1. /\ m \in Models /\ s.target.host = host
        /\ s.target.port = RoutablePort(ModelConfig[m])
        /\ s.keys = NamesOf(m)
    <3> HIDE DEF s
    <3> QED
      BY <1>4 DEF IsSource, Source, NamesOf
  <2>2. s.target.port = BoundPort(m)
    BY <2>1, PortsAgree
  <2>3. /\ Place(host, m).host = host /\ Place(host, m).port = BoundPort(m)
        /\ Place(host, m).model = m
    BY DEF Place
  <2>4. QED
    BY <1>4, <2>1, <2>2, <2>3 DEF Backed
<1>5. CASE LocalSource(s, near)
  BY <1>4, <1>5 DEF LocalSource, RanInv, NearInv
<1>6. CASE i \in DOMAIN snaps /\ WorkerSource(s, snaps[i])
  <2>1. snaps[i] # NoSnapshot
    BY <1>2, <1>6, FleetAssumption
  <2>2. i \in DOMAIN probes[r] /\ snaps[i] = probes[r][i].snap /\ r \in Callers
    BY <1>6 DEF ReadSnaps, Callers, Requests
  <2>3. Seen(snaps[i])
    BY <2>1, <2>2 DEF RanInv, ProbesInv
  <2>4. /\ snaps[i].as = "launched"
        /\ Place(snaps[i].worker.url, snaps[i].running) \in ran
    BY <1>6, <2>3 DEF Seen, WorkerSource
  <2>5. IsSource(s, snaps[i].worker.name, snaps[i].worker.url, snaps[i].running,
                 ModelConfig[snaps[i].running])
    BY <1>6, <2>4 DEF WorkerSource, Hostname
  <2>6. QED
    BY <1>4, <2>4, <2>5
<1>7. QED
  BY <1>3, <1>5, <1>6

\* Places are never forgotten.
LEMMA SeenKept ==
    ASSUME ran \subseteq ran', NEW snap, Seen(snap)
    PROVE  Seen(snap)'
BY DEF Seen, Place, BoundPort

LEMMA BackedKept ==
    ASSUME ran \subseteq ran', NEW n, NEW tgt, Backed(n, tgt)
    PROVE  Backed(n, tgt)'
BY DEF Backed

\* What runs on a machine is in the history of the places.
LEMMA RemoteRan ==
    ASSUME RemoteInv, ListeningInv, NEW u \in Urls, remote[u].running # NoModel
    PROVE  Place(u, remote[u].running) \in ran
BY DEF ListeningInv, Listening

LEMMA MachinesLaunched ==
    ASSUME AsConfigured, FleetTypeOK, RemoteInv, Machines
    PROVE  RemoteInv'
<1>0. remote \in [Urls -> Remote]
  BY DEF FleetTypeOK
<1>1. ASSUME NEW u, NEW m, Runs(u, m) PROVE RemoteInv'
  BY <1>0, <1>1 DEF Runs, RemoteInv
<1>2. CASE \E u \in Urls : RemoteRuns(u)
  BY <1>1, <1>2 DEF RemoteRuns
<1>3. CASE \E u \in Urls : RemoteReloads(u)
  BY <1>3 DEF RemoteReloads, AsConfigured
<1>4. CASE \E u \in Urls : RemoteFails(u)
  <2>1. PICK u \in Urls : RemoteFails(u)
    BY <1>4
  <2>2. remote[u] \in Remote
    BY <1>0
  <2>3. [remote[u] EXCEPT !.up = ~remote[u].up].as = remote[u].as
    BY <2>2 DEF Remote
  <2>4. remote' = [remote EXCEPT ![u] = [remote[u] EXCEPT !.up = ~remote[u].up]]
    BY <2>1 DEF RemoteFails
  <2>5. QED
    BY <1>0, <2>3, <2>4 DEF RemoteInv
<1>5. CASE \E x \in Urls \cup {w.name : w \in Worker}, m \in Models :
             WorkerStartModel(x, m) \/ WorkerStopModel(x, m)
  <2>1. PICK x, m : Command(x, m)
    BY <1>5 DEF WorkerStartModel, WorkerStopModel
  <2>2. QED
    BY <1>1, <2>1 DEF Command
<1>6. QED
  BY <1>2, <1>3, <1>4, <1>5 DEF Machines

\* A step that changes nothing but the machines and the history.
LEMMA MovesRan ==
    ASSUME RanInv, RemoteInv', ran' = ran \cup Listening',
           UNCHANGED <<cache, probes, table, req>>
    PROVE  RanInv'
<1>1. ListeningInv'
  BY DEF ListeningInv
<1>2. CacheInv' /\ ProbesInv'
  BY SeenKept DEF RanInv, CacheInv, ProbesInv
<1>3. TableInv' /\ SendInv'
  BY BackedKept DEF RanInv, TableInv, SendInv, At
<1>4. NearInv'
  BY DEF RanInv, NearInv, Place, BoundPort
<1>5. QED
  BY <1>1, <1>2, <1>3, <1>4 DEF RanInv

\* A step of the registry.
LEMMA ProbeSeen ==
    ASSUME FleetTypeOK, RemoteInv, ListeningInv, CacheInv, ProbesInv,
           NEW c \in Callers, Probe(c), UNCHANGED ran
    PROVE  CacheInv' /\ ProbesInv'
<1> PICK i \in DOMAIN probes[c] : Look(c, i) \/ Ask(c, i) \/ Keep(c, i)
  BY DEF Probe
<1> DEFINE w == probes[c][i].worker
<1>w. /\ probes[c][i] \in ProbeState /\ w \in Worker /\ w.url \in Urls
  BY FleetAssumption DEF FleetTypeOK, ProbeState
<1>s. \A snap : Seen(snap) => Seen(snap)'
  BY DEF Seen, Place, BoundPort
<1>0. ASSUME NEW at, NEW snap, ProbeGoto(c, i, at, snap), snap # NoSnapshot => Seen(snap)
      PROVE  ProbesInv'
  <2>1. /\ \A d \in Callers : DOMAIN probes'[d] = DOMAIN probes[d]
        /\ \A d \in Callers : \A j \in DOMAIN probes[d] :
              \/ probes'[d][j] = probes[d][j]
              \/ d = c /\ probes'[d][j].at = at /\ probes'[d][j].snap = snap
    BY <1>0, ProbeChange
  <2>2. QED
    BY <1>0, <1>s, <2>1 DEF ProbesInv
<1>1. CASE Look(c, i)
  <2> DEFINE e == cache[w.url]
  <2>1. ProbeGoto(c, i, IF e # NoSnapshot THEN "done" ELSE "ask", e)
    BY <1>1 DEF Look
  <2>2. e # NoSnapshot => Seen(e)
    BY <1>w DEF CacheInv
  <2>3. ProbesInv'
    BY <1>0, <2>1, <2>2
  <2>4. QED
    BY <1>1, <1>s, <2>3 DEF Look, CacheInv
<1>2. CASE Ask(c, i)
  <2> DEFINE rm == remote[w.url]
  <2>0. rm \in Remote /\ rm.as = "launched"
    BY <1>w DEF FleetTypeOK, RemoteInv
  <2>1. Seen(LocalModelItems(w, rm))
    <3>1. CASE rm.running = NoModel
      BY <3>1 DEF LocalModelItems, Online, Seen
    <3>2. CASE rm.running # NoModel
      <4>1. LocalModelItems(w, rm) = Online(w, rm.running, "launched")
        BY <2>0, <3>2 DEF LocalModelItems
      <4>2. Place(w.url, rm.running) \in ran
        BY <1>w, <3>2, RemoteRan
      <4>3. QED
        BY <4>1, <4>2 DEF Online, Seen
    <3>3. QED
      BY <3>1, <3>2
  <2>2. \A e : Seen(Offline(w, e))
    BY DEF Offline, Seen
  <2>3. \/ ProbeGoto(c, i, "keep", LocalModelItems(w, rm))
        \/ \E at, e : ProbeGoto(c, i, at, Offline(w, e))
    BY <1>2 DEF Ask
  <2>4. ProbesInv'
    BY <1>0, <2>1, <2>2, <2>3
  <2>5. QED
    BY <1>2, <1>s, <2>4 DEF Ask, CacheInv
<1>3. CASE Keep(c, i)
  <2> DEFINE e == probes[c][i].snap
  <2>1. e # NoSnapshot => Seen(e)
    BY DEF ProbesInv
  <2>2. /\ cache' = [cache EXCEPT ![w.url] = e]
        /\ ProbeGoto(c, i, "done", e)
    BY <1>3 DEF Keep
  <2>3. ProbesInv'
    BY <1>0, <2>1, <2>2
  <2>4. \A u \in Urls : cache'[u] = cache[u] \/ cache'[u] = e
    BY <2>2 DEF FleetTypeOK
  <2>5. CacheInv'
    <3> HIDE DEF e
    <3> QED
      BY <1>s, <2>1, <2>4 DEF CacheInv
  <2>6. QED
    BY <2>3, <2>5
<1>4. QED
  BY <1>1, <1>2, <1>3

LEMMA RegistryRan ==
    ASSUME FleetTypeOK, RanInv, RegistryMoves
    PROVE  RanInv'
<1>0. UNCHANGED routerVars /\ UNCHANGED remote /\ Registry
  BY DEF RegistryMoves, Registry, Reload, ReloadDropsCache, Expire, Probe, Look, Ask, Keep,
         GetFleet, ClientGoes, Reply
<1>1. RemoteInv' /\ ListeningInv' /\ NearInv' /\ TableInv' /\ SendInv'
  BY <1>0 DEF routerVars, RanInv, RemoteInv, ListeningInv, Listening, NearInv, TableInv, SendInv,
              At, Place, BoundPort, Backed
<1>2. ASSUME UNCHANGED ran,
             \A u \in Urls : cache'[u] = cache[u] \/ cache'[u] = NoSnapshot,
             \A c \in Callers : \A i \in DOMAIN probes'[c] :
                \/ i \in DOMAIN probes[c] /\ probes'[c][i] = probes[c][i]
                \/ probes'[c][i].snap = NoSnapshot
      PROVE  CacheInv' /\ ProbesInv'
  BY <1>2 DEF RanInv, CacheInv, ProbesInv, Seen, Place, BoundPort
<1>3. CacheInv' /\ ProbesInv'
  <2>0. UNCHANGED ran
    BY <1>0 DEF routerVars
  <2>1. CASE \E specs \in Configs : Reload(specs)
    BY <1>2, <2>0, <2>1 DEF Reload
  <2>2. CASE ReloadDropsCache \/ \E u \in Urls : Expire(u)
    <3>1. /\ UNCHANGED probes
          /\ \A u \in Urls : cache'[u] = cache[u] \/ cache'[u] = NoSnapshot
      BY <2>2 DEF ReloadDropsCache, Expire, FleetTypeOK
    <3>2. QED
      BY <1>2, <2>0, <3>1
  <2>3. ASSUME NEW c \in Callers, Probe(c) PROVE CacheInv' /\ ProbesInv'
    BY <2>0, <2>3, ProbeSeen DEF RanInv
  <2>4. ASSUME NEW v \in Viewers, GetFleet(v) PROVE CacheInv' /\ ProbesInv'
    <3> DEFINE asked == [i \in DOMAIN workers |->
                            [worker |-> workers[i], at |-> "look", snap |-> NoSnapshot]]
    <3>1. UNCHANGED cache /\ probes' = [probes EXCEPT ![v] = asked]
      BY <2>4 DEF GetFleet, Snapshots
    <3>2. \A i \in DOMAIN asked : asked[i].snap = NoSnapshot
      OBVIOUS
    <3>3. \A c \in Callers : \A i \in DOMAIN probes'[c] :
            \/ i \in DOMAIN probes[c] /\ probes'[c][i] = probes[c][i]
            \/ probes'[c][i].snap = NoSnapshot
      <4> HIDE DEF asked
      <4> QED
        BY <3>1, <3>2 DEF FleetTypeOK
    <3>4. QED
      BY <1>2, <2>0, <3>1, <3>3
  <2>5. ASSUME NEW v \in Viewers, ClientGoes(v) \/ Reply(v) PROVE CacheInv' /\ ProbesInv'
    <3>1. UNCHANGED cache
      BY <2>5 DEF ClientGoes, Reply
    <3>2. \A c \in Callers : \A i \in DOMAIN probes'[c] :
            i \in DOMAIN probes[c] /\ probes'[c][i] = probes[c][i]
      <4>1. \A c \in Callers : probes'[c] = probes[c] \/ probes'[c] = <<>>
        BY <2>5 DEF ClientGoes, Reply, FleetTypeOK
      <4>2. QED
        BY <4>1
    <3>3. QED
      BY <1>2, <2>0, <3>1, <3>2
  <2>6. QED
    BY <1>0, <2>1, <2>2, <2>3, <2>4, <2>5 DEF Registry
<1>4. QED
  BY <1>1, <1>3 DEF RanInv

LEMMA ServeRan ==
    ASSUME AsConfigured, RouterTypeOK, AttemptInv, RanInv, NEW r \in Requests, Serve(r)
    PROVE  RanInv'
<1>0. /\ FleetTypeOK /\ r \in Callers
      /\ req \in [Requests -> Request]
      /\ table \in [Names -> Target \cup {NoTarget}]
      /\ NoTarget \notin Target
  BY RouterAssumption DEF RouterTypeOK, Callers, Requests
<1>1. UNCHANGED <<remote, cache, local, ran>>
  BY AcceptIs, LookupIs, LookupAgainIs, RefreshIs, RebuildIs, Installed, CloseGroupIs,
     ReleaseGroupIs, ForwardIs, InvalidateIs DEF Serve, RouterElse, fleetVars
<1>2. RemoteInv' /\ ListeningInv' /\ CacheInv'
  BY <1>1 DEF RanInv, RemoteInv, ListeningInv, Listening, CacheInv, Seen, Place, BoundPort
<1>p. UNCHANGED probes => ProbesInv'
  BY <1>1 DEF RanInv, ProbesInv, Seen, Place, BoundPort
<1>t. UNCHANGED table => TableInv'
  BY <1>1 DEF RanInv, TableInv, Backed
<1>q. ASSUME \A q \in Requests :
                /\ req'[q].near \in {req[q].near, NoServer, local}
                /\ req'[q].pc = "send" =>
                    \/ req[q].pc = "send" /\ req'[q].name = req[q].name /\ req'[q].tgt = req[q].tgt
                    \/ Backed(req'[q].name, req'[q].tgt)
      PROVE  NearInv' /\ SendInv'
  <2>1. local # NoServer => Place(LocalMachine, local.model) \in ran
    BY DEF RanInv, ListeningInv, Listening
  <2>2. NearInv'
    BY <1>1, <1>q, <2>1 DEF RanInv, NearInv, Place, BoundPort
  <2>3. \A q \in Requests : req'[q].pc = "send" => Backed(req'[q].name, req'[q].tgt)
    BY <1>q DEF RanInv, SendInv, At
  <2>4. SendInv'
    BY <1>1, <2>3 DEF SendInv, At, Backed
  <2>5. QED
    BY <2>2, <2>4
<1>k. ASSUME Others(r), req'[r].near \in {req[r].near, NoServer, local}, req'[r].pc # "send"
      PROVE  NearInv' /\ SendInv'
  BY <1>k, <1>q DEF Others
<1>f. ASSUME Others(r), Found(r) PROVE NearInv' /\ SendInv'
  <2>1. Backed(req[r].name, table[req[r].name])
    BY <1>0, <1>f DEF Found, RanInv, TableInv
  <2>2. /\ req'[r].near \in {req[r].near, NoServer}
        /\ req'[r].pc = "send" => req'[r].name = req[r].name /\ req'[r].tgt = table[req[r].name]
    BY <1>f DEF Found, Routed, Returned
  <2>3. QED
    BY <1>f, <1>q, <2>1, <2>2 DEF Others
<1>3. CASE Accept(r) \/ Lookup(r) \/ LookupAgain(r)
  <2>1. /\ Others(r) /\ UNCHANGED <<probes, table>>
        /\ \/ Keeps(r) /\ req'[r].pc # "send"
           \/ \E answer : Returned(r, req[r].sent, answer)
           \/ Found(r)
    BY <1>3, AcceptIs, LookupIs, LookupAgainIs DEF RouterElse, fleetVars
  <2>2. NearInv' /\ SendInv'
    BY <1>f, <1>k, <2>1 DEF Keeps, Returned
  <2>3. QED
    BY <1>2, <1>p, <1>t, <2>1, <2>2 DEF RanInv
<1>4. CASE Refresh(r) \/ ReleaseGroup(r)
  <2>1. /\ Others(r) /\ Keeps(r) /\ req'[r].pc # "send" /\ UNCHANGED <<probes, table>>
    BY <1>4, RefreshIs, ReleaseGroupIs DEF fleetVars
  <2>2. QED
    BY <1>2, <1>k, <1>p, <1>t, <2>1 DEF RanInv, Keeps
<1>5. CASE Rebuild(r)
  <2>1. ProbesInv'
    <3>1. /\ probes' \in [Callers -> Seq(ProbeState)]
          /\ \A d \in Callers \ {r} : probes'[d] = probes[d]
          /\ \A i \in DOMAIN probes'[r] : probes'[r][i].at = "look"
      BY <1>0, <1>5, RebuildIs, SnapshotsType
    <3>2. \A i \in DOMAIN probes'[r] : probes'[r][i].snap = NoSnapshot
      <4> SUFFICES ASSUME NEW i \in DOMAIN probes'[r] PROVE probes'[r][i].snap = NoSnapshot
        OBVIOUS
      <4>1. probes'[r][i] \in ProbeState
        BY <1>0, <3>1
      <4>2. QED
        BY <3>1, <4>1 DEF ProbeState
    <3>3. \A d \in Callers : \A i \in DOMAIN probes'[d] :
            \/ i \in DOMAIN probes[d] /\ probes'[d][i] = probes[d][i]
            \/ probes'[d][i].snap = NoSnapshot
      BY <3>1, <3>2
    <3>4. QED
      BY <1>1, <3>3 DEF RanInv, ProbesInv, Seen, Place, BoundPort
  <2>2. /\ Others(r) /\ req'[r].near = local /\ req'[r].pc # "send" /\ UNCHANGED table
    BY <1>5, RebuildIs DEF RouterElse
  <2>3. QED
    BY <1>2, <1>k, <1>t, <2>1, <2>2 DEF RanInv
<1>6. CASE Install(r)
  <2>1. ProbesInv'
    <3>1. \A d \in Callers : probes'[d] = probes[d] \/ probes'[d] = <<>>
      BY <1>6, Installed DEF RouterTypeOK, FleetTypeOK
    <3>2. \A d \in Callers : \A i \in DOMAIN probes'[d] :
            i \in DOMAIN probes[d] /\ probes'[d][i] = probes[d][i]
      BY <3>1
    <3>3. QED
      BY <1>1, <3>2 DEF RanInv, ProbesInv, Seen, Place, BoundPort
  <2>2. TableInv'
    <3> DEFINE sources == Sources(req[r].near, ReadSnaps(r))
    <3>1. req[r].near \in RunningServer \cup {NoServer} /\ SnapshotsDone(r)
      BY <1>0, <1>6, Installed DEF Request
    <3>2. DOMAIN sources \subseteq Nat
      BY <3>1, SnapsType, SourcesAre
    <3>3. \A i \in DOMAIN sources : \A n \in sources[i].keys : Backed(n, sources[i].target)
      BY <3>1, SourceBacked
    <3>4. \A n \in Names : FirstTarget(sources, n) # NoTarget => Backed(n, FirstTarget(sources, n))
      <4> HIDE DEF sources
      <4> QED
        BY <3>2, <3>3, FirstTargetIs
    <3>5. \A n \in Names : table'[n] # NoTarget => Backed(n, table'[n])
      <4> HIDE DEF sources
      <4> QED
        BY <1>6, <3>4, Installed DEF sources
    <3>6. QED
      BY <1>1, <3>5 DEF TableInv, Backed
  <2>3. NearInv' /\ SendInv'
    BY <1>6, <1>q, InstallIs
  <2>4. QED
    BY <1>2, <2>1, <2>2, <2>3 DEF RanInv
<1>7. CASE CloseGroup(r)
  <2>1. UNCHANGED <<probes, table>>
    BY <1>7, CloseGroupIs DEF fleetVars
  <2>2. \A q \in Requests : Keeps(q) /\ (req'[q].pc = "send" => req[q].pc = "send")
    BY <1>7, CloseGroupIs DEF At
  <2>3. NearInv' /\ SendInv'
    BY <1>q, <2>2 DEF Keeps
  <2>4. QED
    BY <1>2, <1>p, <1>t, <2>1, <2>3 DEF RanInv
<1>8. CASE Forward(r)
  <2>1. /\ Others(r) /\ req'[r].pc # "send" /\ req'[r].near \in {req[r].near, NoServer}
        /\ UNCHANGED <<probes, table>>
    BY <1>8, ForwardIs DEF Returned, RouterElse, fleetVars
  <2>2. QED
    BY <1>2, <1>k, <1>p, <1>t, <2>1 DEF RanInv
<1>9. CASE Invalidate(r)
  <2>1. /\ Others(r) /\ req'[r].pc # "send" /\ req'[r].near = req[r].near
        /\ UNCHANGED probes
    BY <1>9, InvalidateIs DEF fleetVars
  <2>2. \A n \in Names : table'[n] = table[n] \/ table'[n] = NoTarget
    BY <1>0, <1>9, InvalidateIs
  <2>3. TableInv'
    BY <1>1, <2>2 DEF RanInv, TableInv, Backed
  <2>4. QED
    BY <1>2, <1>k, <1>p, <2>1, <2>3 DEF RanInv
<1>10. QED
  BY <1>3, <1>4, <1>5, <1>6, <1>7, <1>8, <1>9 DEF Serve

LEMMA RanInit ==
    ASSUME Init
    PROVE  RanInv
<1>1. RemoteInv /\ ListeningInv /\ CacheInv /\ NearInv /\ TableInv /\ SendInv
  BY DEF Init, FleetInit, RemoteInv, ListeningInv, CacheInv, NearInv, TableInv, SendInv, At
<1>2. ProbesInv
  <2>1. \A c \in Callers : probes[c] = <<>>
    BY DEF Init, FleetInit
  <2>2. QED
    BY <2>1 DEF ProbesInv
<1>3. QED
  BY <1>1, <1>2 DEF RanInv

LEMMA RanStep ==
    ASSUME AsConfigured, RouterInv, RanInv, [Next]_vars
    PROVE  RanInv'
<1>0. RouterTypeOK /\ FleetTypeOK /\ AttemptInv
  BY DEF RouterInv, RouterTypeOK
<1>1. CASE LocalMoves
  <2>1. RemoteInv'
    BY <1>1 DEF LocalMoves, fleetVars, RanInv, RemoteInv
  <2>2. QED
    BY <1>1, <2>1, MovesRan DEF LocalMoves, fleetVars
<1>2. CASE MachinesMove
  <2>1. RemoteInv' /\ UNCHANGED <<cache, probes>>
    BY <1>0, <1>2, MachinesLaunched, MachinesType DEF MachinesMove, RanInv
  <2>2. QED
    BY <1>2, <2>1, MovesRan DEF MachinesMove
<1>3. CASE RegistryMoves
  BY <1>0, <1>3, RegistryRan
<1>4. CASE TableAges \/ UNCHANGED vars
  BY <1>4 DEF TableAges, vars, routerVars, fleetVars, RanInv, RemoteInv, ListeningInv, Listening,
              CacheInv, ProbesInv, NearInv, TableInv, SendInv, Seen, Backed, Place, BoundPort, At
<1>5. ASSUME NEW r \in Requests, Serve(r) PROVE RanInv'
  BY <1>0, <1>5, ServeRan
<1>6. QED
  BY <1>1, <1>2, <1>3, <1>4, <1>5 DEF Next

\* Unless a worker's config is edited under a running model or a model has port 0, a
\* request only ever goes to a place where a model of the name it asked for has
\* listened, however old the snapshots its target was made of (proxy.go:152-219,
\* client.go:233-262).
THEOREM SentWhereItRanCorrect == AsConfigured => (Spec => []SentWhereItRan)
<1> SUFFICES ASSUME AsConfigured PROVE Spec => []SentWhereItRan
  OBVIOUS
<1>1. Init => RanInv
  BY RanInit
<1>2. RouterInv /\ RanInv /\ [Next]_vars => RanInv'
  BY RanStep
<1>3. RanInv => SentWhereItRan
  BY DEF RanInv, SendInv, SentWhereItRan, Backed
<1>4. QED
  BY <1>1, <1>2, <1>3, RouterInvCorrect, PTL DEF Spec
=============================================================================
