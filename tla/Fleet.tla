------------------------------- MODULE Fleet -------------------------------
(***************************************************************************)
(* The coordinator's registry of workers: the set of workers that a config *)
(* reload swaps, the cache of probe results by URL, and the probes that    *)
(* concurrent callers make of the workers, each other's cache fills seen   *)
(* at any point.  Callers are requests for a view (/fleet, /workers),      *)
(* whose clients may go away, and rebuilds of the routing table.           *)
(***************************************************************************)
EXTENDS Integers, Sequences, SequencesExt

CONSTANTS
    Viewers,      \* requests for /fleet or /workers
    Rebuilders,   \* requests that rebuild the routing table
    Urls,         \* worker base URLs that parse; a URL stands for its host too
    Models,       \* models, by their real names
    NoModel,      \* no model runs
    KeyOf,        \* the api-key each worker wants
    EditedUrls,   \* the workers whose own config may change under a running model
    LocalMachine, \* the coordinator's own name in views and routes
    NoName,       \* the empty name of a config entry
    NoSnapshot,   \* nothing cached, or cached too long ago
    FirstConfig,  \* the worker list the coordinator starts with
    Configs       \* the worker lists that reloads may find in the config file

Callers == Viewers \cup Rebuilders

VARIABLES
    workers,   \* Registry.workers: in config order
    cache,     \* Registry.cache: the snapshots that are not too old, by URL
    reloading, \* a Reload has swapped the workers and not yet dropped the cache
    remote,    \* the workers themselves: whether they answer, what they run,
               \* and how their config now shows it: as launched, changed or not at all
    probes,    \* what each caller's Snapshots goroutines are doing
    asking,    \* the viewers whose request is being handled
    gone,      \* the viewers whose client has gone away meanwhile
    flaky      \* history: the workers that have at some time not answered

fleetVars == <<workers, cache, reloading, remote, probes, asking, gone, flaky>>

\* Worker.  An entry without a name is named after its host.
NewWorker(spec) ==
    [spec EXCEPT !.name = IF @ = NoName THEN spec.url ELSE @]

\* Entries whose URL does not parse, and entries that claim the local
\* machine's name, are skipped.
Load(specs) ==
    SelectSeq([i \in DOMAIN specs |-> NewWorker(specs[i])],
              LAMBDA w : w.url \in Urls /\ w.name # LocalMachine)

\* WorkerSnapshot; of the models only the active one matters.
Online(w, m, as) ==
    [worker |-> w, status |-> "online", running |-> m, as |-> as, error |-> "none"]
Offline(w, e) ==
    [worker |-> w, status |-> "offline", running |-> NoModel, as |-> "launched", error |-> e]

Shown == {"launched", "changed", "absent"}
Remote == [up : BOOLEAN, running : Models, as : Shown]
          \cup [up : BOOLEAN, running : {NoModel}, as : {"launched"}]

Worker == UNION {Range(Load(c)) : c \in Configs \cup {FirstConfig}}
Snapshot ==
    {Online(w, m, as) : w \in Worker, m \in Models, as \in Shown \ {"absent"}}
    \cup {Online(w, NoModel, "launched") : w \in Worker}
    \cup {Offline(w, e) : w \in Worker, e \in {"unreachable", "unauthorized", "cancelled"}}

\* Load makes sequences of workers that can be asked; what else the constants are.
ASSUME FleetAssumption ==
    /\ NoModel \notin Models
    /\ NoSnapshot \notin Snapshot
    /\ \A c \in Configs \cup {FirstConfig} : Load(c) \in Seq(Worker)
    /\ \A w \in Worker : w.url \in Urls

FleetInit ==
    /\ workers = Load(FirstConfig)
    /\ cache = [u \in Urls |-> NoSnapshot]
    /\ reloading = FALSE
    /\ remote \in [Urls -> {r \in Remote : r.up /\ r.as = "launched"}]
    /\ probes = [c \in Callers |-> <<>>]
    /\ asking = {}
    /\ gone = {}
    /\ flaky = {}

----------------------------------------------------------------------------
(* The workers.  They are managers of their own: models start, crash and   *)
(* are stopped there, and they are sometimes down or hang past the         *)
(* client's timeout.                                                       *)

\* The worker at u runs m from now on, launched as its config says.
Runs(u, m) ==
    remote' = [remote EXCEPT ![u] = [up |-> @.up, running |-> m, as |-> "launched"]]

RemoteRuns(u) ==
    /\ remote[u].up
    /\ \E m \in Models \cup {NoModel} : Runs(u, m)
    /\ UNCHANGED <<workers, cache, reloading, probes, asking, gone, flaky>>

\* A worker reloads a config that changes the model it runs, drops it or has it
\* as it was; the model runs on.
RemoteReloads(u) ==
    /\ u \in EditedUrls
    /\ remote[u].running # NoModel
    /\ \E as \in Shown : remote' = [remote EXCEPT ![u].as = as]
    /\ UNCHANGED <<workers, cache, reloading, probes, asking, gone, flaky>>

\* What GET /api/v1/models shows there: the entries of the config, active the
\* one that has the running model's name.
LocalModelItems(w, rm) ==
    IF rm.running = NoModel \/ rm.as = "absent" THEN Online(w, NoModel, "launched")
    ELSE Online(w, rm.running, rm.as)

RemoteFails(u) ==
    /\ remote' = [remote EXCEPT ![u].up = ~@]
    /\ flaky' = flaky \cup {u}
    /\ UNCHANGED <<workers, cache, reloading, probes, asking, gone>>

----------------------------------------------------------------------------
(* Registry.                                                               *)

Reload(specs) ==
    /\ ~reloading
    /\ workers' = Load(specs)
    /\ reloading' = TRUE
    /\ UNCHANGED <<cache, remote, probes, asking, gone, flaky>>

ReloadDropsCache ==
    /\ reloading
    /\ cache' = [u \in Urls |-> NoSnapshot]
    /\ reloading' = FALSE
    /\ UNCHANGED <<workers, remote, probes, asking, gone, flaky>>

\* Mutant: an entry never gets too old.
ExpireNever(u) ==
    /\ cache[u] = NoSnapshot
    /\ UNCHANGED fleetVars

\* The cache TTL of u's entry passes.
Expire(u) ==
    /\ cache[u] # NoSnapshot
    /\ cache' = [cache EXCEPT ![u] = NoSnapshot]
    /\ UNCHANGED <<workers, reloading, remote, probes, asking, gone, flaky>>

\* Snapshots: one probe for every worker of the list as it is now.
Snapshots(c) ==
    probes' = [probes EXCEPT ![c] =
        [i \in DOMAIN workers |->
            [worker |-> workers[i], at |-> "look", snap |-> NoSnapshot]]]

SnapshotsDone(c) == \A i \in DOMAIN probes[c] : probes[c][i].at = "done"

ProbeGoto(c, i, at, snap) ==
    probes' = [probes EXCEPT ![c][i] = [worker |-> @.worker, at |-> at, snap |-> snap]]

\* Snapshot: a cached result is used, otherwise the worker is asked.
Look(c, i) ==
    LET e == cache[probes[c][i].worker.url] IN
    /\ probes[c][i].at = "look"
    /\ ProbeGoto(c, i, IF e # NoSnapshot THEN "done" ELSE "ask", e)
    /\ UNCHANGED <<workers, cache, reloading, remote, asking, gone, flaky>>

\* Mutant: every failure is cached.
CacheableAlways(c) == c \in Callers

\* The failure of a caller that has gone says nothing about the worker.
Cacheable(c) == c \notin gone

\* Mutant: a call without a timeout waits for a worker that hangs.
AskForever(c, i) ==
    LET w == probes[c][i].worker IN
    /\ probes[c][i].at = "ask"
    /\ c \notin gone
    /\ remote[w.url].up
    /\ ProbeGoto(c, i, "keep", LocalModelItems(w, remote[w.url]))
    /\ UNCHANGED <<workers, cache, reloading, remote, asking, gone, flaky>>

\* Worker.call and probe: the worker answers, refuses the key, or is not
\* reached; or the call ends because its caller has gone.
Ask(c, i) ==
    LET w == probes[c][i].worker
        Failed(e) == ProbeGoto(c, i, IF Cacheable(c) THEN "keep" ELSE "done", Offline(w, e))
    IN  /\ probes[c][i].at = "ask"
        /\ \/ /\ c \notin gone
              /\ remote[w.url].up
              /\ IF KeyOf[w.url] = w.key
                 THEN ProbeGoto(c, i, "keep", LocalModelItems(w, remote[w.url]))
                 ELSE Failed("unauthorized")
           \/ /\ ~remote[w.url].up
              /\ Failed("unreachable")
           \/ /\ c \in gone
              /\ Failed("cancelled")
        /\ UNCHANGED <<workers, cache, reloading, remote, asking, gone, flaky>>

\* The result is cached under the worker's URL.
Keep(c, i) ==
    LET p == probes[c][i] IN
    /\ p.at = "keep"
    /\ cache' = [cache EXCEPT ![p.worker.url] = p.snap]
    /\ ProbeGoto(c, i, "done", p.snap)
    /\ UNCHANGED <<workers, reloading, remote, asking, gone, flaky>>

Probe(c) == \E i \in DOMAIN probes[c] : Look(c, i) \/ Ask(c, i) \/ Keep(c, i)

----------------------------------------------------------------------------
(* Handlers: the two views and the commands passed on to a worker.         *)

GetFleet(v) ==
    /\ v \notin asking
    /\ asking' = asking \cup {v}
    /\ Snapshots(v)
    /\ UNCHANGED <<workers, cache, reloading, remote, gone, flaky>>

ClientGoes(v) ==
    /\ v \in asking
    /\ gone' = gone \cup {v}
    /\ UNCHANGED <<workers, cache, reloading, remote, probes, asking, flaky>>

Reply(v) ==
    /\ v \in asking
    /\ SnapshotsDone(v)
    /\ asking' = asking \ {v}
    /\ gone' = gone \ {v}
    /\ probes' = [probes EXCEPT ![v] = <<>>]
    /\ UNCHANGED <<workers, cache, reloading, remote, flaky>>

\* Registry.Resolve: the first worker of that name, else of that host.
Resolve(x) ==
    LET byName == SelectInSeq(workers, LAMBDA w : w.name = x)
    IN  IF byName # 0 THEN byName ELSE SelectInSeq(workers, LAMBDA w : w.url = x)

\* The worker that {worker} names accepts the key and does what it is asked;
\* a refusal or a failure before that changes nothing, whatever is answered.
Command(x, m) ==
    LET i == Resolve(x) IN
    /\ i # 0
    /\ LET u == workers[i].url IN
       /\ remote[u].up
       /\ KeyOf[u] = workers[i].key
       /\ Runs(u, m)
    /\ UNCHANGED <<workers, cache, reloading, probes, asking, gone, flaky>>

WorkerStartModel(x, m) ==
    /\ \A i \in {Resolve(x)} \ {0} : remote[workers[i].url].running = NoModel
    /\ Command(x, m)

WorkerStopModel(x, m) ==
    /\ \A i \in {Resolve(x)} \ {0} : remote[workers[i].url].running = m
    /\ Command(x, NoModel)

----------------------------------------------------------------------------
Machines ==
    \/ \E u \in Urls : RemoteRuns(u) \/ RemoteReloads(u) \/ RemoteFails(u)
    \/ \E x \in Urls \cup {w.name : w \in Worker}, m \in Models :
        WorkerStartModel(x, m) \/ WorkerStopModel(x, m)

Registry ==
    \/ \E specs \in Configs : Reload(specs)
    \/ ReloadDropsCache
    \/ \E u \in Urls : Expire(u)
    \/ \E c \in Callers : Probe(c)
    \/ \E v \in Viewers : GetFleet(v) \/ ClientGoes(v) \/ Reply(v)

FleetNext == Machines \/ Registry

\* Goroutines run, calls end by their timeouts, and two seconds pass; nothing
\* is assumed of the machines, the clients and who edits the config.
FleetFairness ==
    /\ \A c \in Callers : WF_fleetVars(Probe(c))
    /\ \A v \in Viewers : WF_fleetVars(Reply(v))
    /\ \A u \in Urls : WF_fleetVars(Expire(u))
    /\ WF_fleetVars(ReloadDropsCache)

FleetSpec == FleetInit /\ [][FleetNext]_fleetVars /\ FleetFairness

----------------------------------------------------------------------------
\* Types; a probe holds a snapshot from the moment it has one.
FleetTypeOK ==
    /\ workers \in Seq(Worker)
    /\ cache \in [Urls -> Snapshot \cup {NoSnapshot}]
    /\ reloading \in BOOLEAN
    /\ remote \in [Urls -> Remote]
    /\ probes \in [Callers ->
            Seq([worker : Worker, at : {"look", "ask"}, snap : {NoSnapshot}]
                \cup [worker : Worker, at : {"keep", "done"}, snap : Snapshot])]
    /\ asking \subseteq Viewers
    /\ gone \subseteq asking
    /\ flaky \subseteq Urls

\* A caller that is still there is told that a worker is offline only if the
\* worker really failed to answer once, or the key tried was not the worker's:
\* another caller that hung up never makes a healthy worker look offline.
Blamed(snap) ==
    \/ snap.worker.url \in flaky
    \/ snap.worker.key # KeyOf[snap.worker.url]

HealthyNotOffline ==
    \A c \in Callers \ gone : \A i \in DOMAIN probes[c] :
        LET p == probes[c][i] IN
        p.at = "done" /\ p.snap.status = "offline" => Blamed(p.snap)

\* "The item flagged active is the one the worker is running (and it carries the
\* port and alias)" (src/fleet/client.go:140): what an answering worker lists as
\* active it shows as it runs it.
ActiveAsLaunched ==
    \A c \in Callers : \A i \in DOMAIN probes[c] :
        LET p == probes[c][i] IN
        p.at = "keep" /\ p.snap.running # NoModel => p.snap.as = "launched"

\* Every view is answered, whatever the workers do (Offline workers appear as
\* offline instead of failing the whole request).
ViewAnswered == \A v \in Viewers : v \in asking ~> v \notin asking

\* Once the worker list stays as it is, callers end up with snapshots of its
\* entries only, although probes of the old workers fill the cache after the
\* reload has dropped it.
ReloadSettles ==
    <>[][workers' = workers]_workers =>
        <>[](\A c \in Callers : \A i \in DOMAIN probes[c] :
                LET p == probes[c][i] IN
                p.at = "done" => \E j \in DOMAIN workers : p.snap.worker = workers[j])
=============================================================================
