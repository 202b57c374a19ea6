------------------------------- MODULE Router ------------------------------
(***************************************************************************)
(* The OpenAI-compatible proxy: requests on /v1 are routed by a table of   *)
(* published names that is rebuilt from the local manager and the fleet    *)
(* registry when it is too old or a name is missing, at most once per name *)
(* at a time; a target that has gone away is tried again once, after the   *)
(* table has been rebuilt.                                                 *)
(***************************************************************************)
EXTENDS Fleet, FiniteSets

CONSTANTS
    ModelConfig, \* [alias, launch, port] of each model, as launched
    Changed,     \* the same, in a worker's config that was edited since
    NoCommand,   \* launch: the model has no launch_cmd
    NoPort,      \* port: not set
    ListName,    \* the name under which GET /v1/models refreshes: "__list__"
    Wants,       \* what the requests may ask for: functions to names
    NoServer,    \* the local manager's slot is empty
    NoTarget,    \* no machine publishes the name
    NoGroup,     \* no rebuild for the name is in flight
    NoReply,     \* nothing has been written to the client
    MaxMoves     \* bound: changes on the machines while the requests are served

Requests == Rebuilders

VARIABLES
    local,    \* the local manager's server record, as GetCurrentServer shows it
    table,    \* Router.table: the first target of each published name
    entries,  \* Router.entries: the names GET /v1/models lists
    fresh,    \* builtAt is less than the TTL ago
    inflight, \* Router.inflight
    req,      \* the requests
    ran,      \* history: which model has listened where
    moves     \* changes on the machines so far

routerVars == <<local, table, entries, fresh, inflight, req, ran, moves>>
vars == <<fleetVars, routerVars>>

----------------------------------------------------------------------------
(* Models and where they are reached.                                      *)

RunningServer == [model : Models, status : {"starting", "running", "stopping"}]

DefaultLlamaPort == 8081
Unparsed == 0 \* launch: a launch_cmd without a usable --port

\* The port llama-server is launched with.
BoundPort(m) ==
    LET cfg == ModelConfig[m] IN
    IF cfg.launch # NoCommand THEN cfg.launch
    ELSE IF cfg.port = NoPort THEN DefaultLlamaPort ELSE cfg.port

\* Mutant: a launch_cmd is taken for a standard model.
RoutablePortIgnoresLaunch(cfg) ==
    IF cfg.port # NoPort /\ cfg.port > 0 THEN cfg.port ELSE DefaultLlamaPort

\* The port a request is sent to; Unparsed when the model is not routable.
RoutablePort(cfg) ==
    IF cfg.launch # NoCommand THEN cfg.launch
    ELSE IF cfg.port # NoPort /\ cfg.port > 0 THEN cfg.port ELSE DefaultLlamaPort

PublishName(m, cfg) == IF cfg.alias # NoName THEN cfg.alias ELSE m

Keys(m, cfg) == {m, PublishName(m, cfg)}
NamesOf(m) == Keys(m, ModelConfig[m])
Published ==
    UNION {{PublishName(m, ModelConfig[m]), PublishName(m, Changed[m])} : m \in Models}
Names == UNION {NamesOf(m) \cup Keys(m, Changed[m]) : m \in Models}

Target == [machine : {LocalMachine} \cup {w.name : w \in Worker},
           host : {LocalMachine} \cup Urls, port : Nat, warming : BOOLEAN]

Group == [leader : Requests, closed : BOOLEAN]

Replies == {"turned_away", "bad_request", "warming", "not_found", "bad_gateway",
            "upstream", "list"}

\* The host of a worker's URL.
Hostname(w) == w.url

\* addTarget, for what one machine runs.
Source(machine, host, warming, m, cfg) ==
    [id |-> PublishName(m, cfg), keys |-> Keys(m, cfg),
     target |-> [machine |-> machine, host |-> host,
                 port |-> RoutablePort(cfg), warming |-> warming]]

\* The routable models by machine, in first-match order: the local machine is 0,
\* the online workers have their places in the config.
Sources(near, snaps) ==
    LET Here == Source(LocalMachine, LocalMachine, near.status = "starting",
                       near.model, ModelConfig[near.model])
        There(snap) == Source(snap.worker.name, Hostname(snap.worker), FALSE, snap.running,
                              IF snap.as = "launched" THEN ModelConfig[snap.running]
                              ELSE Changed[snap.running])
        active == {i \in DOMAIN snaps : snaps[i].status = "online" /\ snaps[i].running # NoModel}
        found == [i \in active \cup (IF near = NoServer THEN {} ELSE {0}) |->
                    IF i = 0 THEN Here ELSE There(snaps[i])]
    IN  Restrict(found, {i \in DOMAIN found : found[i].target.port # Unparsed})

FirstTarget(sources, n) ==
    LET claims == {i \in DOMAIN sources : n \in sources[i].keys} IN
    IF claims = {} THEN NoTarget ELSE sources[Min(claims)].target

\* What GET /v1/models shows: each model once.
Listed(sources) == {sources[i].id : i \in DOMAIN sources}

\* Ports that are given are numbers; the values that stand for nothing are none of
\* what they stand in for.
ASSUME RouterAssumption ==
    /\ \A m \in Models : \A cfg \in {ModelConfig[m], Changed[m]} :
          cfg.launch \in Nat \cup {NoCommand} /\ cfg.port \in Nat \cup {NoPort}
    /\ \A want \in Wants, r \in Requests : want[r] \in Names \cup {ListName}
    /\ NoServer \notin RunningServer
    /\ NoTarget \notin Target
    /\ NoGroup \notin Group
    /\ NoReply \notin Replies
    /\ MaxMoves \in Nat

----------------------------------------------------------------------------
(* The machines, and time.                                                 *)

\* Where model m listens while a machine runs it.
Place(host, m) == [host |-> host, port |-> BoundPort(m), model |-> m]

Listening ==
    {Place(u, remote[u].running) : u \in {v \in Urls : remote[v].running # NoModel}}
    \cup (IF local = NoServer THEN {} ELSE {Place(LocalMachine, local.model)})

\* The local manager: a start, the launcher's and a stop's status changes, a
\* restart after a crash, and the end of the process.
LocalMoves ==
    /\ moves < MaxMoves
    /\ \/ local = NoServer /\ local' \in [model : Models, status : {"starting"}]
       \/ /\ local # NoServer
          /\ \/ local' = NoServer
             \/ \E to \in {"starting", "running", "stopping"} \ {local.status} :
                  /\ local.status # "stopping"
                  /\ local' = [local EXCEPT !.status = to]
    /\ UNCHANGED <<fleetVars, table, entries, fresh, inflight, req>>
    /\ ran' = ran \cup Listening'
    /\ moves' = moves + 1

MachinesMove ==
    /\ moves < MaxMoves
    /\ Machines
    /\ UNCHANGED <<local, table, entries, fresh, inflight, req>>
    /\ ran' = ran \cup Listening'
    /\ moves' = moves + 1

RegistryMoves ==
    /\ Registry
    /\ UNCHANGED routerVars

\* The routing table's TTL passes.
TableAges ==
    /\ fresh
    /\ fresh' = FALSE
    /\ UNCHANGED <<fleetVars, local, table, entries, inflight, req, ran, moves>>

----------------------------------------------------------------------------
(* Requests.                                                               *)

Init ==
    /\ FleetInit
    /\ local = NoServer
    /\ table = [n \in Names |-> NoTarget]
    /\ entries = {}
    /\ fresh = FALSE
    /\ inflight = [n \in Names \cup {ListName} |-> NoGroup]
    /\ \E want \in Wants :
        req = [r \in Requests |->
            [pc |-> "new", name |-> want[r], attempt |-> 1, tgt |-> NoTarget,
             near |-> NoServer, sent |-> 0, renewed |-> FALSE, reply |-> NoReply]]
    /\ ran = Listening
    /\ moves = 0

At(r, pc) == req[r].pc = pc

Goto(r, pc) == req' = [req EXCEPT ![r].pc = pc]

\* The handler writes its answer and returns, after n attempts upstream.
Returns(r, n, answer) ==
    req' = [req EXCEPT ![r] =
        [pc |-> "done", name |-> @.name, attempt |-> 1, tgt |-> NoTarget,
         near |-> NoServer, sent |-> n, renewed |-> FALSE, reply |-> answer]]

Answer(r, answer) == Returns(r, req[r].sent, answer)

\* The /v1 gate is closed, RequireAuth refuses the key, or there is no such
\* endpoint.
TurnedAway(r) == Answer(r, "turned_away")

\* What is let in has a body that names a model, or gets an error.
Accept(r) ==
    /\ At(r, "new")
    /\ Goto(r, "lookup") \/ TurnedAway(r) \/ Answer(r, "bad_request")
    /\ UNCHANGED <<fleetVars, local, table, entries, fresh, inflight, ran, moves>>

\* What a request does with the target it has found.  Only the first attempt
\* looks at warming.
Route(r, tgt) ==
    IF tgt.warming /\ req[r].attempt = 1
    THEN Answer(r, "warming")
    ELSE req' = [req EXCEPT ![r].pc = "send", ![r].tgt = tgt]

\* ListModels answers with the entries it has read.
ListModels(r) == Answer(r, "list")

\* resolve's first lookup, and ListModels' look at builtAt.
Lookup(r) ==
    LET name == req[r].name IN
    /\ At(r, "lookup")
    /\ IF ~fresh THEN Goto(r, "refresh")
       ELSE IF name = ListName THEN ListModels(r)
       ELSE IF table[name] = NoTarget THEN Goto(r, "refresh")
       ELSE Route(r, table[name])
    /\ UNCHANGED <<fleetVars, local, table, entries, fresh, inflight, ran, moves>>

\* Mutant: every request begins its own rebuild.
RefreshAlone(r) ==
    /\ At(r, "refresh")
    /\ inflight' = [inflight EXCEPT ![req[r].name] = [leader |-> r, closed |-> FALSE]]
    /\ Goto(r, "rebuild")
    /\ UNCHANGED <<fleetVars, local, table, entries, fresh, ran, moves>>

\* refresh: wait for the rebuild that is in flight for the name, or begin one.
Refresh(r) ==
    LET g == inflight[req[r].name] IN
    /\ At(r, "refresh")
    /\ IF g # NoGroup
       THEN /\ Goto(r, IF g.closed THEN "again" ELSE "wait")
            /\ UNCHANGED inflight
       ELSE /\ inflight' = [inflight EXCEPT ![req[r].name] = [leader |-> r, closed |-> FALSE]]
            /\ Goto(r, "rebuild")
    /\ UNCHANGED <<fleetVars, local, table, entries, fresh, ran, moves>>

\* rebuild reads the local machine and asks the registry for the workers.
Rebuild(r) ==
    /\ At(r, "rebuild")
    /\ req' = [req EXCEPT ![r].pc = "probing", ![r].near = local]
    /\ Snapshots(r)
    /\ UNCHANGED <<workers, cache, reloading, remote, asking, gone, flaky>>
    /\ UNCHANGED <<local, table, entries, fresh, inflight, ran, moves>>

Install(r) ==
    LET snaps == [i \in DOMAIN probes[r] |-> probes[r][i].snap]
        sources == Sources(req[r].near, snaps)
    IN  /\ At(r, "probing")
        /\ SnapshotsDone(r)
        /\ table' = [n \in Names |-> FirstTarget(sources, n)]
        /\ entries' = Listed(sources)
        /\ fresh' = TRUE
        /\ req' = [q \in Requests |->
                    [req[q] EXCEPT !.renewed = req[q].attempt = 2,
                                   !.pc = IF q = r THEN "close" ELSE @,
                                   !.near = IF q = r THEN NoServer ELSE @]]
        /\ probes' = [probes EXCEPT ![r] = <<>>]
        /\ UNCHANGED <<workers, cache, reloading, remote, asking, gone, flaky>>
        /\ UNCHANGED <<local, inflight, ran, moves>>

\* Mutant: a group that is dropped without being closed.
CloseGroupSilently(r) ==
    /\ At(r, "close")
    /\ inflight' = [inflight EXCEPT ![req[r].name].closed = TRUE]
    /\ Goto(r, "release")
    /\ UNCHANGED <<fleetVars, local, table, entries, fresh, ran, moves>>

\* close(g.done): everybody who waits for the group goes on.
CloseGroup(r) ==
    /\ At(r, "close")
    /\ inflight' = [inflight EXCEPT ![req[r].name].closed = TRUE]
    /\ req' = [q \in Requests |->
                [req[q] EXCEPT !.pc = IF q = r THEN "release"
                                      ELSE IF @ = "wait" /\ req[q].name = req[r].name THEN "again"
                                      ELSE @]]
    /\ UNCHANGED <<fleetVars, local, table, entries, fresh, ran, moves>>

ReleaseGroup(r) ==
    /\ At(r, "release")
    /\ inflight' = [inflight EXCEPT ![req[r].name] = NoGroup]
    /\ Goto(r, "again")
    /\ UNCHANGED <<fleetVars, local, table, entries, fresh, ran, moves>>

\* resolve's second lookup, which looks at builtAt again; ListModels does not.
LookupAgain(r) ==
    LET name == req[r].name IN
    /\ At(r, "again")
    /\ IF name = ListName THEN ListModels(r)
       ELSE IF ~fresh \/ table[name] = NoTarget THEN Answer(r, "not_found")
       ELSE Route(r, table[name])
    /\ UNCHANGED <<fleetVars, local, table, entries, fresh, inflight, ran, moves>>

\* Mutant: the error handler answers although a retry follows.
ForwardLoud(r) ==
    /\ At(r, "send")
    /\ req' = [req EXCEPT ![r].pc = IF req[r].attempt = 1 THEN "invalidate" ELSE "done",
                          ![r].sent = @ + 1, ![r].tgt = NoTarget,
                          ![r].reply = "bad_gateway"]
    /\ UNCHANGED <<fleetVars, local, table, entries, fresh, inflight, ran, moves>>

\* One attempt of forward.  What listens at the target answers; or the
\* connection is refused or reset, which the first attempt leaves unanswered;
\* or it fails otherwise.
Forward(r) ==
    LET tgt == req[r].tgt
        n == req[r].sent + 1
    IN  /\ At(r, "send")
        /\ \/ \E p \in Listening :
                /\ p.host = tgt.host /\ p.port = tgt.port
                /\ Returns(r, n, "upstream")
           \/ /\ req[r].attempt = 1
              /\ req' = [req EXCEPT ![r].pc = "invalidate", ![r].sent = n, ![r].tgt = NoTarget]
           \/ Returns(r, n, "bad_gateway")
        /\ UNCHANGED <<fleetVars, local, table, entries, fresh, inflight, ran, moves>>

\* Mutant: the name is dropped and the table keeps its age.
InvalidateName(r) ==
    /\ At(r, "invalidate")
    /\ table' = [table EXCEPT ![req[r].name] = NoTarget]
    /\ req' = [req EXCEPT ![r].pc = "lookup", ![r].attempt = 2]
    /\ UNCHANGED <<fleetVars, local, entries, fresh, inflight, ran, moves>>

\* Mutant: the retry looks the name up in the table it has.
InvalidateNothing(r) ==
    /\ At(r, "invalidate")
    /\ req' = [req EXCEPT ![r].pc = "lookup", ![r].attempt = 2]
    /\ UNCHANGED <<fleetVars, local, table, entries, fresh, inflight, ran, moves>>

Invalidate(r) ==
    /\ At(r, "invalidate")
    /\ table' = [table EXCEPT ![req[r].name] = NoTarget]
    /\ fresh' = FALSE
    /\ req' = [req EXCEPT ![r].pc = "lookup", ![r].attempt = 2]
    /\ UNCHANGED <<fleetVars, local, entries, inflight, ran, moves>>

Serve(r) ==
    \/ Accept(r) \/ Lookup(r) \/ Refresh(r) \/ Rebuild(r) \/ Install(r)
    \/ CloseGroup(r) \/ ReleaseGroup(r) \/ LookupAgain(r)
    \/ Forward(r) \/ Invalidate(r)

Next ==
    \/ LocalMoves \/ MachinesMove \/ RegistryMoves \/ TableAges
    \/ \E r \in Requests : Serve(r)

\* A request goes on, and so do the probes it waits for; nothing is assumed of
\* the machines and clients.
Fairness ==
    \A r \in Requests : WF_vars(Serve(r) \/ (Probe(r) /\ UNCHANGED routerVars))

Spec == Init /\ [][Next]_vars /\ Fairness

----------------------------------------------------------------------------
Pc == {"new", "lookup", "refresh", "wait", "rebuild", "probing", "close", "release",
       "again", "send", "invalidate", "done"}

Request == [pc : Pc, name : Names \cup {ListName}, attempt : 1..2,
            tgt : Target \cup {NoTarget}, near : RunningServer \cup {NoServer},
            sent : 0..2, renewed : BOOLEAN, reply : Replies \cup {NoReply}]

\* Types; the list has one name for each model.
RouterTypeOK ==
    /\ FleetTypeOK
    /\ local \in RunningServer \cup {NoServer}
    /\ table \in [Names -> Target \cup {NoTarget}]
    /\ entries \subseteq Published
    /\ moves \in 0..MaxMoves
    /\ fresh \in BOOLEAN
    /\ inflight \in [Names \cup {ListName} -> Group \cup {NoGroup}]
    /\ req \in [Requests -> Request]

\* refresh rebuilds the table at most once per name concurrently.
SingleFlight ==
    \A n \in Names \cup {ListName} :
        Cardinality({r \in Requests :
            /\ req[r].name = n
            /\ req[r].pc \in {"rebuild", "probing", "close"}}) <= 1

\* Whoever waits for a rebuild waits for one that somebody makes and has not ended: the
\* group in flight for the name is open, and its leader is still on the way to closing it
\* (proxy.go:118-141).
WaitersAreLed ==
    \A r \in Requests : At(r, "wait") =>
        LET g == inflight[req[r].name] IN
        /\ g # NoGroup /\ ~g.closed
        /\ req[g.leader].name = req[r].name
        /\ req[g.leader].pc \in {"rebuild", "probing", "close"}

\* Whatever GET /v1/models lists from a table that is not too old can be
\* resolved in it: an invalidated name does not stay listed.
ListedIsRouted == fresh => \A n \in entries : table[n] # NoTarget

\* A request is only ever sent to a place where a model of the name it asked
\* for has listened, however old the snapshots its target was made of.
SentWhereItRan ==
    \A r \in Requests : At(r, "send") =>
        \E p \in ran : /\ p.host = req[r].tgt.host
                       /\ p.port = req[r].tgt.port
                       /\ req[r].name \in NamesOf(p.model)

\* The second attempt goes to a target of a table installed after the first
\* one failed, never to the entry that proved stale.
RetryIsRenewed ==
    \A r \in Requests : At(r, "send") /\ req[r].attempt = 2 => req[r].renewed

\* Every request is answered, whatever the machines and the other requests do:
\* a request that is not ended is never stuck, in a group least of all.
RequestAnswered == <>[](\A r \in Requests : At(r, "done"))

\* Each request is an Exchange.
Exchanges == INSTANCE Exchange WITH
    sent <- [r \in Requests |-> req[r].sent],
    answer <- [r \in Requests |-> req[r].reply],
    Answers <- Replies,
    NoAnswer <- NoReply

ExchangeSpec == Exchanges!Spec
=============================================================================
