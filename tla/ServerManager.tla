--------------------------- MODULE ServerManager ---------------------------
(***************************************************************************)
(* manager.ServerManager (src/manager/manager.go): the one slot sm.server, *)
(* the goroutine launchServer that every accepted StartModel starts, the   *)
(* callers of StopModel, the pollers of GetCurrentServer and the child     *)
(* processes.  sm.mutex guards single critical sections only, so each      *)
(* critical section, each context check and each system call is one step   *)
(* and everything else interleaves between them.                           *)
(*                                                                         *)
(* A launch is one accepted StartModel, its goroutine and its context.  A  *)
(* pid is <<l, n>>: the process of launch l's attempt number n, where n is *)
(* the launch's crashCount when it was spawned; pid 0 of the code is NoPid *)
(* and the operating system never reuses a pid.                            *)
(***************************************************************************)
EXTENDS Naturals

CONSTANTS
    Models,      \* model names
    Launches,    \* the starts that may be accepted in one behaviour (a bound)
    ModelOf,     \* the model each of these starts asks for
    Stoppers,    \* callers of StopModel that may be active at once (a bound)
    MaxRetries,  \* sm.maxRetries
    ConfigSets,  \* the sets of startable models a reload may install
    AnyModel,    \* the empty name StopCurrent passes to StopModel
    NoServer,    \* sm.server = nil
    NoPid,       \* pid 0: not started, or not registered
    NoLaunch     \* the owner of the context that New creates and drops

Pid == Launches \X (0 .. MaxRetries)
Status == {"starting", "running", "stopping"}
Server == [launch : Launches, pid : Pid \cup {NoPid}, status : Status]

ASSUME ConstantsAssumption ==
    /\ MaxRetries \in Nat
    /\ ModelOf \in [Launches -> Models]
    /\ ConfigSets \subseteq SUBSET Models
    /\ NoServer \notin Server
    /\ NoPid \notin Pid
    /\ NoLaunch \notin Launches

VARIABLES
    server,      \* sm.server, with the launch that created the record
    configs,     \* the models StartModel finds in sm.configs and validates
    cancelFunc,  \* the launch whose context sm.cancelFunc cancels
    cancelled,   \* the launches whose context is done
    pc,          \* where each launchServer goroutine is
    crashes,     \* its crashCount
    registered,  \* its registeredPID
    proc,        \* the state of the process of its current attempt
    stopPc,      \* where each caller of StopModel is
    stopPid,     \* the pid it read under the lock
    stopLaunch,  \* the launch it found in the slot (what it means to stop)
    panicked     \* launchServer dereferenced a nil sm.server: no manager left

launchVars == <<pc, crashes, registered, proc>>
stopVars == <<stopPc, stopPid, stopLaunch>>
vars == <<server, configs, cancelFunc, cancelled, launchVars, stopVars, panicked>>

LaunchPc == {"idle", "entry", "top", "start", "started", "killCancelled",
             "clearOrphan", "claim", "killUnclaimed", "wait", "failed",
             "clean", "mark", "clear", "done"}
StopPc == {"idle", "cancel", "kill", "clear"}

(* A process that was sent SIGKILL is dying until the kernel has removed   *)
(* it; one that has exited or crashed is a zombie until Wait reaps it.     *)
ProcState == {"none", "alive", "dying", "exited", "crashed", "reaped"}

TypeOK ==
    /\ server \in Server \cup {NoServer}
    /\ configs \in ConfigSets
    /\ cancelFunc \in Launches \cup {NoLaunch}
    /\ cancelled \subseteq Launches
    /\ pc \in [Launches -> LaunchPc]
    /\ crashes \in [Launches -> 0 .. MaxRetries]
    /\ registered \in [Launches -> Pid \cup {NoPid}]
    /\ proc \in [Launches -> ProcState]
    /\ stopPc \in [Stoppers -> StopPc]
    /\ stopPid \in [Stoppers -> Pid \cup {NoPid}]
    /\ stopLaunch \in [Stoppers -> Launches \cup {NoLaunch}]
    /\ panicked \in BOOLEAN

Init ==
    /\ server = NoServer
    /\ configs \in ConfigSets
    /\ cancelFunc = NoLaunch
    /\ cancelled = {}
    /\ pc = [l \in Launches |-> "idle"]
    /\ crashes = [l \in Launches |-> 0]
    /\ registered = [l \in Launches |-> NoPid]
    /\ proc = [l \in Launches |-> "none"]
    /\ stopPc = [s \in Stoppers |-> "idle"]
    /\ stopPid = [s \in Stoppers |-> NoPid]
    /\ stopLaunch = [s \in Stoppers |-> NoLaunch]
    /\ panicked = FALSE

-----------------------------------------------------------------------------
(* Processes.                                                              *)

\* The pid of the process launch l has spawned, or spawns next.
CurrentPid(l) == <<l, crashes[l]>>

\* kill(pid, 0) succeeds: the process is there, if only as a zombie.
IsProcessAlive(p) ==
    /\ p[2] = crashes[p[1]]
    /\ proc[p[1]] \in {"alive", "dying", "exited", "crashed"}

\* Mutant: the group is never killed.
KillNobody(p) == UNCHANGED proc

\* kill(-pid, SIGKILL).
KillProcessGroup(p) ==
    proc' = IF p = CurrentPid(p[1]) /\ proc[p[1]] = "alive"
            THEN [proc EXCEPT ![p[1]] = "dying"]
            ELSE proc

\* The process ends by itself, or because it was killed.
ProcessExit(l) ==
    /\ \E how \in {"exited", "crashed"} :
          /\ \/ proc[l] = "alive"
             \/ proc[l] = "dying" /\ how = "crashed"
          /\ proc' = [proc EXCEPT ![l] = how]
    /\ UNCHANGED <<server, configs, cancelFunc, cancelled, pc, crashes,
                   registered, stopVars, panicked>>

-----------------------------------------------------------------------------
(* Requests that are one critical section.                                 *)

\* Mutants: whatever is in the slot is cleared; a slot that is stopping stays.
ClearServerState(p) == server' = NoServer

ClearUnlessStopping(p) ==
    server' = IF server # NoServer /\ server.pid = p /\ server.status # "stopping"
              THEN NoServer
              ELSE server

ClearServerStateIfPIDMatches(p) ==
    server' = IF server # NoServer /\ server.pid = p THEN NoServer ELSE server

\* Mutant: the context of the previous launch stays alive.
StartModelKeepsContext(l) ==
    /\ ~panicked
    /\ server = NoServer
    /\ ModelOf[l] \in configs
    /\ pc[l] = "idle"
    /\ cancelFunc' = l
    /\ server' = [launch |-> l, pid |-> NoPid, status |-> "starting"]
    /\ pc' = [pc EXCEPT ![l] = "entry"]
    /\ UNCHANGED <<configs, cancelled, crashes, registered, proc, stopVars, panicked>>

\* Accepted start: the slot is free, the model is configured and valid.
StartModel(l) ==
    /\ ~panicked
    /\ server = NoServer
    /\ ModelOf[l] \in configs
    /\ pc[l] = "idle"
    /\ cancelled' = cancelled \cup ({cancelFunc} \cap Launches)
    /\ cancelFunc' = l
    /\ server' = [launch |-> l, pid |-> NoPid, status |-> "starting"]
    /\ pc' = [pc EXCEPT ![l] = "entry"]
    /\ UNCHANGED <<configs, crashes, registered, proc, stopVars, panicked>>

\* A status query drops a running server whose process is gone.
ProcessLost ==
    server # NoServer /\ server.status = "running" /\ ~IsProcessAlive(server.pid)

GetCurrentServer ==
    /\ ~panicked
    /\ ProcessLost
    /\ server' = NoServer
    /\ UNCHANGED <<configs, cancelFunc, cancelled, launchVars, stopVars, panicked>>

ReloadConfigs(c) ==
    /\ ~panicked
    /\ configs' = c
    /\ UNCHANGED <<server, cancelFunc, cancelled, launchVars, stopVars, panicked>>

-----------------------------------------------------------------------------
(* The goroutine launchServer of launch l.                                 *)

Goto(l, from, to) ==
    /\ ~panicked
    /\ pc[l] = from
    /\ pc' = [pc EXCEPT ![l] = to]

\* sm.server.Status = StatusStarting, without looking whether sm.server is nil
\* or whose record it is.
LaunchEntry(l) ==
    /\ Goto(l, "entry", "top")
    /\ IF server = NoServer
       THEN panicked' = TRUE /\ UNCHANGED server
       ELSE server' = [server EXCEPT !.status = "starting"] /\ UNCHANGED panicked
    /\ UNCHANGED <<configs, cancelFunc, cancelled, crashes, registered, proc, stopVars>>

\* The context check at the top of every iteration; reached after the back-off
\* of a restart, too.
LaunchTop(l) ==
    /\ Goto(l, "top", IF l \in cancelled THEN "clear" ELSE "start")
    /\ UNCHANGED <<server, configs, cancelFunc, cancelled, crashes,
                   registered, proc, stopVars, panicked>>

\* cmd.Start fails, or there is a new process.
LaunchStart(l) ==
    /\ \/ Goto(l, "start", "clear") /\ UNCHANGED proc
       \/ Goto(l, "start", "started") /\ proc' = [proc EXCEPT ![l] = "alive"]
    /\ UNCHANGED <<server, configs, cancelFunc, cancelled, crashes,
                   registered, stopVars, panicked>>

\* The context check after cmd.Start.
LaunchStarted(l) ==
    /\ Goto(l, "started", IF l \in cancelled THEN "killCancelled" ELSE "claim")
    /\ UNCHANGED <<server, configs, cancelFunc, cancelled, crashes,
                   registered, proc, stopVars, panicked>>

\* killProcessGroup(pid) of a process that will not be waited for.
LaunchKillOrphan(l) ==
    /\ \/ Goto(l, "killCancelled", "clearOrphan")
       \/ Goto(l, "killUnclaimed", "done")
    /\ KillProcessGroup(CurrentPid(l))
    /\ UNCHANGED <<server, configs, cancelFunc, cancelled, crashes,
                   registered, stopVars, panicked>>

\* Mutant: whoever has a process takes the slot.
MayAlwaysClaim(l) == server # NoServer

MayClaim(l) == server # NoServer /\ server.pid \in {NoPid, registered[l]}

\* The slot becomes ours when it holds pid 0 or the pid registered before.
LaunchClaim(l) ==
    /\ IF MayClaim(l)
       THEN /\ Goto(l, "claim", "wait")
            /\ server' = [server EXCEPT !.pid = CurrentPid(l), !.status = "running"]
            /\ registered' = [registered EXCEPT ![l] = CurrentPid(l)]
       ELSE /\ Goto(l, "claim", "killUnclaimed")
            /\ UNCHANGED <<server, registered>>
    /\ UNCHANGED <<configs, cancelFunc, cancelled, crashes, proc, stopVars, panicked>>

\* cmd.Wait reaps the process and returns how it ended.
LaunchWait(l) ==
    /\ \/ proc[l] = "crashed" /\ Goto(l, "wait", "failed")
       \/ proc[l] = "exited" /\ Goto(l, "wait", "clean")
    /\ proc' = [proc EXCEPT ![l] = "reaped"]
    /\ UNCHANGED <<server, configs, cancelFunc, cancelled, crashes,
                   registered, stopVars, panicked>>

\* The context is done, the process ended cleanly, or crashed once too often.
LaunchGiveUp(l) ==
    /\ \/ Goto(l, "failed", "clear") /\ (l \in cancelled \/ crashes[l] >= MaxRetries)
       \/ Goto(l, "clean", "clear")
    /\ UNCHANGED <<server, configs, cancelFunc, cancelled, crashes,
                   registered, proc, stopVars, panicked>>

\* Mutant: crashes are not counted.
LaunchRetryForever(l) ==
    /\ l \notin cancelled
    /\ Goto(l, "failed", "mark")
    /\ proc' = [proc EXCEPT ![l] = "none"]
    /\ UNCHANGED <<server, configs, cancelFunc, cancelled, crashes, registered,
                   stopVars, panicked>>

\* crashCount++ with retries left: the next attempt has no process yet.
LaunchRetry(l) ==
    /\ l \notin cancelled
    /\ crashes[l] < MaxRetries
    /\ Goto(l, "failed", "mark")
    /\ crashes' = [crashes EXCEPT ![l] = @ + 1]
    /\ proc' = [proc EXCEPT ![l] = "none"]
    /\ UNCHANGED <<server, configs, cancelFunc, cancelled, registered, stopVars, panicked>>

\* The slot goes back to starting if it is still ours; then the back-off.
LaunchMark(l) ==
    /\ Goto(l, "mark", "top")
    /\ server' = IF server # NoServer /\ server.pid = registered[l]
                 THEN [server EXCEPT !.status = "starting"]
                 ELSE server
    /\ UNCHANGED <<configs, cancelFunc, cancelled, crashes, registered,
                   proc, stopVars, panicked>>

LaunchClear(l) ==
    /\ \/ Goto(l, "clear", "done") /\ ClearServerStateIfPIDMatches(registered[l])
       \/ Goto(l, "clearOrphan", "done") /\ ClearServerStateIfPIDMatches(CurrentPid(l))
    /\ UNCHANGED <<configs, cancelFunc, cancelled, crashes, registered,
                   proc, stopVars, panicked>>

LaunchServer(l) ==
    \/ LaunchEntry(l) \/ LaunchTop(l) \/ LaunchStart(l) \/ LaunchStarted(l)
    \/ LaunchKillOrphan(l) \/ LaunchClaim(l) \/ LaunchWait(l) \/ LaunchGiveUp(l)
    \/ LaunchRetry(l) \/ LaunchMark(l) \/ LaunchClear(l)

-----------------------------------------------------------------------------
(* A caller s of StopModel (or of StopCurrent: name = AnyModel).           *)

StopModel(s, name) ==
    /\ ~panicked
    /\ stopPc[s] = "idle"
    /\ server # NoServer
    /\ server.status \in {"running", "starting"}
    /\ name \in {AnyModel, ModelOf[server.launch]}
    /\ stopPid' = [stopPid EXCEPT ![s] = server.pid]
    /\ stopLaunch' = [stopLaunch EXCEPT ![s] = server.launch]
    /\ server' = [server EXCEPT !.status = "stopping"]
    /\ stopPc' = [stopPc EXCEPT ![s] = "cancel"]
    /\ UNCHANGED <<configs, cancelFunc, cancelled, launchVars, panicked>>

\* sm.cancelFunc() is read after the unlock.  Reading and calling are one step:
\* a StartModel in between has already cancelled what was read.
StopCancel(s) ==
    /\ ~panicked
    /\ stopPc[s] = "cancel"
    /\ cancelled' = cancelled \cup ({cancelFunc} \cap Launches)
    /\ stopPc' = [stopPc EXCEPT ![s] = IF stopPid[s] = NoPid THEN "clear" ELSE "kill"]
    /\ UNCHANGED <<server, configs, cancelFunc, launchVars, stopPid, stopLaunch, panicked>>

StopKill(s) ==
    /\ ~panicked
    /\ stopPc[s] = "kill"
    /\ KillProcessGroup(stopPid[s])
    /\ stopPc' = [stopPc EXCEPT ![s] = "clear"]
    /\ UNCHANGED <<server, configs, cancelFunc, cancelled, pc, crashes,
                   registered, stopPid, stopLaunch, panicked>>

\* The slot is cleared if it still holds the pid read, and StopModel returns nil.
StopClear(s) ==
    /\ ~panicked
    /\ stopPc[s] = "clear"
    /\ ClearServerStateIfPIDMatches(stopPid[s])
    /\ stopPc' = [stopPc EXCEPT ![s] = "idle"]
    /\ stopPid' = [stopPid EXCEPT ![s] = NoPid]
    /\ stopLaunch' = [stopLaunch EXCEPT ![s] = NoLaunch]
    /\ UNCHANGED <<configs, cancelFunc, cancelled, launchVars, panicked>>

StopStep(s) == StopCancel(s) \/ StopKill(s) \/ StopClear(s)

-----------------------------------------------------------------------------
\* A panic in a goroutine ends the manager; its children run on.
Next ==
    \/ \E l \in Launches : StartModel(l) \/ LaunchServer(l) \/ ProcessExit(l)
    \/ \E s \in Stoppers :
          \/ \E name \in Models \cup {AnyModel} : StopModel(s, name)
          \/ StopStep(s)
    \/ \E c \in ConfigSets : ReloadConfigs(c)
    \/ GetCurrentServer

Spec == Init /\ [][Next]_vars

(* The Go scheduler runs every goroutine that can run, the kernel removes  *)
(* every process it was told to kill.  Nobody has to start, stop or poll,  *)
(* and a healthy server need not end.                                      *)
Fairness ==
    /\ \A l \in Launches : WF_vars(LaunchServer(l))
    /\ \A s \in Stoppers : WF_vars(StopStep(s))
    /\ \A l \in Launches : WF_vars(proc[l] = "dying" /\ ProcessExit(l))

FairSpec == Spec /\ Fairness
-----------------------------------------------------------------------------
(* Properties.                                                             *)

Holds(p) == server # NoServer /\ server.pid = p

\* Safety: no process is lost.  While the manager is up, a live llama-server is
\* either in the hands of the launcher that just spawned it, or is the one the slot
\* names, so that a stop or a shutdown can reach it (manager.go:244-274, 507).
NoOrphan ==
    \A l \in Launches :
        ~panicked /\ proc[l] = "alive" =>
            \/ pc[l] \in {"started", "killCancelled", "claim", "killUnclaimed"}
            \/ pc[l] = "wait" /\ Holds(CurrentPid(l))

\* Safety: at most one launch may still start or restart a process; the context of
\* every earlier one is done (manager.go:114-119).
OneLiveContext ==
    \A l \in Launches :
        pc[l] \notin {"idle", "done"} /\ l \notin cancelled => l = cancelFunc

\* Liveness: a process that no longer has the slot, or never got it, is killed
\* (manager.go:244-255, 268-273).
OrphanKilled ==
    \A l \in Launches :
        (pc[l] \in {"started", "claim"} /\ proc[l] = "alive") ~>
            (panicked \/ proc[l] # "alive" \/ Holds(CurrentPid(l)))

\* Liveness: crash loops end: from some point on, every launcher waits for its
\* process or has returned (manager.go:198-326).
LaunchSettles ==
    \A l \in Launches : <>[](panicked \/ pc[l] \in {"idle", "wait", "done"})

\* Liveness: StatusStopping does not last (manager.go:487-507).
StoppingEnds ==
    (server # NoServer /\ server.status = "stopping") ~>
        (panicked \/ server = NoServer \/ server.status # "stopping")

\* Comment manager.go:493-496: a stop that reads pid 0 relies on the launcher to
\* kill what it spawns.  So the launch a stop found in the slot does not run in
\* the slot when the stop returns nil.
StopReturnsStopped ==
    [][\A s \in Stoppers :
          StopClear(s) => ~(/\ server' # NoServer
                            /\ server'.launch = stopLaunch[s]
                            /\ server'.status = "running")]_vars

\* README.md:24, manager.go:493-496: no order of requests ends the daemon.
NeverPanics == ~panicked

\* README.md:95: a crash with retries left is followed by a restart: when the
\* back-off ends and nobody cancelled the launch, its slot is still there.
RestartKeepsSlot ==
    \A l \in Launches :
        pc[l] = "top" /\ crashes[l] > 0 /\ l \notin cancelled => Holds(registered[l])

\* Comment manager.go:244-246: a launcher that is cancelled after cmd.Start bails out for
\* a stop that "saw PID 0", and docs/coordinator-design.md:164 takes a machine that reports
\* starting for one that is warming.  So a record without a process does not stay starting:
\* it is given one, or the slot is freed.
StartingEnds ==
    (server # NoServer /\ server.status = "starting" /\ server.pid = NoPid) ~>
        (\/ panicked \/ server = NoServer
         \/ server.status # "starting" \/ server.pid # NoPid)

(* Refinement: the slot, the processes and their registrations implement   *)
(* ServingSlot.                                                            *)
Serving == IF server = NoServer THEN NoPid ELSE server.pid
Served == {p \in Pid : p[2] < crashes[p[1]] \/ p = registered[p[1]]}
Gone == {p \in Pid :
            \/ p[2] < crashes[p[1]]
            \/ p[2] = crashes[p[1]] /\ proc[p[1]] \notin {"none", "alive"}}

Slot == INSTANCE ServingSlot WITH
            Process <- Pid,
            NoProcess <- NoPid,
            serving <- Serving,
            served <- Served,
            gone <- Gone

\* Refinement: the slot never forgets or replaces a live process.
SlotSpec == Slot!Spec

\* Safety: a stop that has read a pid keeps its word: when it returns, that process has
\* been killed or has ended, and the slot does not name it any more, whatever launchers,
\* pollers and other stops did meanwhile (manager.go:469-508).
StopEndsItsProcess ==
    [][\A s \in Stoppers :
          StopClear(s) /\ stopPid[s] # NoPid =>
              /\ stopPid[s] \in Gone
              /\ server' = NoServer \/ server'.pid # stopPid[s]]_vars
=============================================================================
