-------------------------------- MODULE App --------------------------------
(***************************************************************************)
(* server.App around the ServerManager (src/server/server.go): HTTP        *)
(* requests reach the manager until SIGINT or SIGTERM; Shutdown then waits *)
(* at most 30 seconds for the requests in flight, stops the watcher, stops *)
(* the model in the slot and lets main return, which ends the process and  *)
(* all its goroutines, but none of the llama-server children.              *)
(***************************************************************************)
EXTENDS ServerManager

CONSTANT Shutdowner  \* the goroutine of main, as a caller of StopCurrent

ASSUME ShutdownerAssumption == Shutdowner \in Stoppers

VARIABLES
    phase,      \* how far App.Start has come
    streaming,  \* a /v1 generation is in flight: it may last for minutes
    held        \* the pid in the slot when Shutdown looked at it

appVars == <<phase, streaming, held>>
allVars == <<vars, appVars>>

Exited == {"exited", "aborted"}
Phase == {"serving", "draining", "closing", "stopping", "stopped"} \cup Exited

AppTypeOK ==
    /\ TypeOK
    /\ phase \in Phase
    /\ streaming \in BOOLEAN
    /\ held \in Pid \cup {NoPid}

AppInit ==
    /\ Init
    /\ phase = "serving"
    /\ streaming = FALSE
    /\ held = NoPid

Handlers == Stoppers \ {Shutdowner}

-----------------------------------------------------------------------------
(* Requests: accepted while serving, and while draining if already in.     *)

\* Mutant: handlers accept requests until the process exits.
RequestUntilExit ==
    /\ phase \notin Exited
    /\ \/ \E l \in Launches : StartModel(l)
       \/ \E s \in Handlers, name \in Models \cup {AnyModel} : StopModel(s, name)
       \/ GetCurrentServer
    /\ UNCHANGED appVars

Request ==
    /\ phase \in {"serving", "draining"}
    /\ \/ \E l \in Launches : StartModel(l)
       \/ \E s \in Handlers, name \in Models \cup {AnyModel} : StopModel(s, name)
       \/ GetCurrentServer
    /\ UNCHANGED appVars

Reload ==
    /\ phase \in {"serving", "draining"}
    /\ \E c \in ConfigSets : ReloadConfigs(c)
    /\ UNCHANGED appVars

StreamBegins ==
    /\ phase = "serving" /\ ~panicked
    /\ ~streaming
    /\ streaming' = TRUE
    /\ UNCHANGED <<vars, phase, held>>

StreamEnds ==
    /\ phase \notin Exited /\ ~panicked
    /\ streaming
    /\ streaming' = FALSE
    /\ UNCHANGED <<vars, phase, held>>

-----------------------------------------------------------------------------
(* Goroutines and children.                                                *)

Launcher(l) == phase \notin Exited /\ LaunchServer(l) /\ UNCHANGED appVars

Stopper(s) == phase \notin Exited /\ StopStep(s) /\ UNCHANGED appVars

Child(l) == ProcessExit(l) /\ UNCHANGED appVars

-----------------------------------------------------------------------------
(* App.Shutdown.                                                           *)

Signal ==
    /\ phase = "serving" /\ ~panicked
    /\ phase' = "draining"
    /\ UNCHANGED <<vars, streaming, held>>

\* httpSrv.Shutdown returns nil: no request is in flight.
Drained ==
    /\ phase = "draining" /\ ~panicked
    /\ ~streaming /\ \A s \in Handlers : stopPc[s] = "idle"
    /\ phase' = "closing"
    /\ UNCHANGED <<vars, streaming, held>>

\* Mutant: the shutdown context has no deadline.
DrainForever == FALSE

\* httpSrv.Shutdown gives up after 30 seconds.  Only a generation lasts that long.
DrainTimeout ==
    /\ phase = "draining" /\ ~panicked
    /\ streaming
    /\ phase' = "aborted"
    /\ UNCHANGED <<vars, streaming, held>>

\* The watcher has ended; GetCurrentServer returns the server in the slot, or nil.
LookAtSlot ==
    /\ phase = "closing" /\ ~panicked
    /\ \/ GetCurrentServer
       \/ ~ProcessLost /\ UNCHANGED vars
    /\ phase' = IF server' = NoServer THEN "exited" ELSE "stopping"
    /\ held' = Serving'
    /\ UNCHANGED streaming

\* StopCurrent is accepted, or finds nothing it can stop.
StopSlot ==
    /\ phase = "stopping"
    /\ StopModel(Shutdowner, AnyModel)
    /\ phase' = "stopped"
    /\ UNCHANGED <<streaming, held>>

StopRefused ==
    /\ phase = "stopping" /\ ~panicked
    /\ server # NoServer => server.status = "stopping"
    /\ phase' = "exited"
    /\ UNCHANGED <<vars, streaming, held>>

\* Mutant: Shutdown does not wait for StopCurrent.
ExitAtOnce ==
    /\ phase = "stopped" /\ ~panicked
    /\ phase' = "exited"
    /\ UNCHANGED <<vars, streaming, held>>

\* StopCurrent has returned; so does main.
Exit ==
    /\ phase = "stopped" /\ ~panicked
    /\ stopPc[Shutdowner] = "idle"
    /\ phase' = "exited"
    /\ UNCHANGED <<vars, streaming, held>>

Shutdown == Drained \/ DrainTimeout \/ LookAtSlot \/ StopSlot \/ StopRefused \/ Exit

-----------------------------------------------------------------------------
AppNext ==
    \/ Request \/ Reload \/ StreamBegins \/ StreamEnds
    \/ \E l \in Launches : Launcher(l) \/ Child(l)
    \/ \E s \in Stoppers : Stopper(s)
    \/ Signal \/ Shutdown

AppSpec == AppInit /\ [][AppNext]_allVars

(* Goroutines run, and the 30 seconds pass; a generation need not end, and *)
(* nobody has to send the signal.                                          *)
AppFairness ==
    /\ \A l \in Launches : WF_allVars(Launcher(l))
    /\ \A s \in Stoppers : WF_allVars(Stopper(s))
    /\ WF_allVars(Shutdown)

AppFairSpec == AppSpec /\ AppFairness

-----------------------------------------------------------------------------
(* Properties.                                                             *)

\* Safety: once httpSrv.Shutdown has returned nil nothing takes the slot any more,
\* so what Shutdown stops is the last server (server.go:481-494).
NothingStartsAfterDrain ==
    [][phase \notin {"serving", "draining"} /\ server = NoServer => server' = NoServer]_allVars

\* Safety: the process that held the slot when Shutdown looked is dead or has been
\* killed when main returns, even if it crashed, restarted or was cleared in
\* between (server.go:489-494).
HeldIsGone ==
    phase = "exited" /\ held # NoPid => held \in Gone

\* Liveness: the signal ends the process, whatever requests are in flight and
\* whatever the launchers are doing (server.go:473-497).
ShutdownEnds == phase = "draining" ~> phase \in Exited \/ panicked
=============================================================================
