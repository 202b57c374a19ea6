---------------------------- MODULE ServingSlot ----------------------------
(***************************************************************************)
(* What the server manager promises about llama-server processes, whatever *)
(* starts, stops, crashes and polls come together: at any time at most one *)
(* process serves, a process serves at most once, and it is let go only    *)
(* when it has ended or has been killed.  There is no step that forgets a  *)
(* live process, and none that replaces it.                                *)
(***************************************************************************)
CONSTANTS
    Process,  \* processes
    NoProcess \* nothing serves: not a process

VARIABLES
    serving,  \* the process in the slot
    served,   \* the processes that have ever been in the slot
    gone      \* the processes that have ended or have been killed

vars == <<serving, served, gone>>

Init ==
    /\ serving = NoProcess
    /\ served = {}
    /\ gone = {}

\* A new process takes the slot; one that crashed is replaced by its restart.
Serve(p) ==
    /\ serving = NoProcess \/ serving \in gone
    /\ p \notin served
    /\ serving' = p
    /\ served' = served \cup {p}
    /\ UNCHANGED gone

Go(p) ==
    /\ gone' = gone \cup {p}
    /\ UNCHANGED <<serving, served>>

Release ==
    /\ serving \in gone
    /\ serving' = NoProcess
    /\ UNCHANGED <<served, gone>>

Next ==
    \/ Release
    \/ \E p \in Process : Serve(p) \/ Go(p)

Spec == Init /\ [][Next]_vars
=============================================================================
