---------------------------- MODULE MachineStore ---------------------------
(***************************************************************************)
(* The web UI's store of what it knows about a machine: which model runs   *)
(* there, the fleet behind it, and whether its proxy is on.  The Fleet     *)
(* page, the Machine page, the buttons that start and stop models and the  *)
(* proxy switch all refresh it, each with requests of its own that are     *)
(* answered later, in any order; whoever is answered last writes last.     *)
(***************************************************************************)
EXTENDS Naturals

CONSTANTS
    Models,
    Idle,       \* no model runs
    Rests,      \* the rest of a config file
    FirstFile,  \* the machine's config file at first
    Views,      \* refreshes by the Machine page and by the switch in flight (a bound)
    Actions,    \* refreshes after a start or a stop in flight (a bound)
    Changes,    \* changeProxy in flight (a bound)
    Unknown,    \* undefined: not asked yet, or not known
    Null,       \* null: no fleet view
    Offline,
    NoFile,
    NoCall,     \* no request is in flight
    MaxWork     \* what the user, others and the network do (a bound)

VARIABLES
    up, legacy, \* the machine can be reached; it is too old for a fleet and a proxy
    run,        \* what it runs
    file,       \* its config file, which it has applied
    statuses, fleetViews, proxies,  \* what the store has about it
    view,       \* the page on the screen
    refreshInFlight,
    pollingStatus, \* the Machine page's poll, if it waits
    busy,       \* the proxy switch's change, if it waits
    calls,      \* requests in flight
    work        \* what the user, others and the network have done so far

host == <<up, legacy, run, file>>
store == <<statuses, fleetViews, proxies>>
flags == <<view, refreshInFlight, pollingStatus, busy>>
vars == <<host, store, flags, calls, work>>

Runs == Models \cup {Idle}
File == [proxy : BOOLEAN, rest : Rests]

\* The two halves of refreshAll.
All == {"fleet", "proxy"}
Slots == All \cup Views \cup Actions \cup Changes

\* A save that has passed its If-Match check and holds saveMu; overtaken if others have
\* written the file since (history: the machine does not notice).
Writing == {"checked", "overtaken"}

\* A request with what is answered.  A proxy is on, or shall be; a save carries the
\* version it was made from.
Call == [kind : {"fleet", "running", "proxy", "config", "save"}, on : BOOLEAN,
         status : {"pending", "ok", "missing", "failed"} \cup Writing,
         run : Runs \cup {Unknown}, file : File \cup {NoFile}]

ASSUME StoreAssumption ==
    /\ Idle \notin Models
    /\ Runs \cap {Unknown, Null, Offline} = {}
    /\ Unknown \notin {Null, Offline} \cup BOOLEAN
    /\ FirstFile \in File /\ NoFile \notin File
    /\ NoCall \notin Call \cup Views \cup Changes
    /\ All \cap (Views \cup Actions \cup Changes) = {}
    /\ MaxWork \in Nat

Ask(kind, on, f) == [kind |-> kind, on |-> on, status |-> "pending",
                     run |-> Unknown, file |-> f]

\* A question of a refresh.
Get(kind) == Ask(kind, FALSE, NoFile)

Open(c) == calls[c] # NoCall /\ calls[c].status \in {"pending"} \cup Writing
Answered(c) == calls[c] # NoCall /\ ~Open(c)

Works == work < MaxWork /\ work' = work + 1

Init ==
    /\ up = TRUE /\ legacy \in BOOLEAN
    /\ run \in Runs /\ file = FirstFile
    /\ statuses = Unknown /\ fleetViews = Unknown /\ proxies = Unknown
    /\ view = "fleet"
    /\ refreshInFlight = TRUE /\ pollingStatus = NoCall /\ busy = NoCall
    /\ calls = [c \in Slots |-> IF c \in All THEN Get(c) ELSE NoCall]
    /\ work = 0

-----------------------------------------------------------------------------
(* The machine, and others who use it.                                     *)

\* Every save that has compared by now is overtaken.
Overtake ==
    calls' = [c \in Slots |-> IF calls[c] # NoCall /\ calls[c].status = "checked"
                             THEN [calls[c] EXCEPT !.status = "overtaken"] ELSE calls[c]]

Others ==
    /\ Works
    /\ \/ run' \in Runs \ {run} /\ UNCHANGED <<up, file, calls>>
       \/ file' \in File \ {file} /\ Overtake /\ UNCHANGED <<up, run>>
       \/ up' = ~up /\ UNCHANGED <<run, file, calls>>
    /\ UNCHANGED <<legacy, store, flags>>

Answers(c, call) == calls' = [calls EXCEPT ![c] = call]

\* Mutant: the save goes out without If-Match.
MatchesAlways(call) == TRUE

\* The If-Match check.
Matches(call) == call.file = file

\* A question.
Tells(c, call) ==
    /\ call.status = "pending"
    /\ \/ call.kind \in {"fleet", "proxy"} /\ legacy
          /\ Answers(c, [call EXCEPT !.status = "missing"])
       \/ call.kind = "fleet" /\ ~legacy /\ Answers(c, [call EXCEPT !.status = "ok", !.run = run])
       \/ call.kind = "running" /\ Answers(c, [call EXCEPT !.status = "ok", !.run = run])
       \/ call.kind = "proxy" /\ ~legacy
          /\ Answers(c, [call EXCEPT !.status = "ok", !.on = file.proxy])
       \/ call.kind = "config" /\ Answers(c, [call EXCEPT !.status = "ok", !.file = file])
    /\ UNCHANGED file

\* A save takes saveMu and compares the version it was made from.
Compares(c, call) ==
    /\ call.kind = "save" /\ call.status = "pending"
    /\ \A d \in Slots : Open(d) => calls[d].status = "pending"
    /\ Answers(c, [call EXCEPT !.status = IF Matches(call) THEN "checked" ELSE "failed"])
    /\ UNCHANGED file

\* Then it writes that version with the proxy changed, whatever the file holds by now.
Saves(c, call) ==
    /\ call.kind = "save" /\ call.status \in Writing
    /\ Answers(c, [call EXCEPT !.status = "ok"])
    /\ file' = [call.file EXCEPT !.proxy = call.on]

Serves(c) ==
    /\ up
    /\ calls[c] # NoCall
    /\ Tells(c, calls[c]) \/ Compares(c, calls[c]) \/ Saves(c, calls[c])
    /\ UNCHANGED <<up, legacy, run, store, flags, work>>

\* The request, or the answer to a save, is lost or times out.
Fails(c) ==
    /\ calls[c] # NoCall
    /\ \/ Open(c)
       \/ calls[c].kind = "save" /\ calls[c].status = "ok"
    /\ IF up THEN Works ELSE UNCHANGED work
    /\ Answers(c, [calls[c] EXCEPT !.status = "failed", !.run = Unknown])
    /\ UNCHANGED <<host, store, flags>>

-----------------------------------------------------------------------------
(* What the page does with an answer.                                      *)

\* refreshMachineStatus, and the end of refreshMachine for an old machine.
ShowsRunning(call) ==
    /\ statuses' = IF call.status = "ok" THEN call.run ELSE Offline
    /\ UNCHANGED <<fleetViews, proxies>>

\* refreshMachine: the fleet view and the status together.
ShowsFleet(call) ==
    /\ fleetViews' = IF call.status = "ok" THEN call.run ELSE Null
    /\ statuses' = CASE call.status = "ok" -> call.run
                     [] call.status = "missing" -> statuses
                     [] OTHER -> Offline
    /\ UNCHANGED proxies

\* refreshProxy.
ShowsProxy(call) ==
    /\ proxies' = IF call.status = "ok" THEN call.on ELSE Unknown
    /\ UNCHANGED <<statuses, fleetViews>>

Shows(call) ==
    \/ call.kind = "fleet" /\ ShowsFleet(call)
    \/ call.kind = "running" /\ ShowsRunning(call)
    \/ call.kind = "proxy" /\ ShowsProxy(call)
    \/ call.kind \notin {"fleet", "running", "proxy"} /\ UNCHANGED store

\* Mutant: a machine without a fleet view is not asked what it runs.
AsksNoLegacy(call) == FALSE

\* refreshMachine asks an old machine, which has no fleet view, what it runs.
AsksLegacy(call) == call.kind = "fleet" /\ call.status = "missing"

\* Mutant: the Machine page asks for the proxy if it does not know it.
AsksProxyOnce(c, call) == call.kind = "running" /\ c \in Views /\ proxies = Unknown

\* The Machine page's load and pollStatus ask for the proxy after the status.
AsksProxy(c, call) == call.kind = "running" /\ c \in Views

\* changeProxy saves what it has read, and reads the proxy again in any case.
ChangeGoesOn(call) ==
    CASE call.kind = "config" /\ call.status = "ok" -> "save"
      [] OTHER -> "proxy"

\* What is asked next.
Then(c, call) ==
    CASE AsksLegacy(call) -> "running"
      [] AsksProxy(c, call) -> "proxy"
      [] call.kind \in {"config", "save"} -> ChangeGoesOn(call)
      [] OTHER -> "none"

Continues(c) ==
    LET call == calls[c]
        kind == Then(c, call)
    IN  calls' = [calls EXCEPT ![c] =
            IF kind = "none" THEN NoCall
            ELSE Ask(kind, call.on /\ c \in Changes, IF kind = "save" THEN call.file ELSE NoFile)]

\* Mutant: refreshAll is over only if the machine has answered.
EndsWell(c) ==
    LET over == \A d \in All : calls'[d] = NoCall
        well == c \notin All \/ calls[c].status = "ok"
    IN  /\ refreshInFlight' = (refreshInFlight /\ ~(over /\ well))
        /\ pollingStatus' = IF calls'[c] = NoCall /\ pollingStatus = c THEN NoCall ELSE pollingStatus
        /\ busy' = IF calls'[c] = NoCall /\ busy = c THEN NoCall ELSE busy

\* refreshAll has both answers; pollStatus and the switch's change are over.
Ends(c) ==
    /\ refreshInFlight' = (refreshInFlight /\ \E d \in All : calls'[d] # NoCall)
    /\ pollingStatus' = IF calls'[c] = NoCall /\ pollingStatus = c THEN NoCall ELSE pollingStatus
    /\ busy' = IF calls'[c] = NoCall /\ busy = c THEN NoCall ELSE busy

Answer(c) ==
    /\ Answered(c)
    /\ Shows(calls[c])
    /\ Continues(c)
    /\ Ends(c)
    /\ UNCHANGED <<host, view, work>>

-----------------------------------------------------------------------------
(* The user and the timers.                                                *)

Sends(c, request) == calls[c] = NoCall /\ calls' = [calls EXCEPT ![c] = request]

\* refreshAll, by the Fleet page's timer or its button.
RefreshAll ==
    /\ view = "fleet"
    /\ ~refreshInFlight
    /\ refreshInFlight' = TRUE
    /\ calls' = [c \in Slots |-> IF c \in All THEN Get(c) ELSE calls[c]]
    /\ UNCHANGED <<host, store, view, pollingStatus, busy, work>>

\* The Machine page's timer.
PollStatus ==
    /\ view = "machine"
    /\ pollingStatus = NoCall
    /\ \E c \in Views : Sends(c, Get("running")) /\ pollingStatus' = c
    /\ UNCHANGED <<host, store, view, refreshInFlight, busy, work>>

\* The Machine page is shown, with flags of its own: load.
ToMachine ==
    /\ view = "fleet"
    /\ Works
    /\ \E c \in Views : Sends(c, Get("running"))
    /\ view' = "machine"
    /\ pollingStatus' = NoCall /\ busy' = NoCall
    /\ UNCHANGED <<host, store, refreshInFlight>>

\* The Fleet page is shown, and refreshed unless that is still going on.
ToFleet ==
    /\ view = "machine"
    /\ Works
    /\ view' = "fleet"
    /\ refreshInFlight' = TRUE
    /\ calls' = IF refreshInFlight THEN calls
                ELSE [c \in Slots |-> IF c \in All THEN Get(c) ELSE calls[c]]
    /\ busy' = NoCall
    /\ UNCHANGED <<host, store, pollingStatus>>

\* A switch that has nothing to show asks.
FirstLook(c) ==
    /\ proxies = Unknown
    /\ Works
    /\ Sends(c, Get("proxy"))
    /\ UNCHANGED <<host, store, flags>>

\* doStart and doStop of either page: the machine starts or stops a model, or does
\* not, and then the page refreshes what it shows.
Act(c) ==
    /\ Works
    /\ run' \in IF up THEN Runs ELSE {run}
    /\ \E kind \in {"fleet", "running"} : Sends(c, Get(kind))
    /\ UNCHANGED <<up, legacy, file, store, flags>>

\* The switch.
ChangeProxy(c) ==
    /\ proxies # Unknown
    /\ busy = NoCall
    /\ Works
    /\ Sends(c, Ask("config", ~proxies, NoFile))
    /\ busy' = c
    /\ UNCHANGED <<host, store, view, refreshInFlight, pollingStatus>>

-----------------------------------------------------------------------------
Next ==
    \/ Others \/ RefreshAll \/ PollStatus \/ ToMachine \/ ToFleet
    \/ \E c \in Views : FirstLook(c)
    \/ \E c \in Actions : Act(c)
    \/ \E c \in Changes : ChangeProxy(c)
    \/ \E c \in Slots : Serves(c) \/ Fails(c) \/ Answer(c)

Spec == Init /\ [][Next]_vars

\* Requests are answered or time out, and the page that is on the screen polls.
Fairness ==
    /\ \A c \in Slots : WF_vars(Serves(c) \/ Fails(c)) /\ WF_vars(Answer(c))
    /\ WF_vars(RefreshAll) /\ WF_vars(PollStatus)

FairSpec == Spec /\ Fairness

-----------------------------------------------------------------------------
StoreTypeOK ==
    /\ up \in BOOLEAN /\ legacy \in BOOLEAN
    /\ run \in Runs /\ file \in File
    /\ statuses \in Runs \cup {Unknown, Offline}
    /\ fleetViews \in Runs \cup {Unknown, Null}
    /\ proxies \in BOOLEAN \cup {Unknown}
    /\ view \in {"fleet", "machine"}
    /\ refreshInFlight \in BOOLEAN
    /\ pollingStatus \in Views \cup {NoCall} /\ busy \in Changes \cup {NoCall}
    /\ calls \in [Slots -> Call \cup {NoCall}]
    /\ work \in 0 .. MaxWork
    /\ refreshInFlight <=> \E d \in All : calls[d] # NoCall
    /\ pollingStatus # NoCall => calls[pollingStatus] # NoCall
    /\ busy # NoCall => calls[busy] # NoCall

\* Safety: the switch changes the proxy and nothing else: what others write between its
\* read and its save's check "is detected rather than clobbered" (proxy.ts:10-11), and
\* only a program that writes between that check and the rename, which takes no lock,
\* loses what it has written (handlers.go:531-556).
ToggleKeepsOthers ==
    [][\A c \in Changes :
          Serves(c) => file'.rest = file.rest \/ calls[c].status = "overtaken"]_vars

\* What the page on the screen says of the machine.
screen == IF view = "fleet" /\ fleetViews \in Runs THEN fleetViews ELSE statuses

\* Liveness: once the machine rests, the page says what it runs, or that it is offline,
\* whichever refreshes have overlapped, failed or come late (store.ts:191-254).
StatusSettles ==
    \A r \in Runs \cup {Offline} :
        <>[](r = IF up THEN run ELSE Offline) => <>[](screen = r)

\* Liveness: the switch shows the proxy's state in the end, after changes of its own,
\* of others and of the page (store.ts:155-162, proxy.ts:25-28).
SwitchSettles ==
    \A p \in BOOLEAN : <>[](up /\ ~legacy /\ file.proxy = p) => <>[](proxies = p)
=============================================================================
