---------------------------- MODULE ConfigStore ----------------------------
(***************************************************************************)
(* The life of the config file: PUT /api/v1/config (handlers.SaveConfig),  *)
(* edits by anybody else on the machine, the file watcher                  *)
(* (server.WatchConfig) and reloadConfig, which installs the file in the   *)
(* manager, in the fleet registry and in the proxy switch, one after the   *)
(* other.  saveMu makes a save's check and write one section against other *)
(* saves, reloadMu does the same for reloads; the file system knows        *)
(* neither of them.                                                        *)
(*                                                                         *)
(* A text stands for the file's bytes and for its ETag, which is a hash of *)
(* them.  A version numbers the writes of the file; no code looks at it.   *)
(***************************************************************************)
EXTENDS Naturals

CONSTANTS
    Text,       \* contents of the file
    Loadable,   \* those config.Reload accepts
    Acceptable, \* those the checks of SaveConfig accept
    Absent,     \* there is no file
    AnyText,    \* no If-Match, or If-Match: *
    Saver,      \* requests PUT /api/v1/config that may be active at once (a bound)
    Watcher,    \* the watcher's goroutine
    NoOne,      \* nobody holds the mutex
    MaxWrites,  \* edits and PUTs in one behaviour (a bound)
    MaxEarly    \* edits between New and WatchConfig (a bound)

ASSUME ConfigAssumption ==
    /\ Loadable \subseteq Text
    /\ Acceptable \subseteq Text
    /\ Absent \notin Text
    /\ AnyText \notin Text
    /\ Watcher \notin Saver
    /\ NoOne \notin Saver \cup {Watcher}
    /\ MaxWrites \in Nat
    /\ MaxEarly \in 0 .. MaxWrites

Reloader == Saver \cup {Watcher}
File == [version : Nat, text : Text \cup {Absent}]

VARIABLES
    file,      \* the config file
    overtaken, \* history: the file was last written after the save's check, by another
               \* program
    models,    \* the file the manager's models come from
    workers,   \* the file the fleet registry's workers come from
    proxy,     \* the file the proxy switch comes from
    saveMu, reloadMu,  \* who holds Handler.saveMu and App.reloadMu
    savePc, body, ifMatch,  \* SaveConfig requests
    reloadPc, read,  \* calls of reloadConfig and the file they have read
    watch,     \* the watcher: off (Start has not come to WatchConfig), on or over
    event,     \* an event about the file waits in watcher.Events
    timer,     \* the debounce timer runs
    writes     \* edits and PUTs so far

parts == <<models, workers, proxy>>
saveVars == <<saveMu, savePc, body, ifMatch>>
reloadVars == <<reloadMu, reloadPc, read>>
watchVars == <<watch, event, timer>>
vars == <<file, overtaken, parts, saveVars, reloadVars, watchVars, writes>>

SavePc == {"idle", "lock", "check", "rename", "reload", "reply"}
ReloadPc == {"idle", "lock", "read", "models", "workers", "proxy"}

TypeOK ==
    /\ {file, models, workers, proxy} \subseteq File
    /\ overtaken \in [Saver -> BOOLEAN]
    /\ saveMu \in Saver \cup {NoOne}
    /\ reloadMu \in Reloader \cup {NoOne}
    /\ savePc \in [Saver -> SavePc]
    /\ body \in [Saver -> Acceptable \cup {AnyText}]
    /\ ifMatch \in [Saver -> Text \cup {AnyText}]
    /\ reloadPc \in [Reloader -> ReloadPc]
    /\ read \in [Reloader -> File]
    /\ watch \in {"off", "on", "over"}
    /\ event \in BOOLEAN
    /\ timer \in BOOLEAN
    /\ writes \in 0 .. MaxWrites

\* New has loaded the file and Start has not reached WatchConfig yet.
Init ==
    /\ \E t \in Loadable : file = [version |-> 0, text |-> t]
    /\ overtaken = [s \in Saver |-> FALSE]
    /\ models = file /\ workers = file /\ proxy = file
    /\ saveMu = NoOne /\ reloadMu = NoOne
    /\ savePc = [s \in Saver |-> "idle"]
    /\ body = [s \in Saver |-> AnyText]
    /\ ifMatch = [s \in Saver |-> AnyText]
    /\ reloadPc = [r \in Reloader |-> "idle"]
    /\ read = [r \in Reloader |-> file]
    /\ watch = "off" /\ event = FALSE /\ timer = FALSE
    /\ writes = 0

-----------------------------------------------------------------------------
(* The file.  Every write but a removal makes an event the watcher keeps.  *)

WriteFile(t, editor) ==
    /\ file' = [version |-> file.version + 1, text |-> t]
    /\ overtaken' = [s \in Saver |-> editor /\ savePc[s] = "rename"]
    /\ event' = (event \/ (watch = "on" /\ t # Absent))

\* Another program writes the file, half of it, or moves it away.
EditFile(t) ==
    /\ writes < IF watch = "off" THEN MaxEarly ELSE MaxWrites
    /\ writes' = writes + 1
    /\ WriteFile(t, TRUE)
    /\ UNCHANGED <<parts, saveVars, reloadVars, watch, timer>>

-----------------------------------------------------------------------------
(* App.reloadConfig, run by r.                                             *)

ReloadGoto(r, from, to) ==
    /\ reloadPc[r] = from
    /\ reloadPc' = [reloadPc EXCEPT ![r] = to]

\* Mutant: reloads overlap.
ReloadWithoutLock(r) ==
    /\ ReloadGoto(r, "lock", "read")
    /\ reloadMu' = r
    /\ UNCHANGED <<file, overtaken, parts, saveVars, read, watchVars, writes>>

ReloadLock(r) ==
    /\ ReloadGoto(r, "lock", "read")
    /\ reloadMu = NoOne
    /\ reloadMu' = r
    /\ UNCHANGED <<file, overtaken, parts, saveVars, read, watchVars, writes>>

\* Mutant: the error return forgets the unlock.
ReloadReadKeepsLock(r) ==
    /\ read' = [read EXCEPT ![r] = file]
    /\ ReloadGoto(r, "read", IF file.text \in Loadable THEN "models" ELSE "idle")
    /\ UNCHANGED <<file, overtaken, parts, saveVars, reloadMu, watchVars, writes>>

\* A file that does not load leaves everything as it is.
ReloadRead(r) ==
    /\ read' = [read EXCEPT ![r] = file]
    /\ IF file.text \in Loadable
       THEN ReloadGoto(r, "read", "models") /\ UNCHANGED reloadMu
       ELSE ReloadGoto(r, "read", "idle") /\ reloadMu' = NoOne
    /\ UNCHANGED <<file, overtaken, parts, saveVars, watchVars, writes>>

\* Mutant: reloadMu covers the manager only.
ReloadModelsUnlocks(r) ==
    /\ ReloadGoto(r, "models", "workers")
    /\ models' = read[r]
    /\ reloadMu' = NoOne
    /\ UNCHANGED <<file, overtaken, workers, proxy, saveVars, read, watchVars, writes>>

ReloadModels(r) ==
    /\ ReloadGoto(r, "models", "workers")
    /\ models' = read[r]
    /\ UNCHANGED <<file, overtaken, workers, proxy, saveVars, reloadMu, read, watchVars, writes>>

ReloadWorkers(r) ==
    /\ ReloadGoto(r, "workers", "proxy")
    /\ workers' = read[r]
    /\ UNCHANGED <<file, overtaken, models, proxy, saveVars, reloadMu, read, watchVars, writes>>

ReloadProxy(r) ==
    /\ ReloadGoto(r, "proxy", "idle")
    /\ proxy' = read[r]
    /\ reloadMu' = NoOne
    /\ UNCHANGED <<file, overtaken, models, workers, saveVars, read, watchVars, writes>>

ReloadConfig(r) ==
    \/ ReloadLock(r) \/ ReloadRead(r) \/ ReloadModels(r)
    \/ ReloadWorkers(r) \/ ReloadProxy(r)

-----------------------------------------------------------------------------
(* Handler.SaveConfig.                                                     *)

SaveGoto(s, from, to) ==
    /\ savePc[s] = from
    /\ savePc' = [savePc EXCEPT ![s] = to]

\* A PUT whose body passes the checks; any other one changes nothing.  Start listens
\* only after WatchConfig.
Put(s, t, e) ==
    /\ watch # "off"
    /\ writes < MaxWrites
    /\ SaveGoto(s, "idle", "lock")
    /\ body' = [body EXCEPT ![s] = t]
    /\ ifMatch' = [ifMatch EXCEPT ![s] = e]
    /\ writes' = writes + 1
    /\ UNCHANGED <<file, overtaken, parts, saveMu, reloadVars, watchVars>>

\* Mutant: saves overlap.
SaveWithoutLock(s) ==
    /\ SaveGoto(s, "lock", "check")
    /\ saveMu' = s
    /\ UNCHANGED <<file, overtaken, parts, body, ifMatch, reloadVars, watchVars, writes>>

SaveLock(s) ==
    /\ SaveGoto(s, "lock", "check")
    /\ saveMu = NoOne
    /\ saveMu' = s
    /\ UNCHANGED <<file, overtaken, parts, body, ifMatch, reloadVars, watchVars, writes>>

\* The If-Match check reads the file; a missing file passes, a failed read does not.
SaveCheck(s) ==
    /\ \/ /\ SaveGoto(s, "check", "rename")
          /\ ifMatch[s] \in {AnyText, file.text} \/ file.text = Absent
       \/ /\ SaveGoto(s, "check", "reply")
          /\ ifMatch[s] # AnyText
    /\ overtaken' = [overtaken EXCEPT ![s] = FALSE]
    /\ UNCHANGED <<file, parts, saveMu, body, ifMatch, reloadVars, watchVars, writes>>

\* The temporary file is complete: rename puts it in place, or fails.
SaveRename(s) ==
    /\ \/ /\ SaveGoto(s, "rename", "reload")
          /\ WriteFile(body[s], FALSE)
          /\ reloadPc' = [reloadPc EXCEPT ![s] = "lock"]
       \/ /\ SaveGoto(s, "rename", "reply")
          /\ UNCHANGED <<file, overtaken, event, reloadPc>>
    /\ UNCHANGED <<parts, saveMu, body, ifMatch, reloadMu, read, watch, timer, writes>>

SaveReloaded(s) ==
    /\ SaveGoto(s, "reload", "reply")
    /\ reloadPc[s] = "idle"
    /\ UNCHANGED <<file, overtaken, parts, saveMu, body, ifMatch, reloadVars, watchVars, writes>>

SaveReply(s) ==
    /\ SaveGoto(s, "reply", "idle")
    /\ saveMu' = NoOne
    /\ body' = [body EXCEPT ![s] = AnyText]
    /\ ifMatch' = [ifMatch EXCEPT ![s] = AnyText]
    /\ UNCHANGED <<file, overtaken, parts, reloadVars, watchVars, writes>>

SaveConfig(s) ==
    \/ SaveLock(s) \/ SaveCheck(s) \/ SaveRename(s) \/ SaveReloaded(s) \/ SaveReply(s)
    \/ ReloadConfig(s)

-----------------------------------------------------------------------------
(* App.WatchConfig.                                                        *)

\* WatchConfig gets its watcher, or an error that it logs: then nobody watches.
StartWatching ==
    /\ watch = "off"
    /\ watch' \in {"on", "over"}
    /\ UNCHANGED <<file, overtaken, parts, saveVars, reloadVars, event, timer, writes>>

\* The watcher's select loop, between two reloads of its own.
Selecting == watch = "on" /\ reloadPc[Watcher] = "idle"

\* Mutant: an event that arrives during a reload is taken for its own.
WatchEventUnlessReloading ==
    /\ Selecting
    /\ event
    /\ event' = FALSE
    /\ timer' = (timer \/ reloadMu = NoOne)
    /\ UNCHANGED <<file, overtaken, parts, saveVars, reloadVars, watch, writes>>

\* An event (re)starts the timer.
WatchEvent ==
    /\ Selecting
    /\ event
    /\ event' = FALSE
    /\ timer' = TRUE
    /\ UNCHANGED <<file, overtaken, parts, saveVars, reloadVars, watch, writes>>

\* 300 ms without an event: reload.
WatchTimer ==
    /\ Selecting
    /\ timer
    /\ timer' = FALSE
    /\ reloadPc' = [reloadPc EXCEPT ![Watcher] = "lock"]
    /\ UNCHANGED <<file, overtaken, parts, saveVars, reloadMu, read, watch, event, writes>>

\* The stop channel, or a channel of the watcher, is closed: the goroutine ends.
WatchEnds ==
    /\ Selecting
    /\ watch' = "over" /\ event' = FALSE /\ timer' = FALSE
    /\ UNCHANGED <<file, overtaken, parts, saveVars, reloadVars, writes>>

Watch == StartWatching \/ WatchEvent \/ WatchTimer \/ ReloadConfig(Watcher)

-----------------------------------------------------------------------------
Next ==
    \/ \E t \in Text \cup {Absent} : EditFile(t)
    \/ \E s \in Saver :
          \/ \E t \in Acceptable, e \in Text \cup {AnyText} : Put(s, t, e)
          \/ SaveConfig(s)
    \/ Watch \/ WatchEnds

Spec == Init /\ [][Next]_vars

(* Goroutines run, the timer fires and events arrive; nobody has to write,  *)
(* and the watcher need not end.                                           *)
Fairness ==
    /\ \A s \in Saver : WF_vars(SaveConfig(s))
    /\ WF_vars(Watch)

FairSpec == Spec /\ Fairness

-----------------------------------------------------------------------------
(* Properties.                                                             *)

Saved(s) == SaveRename(s) /\ file' # file

\* Safety: a save with If-Match replaces the text it names or puts a file where there
\* is none; only what a program that takes no lock has written after the save's check
\* is replaced unseen.  So two saves never overwrite each other, and a save never
\* overwrites an edit that was there before its check (handlers.go:525-534).
SavesDoNotCollide ==
    [][\A s \in Saver :
          Saved(s) /\ ifMatch[s] # AnyText =>
              file.text \in {ifMatch[s], Absent} \/ overtaken[s]]_vars

\* Safety: reloads never go back: no part of the configuration returns to an older
\* version of the file, whoever reloads (server.go:338-359).
ReloadsGoForward ==
    [][/\ models'.version >= models.version
       /\ workers'.version >= workers.version
       /\ proxy'.version >= proxy.version]_vars

\* Safety: between reloads manager, fleet and proxy switch agree on one version of
\* the file, and it is one that loads (server.go:342-359, README.md:156).
PartsAgree ==
    reloadMu = NoOne => models = workers /\ workers = proxy /\ proxy.text \in Loadable

\* A reload by r that is going to install the file as it is now.
Owes(r) ==
    \/ reloadPc[r] \in {"lock", "read"}
    \/ reloadPc[r] \in {"models", "workers", "proxy"} /\ read[r] = file

\* Safety: no write is lost to an earlier one's reload: as long as somebody watches, a
\* file that loads and that was written under his eyes has been installed, or an event,
\* the timer or a reload is on its way to it (server.go:298-330, handlers.go:557).
NothingIsMissed ==
    watch = "on" /\ file.text \in Loadable /\ file.version > MaxEarly =>
        \/ models = file /\ workers = file /\ proxy = file
        \/ event \/ timer \/ \E r \in Reloader : Owes(r)

\* Liveness: when the file has come to rest with a text that loads, and the watcher
\* does not end, that text gets applied (server.go:275-332).
SettledIsApplied ==
    \A t \in Loadable :
        <>[](file.text = t /\ watch = "on") =>
            <>[](models.text = t /\ workers.text = t /\ proxy.text = t)

\* Liveness: every save is answered: a save holds saveMu while it waits for
\* reloadMu, the watcher never the other way round (handlers.go:531, server.go:339).
SaveAnswered == \A s \in Saver : savePc[s] = "lock" ~> savePc[s] = "idle"
=============================================================================
