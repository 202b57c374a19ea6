---------------------------- MODULE ConfigEditor ---------------------------
(***************************************************************************)
(* The web UI's config editor: a browser page that shows a machine's       *)
(* config file, follows it by polling while nothing has been typed, and    *)
(* saves with the ETag of the version it started from.  Everything the     *)
(* page asks of a manager is answered later, while the user types, saves,  *)
(* reverts, goes to another machine or saves the settings, and others      *)
(* write the file.  A text stands for its bytes and for their ETag.        *)
(***************************************************************************)
EXTENDS Naturals

CONSTANTS
    Machines, \* the machines the page may be about
    FirstMachine, \* the one it is about at first
    Text,     \* contents of a config file
    Valid,    \* those validateConfig has nothing against
    Absent,   \* there is no file
    NoText,   \* no text, or no ETag
    AnyText,  \* If-Match: *
    NoCall,   \* no request is in flight
    Loads,    \* calls of load that may be in flight at once (a bound)
    Reloads,  \* the same for reloadFromDisk
    Lates,    \* saves the page has given up and a manager may still do (a bound)
    MaxWork   \* what the user and others do (a bound)

VARIABLES
    file,      \* the machines' config files
    machine,   \* the machine the page shows
    text,      \* the text area
    savedText, diskEtag, \* the version it started from, and its ETag
    loading, loadError,
    saving,    \* "no", or what save waits for
    checking,  \* checkRemote waits
    external,  \* the ETag of the version the banner is about
    dismissedEtag, conflict,
    calls,     \* requests in flight
    seen,      \* history: texts that have been in the text area
    typed,     \* history: it holds typing that is neither saved nor given up
    work       \* what the user and others have done so far

page == <<text, savedText, diskEtag, external, dismissedEtag, conflict, seen, typed>>
modes == <<machine, loading, loadError, saving, checking>>
vars == <<file, page, modes, calls, work>>

\* Requests in flight: checkRemote and save never overlap themselves.
Slots == Loads \cup Reloads \cup Lates \cup {"check", "save"}

\* A save that has passed its If-Match check and holds saveMu; overtaken if another
\* program has written the file since (history: the manager does not notice).
Writing == {"checked", "overtaken"}

\* A request to m's manager: its If-None-Match or If-Match, the body of a PUT,
\* and what has become of it.
Call == [m : Machines, etag : Text \cup {NoText, AnyText}, body : Text \cup {NoText},
         status : {"pending", "ok", "same", "conflict", "failed"} \cup Writing,
         got : Text \cup {NoText}]

ASSUME EditorAssumption ==
    /\ FirstMachine \in Machines
    /\ Valid \subseteq Text
    /\ Text \cap {Absent, NoText, AnyText} = {}
    /\ NoText \notin {Absent, AnyText}
    /\ NoCall \notin Call
    /\ {"check", "save"} \cap (Loads \cup Reloads \cup Lates) = {}
    /\ Loads \cap Reloads = {} /\ Lates \cap (Loads \cup Reloads) = {}
    /\ MaxWork \in Nat

Request(m, etag, body) ==
    [m |-> m, etag |-> etag, body |-> body, status |-> "pending", got |-> NoText]

\* fetchConfig without an ETag.
Fetch(m) == Request(m, NoText, NoText)

Is(c, status) == calls[c] # NoCall /\ calls[c].status = status
Open(c) == calls[c] # NoCall /\ calls[c].status \in {"pending"} \cup Writing
Answered(c) == calls[c] # NoCall /\ ~Open(c)

Sends(c, request) ==
    /\ calls[c] = NoCall
    /\ calls' = [calls EXCEPT ![c] = request]

Ends(c) == calls' = [calls EXCEPT ![c] = NoCall]

Works == work < MaxWork /\ work' = work + 1

Init ==
    /\ file \in [Machines -> Text]
    /\ machine = FirstMachine
    /\ text = NoText /\ savedText = NoText /\ diskEtag = NoText
    /\ loading = TRUE /\ loadError = FALSE /\ saving = "no" /\ checking = FALSE
    /\ external = NoText /\ dismissedEtag = NoText /\ conflict = FALSE
    /\ \E c \in Loads : calls = [s \in Slots |-> IF s = c THEN Fetch(machine) ELSE NoCall]
    /\ seen = {} /\ typed = FALSE /\ work = 0

-----------------------------------------------------------------------------
(* The managers, and others who write the files.                           *)

\* Another program, which takes no lock, writes m's file; or another page's save.
EditFile(m, t) ==
    /\ Works
    /\ file' = [file EXCEPT ![m] = t]
    /\ calls' = [c \in Slots |-> IF Is(c, "checked") /\ calls[c].m = m
                                THEN [calls[c] EXCEPT !.status = "overtaken"] ELSE calls[c]]
    /\ UNCHANGED <<page, modes>>

Answers(c, status, got) ==
    calls' = [calls EXCEPT ![c].status = status, ![c].got = got]

\* GetConfig: the file, unless it is the version the page knows.
GetConfig(c) ==
    LET t == file[calls[c].m] IN
    /\ Is(c, "pending")
    /\ calls[c].body = NoText
    /\ IF t = Absent THEN Answers(c, "failed", NoText)
       ELSE IF t = calls[c].etag THEN Answers(c, "same", NoText)
       ELSE Answers(c, "ok", t)
    /\ UNCHANGED <<file, page, modes, work>>

\* The If-Match check.
Matches(etag, t) == etag \in {NoText, AnyText, t} \/ t = Absent

\* SaveConfig takes saveMu and compares: a conflict is its answer, and nobody waits for
\* the answer of a late save.
SaveCheck(c) ==
    LET call == calls[c] IN
    /\ Is(c, "pending")
    /\ call.body # NoText
    /\ \A d \in Slots : Open(d) /\ calls[d].status \in Writing => calls[d].m # call.m
    /\ \/ Matches(call.etag, file[call.m]) /\ Answers(c, "checked", NoText)
       \/ /\ ~Matches(call.etag, file[call.m])
          /\ IF c \in Lates THEN Ends(c) ELSE Answers(c, "conflict", NoText)
    /\ UNCHANGED <<file, page, modes, work>>

\* It writes, whatever the file holds by now.
SaveWrite(c) ==
    /\ Open(c)
    /\ calls[c].status \in Writing
    /\ file' = [file EXCEPT ![calls[c].m] = calls[c].body]
    /\ IF c \in Lates THEN Ends(c) ELSE Answers(c, "ok", NoText)
    /\ UNCHANGED <<page, modes, work>>

\* The request fails, on its way, in the manager or by its timeout.
Fails(c) ==
    /\ c \notin Lates
    /\ Open(c)
    /\ Answers(c, "failed", NoText)
    /\ UNCHANGED <<file, page, modes, work>>

\* The answer to a save is lost; or the page gives the save up, wherever the manager is
\* with it, and the rest of it is done later, or never.
SaveTimesOut ==
    /\ calls["save"] # NoCall
    /\ calls["save"].body # NoText
    /\ \/ /\ calls["save"].status \in {"ok", "conflict"}
          /\ Answers("save", "failed", NoText)
       \/ \E c \in Lates :
          /\ Open("save")
          /\ calls[c] = NoCall
          /\ calls' = [calls EXCEPT !["save"].status = "failed", ![c] = calls["save"]]
    /\ UNCHANGED <<file, page, modes, work>>

LateIsLost(c) ==
    /\ c \in Lates
    /\ calls[c] # NoCall
    /\ Ends(c)
    /\ UNCHANGED <<file, page, modes, work>>

-----------------------------------------------------------------------------
(* What is on the screen.                                                  *)

dirty == text # savedText
Shown == ~loading /\ ~loadError
showExternal == external # NoText /\ external # dismissedEtag /\ ~conflict

ApplySnapshot(t) ==
    /\ text' = t /\ savedText' = t /\ diskEtag' = t
    /\ external' = NoText /\ dismissedEtag' = NoText /\ conflict' = FALSE
    /\ seen' = seen \cup {t} /\ typed' = FALSE

Type(t) ==
    /\ Shown
    /\ t # text
    /\ Works
    /\ text' = t /\ typed' = (t # diskEtag) /\ seen' = seen \cup {t}
    /\ UNCHANGED <<file, savedText, diskEtag, external, dismissedEtag, conflict, modes, calls>>

\* The banner's "Keep editing".
KeepEditing ==
    /\ Shown
    /\ showExternal
    /\ dismissedEtag' = external
    /\ UNCHANGED <<file, text, savedText, diskEtag, external, conflict, seen, typed,
                   modes, calls, work>>

-----------------------------------------------------------------------------
(* load, checkRemote, reloadFromDisk and save.                             *)

\* The page is about machine m from now on, or m's entry in the settings has
\* been replaced: load begins.
Load(m) ==
    /\ Works
    /\ \E c \in Loads : Sends(c, Fetch(m))
    /\ machine' = m
    /\ loading' = TRUE /\ loadError' = FALSE
    /\ typed' = (typed /\ m = machine)
    /\ UNCHANGED <<file, text, savedText, diskEtag, external, dismissedEtag, conflict, seen,
                   saving, checking>>

\* Mutant: a load that has failed shows what there is.
LoadAnsweredQuietly(c) ==
    /\ Answered(c)
    /\ IF calls[c].status = "ok" THEN ApplySnapshot(calls[c].got) ELSE UNCHANGED page
    /\ loading' = FALSE
    /\ Ends(c)
    /\ UNCHANGED <<file, machine, loadError, saving, checking, work>>

LoadAnswered(c) ==
    /\ Answered(c)
    /\ IF calls[c].status = "ok"
       THEN ApplySnapshot(calls[c].got) /\ UNCHANGED loadError
       ELSE loadError' = TRUE /\ UNCHANGED page
    /\ loading' = FALSE
    /\ Ends(c)
    /\ UNCHANGED <<file, machine, saving, checking, work>>

\* checkRemote, by the timer.
CheckRemote ==
    /\ saving = "no" /\ ~checking /\ ~loading
    /\ checking' = TRUE
    /\ Sends("check", Request(machine, diskEtag, NoText))
    /\ UNCHANGED <<file, page, machine, loading, loadError, saving, work>>

\* Mutant: the ETag of the version that the banner shows is kept for the next save.
ShowBannerAdopts(t) ==
    /\ external' = t
    /\ diskEtag' = IF t = NoText THEN diskEtag ELSE t
    /\ UNCHANGED <<text, savedText, dismissedEtag, conflict, seen, typed>>

\* Mutant: a banner that is there stays as it is.
ShowBannerOnce(t) ==
    /\ external' = IF external = NoText THEN t ELSE external
    /\ UNCHANGED <<text, savedText, diskEtag, dismissedEtag, conflict, seen, typed>>

ShowBanner(t) ==
    /\ external' = t
    /\ UNCHANGED <<text, savedText, diskEtag, dismissedEtag, conflict, seen, typed>>

\* What checkRemote makes of an answer: a clean editor follows, a dirty one
\* shows a banner, and the banner goes when the change has been reverted.
Checked(call) ==
    \/ call.status = "ok" /\ ~dirty /\ ApplySnapshot(call.got)
    \/ call.status = "ok" /\ dirty /\ ShowBanner(call.got)
    \/ call.status = "same" /\ ShowBanner(NoText)
    \/ call.status = "failed" /\ UNCHANGED page

\* Mutant: a poll that has failed returns before it resets checking.
CheckAnsweredReturns ==
    /\ Answered("check")
    /\ Checked(calls["check"])
    /\ checking' = Is("check", "failed")
    /\ Ends("check")
    /\ UNCHANGED <<file, machine, loading, loadError, saving, work>>

CheckAnswered ==
    /\ Answered("check")
    /\ Checked(calls["check"])
    /\ checking' = FALSE
    /\ Ends("check")
    /\ UNCHANGED <<file, machine, loading, loadError, saving, work>>

\* Revert, and the banners' Reload; only the banner about an external edit
\* lets the user do it while a save is in flight.
ReloadFromDisk(c) ==
    /\ Shown
    /\ saving = "no" \/ showExternal
    /\ Sends(c, Fetch(machine))
    /\ UNCHANGED <<file, page, modes, work>>

ReloadAnswered(c) ==
    /\ Answered(c)
    /\ IF calls[c].status = "ok" THEN ApplySnapshot(calls[c].got) ELSE UNCHANGED page
    /\ Ends(c)
    /\ UNCHANGED <<file, modes, work>>

\* Save, and the conflict banner's "Overwrite anyway".
Save(force) ==
    /\ Shown
    /\ saving = "no"
    /\ text \in Valid
    /\ IF force THEN conflict ELSE dirty /\ ~conflict
    /\ Works
    /\ saving' = "put"
    /\ Sends("save", Request(machine, IF force THEN AnyText ELSE diskEtag, text))
    /\ UNCHANGED <<file, page, machine, loading, loadError, checking>>

\* What the editor takes for saved is what it holds when the answer comes.
Saved(call) ==
    /\ savedText' = text /\ diskEtag' = call.body
    /\ external' = NoText /\ dismissedEtag' = NoText /\ conflict' = FALSE
    /\ typed' = (typed /\ text # call.body)
    /\ UNCHANGED <<text, seen>>

\* After a conflict the version on disk is fetched for the banner.
SaveAnswered ==
    /\ saving = "put"
    /\ Answered("save")
    /\ \/ /\ Is("save", "ok")
          /\ Saved(calls["save"])
          /\ saving' = "refresh"
          /\ Ends("save")
       \/ /\ Is("save", "conflict")
          /\ conflict' = TRUE
          /\ saving' = "pull"
          /\ calls' = [calls EXCEPT !["save"] = Fetch(machine)]
          /\ UNCHANGED <<text, savedText, diskEtag, external, dismissedEtag, seen, typed>>
       \/ /\ Is("save", "failed")
          /\ saving' = "no"
          /\ Ends("save")
          /\ UNCHANGED page
    /\ UNCHANGED <<file, machine, loading, loadError, checking, work>>

\* The end of save: refreshAll has returned, or the version on disk is there.
SaveEnds ==
    /\ \/ saving = "refresh" /\ UNCHANGED <<page, calls>>
       \/ /\ saving = "pull"
          /\ Answered("save")
          /\ IF Is("save", "ok") THEN ShowBanner(calls["save"].got) ELSE UNCHANGED page
          /\ Ends("save")
    /\ saving' = "no"
    /\ UNCHANGED <<file, machine, loading, loadError, checking, work>>

-----------------------------------------------------------------------------
User ==
    \/ KeepEditing
    \/ \E t \in Text : Type(t)
    \/ \E m \in Machines : Load(m)
    \/ \E c \in Reloads : ReloadFromDisk(c)
    \/ \E force \in BOOLEAN : Save(force)

\* The page's own steps with a request.
Page(c) ==
    \/ c \in Loads /\ LoadAnswered(c)
    \/ c \in Reloads /\ ReloadAnswered(c)
    \/ c = "check" /\ (CheckRemote \/ CheckAnswered)
    \/ c = "save" /\ (SaveAnswered \/ SaveEnds)

Managers ==
    \/ \E c \in Slots : GetConfig(c) \/ SaveCheck(c) \/ SaveWrite(c) \/ Fails(c)
                       \/ LateIsLost(c)
    \/ SaveTimesOut

Next ==
    \/ User \/ Managers
    \/ \E m \in Machines, t \in Text \cup {Absent} : EditFile(m, t)
    \/ \E c \in Slots : Page(c)

Spec == Init /\ [][Next]_vars

\* Answers and timeouts come, the page polls (it is on the screen, and polling is
\* not paused), and a manager that is polled again and again answers in the end.
Fairness ==
    /\ \A c \in Slots :
          /\ WF_vars(Page(c))
          /\ WF_vars(GetConfig(c) \/ SaveCheck(c) \/ SaveWrite(c) \/ Fails(c))
    /\ SF_vars(GetConfig("check"))

FairSpec == Spec /\ Fairness

-----------------------------------------------------------------------------
EditorTypeOK ==
    /\ file \in [Machines -> Text \cup {Absent}]
    /\ machine \in Machines
    /\ {text, savedText, diskEtag, external, dismissedEtag} \subseteq Text \cup {NoText}
    /\ {loading, loadError, checking, conflict, typed} \subseteq BOOLEAN
    /\ saving \in {"no", "put", "refresh", "pull"}
    /\ calls \in [Slots -> Call \cup {NoCall}]
    /\ seen \subseteq Text
    /\ work \in 0 .. MaxWork

\* Safety: what can be saved has an ETag: a page whose file could not be loaded is
\* not shown, so no save goes out without If-Match and overwrites whatever is
\* there (ConfigEditor.svelte:229-238, api.ts:186).
ShownHasEtag == Shown => diskEtag # NoText

\* Safety: whatever keeps the page from polling has a request in flight that will end it,
\* through overlapping loads, failures, conflicts and saves given up
\* (ConfigEditor.svelte:96).
PollingIsOwed ==
    /\ checking => calls["check"] # NoCall
    /\ saving \in {"put", "pull"} => calls["save"] # NoCall
    /\ loading => \E c \in Loads : calls[c] # NoCall

\* Safety: a save that the user has not forced replaces a version that has been in the
\* text area, however late the manager does it; only what another program writes between
\* this save's own check and its rename is replaced unseen (README.md:168,
\* handlers.go:534-556).
UnseenIsKept ==
    [][\A c \in Slots :
          SaveWrite(c) /\ file' # file /\ calls[c].etag # AnyText =>
              \/ file[calls[c].m] \in seen \cup {Absent}
              \/ Is(c, "overtaken")]_vars

\* Liveness: a file that has come to rest is what the editor starts from or what its
\* banner is about (ConfigEditor.svelte:95-123).
FileIsNoticed ==
    \A m \in Machines, t \in Text :
        <>[](machine = m /\ file[m] = t) => <>[](t \in {diskEtag, external})

\* "a dirty editor shows a banner (*Reload from disk* / *Keep editing*)"
\* (README.md:178): a poll that finds a version somebody else has written does not put
\* it in the place of what was typed and not saved.
PollKeepsTyped ==
    [][CheckAnswered /\ typed /\ calls["check"].got \notin seen => text' = text]_vars

\* "Reload whenever the machine (id) changes." (ConfigEditor.svelte:86): a load of
\* the same machine replaces nothing that was typed and not saved.
LoadKeepsTyped == [][\A c \in Loads : LoadAnswered(c) /\ typed => text' = text]_vars
=============================================================================
