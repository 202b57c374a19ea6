------------------------- MODULE ConfigEditorProofs ------------------------
(***************************************************************************)
(* Proofs about the config editor, for any machines, texts and bounds.     *)
(***************************************************************************)
EXTENDS ConfigEditor, TLAPS

Fetches == Loads \cup Reloads \cup {"check"}

\* A request r in slot c, when the texts in known have been seen: a fetch has no
\* body and comes back with a text; a save starts from a version that has been
\* seen, or is forced; only saves write.
CallOK(c, r, known) ==
    \/ r = NoCall
    \/ /\ r \in Call
       /\ c \in Fetches => r.body = NoText /\ (r.status = "ok" => r.got \in Text)
       /\ r.body # NoText => r.etag \in known \cup {AnyText} /\ r.body \in known
       /\ r.status \in Writing => r.body # NoText

CallsInv == \A c \in Slots : CallOK(c, calls[c], seen)

\* What the text area holds, and what it started from, has been in it.
SeenInv == {text, diskEtag} \subseteq seen \cup {NoText}

\* save has a request in flight while it waits for the answer to the PUT.
PutInv == saving = "put" => calls["save"] # NoCall /\ calls["save"].body # NoText

IInv == EditorTypeOK /\ ShownHasEtag /\ CallsInv /\ SeenInv /\ PutInv

\* The parts of IInv that say nothing of the requests.
PageInv ==
    /\ file \in [Machines -> Text \cup {Absent}]
    /\ machine \in Machines
    /\ text \in seen \cup {NoText} /\ diskEtag \in seen \cup {NoText}
    /\ savedText \in Text \cup {NoText}
    /\ external \in Text \cup {NoText} /\ dismissedEtag \in Text \cup {NoText}
    /\ loading \in BOOLEAN /\ loadError \in BOOLEAN /\ checking \in BOOLEAN
    /\ conflict \in BOOLEAN /\ typed \in BOOLEAN
    /\ saving \in {"no", "put", "refresh", "pull"}
    /\ seen \subseteq Text
    /\ work \in 0 .. MaxWork
    /\ ShownHasEtag

RequestsInv ==
    /\ calls \in [Slots -> Call \cup {NoCall}]
    /\ CallsInv
    /\ PutInv

LEMMA IInvParts == IInv <=> PageInv /\ RequestsInv
BY DEF IInv, PageInv, RequestsInv, EditorTypeOK, SeenInv

-----------------------------------------------------------------------------
(* Changes of the requests in flight.                                      *)

LEMMA RequestType ==
    ASSUME NEW m \in Machines, NEW etag \in Text \cup {NoText, AnyText},
           NEW body \in Text \cup {NoText}
    PROVE  /\ Request(m, etag, body) \in Call
           /\ Request(m, etag, body) # NoCall
           /\ Request(m, etag, body).body = body
           /\ Request(m, etag, body).etag = etag
           /\ Request(m, etag, body).status = "pending"
BY EditorAssumption DEF Request, Call

LEMMA FetchOK ==
    ASSUME NEW m \in Machines, NEW c \in Slots
    PROVE  CallOK(c, Fetch(m), seen') /\ Fetch(m) \in Call /\ Fetch(m).body = NoText
<1>1. Fetch(m) = Request(m, NoText, NoText)
  BY DEF Fetch
<1> QED
  BY <1>1, RequestType DEF CallOK, Writing

\* One request changes, and nothing that has been seen is forgotten.
LEMMA OneChange ==
    ASSUME RequestsInv, seen \subseteq seen', NEW c \in Slots, NEW r,
           calls' = [calls EXCEPT ![c] = r],
           CallOK(c, r, seen'),
           saving' = "put" => /\ c = "save" => r # NoCall /\ r.body # NoText
                              /\ c # "save" => saving = "put"
    PROVE  RequestsInv'
<1>1. r \in Call \cup {NoCall}
  BY DEF CallOK
<1>2. calls' \in [Slots -> Call \cup {NoCall}]
  BY <1>1 DEF RequestsInv
<1>3. ASSUME NEW s \in Slots PROVE CallOK(s, calls'[s], seen')
  <2>1. CASE s = c
    BY <2>1 DEF RequestsInv
  <2>2. CASE s # c
    <3>1. calls'[s] = calls[s] /\ CallOK(s, calls[s], seen)
      BY <2>2 DEF RequestsInv, CallsInv
    <3>2. QED
      BY <3>1 DEF CallOK
  <2>3. QED
    BY <2>1, <2>2
<1>4. PutInv'
  BY DEF PutInv, RequestsInv, Slots
<1>5. QED
  BY <1>2, <1>3, <1>4 DEF RequestsInv, CallsInv

LEMMA NoChange ==
    ASSUME RequestsInv, seen \subseteq seen', UNCHANGED calls, saving' = "put" => saving = "put"
    PROVE  RequestsInv'
BY DEF RequestsInv, CallsInv, CallOK, PutInv

LEMMA EndsOK ==
    ASSUME RequestsInv, seen \subseteq seen', NEW c \in Slots, Ends(c),
           saving' = "put" => c # "save" /\ saving = "put"
    PROVE  RequestsInv'
<1>1. CallOK(c, NoCall, seen')
  BY DEF CallOK
<1>2. QED
  BY <1>1, OneChange DEF Ends

LEMMA AnswersOK ==
    ASSUME RequestsInv, NEW c \in Slots, calls[c] # NoCall, UNCHANGED <<seen, saving>>,
           NEW status \in {"ok", "same", "conflict", "failed", "checked"}, NEW got \in Text \cup {NoText},
           status = "checked" => calls[c].body # NoText,
           c \in Fetches /\ status = "ok" => got \in Text,
           Answers(c, status, got)
    PROVE  RequestsInv'
<1> DEFINE r == [calls[c] EXCEPT !.status = status, !.got = got]
<1>1. calls[c] \in Call /\ CallOK(c, calls[c], seen)
  BY DEF RequestsInv, CallsInv
<1>2. r \in Call /\ r.body = calls[c].body /\ r.etag = calls[c].etag
      /\ r.status = status /\ r.got = got
  BY <1>1 DEF Call, Writing
<1>3. calls' = [calls EXCEPT ![c] = r]
  BY DEF Answers, RequestsInv
<1>4. CallOK(c, r, seen')
  BY <1>1, <1>2 DEF CallOK, Writing
<1>5. r # NoCall
  BY <1>2, EditorAssumption
<1>6. saving' = "put" => (c = "save" => r # NoCall /\ r.body # NoText)
  BY <1>2, <1>5 DEF RequestsInv, PutInv
<1> HIDE DEF r
<1>7. QED
  BY <1>3, <1>4, <1>6, OneChange

\* A request is sent in a free slot.
LEMMA SendsOK ==
    ASSUME RequestsInv, seen \subseteq seen', NEW c \in Slots,
           NEW m \in Machines, NEW etag \in Text \cup {NoText, AnyText},
           NEW body \in Text \cup {NoText},
           Sends(c, Request(m, etag, body)),
           c \in Fetches => body = NoText,
           body # NoText => etag \in seen' \cup {AnyText} /\ body \in seen',
           saving' = "put" => IF c = "save" THEN body # NoText ELSE saving = "put"
    PROVE  RequestsInv'
<1> DEFINE r == Request(m, etag, body)
<1>1. /\ r \in Call /\ r # NoCall
      /\ r.body = body /\ r.etag = etag /\ r.status = "pending"
  BY RequestType
<1>2. calls' = [calls EXCEPT ![c] = r]
  BY DEF Sends
<1> HIDE DEF r
<1>3. CallOK(c, r, seen')
  BY <1>1 DEF CallOK, Writing
<1>4. QED
  BY <1>1, <1>2, <1>3, OneChange

-----------------------------------------------------------------------------
(* The managers.                                                           *)

LEMMA PageKept ==
    ASSUME PageInv, UNCHANGED <<page, modes, work>>, file' \in [Machines -> Text \cup {Absent}]
    PROVE  PageInv' /\ seen' = seen /\ saving' = saving
BY DEF PageInv, page, modes, ShownHasEtag, Shown

LEMMA ManagersOK ==
    ASSUME PageInv, RequestsInv, Managers
    PROVE  PageInv' /\ RequestsInv'
<1>f. file \in [Machines -> Text \cup {Absent}]
  BY DEF PageInv
<1>1. ASSUME NEW c \in Slots, GetConfig(c) PROVE PageInv' /\ RequestsInv'
  <2>1. PageInv' /\ seen' = seen /\ saving' = saving
    BY <1>1, <1>f, PageKept DEF GetConfig
  <2>2. calls[c] # NoCall /\ calls[c] \in Call
    BY <1>1 DEF GetConfig, Is, RequestsInv
  <2>3. file[calls[c].m] \in Text \cup {Absent}
    BY <2>2, <1>f DEF Call
  <2>4. PICK status \in {"ok", "same", "failed"}, got \in Text \cup {NoText} :
          Answers(c, status, got) /\ (status = "ok" => got \in Text)
    BY <1>1, <2>3 DEF GetConfig
  <2>5. RequestsInv'
    BY <2>1, <2>2, <2>4, AnswersOK
  <2>6. QED
    BY <2>1, <2>5
<1>e. ASSUME NEW c \in Lates, Ends(c), seen' = seen, saving' = saving PROVE RequestsInv'
  <2>1. c \in Slots /\ c # "save"
    BY EditorAssumption DEF Slots
  <2>2. QED
    BY <1>e, <2>1, EndsOK
<1>2. ASSUME NEW c \in Slots, SaveCheck(c) PROVE PageInv' /\ RequestsInv'
  <2>1. calls[c] # NoCall /\ calls[c].body # NoText /\ CallOK(c, calls[c], seen)
    BY <1>2 DEF SaveCheck, Is, RequestsInv, CallsInv
  <2>2. c \notin Fetches
    BY <2>1 DEF CallOK
  <2>3. PageInv' /\ seen' = seen /\ saving' = saving
    BY <1>2, <1>f, PageKept DEF SaveCheck
  <2>4. CASE c \in Lates /\ Ends(c)
    BY <1>e, <2>3, <2>4
  <2>5. CASE \E status \in {"checked", "conflict"} : Answers(c, status, NoText)
    BY <2>1, <2>2, <2>3, <2>5, AnswersOK
  <2>6. QED
    BY <1>2, <2>3, <2>4, <2>5 DEF SaveCheck
<1>6. ASSUME NEW c \in Slots, SaveWrite(c) PROVE PageInv' /\ RequestsInv'
  <2>1. calls[c] # NoCall /\ calls[c] \in Call /\ CallOK(c, calls[c], seen)
    BY <1>6 DEF SaveWrite, Open, RequestsInv, CallsInv
  <2>2. calls[c].body # NoText /\ calls[c].body \in Text /\ c \notin Fetches
    BY <1>6, <2>1 DEF SaveWrite, Call, CallOK
  <2>3. file' \in [Machines -> Text \cup {Absent}]
    BY <1>6, <2>1, <2>2, <1>f DEF SaveWrite, Call
  <2>4. PageInv' /\ seen' = seen /\ saving' = saving
    BY <1>6, <2>3, PageKept DEF SaveWrite
  <2>5. CASE c \in Lates /\ Ends(c)
    BY <1>e, <2>4, <2>5
  <2>6. CASE Answers(c, "ok", NoText)
    BY <2>1, <2>2, <2>4, <2>6, AnswersOK
  <2>7. QED
    BY <1>6, <2>4, <2>5, <2>6 DEF SaveWrite
<1>3. ASSUME NEW c \in Slots, Fails(c) PROVE PageInv' /\ RequestsInv'
  <2>1. PageInv' /\ seen' = seen /\ saving' = saving
    BY <1>3, <1>f, PageKept DEF Fails
  <2>2. calls[c] # NoCall /\ Answers(c, "failed", NoText)
    BY <1>3 DEF Fails, Open
  <2>3. QED
    BY <2>1, <2>2, AnswersOK
<1>4. ASSUME NEW c \in Slots, LateIsLost(c) PROVE PageInv' /\ RequestsInv'
  <2>1. PageInv' /\ seen' = seen /\ saving' = saving
    BY <1>4, <1>f, PageKept DEF LateIsLost
  <2>2. Ends(c) /\ c # "save"
    BY <1>4, EditorAssumption DEF LateIsLost
  <2>3. QED
    BY <2>1, <2>2, EndsOK
<1>5. CASE SaveTimesOut
  <2>1. PageInv' /\ seen' = seen /\ saving' = saving
    BY <1>5, <1>f, PageKept DEF SaveTimesOut
  <2>2. "save" \in Slots /\ "save" \notin Lates /\ "save" \notin Fetches
    BY EditorAssumption DEF Slots, Fetches
  <2>3. calls["save"] # NoCall
    BY <1>5 DEF SaveTimesOut
  <2>4. CASE Answers("save", "failed", NoText)
    BY <2>1, <2>2, <2>3, <2>4, AnswersOK
  <2>5. ASSUME NEW c \in Lates,
               calls' = [calls EXCEPT !["save"].status = "failed", ![c] = calls["save"]]
        PROVE  RequestsInv'
    <3> DEFINE r == [calls["save"] EXCEPT !.status = "failed"]
    <3>1. c \in Slots /\ c # "save" /\ c \notin Fetches
      BY <2>2, EditorAssumption DEF Slots, Fetches
    <3>2. /\ calls["save"] \in Call /\ CallOK("save", calls["save"], seen)
          /\ calls \in [Slots -> Call \cup {NoCall}]
      BY <2>2, <2>3 DEF RequestsInv, CallsInv
    <3>3. r \in Call /\ r.body = calls["save"].body /\ r.etag = calls["save"].etag /\ r # NoCall
      BY <3>2, EditorAssumption DEF Call
    <3>4. /\ calls'["save"] = r /\ calls'[c] = calls["save"]
          /\ \A s \in Slots \ {c, "save"} : calls'[s] = calls[s]
          /\ calls' \in [Slots -> Call \cup {NoCall}]
      BY <2>2, <2>5, <3>1, <3>2, <3>3
    <3> HIDE DEF r
    <3>5. CallOK("save", r, seen') /\ CallOK(c, calls["save"], seen')
      <4>1. /\ calls["save"].body # NoText => calls["save"].etag \in seen \cup {AnyText}
                                              /\ calls["save"].body \in seen
            /\ calls["save"].status \in Writing => calls["save"].body # NoText
        BY <2>3, <3>2 DEF CallOK
      <4>2. r.status \notin Writing
        BY <3>2 DEF r, Call, Writing
      <4>3. QED
        BY <2>1, <2>2, <3>1, <3>2, <3>3, <4>1, <4>2 DEF CallOK
    <3>6. CallsInv'
      <4> SUFFICES ASSUME NEW s \in Slots PROVE CallOK(s, calls'[s], seen')
        BY DEF CallsInv
      <4>1. CASE s \notin {c, "save"}
        BY <4>1, <3>4, <2>1 DEF RequestsInv, CallsInv
      <4>2. CASE s \in {c, "save"}
        BY <4>2, <3>4, <3>5
      <4>3. QED
        BY <4>1, <4>2
    <3>7. PutInv'
      BY <2>1, <3>3, <3>4 DEF PutInv, RequestsInv
    <3>8. QED
      BY <3>4, <3>6, <3>7 DEF RequestsInv
  <2>6. QED
    BY <1>5, <2>1, <2>4, <2>5 DEF SaveTimesOut
<1>7. QED
  BY <1>1, <1>2, <1>3, <1>4, <1>5, <1>6 DEF Managers

-----------------------------------------------------------------------------
(* The page.                                                               *)

\* A fetch that has come back well has a text.
LEMMA GotText ==
    ASSUME RequestsInv, NEW c \in Fetches, Answered(c)
    PROVE  /\ c \in Slots /\ c # "save"
           /\ calls[c].status \in {"ok", "same", "conflict", "failed"}
           /\ calls[c].status = "ok" => calls[c].got \in Text
           /\ calls[c].got \in Text \cup {NoText}
<1>1. c \in Slots /\ c # "save"
  BY EditorAssumption DEF Fetches, Slots
<1>2. calls[c] # NoCall /\ calls[c] \in Call /\ CallOK(c, calls[c], seen)
  BY <1>1 DEF Answered, RequestsInv, CallsInv
<1>3. QED
  BY <1>1, <1>2 DEF Answered, Open, CallOK, Call, Writing

\* ApplySnapshot of a text keeps the page in order.
LEMMA ApplyOK ==
    ASSUME PageInv, NEW t \in Text, ApplySnapshot(t),
           UNCHANGED <<file, machine, work>>,
           loading' \in BOOLEAN, loadError' \in BOOLEAN, checking' \in BOOLEAN,
           saving' \in {"no", "put", "refresh", "pull"}
    PROVE  PageInv' /\ seen \subseteq seen'
BY EditorAssumption DEF PageInv, ApplySnapshot, ShownHasEtag, Shown

\* The page changes its modes only.
LEMMA ModesOK ==
    ASSUME PageInv, UNCHANGED page, UNCHANGED <<file, machine, work>>,
           loading' \in BOOLEAN, loadError' \in BOOLEAN, checking' \in BOOLEAN,
           saving' \in {"no", "put", "refresh", "pull"},
           ShownHasEtag'
    PROVE  PageInv' /\ seen' = seen
BY DEF PageInv, page

LEMMA LoadAnsweredOK ==
    ASSUME PageInv, RequestsInv, NEW c \in Loads, LoadAnswered(c)
    PROVE  PageInv' /\ RequestsInv'
<1>1. c \in Fetches /\ Answered(c)
  BY DEF Fetches, LoadAnswered
<1>2. PageInv' /\ seen \subseteq seen'
  <2>1. CASE calls[c].status = "ok"
    BY <1>1, <2>1, GotText, ApplyOK DEF LoadAnswered, PageInv
  <2>2. CASE calls[c].status # "ok"
    <3>1. ShownHasEtag'
      BY <2>2 DEF LoadAnswered, ShownHasEtag, Shown
    <3>2. QED
      BY <2>2, <3>1, ModesOK DEF LoadAnswered, PageInv
  <2>3. QED
    BY <2>1, <2>2
<1>3. RequestsInv'
  <2>1. Ends(c) /\ saving' = saving
    BY DEF LoadAnswered
  <2>2. QED
    BY <1>1, <1>2, <2>1, GotText, EndsOK
<1>4. QED
  BY <1>2, <1>3

LEMMA ReloadAnsweredOK ==
    ASSUME PageInv, RequestsInv, NEW c \in Reloads, ReloadAnswered(c)
    PROVE  PageInv' /\ RequestsInv'
<1>1. c \in Fetches /\ Answered(c)
  BY DEF Fetches, ReloadAnswered
<1>2. PageInv' /\ seen \subseteq seen'
  <2>1. CASE calls[c].status = "ok"
    BY <1>1, <2>1, GotText, ApplyOK DEF ReloadAnswered, PageInv, modes
  <2>2. CASE calls[c].status # "ok"
    BY <2>2, PageKept DEF ReloadAnswered, PageInv
  <2>3. QED
    BY <2>1, <2>2
<1>3. RequestsInv'
  <2>1. Ends(c) /\ saving' = saving
    BY DEF ReloadAnswered, modes
  <2>2. QED
    BY <1>1, <1>2, <2>1, GotText, EndsOK
<1>4. QED
  BY <1>2, <1>3

LEMMA CheckRemoteOK ==
    ASSUME PageInv, RequestsInv, CheckRemote
    PROVE  PageInv' /\ RequestsInv'
<1>1. PageInv' /\ seen' = seen /\ saving' = saving
  <2>1. ShownHasEtag'
    BY DEF CheckRemote, page, ShownHasEtag, Shown, PageInv
  <2>2. QED
    BY <2>1, ModesOK DEF CheckRemote, PageInv
<1>2. "check" \in Slots /\ "check" # "save"
  BY DEF Slots
<1>3. machine \in Machines /\ diskEtag \in Text \cup {NoText}
  BY DEF PageInv
<1>4. Sends("check", Request(machine, diskEtag, NoText))
  BY DEF CheckRemote
<1>5. RequestsInv'
  BY <1>1, <1>2, <1>3, <1>4, SendsOK
<1>6. QED
  BY <1>1, <1>5

LEMMA CheckAnsweredOK ==
    ASSUME PageInv, RequestsInv, CheckAnswered
    PROVE  PageInv' /\ RequestsInv'
<1> DEFINE call == calls["check"]
<1>1. "check" \in Fetches /\ Answered("check")
  BY DEF Fetches, CheckAnswered
<1>2. PageInv' /\ seen \subseteq seen'
  <2>1. CASE call.status = "ok" /\ ApplySnapshot(call.got)
    BY <1>1, <2>1, GotText, ApplyOK DEF CheckAnswered, PageInv
  <2>2. ASSUME NEW t \in Text \cup {NoText}, ShowBanner(t) PROVE PageInv' /\ seen \subseteq seen'
    BY <2>2 DEF ShowBanner, CheckAnswered, PageInv, ShownHasEtag, Shown
  <2>3. CASE UNCHANGED page
    <3>1. ShownHasEtag'
      BY <2>3 DEF CheckAnswered, page, ShownHasEtag, Shown, PageInv
    <3>2. QED
      BY <2>3, <3>1, ModesOK DEF CheckAnswered, PageInv
  <2>4. QED
    BY <1>1, <2>1, <2>2, <2>3, GotText DEF CheckAnswered, Checked
<1>3. RequestsInv'
  <2>1. Ends("check") /\ saving' = saving
    BY DEF CheckAnswered
  <2>2. QED
    BY <1>1, <1>2, <2>1, GotText, EndsOK
<1>4. QED
  BY <1>2, <1>3

LEMMA SaveAnsweredOK ==
    ASSUME PageInv, RequestsInv, SaveAnswered
    PROVE  PageInv' /\ RequestsInv'
<1> DEFINE call == calls["save"]
<1>0. "save" \in Slots /\ "save" \notin Fetches
  BY EditorAssumption DEF Slots, Fetches
<1>1. call # NoCall /\ call.body # NoText /\ CallOK("save", call, seen)
  BY <1>0 DEF SaveAnswered, RequestsInv, PutInv, CallsInv
<1>2. call.body \in seen
  BY <1>1 DEF CallOK
<1>3. saving' # "put"
  BY DEF SaveAnswered
<1>4. CASE Is("save", "ok") /\ Saved(call) /\ saving' = "refresh" /\ Ends("save")
  <2>1. PageInv' /\ seen' = seen
    BY <1>2, <1>4, EditorAssumption DEF SaveAnswered, Saved, PageInv, ShownHasEtag, Shown
  <2>2. QED
    BY <1>0, <1>3, <1>4, <2>1, EndsOK
<1>5. CASE /\ conflict' = TRUE
           /\ saving' = "pull"
           /\ calls' = [calls EXCEPT !["save"] = Fetch(machine)]
           /\ UNCHANGED <<text, savedText, diskEtag, external, dismissedEtag, seen, typed>>
  <2>1. PageInv' /\ seen' = seen
    BY <1>5 DEF SaveAnswered, PageInv, ShownHasEtag, Shown
  <2>2. CallOK("save", Fetch(machine), seen')
    BY <1>0, FetchOK DEF PageInv
  <2>3. QED
    BY <1>0, <1>5, <2>1, <2>2, OneChange
<1>6. CASE saving' = "no" /\ Ends("save") /\ UNCHANGED page
  <2>1. PageInv' /\ seen' = seen
    BY <1>6 DEF SaveAnswered, page, PageInv, ShownHasEtag, Shown
  <2>2. QED
    BY <1>0, <1>3, <1>6, <2>1, EndsOK
<1>7. QED
  BY <1>4, <1>5, <1>6 DEF SaveAnswered

LEMMA SaveEndsOK ==
    ASSUME PageInv, RequestsInv, SaveEnds
    PROVE  PageInv' /\ RequestsInv'
<1>0. "save" \in Slots
  BY DEF Slots
<1>1. CASE UNCHANGED <<page, calls>>
  <2>1. PageInv' /\ seen' = seen
    BY <1>1 DEF SaveEnds, page, PageInv, ShownHasEtag, Shown
  <2>2. QED
    BY <1>1, <2>1, NoChange DEF SaveEnds
<1>2. CASE saving = "pull" /\ Answered("save")
  <2>0. IF Is("save", "ok") THEN ShowBanner(calls["save"].got) ELSE UNCHANGED page
    BY <1>2 DEF SaveEnds
  <2>1. calls["save"] \in Call
    BY <1>0, <1>2 DEF Answered, RequestsInv
  <2>2. PageInv' /\ seen' = seen
    <3>1. CASE ShowBanner(calls["save"].got)
      BY <2>1, <3>1 DEF SaveEnds, ShowBanner, Call, PageInv, ShownHasEtag, Shown
    <3>2. CASE UNCHANGED page
      BY <3>2 DEF SaveEnds, page, PageInv, ShownHasEtag, Shown
    <3>3. QED
      BY <2>0, <3>1, <3>2
  <2>3. Ends("save") /\ saving' = "no"
    BY <1>2 DEF SaveEnds
  <2>4. QED
    BY <1>0, <2>2, <2>3, EndsOK
<1>3. QED
  BY <1>1, <1>2 DEF SaveEnds
-----------------------------------------------------------------------------
(* The user, and others who write the file.                                *)

LEMMA TypingOK ==
    ASSUME PageInv, RequestsInv, KeepEditing \/ \E t \in Text : Type(t)
    PROVE  PageInv' /\ RequestsInv'
<1>1. CASE KeepEditing
  <2>1. PageInv' /\ seen' = seen /\ UNCHANGED <<calls, saving>>
    BY <1>1 DEF KeepEditing, modes, PageInv, ShownHasEtag, Shown
  <2>2. QED
    BY <2>1, NoChange
<1>2. ASSUME NEW t \in Text, Type(t) PROVE PageInv' /\ RequestsInv'
  <2>1. PageInv' /\ seen \subseteq seen' /\ UNCHANGED <<calls, saving>>
    BY <1>2, EditorAssumption DEF Type, modes, Works, PageInv, ShownHasEtag, Shown
  <2>2. QED
    BY <2>1, NoChange
<1>3. QED
  BY <1>1, <1>2

LEMMA FetchesOK ==
    ASSUME PageInv, RequestsInv,
           (\E m \in Machines : Load(m)) \/ (\E c \in Reloads : ReloadFromDisk(c))
    PROVE  PageInv' /\ RequestsInv'
<1>1. ASSUME NEW c \in Loads \cup Reloads, NEW m \in Machines, Sends(c, Fetch(m)),
             seen' = seen, saving' = saving
      PROVE  RequestsInv'
  <2>1. c \in Slots /\ c # "save"
    BY EditorAssumption DEF Slots
  <2>2. Sends(c, Request(m, NoText, NoText))
    BY <1>1 DEF Fetch
  <2>3. QED
    BY <1>1, <2>1, <2>2, SendsOK
<1>2. ASSUME NEW m \in Machines, Load(m) PROVE PageInv' /\ RequestsInv'
  <2>1. PageInv' /\ seen' = seen /\ saving' = saving
    <3>1. work' \in 0 .. MaxWork
      BY <1>2, EditorAssumption DEF Load, Works, PageInv
    <3>2. (typed /\ m = machine) \in BOOLEAN
      OBVIOUS
    <3>3. typed' \in BOOLEAN
      BY <1>2, <3>2 DEF Load
    <3>4. QED
      BY <1>2, <3>1, <3>3 DEF Load, PageInv, ShownHasEtag, Shown
  <2>2. PICK c \in Loads : Sends(c, Fetch(m))
    BY <1>2 DEF Load
  <2>3. QED
    BY <1>1, <2>1, <2>2
<1>3. ASSUME NEW c \in Reloads, ReloadFromDisk(c) PROVE PageInv' /\ RequestsInv'
  <2>1. PageInv' /\ seen' = seen /\ saving' = saving
    BY <1>3, PageKept DEF ReloadFromDisk, PageInv
  <2>2. machine \in Machines /\ Sends(c, Fetch(machine))
    BY <1>3 DEF ReloadFromDisk, PageInv
  <2>3. QED
    BY <1>1, <2>1, <2>2
<1>4. QED
  BY <1>2, <1>3

\* Only a page that is shown can save, and that one has an ETag it has seen.
LEMMA SaveOK ==
    ASSUME PageInv, RequestsInv, NEW force \in BOOLEAN, Save(force)
    PROVE  PageInv' /\ RequestsInv'
<1> DEFINE etag == IF force THEN AnyText ELSE diskEtag
<1>1. PageInv' /\ seen' = seen /\ saving' = "put"
  BY EditorAssumption DEF Save, Works, page, PageInv, ShownHasEtag, Shown
<1>2. diskEtag \in seen
  BY DEF Save, PageInv, ShownHasEtag
<1>3. text \in Text /\ text \in seen /\ text # NoText
  BY EditorAssumption DEF Save, PageInv
<1>4. "save" \in Slots /\ "save" \notin Fetches
  BY EditorAssumption DEF Slots, Fetches
<1>5. etag \in seen \cup {AnyText} /\ etag \in Text \cup {NoText, AnyText}
  BY <1>2 DEF PageInv
<1>6. machine \in Machines /\ Sends("save", Request(machine, etag, text))
  BY DEF Save, PageInv
<1> HIDE DEF etag
<1>7. RequestsInv'
  BY <1>1, <1>3, <1>4, <1>5, <1>6, SendsOK
<1>8. QED
  BY <1>1, <1>7

LEMMA EditFileOK ==
    ASSUME PageInv, RequestsInv, NEW m \in Machines, NEW t \in Text \cup {Absent}, EditFile(m, t)
    PROVE  PageInv' /\ RequestsInv'
<1> DEFINE r(c) == [calls[c] EXCEPT !.status = "overtaken"]
<1>1. PageInv' /\ seen' = seen /\ saving' = saving
  BY EditorAssumption DEF EditFile, Works, page, modes, PageInv, ShownHasEtag, Shown
<1>2. ASSUME NEW c \in Slots
      PROVE  \/ calls'[c] = calls[c]
             \/ Is(c, "checked") /\ calls'[c] = r(c)
  BY DEF EditFile
<1>3. ASSUME NEW c \in Slots, Is(c, "checked")
      PROVE  /\ calls[c].body # NoText /\ CallOK(c, calls[c], seen) /\ calls[c] \in Call
             /\ r(c) \in Call /\ r(c) # NoCall
             /\ r(c).body = calls[c].body /\ r(c).etag = calls[c].etag
             /\ r(c).status = "overtaken"
  <2>1. calls[c] \in Call /\ CallOK(c, calls[c], seen)
    BY <1>3 DEF Is, RequestsInv, CallsInv
  <2>2. calls[c].body # NoText
    BY <1>3, <2>1 DEF Is, CallOK, Writing
  <2>3. QED
    BY <2>1, <2>2, EditorAssumption DEF Call, Writing
<1>4. ASSUME NEW c \in Slots, Is(c, "checked") PROVE CallOK(c, r(c), seen)
  <2>1. /\ CallOK(c, calls[c], seen) /\ calls[c] # NoCall
        /\ calls[c].body # NoText /\ c \notin Fetches
    BY <1>3, <1>4 DEF CallOK, Is
  <2>2. /\ r(c) \in Call /\ r(c).body = calls[c].body /\ r(c).etag = calls[c].etag
    BY <1>3, <1>4
  <2> HIDE DEF r
  <2>3. QED
    BY <2>1, <2>2 DEF CallOK
<1> HIDE DEF r
<1>5. calls' \in [Slots -> Call \cup {NoCall}]
  <2>1. DOMAIN calls' = Slots /\ calls' = [c \in Slots |-> calls'[c]]
    BY DEF EditFile
  <2>2. \A c \in Slots : calls'[c] \in Call \cup {NoCall}
    BY <1>2, <1>3 DEF RequestsInv
  <2>3. QED
    BY <2>1, <2>2
<1>6. CallsInv'
  BY <1>1, <1>2, <1>4 DEF CallsInv, RequestsInv
<1>7. PutInv'
  <2>1. "save" \in Slots
    BY DEF Slots
  <2>2. QED
    BY <1>1, <1>2, <1>3, <2>1 DEF PutInv, RequestsInv
<1>8. QED
  BY <1>1, <1>5, <1>6, <1>7 DEF RequestsInv

-----------------------------------------------------------------------------
(* The invariant.                                                          *)

LEMMA IInvInit == Init => IInv
<1> SUFFICES ASSUME Init PROVE PageInv /\ RequestsInv
  BY IInvParts
<1>1. PageInv
  <2>1. file \in [Machines -> Text \cup {Absent}]
    BY DEF Init
  <2>2. work \in 0 .. MaxWork
    BY EditorAssumption DEF Init
  <2>3. QED
    BY <2>1, <2>2, EditorAssumption DEF Init, PageInv, ShownHasEtag, Shown
<1>2. PICK c \in Loads : calls = [s \in Slots |-> IF s = c THEN Fetch(machine) ELSE NoCall]
  BY DEF Init
<1>3. machine \in Machines
  BY EditorAssumption DEF Init
<1>4. /\ Fetch(machine) \in Call /\ Fetch(machine).body = NoText
      /\ Fetch(machine).status = "pending"
  BY <1>3, RequestType DEF Fetch
<1>5. calls \in [Slots -> Call \cup {NoCall}]
  BY <1>2, <1>4
<1>6. CallsInv
  BY <1>2, <1>4 DEF CallsInv, CallOK, Writing
<1>7. PutInv
  BY DEF Init, PutInv
<1>8. QED
  BY <1>1, <1>5, <1>6, <1>7 DEF RequestsInv

LEMMA IInvStep == IInv /\ [Next]_vars => IInv'
<1> SUFFICES ASSUME PageInv, RequestsInv, [Next]_vars PROVE PageInv' /\ RequestsInv'
  BY IInvParts DEF IInv, PageInv, RequestsInv, EditorTypeOK, SeenInv
<1>1. CASE User
  BY <1>1, TypingOK, FetchesOK, SaveOK DEF User
<1>2. CASE Managers
  BY <1>2, ManagersOK
<1>3. CASE \E m \in Machines, t \in Text \cup {Absent} : EditFile(m, t)
  BY <1>3, EditFileOK
<1>4. ASSUME NEW c \in Slots, Page(c) PROVE PageInv' /\ RequestsInv'
  BY <1>4, LoadAnsweredOK, ReloadAnsweredOK, CheckRemoteOK, CheckAnsweredOK,
     SaveAnsweredOK, SaveEndsOK DEF Page
<1>5. CASE UNCHANGED vars
  <2>1. PageInv' /\ seen' = seen /\ saving' = saving
    BY <1>5, PageKept DEF vars, PageInv
  <2>2. QED
    BY <1>5, <2>1, NoChange DEF vars
<1>6. QED
  BY <1>1, <1>2, <1>3, <1>4, <1>5 DEF Next

LEMMA IInvAlways == Spec => []IInv
BY IInvInit, IInvStep, PTL DEF Spec

\* The editor's state keeps its types, whatever the managers answer and when.
THEOREM EditorTypeCorrect == Spec => []EditorTypeOK
BY IInvAlways, PTL DEF IInv

\* A page that is shown, the only one that can save, has the ETag of a version: no
\* save goes out without If-Match, which a manager takes for "overwrite whatever is
\* there" (ConfigEditor.svelte:229, api.ts:186, handlers.go:534).
THEOREM ShownHasEtagCorrect == Spec => []ShownHasEtag
BY IInvAlways, PTL DEF IInv

\* An answer is put into the request it is an answer to.
LEMMA AnswerIsCall ==
    ASSUME calls \in [Slots -> Call \cup {NoCall}], NEW c \in Slots, calls[c] # NoCall,
           NEW status \in {"ok", "same", "conflict", "failed", "checked"},
           NEW got \in Text \cup {NoText},
           Answers(c, status, got)
    PROVE  /\ calls'[c] # NoCall /\ \A d \in Slots \ {c} : calls'[d] = calls[d]
           /\ calls'[c].status = status
           /\ calls'[c].m = calls[c].m /\ calls'[c].etag = calls[c].etag
<1> DEFINE r == [calls[c] EXCEPT !.status = status, !.got = got]
<1>1. /\ r \in Call /\ r.status = status
      /\ r.m = calls[c].m /\ r.etag = calls[c].etag
  BY DEF Call, Writing
<1>2. calls' = [calls EXCEPT ![c] = r]
  BY DEF Answers
<1> HIDE DEF r
<1>3. QED
  BY <1>1, <1>2, EditorAssumption

\* The version that a save has compared is still there, unless it has been overtaken: any
\* other save puts there what has been in the text area.
CheckedInv ==
    \A c \in Slots : Is(c, "checked") /\ calls[c].etag # AnyText =>
                       file[calls[c].m] \in seen \cup {Absent}

\* Steps that change no file, and compare nothing new, keep it so.
LEMMA CheckedKept ==
    ASSUME CheckedInv, UNCHANGED file, seen \subseteq seen',
           \A c \in Slots : Is(c, "checked")' => \E d \in Slots : calls'[c] = calls[d]
    PROVE  CheckedInv'
BY DEF CheckedInv, Is

\* One request changes, and is not one that has compared.
LEMMA OneKept ==
    ASSUME CheckedInv, UNCHANGED file, seen \subseteq seen', NEW c \in Slots,
           \A d \in Slots \ {c} : calls'[d] = calls[d],
           calls'[c] = NoCall \/ calls'[c].status # "checked"
    PROVE  CheckedInv'
<1>1. \A d \in Slots : Is(d, "checked")' => d # c
  BY DEF Is
<1>2. QED
  BY <1>1, CheckedKept

LEMMA CheckedManagers ==
    ASSUME IInv, CheckedInv, Managers
    PROVE  CheckedInv'
<1>c. /\ calls \in [Slots -> Call \cup {NoCall}] /\ "save" \in Slots
      /\ file \in [Machines -> Text \cup {Absent}] /\ seen \subseteq Text /\ CallsInv
  BY DEF IInv, EditorTypeOK, Slots
<1>e. ASSUME NEW c \in Slots, Ends(c), UNCHANGED <<file, seen>> PROVE CheckedInv'
  BY <1>c, <1>e, OneKept DEF Ends
<1>a. ASSUME NEW c \in Slots, calls[c] # NoCall,
             NEW status \in {"ok", "same", "conflict", "failed"}, NEW got \in Text \cup {NoText},
             Answers(c, status, got), UNCHANGED <<file, seen>>
      PROVE  CheckedInv'
  <2>1. /\ \A d \in Slots \ {c} : calls'[d] = calls[d]
        /\ calls'[c].status = status
    BY <1>c, <1>a, AnswerIsCall
  <2>2. QED
    BY <1>a, <2>1, OneKept
<1>1. ASSUME NEW c \in Slots, GetConfig(c) PROVE CheckedInv'
  <2>1. calls[c] # NoCall /\ file[calls[c].m] \in Text \cup {Absent}
    BY <1>c, <1>1 DEF GetConfig, Is, Call
  <2>2. PICK status \in {"ok", "same", "failed"}, got \in Text \cup {NoText} :
          Answers(c, status, got)
    BY <1>1, <2>1 DEF GetConfig
  <2>3. UNCHANGED <<file, seen>>
    BY <1>1 DEF GetConfig, page
  <2>4. QED
    BY <1>a, <2>1, <2>2, <2>3
<1>2. ASSUME NEW c \in Slots, SaveCheck(c) PROVE CheckedInv'
  <2>1. /\ calls[c] # NoCall /\ calls[c].body # NoText /\ CallOK(c, calls[c], seen)
        /\ UNCHANGED <<file, seen>>
    BY <1>c, <1>2 DEF SaveCheck, Is, CallsInv, page
  <2>2. CASE Ends(c) \/ Answers(c, "conflict", NoText)
    BY <1>a, <1>e, <2>1, <2>2
  <2>3. CASE Matches(calls[c].etag, file[calls[c].m]) /\ Answers(c, "checked", NoText)
    <3>1. calls[c].etag # AnyText => calls[c].etag \in seen /\ calls[c].etag # NoText
      BY <1>c, <2>1, EditorAssumption DEF CallOK
    <3>2. calls[c].etag # AnyText => file[calls[c].m] \in seen \cup {Absent}
      BY <2>3, <3>1 DEF Matches
    <3>3. /\ \A d \in Slots \ {c} : calls'[d] = calls[d]
          /\ calls'[c].m = calls[c].m /\ calls'[c].etag = calls[c].etag
      BY <1>c, <2>1, <2>3, AnswerIsCall
    <3>4. QED
      BY <2>1, <3>2, <3>3 DEF CheckedInv, Is
  <2>4. QED
    BY <1>2, <2>2, <2>3 DEF SaveCheck
<1>3. ASSUME NEW c \in Slots, SaveWrite(c) PROVE CheckedInv'
  <2>1. /\ calls[c] # NoCall /\ calls[c] \in Call /\ calls[c].body \in seen
        /\ seen' = seen
    BY <1>c, <1>3 DEF SaveWrite, Open, CallsInv, CallOK, page
  <2>2. file' = [file EXCEPT ![calls[c].m] = calls[c].body]
    BY <1>3 DEF SaveWrite
  <2>3. /\ \A d \in Slots \ {c} : calls'[d] = calls[d]
        /\ calls'[c] = NoCall \/ calls'[c].status # "checked"
    BY <1>c, <1>3, <2>1, AnswerIsCall DEF SaveWrite, Ends
  <2>4. ASSUME NEW d \in Slots, Is(d, "checked")', calls'[d].etag # AnyText
        PROVE  file'[calls'[d].m] \in seen' \cup {Absent}
    <3>1. d # c /\ calls'[d] = calls[d] /\ calls[d] \in Call
      BY <1>c, <2>3, <2>4 DEF Is
    <3>2. file[calls[d].m] \in seen \cup {Absent} /\ calls[d].m \in Machines
      BY <2>4, <3>1 DEF CheckedInv, Is, Call
    <3>3. QED
      BY <1>c, <2>1, <2>2, <3>1, <3>2
  <2>5. QED
    BY <2>4 DEF CheckedInv
<1>4. ASSUME NEW c \in Slots, Fails(c) PROVE CheckedInv'
  BY <1>a, <1>4 DEF Fails, Open, page
<1>5. ASSUME NEW c \in Slots, LateIsLost(c) PROVE CheckedInv'
  BY <1>e, <1>5 DEF LateIsLost, page
<1>6. CASE SaveTimesOut
  <2>1. calls["save"] # NoCall /\ UNCHANGED <<file, seen>>
    BY <1>6 DEF SaveTimesOut, page
  <2>2. CASE Answers("save", "failed", NoText)
    BY <1>a, <1>c, <2>1, <2>2
  <2>3. ASSUME NEW c \in Lates,
               calls' = [calls EXCEPT !["save"].status = "failed", ![c] = calls["save"]]
        PROVE  CheckedInv'
    <3> DEFINE r == [calls["save"] EXCEPT !.status = "failed"]
    <3>1. c \in Slots /\ c # "save" /\ r.status = "failed"
      BY <1>c, <2>1, EditorAssumption DEF Slots, Call
    <3>2. /\ calls'["save"] = r /\ calls'[c] = calls["save"]
          /\ \A d \in Slots \ {c, "save"} : calls'[d] = calls[d]
      BY <1>c, <2>3, <3>1
    <3>3. ASSUME NEW d \in Slots, Is(d, "checked")' PROVE \E e \in Slots : calls'[d] = calls[e]
      BY <1>c, <3>1, <3>2, <3>3 DEF Is
    <3>4. QED
      BY <2>1, <3>3, CheckedKept
  <2>4. QED
    BY <1>6, <2>1, <2>2, <2>3 DEF SaveTimesOut
<1>7. QED
  BY <1>1, <1>2, <1>3, <1>4, <1>5, <1>6 DEF Managers

LEMMA CheckedStep ==
    ASSUME IInv, CheckedInv, [Next]_vars
    PROVE  CheckedInv'
<1>c. /\ calls \in [Slots -> Call \cup {NoCall}] /\ "save" \in Slots /\ "check" \in Slots
      /\ Loads \cup Reloads \subseteq Slots /\ machine \in Machines
      /\ file \in [Machines -> Text \cup {Absent}]
  BY DEF IInv, EditorTypeOK, Slots
<1>r. \A m, etag, body : Request(m, etag, body).status = "pending"
  BY DEF Request
<1>f. \A m : Fetch(m).status = "pending"
  BY <1>r DEF Fetch
<1>s. ASSUME NEW c \in Slots, NEW q, q.status = "pending", calls' = [calls EXCEPT ![c] = q],
             UNCHANGED file, seen \subseteq seen'
      PROVE  CheckedInv'
  BY <1>c, <1>s, OneKept
<1>e. ASSUME NEW c \in Slots, Ends(c), UNCHANGED file, seen \subseteq seen' PROVE CheckedInv'
  BY <1>c, <1>e, OneKept DEF Ends
<1>u. ASSUME UNCHANGED <<file, calls>>, seen \subseteq seen' PROVE CheckedInv'
  BY <1>u, CheckedKept
<1>1. CASE Managers
  BY <1>1, CheckedManagers
<1>2. ASSUME NEW m \in Machines, NEW t \in Text \cup {Absent}, EditFile(m, t) PROVE CheckedInv'
  <2> SUFFICES ASSUME NEW c \in Slots, Is(c, "checked")', calls'[c].etag # AnyText
               PROVE  file'[calls'[c].m] \in seen' \cup {Absent}
    BY DEF CheckedInv
  <2>1. calls[c] \in Call \cup {NoCall}
    BY <1>c
  <2>2. calls'[c] = calls[c] /\ Is(c, "checked") /\ calls[c].m # m
    BY <1>2, <2>1 DEF EditFile, Is, Call
  <2>3. file'[calls[c].m] = file[calls[c].m] /\ seen' = seen
    BY <1>2, <1>c, <2>1, <2>2 DEF EditFile, page, Is, Call
  <2>4. QED
    BY <2>2, <2>3 DEF CheckedInv
<1>3. CASE User
  <2>1. CASE KeepEditing \/ \E t \in Text : Type(t)
    BY <1>u, <2>1 DEF KeepEditing, Type
  <2>2. CASE \E m \in Machines : Load(m)
    BY <1>c, <1>f, <1>s, <2>2 DEF Load, Sends
  <2>3. CASE \E c \in Reloads : ReloadFromDisk(c)
    BY <1>c, <1>f, <1>s, <2>3 DEF ReloadFromDisk, Sends, page
  <2>4. CASE \E force \in BOOLEAN : Save(force)
    <3>1. PICK etag \in {AnyText, diskEtag} :
            calls' = [calls EXCEPT !["save"] = Request(machine, etag, text)]
      BY <2>4 DEF Save, Sends
    <3>2. UNCHANGED <<file, seen>>
      BY <2>4 DEF Save, page
    <3>3. QED
      BY <1>c, <1>r, <1>s, <3>1, <3>2
  <2>5. QED
    BY <1>3, <2>1, <2>2, <2>3, <2>4 DEF User
<1>4. ASSUME NEW c \in Slots, Page(c) PROVE CheckedInv'
  <2>1. CASE c \in Loads /\ LoadAnswered(c)
    BY <1>e, <2>1 DEF LoadAnswered, ApplySnapshot, page
  <2>2. CASE c \in Reloads /\ ReloadAnswered(c)
    BY <1>e, <2>2 DEF ReloadAnswered, ApplySnapshot, page
  <2>3. CASE CheckRemote
    BY <1>c, <1>r, <1>s, <2>3 DEF CheckRemote, Sends, page
  <2>4. CASE CheckAnswered
    BY <1>c, <1>e, <2>4 DEF CheckAnswered, Checked, ShowBanner, ApplySnapshot, page
  <2>5. CASE SaveAnswered
    BY <1>c, <1>e, <1>f, <1>s, <2>5 DEF SaveAnswered, Saved, page
  <2>6. CASE SaveEnds
    BY <1>c, <1>e, <1>u, <2>6 DEF SaveEnds, ShowBanner, page
  <2>7. QED
    BY <1>4, <2>1, <2>2, <2>3, <2>4, <2>5, <2>6 DEF Page
<1>5. CASE UNCHANGED vars
  BY <1>u, <1>5 DEF vars, page
<1>6. QED
  BY <1>1, <1>2, <1>3, <1>4, <1>5 DEF Next

\* A save that the user has not forced replaces a version that the user has had in the
\* text area, or a missing file, unless another program has written the file after this
\* save's own If-Match check: it carries the ETag of a version that has been there, and
\* not even a save that is done after its timeout overwrites an edit that was there when
\* it was compared (handlers.go:531-556).
THEOREM UnseenIsKeptCorrect == Spec => UnseenIsKept
<1> DEFINE P(c) == SaveWrite(c) /\ file' # file /\ calls[c].etag # AnyText =>
                     \/ file[calls[c].m] \in seen \cup {Absent}
                     \/ Is(c, "overtaken")
<1>1. ASSUME CheckedInv, NEW c \in Slots PROVE P(c)
  BY <1>1 DEF SaveWrite, Open, Writing, Is, CheckedInv
<1>2. CheckedInv => \A c \in Slots : P(c)
  BY <1>1
<1> HIDE DEF P
<1>3. Init => CheckedInv
  BY DEF Init, CheckedInv, Is, Fetch, Request
<1>4. IInv /\ CheckedInv /\ [Next]_vars => CheckedInv'
  BY CheckedStep
<1>5. Spec => [][\A c \in Slots : P(c)]_vars
  BY <1>2, <1>3, <1>4, IInvAlways, PTL DEF Spec
<1>6. QED
  BY <1>5 DEF P, UnseenIsKept

-----------------------------------------------------------------------------
(* What keeps the page from polling.                                       *)

\* A manager, the network and a timeout take no request away from the page.
LEMMA ManagersKeep ==
    ASSUME IInv, Managers
    PROVE  \A d \in Slots \ Lates : calls[d] # NoCall => calls'[d] # NoCall
<1>c. /\ calls \in [Slots -> Call \cup {NoCall}] /\ "save" \in Slots
      /\ file \in [Machines -> Text \cup {Absent}]
  BY DEF IInv, EditorTypeOK, Slots
<1>1. ASSUME NEW c \in Slots, GetConfig(c)
      PROVE  \A d \in Slots : calls[d] # NoCall => calls'[d] # NoCall
  <2>1. calls[c] # NoCall /\ file[calls[c].m] \in Text \cup {Absent}
    BY <1>c, <1>1 DEF GetConfig, Is, Call
  <2>2. \E status \in {"ok", "same", "failed"}, got \in Text \cup {NoText} : Answers(c, status, got)
    BY <1>1, <2>1 DEF GetConfig
  <2>3. QED
    BY <1>c, <2>1, <2>2, AnswerIsCall
<1>2. ASSUME NEW c \in Slots, SaveCheck(c) \/ SaveWrite(c)
      PROVE  \A d \in Slots \ Lates : calls[d] # NoCall => calls'[d] # NoCall
  <2>1. \/ c \in Lates /\ Ends(c)
        \/ \E status \in {"ok", "conflict", "checked"}, got \in {NoText} : Answers(c, status, got)
    BY <1>2 DEF SaveCheck, SaveWrite
  <2>2. calls[c] # NoCall
    BY <1>2 DEF SaveCheck, SaveWrite, Is, Open
  <2>3. QED
    BY <1>c, <2>1, <2>2, AnswerIsCall DEF Ends
<1>3. ASSUME NEW c \in Slots, Fails(c)
      PROVE  \A d \in Slots : calls[d] # NoCall => calls'[d] # NoCall
  BY <1>c, <1>3, AnswerIsCall DEF Fails, Open
<1>4. ASSUME NEW c \in Slots, LateIsLost(c)
      PROVE  \A d \in Slots \ Lates : calls[d] # NoCall => calls'[d] # NoCall
  BY <1>c, <1>4 DEF LateIsLost, Ends
<1>5. CASE SaveTimesOut
  <2>1. CASE Answers("save", "failed", NoText)
    BY <1>c, <1>5, <2>1, AnswerIsCall DEF SaveTimesOut
  <2>2. ASSUME NEW c \in Lates, Open("save"),
               calls' = [calls EXCEPT !["save"].status = "failed", ![c] = calls["save"]]
        PROVE  \A d \in Slots \ Lates : calls[d] # NoCall => calls'[d] # NoCall
    <3> DEFINE r == [calls["save"] EXCEPT !.status = "failed"]
    <3>1. c \in Slots /\ c # "save" /\ r \in Call
      BY <1>c, <2>2, EditorAssumption DEF Open, Slots, Call
    <3>2. calls'["save"] = r /\ \A d \in Slots \ {c, "save"} : calls'[d] = calls[d]
      BY <1>c, <2>2, <3>1
    <3>3. QED
      BY <3>1, <3>2, EditorAssumption
  <2>3. QED
    BY <1>5, <2>1, <2>2 DEF SaveTimesOut
<1>6. QED
  BY <1>1, <1>2, <1>3, <1>4, <1>5 DEF Managers

LEMMA OwedStep ==
    ASSUME IInv, PollingIsOwed, [Next]_vars
    PROVE  PollingIsOwed'
<1>c. /\ calls \in [Slots -> Call \cup {NoCall}]
      /\ {"check", "save"} \subseteq Slots /\ Loads \cup Reloads \subseteq Slots
      /\ {"check", "save"} \cap (Loads \cup Reloads \cup Lates) = {}
      /\ Loads \cap Reloads = {} /\ Loads \cap Lates = {}
  BY EditorAssumption DEF IInv, EditorTypeOK, Slots
<1>r. ASSUME NEW m \in Machines, NEW etag \in Text \cup {NoText, AnyText}, NEW body \in Text \cup {NoText}
      PROVE  Request(m, etag, body) # NoCall
  BY RequestType
<1>f. \A m \in Machines : Fetch(m) # NoCall
  BY <1>r DEF Fetch
<1>m. machine \in Machines /\ diskEtag \in Text \cup {NoText} /\ text \in Text \cup {NoText}
  BY DEF IInv, EditorTypeOK
<1>1. CASE Managers
  <2>1. UNCHANGED modes
    BY <1>1 DEF Managers, GetConfig, SaveCheck, SaveWrite, Fails, SaveTimesOut, LateIsLost
  <2>2. QED
    BY <1>1, <1>c, <2>1, ManagersKeep DEF PollingIsOwed, modes
<1>2. ASSUME NEW m \in Machines, Load(m) PROVE PollingIsOwed'
  <2>1. PICK c \in Loads : calls[c] = NoCall /\ calls' = [calls EXCEPT ![c] = Fetch(m)]
    BY <1>2 DEF Load, Sends
  <2>2. calls'[c] # NoCall /\ \A d \in Slots \ {c} : calls'[d] = calls[d]
    BY <1>c, <1>f, <2>1
  <2>3. QED
    BY <1>2, <1>c, <2>2 DEF Load, PollingIsOwed
<1>3. ASSUME NEW c \in Reloads, ReloadFromDisk(c) \/ ReloadAnswered(c) PROVE PollingIsOwed'
  <2>1. \A d \in Slots \ {c} : calls'[d] = calls[d]
    BY <1>c, <1>3 DEF ReloadFromDisk, ReloadAnswered, Sends, Ends
  <2>2. UNCHANGED modes
    BY <1>3 DEF ReloadFromDisk, ReloadAnswered
  <2>3. QED
    BY <1>c, <2>1, <2>2 DEF PollingIsOwed, modes
<1>4. ASSUME NEW c \in Loads, LoadAnswered(c) PROVE PollingIsOwed'
  <2>1. \A d \in Slots \ {c} : calls'[d] = calls[d]
    BY <1>c, <1>4 DEF LoadAnswered, Ends
  <2>2. QED
    BY <1>c, <1>4, <2>1 DEF LoadAnswered, PollingIsOwed
<1>5. CASE CheckRemote
  <2>1. calls' = [calls EXCEPT !["check"] = Request(machine, diskEtag, NoText)]
    BY <1>5 DEF CheckRemote, Sends
  <2>2. calls'["check"] # NoCall /\ \A d \in Slots \ {"check"} : calls'[d] = calls[d]
    BY <1>c, <1>r, <1>m, <2>1
  <2>3. QED
    BY <1>c, <1>5, <2>2 DEF CheckRemote, PollingIsOwed
<1>6. CASE CheckAnswered
  <2>1. \A d \in Slots \ {"check"} : calls'[d] = calls[d]
    BY <1>c, <1>6 DEF CheckAnswered, Ends
  <2>2. QED
    BY <1>c, <1>6, <2>1 DEF CheckAnswered, PollingIsOwed
<1>7. CASE SaveAnswered
  <2>1. \A d \in Slots \ {"save"} : calls'[d] = calls[d]
    BY <1>c, <1>7 DEF SaveAnswered, Ends
  <2>2. saving' = "pull" => calls'["save"] # NoCall
    BY <1>c, <1>f, <1>m, <1>7 DEF SaveAnswered
  <2>3. saving' # "put" /\ UNCHANGED <<loading, checking>>
    BY <1>7 DEF SaveAnswered
  <2>4. QED
    BY <1>c, <2>1, <2>2, <2>3 DEF PollingIsOwed
<1>8. CASE SaveEnds
  <2>1. \A d \in Slots \ {"save"} : calls'[d] = calls[d]
    BY <1>c, <1>8 DEF SaveEnds, Ends
  <2>2. QED
    BY <1>c, <1>8, <2>1 DEF SaveEnds, PollingIsOwed
<1>9. ASSUME NEW force \in BOOLEAN, Save(force) PROVE PollingIsOwed'
  <2>1. \E etag \in {AnyText, diskEtag} : calls' = [calls EXCEPT !["save"] = Request(machine, etag, text)]
    BY <1>9 DEF Save, Sends
  <2>2. calls'["save"] # NoCall /\ \A d \in Slots \ {"save"} : calls'[d] = calls[d]
    BY <1>c, <1>r, <1>m, <2>1
  <2>3. QED
    BY <1>c, <1>9, <2>2 DEF Save, PollingIsOwed
<1>10. CASE UNCHANGED <<modes, calls>>
  BY <1>10 DEF modes, PollingIsOwed
<1>12. ASSUME NEW m \in Machines, NEW t \in Text \cup {Absent}, EditFile(m, t)
       PROVE  PollingIsOwed'
  <2>1. \A c \in Slots : calls[c] # NoCall => calls'[c] # NoCall
    <3> SUFFICES ASSUME NEW c \in Slots, calls[c] # NoCall PROVE calls'[c] # NoCall
      OBVIOUS
    <3>1. calls[c] \in Call
      BY <1>c
    <3>2. [calls[c] EXCEPT !.status = "overtaken"] \in Call
      BY <3>1 DEF Call, Writing
    <3>3. QED
      BY <1>12, <3>1, <3>2, EditorAssumption DEF EditFile
  <2>2. UNCHANGED modes
    BY <1>12 DEF EditFile
  <2>3. QED
    BY <1>c, <2>1, <2>2 DEF PollingIsOwed, modes
<1>11. QED
  BY <1>1, <1>2, <1>3, <1>4, <1>5, <1>6, <1>7, <1>8, <1>9, <1>10, <1>12
  DEF Next, User, Page, Type, KeepEditing, vars

\* Polling never stops for good because of a flag that nobody resets: what is in its way
\* is always a request in flight, with any number of loads, reloads and late saves.
THEOREM PollingIsOwedCorrect == Spec => []PollingIsOwed
<1>1. Init => PollingIsOwed
  <2> SUFFICES ASSUME Init PROVE PollingIsOwed
    OBVIOUS
  <2>1. PICK c \in Loads : calls = [s \in Slots |-> IF s = c THEN Fetch(machine) ELSE NoCall]
    BY DEF Init
  <2>2. Fetch(machine) # NoCall /\ c \in Slots
    <3>1. machine \in Machines /\ c \in Slots
      BY EditorAssumption DEF Init, Slots
    <3>2. Fetch(machine) = Request(machine, NoText, NoText)
      BY DEF Fetch
    <3>3. QED
      BY <3>1, <3>2, RequestType
  <2>3. QED
    BY <2>1, <2>2 DEF Init, PollingIsOwed
<1>2. IInv /\ PollingIsOwed /\ [Next]_vars => PollingIsOwed'
  BY OwedStep
<1>3. QED
  BY <1>1, <1>2, IInvAlways, PTL DEF Spec
=============================================================================
