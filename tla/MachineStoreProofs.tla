------------------------- MODULE MachineStoreProofs ------------------------
(***************************************************************************)
(* Proofs about MachineStore for any models, contents of the config file   *)
(* and numbers of refreshes, actions and changes that overlap.             *)
(***************************************************************************)
EXTENDS MachineStore, TLAPS

Kinds == {"fleet", "running", "proxy", "config", "save"}

\* A save goes out with the version that its change has read.
SaveInv ==
    \A c \in Slots : calls[c] # NoCall /\ calls[c].kind = "save" => calls[c].file \in File

\* A version has been read once the question for it is answered.
ReadInv ==
    \A c \in Slots :
        calls[c] # NoCall /\ calls[c].kind = "config" /\ calls[c].status = "ok" =>
            calls[c].file \in File

IInv == StoreTypeOK /\ SaveInv /\ ReadInv

-----------------------------------------------------------------------------
(* Requests.                                                               *)

LEMMA AskType ==
    ASSUME NEW kind \in Kinds, NEW on \in BOOLEAN, NEW f \in File \cup {NoFile}
    PROVE  /\ Ask(kind, on, f) \in Call /\ Ask(kind, on, f) # NoCall
           /\ Ask(kind, on, f).kind = kind /\ Ask(kind, on, f).file = f
           /\ Ask(kind, on, f).status = "pending"
<1>1. Ask(kind, on, f) \in Call
  BY DEF Ask, Call, Kinds
<1>2. QED
  BY <1>1, StoreAssumption DEF Ask

LEMMA CallFields ==
    ASSUME NEW call \in Call
    PROVE  /\ call # NoCall /\ call.kind \in Kinds /\ call.on \in BOOLEAN
           /\ call.status \in {"pending", "ok", "missing", "failed", "checked", "overtaken"}
           /\ call.run \in Runs \cup {Unknown} /\ call.file \in File \cup {NoFile}
BY StoreAssumption DEF Call, Kinds, Writing

\* What a request may be so that the invariant holds of it.
Good(call) ==
    call \in Call \cup {NoCall}
    /\ (call # NoCall /\ call.kind = "save" => call.file \in File)
    /\ (call # NoCall /\ call.kind = "config" /\ call.status = "ok" => call.file \in File)

LEMMA GoodIs == IInv <=> StoreTypeOK /\ \A c \in Slots : Good(calls[c])
BY DEF IInv, SaveInv, ReadInv, Good, StoreTypeOK

LEMMA GetGood ==
    ASSUME NEW kind \in {"fleet", "running", "proxy"}
    PROVE  Good(Get(kind)) /\ Get(kind) \in Call /\ Get(kind) # NoCall
<1>1. kind \in Kinds /\ kind \notin {"save", "config"}
  BY DEF Kinds
<1>2. QED
  BY <1>1, AskType DEF Get, Good

\* The flags, as far as they follow the requests.
FlagsInv ==
    /\ refreshInFlight <=> \E d \in All : calls[d] # NoCall
    /\ pollingStatus # NoCall => calls[pollingStatus] # NoCall
    /\ busy # NoCall => calls[busy] # NoCall

\* The parts of the type invariant that say nothing of the requests.
QuietInv ==
    /\ up \in BOOLEAN /\ legacy \in BOOLEAN
    /\ run \in Runs /\ file \in File
    /\ statuses \in Runs \cup {Unknown, Offline}
    /\ fleetViews \in Runs \cup {Unknown, Null}
    /\ proxies \in BOOLEAN \cup {Unknown}
    /\ view \in {"fleet", "machine"}
    /\ refreshInFlight \in BOOLEAN
    /\ pollingStatus \in Views \cup {NoCall} /\ busy \in Changes \cup {NoCall}
    /\ work \in 0 .. MaxWork

CallsInv == calls \in [Slots -> Call \cup {NoCall}] /\ \A c \in Slots : Good(calls[c])

LEMMA Parts == IInv <=> QuietInv /\ FlagsInv /\ CallsInv
BY GoodIs DEF StoreTypeOK, QuietInv, FlagsInv, CallsInv

LEMMA PartsNext == ASSUME QuietInv', FlagsInv', CallsInv' PROVE IInv'
BY DEF IInv, SaveInv, ReadInv, Good, StoreTypeOK, QuietInv, FlagsInv, CallsInv

LEMMA WorkType ==
    ASSUME QuietInv, Works
    PROVE  work' \in 0 .. MaxWork
BY StoreAssumption DEF QuietInv, Works

\* A request that replaces another one, or takes an empty slot.
LEMMA CallChange ==
    ASSUME CallsInv, NEW c \in Slots, NEW call, Good(call),
           calls' = [calls EXCEPT ![c] = call]
    PROVE  /\ CallsInv' /\ calls'[c] = call
           /\ \A d \in Slots \ {c} : calls'[d] = calls[d]
BY DEF CallsInv, Good

LEMMA SlotsAre ==
    /\ All \subseteq Slots /\ Views \subseteq Slots
    /\ Actions \subseteq Slots /\ Changes \subseteq Slots
    /\ \A c \in Views \cup Actions \cup Changes : c \notin All
BY StoreAssumption DEF Slots

-----------------------------------------------------------------------------
(* The machine's steps.                                                    *)

\* A request that goes on being one leaves the flags true.
LEMMA FlagsKept ==
    ASSUME CallsInv, FlagsInv, QuietInv, UNCHANGED flags, NEW c \in Slots, calls[c] # NoCall,
           NEW call, Good(call), call # NoCall, calls' = [calls EXCEPT ![c] = call]
    PROVE  FlagsInv'
<1>1. calls'[c] = call /\ \A d \in Slots \ {c} : calls'[d] = calls[d]
  BY CallChange
<1>2. \A d \in Slots : calls'[d] # NoCall <=> calls[d] # NoCall
  BY <1>1
<1>3. QED
  BY <1>2, SlotsAre DEF FlagsInv, QuietInv, flags

LEMMA OvertakeGood ==
    ASSUME CallsInv, Overtake
    PROVE  CallsInv' /\ \A c \in Slots : calls'[c] # NoCall <=> calls[c] # NoCall
<1>1. ASSUME NEW c \in Slots
      PROVE  Good(calls'[c]) /\ (calls'[c] # NoCall <=> calls[c] # NoCall)
  <2>1. CASE calls'[c] = calls[c]
    BY <2>1 DEF CallsInv
  <2>2. CASE /\ calls[c] # NoCall
             /\ calls'[c] = [calls[c] EXCEPT !.status = "overtaken"]
    <3>1. calls[c] \in Call /\ Good(calls[c])
      BY <2>2 DEF CallsInv
    <3>2. calls'[c] \in Call /\ calls'[c].kind = calls[c].kind /\ calls'[c].file = calls[c].file
          /\ calls'[c].status = "overtaken"
      BY <2>2, <3>1 DEF Call, Writing
    <3>3. QED
      BY <2>2, <3>1, <3>2, StoreAssumption DEF Good
  <2>3. QED
    BY <2>1, <2>2 DEF Overtake
<1>2. calls' \in [Slots -> Call \cup {NoCall}]
  <2>1. DOMAIN calls' = Slots /\ calls' = [c \in Slots |-> calls'[c]]
    BY DEF Overtake
  <2>2. \A c \in Slots : calls'[c] \in Call \cup {NoCall}
    BY <1>1 DEF Good
  <2>3. QED
    BY <2>1, <2>2
<1>3. QED
  BY <1>1, <1>2 DEF CallsInv

LEMMA OthersStep == ASSUME IInv, Others PROVE IInv'
<1>1. QuietInv'
  BY Parts, WorkType DEF QuietInv, Others, store, flags
<1>2. UNCHANGED flags
  BY DEF Others
<1>3. CallsInv' /\ \A c \in Slots : calls'[c] # NoCall <=> calls[c] # NoCall
  BY Parts, OvertakeGood DEF Others, CallsInv
<1>4. FlagsInv'
  BY <1>2, <1>3, Parts, SlotsAre DEF FlagsInv, QuietInv, flags
<1>5. QED
  BY <1>1, <1>3, <1>4, PartsNext

LEMMA RequestGood ==
    ASSUME IInv, NEW c \in Slots, calls[c] # NoCall
    PROVE  calls[c] \in Call /\ Good(calls[c])
BY Parts DEF CallsInv

LEMMA TellsGood ==
    ASSUME IInv, NEW c \in Slots, calls[c] # NoCall, Tells(c, calls[c])
    PROVE  \E call \in Call :
              Good(call) /\ call # NoCall /\ calls' = [calls EXCEPT ![c] = call]
<1> DEFINE old == calls[c]
<1>0. old \in Call /\ Good(old)
  BY RequestGood
<1>1. CASE old.kind \in {"fleet", "proxy"} /\ Answers(c, [old EXCEPT !.status = "missing"])
  <2> DEFINE new == [old EXCEPT !.status = "missing"]
  <2>1. new \in Call /\ new.kind = old.kind
    BY <1>0 DEF Call
  <2>2. QED
    BY <1>1, <2>1, StoreAssumption DEF Good, Answers
<1>2. CASE old.kind \in {"fleet", "running"} /\ Answers(c, [old EXCEPT !.status = "ok", !.run = run])
  <2> DEFINE new == [old EXCEPT !.status = "ok", !.run = run]
  <2>1. new \in Call /\ new.kind = old.kind
    BY <1>0, Parts DEF Call, QuietInv
  <2>2. QED
    BY <1>2, <2>1, StoreAssumption DEF Good, Answers
<1>3. CASE old.kind = "proxy" /\ Answers(c, [old EXCEPT !.status = "ok", !.on = file.proxy])
  <2> DEFINE new == [old EXCEPT !.status = "ok", !.on = file.proxy]
  <2>1. new \in Call /\ new.kind = old.kind
    BY <1>0, Parts DEF Call, QuietInv, File
  <2>2. QED
    BY <1>3, <2>1, StoreAssumption DEF Good, Answers
<1>4. CASE old.kind = "config" /\ Answers(c, [old EXCEPT !.status = "ok", !.file = file])
  <2> DEFINE new == [old EXCEPT !.status = "ok", !.file = file]
  <2>1. new \in Call /\ new.kind = old.kind /\ new.file \in File
    BY <1>0, Parts DEF Call, QuietInv
  <2>2. QED
    BY <1>4, <2>1, StoreAssumption DEF Good, Answers
<1>5. QED
  BY <1>1, <1>2, <1>3, <1>4 DEF Tells

LEMMA SavesGood ==
    ASSUME IInv, NEW c \in Slots, calls[c] # NoCall,
           Compares(c, calls[c]) \/ Saves(c, calls[c])
    PROVE  /\ file' \in File
           /\ \E call \in Call :
                 Good(call) /\ call # NoCall /\ calls' = [calls EXCEPT ![c] = call]
<1> DEFINE old == calls[c]
<1>0. old \in Call /\ Good(old) /\ old.kind = "save" /\ old.file \in File /\ file \in File
      /\ old.on \in BOOLEAN
  BY RequestGood, CallFields, Parts DEF Good, Compares, Saves, QuietInv
<1>1. PICK status \in {"ok", "failed", "checked"} : Answers(c, [old EXCEPT !.status = status])
  <2>1. CASE Compares(c, old)
    <3>1. (IF Matches(old) THEN "checked" ELSE "failed") \in {"ok", "failed", "checked"}
      OBVIOUS
    <3>2. QED
      BY <2>1, <3>1 DEF Compares
  <2>2. CASE Saves(c, old)
    BY <2>2 DEF Saves
  <2>3. QED
    BY <2>1, <2>2
<1>2. \E call \in Call : Good(call) /\ call # NoCall /\ calls' = [calls EXCEPT ![c] = call]
  <2> DEFINE new == [old EXCEPT !.status = status]
  <2>1. new \in Call /\ new.kind = "save" /\ new.file = old.file
    BY <1>0 DEF Call, Writing
  <2>2. QED
    BY <1>0, <1>1, <2>1, StoreAssumption DEF Good, Answers
<1>3. file' \in File
  <2>1. CASE Compares(c, old)
    BY <1>0, <2>1 DEF Compares
  <2>2. CASE Saves(c, old)
    <3>1. file' = [old.file EXCEPT !.proxy = old.on]
      BY <2>2 DEF Saves
    <3>2. QED
      BY <1>0, <3>1 DEF File
  <2>3. QED
    BY <2>1, <2>2
<1>4. QED
  BY <1>2, <1>3

LEMMA ServesStep == ASSUME IInv, NEW c \in Slots, Serves(c) PROVE IInv'
<1>1. file' \in File /\ \E call \in Call :
         Good(call) /\ call # NoCall /\ calls' = [calls EXCEPT ![c] = call]
  <2>1. CASE Tells(c, calls[c])
    BY <2>1, TellsGood, Parts DEF Serves, Tells, QuietInv
  <2>2. CASE Compares(c, calls[c]) \/ Saves(c, calls[c])
    BY <2>2, SavesGood DEF Serves
  <2>3. QED
    BY <2>1, <2>2 DEF Serves
<1>2. PICK call \in Call : Good(call) /\ call # NoCall /\ calls' = [calls EXCEPT ![c] = call]
  BY <1>1
<1>3. UNCHANGED <<up, legacy, run, store, flags, work>> /\ calls[c] # NoCall
  BY DEF Serves
<1>4. CallsInv' /\ FlagsInv'
  BY <1>2, <1>3, CallChange, FlagsKept, Parts
<1>5. QuietInv'
  BY <1>1, <1>3, Parts DEF QuietInv, store, flags
<1>6. QED
  BY <1>4, <1>5, PartsNext

LEMMA FailsStep == ASSUME IInv, NEW c \in Slots, Fails(c) PROVE IInv'
<1> DEFINE new == [calls[c] EXCEPT !.status = "failed", !.run = Unknown]
<1>0. calls[c] # NoCall /\ calls[c] \in Call /\ Good(calls[c])
  BY RequestGood DEF Fails
<1>1. new \in Call /\ new.kind = calls[c].kind /\ new.file = calls[c].file /\ new.status = "failed"
  BY <1>0 DEF Call
<1>2. Good(new) /\ new # NoCall
  BY <1>0, <1>1, StoreAssumption DEF Good
<1>3. calls' = [calls EXCEPT ![c] = new] /\ UNCHANGED <<host, store, flags>>
  BY DEF Fails, Answers
<1>4. CallsInv' /\ FlagsInv'
  BY <1>0, <1>2, <1>3, CallChange, FlagsKept, Parts
<1>5. QuietInv'
  <2>1. work' \in 0 .. MaxWork
    BY WorkType, Parts DEF Fails, QuietInv
  <2>2. QED
    BY <1>3, <2>1, Parts DEF QuietInv, host, store, flags
<1>6. QED
  BY <1>4, <1>5, PartsNext

-----------------------------------------------------------------------------
(* What the page does with an answer.                                      *)

LEMMA ShowsType ==
    ASSUME QuietInv, NEW call \in Call, Shows(call)
    PROVE  /\ statuses' \in Runs \cup {Unknown, Offline}
           /\ fleetViews' \in Runs \cup {Unknown, Null}
           /\ proxies' \in BOOLEAN \cup {Unknown}
<1>0. call.kind \in Kinds /\ call.on \in BOOLEAN /\ call.run \in Runs \cup {Unknown}
  BY CallFields
<1>1. CASE call.kind = "fleet" /\ ShowsFleet(call)
  BY <1>0, <1>1 DEF ShowsFleet, QuietInv
<1>2. CASE call.kind = "running" /\ ShowsRunning(call)
  BY <1>0, <1>2 DEF ShowsRunning, QuietInv
<1>3. CASE call.kind = "proxy" /\ ShowsProxy(call)
  BY <1>0, <1>3 DEF ShowsProxy, QuietInv
<1>4. CASE UNCHANGED store
  BY <1>4 DEF store, QuietInv
<1>5. QED
  BY <1>1, <1>2, <1>3, <1>4 DEF Shows

LEMMA NextGood ==
    ASSUME NEW kind \in Kinds \ {"config"}, NEW on \in BOOLEAN, NEW f \in File \cup {NoFile},
           kind = "save" => f \in File
    PROVE  Good(Ask(kind, on, f))
<1>1. kind \in Kinds /\ kind # "config"
  OBVIOUS
<1>2. QED
  BY <1>1, AskType DEF Good

LEMMA ContinuesGood ==
    ASSUME IInv, NEW c \in Slots, Answered(c), Continues(c)
    PROVE  \E call : Good(call) /\ calls' = [calls EXCEPT ![c] = call]
<1>0. /\ calls[c] \in Call /\ Good(calls[c]) /\ calls[c] # NoCall
      /\ calls[c].on \in BOOLEAN /\ calls[c].file \in File \cup {NoFile}
  BY RequestGood, CallFields DEF Answered
<1>a. /\ Then(c, calls[c]) \in {"none", "running", "proxy", "save"}
      /\ Then(c, calls[c]) = "save" => calls[c].kind = "config" /\ calls[c].status = "ok"
  BY DEF Then, AsksLegacy, AsksProxy, ChangeGoesOn
<1>1. PICK kind \in {"none", "running", "proxy", "save"} :
        /\ kind = "save" => calls[c].kind = "config" /\ calls[c].status = "ok"
        /\ calls' = [calls EXCEPT ![c] =
              IF kind = "none" THEN NoCall
              ELSE Ask(kind, calls[c].on /\ c \in Changes,
                       IF kind = "save" THEN calls[c].file ELSE NoFile)]
  BY <1>a DEF Continues
<1>2. CASE kind = "none"
  <2>1. Good(NoCall) /\ calls' = [calls EXCEPT ![c] = NoCall]
    BY <1>1, <1>2 DEF Good
  <2>2. QED
    BY <2>1
<1>3. CASE kind # "none"
  <2>1. PICK f \in File \cup {NoFile} :
          /\ kind = "save" => f \in File
          /\ f = IF kind = "save" THEN calls[c].file ELSE NoFile
    BY <1>0, <1>1 DEF Good
  <2>2. PICK on \in BOOLEAN : on = (calls[c].on /\ c \in Changes)
    OBVIOUS
  <2>3. kind \in Kinds \ {"config"}
    BY <1>1, <1>3 DEF Kinds
  <2>4. Good(Ask(kind, on, f))
    BY <2>1, <2>3, NextGood
  <2>5. calls' = [calls EXCEPT ![c] = Ask(kind, on, f)]
    BY <1>1, <1>3, <2>1, <2>2
  <2>6. QED
    BY <2>4, <2>5
<1>4. QED
  BY <1>2, <1>3

LEMMA AnswerStep == ASSUME IInv, NEW c \in Slots, Answer(c) PROVE IInv'
<1>0. calls[c] # NoCall /\ calls[c] \in Call /\ QuietInv /\ FlagsInv /\ CallsInv
  BY RequestGood, Parts DEF Answer, Answered
<1>1. PICK call : Good(call) /\ calls' = [calls EXCEPT ![c] = call]
  BY ContinuesGood DEF Answer
<1>2. CallsInv' /\ \A d \in Slots \ {c} : calls'[d] = calls[d]
  BY <1>0, <1>1, CallChange
<1>3. FlagsInv'
  <2>1. refreshInFlight' <=> \E d \in All : calls'[d] # NoCall
    BY <1>0, <1>2, SlotsAre DEF Answer, Ends, FlagsInv, QuietInv
  <2>2. pollingStatus' # NoCall => calls'[pollingStatus'] # NoCall
    BY <1>0, <1>2, SlotsAre DEF Answer, Ends, FlagsInv, QuietInv
  <2>3. busy' # NoCall => calls'[busy'] # NoCall
    BY <1>0, <1>2, SlotsAre DEF Answer, Ends, FlagsInv, QuietInv
  <2>4. QED
    BY <2>1, <2>2, <2>3 DEF FlagsInv
<1>4. QuietInv'
  <2>1. /\ refreshInFlight' \in BOOLEAN
        /\ pollingStatus' \in Views \cup {NoCall} /\ busy' \in Changes \cup {NoCall}
    BY <1>0 DEF Answer, Ends, QuietInv
  <2>2. QED
    BY <1>0, <2>1, ShowsType DEF Answer, QuietInv, host
<1>5. QED
  BY <1>2, <1>3, <1>4, PartsNext

-----------------------------------------------------------------------------
(* The user and the timers.                                                *)

\* Both questions of refreshAll go out.
LEMMA AllAsked ==
    ASSUME CallsInv, calls' = [c \in Slots |-> IF c \in All THEN Get(c) ELSE calls[c]]
    PROVE  /\ CallsInv'
           /\ \A d \in All : calls'[d] # NoCall
           /\ \A d \in Slots \ All : calls'[d] = calls[d]
<1>1. \A d \in All : Good(Get(d)) /\ Get(d) \in Call /\ Get(d) # NoCall
  BY GetGood DEF All
<1>2. QED
  BY <1>1, SlotsAre DEF CallsInv

LEMMA RefreshAllStep == ASSUME IInv, RefreshAll PROVE IInv'
<1>1. QuietInv' /\ CallsInv' /\ (\A d \in All : calls'[d] # NoCall)
      /\ (\A d \in Slots \ All : calls'[d] = calls[d])
  BY Parts, AllAsked DEF RefreshAll, QuietInv, host, store
<1>2. FlagsInv'
  BY <1>1, Parts, SlotsAre DEF RefreshAll, FlagsInv, QuietInv, All
<1>3. QED
  BY <1>1, <1>2, PartsNext

LEMMA ToFleetStep == ASSUME IInv, ToFleet PROVE IInv'
<1>1. CallsInv' /\ (\E d \in All : calls'[d] # NoCall)
      /\ (\A d \in Slots : calls[d] # NoCall => calls'[d] # NoCall)
  <2>1. CASE refreshInFlight
    BY <2>1, Parts DEF ToFleet, FlagsInv, CallsInv
  <2>2. CASE ~refreshInFlight
    <3>1. CallsInv' /\ (\A d \in All : calls'[d] # NoCall)
          /\ (\A d \in Slots \ All : calls'[d] = calls[d])
      BY <2>2, Parts, AllAsked DEF ToFleet
    <3>2. "fleet" \in All
      BY DEF All
    <3>3. QED
      BY <3>1, <3>2
  <2>3. QED
    BY <2>1, <2>2
<1>2. QuietInv'
  BY Parts, WorkType DEF ToFleet, QuietInv, host, store
<1>3. FlagsInv'
  BY <1>1, Parts, SlotsAre DEF ToFleet, FlagsInv, QuietInv
<1>4. QED
  BY <1>1, <1>2, <1>3, PartsNext

\* A question goes out from an empty slot of its own.
LEMMA SendsIs ==
    ASSUME IInv, NEW c \in Views \cup Actions \cup Changes, NEW call \in Call, Good(call),
           Sends(c, call)
    PROVE  /\ CallsInv' /\ calls'[c] # NoCall
           /\ \A d \in All : calls'[d] = calls[d]
           /\ \A d \in Slots : calls[d] # NoCall => calls'[d] # NoCall
<1>1. c \in Slots /\ c \notin All /\ call # NoCall
  BY SlotsAre, StoreAssumption
<1>2. CallsInv' /\ calls'[c] = call /\ \A d \in Slots \ {c} : calls'[d] = calls[d]
  BY <1>1, Parts, CallChange DEF Sends
<1>3. QED
  BY <1>1, <1>2, SlotsAre DEF Sends

LEMMA PollStatusStep == ASSUME IInv, PollStatus PROVE IInv'
<1>1. PICK c \in Views : Sends(c, Get("running")) /\ pollingStatus' = c
  BY DEF PollStatus
<1>2. CallsInv' /\ calls'[c] # NoCall /\ (\A d \in All : calls'[d] = calls[d])
      /\ (\A d \in Slots : calls[d] # NoCall => calls'[d] # NoCall)
  BY <1>1, GetGood, SendsIs
<1>3. FlagsInv'
  BY <1>1, <1>2, Parts, SlotsAre DEF PollStatus, FlagsInv, QuietInv
<1>4. QuietInv'
  BY <1>1, Parts DEF PollStatus, QuietInv, host, store
<1>5. QED
  BY <1>2, <1>3, <1>4, PartsNext

LEMMA ToMachineStep == ASSUME IInv, ToMachine PROVE IInv'
<1>1. PICK c \in Views : Sends(c, Get("running"))
  BY DEF ToMachine
<1>2. CallsInv' /\ (\A d \in All : calls'[d] = calls[d])
  BY <1>1, GetGood, SendsIs
<1>3. FlagsInv'
  BY <1>2, Parts DEF ToMachine, FlagsInv
<1>4. QuietInv'
  BY Parts, WorkType DEF ToMachine, QuietInv, host, store
<1>5. QED
  BY <1>2, <1>3, <1>4, PartsNext

LEMMA FirstLookStep == ASSUME IInv, NEW c \in Views, FirstLook(c) PROVE IInv'
<1>1. CallsInv' /\ (\A d \in All : calls'[d] = calls[d])
      /\ (\A d \in Slots : calls[d] # NoCall => calls'[d] # NoCall)
  BY GetGood, SendsIs DEF FirstLook
<1>2. FlagsInv'
  BY <1>1, Parts, SlotsAre DEF FirstLook, FlagsInv, QuietInv, flags
<1>3. QuietInv'
  BY Parts, WorkType DEF FirstLook, QuietInv, host, store, flags
<1>4. QED
  BY <1>1, <1>2, <1>3, PartsNext

LEMMA ActStep == ASSUME IInv, NEW c \in Actions, Act(c) PROVE IInv'
<1>1. PICK kind \in {"fleet", "running"} : Sends(c, Get(kind))
  BY DEF Act
<1>2. CallsInv' /\ (\A d \in All : calls'[d] = calls[d])
      /\ (\A d \in Slots : calls[d] # NoCall => calls'[d] # NoCall)
  BY <1>1, GetGood, SendsIs
<1>3. FlagsInv'
  BY <1>2, Parts, SlotsAre DEF Act, FlagsInv, QuietInv, flags
<1>4. QuietInv'
  BY Parts, WorkType DEF Act, QuietInv, store, flags
<1>5. QED
  BY <1>2, <1>3, <1>4, PartsNext

LEMMA ChangeProxyStep == ASSUME IInv, NEW c \in Changes, ChangeProxy(c) PROVE IInv'
<1> DEFINE call == Ask("config", ~proxies, NoFile)
<1>0. call \in Call /\ Good(call)
  BY Parts, AskType DEF ChangeProxy, QuietInv, Kinds, Good
<1>1. Sends(c, call)
  BY DEF ChangeProxy
<1> HIDE DEF call
<1>2. CallsInv' /\ calls'[c] # NoCall /\ (\A d \in All : calls'[d] = calls[d])
      /\ (\A d \in Slots : calls[d] # NoCall => calls'[d] # NoCall)
  BY <1>0, <1>1, SendsIs
<1>3. FlagsInv'
  BY <1>2, Parts, SlotsAre DEF ChangeProxy, FlagsInv, QuietInv
<1>4. QuietInv'
  BY Parts, WorkType DEF ChangeProxy, QuietInv, host, store
<1>5. QED
  BY <1>2, <1>3, <1>4, PartsNext

-----------------------------------------------------------------------------
LEMMA IInvInit == Init => IInv
<1> SUFFICES ASSUME Init PROVE IInv
  OBVIOUS
<1>1. \A d \in All : Good(Get(d)) /\ Get(d) \in Call /\ Get(d) # NoCall
  BY GetGood DEF All
<1>2. Good(NoCall)
  BY DEF Good
<1>3. CallsInv /\ FlagsInv
  BY <1>1, <1>2, SlotsAre DEF Init, CallsInv, FlagsInv, All
<1>4. QuietInv
  BY StoreAssumption DEF Init, QuietInv
<1>5. QED
  BY <1>3, <1>4, Parts

LEMMA IInvStep == IInv /\ [Next]_vars => IInv'
<1> SUFFICES ASSUME IInv, [Next]_vars PROVE IInv'
  OBVIOUS
<1>1. CASE UNCHANGED vars
  BY <1>1, Parts, PartsNext
     DEF QuietInv, FlagsInv, CallsInv, Good, vars, host, store, flags
<1>2. CASE Next
  BY <1>2, OthersStep, RefreshAllStep, PollStatusStep, ToMachineStep, ToFleetStep,
     FirstLookStep, ActStep, ChangeProxyStep, ServesStep, FailsStep, AnswerStep DEF Next
<1>3. QED
  BY <1>1, <1>2

LEMMA IInvAlways == Spec => []IInv
BY IInvInit, IInvStep, PTL DEF Spec

\* The store's state keeps its types, and the flags that keep a page from asking twice
\* are up only while there is a request to take them down (store.ts:191-254).
THEOREM StoreTypeCorrect == Spec => []StoreTypeOK
BY IInvAlways, PTL DEF IInv

\* The save that holds saveMu has found the version it was made from, and unless it has
\* been overtaken that version is still there; no other save is beside it.
CheckedInv ==
    \A c \in Slots :
        calls[c] # NoCall /\ calls[c].status \in Writing =>
            /\ calls[c].status = "checked" => calls[c].file = file
            /\ \A d \in Slots \ {c} : calls[d] # NoCall => calls[d].status \notin Writing

\* Steps that change no file and let no save compare keep it so.
LEMMA CheckedKept ==
    ASSUME CheckedInv, UNCHANGED file,
           \A c \in Slots : \/ calls'[c] = calls[c] \/ calls'[c] = NoCall
                            \/ calls'[c].status \notin Writing
    PROVE  CheckedInv'
BY DEF CheckedInv

\* A request whose answer or question is new.
LEMMA CheckedOne ==
    ASSUME CallsInv, CheckedInv, UNCHANGED file, NEW c \in Slots, NEW call,
           calls' = [calls EXCEPT ![c] = call],
           call = NoCall \/ call.status \notin Writing
    PROVE  CheckedInv'
<1>1. calls'[c] = call /\ \A d \in Slots \ {c} : calls'[d] = calls[d]
  BY DEF CallsInv
<1>2. QED
  BY <1>1, CheckedKept

LEMMA CheckedServes ==
    ASSUME IInv, CheckedInv, NEW c \in Slots, Serves(c)
    PROVE  CheckedInv'
<1> DEFINE old == calls[c]
<1>0. CallsInv /\ old \in Call /\ old # NoCall
  BY Parts, RequestGood DEF Serves
<1>1. CASE Tells(c, old)
  <2> DEFINE Told == {[old EXCEPT !.status = "missing"],
                      [old EXCEPT !.status = "ok", !.run = run],
                      [old EXCEPT !.status = "ok", !.on = file.proxy],
                      [old EXCEPT !.status = "ok", !.file = file]}
  <2>a. PICK new \in Told : calls' = [calls EXCEPT ![c] = new]
    BY <1>1 DEF Tells, Answers
  <2>b. new.status \in {"ok", "missing"}
    BY <1>0 DEF Call
  <2>1. calls'[c].status \in {"ok", "missing"} /\ \A d \in Slots \ {c} : calls'[d] = calls[d]
    BY <1>0, <2>a, <2>b DEF CallsInv
  <2>2. UNCHANGED file
    BY <1>1 DEF Tells
  <2>3. QED
    BY <2>1, <2>2, CheckedKept DEF Writing
<1>2. CASE Compares(c, old)
  <2> DEFINE status == IF Matches(old) THEN "checked" ELSE "failed"
  <2>1. /\ calls'[c].status = status /\ calls'[c].file = old.file
        /\ \A d \in Slots \ {c} : calls'[d] = calls[d]
        /\ UNCHANGED file
    BY <1>0, <1>2 DEF Compares, Answers, CallsInv, Call
  <2>2. \A d \in Slots : calls[d] # NoCall => calls[d].status \notin Writing
    BY <1>2 DEF Compares, Open, Writing
  <2>3. QED
    BY <2>1, <2>2 DEF CheckedInv, Matches, Writing
<1>3. CASE Saves(c, old)
  <2>1. /\ calls'[c].status = "ok" /\ \A d \in Slots \ {c} : calls'[d] = calls[d]
        /\ old.status \in Writing
    BY <1>0, <1>3 DEF Saves, Answers, CallsInv, Call
  <2>2. \A d \in Slots : calls'[d] # NoCall => calls'[d].status \notin Writing
    BY <1>0, <2>1 DEF CheckedInv, Writing
  <2>3. QED
    BY <2>2 DEF CheckedInv
<1>4. QED
  BY <1>1, <1>2, <1>3 DEF Serves

LEMMA CheckedStep == ASSUME IInv, CheckedInv, [Next]_vars PROVE CheckedInv'
<1>0. CallsInv
  BY Parts
<1>a. \A kind, on, f : Ask(kind, on, f).status \notin Writing
  BY DEF Ask, Writing
<1>g. \A kind : Get(kind).status \notin Writing
  BY <1>a DEF Get
<1>s. ASSUME NEW c \in Slots, NEW call, Sends(c, call), UNCHANGED file, call.status \notin Writing
      PROVE  CheckedInv'
  BY <1>0, <1>s, CheckedOne DEF Sends
<1>u. ASSUME UNCHANGED <<calls, file>> PROVE CheckedInv'
  BY <1>u, CheckedKept
<1>r. ASSUME UNCHANGED file, calls' = [c \in Slots |-> IF c \in All THEN Get(c) ELSE calls[c]]
      PROVE  CheckedInv'
  <2>1. \A c \in Slots : calls'[c] = calls[c] \/ calls'[c].status \notin Writing
    BY <1>g, <1>r
  <2>2. QED
    BY <1>r, <2>1, CheckedKept
<1>1. CASE Others
  <2>1. CASE Overtake
    <3>1. \A c \in Slots : calls'[c] # NoCall /\ calls'[c].status \in Writing =>
             /\ calls[c] # NoCall /\ calls[c].status \in Writing
             /\ calls'[c].status # "checked"
      <4> SUFFICES ASSUME NEW c \in Slots, calls'[c] # NoCall, calls'[c].status \in Writing
                   PROVE  /\ calls[c] # NoCall /\ calls[c].status \in Writing
                          /\ calls'[c].status # "checked"
        OBVIOUS
      <4>1. CASE calls[c] # NoCall /\ calls[c].status = "checked"
        <5>1. calls[c] \in Call
          BY <1>0, <4>1 DEF CallsInv
        <5>2. calls'[c].status = "overtaken"
          BY <2>1, <4>1, <5>1 DEF Overtake, Call
        <5>3. QED
          BY <4>1, <5>2 DEF Writing
      <4>2. CASE ~(calls[c] # NoCall /\ calls[c].status = "checked")
        <5>1. calls'[c] = calls[c]
          BY <2>1, <4>2 DEF Overtake
        <5>2. QED
          BY <4>2, <5>1
      <4>3. QED
        BY <4>1, <4>2
    <3>2. QED
      BY <3>1 DEF CheckedInv
  <2>2. QED
    BY <1>1, <1>u, <2>1 DEF Others
<1>2. CASE RefreshAll \/ ToFleet
  BY <1>2, <1>r, <1>u DEF RefreshAll, ToFleet, host
<1>3. CASE PollStatus \/ ToMachine \/ (\E c \in Views : FirstLook(c)) \/ \E c \in Actions : Act(c)
  <2>1. PICK c \in Slots, kind \in {"fleet", "running", "proxy"} : Sends(c, Get(kind))
    BY <1>3, SlotsAre DEF PollStatus, ToMachine, FirstLook, Act
  <2>2. UNCHANGED file
    BY <1>3 DEF PollStatus, ToMachine, FirstLook, Act, host
  <2>3. QED
    BY <1>g, <1>s, <2>1, <2>2
<1>4. ASSUME NEW c \in Changes, ChangeProxy(c) PROVE CheckedInv'
  BY <1>4, <1>a, <1>s, SlotsAre DEF ChangeProxy, host
<1>5. ASSUME NEW c \in Slots, Serves(c) PROVE CheckedInv'
  BY <1>5, CheckedServes
<1>6. ASSUME NEW c \in Slots, Fails(c) PROVE CheckedInv'
  <2> DEFINE new == [calls[c] EXCEPT !.status = "failed", !.run = Unknown]
  <2>1. calls[c] \in Call
    BY <1>6, RequestGood DEF Fails
  <2>2. new.status \notin Writing
    BY <2>1 DEF Call, Writing
  <2>3. calls' = [calls EXCEPT ![c] = new] /\ UNCHANGED file
    BY <1>6 DEF Fails, Answers, host
  <2> HIDE DEF new
  <2>4. QED
    BY <1>0, <2>2, <2>3, CheckedOne
<1>7. ASSUME NEW c \in Slots, Answer(c) PROVE CheckedInv'
  <2>1. PICK kind, on, f : \/ calls' = [calls EXCEPT ![c] = NoCall]
                          \/ calls' = [calls EXCEPT ![c] = Ask(kind, on, f)]
    BY <1>7 DEF Answer, Continues
  <2>2. UNCHANGED file
    BY <1>7 DEF Answer, host
  <2>3. QED
    BY <1>0, <1>a, <2>1, <2>2, CheckedOne
<1>8. CASE UNCHANGED vars
  BY <1>8, <1>u DEF vars, host
<1>9. QED
  BY <1>1, <1>2, <1>3, <1>4, <1>5, <1>6, <1>7, <1>8 DEF Next

\* The switch writes the version its change has read, with the proxy changed, and only
\* if that version was there when its save compared: whatever others have written to the
\* file by then stays, and only a write that takes no lock and comes between this check
\* and the rename is lost (proxy.ts:10-28, handlers.go:531-556).
THEOREM ToggleKeepsOthersCorrect == Spec => ToggleKeepsOthers
<1>1. ASSUME IInv, CheckedInv, NEW c \in Changes, Serves(c)
      PROVE  file'.rest = file.rest \/ calls[c].status = "overtaken"
  <2>1. c \in Slots /\ calls[c] # NoCall /\ calls[c] \in Call /\ file \in File
    BY <1>1, SlotsAre, RequestGood, Parts DEF Serves, QuietInv
  <2>2. CASE Tells(c, calls[c]) \/ Compares(c, calls[c])
    BY <2>2 DEF Tells, Compares
  <2>3. CASE Saves(c, calls[c]) /\ calls[c].status = "checked"
    <3>1. file' = [file EXCEPT !.proxy = calls[c].on]
      BY <1>1, <2>1, <2>3 DEF Saves, CheckedInv
    <3>2. QED
      BY <2>1, <3>1 DEF File
  <2>4. QED
    BY <1>1, <2>2, <2>3 DEF Serves, Saves, Writing
<1>2. IInv /\ CheckedInv /\ [Next]_vars
      => [\A c \in Changes :
             Serves(c) => file'.rest = file.rest \/ calls[c].status = "overtaken"]_vars
  BY <1>1
<1>3. Init => CheckedInv
  BY DEF Init, CheckedInv, Get, Ask, Writing
<1>4. IInv /\ CheckedInv /\ [Next]_vars => CheckedInv'
  BY CheckedStep
<1>5. QED
  BY <1>2, <1>3, <1>4, IInvAlways, PTL DEF Spec, ToggleKeepsOthers

-----------------------------------------------------------------------------
(* Old answers.                                                            *)

\* What the store should say of the machine.
StatusNow == IF up THEN run ELSE Offline
FleetNow == IF up /\ ~legacy THEN run ELSE Null
ProxyNow == IF up /\ ~legacy THEN file.proxy ELSE Unknown

\* To show the answer does the store no harm.
Right(call) ==
    CASE call.kind = "running" ->
            (IF call.status = "ok" THEN call.run ELSE Offline) = StatusNow
      [] call.kind = "fleet" ->
            /\ (IF call.status = "ok" THEN call.run ELSE Null) = FleetNow
            /\ \/ call.status = "missing"
               \/ (IF call.status = "ok" THEN call.run ELSE Offline) = StatusNow
      [] call.kind = "proxy" ->
            (IF call.status = "ok" THEN call.on ELSE Unknown) = ProxyNow
      [] OTHER -> TRUE

\* The answers on their way that are not true any more, or never were.
Old == {c \in Slots : Answered(c) /\ ~Right(calls[c])}

\* The machine stays as it is, and no answer of a machine that is up gets lost.
Rest == UNCHANGED host /\ (up => \A c \in Slots : ~Fails(c))

LEMMA OldKept ==
    ASSUME UNCHANGED host, NEW c \in Slots, calls'[c] = calls[c], c \in Old'
    PROVE  c \in Old
BY DEF Old, Answered, Open, Right, StatusNow, FleetNow, ProxyNow, host

\* A question that has just been asked has no answer.
LEMMA AskedNotOld ==
    ASSUME NEW c \in Slots, NEW kind, NEW on, NEW f,
           calls'[c] = NoCall \/ calls'[c] = Ask(kind, on, f)
    PROVE  c \notin Old'
BY DEF Old, Answered, Open, Ask

LEMMA SentOld ==
    ASSUME IInv, UNCHANGED host, NEW c \in Slots, NEW kind, NEW on, NEW f,
           Sends(c, Ask(kind, on, f))
    PROVE  Old' \subseteq Old
<1> SUFFICES ASSUME NEW d \in Slots, d \in Old' PROVE d \in Old
  BY DEF Old
<1>1. CASE d = c
  <2>1. calls'[c] = Ask(kind, on, f)
    BY DEF Sends, IInv, StoreTypeOK
  <2>2. QED
    BY <1>1, <2>1, AskedNotOld
<1>2. CASE d # c
  <2>1. calls'[d] = calls[d]
    BY <1>2 DEF Sends, IInv, StoreTypeOK
  <2>2. QED
    BY <2>1, OldKept
<1>3. QED
  BY <1>1, <1>2

LEMMA RefreshedOld ==
    ASSUME UNCHANGED host,
           calls' = [c \in Slots |-> IF c \in All THEN Get(c) ELSE calls[c]]
    PROVE  Old' \subseteq Old
<1> SUFFICES ASSUME NEW d \in Slots, d \in Old' PROVE d \in Old
  BY DEF Old
<1>1. CASE d \in All
  <2>1. calls'[d] = Ask(d, FALSE, NoFile)
    BY <1>1 DEF Get
  <2>2. QED
    BY <2>1, AskedNotOld
<1>2. CASE d \notin All
  <2>1. calls'[d] = calls[d]
    BY <1>2
  <2>2. QED
    BY <2>1, OldKept
<1>3. QED
  BY <1>1, <1>2

\* What a machine tells, it is.
LEMMA ServedOld ==
    ASSUME IInv, UNCHANGED host, NEW c \in Slots, Serves(c)
    PROVE  Old' \subseteq Old
<1> DEFINE call == calls[c]
<1>0. call \in Call /\ call # NoCall /\ up
  BY CallFields DEF Serves, IInv, StoreTypeOK
<1>1. \A d \in Slots \ {c} : calls'[d] = calls[d]
  BY DEF Serves, Tells, Compares, Saves, Answers, IInv, StoreTypeOK
<1>2. c \notin Old'
  <2>1. CASE call.kind \in {"fleet", "proxy"} /\ legacy /\ Answers(c, [call EXCEPT !.status = "missing"])
    <3>1. calls'[c].kind = call.kind /\ calls'[c].status = "missing"
      BY <1>0, <2>1 DEF Answers, IInv, StoreTypeOK, Call
    <3>2. QED
      BY <2>1, <3>1 DEF Old, Right, FleetNow, ProxyNow, host
  <2>2. CASE /\ call.kind = "running" \/ (call.kind = "fleet" /\ ~legacy)
             /\ Answers(c, [call EXCEPT !.status = "ok", !.run = run])
    <3>1. calls'[c].kind = call.kind /\ calls'[c].status = "ok" /\ calls'[c].run = run
      BY <1>0, <2>2 DEF Answers, IInv, StoreTypeOK, Call
    <3>2. QED
      BY <1>0, <2>2, <3>1 DEF Old, Right, StatusNow, FleetNow, host
  <2>3. CASE /\ call.kind = "proxy" /\ ~legacy
             /\ Answers(c, [call EXCEPT !.status = "ok", !.on = file.proxy])
    <3>1. calls'[c].kind = "proxy" /\ calls'[c].status = "ok" /\ calls'[c].on = file.proxy
      BY <1>0, <2>3 DEF Answers, IInv, StoreTypeOK, Call
    <3>2. QED
      BY <1>0, <2>3, <3>1 DEF Old, Right, ProxyNow, host
  <2>4. CASE call.kind = "config" /\ Answers(c, [call EXCEPT !.status = "ok", !.file = file])
    <3>1. calls'[c].kind = "config"
      BY <1>0, <2>4 DEF Answers, IInv, StoreTypeOK, Call
    <3>2. QED
      BY <3>1 DEF Old, Right
  <2>5. CASE Compares(c, call) \/ Saves(c, call)
    <3>1. calls'[c].kind = "save"
      BY <1>0, <2>5 DEF Compares, Saves, Answers, IInv, StoreTypeOK, Call
    <3>2. QED
      BY <3>1 DEF Old, Right
  <2>6. QED
    BY <2>1, <2>2, <2>3, <2>4, <2>5 DEF Serves, Tells
<1>3. QED
  <2>1. ASSUME NEW d \in Slots, d \in Old' PROVE d \in Old
    BY <1>1, <1>2, <2>1, OldKept
  <2>2. QED
    BY <2>1 DEF Old

\* A machine that is down is offline, which is what a failure shows.
LEMMA FailedOld ==
    ASSUME IInv, UNCHANGED host, NEW c \in Slots, Fails(c), ~up
    PROVE  Old' \subseteq Old
<1>1. \A d \in Slots \ {c} : calls'[d] = calls[d]
  BY DEF Fails, Answers, IInv, StoreTypeOK
<1>2. calls'[c].status = "failed"
  BY CallFields DEF Fails, Answers, IInv, StoreTypeOK, Call
<1>3. c \notin Old'
  BY <1>2 DEF Old, Right, StatusNow, FleetNow, ProxyNow, host
<1>4. ASSUME NEW d \in Slots, d \in Old' PROVE d \in Old
  BY <1>1, <1>3, <1>4, OldKept
<1>5. QED
  BY <1>4 DEF Old

LEMMA AnsweredOld ==
    ASSUME IInv, NEW c \in Slots, Answer(c)
    PROVE  Old' \subseteq Old \ {c}
<1>1. \A d \in Slots \ {c} : calls'[d] = calls[d]
  BY DEF Answer, Continues, IInv, StoreTypeOK
<1>2. PICK kind, on, f : calls'[c] = NoCall \/ calls'[c] = Ask(kind, on, f)
  BY DEF Answer, Continues, IInv, StoreTypeOK
<1>3. c \notin Old'
  BY <1>2, AskedNotOld
<1>4. ASSUME NEW d \in Slots, d \in Old' PROVE d \in Old \ {c}
  BY <1>1, <1>3, <1>4, OldKept DEF Answer
<1>5. QED
  BY <1>4 DEF Old

LEMMA OldStep == IInv /\ [Next]_vars /\ Rest => Old' \subseteq Old
<1> SUFFICES ASSUME IInv, [Next]_vars, Rest PROVE Old' \subseteq Old
  OBVIOUS
<1>h. UNCHANGED host
  BY DEF Rest
<1>1. CASE Others \/ UNCHANGED vars
  <2>1. \A d \in Slots : calls'[d] = calls[d]
    BY <1>1, <1>h, Parts DEF Others, vars, host, QuietInv
  <2>2. ASSUME NEW d \in Slots, d \in Old' PROVE d \in Old
    BY <1>h, <2>1, <2>2, OldKept
  <2>3. QED
    BY <2>2 DEF Old
<1>2. CASE RefreshAll \/ ToFleet
  <2>1. CASE calls' = [c \in Slots |-> IF c \in All THEN Get(c) ELSE calls[c]]
    BY <1>h, <2>1, RefreshedOld
  <2>2. CASE calls' = calls
    <3>1. ASSUME NEW d \in Slots, d \in Old' PROVE d \in Old
      BY <1>h, <2>2, <3>1, OldKept
    <3>2. QED
      BY <3>1 DEF Old
  <2>3. QED
    BY <1>2, <2>1, <2>2 DEF RefreshAll, ToFleet
<1>3. CASE PollStatus \/ ToMachine \/ (\E c \in Views : FirstLook(c)) \/ \E c \in Actions : Act(c)
  <2>1. PICK c \in Slots, kind \in {"fleet", "running", "proxy"} : Sends(c, Get(kind))
    BY <1>3, SlotsAre DEF PollStatus, ToMachine, FirstLook, Act
  <2>2. QED
    BY <1>h, <2>1, SentOld DEF Get
<1>4. ASSUME NEW c \in Changes, ChangeProxy(c) PROVE Old' \subseteq Old
  BY <1>h, <1>4, SlotsAre, SentOld DEF ChangeProxy
<1>5. ASSUME NEW c \in Slots, Serves(c) \/ Fails(c) \/ Answer(c) PROVE Old' \subseteq Old
  BY <1>h, <1>5, ServedOld, FailedOld, AnsweredOld DEF Rest
<1>6. QED
  BY <1>1, <1>2, <1>3, <1>4, <1>5 DEF Next

\* A true answer makes the store say what is so.
LEMMA RightShows ==
    ASSUME IInv, NEW c \in Slots, Answer(c), c \notin Old
    PROVE  /\ statuses' \in {statuses, StatusNow} /\ fleetViews' \in {fleetViews, FleetNow}
           /\ proxies' \in {proxies, ProxyNow}
<1> DEFINE call == calls[c]
<1>0. Answered(c) /\ Shows(call) /\ Right(call)
  BY DEF Answer, Old
<1>1. CASE call.kind = "running"
  BY <1>0, <1>1 DEF Shows, ShowsRunning, Right
<1>2. CASE call.kind = "fleet"
  BY <1>0, <1>2 DEF Shows, ShowsFleet, Right
<1>3. CASE call.kind = "proxy"
  BY <1>0, <1>3 DEF Shows, ShowsProxy, Right
<1>4. CASE call.kind \notin {"fleet", "running", "proxy"}
  BY <1>0, <1>4 DEF Shows, store
<1>5. QED
  BY <1>1, <1>2, <1>3, <1>4

LEMMA OnlyAnswersShow ==
    ASSUME [Next]_vars, \A c \in Slots : ~Answer(c)
    PROVE  UNCHANGED store
BY DEF Next, Others, RefreshAll, PollStatus, ToMachine, ToFleet, FirstLook, Act, ChangeProxy,
       Serves, Fails, vars

\* The safety part of StatusSettles and SwitchSettles.  While the machine rests, answers
\* that are not true any more only get fewer, one with each that is shown, whoever goes on
\* asking; and nothing but such an answer makes the store change to anything else than
\* what the machine runs, its fleet view and its proxy (store.ts:155-254, proxy.ts:10-28).
THEOREM OldAnswersRunOut ==
    Spec => [][/\ Rest => Old' \subseteq Old
               /\ \A c \in Slots : Answer(c) => Old' \subseteq Old \ {c}
               /\ (\A c \in Old : ~Answer(c)) =>
                    /\ statuses' \in {statuses, StatusNow}
                    /\ fleetViews' \in {fleetViews, FleetNow}
                    /\ proxies' \in {proxies, ProxyNow}]_vars
<1>1. ASSUME IInv, [Next]_vars, \A c \in Old : ~Answer(c)
      PROVE  /\ statuses' \in {statuses, StatusNow}
             /\ fleetViews' \in {fleetViews, FleetNow}
             /\ proxies' \in {proxies, ProxyNow}
  BY <1>1, RightShows, OnlyAnswersShow DEF store
<1>2. IInv /\ [Next]_vars
      => [/\ Rest => Old' \subseteq Old
          /\ \A c \in Slots : Answer(c) => Old' \subseteq Old \ {c}
          /\ (\A c \in Old : ~Answer(c)) =>
                /\ statuses' \in {statuses, StatusNow}
                /\ fleetViews' \in {fleetViews, FleetNow}
                /\ proxies' \in {proxies, ProxyNow}]_vars
  BY <1>1, OldStep, AnsweredOld
<1>3. QED
  BY <1>2, IInvAlways, PTL DEF Spec
=============================================================================
