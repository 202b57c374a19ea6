------------------------- MODULE ConfigStoreProofs -------------------------
(***************************************************************************)
(* Proofs about ConfigStore for any texts, any number of saves and writes. *)
(* The inductive invariant says who is inside the two critical sections,   *)
(* what a reload has read when it installs it, how far the parts of the    *)
(* configuration have come at each of its steps, and what a save knows of  *)
(* the file between its check and its rename.                              *)
(***************************************************************************)
EXTENDS ConfigStore, TLAPS

\* saveMu and reloadMu are held by who is between lock and unlock, and by nobody else.
LockInv ==
    /\ \A s \in Saver : saveMu = s <=> savePc[s] \notin {"idle", "lock"}
    /\ \A r \in Reloader : reloadMu = r <=> reloadPc[r] \notin {"idle", "lock"}

\* A save reloads after its rename and before its reply.
StageInv == \A s \in Saver : reloadPc[s] # "idle" => savePc[s] = "reload"

\* What has passed SaveConfig's checks is what it writes.
BodyInv == \A s \in Saver : savePc[s] # "idle" => body[s] \in Acceptable

\* The file the save has checked is still there, or another program has overtaken it.
CheckedInv ==
    \A s \in Saver :
        savePc[s] = "rename" /\ ifMatch[s] # AnyText =>
            file.text \in {ifMatch[s], Absent} \/ overtaken[s]

\* No part is newer than the file, and what is about to be installed loads.
AgeInv ==
    /\ models.version <= file.version
    /\ workers.version <= models.version
    /\ proxy.version <= workers.version
    /\ \A r \in Reloader :
          /\ read[r].version <= file.version
          /\ reloadPc[r] \in {"models", "workers", "proxy"} =>
                /\ models.version <= read[r].version
                /\ read[r].text \in Loadable

\* The reload that holds the mutex has installed its file this far; the parts it has
\* not come to agree.
InstalledInv ==
    /\ \A r \in Reloader :
          /\ reloadPc[r] \in {"workers", "proxy"} => models = read[r]
          /\ reloadPc[r] = "proxy" => workers = read[r]
          /\ reloadPc[r] = "workers" => workers = proxy
          /\ reloadPc[r] \in {"read", "models"} => models = workers /\ workers = proxy
    /\ proxy.text \in Loadable

IInv ==
    /\ TypeOK /\ LockInv /\ StageInv /\ BodyInv /\ CheckedInv /\ AgeInv /\ InstalledInv
    /\ PartsAgree

-----------------------------------------------------------------------------
LEMMA InitIInv == Init => IInv
<1> SUFFICES ASSUME Init PROVE IInv
  OBVIOUS
<1> PICK t \in Loadable : file = [version |-> 0, text |-> t]
  BY DEF Init
<1>1. file \in File /\ file.version = 0 /\ file.text = t /\ t \in Loadable
  BY ConfigAssumption DEF File
<1>0. overtaken \in [Saver -> BOOLEAN] /\ event \in BOOLEAN /\ timer \in BOOLEAN
  BY DEF Init
<1>2. TypeOK
  BY <1>0, <1>1, ConfigAssumption DEF Init, TypeOK, SavePc, ReloadPc
<1>3. LockInv /\ StageInv /\ BodyInv /\ CheckedInv
  BY ConfigAssumption DEF Init, LockInv, StageInv, BodyInv, CheckedInv, Reloader
<1>4. AgeInv /\ InstalledInv /\ PartsAgree
  BY <1>1 DEF Init, AgeInv, InstalledInv, PartsAgree
<1>5. QED
  BY <1>2, <1>3, <1>4 DEF IInv

LEMMA FileShape ==
    ASSUME NEW f \in File
    PROVE  f.version \in Nat /\ f.text \in Text \cup {Absent}
BY DEF File

LEMMA WriteType ==
    ASSUME TypeOK, NEW t \in Text \cup {Absent}, NEW e \in BOOLEAN, WriteFile(t, e)
    PROVE  /\ file' \in File /\ overtaken' \in [Saver -> BOOLEAN] /\ event' \in BOOLEAN
           /\ file'.version = file.version + 1 /\ file'.text = t
           /\ \A s \in Saver : overtaken'[s] = (e /\ savePc[s] = "rename")
<1>1. file.version \in Nat
  BY FileShape DEF TypeOK
<1>2. QED
  BY <1>1 DEF WriteFile, File, TypeOK

\* A step of a reload.
LEMMA ReloadStep ==
    ASSUME IInv, NEW r \in Reloader, ReloadConfig(r)
    PROVE  IInv'
<1>t. /\ TypeOK /\ LockInv /\ StageInv /\ BodyInv /\ CheckedInv
      /\ AgeInv /\ InstalledInv /\ PartsAgree
  BY DEF IInv
<1>f. /\ \A q \in Reloader : read[q] \in File
      /\ file.version \in Nat /\ models.version \in Nat
      /\ workers.version \in Nat /\ proxy.version \in Nat
      /\ \A q \in Reloader : read[q].version \in Nat
  BY <1>t, FileShape DEF TypeOK
<1>b. BodyInv' /\ CheckedInv'
  BY <1>t DEF BodyInv, CheckedInv, ReloadConfig, ReloadLock, ReloadRead, ReloadModels,
              ReloadWorkers, ReloadProxy, saveVars
<1>g. StageInv'
  BY <1>t, ConfigAssumption
  DEF StageInv, TypeOK, ReloadConfig, ReloadLock, ReloadRead, ReloadModels,
      ReloadWorkers, ReloadProxy, ReloadGoto, saveVars, Reloader
<1>1. CASE ReloadLock(r)
  <2>1. TypeOK'
    BY <1>t, <1>1 DEF TypeOK, ReloadLock, ReloadGoto, ReloadPc, parts, saveVars, watchVars
  <2>2. LockInv'
    BY <1>t, <1>1, ConfigAssumption
    DEF TypeOK, LockInv, ReloadLock, ReloadGoto, saveVars, Reloader
  <2>3. AgeInv'
    BY <1>t, <1>1 DEF TypeOK, AgeInv, ReloadLock, ReloadGoto, parts
  <2>4. InstalledInv' /\ PartsAgree'
    BY <1>t, <1>1, ConfigAssumption
    DEF TypeOK, InstalledInv, PartsAgree, ReloadLock, ReloadGoto, parts, Reloader
  <2>5. QED
    BY <1>b, <1>g, <2>1, <2>2, <2>3, <2>4 DEF IInv
<1>2. CASE ReloadRead(r)
  <2>1. TypeOK'
    BY <1>t, <1>2 DEF TypeOK, ReloadRead, ReloadGoto, ReloadPc, parts, saveVars, watchVars
  <2>2. LockInv'
    BY <1>t, <1>2, ConfigAssumption
    DEF TypeOK, LockInv, ReloadRead, ReloadGoto, saveVars, Reloader
  <2>3. AgeInv'
    BY <1>t, <1>f, <1>2 DEF TypeOK, AgeInv, ReloadRead, ReloadGoto, parts
  <2>4. InstalledInv' /\ PartsAgree'
    BY <1>t, <1>2, ConfigAssumption
    DEF TypeOK, InstalledInv, PartsAgree, ReloadRead, ReloadGoto, parts, Reloader, LockInv
  <2>5. QED
    BY <1>b, <1>g, <2>1, <2>2, <2>3, <2>4 DEF IInv
<1>o. ASSUME reloadPc[r] \notin {"idle", "lock"}, NEW q \in Reloader, q # r
      PROVE  reloadPc[q] \in {"idle", "lock"}
  BY <1>t, <1>o DEF LockInv
<1>3. CASE ReloadModels(r)
  <2>1. TypeOK'
    BY <1>t, <1>f, <1>3 DEF TypeOK, ReloadModels, ReloadGoto, ReloadPc, saveVars, watchVars
  <2>2. LockInv'
    BY <1>t, <1>3 DEF TypeOK, LockInv, ReloadModels, ReloadGoto, saveVars
  <2>3. AgeInv'
    BY <1>t, <1>f, <1>o, <1>3 DEF TypeOK, AgeInv, ReloadModels, ReloadGoto
  <2>4. InstalledInv' /\ PartsAgree'
    BY <1>t, <1>o, <1>3, ConfigAssumption
    DEF TypeOK, InstalledInv, PartsAgree, ReloadModels, ReloadGoto, Reloader, LockInv
  <2>5. QED
    BY <1>b, <1>g, <2>1, <2>2, <2>3, <2>4 DEF IInv
<1>4. CASE ReloadWorkers(r)
  <2>1. TypeOK'
    BY <1>t, <1>f, <1>4 DEF TypeOK, ReloadWorkers, ReloadGoto, ReloadPc, saveVars, watchVars
  <2>2. LockInv'
    BY <1>t, <1>4 DEF TypeOK, LockInv, ReloadWorkers, ReloadGoto, saveVars
  <2>3. AgeInv'
    BY <1>t, <1>f, <1>o, <1>4 DEF TypeOK, AgeInv, InstalledInv, ReloadWorkers, ReloadGoto
  <2>4. InstalledInv' /\ PartsAgree'
    BY <1>t, <1>o, <1>4, ConfigAssumption
    DEF TypeOK, InstalledInv, PartsAgree, ReloadWorkers, ReloadGoto, Reloader, LockInv
  <2>5. QED
    BY <1>b, <1>g, <2>1, <2>2, <2>3, <2>4 DEF IInv
<1>5. CASE ReloadProxy(r)
  <2>1. TypeOK'
    BY <1>t, <1>f, <1>5 DEF TypeOK, ReloadProxy, ReloadGoto, ReloadPc, saveVars, watchVars
  <2>2. LockInv'
    BY <1>t, <1>5, ConfigAssumption
    DEF TypeOK, LockInv, ReloadProxy, ReloadGoto, saveVars, Reloader
  <2>3. AgeInv'
    BY <1>t, <1>f, <1>o, <1>5 DEF TypeOK, AgeInv, InstalledInv, ReloadProxy, ReloadGoto
  <2>4. InstalledInv' /\ PartsAgree'
    BY <1>t, <1>o, <1>5 DEF TypeOK, InstalledInv, AgeInv, PartsAgree, ReloadProxy, ReloadGoto
  <2>5. QED
    BY <1>b, <1>g, <2>1, <2>2, <2>3, <2>4 DEF IInv
<1>6. QED
  BY <1>1, <1>2, <1>3, <1>4, <1>5 DEF ReloadConfig

\* A step of a save that is not one of its reload.
LEMMA SaveStep ==
    ASSUME IInv, NEW s \in Saver,
           \/ SaveLock(s) \/ SaveCheck(s) \/ SaveRename(s) \/ SaveReloaded(s) \/ SaveReply(s)
    PROVE  IInv'
<1>t. /\ TypeOK /\ LockInv /\ StageInv /\ BodyInv /\ CheckedInv
      /\ AgeInv /\ InstalledInv /\ PartsAgree
  BY DEF IInv
<1>f. /\ file.version \in Nat /\ models.version \in Nat
      /\ workers.version \in Nat /\ proxy.version \in Nat
      /\ \A q \in Reloader : read[q].version \in Nat
  BY <1>t, FileShape DEF TypeOK
<1>r. ASSUME UNCHANGED <<parts, reloadVars>>, file.version <= file'.version, file'.version \in Nat
      PROVE  AgeInv' /\ InstalledInv' /\ PartsAgree'
  BY <1>t, <1>f, <1>r DEF AgeInv, InstalledInv, PartsAgree, parts, reloadVars
<1>1. CASE SaveLock(s) \/ SaveCheck(s) \/ SaveReloaded(s) \/ SaveReply(s)
  <2>1. TypeOK'
    BY <1>t, <1>1 DEF TypeOK, SaveLock, SaveCheck, SaveReloaded, SaveReply, SaveGoto, SavePc,
                      parts, reloadVars, watchVars
  <2>2. LockInv'
    BY <1>t, <1>1, ConfigAssumption
    DEF TypeOK, LockInv, SaveLock, SaveCheck, SaveReloaded, SaveReply, SaveGoto, reloadVars
  <2>7. StageInv'
    BY <1>t, <1>1, ConfigAssumption
    DEF TypeOK, StageInv, SaveLock, SaveCheck, SaveReloaded, SaveReply, SaveGoto, reloadVars
  <2>3. BodyInv'
    BY <1>t, <1>1 DEF TypeOK, BodyInv, SaveLock, SaveCheck, SaveReloaded, SaveReply, SaveGoto
  <2>4. CheckedInv'
    BY <1>t, <1>1 DEF TypeOK, CheckedInv, SaveLock, SaveCheck, SaveReloaded, SaveReply, SaveGoto
  <2>5. AgeInv' /\ InstalledInv' /\ PartsAgree'
    BY <1>1, <1>f, <1>r DEF SaveLock, SaveCheck, SaveReloaded, SaveReply
  <2>6. QED
    BY <2>1, <2>2, <2>3, <2>4, <2>5, <2>7 DEF IInv
<1>2. CASE SaveRename(s) /\ SaveGoto(s, "rename", "reply")
  <2>1. UNCHANGED <<file, overtaken, event, reloadPc>>
    BY <1>t, <1>2 DEF SaveRename, SaveGoto, TypeOK
  <2>2. TypeOK'
    BY <1>t, <1>2, <2>1 DEF TypeOK, SaveRename, SaveGoto, SavePc, parts
  <2>3. LockInv' /\ StageInv' /\ BodyInv' /\ CheckedInv'
    BY <1>t, <1>2, <2>1
    DEF TypeOK, LockInv, StageInv, BodyInv, CheckedInv, SaveRename, SaveGoto
  <2>4. AgeInv' /\ InstalledInv' /\ PartsAgree'
    BY <1>2, <1>f, <1>r, <2>1 DEF SaveRename, reloadVars
  <2>5. QED
    BY <2>2, <2>3, <2>4 DEF IInv
<1>3. CASE /\ SaveRename(s) /\ SaveGoto(s, "rename", "reload")
           /\ WriteFile(body[s], FALSE)
           /\ reloadPc' = [reloadPc EXCEPT ![s] = "lock"]
  <2>0. savePc[s] = "rename" /\ body[s] \in Text /\ s \in Reloader
    BY <1>t, <1>3, ConfigAssumption DEF BodyInv, SaveGoto, Reloader
  <2>1. /\ file' \in File /\ overtaken' \in [Saver -> BOOLEAN] /\ event' \in BOOLEAN
        /\ file'.version = file.version + 1
    BY <1>t, <1>3, <2>0, WriteType
  <2>2. TypeOK'
    BY <1>t, <1>3, <2>0, <2>1 DEF TypeOK, SaveRename, SaveGoto, SavePc, ReloadPc, parts
  <2>3. StageInv' /\ BodyInv' /\ CheckedInv'
    BY <1>t, <1>3 DEF TypeOK, StageInv, BodyInv, CheckedInv, LockInv, SaveRename, SaveGoto
  <2>4. reloadPc[s] = "idle"
    BY <1>t, <2>0 DEF StageInv
  <2>5. LockInv'
    BY <1>t, <1>3, <2>0, <2>4 DEF TypeOK, LockInv, SaveRename, SaveGoto
  <2>6. AgeInv'
    BY <1>t, <1>f, <1>3, <2>0, <2>1 DEF TypeOK, AgeInv, SaveRename, parts
  <2>7. InstalledInv' /\ PartsAgree'
    BY <1>t, <1>3, <2>0 DEF TypeOK, InstalledInv, PartsAgree, SaveRename, parts
  <2>8. QED
    BY <2>2, <2>3, <2>5, <2>6, <2>7 DEF IInv
<1>4. QED
  BY <1>1, <1>2, <1>3 DEF SaveRename, SaveGoto

LEMMA IInvStep == IInv /\ [Next]_vars => IInv'
<1> SUFFICES ASSUME IInv, [Next]_vars PROVE IInv'
  OBVIOUS
<1>t. /\ TypeOK /\ LockInv /\ StageInv /\ BodyInv /\ CheckedInv
      /\ AgeInv /\ InstalledInv /\ PartsAgree
  BY DEF IInv
<1>f. /\ file.version \in Nat /\ models.version \in Nat
      /\ workers.version \in Nat /\ proxy.version \in Nat
      /\ \A q \in Reloader : read[q].version \in Nat
  BY <1>t, FileShape DEF TypeOK
<1>1. ASSUME NEW t \in Text \cup {Absent}, EditFile(t) PROVE IInv'
  <2>0. WriteFile(t, TRUE) /\ TRUE \in BOOLEAN
    BY <1>1 DEF EditFile
  <2>1. /\ file' \in File /\ overtaken' \in [Saver -> BOOLEAN] /\ event' \in BOOLEAN
        /\ file'.version = file.version + 1
        /\ \A s \in Saver : savePc[s] = "rename" => overtaken'[s]
    BY <1>t, <2>0, WriteType
  <2>2. writes' \in 0 .. MaxWrites
    BY <1>t, <1>1, ConfigAssumption DEF EditFile, TypeOK
  <2>3. TypeOK'
    BY <1>t, <1>1, <2>1, <2>2 DEF EditFile, TypeOK, parts, saveVars, reloadVars
  <2>4. LockInv' /\ StageInv' /\ BodyInv' /\ CheckedInv'
    BY <1>t, <1>1, <2>1 DEF EditFile, LockInv, StageInv, BodyInv, CheckedInv, saveVars, reloadVars
  <2>5. AgeInv' /\ InstalledInv' /\ PartsAgree'
    BY <1>t, <1>f, <1>1, <2>1 DEF EditFile, AgeInv, InstalledInv, PartsAgree, parts, reloadVars
  <2>6. QED
    BY <2>3, <2>4, <2>5 DEF IInv
<1>2. ASSUME NEW s \in Saver, NEW t \in Acceptable, NEW e \in Text \cup {AnyText}, Put(s, t, e)
      PROVE  IInv'
  <2>1. TypeOK'
    BY <1>t, <1>2, ConfigAssumption
    DEF Put, TypeOK, SaveGoto, SavePc, parts, reloadVars, watchVars
  <2>2. LockInv' /\ StageInv' /\ BodyInv' /\ CheckedInv'
    BY <1>t, <1>2
    DEF Put, TypeOK, LockInv, StageInv, BodyInv, CheckedInv, SaveGoto, reloadVars
  <2>3. AgeInv' /\ InstalledInv' /\ PartsAgree'
    BY <1>t, <1>2 DEF Put, AgeInv, InstalledInv, PartsAgree, parts, reloadVars
  <2>4. QED
    BY <2>1, <2>2, <2>3 DEF IInv
<1>3. ASSUME NEW s \in Saver, SaveConfig(s) PROVE IInv'
  BY <1>3, SaveStep, ReloadStep DEF SaveConfig, Reloader
<1>4. CASE StartWatching \/ WatchEvent
  <2>1. TypeOK'
    BY <1>t, <1>4 DEF StartWatching, WatchEvent, TypeOK, parts, saveVars, reloadVars
  <2>2. LockInv' /\ StageInv' /\ BodyInv' /\ CheckedInv'
    BY <1>t, <1>4
    DEF StartWatching, WatchEvent, LockInv, StageInv, BodyInv, CheckedInv, saveVars, reloadVars
  <2>3. AgeInv' /\ InstalledInv' /\ PartsAgree'
    BY <1>t, <1>4
    DEF StartWatching, WatchEvent, AgeInv, InstalledInv, PartsAgree, parts, reloadVars
  <2>4. QED
    BY <2>1, <2>2, <2>3 DEF IInv
<1>5. CASE WatchTimer
  <2>0. Watcher \in Reloader /\ Watcher \notin Saver
    BY ConfigAssumption DEF Reloader
  <2>1. TypeOK'
    BY <1>t, <1>5, <2>0 DEF WatchTimer, Selecting, TypeOK, ReloadPc, parts, saveVars
  <2>2. LockInv' /\ StageInv' /\ BodyInv' /\ CheckedInv'
    BY <1>t, <1>5, <2>0
    DEF WatchTimer, Selecting, TypeOK, LockInv, StageInv, BodyInv, CheckedInv, saveVars
  <2>3. AgeInv' /\ InstalledInv' /\ PartsAgree'
    BY <1>t, <1>5, <2>0 DEF WatchTimer, Selecting, TypeOK, AgeInv, InstalledInv, PartsAgree, parts
  <2>4. QED
    BY <2>1, <2>2, <2>3 DEF IInv
<1>6. CASE ReloadConfig(Watcher)
  BY <1>6, ReloadStep DEF Reloader
<1>7. CASE UNCHANGED vars
  BY <1>t, <1>7
  DEF IInv, TypeOK, LockInv, StageInv, BodyInv, CheckedInv, AgeInv, InstalledInv, PartsAgree,
      vars, parts, saveVars, reloadVars, watchVars
<1>8. CASE WatchEnds
  <2>1. TypeOK'
    BY <1>t, <1>8 DEF WatchEnds, TypeOK, parts, saveVars, reloadVars
  <2>2. LockInv' /\ StageInv' /\ BodyInv' /\ CheckedInv'
    BY <1>t, <1>8 DEF WatchEnds, LockInv, StageInv, BodyInv, CheckedInv, saveVars, reloadVars
  <2>3. AgeInv' /\ InstalledInv' /\ PartsAgree'
    BY <1>t, <1>8 DEF WatchEnds, AgeInv, InstalledInv, PartsAgree, parts, reloadVars
  <2>4. QED
    BY <2>1, <2>2, <2>3 DEF IInv
<1>9. QED
  BY <1>1, <1>2, <1>3, <1>4, <1>5, <1>6, <1>7, <1>8 DEF Next, Watch

\* The invariant that the theorems below rest on.
THEOREM IInvCorrect == Spec => []IInv
BY InitIInv, IInvStep, PTL DEF Spec

\* Every variable keeps its type; in particular a save never writes a text that has
\* not passed its checks (handlers.go:484-523).
THEOREM TypeCorrect == Spec => []TypeOK
<1>1. IInv => TypeOK
  BY DEF IInv
<1>2. QED
  BY <1>1, IInvCorrect, PTL

\* Between reloads, the manager, the fleet registry and the proxy switch stand at one
\* version of the file, and it is one that loads (server.go:338-359).
THEOREM PartsAgreeCorrect == Spec => []PartsAgree
<1>1. IInv => PartsAgree
  BY DEF IInv
<1>2. QED
  BY <1>1, IInvCorrect, PTL

-----------------------------------------------------------------------------
(* Action properties.                                                      *)

LEMMA ReloadsGoForwardStep ==
    ASSUME IInv, [Next]_vars
    PROVE  /\ models'.version >= models.version
           /\ workers'.version >= workers.version
           /\ proxy'.version >= proxy.version
<1>t. TypeOK /\ LockInv /\ AgeInv /\ InstalledInv
  BY DEF IInv
<1>f. /\ models.version \in Nat /\ workers.version \in Nat /\ proxy.version \in Nat
      /\ \A q \in Reloader : read[q].version \in Nat
  BY <1>t, FileShape DEF TypeOK
<1>0. ASSUME UNCHANGED parts
      PROVE  /\ models'.version >= models.version
             /\ workers'.version >= workers.version
             /\ proxy'.version >= proxy.version
  BY <1>0, <1>f DEF parts
<1>1. ASSUME NEW r \in Reloader, ReloadConfig(r)
      PROVE  /\ models'.version >= models.version
             /\ workers'.version >= workers.version
             /\ proxy'.version >= proxy.version
  <2>1. CASE ReloadLock(r) \/ ReloadRead(r)
    BY <1>0, <2>1 DEF ReloadLock, ReloadRead
  <2>2. CASE ReloadModels(r)
    BY <1>t, <1>f, <2>2 DEF ReloadModels, ReloadGoto, AgeInv
  <2>3. CASE ReloadWorkers(r)
    BY <1>t, <1>f, <2>3 DEF ReloadWorkers, ReloadGoto, AgeInv
  <2>4. CASE ReloadProxy(r)
    BY <1>t, <1>f, <2>4 DEF ReloadProxy, ReloadGoto, AgeInv
  <2>5. QED
    BY <1>1, <2>1, <2>2, <2>3, <2>4 DEF ReloadConfig
<1>2. ASSUME NEW s \in Saver, NEW t, NEW e, Put(s, t, e) PROVE UNCHANGED parts
  BY <1>2 DEF Put
<1>3. ASSUME NEW s \in Saver,
             \/ SaveLock(s) \/ SaveCheck(s) \/ SaveRename(s) \/ SaveReloaded(s) \/ SaveReply(s)
      PROVE  UNCHANGED parts
  BY <1>3 DEF SaveLock, SaveCheck, SaveRename, SaveReloaded, SaveReply
<1>4. ASSUME NEW t, EditFile(t) PROVE UNCHANGED parts
  BY <1>4 DEF EditFile
<1>5. ASSUME StartWatching \/ WatchEvent \/ WatchTimer \/ WatchEnds \/ UNCHANGED vars
      PROVE  UNCHANGED parts
  BY <1>5 DEF StartWatching, WatchEvent, WatchTimer, WatchEnds, vars
<1>6. QED
  BY <1>0, <1>1, <1>2, <1>3, <1>4, <1>5 DEF Next, Watch, SaveConfig, Reloader

\* No reload installs an older version of the file than the one it replaces,
\* whoever reloads and however long it takes (server.go:338-359).
THEOREM ReloadsGoForwardCorrect == Spec => ReloadsGoForward
<1>1. IInv /\ [Next]_vars =>
        [/\ models'.version >= models.version
         /\ workers'.version >= workers.version
         /\ proxy'.version >= proxy.version]_vars
  BY ReloadsGoForwardStep
<1>2. QED
  BY <1>1, IInvCorrect, PTL DEF Spec, ReloadsGoForward

\* A save with If-Match replaces the text it names or a file that is missing, unless
\* another program has written the file after this save's own check: an edit that was
\* there before the check is never overwritten, nor is another save
\* (handlers.go:525-556).
THEOREM SavesDoNotCollideCorrect == Spec => SavesDoNotCollide
<1>1. ASSUME IInv
      PROVE  \A s \in Saver :
                Saved(s) /\ ifMatch[s] # AnyText =>
                    file.text \in {ifMatch[s], Absent} \/ overtaken[s]
  BY <1>1 DEF IInv, CheckedInv, Saved, SaveRename, SaveGoto
<1>2. QED
  BY <1>1, IInvCorrect, PTL DEF Spec, SavesDoNotCollide

-----------------------------------------------------------------------------
(* No write is missed.                                                     *)

\* Before anybody watches only the early edits have been made.
EarlyInv ==
    watch = "off" =>
        /\ file.version <= writes /\ writes <= MaxEarly
        /\ \A s \in Saver : savePc[s] = "idle"

\* A version of the file has one text.
VersionInv == \A r \in Reloader : read[r].version = file.version => read[r] = file

MissInv == EarlyInv /\ VersionInv /\ NothingIsMissed

Applied == models = file /\ workers = file /\ proxy = file

LEMMA InitMissInv == Init => MissInv
<1> SUFFICES ASSUME Init PROVE MissInv
  OBVIOUS
<1>1. file.version = 0
  BY DEF Init
<1>2. QED
  BY <1>1, ConfigAssumption DEF Init, MissInv, EarlyInv, VersionInv, NothingIsMissed

\* A write makes a new version, and an event if somebody watches.
LEMMA WriteMiss ==
    ASSUME IInv, MissInv, NEW t \in Text \cup {Absent}, NEW e \in BOOLEAN, WriteFile(t, e),
           UNCHANGED <<read, watch>>
    PROVE  /\ VersionInv'
           /\ watch # "off" => NothingIsMissed'
           /\ file'.version <= MaxEarly => NothingIsMissed'
<1>f. /\ file.version \in Nat /\ file'.version = file.version + 1 /\ file'.text = t
      /\ \A q \in Reloader : read[q].version \in Nat /\ read[q].version <= file.version
      /\ MaxEarly \in Nat
  BY WriteType, FileShape, ConfigAssumption DEF IInv, TypeOK, AgeInv
<1>1. VersionInv'
  BY <1>f DEF VersionInv
<1>2. ASSUME watch # "off" PROVE NothingIsMissed'
  <2>1. watch = "on" /\ t # Absent => event'
    BY DEF WriteFile
  <2>2. QED
    BY <1>f, <2>1, ConfigAssumption DEF NothingIsMissed
<1>3. ASSUME file'.version <= MaxEarly PROVE NothingIsMissed'
  BY <1>f, <1>3 DEF NothingIsMissed
<1>4. QED
  BY <1>1, <1>2, <1>3

\* A step of a reload takes the file on, or finds that somebody else owes it.
LEMMA ReloadMiss ==
    ASSUME IInv, MissInv, NEW r \in Reloader, ReloadConfig(r)
    PROVE  MissInv'
<1>t. TypeOK /\ AgeInv /\ InstalledInv /\ EarlyInv /\ VersionInv /\ NothingIsMissed
  BY DEF IInv, MissInv
<1>f. /\ read \in [Reloader -> File] /\ reloadPc \in [Reloader -> ReloadPc]
      /\ file.version \in Nat /\ \A q \in Reloader : read[q].version \in Nat
  BY <1>t, FileShape DEF TypeOK
<1>u. UNCHANGED <<file, savePc, writes, watch, event, timer>>
  BY DEF ReloadConfig, ReloadLock, ReloadRead, ReloadModels, ReloadWorkers, ReloadProxy,
         saveVars, watchVars
<1>1. EarlyInv'
  BY <1>t, <1>u DEF EarlyInv
<1>2. VersionInv'
  BY <1>t, <1>f, <1>u
  DEF VersionInv, ReloadConfig, ReloadLock, ReloadRead, ReloadModels, ReloadWorkers, ReloadProxy
<1>o. \A q \in Reloader \ {r} : reloadPc'[q] = reloadPc[q] /\ read'[q] = read[q]
  BY <1>f DEF ReloadConfig, ReloadLock, ReloadRead, ReloadModels, ReloadWorkers, ReloadProxy,
              ReloadGoto
<1>3. NothingIsMissed'
  <2> SUFFICES ASSUME watch = "on", file.text \in Loadable, file.version > MaxEarly
               PROVE  Applied' \/ event \/ timer \/ \E q \in Reloader : Owes(q)'
    BY <1>u DEF NothingIsMissed, Applied, Owes
  <2>0. Applied \/ event \/ timer \/ \E q \in Reloader : Owes(q)
    BY <1>t DEF NothingIsMissed, Applied
  <2>q. ASSUME NEW q \in Reloader \ {r}, Owes(q) PROVE Owes(q)'
    BY <1>o, <1>u, <2>q DEF Owes
  <2>1. CASE ReloadLock(r)
    BY <1>f, <2>1 DEF ReloadLock, ReloadGoto, Owes
  <2>2. CASE ReloadRead(r)
    BY <1>f, <1>u, <2>2 DEF ReloadRead, ReloadGoto, Owes
  <2>3. CASE ReloadModels(r)
    <3>1. CASE read[r] = file
      BY <1>f, <1>u, <2>3, <3>1 DEF ReloadModels, ReloadGoto, Owes
    <3>2. CASE read[r] # file
      <4>1. ~Applied
        BY <1>t, <1>f, <2>3, <3>2 DEF ReloadModels, ReloadGoto, AgeInv, VersionInv, Applied
      <4>2. ~Owes(r)
        BY <2>3, <3>2 DEF ReloadModels, ReloadGoto, Owes
      <4>3. QED
        BY <2>0, <2>q, <4>1, <4>2
    <3>3. QED
      BY <3>1, <3>2
  <2>4. CASE ReloadWorkers(r)
    <3>1. CASE read[r] = file
      BY <1>f, <1>u, <2>4, <3>1 DEF ReloadWorkers, ReloadGoto, Owes
    <3>2. CASE read[r] # file
      <4>1. ~Applied /\ ~Owes(r)
        BY <1>t, <2>4, <3>2 DEF ReloadWorkers, ReloadGoto, InstalledInv, Applied, Owes
      <4>2. QED
        BY <2>0, <2>q, <4>1
    <3>3. QED
      BY <3>1, <3>2
  <2>5. CASE ReloadProxy(r)
    <3>0. models = read[r] /\ workers = read[r] /\ proxy' = read[r]
          /\ UNCHANGED <<models, workers>>
      BY <1>t, <2>5 DEF ReloadProxy, ReloadGoto, InstalledInv
    <3>1. CASE read[r] = file
      BY <1>u, <3>0, <3>1 DEF Applied
    <3>2. CASE read[r] # file
      <4>1. ~Applied /\ ~Owes(r)
        BY <2>5, <3>0, <3>2 DEF ReloadProxy, ReloadGoto, Applied, Owes
      <4>2. QED
        BY <2>0, <2>q, <4>1
    <3>3. QED
      BY <3>1, <3>2
  <2>6. QED
    BY <2>1, <2>2, <2>3, <2>4, <2>5 DEF ReloadConfig
<1>4. QED
  BY <1>1, <1>2, <1>3 DEF MissInv

LEMMA MissStep == IInv /\ MissInv /\ [Next]_vars => MissInv'
<1> SUFFICES ASSUME IInv, MissInv, [Next]_vars PROVE MissInv'
  OBVIOUS
<1>t. TypeOK /\ EarlyInv /\ VersionInv /\ NothingIsMissed
  BY DEF IInv, MissInv
<1>f. file.version \in Nat /\ writes \in Nat /\ MaxEarly \in Nat /\ watch \in {"off", "on", "over"}
  BY <1>t, FileShape, ConfigAssumption DEF TypeOK
<1>n. ASSUME UNCHANGED <<file, parts, read, timer, reloadPc>>, event => event',
             watch' = "on" => watch = "on" \/ file.version <= MaxEarly
      PROVE  VersionInv' /\ NothingIsMissed'
  BY <1>t, <1>f, <1>n DEF VersionInv, NothingIsMissed, Owes, parts
<1>1. ASSUME NEW t \in Text \cup {Absent}, EditFile(t) PROVE MissInv'
  <2>0. WriteFile(t, TRUE) /\ TRUE \in BOOLEAN /\ UNCHANGED <<read, watch, savePc>>
    BY <1>1 DEF EditFile, reloadVars, saveVars
  <2>1. file'.version = file.version + 1
    BY <1>t, <2>0, WriteType
  <2>2. EarlyInv' /\ (watch = "off" => file'.version <= MaxEarly)
    BY <1>t, <1>f, <1>1, <2>0, <2>1 DEF EditFile, EarlyInv
  <2>3. QED
    BY <1>f, <2>0, <2>2, WriteMiss DEF MissInv
<1>2. ASSUME NEW s \in Saver, NEW t \in Acceptable, NEW e \in Text \cup {AnyText}, Put(s, t, e)
      PROVE  MissInv'
  <2>1. EarlyInv'
    BY <1>2 DEF Put, EarlyInv, watchVars
  <2>2. QED
    BY <1>n, <1>2, <2>1 DEF Put, reloadVars, watchVars, MissInv
<1>3. ASSUME NEW s \in Saver,
             \/ SaveLock(s) \/ SaveCheck(s) \/ SaveReloaded(s) \/ SaveReply(s)
             \/ SaveRename(s) /\ UNCHANGED <<file, event, reloadPc>>
      PROVE  MissInv'
  <2>1. savePc[s] # "idle"
    BY <1>3 DEF SaveLock, SaveCheck, SaveReloaded, SaveReply, SaveRename, SaveGoto
  <2>2. EarlyInv'
    BY <1>t, <1>3, <2>1
    DEF SaveLock, SaveCheck, SaveReloaded, SaveReply, SaveRename, EarlyInv, watchVars
  <2>3. UNCHANGED <<file, parts, read, watch, timer, reloadPc>> /\ (event => event')
    <3>1. CASE SaveRename(s) /\ UNCHANGED <<file, event, reloadPc>>
      BY <3>1 DEF SaveRename
    <3>2. CASE SaveLock(s) \/ SaveCheck(s) \/ SaveReloaded(s) \/ SaveReply(s)
      BY <3>2 DEF SaveLock, SaveCheck, SaveReloaded, SaveReply, reloadVars, watchVars
    <3>3. QED
      BY <1>3, <3>1, <3>2
  <2>4. QED
    BY <1>n, <2>2, <2>3 DEF MissInv
<1>4. ASSUME NEW s \in Saver, SaveRename(s), WriteFile(body[s], FALSE) PROVE MissInv'
  <2>0. savePc[s] = "rename" /\ body[s] \in Text /\ FALSE \in BOOLEAN
        /\ UNCHANGED <<read, watch>>
    BY <1>4, ConfigAssumption DEF IInv, BodyInv, SaveRename, SaveGoto
  <2>1. watch # "off"
    BY <1>t, <2>0 DEF EarlyInv
  <2>2. EarlyInv'
    BY <2>0, <2>1 DEF EarlyInv
  <2>3. QED
    BY <1>4, <2>0, <2>1, <2>2, WriteMiss DEF MissInv
<1>5. CASE StartWatching
  <2>1. EarlyInv'
    BY <1>5 DEF StartWatching, EarlyInv
  <2>2. watch = "off" /\ file.version <= MaxEarly
    BY <1>t, <1>f, <1>5 DEF StartWatching, EarlyInv
  <2>3. QED
    BY <1>n, <1>5, <2>1, <2>2 DEF StartWatching, reloadVars, MissInv
<1>6. CASE WatchEvent
  BY <1>t, <1>6
  DEF WatchEvent, MissInv, EarlyInv, VersionInv, NothingIsMissed, Owes, parts, saveVars, reloadVars
<1>7. CASE WatchTimer
  <2>1. Watcher \in Reloader /\ reloadPc'[Watcher] = "lock"
    BY <1>t, <1>7 DEF WatchTimer, TypeOK, Reloader
  <2>2. NothingIsMissed'
    BY <2>1 DEF NothingIsMissed, Owes
  <2>3. QED
    BY <1>t, <1>7, <2>2 DEF WatchTimer, MissInv, EarlyInv, VersionInv, saveVars
<1>8. CASE UNCHANGED vars
  BY <1>t, <1>8
  DEF MissInv, EarlyInv, VersionInv, NothingIsMissed, Owes, vars, parts, saveVars, reloadVars,
      watchVars
<1>9. ASSUME NEW s \in Saver, SaveConfig(s) PROVE MissInv'
  BY <1>3, <1>4, <1>9, ReloadMiss DEF SaveConfig, SaveRename, Reloader
<1>10. CASE WatchEnds
  BY <1>t, <1>10
  DEF WatchEnds, Selecting, MissInv, EarlyInv, VersionInv, NothingIsMissed, saveVars, reloadVars
<1>11. QED
  BY <1>1, <1>2, <1>5, <1>6, <1>7, <1>8, <1>9, <1>10, ReloadMiss DEF Next, Watch, Reloader

\* A write that somebody watches is never lost to the reload of an earlier one: until the
\* file as it is has been installed in all three places, an event, the timer or a reload
\* is on its way to it (server.go:298-330).
THEOREM NothingIsMissedCorrect == Spec => []NothingIsMissed
<1>1. MissInv => NothingIsMissed
  BY DEF MissInv
<1>2. QED
  BY <1>1, InitMissInv, MissStep, IInvCorrect, PTL DEF Spec

-----------------------------------------------------------------------------
(* The two mutexes.                                                        *)

\* a waits for a mutex that b holds.
WaitsFor(a, b) ==
    \/ a \in Saver /\ savePc[a] = "lock" /\ saveMu = b
    \/ reloadPc[a] = "lock" /\ reloadMu = b

\* saveMu is always taken before reloadMu: a save may wait for one that reloads and that
\* one for the reload that goes on, whose owner waits for nobody.  So nobody waits for
\* himself in the end (handlers.go:531, server.go:339).
THEOREM NoCircularWait ==
    Spec => [](\A a, b, c \in Reloader :
                  WaitsFor(a, b) /\ WaitsFor(b, c) => \A d \in Reloader : ~WaitsFor(c, d))
<1>1. ASSUME IInv, NEW a \in Reloader, NEW b \in Reloader, NEW c \in Reloader,
             WaitsFor(a, b), WaitsFor(b, c), NEW d \in Reloader
      PROVE  ~WaitsFor(c, d)
  <2>0. LockInv /\ StageInv
    BY <1>1 DEF IInv
  <2>1. CASE reloadMu = c
    <3>1. reloadPc[c] \notin {"idle", "lock"}
      BY <2>0, <2>1 DEF LockInv
    <3>2. c \in Saver => savePc[c] = "reload"
      BY <2>0, <3>1 DEF StageInv
    <3>3. QED
      BY <3>1, <3>2 DEF WaitsFor
  <2>2. CASE reloadMu # c
    \* Then b waits for saveMu, and holds neither mutex.
    <3>1. b \in Saver /\ savePc[b] = "lock"
      BY <1>1, <2>2 DEF WaitsFor
    <3>2. saveMu # b /\ reloadMu # b
      BY <2>0, <3>1 DEF LockInv, StageInv
    <3>3. QED
      BY <1>1, <3>2 DEF WaitsFor
  <2>3. QED
    BY <2>1, <2>2
<1>2. IInv => \A a, b, c \in Reloader :
                 WaitsFor(a, b) /\ WaitsFor(b, c) => \A d \in Reloader : ~WaitsFor(c, d)
  BY <1>1
<1>3. QED
  BY <1>2, IInvCorrect, PTL
=============================================================================
