------------------------ MODULE ServerManagerProofs ------------------------
(***************************************************************************)
(* Proofs about ServerManager and about App, which is built around it, for *)
(* every set of launches, models and callers and every retry limit.  The   *)
(* inductive invariant IInv adds to TypeOK and NoOrphan what the code      *)
(* relies on without saying so: a pid gets into the slot or into the       *)
(* hands of a StopModel only by a claim, a claimed pid is never spawned    *)
(* again, and a StopModel that reaches its last step holds a pid that is   *)
(* dead.                                                                   *)
(***************************************************************************)
EXTENDS App, Integers, TLAPS

\* Launchers that have not claimed the slot for their current attempt.
Unclaimed == {"idle", "entry", "mark", "top", "start", "started",
              "killCancelled", "claim", "killUnclaimed"}

\* A launcher registers only pids of its own, in the order of its attempts.
RegistrationInv ==
    \A l \in Launches :
        /\ registered[l] # NoPid =>
              /\ registered[l] = <<l, registered[l][2]>>
              /\ registered[l][2] <= crashes[l]
              /\ pc[l] \in Unclaimed => registered[l][2] < crashes[l]
        /\ pc[l] \in {"wait", "failed"} => registered[l] = CurrentPid(l)

\* Before cmd.Start there is no process, and no live one is lost after it.
ProcInv ==
    \A l \in Launches :
        /\ pc[l] \in {"idle", "entry", "mark", "top", "start"} => proc[l] = "none"
        /\ proc[l] = "alive" =>
              \/ pc[l] \in {"started", "killCancelled", "claim", "killUnclaimed"}
              \/ pc[l] = "wait" /\ Holds(CurrentPid(l))
        /\ pc[l] \in {"started", "killCancelled", "claim", "killUnclaimed", "wait"} =>
              proc[l] # "none"
        /\ pc[l] \in {"failed", "clean"} => proc[l] = "reaped"
        /\ registered[l] = CurrentPid(l) => proc[l] # "none"

\* Pids in the slot and in the hands of StopModel have been claimed.
ClaimedInv ==
    /\ server # NoServer => server.pid \in Served \cup {NoPid}
    /\ \A s \in Stoppers : stopPid[s] \in Served \cup {NoPid}

\* StopModel kills no pid 0, and clears the slot only of a process that is gone.
StopInv ==
    \A s \in Stoppers :
        /\ stopPc[s] = "kill" => stopPid[s] # NoPid
        /\ stopPc[s] = "clear" /\ stopPid[s] # NoPid => stopPid[s] \in Gone

IInv == TypeOK /\ RegistrationInv /\ ProcInv /\ ClaimedInv /\ StopInv

-----------------------------------------------------------------------------
(* Types.                                                                  *)

LEMMA PidShape ==
    ASSUME NEW p \in Pid
    PROVE  p = <<p[1], p[2]>> /\ p[1] \in Launches /\ p[2] \in 0 .. MaxRetries
BY DEF Pid

LEMMA CurrentPidType ==
    ASSUME TypeOK, NEW l \in Launches
    PROVE  CurrentPid(l) \in Pid /\ CurrentPid(l)[1] = l /\ CurrentPid(l)[2] = crashes[l]
BY DEF TypeOK, CurrentPid, Pid

LEMMA TypeInit == ASSUME Init PROVE TypeOK
<1>1. 0 \in 0 .. MaxRetries
  BY ConstantsAssumption
<1>2. panicked \in BOOLEAN
  BY DEF Init
<1>3. QED
  BY <1>1, <1>2 DEF Init, TypeOK, LaunchPc, StopPc, ProcState

LEMMA TypeStep == TypeOK /\ [Next]_vars => TypeOK'
<1> SUFFICES ASSUME TypeOK, [Next]_vars PROVE TypeOK'
  OBVIOUS
<1> USE DEF TypeOK, Server, Status, LaunchPc, StopPc, ProcState
<1>1. ASSUME NEW l \in Launches, StartModel(l) PROVE TypeOK'
  BY <1>1 DEF StartModel, stopVars
<1>2. ASSUME NEW l \in Launches, LaunchServer(l) PROVE TypeOK'
  <2>0. CurrentPid(l) \in Pid
    BY CurrentPidType
  <2>1. CASE LaunchEntry(l)
    BY <2>1 DEF LaunchEntry, Goto, stopVars
  <2>2. CASE LaunchTop(l) \/ LaunchStarted(l) \/ LaunchGiveUp(l)
    BY <2>2 DEF LaunchTop, LaunchStarted, LaunchGiveUp, Goto, stopVars
  <2>3. CASE LaunchStart(l) \/ LaunchWait(l)
    BY <2>3 DEF LaunchStart, LaunchWait, Goto, stopVars
  <2>4. CASE LaunchKillOrphan(l)
    BY <2>4 DEF LaunchKillOrphan, KillProcessGroup, Goto, stopVars
  <2>5. CASE LaunchClaim(l)
    <3>1. CASE MayClaim(l)
      <4>1. server' \in Server
        BY <2>0, <2>5, <3>1 DEF LaunchClaim, MayClaim
      <4>2. registered' \in [Launches -> Pid \cup {NoPid}]
        BY <2>0, <2>5, <3>1 DEF LaunchClaim
      <4>3. QED
        BY <2>5, <3>1, <4>1, <4>2 DEF LaunchClaim, Goto, stopVars
    <3>2. CASE ~MayClaim(l)
      BY <2>5, <3>2 DEF LaunchClaim, Goto, stopVars
    <3>3. QED
      BY <3>1, <3>2
  <2>6. CASE LaunchRetry(l)
    BY <2>6, ConstantsAssumption DEF LaunchRetry, Goto, stopVars
  <2>7. CASE LaunchMark(l)
    BY <2>7 DEF LaunchMark, Goto, stopVars
  <2>8. CASE LaunchClear(l)
    BY <2>8 DEF LaunchClear, ClearServerStateIfPIDMatches, Goto, stopVars
  <2>9. QED
    BY <1>2, <2>1, <2>2, <2>3, <2>4, <2>5, <2>6, <2>7, <2>8 DEF LaunchServer
<1>3. ASSUME NEW l \in Launches, ProcessExit(l) PROVE TypeOK'
  BY <1>3 DEF ProcessExit, stopVars
<1>4. ASSUME NEW s \in Stoppers, NEW name, StopModel(s, name) PROVE TypeOK'
  BY <1>4 DEF StopModel, launchVars
<1>5. ASSUME NEW s \in Stoppers, StopStep(s) PROVE TypeOK'
  BY <1>5 DEF StopStep, StopCancel, StopKill, StopClear, KillProcessGroup,
              ClearServerStateIfPIDMatches, launchVars
<1>6. ASSUME NEW c \in ConfigSets, ReloadConfigs(c) PROVE TypeOK'
  BY <1>6 DEF ReloadConfigs, launchVars, stopVars
<1>7. CASE GetCurrentServer
  BY <1>7 DEF GetCurrentServer, ProcessLost, launchVars, stopVars
<1>8. CASE UNCHANGED vars
  BY <1>8 DEF vars, launchVars, stopVars
<1>9. QED
  BY <1>1, <1>2, <1>3, <1>4, <1>5, <1>6, <1>7, <1>8 DEF Next

\* Every variable keeps its type; in particular no launch makes more than
\* MaxRetries restarts (manager.go:296).
THEOREM TypeCorrect == Spec => []TypeOK
BY TypeInit, TypeStep, PTL DEF Spec

-----------------------------------------------------------------------------
(* Registered pids.                                                        *)

LEMMA RegistrationStep ==
    TypeOK /\ RegistrationInv /\ [Next]_vars => RegistrationInv'
<1> SUFFICES ASSUME TypeOK, RegistrationInv, [Next]_vars PROVE RegistrationInv'
  OBVIOUS
<1> USE DEF RegistrationInv, TypeOK, Unclaimed, CurrentPid
<1>0. ASSUME UNCHANGED <<pc, crashes, registered>> PROVE RegistrationInv'
  BY <1>0
<1>1. ASSUME NEW l \in Launches, StartModel(l) PROVE RegistrationInv'
  BY <1>1 DEF StartModel
<1>2. ASSUME NEW l \in Launches, LaunchServer(l) PROVE RegistrationInv'
  <2>1. CASE LaunchEntry(l) \/ LaunchTop(l) \/ LaunchStart(l) \/ LaunchStarted(l)
    BY <2>1 DEF LaunchEntry, LaunchTop, LaunchStart, LaunchStarted, Goto
  <2>2. CASE LaunchKillOrphan(l) \/ LaunchWait(l) \/ LaunchGiveUp(l)
    BY <2>2 DEF LaunchKillOrphan, LaunchWait, LaunchGiveUp, Goto
  <2>3. CASE LaunchMark(l) \/ LaunchClear(l)
    BY <2>3 DEF LaunchMark, LaunchClear, Goto
  <2>4. CASE LaunchClaim(l)
    BY <2>4 DEF LaunchClaim, Goto
  <2>5. CASE LaunchRetry(l)
    <3>0. \A k \in Launches : pc'[k] \in {"wait", "failed"} => registered'[k] = CurrentPid(k)'
      BY <2>5 DEF LaunchRetry, Goto
    <3>1. ASSUME NEW k \in Launches, registered'[k] # NoPid
          PROVE  /\ registered'[k] = <<k, registered'[k][2]>>
                 /\ registered'[k][2] <= crashes'[k]
                 /\ pc'[k] \in Unclaimed => registered'[k][2] < crashes'[k]
      <4>1. registered[k] \in Pid /\ registered[k][2] \in Nat
        BY <2>5, <3>1, ConstantsAssumption DEF LaunchRetry, Pid
      <4>2. QED
        BY <2>5, <3>1, <4>1, ConstantsAssumption DEF LaunchRetry, Goto
    <3>2. QED
      BY <3>0, <3>1
  <2>6. QED
    BY <1>2, <2>1, <2>2, <2>3, <2>4, <2>5 DEF LaunchServer
<1>3. ASSUME NEW l \in Launches, ProcessExit(l) PROVE RegistrationInv'
  BY <1>0, <1>3 DEF ProcessExit
<1>4. ASSUME NEW s \in Stoppers, NEW name, StopModel(s, name) PROVE RegistrationInv'
  BY <1>0, <1>4 DEF StopModel, launchVars
<1>5. ASSUME NEW s \in Stoppers, StopStep(s) PROVE RegistrationInv'
  BY <1>0, <1>5 DEF StopStep, StopCancel, StopKill, StopClear, launchVars
<1>6. ASSUME NEW c \in ConfigSets, ReloadConfigs(c) PROVE RegistrationInv'
  BY <1>0, <1>6 DEF ReloadConfigs, launchVars
<1>7. CASE GetCurrentServer
  BY <1>0, <1>7 DEF GetCurrentServer, launchVars
<1>8. CASE UNCHANGED vars
  BY <1>0, <1>8 DEF vars, launchVars
<1>9. QED
  BY <1>1, <1>2, <1>3, <1>4, <1>5, <1>6, <1>7, <1>8 DEF Next

\* A pid that has been registered stays so.
LEMMA ServedGrows ==
    TypeOK /\ RegistrationInv /\ [Next]_vars => Served \subseteq Served'
<1> SUFFICES ASSUME TypeOK, RegistrationInv, [Next]_vars, NEW p \in Served PROVE p \in Served'
  OBVIOUS
<1>t. /\ p \in Pid /\ p[1] \in Launches /\ p[2] \in Nat /\ crashes[p[1]] \in Nat
      /\ p[2] < crashes[p[1]] \/ p = registered[p[1]]
  BY ConstantsAssumption DEF Served, Pid, TypeOK
<1>0. CASE UNCHANGED <<registered, crashes>>
  BY <1>0 DEF Served
<1>1. ASSUME NEW l \in Launches, LaunchClaim(l) PROVE p \in Served'
  <2>1. CASE p = registered[l] /\ p[1] = l
    <3>1. p[2] < crashes[l] /\ UNCHANGED crashes
      BY <1>t, <1>1, <2>1, ConstantsAssumption DEF LaunchClaim, Goto, RegistrationInv, Unclaimed
    <3>2. QED
      BY <1>t, <2>1, <3>1 DEF Served
  <2>2. CASE p[2] < crashes[p[1]]
    BY <1>t, <1>1, <2>2 DEF LaunchClaim, Served
  <2>3. CASE p[1] # l
    BY <1>t, <1>1, <2>3 DEF LaunchClaim, Served, TypeOK
  <2>4. QED
    BY <1>t, <2>1, <2>2, <2>3
<1>2. ASSUME NEW l \in Launches, LaunchRetry(l) PROVE p \in Served'
  BY <1>t, <1>2 DEF LaunchRetry, Served, TypeOK
<1>3. ASSUME NEW l \in Launches, LaunchServer(l), ~LaunchClaim(l), ~LaunchRetry(l)
      PROVE  UNCHANGED <<registered, crashes>>
  BY <1>3 DEF LaunchServer, LaunchEntry, LaunchTop, LaunchStart, LaunchStarted,
              LaunchKillOrphan, LaunchWait, LaunchGiveUp, LaunchMark, LaunchClear
<1>4. ASSUME NEW l \in Launches, StartModel(l) \/ ProcessExit(l)
      PROVE  UNCHANGED <<registered, crashes>>
  BY <1>4 DEF StartModel, ProcessExit
<1>5. ASSUME NEW s \in Stoppers, NEW name, StopModel(s, name) \/ StopStep(s)
      PROVE  UNCHANGED <<registered, crashes>>
  BY <1>5 DEF StopModel, StopStep, StopCancel, StopKill, StopClear, launchVars
<1>6. ASSUME NEW c, ReloadConfigs(c) \/ GetCurrentServer \/ UNCHANGED vars
      PROVE  UNCHANGED <<registered, crashes>>
  BY <1>6 DEF ReloadConfigs, GetCurrentServer, vars, launchVars
<1>7. QED
  BY <1>0, <1>1, <1>2, <1>3, <1>4, <1>5, <1>6 DEF Next

\* A process that is gone does not come back.
LEMMA GoneGrows == TypeOK /\ ProcInv /\ [Next]_vars => Gone \subseteq Gone'
<1> SUFFICES ASSUME TypeOK, ProcInv, [Next]_vars, NEW p \in Gone PROVE p \in Gone'
  OBVIOUS
<1> DEFINE k == p[1]
<1>0. /\ p \in Pid /\ k \in Launches /\ p[2] \in Nat /\ crashes[k] \in Nat
      /\ p[2] < crashes[k] \/ (p[2] = crashes[k] /\ proc[k] \notin {"none", "alive"})
  BY ConstantsAssumption DEF Gone, Pid, TypeOK
<1> HIDE DEF k
<1>1. ASSUME crashes'[k] = crashes[k],
             proc[k] \in {"none", "alive"} \/ proc'[k] \notin {"none", "alive"}
      PROVE  p \in Gone'
  BY <1>0, <1>1 DEF Gone, k
<1>2. ASSUME NEW l \in Launches, StartModel(l) \/ ProcessExit(l) PROVE p \in Gone'
  BY <1>0, <1>1, <1>2 DEF StartModel, ProcessExit, TypeOK
<1>3. ASSUME NEW l \in Launches, LaunchServer(l) PROVE p \in Gone'
  <2>1. CASE LaunchEntry(l) \/ LaunchTop(l) \/ LaunchStarted(l) \/ LaunchClaim(l) \/ LaunchGiveUp(l)
    BY <1>1, <2>1 DEF LaunchEntry, LaunchTop, LaunchStarted, LaunchClaim, LaunchGiveUp
  <2>2. CASE LaunchMark(l) \/ LaunchClear(l)
    BY <1>1, <2>2 DEF LaunchMark, LaunchClear
  <2>3. CASE LaunchStart(l)
    BY <1>0, <1>1, <2>3 DEF LaunchStart, Goto, ProcInv, TypeOK
  <2>4. CASE LaunchKillOrphan(l)
    BY <1>0, <1>1, <2>4 DEF LaunchKillOrphan, KillProcessGroup, TypeOK
  <2>5. CASE LaunchWait(l)
    BY <1>0, <1>1, <2>5 DEF LaunchWait, TypeOK
  <2>6. CASE LaunchRetry(l)
    <3>1. CASE k = l
      <4>1. crashes'[k] = crashes[k] + 1
        BY <1>0, <2>6, <3>1 DEF LaunchRetry, TypeOK
      <4>2. QED
        BY <1>0, <4>1 DEF Gone, k
    <3>2. CASE k # l
      BY <1>0, <1>1, <2>6, <3>2 DEF LaunchRetry, TypeOK
    <3>3. QED
      BY <3>1, <3>2
  <2>7. QED
    BY <1>3, <2>1, <2>2, <2>3, <2>4, <2>5, <2>6 DEF LaunchServer
<1>4. ASSUME NEW s \in Stoppers, NEW name, StopModel(s, name) \/ StopStep(s) PROVE p \in Gone'
  <2>1. CASE StopKill(s)
    BY <1>0, <1>1, <2>1 DEF StopKill, KillProcessGroup, TypeOK
  <2>2. CASE ~StopKill(s)
    BY <1>1, <1>4, <2>2 DEF StopModel, StopStep, StopCancel, StopClear, launchVars
  <2>3. QED
    BY <2>1, <2>2
<1>5. ASSUME NEW c, ReloadConfigs(c) \/ GetCurrentServer \/ UNCHANGED vars PROVE p \in Gone'
  BY <1>1, <1>5 DEF ReloadConfigs, GetCurrentServer, vars, launchVars
<1>6. QED
  BY <1>2, <1>3, <1>4, <1>5 DEF Next

-----------------------------------------------------------------------------
(* The inductive invariant.                                                *)

LEMMA IInvInit == ASSUME Init PROVE IInv
<1>1. TypeOK
  BY TypeInit
<1>2. RegistrationInv /\ ClaimedInv
  BY DEF Init, RegistrationInv, ClaimedInv, CurrentPid
<1>3. ProcInv
  BY ConstantsAssumption, <1>1, CurrentPidType DEF Init, ProcInv
<1>4. StopInv
  BY DEF Init, StopInv
<1>5. QED
  BY <1>1, <1>2, <1>3, <1>4 DEF IInv

\* Whoever clears the slot of a pid that is not alive loses no process.
LEMMA ClearStep ==
    ASSUME IInv, NEW p, ClearServerStateIfPIDMatches(p),
           UNCHANGED <<crashes, registered, proc>>,
           \A l \in Launches : p = CurrentPid(l) => proc[l] # "alive",
           NEW l \in Launches, proc[l] = "alive", pc[l] = "wait", Holds(CurrentPid(l))
    PROVE  Holds(CurrentPid(l))'
BY DEF ClearServerStateIfPIDMatches, Holds, CurrentPid

\* A change of status leaves the record and its pid in place.
LEMMA StatusStep ==
    ASSUME TypeOK, server # NoServer, NEW st \in Status,
           server' = [server EXCEPT !.status = st]
    PROVE  server' # NoServer /\ server'.pid = server.pid
<1>1. server' \in Server
  BY DEF TypeOK, Server
<1>2. QED
  BY <1>1, ConstantsAssumption DEF TypeOK, Server

LEMMA ProcStep == IInv /\ [Next]_vars => ProcInv'
<1> SUFFICES ASSUME IInv, [Next]_vars PROVE ProcInv'
  OBVIOUS
<1>t. TypeOK /\ RegistrationInv /\ ProcInv /\ ClaimedInv /\ StopInv
  BY DEF IInv
<1>0. ASSUME UNCHANGED <<pc, crashes, registered, proc>>,
             \A l \in Launches : proc[l] = "alive" /\ pc[l] = "wait" /\ Holds(CurrentPid(l))
                                => Holds(CurrentPid(l))'
      PROVE  ProcInv'
  BY <1>t, <1>0 DEF ProcInv, CurrentPid
<1>1. ASSUME NEW l \in Launches, StartModel(l) PROVE ProcInv'
  BY <1>t, <1>1 DEF StartModel, ProcInv, TypeOK, Holds, CurrentPid
<1>2. ASSUME NEW l \in Launches, LaunchServer(l) PROVE ProcInv'
  <2>1. CASE LaunchEntry(l)
    <3>1. ASSUME NEW k \in Launches, Holds(CurrentPid(k)) PROVE Holds(CurrentPid(k))'
      BY <1>t, <2>1, <3>1, StatusStep DEF LaunchEntry, Holds, CurrentPid, Status
    <3>2. QED
      BY <1>t, <2>1, <3>1 DEF LaunchEntry, Goto, ProcInv, TypeOK, CurrentPid
  <2>2. CASE LaunchTop(l) \/ LaunchStarted(l) \/ LaunchGiveUp(l)
    BY <1>t, <2>2 DEF LaunchTop, LaunchStarted, LaunchGiveUp, Goto, ProcInv, TypeOK, Holds, CurrentPid
  <2>3. CASE LaunchStart(l)
    <3>1. registered[l] # CurrentPid(l)
      BY <1>t, <2>3, ConstantsAssumption, CurrentPidType
         DEF LaunchStart, Goto, RegistrationInv, Unclaimed, TypeOK
    <3>2. QED
      BY <1>t, <2>3, <3>1 DEF LaunchStart, Goto, ProcInv, TypeOK, Holds, CurrentPid
  <2>4. CASE LaunchKillOrphan(l)
    BY <1>t, <2>4, CurrentPidType
       DEF LaunchKillOrphan, KillProcessGroup, Goto, ProcInv, TypeOK, Holds, CurrentPid
  <2>5. CASE LaunchClaim(l)
    <3>1. CASE MayClaim(l)
      <4>1. ASSUME NEW k \in Launches, k # l, proc[k] = "alive", pc[k] = "wait"
            PROVE  ~MayClaim(l)
        <5>1. server # NoServer /\ server.pid = CurrentPid(k) /\ CurrentPid(k)[1] = k
          BY <1>t, <4>1, CurrentPidType DEF ProcInv, Holds
        <5>2. server.pid # NoPid
          BY <1>t, <5>1, CurrentPidType, ConstantsAssumption
        <5>3. server.pid # registered[l]
          BY <1>t, <4>1, <5>1, <5>2 DEF RegistrationInv
        <5>4. QED
          BY <5>1, <5>2, <5>3 DEF MayClaim
      <4>2. /\ server'.pid = CurrentPid(l) /\ server' # NoServer
            /\ registered' = [registered EXCEPT ![l] = CurrentPid(l)]
        <5>1. server \in Server /\ CurrentPid(l) \in Pid
          BY <1>t, <3>1, CurrentPidType DEF MayClaim, TypeOK
        <5>2. server' = [server EXCEPT !.pid = CurrentPid(l), !.status = "running"]
          BY <2>5, <3>1 DEF LaunchClaim
        <5>3. server' \in Server /\ server'.pid = CurrentPid(l)
          BY <5>1, <5>2 DEF Server, Status
        <5>4. QED
          BY <2>5, <3>1, <5>3, ConstantsAssumption DEF LaunchClaim
      <4>3. QED
        BY <1>t, <2>5, <3>1, <4>1, <4>2 DEF LaunchClaim, Goto, ProcInv, TypeOK, Holds, CurrentPid
    <3>2. CASE ~MayClaim(l)
      BY <1>t, <2>5, <3>2 DEF LaunchClaim, Goto, ProcInv, TypeOK, Holds, CurrentPid
    <3>3. QED
      BY <3>1, <3>2
  <2>6. CASE LaunchWait(l)
    BY <1>t, <2>6 DEF LaunchWait, Goto, ProcInv, TypeOK, Holds, CurrentPid
  <2>7. CASE LaunchRetry(l)
    <3>1. registered[l] = NoPid \/ registered[l][2] <= crashes[l]
      BY <1>t DEF RegistrationInv
    <3>2. registered'[l] # CurrentPid(l)'
      <4>1. crashes[l] \in Nat /\ crashes'[l] = crashes[l] + 1 /\ crashes'[l] \in 0 .. MaxRetries
        BY <1>t, <2>7, ConstantsAssumption DEF LaunchRetry, TypeOK
      <4>2. CurrentPid(l)' = <<l, crashes[l] + 1>> /\ CurrentPid(l)' \in Pid
        BY <4>1 DEF CurrentPid, Pid
      <4>3. registered[l] # <<l, crashes[l] + 1>>
        BY <3>1, <4>1, <4>2, ConstantsAssumption
      <4>4. QED
        BY <2>7, <4>2, <4>3 DEF LaunchRetry
    <3>3. QED
      BY <1>t, <2>7, <3>2 DEF LaunchRetry, Goto, ProcInv, TypeOK, Holds, CurrentPid
  <2>8. CASE LaunchMark(l)
    <3>1. ASSUME NEW k \in Launches, Holds(CurrentPid(k)) PROVE Holds(CurrentPid(k))'
      BY <1>t, <2>8, <3>1, StatusStep DEF LaunchMark, Holds, CurrentPid, Status
    <3>2. QED
      BY <1>t, <2>8, <3>1 DEF LaunchMark, Goto, ProcInv, TypeOK, CurrentPid
  <2>9. CASE LaunchClear(l)
    <3>1. PICK p : ClearServerStateIfPIDMatches(p) /\ p \in {registered[l], CurrentPid(l)}
      BY <2>9 DEF LaunchClear
    <3>2. proc[l] # "alive"
      BY <1>t, <2>9 DEF LaunchClear, Goto, ProcInv
    <3>3. ASSUME NEW k \in Launches, p = CurrentPid(k) PROVE k = l
      <4>1. CurrentPid(k) \in Pid /\ CurrentPid(k)[1] = k /\ CurrentPid(l)[1] = l
        BY <1>t, CurrentPidType
      <4>2. QED
        BY <1>t, <3>1, <3>3, <4>1, ConstantsAssumption DEF RegistrationInv
    <3>4. ASSUME NEW k \in Launches, proc[k] = "alive", pc[k] = "wait", Holds(CurrentPid(k))
          PROVE  Holds(CurrentPid(k))'
      BY <2>9, <3>1, <3>2, <3>3, <3>4, ClearStep DEF LaunchClear
    <3>5. QED
      BY <1>t, <2>9, <3>4 DEF LaunchClear, Goto, ProcInv, TypeOK, CurrentPid
  <2>10. QED
    BY <1>2, <2>1, <2>2, <2>3, <2>4, <2>5, <2>6, <2>7, <2>8, <2>9 DEF LaunchServer
<1>3. ASSUME NEW l \in Launches, ProcessExit(l) PROVE ProcInv'
  BY <1>t, <1>3 DEF ProcessExit, ProcInv, TypeOK, Holds, CurrentPid
<1>4. ASSUME NEW s \in Stoppers, NEW name, StopModel(s, name) PROVE ProcInv'
  BY <1>0, <1>t, <1>4, StatusStep DEF StopModel, launchVars, Holds, CurrentPid, Status
<1>5. ASSUME NEW s \in Stoppers, StopStep(s) PROVE ProcInv'
  <2>1. CASE StopCancel(s)
    BY <1>0, <2>1 DEF StopCancel, launchVars, Holds, CurrentPid
  <2>2. CASE StopKill(s)
    <3>1. stopPid[s] \in Pid
      BY <1>t, <2>2 DEF StopKill, StopInv, TypeOK
    <3>2. QED
      BY <1>t, <2>2, <3>1, PidShape DEF StopKill, KillProcessGroup, ProcInv, TypeOK, Holds, CurrentPid
  <2>3. CASE StopClear(s)
    <3>1. ASSUME NEW l \in Launches, stopPid[s] = CurrentPid(l) PROVE proc[l] # "alive"
      BY <1>t, <2>3, <3>1, CurrentPidType, ConstantsAssumption DEF StopClear, StopInv, Gone, TypeOK
    <3>2. QED
      BY <1>0, <2>3, <3>1, ClearStep DEF StopClear, launchVars
  <2>4. QED
    BY <1>5, <2>1, <2>2, <2>3 DEF StopStep
<1>6. ASSUME NEW c \in ConfigSets, ReloadConfigs(c) PROVE ProcInv'
  BY <1>0, <1>6 DEF ReloadConfigs, launchVars, Holds, CurrentPid
<1>7. CASE GetCurrentServer
  BY <1>0, <1>t, <1>7, CurrentPidType DEF GetCurrentServer, ProcessLost, launchVars, Holds, IsProcessAlive
<1>8. CASE UNCHANGED vars
  BY <1>0, <1>8 DEF vars, launchVars, Holds, CurrentPid
<1>9. QED
  BY <1>1, <1>2, <1>3, <1>4, <1>5, <1>6, <1>7, <1>8 DEF Next

\* The pid a launcher registers is in Served from then on.
LEMMA ClaimServes ==
    ASSUME TypeOK, NEW l \in Launches, LaunchClaim(l), MayClaim(l)
    PROVE  CurrentPid(l) \in Served' /\ server' # NoServer /\ server'.pid = CurrentPid(l)
<1>1. CurrentPid(l) \in Pid /\ CurrentPid(l)[1] = l /\ CurrentPid(l)[2] = crashes[l]
  BY CurrentPidType
<1>2. registered'[l] = CurrentPid(l) /\ crashes[l] \in Nat
  BY ConstantsAssumption DEF LaunchClaim, TypeOK
<1>3. server \in Server /\ server' = [server EXCEPT !.pid = CurrentPid(l), !.status = "running"]
  BY DEF LaunchClaim, MayClaim, TypeOK
<1>4. server' \in Server /\ server'.pid = CurrentPid(l)
  BY <1>1, <1>3 DEF Server, Status
<1>5. QED
  BY <1>1, <1>2, <1>4, ConstantsAssumption DEF Served

LEMMA SlotClaimedStep ==
    ASSUME IInv, [Next]_vars, server' # NoServer
    PROVE  server'.pid \in Served' \cup {NoPid}
<1>t. TypeOK /\ Served \subseteq Served' /\ (server # NoServer => server.pid \in Served \cup {NoPid})
  BY ServedGrows DEF IInv, ClaimedInv
<1>0. ASSUME server # NoServer, server'.pid = server.pid PROVE server'.pid \in Served' \cup {NoPid}
  BY <1>t, <1>0
<1>1. ASSUME NEW l \in Launches, StartModel(l) PROVE server'.pid = NoPid
  BY <1>1 DEF StartModel
<1>2. ASSUME NEW l \in Launches, LaunchServer(l) PROVE server'.pid \in Served' \cup {NoPid}
  <2>1. CASE LaunchEntry(l) \/ LaunchMark(l)
    BY <1>0, <1>t, <2>1, StatusStep DEF LaunchEntry, LaunchMark, Status
  <2>2. CASE LaunchClaim(l)
    BY <1>0, <1>t, <2>2, ClaimServes DEF LaunchClaim
  <2>3. CASE LaunchClear(l)
    BY <1>0, <2>3 DEF LaunchClear, ClearServerStateIfPIDMatches
  <2>4. CASE UNCHANGED server
    BY <1>0, <2>4
  <2>5. QED
    BY <1>2, <2>1, <2>2, <2>3, <2>4
       DEF LaunchServer, LaunchTop, LaunchStart, LaunchStarted, LaunchKillOrphan,
           LaunchWait, LaunchGiveUp, LaunchRetry
<1>3. ASSUME NEW l \in Launches, ProcessExit(l) PROVE UNCHANGED server
  BY <1>3 DEF ProcessExit
<1>4. ASSUME NEW s \in Stoppers, NEW name, StopModel(s, name)
      PROVE  server # NoServer /\ server'.pid = server.pid
  BY <1>t, <1>4, StatusStep DEF StopModel, Status
<1>5. ASSUME NEW s \in Stoppers, StopStep(s) PROVE UNCHANGED server
  BY <1>5 DEF StopStep, StopCancel, StopKill, StopClear, ClearServerStateIfPIDMatches
<1>6. ASSUME NEW c, ReloadConfigs(c) \/ GetCurrentServer \/ UNCHANGED vars PROVE UNCHANGED server
  BY <1>6 DEF ReloadConfigs, GetCurrentServer, vars
<1>7. QED
  BY <1>0, <1>1, <1>2, <1>3, <1>4, <1>5, <1>6 DEF Next

LEMMA StopClaimedStep ==
    ASSUME IInv, [Next]_vars, NEW t \in Stoppers
    PROVE  stopPid'[t] \in Served' \cup {NoPid}
<1>t. TypeOK /\ ClaimedInv /\ Served \subseteq Served'
  BY ServedGrows DEF IInv
<1>0. stopPid[t] \in Served' \cup {NoPid} /\ (server # NoServer => server.pid \in Served' \cup {NoPid})
  BY <1>t DEF ClaimedInv
<1>1. ASSUME NEW l \in Launches, StartModel(l) \/ LaunchServer(l) \/ ProcessExit(l)
      PROVE  UNCHANGED stopPid
  BY <1>1 DEF StartModel, ProcessExit, LaunchServer, LaunchEntry, LaunchTop, LaunchStart,
              LaunchStarted, LaunchClaim, LaunchKillOrphan, LaunchWait, LaunchGiveUp,
              LaunchRetry, LaunchMark, LaunchClear, stopVars
<1>2. ASSUME NEW s \in Stoppers, NEW name, StopModel(s, name)
      PROVE  server # NoServer /\ stopPid'[t] \in {stopPid[t], server.pid}
  BY <1>t, <1>2 DEF StopModel, TypeOK
<1>3. ASSUME NEW s \in Stoppers, StopStep(s) PROVE stopPid'[t] \in {stopPid[t], NoPid}
  BY <1>t, <1>3 DEF StopStep, StopCancel, StopKill, StopClear, TypeOK
<1>4. ASSUME NEW c, ReloadConfigs(c) \/ GetCurrentServer \/ UNCHANGED vars PROVE UNCHANGED stopPid
  BY <1>4 DEF ReloadConfigs, GetCurrentServer, vars, stopVars
<1>5. CASE UNCHANGED stopPid
  BY <1>0, <1>5
<1>6. QED
  BY <1>0, <1>1, <1>2, <1>3, <1>4, <1>5 DEF Next

LEMMA ClaimedStep == IInv /\ [Next]_vars => ClaimedInv'
BY SlotClaimedStep, StopClaimedStep DEF ClaimedInv

\* A registered process that is not alive is gone.
LEMMA ServedGone ==
    ASSUME IInv, NEW p \in Served, p = CurrentPid(p[1]) => proc[p[1]] # "alive"
    PROVE  p \in Gone
<1>1. p \in Pid /\ p = <<p[1], p[2]>> /\ p[1] \in Launches /\ p[2] \in Nat
  BY PidShape, ConstantsAssumption DEF Served
<1>2. CASE p[2] < crashes[p[1]]
  BY <1>1, <1>2 DEF Gone
<1>3. CASE p = registered[p[1]] /\ ~(p[2] < crashes[p[1]])
  <2>1. p[2] <= crashes[p[1]] /\ crashes[p[1]] \in Nat
    BY <1>1, <1>3, ConstantsAssumption DEF IInv, RegistrationInv, TypeOK
  <2>2. p[2] = crashes[p[1]] /\ p = CurrentPid(p[1])
    BY <1>1, <1>3, <2>1 DEF CurrentPid
  <2>3. proc[p[1]] \notin {"none", "alive"}
    BY <1>1, <1>3, <2>2 DEF IInv, ProcInv
  <2>4. QED
    BY <1>1, <2>2, <2>3 DEF Gone
<1>4. QED
  BY <1>2, <1>3 DEF Served

\* After kill(-pid, SIGKILL) a registered pid is gone, whether it was alive or not.
LEMMA KillRetires ==
    ASSUME IInv, NEW p \in Served, KillProcessGroup(p), UNCHANGED crashes
    PROVE  p \in Gone'
<1>1. p \in Pid /\ p = <<p[1], p[2]>> /\ p[1] \in Launches
  BY PidShape DEF Served
<1>2. CASE p = CurrentPid(p[1]) /\ proc[p[1]] = "alive"
  <2>1. p[2] = crashes'[p[1]] /\ proc'[p[1]] = "dying"
    BY <1>1, <1>2 DEF KillProcessGroup, CurrentPid, IInv, TypeOK
  <2>2. QED
    BY <1>1, <2>1 DEF Gone
<1>3. CASE ~(p = CurrentPid(p[1]) /\ proc[p[1]] = "alive")
  <2>1. p \in Gone
    BY <1>3, ServedGone
  <2>2. UNCHANGED <<crashes, proc>>
    BY <1>3 DEF KillProcessGroup
  <2>3. QED
    BY <2>1, <2>2 DEF Gone
<1>4. QED
  BY <1>2, <1>3

LEMMA StopInvStep == IInv /\ [Next]_vars => StopInv'
<1> SUFFICES ASSUME IInv, [Next]_vars, NEW t \in Stoppers
             PROVE  /\ stopPc'[t] = "kill" => stopPid'[t] # NoPid
                    /\ stopPc'[t] = "clear" /\ stopPid'[t] # NoPid => stopPid'[t] \in Gone'
  BY DEF StopInv
<1>t. TypeOK /\ StopInv /\ Gone \subseteq Gone'
  BY GoneGrows DEF IInv
<1>0. CASE stopPc'[t] = stopPc[t] /\ stopPid'[t] = stopPid[t]
  BY <1>t, <1>0 DEF StopInv
<1>1. ASSUME NEW l \in Launches, StartModel(l) \/ ProcessExit(l) \/ LaunchServer(l)
      PROVE  UNCHANGED stopVars
  BY <1>1 DEF StartModel, ProcessExit, LaunchServer, LaunchEntry, LaunchTop, LaunchStart,
              LaunchStarted, LaunchClaim, LaunchKillOrphan, LaunchWait, LaunchGiveUp,
              LaunchRetry, LaunchMark, LaunchClear
<1>2. ASSUME NEW s \in Stoppers, NEW name, StopModel(s, name)
      PROVE  s # t \/ stopPc'[t] = "cancel"
  BY <1>t, <1>2 DEF StopModel, TypeOK
<1>3. ASSUME NEW s \in Stoppers, NEW name, StopModel(s, name) \/ StopStep(s), s # t
      PROVE  stopPc'[t] = stopPc[t] /\ stopPid'[t] = stopPid[t]
  BY <1>t, <1>3 DEF StopModel, StopStep, StopCancel, StopKill, StopClear, TypeOK
<1>4. CASE StopCancel(t)
  BY <1>t, <1>4 DEF StopCancel, TypeOK
<1>5. CASE StopKill(t)
  <2>1. stopPid[t] # NoPid /\ stopPid[t] \in Served
    BY <1>5 DEF StopKill, IInv, StopInv, ClaimedInv
  <2>2. stopPid[t] \in Gone'
    BY <1>5, <2>1, KillRetires DEF StopKill
  <2>3. QED
    BY <1>t, <1>5, <2>2 DEF StopKill, TypeOK
<1>6. CASE StopClear(t)
  BY <1>t, <1>6 DEF StopClear, TypeOK
<1>7. ASSUME NEW c, ReloadConfigs(c) \/ GetCurrentServer \/ UNCHANGED vars PROVE UNCHANGED stopVars
  BY <1>7 DEF ReloadConfigs, GetCurrentServer, vars
<1>8. QED
  BY <1>0, <1>1, <1>2, <1>3, <1>4, <1>5, <1>6, <1>7 DEF Next, StopStep, stopVars

LEMMA IInvStep == IInv /\ [Next]_vars => IInv'
BY TypeStep, RegistrationStep, ProcStep, ClaimedStep, StopInvStep DEF IInv

THEOREM IInvCorrect == Spec => []IInv
BY IInvInit, IInvStep, PTL DEF Spec

\* No live llama-server is ever lost to the manager (manager.go:244-274, 507).
THEOREM NoOrphanCorrect == Spec => []NoOrphan
<1>1. IInv => NoOrphan
  BY DEF IInv, ProcInv, NoOrphan
<1>2. QED
  BY <1>1, IInvCorrect, PTL

-----------------------------------------------------------------------------
(* Contexts.                                                               *)

LEMMA OneLiveContextStep ==
    TypeOK /\ OneLiveContext /\ [Next]_vars => OneLiveContext'
<1> SUFFICES ASSUME TypeOK, OneLiveContext, [Next]_vars PROVE OneLiveContext'
  OBVIOUS
<1>0. ASSUME UNCHANGED cancelFunc, cancelled \subseteq cancelled',
             \A l \in Launches : pc'[l] \in {"idle", "done"} \/ pc[l] \notin {"idle", "done"}
      PROVE  OneLiveContext'
  BY <1>0 DEF OneLiveContext
<1>1. ASSUME NEW l \in Launches, StartModel(l) PROVE OneLiveContext'
  BY <1>1 DEF StartModel, OneLiveContext, TypeOK
<1>2. ASSUME NEW l \in Launches, LaunchServer(l) PROVE OneLiveContext'
  BY <1>0, <1>2 DEF LaunchServer, LaunchEntry, LaunchTop, LaunchStart, LaunchStarted,
                    LaunchKillOrphan, LaunchClaim, LaunchWait, LaunchGiveUp, LaunchRetry,
                    LaunchMark, LaunchClear, Goto, TypeOK
<1>3. ASSUME NEW l \in Launches, ProcessExit(l) PROVE OneLiveContext'
  BY <1>0, <1>3 DEF ProcessExit
<1>4. ASSUME NEW s \in Stoppers, NEW name, StopModel(s, name) \/ StopStep(s) PROVE OneLiveContext'
  BY <1>0, <1>4 DEF StopModel, StopStep, StopCancel, StopKill, StopClear, launchVars
<1>5. ASSUME NEW c, ReloadConfigs(c) \/ GetCurrentServer \/ UNCHANGED vars PROVE OneLiveContext'
  BY <1>0, <1>5 DEF ReloadConfigs, GetCurrentServer, vars, launchVars
<1>6. QED
  BY <1>1, <1>2, <1>3, <1>4, <1>5 DEF Next

\* At most one accepted start can still spawn or restart a process
\* (manager.go:114-119).
THEOREM OneLiveContextCorrect == Spec => []OneLiveContext
<1>1. Init => OneLiveContext
  BY DEF Init, OneLiveContext
<1>2. QED
  BY <1>1, OneLiveContextStep, TypeCorrect, PTL DEF Spec

-----------------------------------------------------------------------------
(* Refinement: ServerManager implements ServingSlot.                       *)

LEMMA SlotInit == ASSUME Init PROVE Slot!Init
<1>1. Serving = NoPid
  BY DEF Init, Serving
<1>2. Served = {}
  BY ConstantsAssumption DEF Init, Served, Pid
<1>3. Gone = {}
  BY ConstantsAssumption DEF Init, Gone, Pid
<1>4. QED
  BY <1>1, <1>2, <1>3 DEF Slot!Init

LEMMA ServedSame == ASSUME UNCHANGED <<crashes, registered>> PROVE UNCHANGED Served
BY DEF Served

LEMMA GoneSame == ASSUME UNCHANGED <<crashes, proc>> PROVE UNCHANGED Gone
BY DEF Gone

LEMMA GoneKept ==
    ASSUME TypeOK, NEW l \in Launches, NEW st, proc' = [proc EXCEPT ![l] = st], UNCHANGED crashes,
           proc[l] \in {"none", "alive"} <=> st \in {"none", "alive"}
    PROVE  UNCHANGED Gone
<1>1. ASSUME NEW p \in Pid PROVE p \in Gone' <=> p \in Gone
  <2>1. p[1] \in Launches
    BY PidShape
  <2>2. proc'[p[1]] \in {"none", "alive"} <=> proc[p[1]] \in {"none", "alive"}
    BY <2>1 DEF TypeOK
  <2>3. QED
    BY <2>2 DEF Gone
<1>2. QED
  BY <1>1 DEF Gone

\* A change of a live or dead process maps to Go or to a stutter.
LEMMA ProcChange ==
    ASSUME IInv, NEW l \in Launches, NEW st \in {"dying", "exited", "crashed"},
           proc[l] = "alive", proc' = [proc EXCEPT ![l] = st],
           UNCHANGED <<server, crashes, registered>>
    PROVE  \E p \in Pid : Slot!Go(p)
<1>1. CurrentPid(l) \in Pid /\ CurrentPid(l)[1] = l /\ CurrentPid(l)[2] = crashes[l]
  BY CurrentPidType DEF IInv
<1>2. Gone' = Gone \cup {CurrentPid(l)}
  <2>1. ASSUME NEW p \in Pid PROVE p \in Gone' <=> p \in Gone \/ p = CurrentPid(l)
    <3>1. p = <<p[1], p[2]>> /\ p[1] \in Launches
      BY PidShape
    <3>2. CASE p[1] = l
      BY <1>1, <3>1, <3>2 DEF Gone, IInv, TypeOK, CurrentPid
    <3>3. CASE p[1] # l
      BY <1>1, <3>1, <3>3 DEF Gone, IInv, TypeOK
    <3>4. QED
      BY <3>2, <3>3
  <2>2. QED
    BY <1>1, <2>1 DEF Gone
<1>3. UNCHANGED <<Serving, Served>>
  BY ServedSame DEF Serving
<1>4. QED
  BY <1>1, <1>2, <1>3 DEF Slot!Go

\* Clearing the slot of a registered process that is gone maps to Release.
LEMMA ClearRelease ==
    ASSUME IInv, NEW p \in Served \cup {NoPid}, ClearServerStateIfPIDMatches(p),
           p # NoPid => p \in Gone, UNCHANGED launchVars
    PROVE  Slot!Release \/ UNCHANGED <<Serving, Served, Gone>>
<1>1. UNCHANGED <<Served, Gone>>
  BY ServedSame, GoneSame DEF launchVars
<1>2. CASE UNCHANGED server
  BY <1>1, <1>2 DEF Serving
<1>3. CASE server # NoServer /\ server.pid = p /\ server' = NoServer
  BY <1>1, <1>3 DEF Serving, Slot!Release
<1>4. QED
  BY <1>2, <1>3 DEF ClearServerStateIfPIDMatches

\* A claim maps to Serve: what it replaces is NoPid or our own dead process.
LEMMA ClaimServe ==
    ASSUME IInv, NEW l \in Launches, LaunchClaim(l), MayClaim(l)
    PROVE  Slot!Serve(CurrentPid(l))
<1>t. TypeOK /\ RegistrationInv /\ ClaimedInv
  BY DEF IInv
<1>1. CurrentPid(l) \in Pid /\ CurrentPid(l)[1] = l /\ CurrentPid(l)[2] = crashes[l] /\ crashes[l] \in Nat
  BY <1>t, CurrentPidType, ConstantsAssumption DEF TypeOK
<1>2. registered[l] # NoPid => registered[l][2] < crashes[l]
  BY <1>t DEF LaunchClaim, Goto, RegistrationInv, Unclaimed
<1>3. Serving = NoPid \/ Serving \in Gone
  <2>1. CASE server.pid = NoPid
    BY <2>1 DEF MayClaim, Serving
  <2>2. CASE server.pid = registered[l] /\ registered[l] # NoPid
    <3>1. registered[l] \in Pid /\ registered[l][1] = l
      BY <1>t, <2>2 DEF RegistrationInv, TypeOK
    <3>2. registered[l] \in Gone
      BY <1>2, <2>2, <3>1 DEF Gone
    <3>3. QED
      BY <2>2, <3>2 DEF MayClaim, Serving
  <2>3. QED
    BY <2>1, <2>2 DEF MayClaim
<1>4. CurrentPid(l) \notin Served
  <2>1. registered[l] # CurrentPid(l)
    BY <1>1, <1>2, ConstantsAssumption
  <2>2. QED
    BY <1>1, <2>1 DEF Served
<1>5. Serving' = CurrentPid(l)
  BY <1>t, ClaimServes DEF Serving
<1>6. Served' = Served \cup {CurrentPid(l)}
  <2>1. ASSUME NEW p \in Pid PROVE p \in Served' <=> p \in Served \/ p = CurrentPid(l)
    <3>1. p = <<p[1], p[2]>> /\ p[1] \in Launches
      BY PidShape
    <3>2. registered' = [registered EXCEPT ![l] = CurrentPid(l)] /\ UNCHANGED crashes
      BY DEF LaunchClaim
    <3>3. CASE p[1] = l
      <4>1. p \in Served' <=> p[2] < crashes[l] \/ p = CurrentPid(l)
        BY <1>t, <3>2, <3>3 DEF Served, TypeOK
      <4>2. p = registered[l] => p[2] < crashes[l]
        BY <1>2, ConstantsAssumption
      <4>3. QED
        BY <3>3, <4>1, <4>2 DEF Served
    <3>4. CASE p[1] # l
      BY <1>t, <1>1, <3>1, <3>2, <3>4 DEF Served, TypeOK
    <3>5. QED
      BY <3>3, <3>4
  <2>2. QED
    BY <1>1, <2>1 DEF Served
<1>7. UNCHANGED Gone
  BY GoneSame DEF LaunchClaim
<1>8. QED
  BY <1>3, <1>4, <1>5, <1>6, <1>7 DEF Slot!Serve

\* A restart begins: the crashed process stays served and gone.
LEMMA RetryStutters ==
    ASSUME IInv, NEW l \in Launches, LaunchRetry(l)
    PROVE  UNCHANGED <<Serving, Served, Gone>>
<1>1. /\ registered[l] = CurrentPid(l) /\ proc[l] = "reaped"
      /\ crashes[l] \in Nat /\ crashes' = [crashes EXCEPT ![l] = crashes[l] + 1]
      /\ proc' = [proc EXCEPT ![l] = "none"] /\ UNCHANGED <<registered, server>>
      /\ crashes \in [Launches -> 0 .. MaxRetries] /\ proc \in [Launches -> ProcState]
  BY ConstantsAssumption DEF IInv, RegistrationInv, ProcInv, TypeOK, LaunchRetry, Goto
<1>2. ASSUME NEW p \in Pid
      PROVE  (p \in Served' <=> p \in Served) /\ (p \in Gone' <=> p \in Gone)
  <2>1. p = <<p[1], p[2]>> /\ p[1] \in Launches /\ p[2] \in Nat
    BY PidShape, ConstantsAssumption
  <2>2. CASE p[1] = l
    <3>1. p = registered[l] <=> p[2] = crashes[l]
      BY <1>1, <2>1, <2>2 DEF CurrentPid
    <3>2. crashes'[l] = crashes[l] + 1 /\ proc'[l] = "none" /\ registered'[l] = registered[l]
      BY <1>1
    <3>3. QED
      BY <1>1, <2>1, <2>2, <3>1, <3>2 DEF Served, Gone
  <2>3. CASE p[1] # l
    BY <1>1, <2>1, <2>3 DEF Served, Gone
  <2>4. QED
    BY <2>2, <2>3
<1>3. QED
  BY <1>1, <1>2 DEF Serving, Served, Gone

LEMMA SlotStep == IInv /\ [Next]_vars => [Slot!Next]_<<Serving, Served, Gone>>
<1> SUFFICES ASSUME IInv, [Next]_vars
             PROVE  Slot!Next \/ UNCHANGED <<Serving, Served, Gone>>
  OBVIOUS
<1>t. TypeOK /\ RegistrationInv /\ ProcInv /\ ClaimedInv /\ StopInv
  BY DEF IInv
<1>0. ASSUME Serving' = Serving, UNCHANGED launchVars PROVE UNCHANGED <<Serving, Served, Gone>>
  BY <1>0, ServedSame, GoneSame DEF launchVars
<1>1. ASSUME NEW l \in Launches, StartModel(l) PROVE UNCHANGED <<Serving, Served, Gone>>
  BY <1>1, ServedSame, GoneSame DEF StartModel, Serving
<1>2. ASSUME NEW l \in Launches, LaunchServer(l)
      PROVE  Slot!Next \/ UNCHANGED <<Serving, Served, Gone>>
  <2>1. CASE LaunchEntry(l) \/ LaunchMark(l)
    <3>1. Serving' = Serving
      <4>1. UNCHANGED server \/ (server # NoServer /\ server' = [server EXCEPT !.status = "starting"])
        BY <2>1 DEF LaunchEntry, LaunchMark
      <4>2. QED
        BY <1>t, <4>1, StatusStep DEF Serving, Status
    <3>2. QED
      BY <2>1, <3>1, ServedSame, GoneSame DEF LaunchEntry, LaunchMark
  <2>2. CASE LaunchTop(l) \/ LaunchStarted(l) \/ LaunchGiveUp(l)
    BY <2>2, ServedSame, GoneSame DEF LaunchTop, LaunchStarted, LaunchGiveUp, Serving
  <2>3. CASE LaunchStart(l) \/ LaunchWait(l)
    <3>1. Gone' = Gone
      <4>1. CASE UNCHANGED proc
        BY <2>3, <4>1, GoneSame DEF LaunchStart, LaunchWait
      <4>2. CASE proc[l] = "none" /\ proc' = [proc EXCEPT ![l] = "alive"]
        BY <1>t, <2>3, <4>2, GoneKept DEF LaunchStart, LaunchWait
      <4>3. CASE proc[l] \in {"exited", "crashed"} /\ proc' = [proc EXCEPT ![l] = "reaped"]
        BY <1>t, <2>3, <4>3, GoneKept DEF LaunchStart, LaunchWait
      <4>4. QED
        BY <1>t, <2>3, <4>1, <4>2, <4>3 DEF LaunchStart, LaunchWait, Goto, ProcInv
    <3>2. QED
      BY <2>3, <3>1, ServedSame DEF LaunchStart, LaunchWait, Serving
  <2>4. CASE LaunchKillOrphan(l)
    <3>0. CurrentPid(l) = CurrentPid(CurrentPid(l)[1]) /\ CurrentPid(l)[1] = l
      BY DEF CurrentPid
    <3>1. CASE proc[l] = "alive"
      <4>1. \E p \in Pid : Slot!Go(p)
        BY <2>4, <3>0, <3>1, ProcChange DEF LaunchKillOrphan, KillProcessGroup
      <4>2. QED
        BY <4>1 DEF Slot!Next
    <3>2. CASE proc[l] # "alive"
      BY <2>4, <3>0, <3>2, ServedSame, GoneSame DEF LaunchKillOrphan, KillProcessGroup, Serving
    <3>3. QED
      BY <3>1, <3>2
  <2>5. CASE LaunchClaim(l) /\ MayClaim(l)
    BY <1>t, <2>5, ClaimServe, CurrentPidType DEF Slot!Next
  <2>6. CASE LaunchClaim(l) /\ ~MayClaim(l)
    BY <2>6, ServedSame, GoneSame DEF LaunchClaim, Serving
  <2>7. CASE LaunchRetry(l)
    BY <2>7, RetryStutters
  <2>8. CASE LaunchClear(l)
    <3>1. PICK p \in {registered[l], CurrentPid(l)} : ClearServerStateIfPIDMatches(p)
      BY <2>8 DEF LaunchClear
    <3>2. CASE server # NoServer /\ server.pid = p /\ p # NoPid
      <4>1. p \in Served /\ proc[l] # "alive"
        BY <1>t, <2>8, <3>2 DEF ClaimedInv, ProcInv, LaunchClear, Goto
      <4>2. p[1] = l
        BY <1>t, <3>1, <3>2 DEF RegistrationInv, CurrentPid
      <4>3. p \in Gone
        BY <4>1, <4>2, ServedGone
      <4>4. Slot!Release
        <5>1. Serving = p /\ Serving' = NoPid
          BY <3>1, <3>2 DEF ClearServerStateIfPIDMatches, Serving
        <5>2. UNCHANGED <<Served, Gone>>
          BY <2>8, ServedSame, GoneSame DEF LaunchClear
        <5>3. QED
          BY <4>3, <5>1, <5>2 DEF Slot!Release
      <4>5. QED
        BY <4>4 DEF Slot!Next
    <3>3. CASE ~(server # NoServer /\ server.pid = p /\ p # NoPid)
      <4>1. Serving' = Serving
        BY <3>1, <3>3 DEF ClearServerStateIfPIDMatches, Serving
      <4>2. QED
        BY <2>8, <4>1, ServedSame, GoneSame DEF LaunchClear
    <3>4. QED
      BY <3>2, <3>3
  <2>9. QED
    BY <1>2, <2>1, <2>2, <2>3, <2>4, <2>5, <2>6, <2>7, <2>8 DEF LaunchServer
<1>3. ASSUME NEW l \in Launches, ProcessExit(l)
      PROVE  Slot!Next \/ UNCHANGED <<Serving, Served, Gone>>
  <2>1. CASE proc[l] = "alive"
    <3>1. \E p \in Pid : Slot!Go(p)
      BY <1>3, <2>1, ProcChange DEF ProcessExit
    <3>2. QED
      BY <3>1 DEF Slot!Next
  <2>2. CASE proc[l] = "dying"
    <3>1. Gone' = Gone
      BY <1>t, <1>3, <2>2 DEF ProcessExit, Gone, TypeOK
    <3>2. QED
      BY <1>3, <3>1, ServedSame DEF ProcessExit, Serving
  <2>3. QED
    BY <1>3, <2>1, <2>2 DEF ProcessExit
<1>4. ASSUME NEW s \in Stoppers, NEW name, StopModel(s, name)
      PROVE  UNCHANGED <<Serving, Served, Gone>>
  BY <1>0, <1>t, <1>4, StatusStep DEF StopModel, Serving, Status
<1>5. ASSUME NEW s \in Stoppers, StopStep(s)
      PROVE  Slot!Next \/ UNCHANGED <<Serving, Served, Gone>>
  <2>1. CASE StopCancel(s)
    BY <1>0, <2>1 DEF StopCancel, Serving
  <2>2. CASE StopKill(s)
    <3>0. stopPid[s] \in Pid /\ stopPid[s][1] \in Launches
      BY <1>t, <2>2, PidShape DEF StopKill, StopInv, TypeOK
    <3>1. CASE proc' = [proc EXCEPT ![stopPid[s][1]] = "dying"] /\ proc[stopPid[s][1]] = "alive"
      <4>1. \E p \in Pid : Slot!Go(p)
        BY <2>2, <3>0, <3>1, ProcChange DEF StopKill
      <4>2. QED
        BY <4>1 DEF Slot!Next
    <3>2. CASE UNCHANGED proc
      BY <2>2, <3>2, ServedSame, GoneSame DEF StopKill, Serving
    <3>3. QED
      BY <2>2, <3>1, <3>2 DEF StopKill, KillProcessGroup
  <2>3. CASE StopClear(s)
    BY <1>t, <2>3, ClearRelease DEF StopClear, StopInv, ClaimedInv, Slot!Next
  <2>4. QED
    BY <1>5, <2>1, <2>2, <2>3 DEF StopStep
<1>6. ASSUME NEW c, ReloadConfigs(c) \/ UNCHANGED vars PROVE UNCHANGED <<Serving, Served, Gone>>
  BY <1>0, <1>6 DEF ReloadConfigs, vars, Serving
<1>7. CASE GetCurrentServer
  <2>1. server.pid \in Served \cup {NoPid}
    BY <1>t, <1>7 DEF GetCurrentServer, ProcessLost, ClaimedInv
  <2>2. server.pid # NoPid => server.pid \in Gone
    BY <1>7, <2>1, ServedGone DEF GetCurrentServer, ProcessLost, IsProcessAlive, CurrentPid
  <2>3. QED
    BY <1>7, <2>1, <2>2, ClearRelease DEF GetCurrentServer, ProcessLost, ClearServerStateIfPIDMatches, Slot!Next
<1>8. QED
  BY <1>1, <1>2, <1>3, <1>4, <1>5, <1>6, <1>7 DEF Next

\* The manager implements ServingSlot: whatever the order of starts, stops, polls
\* and crashes, at most one process serves, none serves twice, and the slot forgets
\* or replaces a process only when it has ended or has been killed.
THEOREM SlotSpecCorrect == Spec => SlotSpec
<1>1. IInv /\ [Next]_vars => [Slot!Next]_(Slot!vars)
  BY SlotStep DEF Slot!vars
<1>2. QED
  BY <1>1, SlotInit, IInvCorrect, PTL DEF Spec, SlotSpec, Slot!Spec

-----------------------------------------------------------------------------
(* Stops.                                                                  *)

\* A server is stopping only while the StopModel that will clear it is at work.
StoppingInv ==
    server # NoServer /\ server.status = "stopping" =>
        \E s \in Stoppers : stopPc[s] # "idle" /\ stopPid[s] = server.pid

\* Each StopModel that marks the slot clears it, unless a launcher has marked it
\* otherwise in between.
LEMMA StoppingStep ==
    ASSUME TypeOK, StoppingInv, [Next]_vars
    PROVE  StoppingInv'
<1> USE DEF StoppingInv
<1>0. ASSUME UNCHANGED <<server, stopPc, stopPid>> PROVE StoppingInv'
  BY <1>0
<1>1. ASSUME NEW l \in Launches, StartModel(l) PROVE StoppingInv'
  <2>1. server' = [launch |-> l, pid |-> NoPid, status |-> "starting"]
    BY <1>1 DEF StartModel
  <2>2. server'.status = "starting"
    BY <2>1
  <2>3. QED
    BY <2>2
<1>2. ASSUME NEW l \in Launches, LaunchServer(l) PROVE StoppingInv'
  <2>1. CASE LaunchTop(l) \/ LaunchStart(l) \/ LaunchStarted(l) \/ LaunchKillOrphan(l)
             \/ LaunchWait(l) \/ LaunchGiveUp(l) \/ LaunchRetry(l)
    BY <1>0, <2>1 DEF LaunchTop, LaunchStart, LaunchStarted, LaunchKillOrphan, LaunchWait,
       LaunchGiveUp, LaunchRetry, stopVars
  <2>2. CASE server # NoServer /\ server' = [server EXCEPT !.status = "starting"]
    BY <2>2, StatusStep DEF Status
  <2>3. CASE LaunchEntry(l) \/ LaunchMark(l)
    BY <1>0, <2>2, <2>3 DEF LaunchEntry, LaunchMark, stopVars
  <2>4. CASE LaunchClaim(l)
    <3>1. CASE MayClaim(l)
      <4>1. server \in Server
        BY <3>1 DEF MayClaim, TypeOK
      <4>2. server'.status = "running"
        BY <2>4, <3>1, <4>1 DEF LaunchClaim, Server
      <4>3. QED
        BY <4>2
    <3>2. CASE ~MayClaim(l)
      BY <1>0, <2>4, <3>2 DEF LaunchClaim, stopVars
    <3>3. QED
      BY <3>1, <3>2
  <2>5. CASE LaunchClear(l)
    BY <1>0, <2>5 DEF LaunchClear, ClearServerStateIfPIDMatches, stopVars
  <2>6. QED
    BY <1>2, <2>1, <2>3, <2>4, <2>5 DEF LaunchServer
<1>3. ASSUME NEW l \in Launches, ProcessExit(l) PROVE StoppingInv'
  BY <1>0, <1>3 DEF ProcessExit, stopVars
<1>4. ASSUME NEW s \in Stoppers, NEW name, StopModel(s, name) PROVE StoppingInv'
  <2>1. server # NoServer /\ server' = [server EXCEPT !.status = "stopping"]
    BY <1>4 DEF StopModel
  <2>2. server'.pid = server.pid
    BY <2>1, StatusStep DEF Status
  <2>3. stopPc'[s] = "cancel" /\ stopPid'[s] = server.pid
    BY <1>4 DEF StopModel, TypeOK
  <2>4. QED
    BY <2>2, <2>3
<1>5. ASSUME NEW s \in Stoppers, StopStep(s) PROVE StoppingInv'
  <2>1. CASE StopCancel(s) \/ StopKill(s)
    <3>1. /\ UNCHANGED <<server, stopPid>>
          /\ \A q \in Stoppers : stopPc[q] # "idle" => stopPc'[q] # "idle"
      BY <2>1 DEF StopCancel, StopKill, TypeOK
    <3>2. QED
      BY <3>1
  <2>2. CASE StopClear(s)
    <3>1. CASE server # NoServer /\ server.pid = stopPid[s]
      BY <2>2, <3>1 DEF StopClear, ClearServerStateIfPIDMatches
    <3>2. CASE server # NoServer /\ server.pid # stopPid[s]
      <4>1. /\ server' = server
            /\ \A q \in Stoppers \ {s} : stopPc'[q] = stopPc[q] /\ stopPid'[q] = stopPid[q]
        BY <2>2, <3>2 DEF StopClear, ClearServerStateIfPIDMatches, TypeOK
      <4>2. QED
        BY <3>2, <4>1
    <3>3. CASE server = NoServer
      BY <2>2, <3>3 DEF StopClear, ClearServerStateIfPIDMatches
    <3>4. QED
      BY <3>1, <3>2, <3>3
  <2>3. QED
    BY <1>5, <2>1, <2>2 DEF StopStep
<1>6. ASSUME NEW c, ReloadConfigs(c) PROVE StoppingInv'
  BY <1>0, <1>6 DEF ReloadConfigs, stopVars
<1>7. CASE GetCurrentServer
  BY <1>7 DEF GetCurrentServer
<1>8. CASE UNCHANGED vars
  BY <1>0, <1>8 DEF vars, stopVars
<1>9. QED
  BY <1>1, <1>2, <1>3, <1>4, <1>5, <1>6, <1>7, <1>8 DEF Next

\* Nobody leaves the slot marked as stopping: a StopModel is at work that has read the
\* pid in it and will clear it (manager.go:487-507).
THEOREM StoppingHasStopper == Spec => []StoppingInv
<1>1. Init => StoppingInv
  BY DEF Init, StoppingInv
<1>2. QED
  BY <1>1, StoppingStep, TypeCorrect, PTL DEF Spec

\* A stop that has read a pid returns only when that process has been killed or has
\* ended, and the slot does not name it any more (manager.go:469-508).
THEOREM StopEndsItsProcessCorrect == Spec => StopEndsItsProcess
<1>1. ASSUME IInv, NEW s \in Stoppers, StopClear(s), stopPid[s] # NoPid
      PROVE  stopPid[s] \in Gone /\ (server' = NoServer \/ server'.pid # stopPid[s])
  <2>1. stopPid[s] \in Gone
    BY <1>1 DEF IInv, StopInv, StopClear
  <2>2. server' = NoServer \/ server'.pid # stopPid[s]
    BY <1>1 DEF StopClear, ClearServerStateIfPIDMatches
  <2>3. QED
    BY <2>1, <2>2
<1>2. IInv => [\A s \in Stoppers :
                 StopClear(s) /\ stopPid[s] # NoPid =>
                     /\ stopPid[s] \in Gone
                     /\ server' = NoServer \/ server'.pid # stopPid[s]]_vars
  BY <1>1
<1>3. QED
  BY <1>2, IInvCorrect, PTL DEF StopEndsItsProcess

-----------------------------------------------------------------------------
(* How long a launcher can go on.                                          *)

\* The steps a launcher has ahead of it in one attempt, at most.
Ahead(at) ==
    CASE at = "idle" -> 12 [] at \in {"entry", "mark"} -> 11 [] at = "top" -> 10
      [] at = "start" -> 9 [] at = "started" -> 8 [] at = "claim" -> 7 [] at = "wait" -> 6
      [] at = "failed" -> 5 [] at \in {"clean", "killCancelled"} -> 4
      [] at \in {"clearOrphan", "killUnclaimed"} -> 3 [] at = "clear" -> 2 [] OTHER -> 0

\* Those it has ahead of it with the attempts that its retries still allow.
Left(l) == (MaxRetries - crashes[l]) * 13 + Ahead(pc[l])

LEMMA AheadType == \A at : Ahead(at) \in 0 .. 12
BY DEF Ahead

LEMMA LauncherFalls ==
    ASSUME TypeOK, NEW l \in Launches, LaunchServer(l)
    PROVE  /\ Left(l)' < Left(l)
           /\ \A k \in Launches \ {l} : Left(k)' = Left(k)
<1>t. /\ pc \in [Launches -> LaunchPc] /\ crashes \in [Launches -> Nat] /\ MaxRetries \in Nat
      /\ crashes[l] \in 0 .. MaxRetries
  BY ConstantsAssumption DEF TypeOK
<1>0. ASSUME UNCHANGED crashes, NEW from, NEW to, Goto(l, from, to), Ahead(to) < Ahead(from)
      PROVE  /\ Left(l)' < Left(l)
             /\ \A k \in Launches \ {l} : Left(k)' = Left(k)
  <2>1. pc[l] = from /\ pc'[l] = to /\ \A k \in Launches \ {l} : pc'[k] = pc[k]
    BY <1>t, <1>0 DEF Goto
  <2>2. (MaxRetries - crashes[l]) * 13 \in Int /\ Ahead(to) \in Int /\ Ahead(from) \in Int
    BY <1>t, AheadType
  <2>3. QED
    BY <1>0, <2>1, <2>2 DEF Left
<1>1. CASE LaunchEntry(l)
  BY <1>0, <1>1 DEF LaunchEntry, Ahead
<1>2. CASE LaunchTop(l)
  <2>1. \E to \in {"clear", "start"} : Goto(l, "top", to)
    BY <1>2 DEF LaunchTop
  <2>2. QED
    BY <1>0, <1>2, <2>1 DEF LaunchTop, Ahead
<1>3. CASE LaunchStart(l)
  BY <1>0, <1>3 DEF LaunchStart, Ahead
<1>4. CASE LaunchStarted(l)
  <2>1. \E to \in {"killCancelled", "claim"} : Goto(l, "started", to)
    BY <1>4 DEF LaunchStarted
  <2>2. QED
    BY <1>0, <1>4, <2>1 DEF LaunchStarted, Ahead
<1>5. CASE LaunchKillOrphan(l)
  BY <1>0, <1>5 DEF LaunchKillOrphan, Ahead
<1>6. CASE LaunchClaim(l)
  <2>1. UNCHANGED crashes /\ \E to \in {"wait", "killUnclaimed"} : Goto(l, "claim", to)
    BY <1>6 DEF LaunchClaim
  <2>2. QED
    BY <1>0, <2>1 DEF Ahead
<1>7. CASE LaunchWait(l)
  BY <1>0, <1>7 DEF LaunchWait, Ahead
<1>8. CASE LaunchGiveUp(l)
  BY <1>0, <1>8 DEF LaunchGiveUp, Ahead
<1>9. CASE LaunchRetry(l)
  \* The way back, once for each retry.
  <2>1. /\ pc[l] = "failed" /\ pc'[l] = "mark" /\ crashes'[l] = crashes[l] + 1
        /\ \A k \in Launches \ {l} : pc'[k] = pc[k] /\ crashes'[k] = crashes[k]
    BY <1>t, <1>9 DEF LaunchRetry, Goto
  <2>2. Ahead("failed") = 5 /\ Ahead("mark") = 11
    BY DEF Ahead
  <2>3. QED
    BY <1>t, <2>1, <2>2 DEF Left
<1>10. CASE LaunchMark(l)
  BY <1>0, <1>10 DEF LaunchMark, Ahead
<1>11. CASE LaunchClear(l)
  BY <1>0, <1>11 DEF LaunchClear, Ahead
<1>12. QED
  BY <1>1, <1>2, <1>3, <1>4, <1>5, <1>6, <1>7, <1>8, <1>9, <1>10, <1>11 DEF LaunchServer

\* A crash loop has an end: a launcher makes at most 13 steps for each attempt it may
\* make; each step brings it nearer to waiting for good or to its return, and nothing
\* that stops, polls, reloads and other launchers do sets it back (manager.go:198-326).
THEOREM LaunchersEnd ==
    Spec => /\ \A l \in Launches : Left(l) = MaxRetries * 13 + 12
            /\ [][\A l \in Launches :
                     (LaunchServer(l) => Left(l)' < Left(l)) /\ Left(l)' <= Left(l)]_vars
<1>1. Init => \A l \in Launches : Left(l) = MaxRetries * 13 + 12
  BY ConstantsAssumption DEF Init, Left, Ahead
<1>2. ASSUME TypeOK, Next, NEW l \in Launches
      PROVE  (LaunchServer(l) => Left(l)' < Left(l)) /\ Left(l)' <= Left(l)
  <2>0. Left(l) \in Int /\ Left(l)' \in Int
    <3>1. TypeOK'
      BY <1>2, TypeStep
    <3>2. crashes[l] \in Int /\ crashes'[l] \in Int /\ MaxRetries \in Int
      BY <1>2, <3>1, ConstantsAssumption DEF TypeOK
    <3>3. QED
      BY <3>2, AheadType DEF Left
  <2>1. ASSUME NEW k \in Launches, LaunchServer(k)
        PROVE  (LaunchServer(l) => Left(l)' < Left(l)) /\ Left(l)' <= Left(l)
    BY <1>2, <2>0, <2>1, LauncherFalls
  <2>2. CASE UNCHANGED <<pc, crashes>>
    <3>1. Left(l)' = Left(l)
      BY <2>2 DEF Left
    <3>2. ~LaunchServer(l)
      BY <1>2, <2>0, <3>1, LauncherFalls
    <3>3. QED
      BY <2>0, <3>1, <3>2
  <2>3. ASSUME NEW k \in Launches, StartModel(k)
        PROVE  (LaunchServer(l) => Left(l)' < Left(l)) /\ Left(l)' <= Left(l)
    <3>1. Left(l)' <= Left(l)
      <4>1. crashes[l] \in Int /\ MaxRetries \in Int /\ pc \in [Launches -> LaunchPc]
        BY <1>2, ConstantsAssumption DEF TypeOK
      <4>2. UNCHANGED crashes /\ pc[k] = "idle" /\ pc' = [pc EXCEPT ![k] = "entry"]
        BY <2>3 DEF StartModel
      <4>3. Ahead("idle") = 12 /\ Ahead("entry") = 11 /\ Ahead(pc[l]) \in Int
        BY AheadType DEF Ahead
      <4>4. QED
        BY <4>1, <4>2, <4>3 DEF Left
    <3>2. QED
      BY <1>2, <3>1, LauncherFalls
  <2>4. QED
    BY <1>2, <2>1, <2>2, <2>3
    DEF Next, ProcessExit, StopModel, StopStep, StopCancel, StopKill, StopClear, ReloadConfigs,
        GetCurrentServer, launchVars
<1>3. TypeOK /\ [Next]_vars =>
        [\A l \in Launches :
            (LaunchServer(l) => Left(l)' < Left(l)) /\ Left(l)' <= Left(l)]_vars
  BY <1>2
<1>4. QED
  BY <1>1, <1>3, TypeCorrect, PTL DEF Spec

-----------------------------------------------------------------------------
(* App.  Inside the application the manager behaves as it does alone, so   *)
(* everything proved of ServerManager holds here too.  On that rests what  *)
(* Shutdown promises of the process it has seen.                           *)

\* After the drain no request is at work, and Shutdown calls StopCurrent once.
DrainedInv ==
    /\ phase \notin {"serving", "draining", "aborted"} =>
          \A s \in Handlers : stopPc[s] = "idle"
    /\ phase \notin {"stopped"} => stopPc[Shutdowner] = "idle"

\* What Shutdown has seen is in the slot, in its hands or gone.
HeldInv ==
    held # NoPid /\ held \notin Gone =>
        /\ phase = "stopping" => Serving = held
        /\ phase = "stopped" => stopPc[Shutdowner] # "idle" /\ stopPid[Shutdowner] = held
        /\ phase # "exited"

AppInv == AppTypeOK /\ IInv /\ StoppingInv /\ DrainedInv /\ HeldInv

-----------------------------------------------------------------------------
(* The manager inside the application.                                     *)

LEMMA AppStepIsStep == [AppNext]_allVars => [Next]_vars
<1> SUFFICES ASSUME [AppNext]_allVars PROVE [Next]_vars
  OBVIOUS
<1>1. CASE Request
  BY <1>1 DEF Request, Handlers, Next
<1>2. CASE Reload
  BY <1>2 DEF Reload, Next
<1>3. CASE StreamBegins \/ StreamEnds \/ Signal
  BY <1>3 DEF StreamBegins, StreamEnds, Signal
<1>4. ASSUME NEW l \in Launches, Launcher(l) \/ Child(l) PROVE [Next]_vars
  BY <1>4 DEF Launcher, Child, Next
<1>5. ASSUME NEW s \in Stoppers, Stopper(s) PROVE [Next]_vars
  BY <1>5 DEF Stopper, Next
<1>6. CASE Drained \/ DrainTimeout \/ StopRefused \/ Exit
  BY <1>6 DEF Drained, DrainTimeout, StopRefused, Exit
<1>7. CASE LookAtSlot
  BY <1>7 DEF LookAtSlot, Next
<1>8. CASE StopSlot
  BY <1>8, ShutdownerAssumption DEF StopSlot, Next
<1>9. CASE UNCHANGED allVars
  BY <1>9 DEF allVars
<1>10. QED
  BY <1>1, <1>2, <1>3, <1>4, <1>5, <1>6, <1>7, <1>8, <1>9 DEF AppNext, Shutdown

\* The manager inside the application is the ServerManager: neither requests nor the
\* shutdown reach it but by its own operations (server.go:367-497).
THEOREM AppImplementsManager == AppSpec => Spec
<1>1. AppInit => Init
  BY DEF AppInit
<1>2. QED
  BY <1>1, AppStepIsStep, PTL DEF AppSpec, Spec

LEMMA AppTypeInit == AppInit => AppTypeOK
<1> SUFFICES ASSUME AppInit PROVE AppTypeOK
  OBVIOUS
<1>1. streaming \in BOOLEAN
  BY DEF AppInit
<1>2. QED
  BY <1>1, TypeInit DEF AppInit, AppTypeOK, Phase

LEMMA AppTypeStep == AppTypeOK /\ [AppNext]_allVars => AppTypeOK'
<1> SUFFICES ASSUME AppTypeOK, [AppNext]_allVars PROVE AppTypeOK'
  OBVIOUS
<1>t. TypeOK /\ TypeOK'
  BY AppStepIsStep, TypeStep DEF AppTypeOK
<1>0. ASSUME UNCHANGED appVars PROVE AppTypeOK'
  BY <1>0, <1>t DEF AppTypeOK, appVars
<1>1. CASE Request \/ Reload \/ UNCHANGED allVars
  BY <1>0, <1>1 DEF Request, Reload, allVars
<1>2. ASSUME NEW l \in Launches, Launcher(l) \/ Child(l) PROVE AppTypeOK'
  BY <1>0, <1>2 DEF Launcher, Child
<1>3. ASSUME NEW s \in Stoppers, Stopper(s) PROVE AppTypeOK'
  BY <1>0, <1>3 DEF Stopper
<1>4. CASE StreamBegins \/ StreamEnds \/ Signal \/ Drained \/ DrainTimeout
           \/ StopRefused \/ Exit \/ StopSlot
  BY <1>4, <1>t DEF AppTypeOK, Phase, Exited, StreamBegins, StreamEnds, Signal, Drained,
     DrainTimeout, StopRefused, Exit, StopSlot
<1>5. CASE LookAtSlot
  <2>1. Serving' \in Pid \cup {NoPid}
    BY <1>t DEF TypeOK, Server, Serving
  <2>2. QED
    BY <1>5, <1>t, <2>1 DEF AppTypeOK, Phase, Exited, LookAtSlot
<1>6. QED
  BY <1>1, <1>2, <1>3, <1>4, <1>5 DEF AppNext, Shutdown

\* Every variable keeps its type.
THEOREM AppTypeCorrect == AppSpec => []AppTypeOK
BY AppTypeInit, AppTypeStep, PTL DEF AppSpec

-----------------------------------------------------------------------------
(* After the drain.                                                        *)

LEMMA NothingStartsStep ==
    ASSUME [AppNext]_allVars, phase \notin {"serving", "draining"}, server = NoServer
    PROVE  server' = NoServer
<1>1. CASE Request \/ Reload
  BY <1>1 DEF Request, Reload
<1>2. ASSUME NEW l \in Launches, Launcher(l) PROVE server' = NoServer
  BY <1>2 DEF Launcher, LaunchServer, LaunchEntry, LaunchTop, LaunchStart, LaunchStarted,
     LaunchKillOrphan, LaunchClaim, MayClaim, LaunchWait, LaunchGiveUp, LaunchRetry, LaunchMark,
     LaunchClear, ClearServerStateIfPIDMatches
<1>3. ASSUME NEW l \in Launches, Child(l) PROVE server' = NoServer
  BY <1>3 DEF Child, ProcessExit
<1>4. ASSUME NEW s \in Stoppers, Stopper(s) PROVE server' = NoServer
  BY <1>4 DEF Stopper, StopStep, StopCancel, StopKill, StopClear, ClearServerStateIfPIDMatches
<1>5. CASE StreamBegins \/ StreamEnds \/ Signal \/ Drained \/ DrainTimeout
           \/ StopRefused \/ Exit \/ UNCHANGED allVars
  BY <1>5 DEF StreamBegins, StreamEnds, Signal, Drained, DrainTimeout, StopRefused, Exit,
     allVars, vars
<1>6. CASE LookAtSlot
  BY <1>6 DEF LookAtSlot, GetCurrentServer, vars
<1>7. CASE StopSlot
  BY <1>7 DEF StopSlot, StopModel
<1>8. QED
  BY <1>1, <1>2, <1>3, <1>4, <1>5, <1>6, <1>7 DEF AppNext, Shutdown

\* Once httpSrv.Shutdown has returned, an empty slot stays empty, whatever launchers
\* of earlier starts still do (server.go:481-494).
THEOREM NothingStartsAfterDrainCorrect == AppSpec => NothingStartsAfterDrain
<1>1. [AppNext]_allVars =>
        [phase \notin {"serving", "draining"} /\ server = NoServer => server' = NoServer]_allVars
  BY NothingStartsStep
<1>2. QED
  BY <1>1, PTL DEF AppSpec, NothingStartsAfterDrain

-----------------------------------------------------------------------------
(* The server Shutdown has seen.                                           *)

LEMMA DrainedStep ==
    ASSUME AppTypeOK, DrainedInv, [AppNext]_allVars
    PROVE  DrainedInv'
<1> USE DEF DrainedInv, AppTypeOK, TypeOK, Handlers
<1>m. Shutdowner \in Stoppers
  BY ShutdownerAssumption
<1>0. ASSUME UNCHANGED <<phase, stopPc>> PROVE DrainedInv'
  BY <1>0
<1>1. ASSUME Request PROVE DrainedInv'
  <2>1. \A s \in {Shutdowner} : stopPc'[s] = stopPc[s]
    BY <1>1, <1>m DEF Request, StartModel, StopModel, GetCurrentServer, stopVars
  <2>2. QED
    BY <1>1, <2>1 DEF Request, appVars
<1>2. CASE Reload
  BY <1>0, <1>2 DEF Reload, ReloadConfigs, appVars, stopVars
<1>3. ASSUME NEW l \in Launches, Launcher(l) PROVE DrainedInv'
  <2>1. UNCHANGED stopPc
    BY <1>3 DEF Launcher, LaunchServer, LaunchEntry, LaunchTop, LaunchStart, LaunchStarted,
       LaunchKillOrphan, LaunchClaim, LaunchWait, LaunchGiveUp, LaunchRetry, LaunchMark,
       LaunchClear, stopVars
  <2>2. QED
    BY <1>0, <1>3, <2>1 DEF Launcher, appVars
<1>4. ASSUME NEW l \in Launches, Child(l) PROVE DrainedInv'
  BY <1>0, <1>4 DEF Child, ProcessExit, appVars, stopVars
<1>5. ASSUME NEW s \in Stoppers, Stopper(s) PROVE DrainedInv'
  <2>1. /\ stopPc[s] # "idle" /\ UNCHANGED phase
        /\ \A q \in Stoppers \ {s} : stopPc'[q] = stopPc[q]
    BY <1>5 DEF Stopper, StopStep, StopCancel, StopKill, StopClear, appVars
  <2>2. QED
    BY <1>m, <2>1
<1>6. CASE StreamBegins \/ StreamEnds \/ UNCHANGED allVars
  BY <1>0, <1>6 DEF StreamBegins, StreamEnds, allVars, appVars, vars, stopVars
<1>7. CASE Signal \/ Drained \/ DrainTimeout \/ StopRefused \/ Exit
  BY <1>7 DEF Signal, Drained, DrainTimeout, StopRefused, Exit, vars, stopVars
<1>8. CASE LookAtSlot
  BY <1>8 DEF LookAtSlot, GetCurrentServer, vars, stopVars
<1>9. CASE StopSlot
  BY <1>9, <1>m DEF StopSlot, StopModel
<1>10. QED
  BY <1>1, <1>2, <1>3, <1>4, <1>5, <1>6, <1>7, <1>8, <1>9 DEF AppNext, Shutdown

\* What ServingSlot says of a process in the slot.
LEMMA SlotKeeps ==
    ASSUME IInv, [Next]_vars
    PROVE  /\ Gone \subseteq Gone'
           /\ Serving \notin Gone' /\ Serving # NoPid => Serving' = Serving
<1>1. [Slot!Next]_<<Serving, Served, Gone>>
  BY SlotStep
<1>2. QED
  BY <1>1 DEF Slot!Next, Slot!Serve, Slot!Go, Slot!Release

LEMMA HeldStep ==
    ASSUME AppInv, [AppNext]_allVars
    PROVE  HeldInv'
<1>t. AppTypeOK /\ TypeOK /\ IInv /\ StopInv /\ StoppingInv /\ DrainedInv /\ HeldInv
  BY DEF AppInv, IInv, AppTypeOK
<1>m. Shutdowner \in Stoppers
  BY ShutdownerAssumption
<1>g. /\ Gone \subseteq Gone'
      /\ Serving \notin Gone' /\ Serving # NoPid => Serving' = Serving
  BY <1>t, AppStepIsStep, SlotKeeps
<1>0. ASSUME UNCHANGED <<phase, held>>,
             phase = "stopped" /\ held # NoPid /\ held \notin Gone /\ stopPc[Shutdowner] # "idle" =>
                stopPc'[Shutdowner] # "idle" /\ stopPid'[Shutdowner] = stopPid[Shutdowner]
      PROVE  HeldInv'
  BY <1>t, <1>g, <1>0 DEF HeldInv
<1>1. CASE Request \/ Reload
  BY <1>t, <1>g, <1>1 DEF Request, Reload, HeldInv, appVars
<1>3. ASSUME NEW l \in Launches, Launcher(l) \/ Child(l) PROVE HeldInv'
  <2>1. UNCHANGED stopVars
    BY <1>3 DEF Launcher, LaunchServer, LaunchEntry, LaunchTop, LaunchStart, LaunchStarted,
       LaunchKillOrphan, LaunchClaim, LaunchWait, LaunchGiveUp, LaunchRetry, LaunchMark,
       LaunchClear, Child, ProcessExit
  <2>2. QED
    BY <1>0, <1>3, <2>1 DEF Launcher, Child, appVars, stopVars
<1>4. ASSUME NEW s \in Stoppers, Stopper(s) PROVE HeldInv'
  <2>1. CASE s # Shutdowner
    <3>1. stopPc'[Shutdowner] = stopPc[Shutdowner] /\ stopPid'[Shutdowner] = stopPid[Shutdowner]
      BY <1>t, <1>m, <1>4, <2>1 DEF Stopper, StopStep, StopCancel, StopKill, StopClear, TypeOK
    <3>2. QED
      BY <1>0, <1>4, <3>1 DEF Stopper, appVars
  <2>2. CASE s = Shutdowner /\ (StopCancel(s) \/ StopKill(s))
    <3>1. stopPc'[Shutdowner] # "idle" /\ stopPid' = stopPid
      BY <1>t, <1>m, <2>2 DEF StopCancel, StopKill, TypeOK
    <3>2. QED
      BY <1>0, <1>4, <3>1 DEF Stopper, appVars
  <2>3. CASE s = Shutdowner /\ StopClear(s)
    <3>1. stopPid[Shutdowner] # NoPid => stopPid[Shutdowner] \in Gone
      BY <1>t, <1>m, <2>3 DEF StopClear, StopInv
    <3>2. ~(phase = "stopped" /\ held # NoPid /\ held \notin Gone)
      BY <1>t, <3>1 DEF HeldInv
    <3>3. QED
      BY <1>0, <1>4, <3>2 DEF Stopper, appVars
  <2>4. QED
    BY <1>4, <2>1, <2>2, <2>3 DEF Stopper, StopStep
<1>5. CASE StreamBegins \/ StreamEnds \/ UNCHANGED allVars
  BY <1>0, <1>5 DEF StreamBegins, StreamEnds, allVars, appVars, vars, stopVars
<1>6. CASE Signal \/ Drained \/ DrainTimeout
  BY <1>t, <1>g, <1>6 DEF Signal, Drained, DrainTimeout, HeldInv
<1>7. CASE LookAtSlot
  BY <1>7 DEF LookAtSlot, HeldInv, Serving
<1>8. CASE StopSlot
  <2>1. Serving = server.pid /\ stopPid'[Shutdowner] = server.pid /\ stopPc'[Shutdowner] = "cancel"
    BY <1>t, <1>m, <1>8 DEF StopSlot, StopModel, Serving, TypeOK
  <2>2. QED
    BY <1>t, <1>g, <1>8, <2>1 DEF StopSlot, HeldInv
<1>9. CASE StopRefused
  <2>1. \A s \in Stoppers : stopPc[s] = "idle"
    BY <1>t, <1>9 DEF StopRefused, DrainedInv, Handlers
  <2>2. Serving = NoPid
    BY <1>t, <1>9, <2>1 DEF StopRefused, StoppingInv, Serving
  <2>3. QED
    BY <1>t, <1>g, <1>9, <2>2 DEF StopRefused, HeldInv
<1>10. CASE Exit
  BY <1>t, <1>g, <1>10 DEF Exit, HeldInv
<1>11. QED
  BY <1>1, <1>3, <1>4, <1>5, <1>6, <1>7, <1>8, <1>9, <1>10 DEF AppNext, Shutdown

\* The invariant behind HeldIsGone.
THEOREM AppInvCorrect == AppSpec => []AppInv
<1>1. AppInit => AppInv
  <2> SUFFICES ASSUME AppInit PROVE AppInv
    OBVIOUS
  <2>1. Init
    BY DEF AppInit
  <2>2. StoppingInv /\ DrainedInv /\ HeldInv
    BY <2>1, ShutdownerAssumption DEF AppInit, Init, StoppingInv, DrainedInv, HeldInv, Handlers
  <2>3. QED
    BY <2>1, <2>2, AppTypeInit, IInvInit DEF AppInv
<1>2. AppInv /\ [AppNext]_allVars => AppInv'
  <2> SUFFICES ASSUME AppInv, [AppNext]_allVars PROVE AppInv'
    OBVIOUS
  <2>1. AppTypeOK /\ TypeOK /\ IInv /\ StoppingInv /\ DrainedInv
    BY DEF AppInv, AppTypeOK
  <2>2. [Next]_vars
    BY AppStepIsStep
  <2>3. QED
    BY <2>1, <2>2, AppTypeStep, IInvStep, StoppingStep, DrainedStep, HeldStep DEF AppInv
<1>3. QED
  BY <1>1, <1>2, PTL DEF AppSpec

\* When main returns, the process that was in the slot when Shutdown looked is dead or
\* has been killed, whatever crashed, restarted or was cleared in between
\* (server.go:486-497).
THEOREM HeldIsGoneCorrect == AppSpec => []HeldIsGone
<1>1. AppInv => HeldIsGone
  BY DEF AppInv, HeldInv, HeldIsGone
<1>2. QED
  BY <1>1, AppInvCorrect, PTL

-----------------------------------------------------------------------------
(* How long a shutdown is.                                                 *)

StopAhead(at) == CASE at = "cancel" -> 3 [] at = "kill" -> 2 [] at = "clear" -> 1 [] OTHER -> 0

\* The steps that are left until main returns.
ShutdownAhead ==
    CASE phase = "serving" -> 8 [] phase = "draining" -> 7 [] phase = "closing" -> 6
      [] phase = "stopping" -> 5 [] phase = "stopped" -> 1 + StopAhead(stopPc[Shutdowner])
      [] OTHER -> 0

LEMMA ShutdownFalls ==
    ASSUME AppTypeOK, DrainedInv, AppNext
    PROVE  /\ ShutdownAhead' <= ShutdownAhead
           /\ Signal \/ Shutdown \/ Stopper(Shutdowner) => ShutdownAhead' < ShutdownAhead
<1>t. /\ phase \in Phase /\ stopPc \in [Stoppers -> StopPc] /\ Shutdowner \in Stoppers
      /\ phase # "stopped" => stopPc[Shutdowner] = "idle"
  BY ShutdownerAssumption DEF AppTypeOK, TypeOK, DrainedInv
<1>a. \A at \in StopPc : StopAhead(at) \in 0 .. 3
  BY DEF StopAhead, StopPc
<1>n. ShutdownAhead \in Nat
  BY <1>t, <1>a DEF ShutdownAhead
<1>1. CASE Signal \/ Drained \/ DrainTimeout \/ StopRefused \/ LookAtSlot
  BY <1>t, <1>1 DEF Signal, Drained, DrainTimeout, StopRefused, LookAtSlot, ShutdownAhead
<1>2. CASE StopSlot
  <2>1. phase = "stopping" /\ phase' = "stopped" /\ stopPc'[Shutdowner] = "cancel"
    BY <1>t, <1>2 DEF StopSlot, StopModel
  <2>2. QED
    BY <2>1 DEF ShutdownAhead, StopAhead
<1>3. CASE Exit
  BY <1>t, <1>a, <1>3 DEF Exit, ShutdownAhead
<1>4. CASE Stopper(Shutdowner)
  <2>1. /\ phase = "stopped" /\ phase' = phase
        /\ \/ stopPc[Shutdowner] = "cancel" /\ stopPc'[Shutdowner] \in {"clear", "kill"}
           \/ stopPc[Shutdowner] = "kill" /\ stopPc'[Shutdowner] = "clear"
           \/ stopPc[Shutdowner] = "clear" /\ stopPc'[Shutdowner] = "idle"
    BY <1>t, <1>4 DEF Stopper, StopStep, StopCancel, StopKill, StopClear, appVars
  <2>2. QED
    BY <2>1 DEF ShutdownAhead, StopAhead
<1>5. CASE ~(Signal \/ Shutdown \/ Stopper(Shutdowner))
  <2>1. phase' = phase /\ stopPc'[Shutdowner] = stopPc[Shutdowner]
    <3>1. CASE Request
      BY <1>t, <3>1 DEF Request, Handlers, StartModel, StopModel, GetCurrentServer, stopVars, appVars
    <3>2. CASE Reload \/ StreamBegins \/ StreamEnds
      BY <3>2 DEF Reload, ReloadConfigs, StreamBegins, StreamEnds, vars, stopVars, appVars
    <3>3. ASSUME NEW l \in Launches, Launcher(l) \/ Child(l)
          PROVE  phase' = phase /\ stopPc'[Shutdowner] = stopPc[Shutdowner]
      BY <3>3 DEF Launcher, Child, ProcessExit, LaunchServer, LaunchEntry, LaunchTop, LaunchStart,
         LaunchStarted, LaunchKillOrphan, LaunchClaim, LaunchWait, LaunchGiveUp, LaunchRetry,
         LaunchMark, LaunchClear, stopVars, appVars
    <3>4. ASSUME NEW q \in Stoppers, Stopper(q)
          PROVE  phase' = phase /\ stopPc'[Shutdowner] = stopPc[Shutdowner]
      <4>1. q # Shutdowner
        BY <1>5, <3>4
      <4>2. QED
        BY <1>t, <3>4, <4>1 DEF Stopper, StopStep, StopCancel, StopKill, StopClear, appVars
    <3>5. QED
      BY <1>5, <3>1, <3>2, <3>3, <3>4 DEF AppNext
  <2>2. QED
    BY <1>n, <1>5, <2>1 DEF ShutdownAhead
<1>6. QED
  BY <1>n, <1>1, <1>2, <1>3, <1>4, <1>5 DEF Shutdown

\* A shutdown is short: from the signal on it takes at most seven steps of main and of
\* its StopCurrent, and no request, launcher, child or stream sends it back.  What it
\* waits for between them is the drain alone (server.go:465-497).
THEOREM ShutdownIsShort ==
    AppSpec =>
        [][/\ ShutdownAhead' <= ShutdownAhead
           /\ Signal \/ Shutdown \/ Stopper(Shutdowner) => ShutdownAhead' < ShutdownAhead]_allVars
<1>1. AppInv => AppTypeOK /\ DrainedInv
  BY DEF AppInv
<1>2. AppTypeOK /\ DrainedInv /\ [AppNext]_allVars =>
        [/\ ShutdownAhead' <= ShutdownAhead
         /\ Signal \/ Shutdown \/ Stopper(Shutdowner) => ShutdownAhead' < ShutdownAhead]_allVars
  BY ShutdownFalls
<1>3. QED
  BY <1>1, <1>2, AppInvCorrect, PTL DEF AppSpec
=============================================================================
