-------------------------- MODULE SupervisorProofs --------------------------
(***************************************************************************)
(* The safety of the supervisor for any number of API goroutines, of runs   *)
(* and of goroutine slots, under either supervision policy.                 *)
(***************************************************************************)
EXTENDS Supervisor, TLAPS

\* An entry that is not in the registry has no owner; the run in progress is the
\* latest one, whose cancel function the entry holds, and no context or captured
\* cancel function belongs to a run that has not been launched.
RunsNumbered ==
  /\ ~managed => ~alive
  /\ \A s \in Slots : pc[s] \in InRun => run[s] = runs /\ runs # 0
  /\ cancel = runs
  /\ \A n \in cancelled : n <= runs
  /\ \A c \in Clients : call[c] = "cancel" => held[c] \in 1..runs

\* While a run is in progress, its context is cancelled, or about to be by a
\* captured cancel function, only for a request that still stands.
CancelJustified ==
  \A s \in Slots : pc[s] \in InRun =>
    /\ runs \in cancelled => stopReq \/ restartReq \/ parentDone
    /\ \A c \in Clients : call[c] = "cancel" /\ held[c] = runs
                            => stopReq \/ restartReq \/ parentDone

\* A supervisor on its way out leaves a status that does not look alive.
ExitStatus ==
  \A s \in Slots : pc[s] = "exit" => status \in Terminal \union {"restarting"}

StatusSound == ExitStatus /\ NotWedgedLive

IInv == TypeOK /\ OneSupervisor /\ RunsNumbered /\ CancelJustified
        /\ HandleIsLive /\ ExitStatus /\ NotWedgedLive


\* Every step of an API goroutine, a supervisor or main keeps the types.
LEMMA TypeStep == TypeOK /\ RunsNumbered /\ Next => TypeOK'
<1> SUFFICES ASSUME TypeOK, RunsNumbered, Next PROVE TypeOK'
  OBVIOUS
<1> USE MaxRunsAssumption, PolicyAssumption
    DEF TypeOK, Run, RunOrNil, entry, supVars, clientVars
<1>1. ASSUME NEW c \in Clients, ClientCall(c) PROVE TypeOK'
  <2>1. CASE Start(c)
    BY <2>1 DEF Start, Status, Call
  <2>2. CASE Stop(c)
    BY <2>2 DEF Stop, WillCancel, Call
  <2>3. CASE RestartAlive(c)
    BY <2>3 DEF RestartAlive, WillCancel, Call, Status
  <2>4. CASE RestartDead(c)
    BY <2>4 DEF RestartDead, Claim, Call, Status
  <2>5. CASE Pause(c)
    BY <2>5 DEF Pause, Status
  <2>6. CASE Resume(c)
    BY <2>6 DEF Resume, Status
  <2> QED BY <1>1, <2>1, <2>2, <2>3, <2>4, <2>5, <2>6 DEF ClientCall
<1>2. ASSUME NEW c \in Clients, ClientStep(c) PROVE TypeOK'
  <2>1. CASE CallCancel(c)
    <3>1. held[c] \in Run
      BY <2>1 DEF CallCancel, RunsNumbered
    <3>2. cancelled' \subseteq Run
      BY <2>1, <3>1 DEF CallCancel, CapturedCancel
    <3> QED BY <2>1, <3>2 DEF CallCancel, Call
  <2>2. CASE ResolvePassword(c)
    <3>1. alive' \in BOOLEAN /\ status' \in Status
      BY <2>2 DEF ResolvePassword, Status
    <3>2. call' \in [Clients -> Call]
      BY <2>2 DEF ResolvePassword, Call
    <3> QED BY <2>2, <3>1, <3>2 DEF ResolvePassword
  <2>3. ASSUME NEW s \in Slots, Spawn(c, s) PROVE TypeOK'
    BY <2>3 DEF Spawn, SupPc, Call
  <2> QED BY <1>2, <2>1, <2>2, <2>3 DEF ClientStep
<1>3. ASSUME NEW s \in Slots, SupStep(s) PROVE TypeOK'
  <2>1. CASE StopBeforeLaunch(s)
    BY <2>1 DEF StopBeforeLaunch, SupPc, Status
  <2>2. CASE Launch(s)
    <3>1. runs' \in RunOrNil /\ runs' = runs + 1 /\ runs + 1 \in Run
      BY <2>2 DEF Launch, MayRelaunch
    <3>2. cancelled' \subseteq Run
      BY <2>2, <3>1 DEF Launch, InheritedCancel
    <3>3. pc' \in [Slots -> SupPc] /\ run' \in [Slots -> RunOrNil] /\ cancel' \in RunOrNil
      BY <2>2, <3>1 DEF Launch, SupPc
    <3>4. handle' \in RunOrNil /\ status' \in Status
      BY <2>2 DEF Launch, Status
    <3>5. restartReq' \in BOOLEAN
      BY <2>2 DEF Launch
    <3> QED BY <2>2, <3>1, <3>2, <3>3, <3>4, <3>5 DEF Launch
  <2>3. CASE OnReady(s)
    BY <2>3 DEF OnReady, SupPc, Status
  <2>4. CASE OnLive(s)
    BY <2>4 DEF OnLive, SupPc
  <2>5. CASE OnExit(s)
    BY <2>5 DEF OnExit, SupPc
  <2>6. CASE Snapshot(s)
    <3>1. seen' \in [Slots -> SUBSET Basis]
      BY <2>6 DEF Snapshot, Flag, Basis
    <3>2. pc' \in [Slots -> SupPc] /\ handle' \in RunOrNil
      BY <2>6 DEF Snapshot, DropHandle, SupPc
    <3>3. restartReq' \in BOOLEAN
      BY <2>6 DEF Snapshot
    <3> QED BY <2>6, <3>1, <3>2, <3>3 DEF Snapshot
  <2>7. CASE Decide(s)
    BY <2>7 DEF Decide, After, SupPc, Status
  <2>8. CASE BackoffElapsed(s)
    BY <2>8 DEF BackoffElapsed, SupPc
  <2>9. CASE BackoffAborted(s)
    BY <2>9 DEF BackoffAborted, SupPc, Status
  <2>10. CASE SupervisorExits(s)
    <3>1. pc' \in [Slots -> SupPc] /\ run' \in [Slots -> RunOrNil]
      BY <2>10 DEF SupervisorExits, SupPc
    <3>2. seen' \in [Slots -> SUBSET Basis]
      BY <2>10 DEF SupervisorExits
    <3> QED BY <2>10, <3>1, <3>2 DEF SupervisorExits
  <2> QED BY <1>3, <2>1, <2>2, <2>3, <2>4, <2>5, <2>6, <2>7, <2>8, <2>9, <2>10 DEF SupStep
<1>4. ASSUME NEW s \in Slots, RunReturns(s) PROVE TypeOK'
  <2>1. run[s] \in Run
    BY <1>4 DEF RunReturns, RunsNumbered, InRun
  <2>2. cancelled' \subseteq Run
    BY <1>4, <2>1 DEF RunReturns
  <2>3. seen' \in [Slots -> SUBSET Basis]
    BY <1>4 DEF RunReturns, Flag, Basis
  <2> QED BY <1>4, <2>2, <2>3 DEF RunReturns, SupPc
<1>5. CASE Shutdown
  <2>1. cancelled' \subseteq Run
    BY <1>5 DEF Shutdown
  <2> QED BY <1>5, <2>1 DEF Shutdown
<1>6. CASE StopAll
  <2>1. stopReq' \in BOOLEAN
    BY <1>6 DEF StopAll
  <2>2. cancelled' \subseteq Run
    BY <1>6 DEF StopAll
  <2> QED BY <1>6, <2>1, <2>2 DEF StopAll
<1>7. CASE WaitReturns
  BY <1>7 DEF WaitReturns
<1> QED BY <1>1, <1>2, <1>3, <1>4, <1>5, <1>6, <1>7 DEF Next

\* Initially no goroutine exists and nothing is requested (NewRegistry).
LEMMA InitIInv == Init => IInv
<1> SUFFICES ASSUME Init PROVE IInv
  OBVIOUS
<1> USE DEF Init
<1>1. TypeOK
  <2>1. seen \in [Slots -> SUBSET Basis]
    OBVIOUS
  <2>2. pc \in [Slots -> SupPc] /\ run \in [Slots -> RunOrNil]
    BY MaxRunsAssumption DEF SupPc, RunOrNil
  <2>3. call \in [Clients -> Call] /\ held \in [Clients -> RunOrNil]
    BY MaxRunsAssumption DEF Call, RunOrNil
  <2>4. {runs, cancel, handle, surface} \subseteq RunOrNil /\ restarts \in Nat
    BY MaxRunsAssumption DEF RunOrNil
  <2> QED BY <2>1, <2>2, <2>3, <2>4 DEF TypeOK, Status
<1>2. OneSupervisor /\ HandleIsLive /\ NotWedgedLive
  BY DEF OneSupervisor, Owners, Spawners, HandleIsLive, NotWedgedLive, Terminal
<1>3. RunsNumbered /\ CancelJustified /\ ExitStatus
  BY DEF RunsNumbered, CancelJustified, ExitStatus, InRun, Terminal
<1> QED BY <1>1, <1>2, <1>3 DEF IInv

\* OneSupervisor, goroutine by goroutine.
Unique ==
  /\ \A s, t \in Slots : pc[s] # "none" /\ pc[t] # "none" => s = t
  /\ \A c, d \in Clients : call[c] \in {"resolve", "spawn"} /\ call[d] \in {"resolve", "spawn"}
                            => c = d
  /\ \A s \in Slots, c \in Clients : pc[s] = "none" \/ call[c] \notin {"resolve", "spawn"}
  /\ \A s \in Slots : pc[s] # "none" => alive
  /\ \A c \in Clients : call[c] \in {"resolve", "spawn"} => alive

\* The two forms of OneSupervisor agree.
LEMMA UniqueIff == OneSupervisor <=> Unique
BY DEF OneSupervisor, Unique, Owners, Spawners

\* The claim of Restart and the exit of the supervisor keep the owner unique.
LEMMA UniqueStep ==
  TypeOK /\ RunsNumbered /\ Unique /\ Next => Unique'
<1> SUFFICES ASSUME TypeOK, RunsNumbered, Unique, Next PROVE Unique'
  OBVIOUS
<1> USE DEF TypeOK, RunsNumbered, Unique, entry, supVars, clientVars
<1>1. ASSUME NEW c \in Clients, ClientCall(c) \/ CallCancel(c) \/ ResolvePassword(c)
     PROVE Unique'
  <2>1. CASE Start(c)
    BY <2>1 DEF Start
  <2>2. CASE Stop(c)
    BY <2>2 DEF Stop, WillCancel
  <2>3. CASE RestartAlive(c)
    BY <2>3 DEF RestartAlive, WillCancel
  <2>4. CASE RestartDead(c)
    BY <2>4 DEF RestartDead, Claim
  <2>5. CASE Pause(c)
    BY <2>5 DEF Pause, NotRunning
  <2>6. CASE Resume(c)
    BY <2>6 DEF Resume, NotRunning
  <2>7. CASE CallCancel(c)
    BY <2>7 DEF CallCancel, CapturedCancel
  <2>8. CASE ResolvePassword(c)
    BY <2>8 DEF ResolvePassword
  <2> QED BY <1>1, <2>1, <2>2, <2>3, <2>4, <2>5, <2>6, <2>7, <2>8 DEF ClientCall
<1>2. ASSUME NEW c \in Clients, NEW s \in Slots, Spawn(c, s) PROVE Unique'
  BY <1>2 DEF Spawn
<1>3. ASSUME NEW s \in Slots, SupStep(s) \/ RunReturns(s) PROVE Unique'
  <2>1. CASE StopBeforeLaunch(s)
    BY <2>1 DEF StopBeforeLaunch
  <2>2. CASE Launch(s)
    BY <2>2 DEF Launch, InheritedCancel, MayRelaunch
  <2>3. CASE OnReady(s)
    BY <2>3 DEF OnReady
  <2>4. CASE OnLive(s)
    BY <2>4 DEF OnLive
  <2>5. CASE OnExit(s)
    BY <2>5 DEF OnExit
  <2>6. CASE Snapshot(s)
    BY <2>6 DEF Snapshot, DropHandle
  <2>7. CASE Decide(s)
    BY <2>7 DEF Decide, After
  <2>8. CASE BackoffElapsed(s)
    BY <2>8 DEF BackoffElapsed
  <2>9. CASE BackoffAborted(s)
    BY <2>9 DEF BackoffAborted
  <2>10. CASE SupervisorExits(s)
    BY <2>10 DEF SupervisorExits
  <2>11. CASE RunReturns(s)
    BY <2>11 DEF RunReturns
  <2> QED BY <1>3, <2>1, <2>2, <2>3, <2>4, <2>5, <2>6, <2>7, <2>8, <2>9, <2>10, <2>11
     DEF SupStep
<1>4. CASE Shutdown
  BY <1>4 DEF Shutdown
<1>5. CASE StopAll
  BY <1>5 DEF StopAll
<1>6. CASE WaitReturns
  BY <1>6 DEF WaitReturns
<1> QED BY <1>1, <1>2, <1>3, <1>4, <1>5, <1>6 DEF Next, ClientStep

\* Launch is the only step that numbers a run, and it records its cancel function.
LEMMA NumberedStep ==
  TypeOK /\ Unique /\ RunsNumbered /\ Next => RunsNumbered'
<1> SUFFICES ASSUME TypeOK, Unique, RunsNumbered, Next PROVE RunsNumbered'
  OBVIOUS
<1> USE MaxRunsAssumption 
    DEF TypeOK, Unique, RunsNumbered, InRun, RunOrNil, Run, entry, supVars, clientVars
<1>1. ASSUME NEW c \in Clients, ClientCall(c) \/ CallCancel(c) \/ ResolvePassword(c)
     PROVE RunsNumbered'
  <2>1. CASE Start(c)
    BY <2>1 DEF Start
  <2>2. CASE Stop(c)
    BY <2>2 DEF Stop, WillCancel
  <2>3. CASE RestartAlive(c)
    BY <2>3 DEF RestartAlive, WillCancel
  <2>4. CASE RestartDead(c)
    BY <2>4 DEF RestartDead, Claim
  <2>5. CASE Pause(c)
    BY <2>5 DEF Pause, NotRunning
  <2>6. CASE Resume(c)
    BY <2>6 DEF Resume, NotRunning
  <2>7. CASE CallCancel(c)
    BY <2>7 DEF CallCancel, CapturedCancel
  <2>8. CASE ResolvePassword(c)
    BY <2>8 DEF ResolvePassword
  <2> QED BY <1>1, <2>1, <2>2, <2>3, <2>4, <2>5, <2>6, <2>7, <2>8 DEF ClientCall
<1>2. ASSUME NEW c \in Clients, NEW s \in Slots, Spawn(c, s) PROVE RunsNumbered'
  BY <1>2 DEF Spawn
<1>3. ASSUME NEW s \in Slots, SupStep(s) \/ RunReturns(s) PROVE RunsNumbered'
  <2>1. CASE StopBeforeLaunch(s)
    BY <2>1 DEF StopBeforeLaunch
  <2>2. CASE Launch(s)
    BY <2>2 DEF Launch, InheritedCancel, MayRelaunch
  <2>3. CASE OnReady(s)
    BY <2>3 DEF OnReady
  <2>4. CASE OnLive(s)
    BY <2>4 DEF OnLive
  <2>5. CASE OnExit(s)
    BY <2>5 DEF OnExit
  <2>6. CASE Snapshot(s)
    BY <2>6 DEF Snapshot, DropHandle
  <2>7. CASE Decide(s)
    BY <2>7 DEF Decide, After
  <2>8. CASE BackoffElapsed(s)
    BY <2>8 DEF BackoffElapsed
  <2>9. CASE BackoffAborted(s)
    BY <2>9 DEF BackoffAborted
  <2>10. CASE SupervisorExits(s)
    BY <2>10 DEF SupervisorExits
  <2>11. CASE RunReturns(s)
    BY <2>11 DEF RunReturns
  <2> QED BY <1>3, <2>1, <2>2, <2>3, <2>4, <2>5, <2>6, <2>7, <2>8, <2>9, <2>10, <2>11
     DEF SupStep
<1>4. CASE Shutdown
  BY <1>4 DEF Shutdown
<1>5. CASE StopAll
  BY <1>5 DEF StopAll
<1>6. CASE WaitReturns
  BY <1>6 DEF WaitReturns
<1> QED BY <1>1, <1>2, <1>3, <1>4, <1>5, <1>6 DEF Next, ClientStep

\* A captured cancel function is called late, but the request it was read for is
\* withdrawn only by a launch, which starts a run with a new context.
LEMMA JustifiedStep ==
  TypeOK /\ Unique /\ RunsNumbered /\ CancelJustified /\ Next => CancelJustified'
<1> SUFFICES ASSUME TypeOK, Unique, RunsNumbered, CancelJustified, Next PROVE CancelJustified'
  OBVIOUS
<1> USE MaxRunsAssumption 
    DEF TypeOK, Unique, RunsNumbered, CancelJustified, InRun, RunOrNil, Run, entry,
            supVars, clientVars
<1>1. ASSUME NEW c \in Clients, ClientCall(c) \/ CallCancel(c) \/ ResolvePassword(c)
     PROVE CancelJustified'
  <2>1. CASE Start(c)
    BY <2>1 DEF Start
  <2>2. CASE Stop(c)
    BY <2>2 DEF Stop, WillCancel
  <2>3. CASE RestartAlive(c)
    BY <2>3 DEF RestartAlive, WillCancel
  <2>4. CASE RestartDead(c)
    BY <2>4 DEF RestartDead, Claim
  <2>5. CASE Pause(c)
    BY <2>5 DEF Pause, NotRunning
  <2>6. CASE Resume(c)
    BY <2>6 DEF Resume, NotRunning
  <2>7. CASE CallCancel(c)
    BY <2>7 DEF CallCancel, CapturedCancel
  <2>8. CASE ResolvePassword(c)
    BY <2>8 DEF ResolvePassword
  <2> QED BY <1>1, <2>1, <2>2, <2>3, <2>4, <2>5, <2>6, <2>7, <2>8 DEF ClientCall
<1>2. ASSUME NEW c \in Clients, NEW s \in Slots, Spawn(c, s) PROVE CancelJustified'
  BY <1>2 DEF Spawn
<1>3. ASSUME NEW s \in Slots, SupStep(s) \/ RunReturns(s) PROVE CancelJustified'
  <2>1. CASE StopBeforeLaunch(s)
    BY <2>1 DEF StopBeforeLaunch
  <2>2. CASE Launch(s)
    BY <2>2 DEF Launch, InheritedCancel, MayRelaunch
  <2>3. CASE OnReady(s)
    BY <2>3 DEF OnReady
  <2>4. CASE OnLive(s)
    BY <2>4 DEF OnLive
  <2>5. CASE OnExit(s)
    BY <2>5 DEF OnExit
  <2>6. CASE Snapshot(s)
    BY <2>6 DEF Snapshot, DropHandle
  <2>7. CASE Decide(s)
    BY <2>7 DEF Decide, After
  <2>8. CASE BackoffElapsed(s)
    BY <2>8 DEF BackoffElapsed
  <2>9. CASE BackoffAborted(s)
    BY <2>9 DEF BackoffAborted
  <2>10. CASE SupervisorExits(s)
    BY <2>10 DEF SupervisorExits
  <2>11. CASE RunReturns(s)
    BY <2>11 DEF RunReturns
  <2> QED BY <1>3, <2>1, <2>2, <2>3, <2>4, <2>5, <2>6, <2>7, <2>8, <2>9, <2>10, <2>11
     DEF SupStep
<1>4. CASE Shutdown
  BY <1>4 DEF Shutdown
<1>5. CASE StopAll
  BY <1>5 DEF StopAll
<1>6. CASE WaitReturns
  BY <1>6 DEF WaitReturns
<1> QED BY <1>1, <1>2, <1>3, <1>4, <1>5, <1>6 DEF Next, ClientStep

\* The handle and the surface are dropped before their run's goroutine moves on.
LEMMA HandleStep ==
  TypeOK /\ Unique /\ HandleIsLive /\ Next => HandleIsLive'
<1> SUFFICES ASSUME TypeOK, Unique, HandleIsLive, Next PROVE HandleIsLive'
  OBVIOUS
<1> USE MaxRunsAssumption 
    DEF TypeOK, Unique, HandleIsLive, entry, supVars, clientVars
<1>1. ASSUME NEW c \in Clients, ClientCall(c) \/ CallCancel(c) \/ ResolvePassword(c)
     PROVE HandleIsLive'
  <2>1. CASE Start(c)
    BY <2>1 DEF Start
  <2>2. CASE Stop(c)
    BY <2>2 DEF Stop, WillCancel
  <2>3. CASE RestartAlive(c)
    BY <2>3 DEF RestartAlive, WillCancel
  <2>4. CASE RestartDead(c)
    BY <2>4 DEF RestartDead, Claim
  <2>5. CASE Pause(c)
    BY <2>5 DEF Pause, NotRunning
  <2>6. CASE Resume(c)
    BY <2>6 DEF Resume, NotRunning
  <2>7. CASE CallCancel(c)
    BY <2>7 DEF CallCancel, CapturedCancel
  <2>8. CASE ResolvePassword(c)
    BY <2>8 DEF ResolvePassword
  <2> QED BY <1>1, <2>1, <2>2, <2>3, <2>4, <2>5, <2>6, <2>7, <2>8 DEF ClientCall
<1>2. ASSUME NEW c \in Clients, NEW s \in Slots, Spawn(c, s) PROVE HandleIsLive'
  BY <1>2 DEF Spawn
<1>3. ASSUME NEW s \in Slots, SupStep(s) \/ RunReturns(s) PROVE HandleIsLive'
  <2>1. CASE StopBeforeLaunch(s)
    BY <2>1 DEF StopBeforeLaunch
  <2>2. CASE Launch(s)
    BY <2>2 DEF Launch, InheritedCancel, MayRelaunch
  <2>3. CASE OnReady(s)
    BY <2>3 DEF OnReady
  <2>4. CASE OnLive(s)
    BY <2>4 DEF OnLive
  <2>5. CASE OnExit(s)
    BY <2>5 DEF OnExit
  <2>6. CASE Snapshot(s)
    BY <2>6 DEF Snapshot, DropHandle
  <2>7. CASE Decide(s)
    BY <2>7 DEF Decide, After
  <2>8. CASE BackoffElapsed(s)
    BY <2>8 DEF BackoffElapsed
  <2>9. CASE BackoffAborted(s)
    BY <2>9 DEF BackoffAborted
  <2>10. CASE SupervisorExits(s)
    BY <2>10 DEF SupervisorExits
  <2>11. CASE RunReturns(s)
    BY <2>11 DEF RunReturns
  <2> QED BY <1>3, <2>1, <2>2, <2>3, <2>4, <2>5, <2>6, <2>7, <2>8, <2>9, <2>10, <2>11
     DEF SupStep
<1>4. CASE Shutdown
  BY <1>4 DEF Shutdown
<1>5. CASE StopAll
  BY <1>5 DEF StopAll
<1>6. CASE WaitReturns
  BY <1>6 DEF WaitReturns
<1> QED BY <1>1, <1>2, <1>3, <1>4, <1>5, <1>6 DEF Next, ClientStep

\* Pause and Resume need a handle, which an exiting supervisor no longer has.
LEMMA StatusStep ==
  TypeOK /\ Unique /\ RunsNumbered /\ HandleIsLive /\ StatusSound /\ Next => StatusSound'
<1> SUFFICES ASSUME TypeOK, Unique, RunsNumbered, HandleIsLive, StatusSound, Next
         PROVE StatusSound'
  OBVIOUS
<1> USE DEF TypeOK, Unique, RunsNumbered, HandleIsLive, StatusSound, ExitStatus,
        NotWedgedLive, Terminal, entry, supVars, clientVars
<1>1. ASSUME NEW c \in Clients, ClientCall(c) \/ CallCancel(c) \/ ResolvePassword(c)
     PROVE StatusSound'
  <2>1. CASE Start(c)
    BY <2>1 DEF Start
  <2>2. CASE Stop(c)
    BY <2>2 DEF Stop, WillCancel
  <2>3. CASE RestartAlive(c)
    BY <2>3 DEF RestartAlive, WillCancel
  <2>4. CASE RestartDead(c)
    BY <2>4 DEF RestartDead, Claim
  <2>5. CASE Pause(c)
    BY <2>5 DEF Pause, NotRunning
  <2>6. CASE Resume(c)
    BY <2>6 DEF Resume, NotRunning
  <2>7. CASE CallCancel(c)
    BY <2>7 DEF CallCancel, CapturedCancel
  <2>8. CASE ResolvePassword(c)
    BY <2>8 DEF ResolvePassword
  <2> QED BY <1>1, <2>1, <2>2, <2>3, <2>4, <2>5, <2>6, <2>7, <2>8 DEF ClientCall
<1>2. ASSUME NEW c \in Clients, NEW s \in Slots, Spawn(c, s) PROVE StatusSound'
  BY <1>2 DEF Spawn
<1>3. ASSUME NEW s \in Slots, SupStep(s) \/ RunReturns(s) PROVE StatusSound'
  <2>1. CASE StopBeforeLaunch(s)
    BY <2>1 DEF StopBeforeLaunch
  <2>2. CASE Launch(s)
    BY <2>2 DEF Launch, InheritedCancel, MayRelaunch
  <2>3. CASE OnReady(s)
    BY <2>3 DEF OnReady
  <2>4. CASE OnLive(s)
    BY <2>4 DEF OnLive
  <2>5. CASE OnExit(s)
    BY <2>5 DEF OnExit
  <2>6. CASE Snapshot(s)
    BY <2>6 DEF Snapshot, DropHandle
  <2>7. CASE Decide(s)
    BY <2>7 DEF Decide, After
  <2>8. CASE BackoffElapsed(s)
    BY <2>8 DEF BackoffElapsed
  <2>9. CASE BackoffAborted(s)
    BY <2>9 DEF BackoffAborted
  <2>10. CASE SupervisorExits(s)
    BY <2>10 DEF SupervisorExits
  <2>11. CASE RunReturns(s)
    BY <2>11 DEF RunReturns
  <2> QED BY <1>3, <2>1, <2>2, <2>3, <2>4, <2>5, <2>6, <2>7, <2>8, <2>9, <2>10, <2>11
     DEF SupStep
<1>4. CASE Shutdown
  BY <1>4 DEF Shutdown
<1>5. CASE StopAll
  BY <1>5 DEF StopAll
<1>6. CASE WaitReturns
  BY <1>6 DEF WaitReturns
<1> QED BY <1>1, <1>2, <1>3, <1>4, <1>5, <1>6 DEF Next, ClientStep

\* The inductive invariant holds of every behaviour.
THEOREM Invariance == Spec => []IInv
<1>1. Init => IInv
  BY InitIInv
<1>2. IInv /\ [Next]_vars => IInv'
  <2> SUFFICES ASSUME IInv, [Next]_vars PROVE IInv'
    OBVIOUS
  <2>1. CASE Next
    <3>1. Unique /\ Unique'
      BY <2>1, UniqueIff, UniqueStep DEF IInv
    <3>2. OneSupervisor'
      BY <3>1 DEF OneSupervisor, Unique, Owners, Spawners
    <3> QED BY <2>1, <3>1, <3>2, TypeStep, NumberedStep, JustifiedStep, HandleStep, StatusStep
       DEF IInv, StatusSound
  <2>2. CASE UNCHANGED vars
    <3> USE <2>2 DEF vars, entry, supVars, clientVars
    <3>1. TypeOK => TypeOK'
      BY DEF TypeOK
    <3>2. OneSupervisor => OneSupervisor'
      BY DEF OneSupervisor, Owners, Spawners
    <3>3. RunsNumbered /\ CancelJustified => (RunsNumbered /\ CancelJustified)'
      BY DEF RunsNumbered, CancelJustified
    <3>4. HandleIsLive /\ ExitStatus /\ NotWedgedLive
            => (HandleIsLive /\ ExitStatus /\ NotWedgedLive)'
      BY DEF HandleIsLive, ExitStatus, NotWedgedLive
    <3> QED BY <3>1, <3>2, <3>3, <3>4 DEF IInv
  <2> QED BY <2>1, <2>2
<1> QED BY <1>1, <1>2, PTL DEF Spec

\* The fields of managedHost and the goroutines' locals keep their types.
THEOREM TypeCorrect == Spec => []TypeOK
<1>1. IInv => TypeOK
  BY DEF IInv
<1> QED BY <1>1, Invariance, PTL

\* Start, Restart and the supervisor's exit never let two goroutines own a host.
THEOREM SingleOwner == Spec => []OneSupervisor
<1>1. IInv => OneSupervisor
  BY DEF IInv
<1> QED BY <1>1, Invariance, PTL

\* Late cancel calls never hit a run launched after the request was made.
THEOREM CancelIsForThisRun == Spec => []NoSpuriousCancel
<1>1. IInv => NoSpuriousCancel
  BY DEF IInv, NoSpuriousCancel, RunsNumbered, CancelJustified
<1> QED BY <1>1, Invariance, PTL

\* Control-API calls never reach the handle or surface of a run that is gone.
THEOREM HandleSafety == Spec => []HandleIsLive
<1>1. IInv => HandleIsLive
  BY DEF IInv
<1> QED BY <1>1, Invariance, PTL

\* A host whose supervisor has exited is never left starting, running or paused.
THEOREM NeverWedgedLive == Spec => []NotWedgedLive
<1>1. IInv => NotWedgedLive
  BY DEF IInv
<1> QED BY <1>1, Invariance, PTL

\* Together: the entry's handle, surface and status never describe a run or a
\* supervisor that is gone.
THEOREM EntryTrue == Spec => []EntryIsTrue
<1>1. HandleIsLive /\ NotWedgedLive => EntryIsTrue
  BY DEF EntryIsTrue
<1> QED BY <1>1, HandleSafety, NeverWedgedLive, PTL

=============================================================================
