----------------------------- MODULE Supervisor -----------------------------
(***************************************************************************)
(* One managed host of the cradle's registry (src/cradle/registry.go): the  *)
(* supervise goroutine that runs it, and the operator calls that race with  *)
(* it.  Hosts of a fleet share only the parent context and the WaitGroup,   *)
(* so one entry of the registry's map is modelled, with the daemon's main   *)
(* goroutine (src/cmd/cradle-server/main.go) that shuts it down.            *)
(*                                                                         *)
(* Every critical section of mh.mu is one step; what happens outside the    *)
(* lock (the cancel call of Stop and Restart, ResolvePassword, the go       *)
(* statement, the supervisor's decision after its snapshot) is a step of    *)
(* its own.  The n-th call of the runner is run n; its child context, its   *)
(* cancel function and its handle are all named n, and 0 is nil.            *)
(***************************************************************************)
EXTENDS Integers, FiniteSets

CONSTANTS
  Clients,      \* goroutines serving control-API requests, and the fleet starter
  Slots,        \* supervise goroutines that may exist at the same time
  MaxRuns,      \* bound on the number of runs launched
  RestartPolicy \* spec.SupervisionPolicy() = SuperviseRestart

ASSUME MaxRunsAssumption == MaxRuns \in Nat \ {0}
ASSUME PolicyAssumption == RestartPolicy \in BOOLEAN

VARIABLES
  parentDone,   \* the parent context is cancelled
  mainPc,       \* "serve" | "stopall" | "wait" | "returned"
  managed,      \* the host is in r.hosts
  status, alive, stopReq, restartReq, cancel, handle, restarts,  \* managedHost
  runs,         \* number of runs launched so far
  cancelled,    \* child contexts that have been cancelled
  surface,      \* run whose debug surface is mounted in API.live, 0 if none
  pc,           \* where each supervise goroutine is, "none" if there is none
  run,          \* the run it is in or was last in
  seen,         \* what it decides on: "err" (the run failed), "stop", "bounce"
  call,         \* where each API goroutine is in its call
  held          \* the cancel function it read under the lock

supVars == <<pc, run, seen>>
clientVars == <<call, held>>
entry == <<status, alive, stopReq, restartReq, cancel, handle, restarts>>
vars == <<parentDone, mainPc, managed, entry, runs, cancelled, surface, supVars,
          clientVars>>

Status == {"starting", "running", "paused", "restarting", "stopped", "crashed"}
Terminal == {"stopped", "crashed"}
Run == 1..MaxRuns
RunOrNil == 0..MaxRuns

SupPc == {"none", "top", "run", "ready", "live", "returned", "exited", "decide", "backoff",
          "exit"}
InRun == {"run", "ready", "live"}

Flag(f, b) == IF b THEN {f} ELSE {}
Basis == {"err", "stop", "bounce"}
Call == {"idle", "cancel", "resolve", "spawn"}

Init ==
  /\ parentDone = FALSE /\ mainPc = "serve" /\ managed = FALSE
  /\ status = "stopped" /\ alive = FALSE /\ stopReq = FALSE /\ restartReq = FALSE
  /\ cancel = 0 /\ handle = 0 /\ restarts = 0
  /\ runs = 0 /\ cancelled = {} /\ surface = 0
  /\ pc = [s \in Slots |-> "none"]
  /\ run = [s \in Slots |-> 0]
  /\ seen = [s \in Slots |-> {}]
  /\ call = [c \in Clients |-> "idle"]
  /\ held = [c \in Clients |-> 0]

-----------------------------------------------------------------------------
(* The operator's calls. *)

\* Start: validate, register the entry under r.mu, then spawn.  The password is
\* resolved before the entry exists, so a failure leaves nothing behind.
Start(c) ==
  /\ call[c] = "idle" /\ ~managed
  /\ managed' = TRUE /\ status' = "starting" /\ alive' = TRUE
  /\ call' = [call EXCEPT ![c] = "spawn"]
  /\ UNCHANGED <<parentDone, mainPc, stopReq, restartReq, cancel, handle, restarts,
                 runs, cancelled, surface, supVars, held>>

\* The child context of a new run is derived from the parent context.
DetachedContext(n) == {}
InheritedCancel(n) == IF parentDone THEN {n} ELSE {}

\* The cancel function read under the lock is called after it is released.
WillCancel(c) ==
  /\ call' = [call EXCEPT ![c] = IF cancel = 0 THEN "idle" ELSE "cancel"]
  /\ held' = [held EXCEPT ![c] = cancel]

Stop(c) ==
  /\ call[c] = "idle" /\ managed
  /\ stopReq' = TRUE
  /\ WillCancel(c)
  /\ UNCHANGED <<parentDone, mainPc, managed, status, alive, restartReq, cancel,
                 handle, restarts, runs, cancelled, surface, supVars>>

CurrentCancel(c) == cancel
CapturedCancel(c) == held[c]

CallCancel(c) ==
  /\ call[c] = "cancel"
  /\ cancelled' = cancelled \union {CapturedCancel(c)}
  /\ call' = [call EXCEPT ![c] = "idle"]
  /\ held' = [held EXCEPT ![c] = 0]
  /\ UNCHANGED <<parentDone, mainPc, managed, entry, runs, surface, supVars>>

\* The bound: what leads to another run (an operator's Restart, a failure under
\* the restart policy) happens only while one more run may be launched.
MayRelaunch == runs < MaxRuns

\* Restart of a host whose supervisor is alive: flag the bounce and cut the run.
RestartAlive(c) ==
  /\ call[c] = "idle" /\ managed /\ alive /\ MayRelaunch
  /\ stopReq' = FALSE /\ restartReq' = TRUE /\ status' = "restarting"
  /\ WillCancel(c)
  /\ UNCHANGED <<parentDone, mainPc, managed, alive, cancel, handle, restarts, runs,
                 cancelled, surface, supVars>>

\* Restart of a host whose supervisor has exited: claim it, then respawn.
NoClaim == UNCHANGED alive
Claim == alive' = TRUE

RestartDead(c) ==
  /\ call[c] = "idle" /\ managed /\ ~alive /\ MayRelaunch
  /\ stopReq' = FALSE /\ restartReq' = FALSE /\ status' = "starting" /\ Claim
  /\ call' = [call EXCEPT ![c] = "resolve"]
  /\ UNCHANGED <<parentDone, mainPc, managed, cancel, handle, restarts, runs,
                 cancelled, surface, supVars, held>>

ResolvePassword(c) ==
  /\ call[c] = "resolve"
  /\ \/ /\ call' = [call EXCEPT ![c] = "spawn"]
        /\ UNCHANGED <<alive, status>>
     \/ /\ call' = [call EXCEPT ![c] = "idle"]
        /\ alive' = FALSE /\ status' = "crashed"
  /\ UNCHANGED <<parentDone, mainPc, managed, stopReq, restartReq, cancel, handle,
                 restarts, runs, cancelled, surface, supVars, held>>

\* r.wg.Add(1); go r.supervise(...)
Spawn(c, s) ==
  /\ call[c] = "spawn" /\ pc[s] = "none"
  /\ pc' = [pc EXCEPT ![s] = "top"]
  /\ call' = [call EXCEPT ![c] = "idle"]
  /\ UNCHANGED <<parentDone, mainPc, managed, entry, runs, cancelled, surface, run,
                 seen, held>>

\* The check shared by Pause, Resume and runningHandle.
NotRunning == stopReq \/ status \in Terminal \/ handle = 0

\* Pause and Resume gate the conductor of the handle (module Conductor) and write
\* the status in one critical section.
Pause(c) ==
  /\ call[c] = "idle" /\ managed /\ ~NotRunning
  /\ status' = "paused"
  /\ UNCHANGED <<parentDone, mainPc, managed, alive, stopReq, restartReq, cancel,
                 handle, restarts, runs, cancelled, surface, supVars, clientVars>>

Resume(c) ==
  /\ call[c] = "idle" /\ managed /\ ~NotRunning
  /\ status' = "running"
  /\ UNCHANGED <<parentDone, mainPc, managed, alive, stopReq, restartReq, cancel,
                 handle, restarts, runs, cancelled, surface, supVars, clientVars>>

-----------------------------------------------------------------------------
(* The supervise goroutine. *)

\* Top of the loop, stop requested before the launch.
LaunchAnyway == FALSE
StopVetoesLaunch == stopReq

StopBeforeLaunch(s) ==
  /\ pc[s] = "top" /\ StopVetoesLaunch
  /\ status' = "stopped"
  /\ pc' = [pc EXCEPT ![s] = "exit"]
  /\ UNCHANGED <<parentDone, mainPc, managed, alive, stopReq, restartReq, cancel,
                 handle, restarts, runs, cancelled, surface, run, seen, clientVars>>

\* Top of the loop: a new child context, whose parent may already be done.
Launch(s) ==
  /\ pc[s] = "top" /\ ~StopVetoesLaunch /\ MayRelaunch
  /\ runs' = runs + 1 /\ cancel' = runs + 1
  /\ cancelled' = cancelled \union InheritedCancel(runs + 1)
  /\ restartReq' = FALSE /\ status' = "starting" /\ handle' = 0
  /\ pc' = [pc EXCEPT ![s] = "run"]
  /\ run' = [run EXCEPT ![s] = runs + 1]
  /\ UNCHANGED <<parentDone, mainPc, managed, alive, stopReq, restarts, surface, seen,
                 clientVars>>

\* OnReady publishes the handle, then (outside the lock) calls the onLive hook.
OnReady(s) ==
  /\ pc[s] = "run"
  /\ handle' = run[s]
  /\ status' = IF status = "starting" THEN "running" ELSE status
  /\ pc' = [pc EXCEPT ![s] = "ready"]
  /\ UNCHANGED <<parentDone, mainPc, managed, alive, stopReq, restartReq, cancel,
                 restarts, runs, cancelled, surface, run, seen, clientVars>>

OnLive(s) ==
  /\ pc[s] = "ready"
  /\ surface' = run[s]
  /\ pc' = [pc EXCEPT ![s] = "live"]
  /\ UNCHANGED <<parentDone, mainPc, managed, entry, runs, cancelled, run, seen,
                 clientVars>>

\* r.run returns, before it was ready or after; cancel() releases its context.
RunReturns(s) ==
  /\ pc[s] \in {"run", "live"}
  /\ cancelled' = cancelled \union {run[s]}
  /\ \E failed \in BOOLEAN :
       /\ failed /\ RestartPolicy => MayRelaunch
       /\ seen' = [seen EXCEPT ![s] = Flag("err", failed)]
  /\ pc' = [pc EXCEPT ![s] = "returned"]
  /\ UNCHANGED <<parentDone, mainPc, managed, entry, runs, surface, run, clientVars>>

OnExit(s) ==
  /\ pc[s] = "returned"
  /\ surface' = 0
  /\ pc' = [pc EXCEPT ![s] = "exited"]
  /\ UNCHANGED <<parentDone, mainPc, managed, entry, runs, cancelled, run, seen,
                 clientVars>>

KeepHandle == UNCHANGED handle
DropHandle == handle' = 0

\* The requests are read, and the bounce consumed, in one critical section ...
Snapshot(s) ==
  /\ pc[s] = "exited"
  /\ pc' = [pc EXCEPT ![s] = "decide"]
  /\ seen' = [seen EXCEPT ![s] = @ \union Flag("stop", stopReq)
                                     \union Flag("bounce", restartReq)]
  /\ restartReq' = FALSE /\ DropHandle
  /\ UNCHANGED <<parentDone, mainPc, managed, status, alive, stopReq, cancel, restarts,
                 runs, cancelled, surface, run, clientVars>>

\* ... and the decision is taken on what was read, outside it.
AfterIgnoringBounce(s) ==
  IF "stop" \in seen[s] \/ parentDone THEN [pc |-> "exit", status |-> "stopped"]
  ELSE IF "err" \in seen[s] /\ RestartPolicy THEN [pc |-> "backoff", status |-> "restarting"]
  ELSE [pc |-> "exit", status |-> IF "err" \in seen[s] THEN "crashed" ELSE "stopped"]


After(s) ==
  IF "stop" \in seen[s] \/ parentDone THEN [pc |-> "exit", status |-> "stopped"]
  ELSE IF "bounce" \in seen[s] THEN [pc |-> "top", status |-> status]
  ELSE IF "err" \in seen[s] /\ RestartPolicy THEN [pc |-> "backoff", status |-> "restarting"]
  ELSE [pc |-> "exit", status |-> IF "err" \in seen[s] THEN "crashed" ELSE "stopped"]

Decide(s) ==
  /\ pc[s] = "decide"
  /\ status' = After(s).status
  /\ pc' = [pc EXCEPT ![s] = After(s).pc]
  /\ UNCHANGED <<parentDone, mainPc, managed, alive, stopReq, restartReq, cancel,
                 handle, restarts, runs, cancelled, surface, run, seen, clientVars>>

\* The crash backoff ends by itself or by the parent context; no operator call
\* wakes it.
BackoffElapsed(s) ==
  /\ pc[s] = "backoff"
  /\ restarts' = restarts + 1
  /\ pc' = [pc EXCEPT ![s] = "top"]
  /\ UNCHANGED <<parentDone, mainPc, managed, status, alive, stopReq, restartReq,
                 cancel, handle, runs, cancelled, surface, run, seen, clientVars>>

BackoffAborted(s) ==
  /\ pc[s] = "backoff" /\ parentDone
  /\ status' = "stopped"
  /\ pc' = [pc EXCEPT ![s] = "exit"]
  /\ UNCHANGED <<parentDone, mainPc, managed, alive, stopReq, restartReq, cancel,
                 handle, restarts, runs, cancelled, surface, run, seen, clientVars>>

\* The deferred functions: alive = false, then wg.Done().
SupervisorExits(s) ==
  /\ pc[s] = "exit"
  /\ alive' = FALSE
  /\ pc' = [pc EXCEPT ![s] = "none"]
  /\ run' = [run EXCEPT ![s] = 0]
  /\ seen' = [seen EXCEPT ![s] = {}]
  /\ UNCHANGED <<parentDone, mainPc, managed, status, stopReq, restartReq, cancel,
                 handle, restarts, runs, cancelled, surface, clientVars>>

-----------------------------------------------------------------------------
(* The daemon's main goroutine: a signal cancels the parent context and with *)
(* it every child, then StopAll, then Wait.                                  *)

Shutdown ==
  /\ mainPc = "serve"
  /\ parentDone' = TRUE /\ mainPc' = "stopall"
  /\ cancelled' = cancelled \union 1..runs
  /\ UNCHANGED <<managed, entry, runs, surface, supVars, clientVars>>

StopAll ==
  /\ mainPc = "stopall"
  /\ mainPc' = "wait"
  /\ stopReq' = (managed \/ stopReq)
  /\ cancelled' = IF managed /\ cancel # 0 THEN cancelled \union {cancel} ELSE cancelled
  /\ UNCHANGED <<parentDone, managed, status, alive, restartReq, cancel, handle,
                 restarts, runs, surface, supVars, clientVars>>

\* wg.Wait returns and the process exits: nothing runs after it.
WaitReturns ==
  /\ mainPc = "wait"
  /\ \A s \in Slots : pc[s] = "none"
  /\ mainPc' = "returned"
  /\ UNCHANGED <<parentDone, managed, entry, runs, cancelled, surface, supVars,
                 clientVars>>

-----------------------------------------------------------------------------
ClientStep(c) ==
  \/ CallCancel(c) \/ ResolvePassword(c)
  \/ \E s \in Slots : Spawn(c, s)

ClientCall(c) ==
  \/ Start(c) \/ Stop(c) \/ RestartAlive(c) \/ RestartDead(c) \/ Pause(c) \/ Resume(c)

SupStep(s) ==
  \/ StopBeforeLaunch(s) \/ Launch(s) \/ OnReady(s) \/ OnLive(s) \/ OnExit(s)
  \/ Snapshot(s) \/ Decide(s) \/ BackoffElapsed(s) \/ BackoffAborted(s)
  \/ SupervisorExits(s)

\* Every goroutine dies with the process, that is, when main returns.
Next ==
  /\ mainPc # "returned"
  /\ \/ \E c \in Clients : ClientCall(c) \/ ClientStep(c)
     \/ \E s \in Slots : SupStep(s) \/ RunReturns(s)
     \/ Shutdown \/ StopAll \/ WaitReturns

Spec == Init /\ [][Next]_vars

\* A run may last for ever, but not once its context is cancelled: RunHost
\* watches the context at every wait.
RunObeysCancel(s) == run[s] \in cancelled /\ RunReturns(s)

\* Goroutines are scheduled: every step of a supervisor, of an API call already
\* under way and of main is eventually taken.  Operators need not call.  The
\* Done that brings the WaitGroup to zero releases the waiter, so Wait does not
\* have to find it at zero continuously.
Up(step) == mainPc # "returned" /\ step

Fairness ==
  /\ \A c \in Clients : WF_vars(Up(ClientStep(c)))
  /\ \A s \in Slots : WF_vars(Up(SupStep(s))) /\ WF_vars(Up(RunObeysCancel(s)))
  /\ WF_vars(StopAll) /\ SF_vars(WaitReturns)

FairSpec == Spec /\ Fairness

-----------------------------------------------------------------------------
(* Properties. *)

\* Every variable keeps its type (the fields of managedHost, registry.go:74-92).
TypeOK ==
  /\ parentDone \in BOOLEAN /\ managed \in BOOLEAN
  /\ mainPc \in {"serve", "stopall", "wait", "returned"}
  /\ status \in Status
  /\ alive \in BOOLEAN /\ stopReq \in BOOLEAN /\ restartReq \in BOOLEAN
  /\ runs \in RunOrNil /\ cancel \in RunOrNil /\ handle \in RunOrNil /\ surface \in RunOrNil
  /\ restarts \in Nat
  /\ cancelled \subseteq Run
  /\ pc \in [Slots -> SupPc] /\ run \in [Slots -> RunOrNil]
  /\ seen \in [Slots -> SUBSET Basis]
  /\ call \in [Clients -> Call] /\ held \in [Clients -> RunOrNil]

\* A goroutine that owns the host, or an API call that is about to spawn one.
Owners == {s \in Slots : pc[s] # "none"}
Spawners == {c \in Clients : call[c] \in {"resolve", "spawn"}}

\* However Start, Restart and the supervisor's exit interleave, at most one
\* supervise goroutine owns the host or is about to, and only while it is
\* claimed: two of them would log the same character in twice.
OneSupervisor ==
  /\ \A s, t \in Owners : s = t
  /\ \A c, d \in Spawners : c = d
  /\ Owners = {} \/ Spawners = {}
  /\ Owners # {} \/ Spawners # {} => alive

\* The published handle and the mounted debug surface belong to the run in
\* progress; API calls never reach into a run whose goroutine is gone.
HandleIsLive ==
  /\ handle # 0 => \E s \in Slots :
        run[s] = handle /\ pc[s] \in {"ready", "live", "returned", "exited"}
  /\ surface # 0 => \E s \in Slots :
        run[s] = surface /\ pc[s] \in {"live", "returned"}

\* A run in progress has its context cancelled only for a request that is still
\* standing: a late cancel call of an earlier Stop or Restart never hits the
\* run that was launched after it.
NoSpuriousCancel ==
  \A s \in Slots : pc[s] \in InRun /\ run[s] \in cancelled
                     => stopReq \/ restartReq \/ parentDone

\* A host without a supervisor is never shown as starting, running or paused
\* (the comment of Pause: a host that exits concurrently cannot be left wedged
\* as "paused").
NotWedgedLive == alive \/ status \in Terminal \union {"restarting"}

\* What the registry shows of a host is true: handle and debug surface belong to the
\* run in progress, and a live status to a supervisor that still exists
\* (registry.go:242-269, 374-391).
EntryIsTrue == HandleIsLive /\ NotWedgedLive

\* A Stop is final unless a Restart takes it back: the supervisor goroutine
\* goes away.
StopStops == stopReq ~> (~alive \/ ~stopReq \/ mainPc = "returned")

\* A bounce requested while a run is in progress leads back to the top of the
\* loop, unless a Stop or the shutdown comes between.
BounceRelaunches ==
  \A s \in Slots : (restartReq /\ pc[s] \in InRun)
                     ~> (pc[s] = "top" \/ stopReq \/ parentDone)

\* A shutdown signal ends the daemon: Wait returns.
ShutdownCompletes == parentDone ~> mainPc = "returned"

-----------------------------------------------------------------------------
(* What the repository says of this code and the code does not keep: see the  *)
(* README's known disagreements.                                              *)

\* A host whose supervisor has exited is stopped or crashed, the two states a
\* Restart relaunches it from (registry.go:325-330).
DeadIsTerminal == alive \/ status \in Terminal

=============================================================================
