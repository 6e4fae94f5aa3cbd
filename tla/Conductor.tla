----------------------------- MODULE Conductor ------------------------------
(***************************************************************************)
(* The turn loop of one host (src/runtime/conductor.go) with its detours    *)
(* (detour.go): the conductor goroutine asks the director for an intent,    *)
(* runs it as a suspendable coroutine (the grind), and on an interrupt      *)
(* parks the grind (coro.go, src/dsl/interp/suspend.go), runs detours and   *)
(* resumes it.  Operators pause and resume the loop, directly or through    *)
(* analysis mode (analysis.go); arbiters raise interrupts; timers fire.     *)
(*                                                                         *)
(* A critical section, a channel operation and a select are one step each.  *)
(* A cancel function is named by what it cancels: "turn" the turn context,  *)
(* "dual" the turn context and the detour's.  Cancelling a context that is  *)
(* already over does nothing, so a captured cancel function lapses when     *)
(* what it cancels is over.                                                 *)
(***************************************************************************)
EXTENDS Integers, Sequences, FiniteSets

CONSTANTS
  Operators,   \* goroutines calling Pause, Resume, EnterAnalysis, ExitAnalysis
  Speakers,    \* players whose chat raises reactive interrupts
  Reflexes,    \* the arbiters that run: tiers other than "reactive"
  QueueCap     \* capacity of the interrupts channel (4 in the code)

ASSUME QueueCapAssumption == QueueCap \in Nat \ {0}
ASSUME ReflexesAssumption == Reflexes \subseteq {"survival", "fatigue", "displacement"}
ASSUME SpeakersAssumption == Speakers \intersect {"survival", "fatigue"} = {}

VARIABLES
  ctxDone,     \* the host context is cancelled
  mpc,         \* where the conductor goroutine is
  paused,      \* c.paused
  turnCancel,  \* c.turnCancel: "none" (nil) | "turn" | "dual"
  turnCtx,     \* "none" | "live" | "cancelled" | "deadline"
  detCtx,      \* "none" | "live" | "over"
  batch,       \* the detours still to be run under the current park
  aborting,    \* the turn is being aborted by a displacement
  out, last,   \* the outcome of this turn and the one the director sees next: "cut"
               \* is an error of a cancelled context, "aborted" the same after a
               \* displacement's cancel, "ended" every other outcome
  gpc,         \* the grind: "none" | "running" | "announce" | "parked" | "done"
  gout,        \* how it ended: "none" | "ended" | "cut" (its context was over)
  det,         \* the detour: "none" | "running" | "done"
  reqTok, resTok,        \* the one-slot channels of SuspendController
  interrupts, pending,   \* c.interrupts and c.pendingReactive
  committed,   \* world.InCommittedRegion()
  inCrisis,    \* the survival arbiter's latch
  served,      \* history: a survival detour was started in this low-HP episode
  active,      \* analysis.active
  opc, held    \* the operators' place in their call and captured cancel function

suspendVars == <<reqTok, resTok>>
queueVars == <<interrupts, pending>>
worldVars == <<committed, inCrisis, served>>
turnVars == <<turnCancel, turnCtx, detCtx, batch, aborting, out, last>>
coroVars == <<gpc, gout, det>>
opVars == <<active, opc, held>>
vars ==
  <<ctxDone, mpc, paused, turnVars, coroVars, suspendVars, queueVars, worldVars, opVars>>

Tier == {"survival", "fatigue", "displacement", "reactive"}
MainPc == {"loop", "gate", "plan", "start", "turn", "suspend", "parking", "detour",
           "detouring", "joining", "unswap", "resume", "abort", "drain", "clear", "end",
           "record", "settle", "returned"}
Outcome == {"none", "ended", "cut", "aborted"}
OpPc == {"idle", "freeze", "thaw", "cancel", "drain", "clear"}

Init ==
  /\ ctxDone = FALSE /\ mpc = "loop" /\ paused = FALSE /\ turnCancel = "none"
  /\ turnCtx = "none" /\ detCtx = "none" /\ batch = {} /\ aborting = FALSE
  /\ out = "none" /\ last = "none"
  /\ gpc = "none" /\ gout = "none" /\ det = "none"
  /\ reqTok = FALSE /\ resTok = FALSE /\ interrupts = << >> /\ pending = {}
  /\ committed = FALSE /\ inCrisis = FALSE /\ served = FALSE /\ active = FALSE
  /\ opc = [o \in Operators |-> "idle"]
  /\ held = [o \in Operators |-> "none"]

-----------------------------------------------------------------------------
(* The conductor goroutine: Run. *)

\* The context is checked at the top of the loop; gate then waits while paused,
\* for a Resume or for the context.
Loop ==
  /\ mpc = "loop"
  /\ mpc' = IF ctxDone THEN "returned" ELSE "gate"
  /\ UNCHANGED <<ctxDone, paused, turnVars, coroVars, suspendVars, queueVars,
                 worldVars, opVars>>

GateIgnored == TRUE
GateOpen == ~paused

Gate ==
  /\ mpc = "gate"
  /\ \/ GateOpen /\ mpc' = "plan"
     \/ ctxDone /\ mpc' = "returned"
  /\ UNCHANGED <<ctxDone, paused, turnVars, coroVars, suspendVars, queueVars,
                 worldVars, opVars>>

\* director.Next: it may take long, and a director may be done.
Plan ==
  /\ mpc = "plan"
  /\ mpc' \in {"start", "returned"}
  /\ UNCHANGED <<ctxDone, paused, turnVars, coroVars, suspendVars, queueVars,
                 worldVars, opVars>>

\* The turn context, its cancel function registered under pauseMu, and the coroutine.
BeginTurn ==
  /\ mpc = "start"
  /\ turnCtx' = IF ctxDone THEN "cancelled" ELSE "live"
  /\ turnCancel' = "turn"
  /\ gpc' = "running"
  /\ mpc' = "turn"
  /\ UNCHANGED <<ctxDone, paused, detCtx, batch, aborting, out, last, gout, det,
                 suspendVars, queueVars, worldVars, opVars>>

\* What the turn reports.  A deadline marks it as out of budget, which is not an
\* error of the routine.
OutcomeOf == IF turnCtx = "cancelled" THEN gout ELSE "ended"

\* The select of executeWithDetours: the coroutine's end ...
TurnEnds ==
  /\ mpc = "turn" /\ gpc = "done"
  /\ out' = OutcomeOf /\ mpc' = "end"
  /\ UNCHANGED <<ctxDone, paused, turnCancel, turnCtx, detCtx, batch, aborting, last,
                 coroVars, suspendVars, queueVars, worldVars, opVars>>

\* ... or an interrupt.  Survival always preempts; every other tier only outside
\* an open trade, duel or bank.  A reactive wakeup takes the whole coalesced batch.
ShouldDetour(tier) == tier = "survival" \/ ~committed

TakeInterrupt ==
  /\ mpc = "turn" /\ interrupts # << >>
  /\ interrupts' = Tail(interrupts)
  /\ LET tier == Head(interrupts)
         requests == IF tier = "reactive" THEN pending ELSE {tier} IN
       /\ pending' = IF tier = "reactive" THEN {} ELSE pending
       /\ IF requests = {} \/ ~ShouldDetour(tier)
          THEN UNCHANGED <<mpc, batch, aborting, turnCtx>>
          ELSE IF tier = "displacement"
          THEN /\ aborting' = TRUE /\ mpc' = "abort"
               /\ turnCtx' = IF turnCtx = "live" THEN "cancelled" ELSE turnCtx
               /\ UNCHANGED batch
          ELSE batch' = requests /\ mpc' = "suspend" /\ UNCHANGED <<aborting, turnCtx>>
  /\ UNCHANGED <<ctxDone, paused, turnCancel, detCtx, out, last, coroVars, suspendVars,
                 worldVars, opVars>>

\* RequestSuspend: offer the request, then wait for the rendezvous, for the
\* coroutine's end or for the turn context.
RequestSuspend ==
  /\ mpc = "suspend"
  /\ reqTok' = TRUE /\ mpc' = "parking"
  /\ UNCHANGED <<ctxDone, paused, turnVars, coroVars, resTok, queueVars, worldVars,
                 opVars>>

Parked ==
  /\ mpc = "parking" /\ gpc = "announce"
  /\ gpc' = "parked" /\ mpc' = "detour"
  /\ UNCHANGED <<ctxDone, paused, turnVars, gout, det, suspendVars, queueVars,
                 worldVars, opVars>>

SuspendFails ==
  /\ mpc = "parking" /\ (gpc = "done" \/ turnCtx # "live")
  /\ batch' = {} /\ mpc' = "turn"
  /\ UNCHANGED <<ctxDone, paused, turnCancel, turnCtx, detCtx, aborting, out, last,
                 coroVars, suspendVars, queueVars, worldVars, opVars>>

\* runDetour: swap in the dual cancel and read the pause flag in one critical
\* section; if the freeze came first, skip the detour.
FreezeUnseen == FALSE
FreezeSeen == paused

StartDetour ==
  /\ mpc = "detour"
  /\ turnCancel' = "dual"
  /\ \E r \in batch :
       /\ batch' = batch \ {r}
       /\ IF FreezeSeen
          THEN mpc' = "unswap" /\ detCtx' = "over" /\ UNCHANGED <<det, served>>
          ELSE /\ mpc' = "detouring" /\ det' = "running"
               /\ detCtx' = IF ctxDone THEN "over" ELSE "live"
               /\ served' = (served \/ (inCrisis /\ r = "survival"))
  /\ UNCHANGED <<ctxDone, paused, turnCtx, aborting, out, last, gpc, gout, suspendVars,
                 queueVars, committed, inCrisis, opVars>>

DetourJoined ==
  /\ mpc \in {"detouring", "joining"} /\ det = "done"
  /\ mpc' = "unswap"
  /\ UNCHANGED <<ctxDone, paused, turnVars, coroVars, suspendVars, queueVars,
                 worldVars, opVars>>

DetourCut ==
  /\ mpc = "detouring" /\ detCtx = "over"
  /\ mpc' = "joining"
  /\ UNCHANGED <<ctxDone, paused, turnVars, coroVars, suspendVars, queueVars,
                 worldVars, opVars>>

\* The bounded join gives up on a detour that does not exit: its goroutine is
\* leaked and no longer part of the model.
JoinUnbounded == FALSE
JoinBounded == TRUE

JoinTimesOut ==
  /\ JoinBounded
  /\ mpc = "joining" /\ det = "running"
  /\ det' = "none" /\ mpc' = "unswap"
  /\ UNCHANGED <<ctxDone, paused, turnVars, gpc, gout, suspendVars, queueVars,
                 worldVars, opVars>>

\* The deferred functions of runDetour: the turn's own cancel back, dcancel().
\* A dual cancel function captured by an operator now cancels the turn only.
EndDetour ==
  /\ mpc = "unswap"
  /\ turnCancel' = "turn" /\ detCtx' = "none" /\ det' = "none"
  /\ held' = [o \in Operators |-> IF held[o] = "dual" THEN "turn" ELSE held[o]]
  /\ mpc' = IF batch = {} THEN "resume" ELSE "detour"
  /\ UNCHANGED <<ctxDone, paused, turnCtx, batch, aborting, out, last, gpc, gout,
                 suspendVars, queueVars, worldVars, active, opc>>

\* One slot: the signal is kept if the grind is not waiting for it.
ResumeLost == UNCHANGED resTok
ResumeSignal == resTok' = TRUE

ResumeGrind ==
  /\ mpc = "resume"
  /\ ResumeSignal /\ mpc' = "drain"
  /\ UNCHANGED <<ctxDone, paused, turnVars, coroVars, reqTok, queueVars, worldVars,
                 opVars>>

\* The abort tier cancels the turn and waits for the coroutine to exit; the director
\* is told of the displacement, with the cancelled outcome unless the routine had
\* finished first.
AbortJoined ==
  /\ mpc = "abort" /\ gpc = "done"
  /\ out' = (IF gout = "cut" THEN "aborted" ELSE gout) /\ mpc' = "drain"
  /\ UNCHANGED <<ctxDone, paused, turnCancel, turnCtx, detCtx, batch, aborting, last,
                 coroVars, suspendVars, queueVars, worldVars, opVars>>

\* drainInterrupts: empty the channel, then clear the coalesced chat.
DrainQueue ==
  /\ mpc = "drain"
  /\ interrupts' = << >> /\ mpc' = "clear"
  /\ UNCHANGED <<ctxDone, paused, turnVars, coroVars, suspendVars, pending, worldVars,
                 opVars>>

DrainPending ==
  /\ mpc = "clear"
  /\ pending' = {} /\ mpc' = IF aborting THEN "end" ELSE "turn"
  /\ UNCHANGED <<ctxDone, paused, turnVars, coroVars, suspendVars, interrupts,
                 worldVars, opVars>>

\* The deferred function of the turn: unregister its cancel function and call it.
\* Every coroutine has a suspend controller of its own.
ControllerReused == UNCHANGED <<reqTok, resTok>>
FreshController == reqTok' = FALSE /\ resTok' = FALSE

EndTurn ==
  /\ mpc = "end"
  /\ turnCancel' = "none" /\ turnCtx' = "none" /\ gpc' = "none" /\ gout' = "none"
  /\ aborting' = FALSE /\ FreshController
  /\ held' = [o \in Operators |-> "none"]
  /\ mpc' = "record"
  /\ UNCHANGED <<ctxDone, paused, detCtx, batch, out, last, det, queueVars, worldVars,
                 active, opc>>

\* An outcome cut short by a pause is kept from the director, if the pause still
\* holds when the loop looks.
Record ==
  /\ mpc = "record"
  /\ last' = IF paused THEN last ELSE out
  /\ out' = "none" /\ mpc' = "settle"
  /\ UNCHANGED <<ctxDone, paused, turnCancel, turnCtx, detCtx, batch, aborting,
                 coroVars, suspendVars, queueVars, worldVars, opVars>>

Settle ==
  /\ mpc = "settle"
  /\ mpc' = "loop" \/ (ctxDone /\ mpc' = "returned")
  /\ UNCHANGED <<ctxDone, paused, turnVars, coroVars, suspendVars, queueVars,
                 worldVars, opVars>>

-----------------------------------------------------------------------------
(* The grind coroutine and its suspend controller. *)

Over(ctx) == ctx \in {"cancelled", "deadline"}

\* A checkpoint between two actions finds a request and announces the park.
Checkpoint ==
  /\ gpc = "running" /\ reqTok
  /\ reqTok' = FALSE /\ gpc' = "announce"
  /\ UNCHANGED <<ctxDone, mpc, paused, turnVars, gout, det, resTok, queueVars,
                 worldVars, opVars>>

\* The context ends the wait for the rendezvous, or the park itself.
ParkBroken ==
  /\ gpc \in {"announce", "parked"} /\ Over(turnCtx)
  /\ gpc' = "running"
  /\ UNCHANGED <<ctxDone, mpc, paused, turnVars, gout, det, suspendVars, queueVars,
                 worldVars, opVars>>

Unpark ==
  /\ gpc = "parked" /\ resTok
  /\ resTok' = FALSE /\ gpc' = "running"
  /\ UNCHANGED <<ctxDone, mpc, paused, turnVars, gout, det, reqTok, queueVars,
                 worldVars, opVars>>

\* The routine ends by itself, or finds its context over at a statement or a wait.
GrindExits ==
  /\ gpc = "running"
  /\ gpc' = "done"
  /\ gout' = "ended" \/ (Over(turnCtx) /\ gout' = "cut")
  /\ UNCHANGED <<ctxDone, mpc, paused, turnVars, det, suspendVars, queueVars,
                 worldVars, opVars>>

DetourExits ==
  /\ det = "running"
  /\ det' = "done"
  /\ UNCHANGED <<ctxDone, mpc, paused, turnVars, gpc, gout, suspendVars, queueVars,
                 worldVars, opVars>>

-----------------------------------------------------------------------------
(* Timers and the host's shutdown. *)

TurnDeadline ==
  /\ turnCtx = "live"
  /\ turnCtx' = "deadline"
  /\ UNCHANGED <<ctxDone, mpc, paused, turnCancel, detCtx, batch, aborting, out, last,
                 coroVars, suspendVars, queueVars, worldVars, opVars>>

DetourTimeout ==
  /\ detCtx = "live"
  /\ detCtx' = "over"
  /\ UNCHANGED <<ctxDone, mpc, paused, turnCancel, turnCtx, batch, aborting, out, last,
                 coroVars, suspendVars, queueVars, worldVars, opVars>>

Shutdown ==
  /\ ~ctxDone
  /\ ctxDone' = TRUE
  /\ turnCtx' = IF turnCtx = "live" THEN "cancelled" ELSE turnCtx
  /\ detCtx' = IF detCtx = "live" THEN "over" ELSE detCtx
  /\ UNCHANGED <<mpc, paused, turnCancel, batch, aborting, out, last, coroVars,
                 suspendVars, queueVars, worldVars, opVars>>

-----------------------------------------------------------------------------
(* The arbiters and the world they watch. *)

\* A non-blocking send: a full channel drops the request.
Offer(tier) ==
  interrupts' = IF Len(interrupts) < QueueCap THEN Append(interrupts, tier) ELSE interrupts

SurvivalFires ==
  /\ "survival" \in Reflexes /\ ~inCrisis
  /\ inCrisis' = TRUE
  /\ Offer("survival")
  /\ UNCHANGED <<ctxDone, mpc, paused, turnVars, coroVars, suspendVars, pending,
                 committed, served, opVars>>

SurvivalRecovers ==
  /\ inCrisis
  /\ inCrisis' = FALSE /\ served' = FALSE
  /\ UNCHANGED <<ctxDone, mpc, paused, turnVars, coroVars, suspendVars, queueVars,
                 committed, opVars>>

\* The nap and, behind the same gate, a forage trip.
FatigueFires ==
  /\ "fatigue" \in Reflexes /\ Offer("fatigue")
  /\ UNCHANGED <<ctxDone, mpc, paused, turnVars, coroVars, suspendVars, pending,
                 worldVars, opVars>>

\* A teleport, a lure or a death.
DisplacementFires ==
  /\ "displacement" \in Reflexes /\ Offer("displacement")
  /\ UNCHANGED <<ctxDone, mpc, paused, turnVars, coroVars, suspendVars, pending,
                 worldVars, opVars>>

\* coalesceReactive: the latest line of each speaker is kept, the channel holds
\* only a wakeup.
Coalesce(p) ==
  /\ pending' = pending \union {p}
  /\ Offer("reactive")
  /\ UNCHANGED <<ctxDone, mpc, paused, turnVars, coroVars, suspendVars, worldVars,
                 opVars>>

\* A trade, duel or bank opens or closes.
CommittedChanges ==
  /\ committed' = ~committed
  /\ UNCHANGED <<ctxDone, mpc, paused, turnVars, coroVars, suspendVars, queueVars,
                 inCrisis, served, opVars>>

-----------------------------------------------------------------------------
(* Operators. *)

EnterAnalysis(o) ==
  /\ opc[o] = "idle"
  /\ active' = TRUE
  /\ opc' = [opc EXCEPT ![o] = "freeze"]
  /\ UNCHANGED <<ctxDone, mpc, paused, turnVars, coroVars, suspendVars, queueVars,
                 worldVars, held>>

ExitAnalysis(o) ==
  /\ opc[o] = "idle"
  /\ active' = FALSE
  /\ opc' = [opc EXCEPT ![o] = "thaw"]
  /\ UNCHANGED <<ctxDone, mpc, paused, turnVars, coroVars, suspendVars, queueVars,
                 worldVars, held>>

\* Pause: set the flag and read the cancel function under pauseMu ...
Pause(o) ==
  /\ opc[o] \in {"idle", "freeze"}
  /\ paused' = TRUE
  /\ opc' = [opc EXCEPT ![o] = IF turnCancel = "none" THEN "idle" ELSE "cancel"]
  /\ held' = [held EXCEPT ![o] = turnCancel]
  /\ UNCHANGED <<ctxDone, mpc, turnVars, coroVars, suspendVars, queueVars, worldVars,
                 active>>

\* ... and call it after the unlock.
CancelTurnOnly(o) == detCtx
CancelledDetour(o) == IF held[o] = "dual" THEN "over" ELSE detCtx

PauseCancels(o) ==
  /\ opc[o] = "cancel"
  /\ turnCtx' = IF held[o] # "none" /\ turnCtx = "live" THEN "cancelled" ELSE turnCtx
  /\ detCtx' = CancelledDetour(o)
  /\ opc' = [opc EXCEPT ![o] = "idle"]
  /\ held' = [held EXCEPT ![o] = "none"]
  /\ UNCHANGED <<ctxDone, mpc, paused, turnCancel, batch, aborting, out, last,
                 coroVars, suspendVars, queueVars, worldVars, active>>

\* Resume drains the interrupts if it found the loop paused.
Resume(o) ==
  /\ opc[o] \in {"idle", "thaw"}
  /\ paused' = FALSE
  /\ opc' = [opc EXCEPT ![o] = IF paused THEN "drain" ELSE "idle"]
  /\ UNCHANGED <<ctxDone, mpc, turnVars, coroVars, suspendVars, queueVars, worldVars,
                 active, held>>

ResumeDrains(o) ==
  /\ \/ /\ opc[o] = "drain"
        /\ interrupts' = << >> /\ opc' = [opc EXCEPT ![o] = "clear"] /\ UNCHANGED pending
     \/ /\ opc[o] = "clear"
        /\ pending' = {} /\ opc' = [opc EXCEPT ![o] = "idle"] /\ UNCHANGED interrupts
  /\ UNCHANGED <<ctxDone, mpc, paused, turnVars, coroVars, suspendVars, worldVars,
                 active, held>>

-----------------------------------------------------------------------------
MainStep ==
  \/ Loop \/ Gate \/ Plan \/ BeginTurn \/ TurnEnds \/ TakeInterrupt \/ RequestSuspend \/ Parked
  \/ SuspendFails \/ StartDetour \/ DetourJoined \/ DetourCut \/ JoinTimesOut \/ EndDetour
  \/ ResumeGrind \/ AbortJoined \/ DrainQueue \/ DrainPending \/ EndTurn \/ Record \/ Settle

ParkStep == Checkpoint \/ ParkBroken \/ Unpark

Timers == TurnDeadline \/ DetourTimeout

Arbiters ==
  \/ SurvivalFires \/ SurvivalRecovers \/ FatigueFires \/ DisplacementFires
  \/ (\E p \in Speakers : Coalesce(p))
  \/ CommittedChanges

OperatorCall(o) ==
  /\ opc[o] = "idle"
  /\ EnterAnalysis(o) \/ ExitAnalysis(o) \/ Pause(o) \/ Resume(o)

OperatorStep(o) ==
  \/ opc[o] = "freeze" /\ Pause(o)
  \/ opc[o] = "thaw" /\ Resume(o)
  \/ PauseCancels(o) \/ ResumeDrains(o)

Next ==
  \/ MainStep \/ ParkStep \/ GrindExits \/ DetourExits
  \/ Timers \/ Shutdown \/ Arbiters
  \/ \E o \in Operators : OperatorCall(o) \/ OperatorStep(o)

Spec == Init /\ [][Next]_vars

\* The scheduling the code relies on: goroutines in the middle of a call make
\* progress, timers fire, a routine whose context is over reaches one of its context
\* checks, and Go's select does not pass over a ready case forever.  A detour, an
\* arbiter and the director's wish to go on are under no obligation.
GrindUnwinds == Over(turnCtx) /\ GrindExits

Fairness ==
  /\ WF_vars(MainStep) /\ SF_vars(TurnEnds) /\ SF_vars(GrindUnwinds) /\ WF_vars(ParkStep)
  /\ WF_vars(TurnDeadline) /\ WF_vars(DetourTimeout)
  /\ \A o \in Operators : WF_vars(OperatorStep(o))

FairSpec == Spec /\ Fairness

-----------------------------------------------------------------------------
(* Properties. *)

\* Every variable has its type, and the interrupts channel (detour.go:275-284) never
\* holds more than its capacity.
TypeOK ==
  /\ ctxDone \in BOOLEAN /\ paused \in BOOLEAN /\ aborting \in BOOLEAN
  /\ reqTok \in BOOLEAN /\ resTok \in BOOLEAN
  /\ committed \in BOOLEAN /\ inCrisis \in BOOLEAN /\ served \in BOOLEAN
  /\ active \in BOOLEAN
  /\ mpc \in MainPc
  /\ turnCancel \in {"none", "turn", "dual"}
  /\ turnCtx \in {"none", "live", "cancelled", "deadline"}
  /\ detCtx \in {"none", "live", "over"}
  /\ batch \subseteq Speakers \union Tier
  /\ out \in Outcome /\ last \in Outcome
  /\ gpc \in {"none", "running", "announce", "parked", "done"}
  /\ gout \in Outcome
  /\ det \in {"none", "running", "done"}
  /\ interrupts \in Seq(Tier) /\ Len(interrupts) <= QueueCap
  /\ pending \subseteq Speakers
  /\ opc \in [Operators -> OpPc]
  /\ held \in [Operators -> {"none", "turn", "dual"}]

\* "Only ONE Coro should be ACTIVE at a time" (coro.go:16), as far as it holds: while
\* a detour that has not been given up on runs, the grind is parked, unless the turn's
\* context is over and the grind is on its way out.
SingleActive == det = "running" => gpc = "parked" \/ Over(turnCtx)

\* The freeze contract of runDetour (detour.go:212-219): a detour that runs on a paused
\* host has had its context cancelled, or an operator is about to cancel it.
FreezeReachesDetour ==
  paused /\ det = "running" => detCtx = "over" \/ \E o \in Operators : held[o] = "dual"

\* The conductor is between a successful suspend and its resume.
Detouring == {"detour", "detouring", "joining", "unswap", "resume"}

\* A routine of a live turn that is parked, or announcing that it will be, always has
\* the conductor at the other end of the handshake (suspend.go:37-60): no interleaving
\* of requests, failed suspends and resumes strands it.
NoStrandedPark ==
  turnCtx = "live" =>
    /\ gpc = "announce" => mpc = "parking"
    /\ gpc = "parked" => resTok \/ mpc \in Detouring

\* A host that stays paused stops acting: the turn that slipped past the gate, the
\* detour and the parked grind all end (conductor.go:271-275).
Quiet == gpc = "none" /\ det = "none"
FreezeSettles == <>[]paused => <>[]Quiet

\* A cancelled host context ends the loop from wherever it is, paused or detouring.
ShutdownReturns == ctxDone ~> mpc = "returned"

-----------------------------------------------------------------------------
(* What the repository says of this code and the code does not keep: see the  *)
(* README's known disagreements.                                              *)

\* "so no new turn starts until Resume" (conductor.go:272).
NoTurnStartsWhilePaused == [][gpc = "none" /\ gpc' = "running" => ~paused]_vars

\* "the grind must never resume concurrently with a live detour" (detour.go:244-245).
GrindNeverResumesOverDetour ==
  [][gpc = "parked" /\ gpc' = "running" => det # "running"]_vars

\* The outcome of a turn that a pause cut short never reaches the director
\* (conductor.go:433-435): a cut turn it does see, unless aborted by a
\* displacement, was cut by the shutdown.
PauseIsNotAFailure == last = "cut" => ctxDone

\* "one low-HP episode produces one detour" (detour.go:358-359): until it was served,
\* the request is queued or about to be served.
CrisisNotForgotten ==
  inCrisis /\ ~served =>
    "survival" \in batch \union {interrupts[i] : i \in DOMAIN interrupts}

\* "Analysis is true while the host is under operator-override ANALYSIS mode (conductor
\* frozen, ...)" (cradle/registry.go:67-68), once every call has returned.
AnalysisFreezes == active /\ (\A o \in Operators : opc[o] = "idle") => paused

\* "The interrupt ladder defers non-survival interrupts while this is true (don't yank
\* her out of a deal)" (world/world.go:719-720).
DealNotInterrupted ==
  [][det # "running" /\ det' = "running" /\ committed => "survival" \in batch]_vars

=============================================================================
