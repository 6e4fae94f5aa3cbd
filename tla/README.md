# Westworld: models, checks and proofs

Westworld runs a fleet of autonomous characters ("hosts") against an RSC game
server. This directory holds TLA+ models of the parts of it whose correctness
depends on the order in which goroutines, messages and failures happen, the TLC
runs that check them on small instances, and TLAPS proofs of the properties that
matter most. Paths below are relative to `src/`; a line number is a line of the
file at the modelled commit.

`PROJECT.json` lists the components, the runs, the definitions with the lines
they model, the mutants each property is tested with, the hazards of the code,
the disagreements found between the code and what it says of itself, and the
theorems.

## The system

| part | state | operations | hard because |
|---|---|---|---|
| `cradle/registry.go`: the fleet | per host: status, alive, stop and restart flags, cancel function, handle | Start, Stop, Restart, Pause, Resume, StopAll, Wait; the `supervise` goroutine | API goroutines race the supervisor around one mutex; decisions are taken after unlocking |
| `runtime/conductor.go`, `detour.go`, `coro.go`, `analysis.go`, `dsl/interp/suspend.go`: the turn loop | pause flag, cancel function, turn and detour contexts, suspend tokens, interrupts channel, arbiters' latches | gate, plan, execute, interrupt, park, detour, resume, pause, analysis mode | two coroutines share one character; a park handshake over three channels; deadlines fire inside it |
| `memory/manager.go`, `hostkv`, `runtime/memory_journal.go`: memory | scratch cache, local store (on disk or in memory), write-back journal and its index, remote | Get, Put, Delete, Flush, New | crash between steps, a remote that times out after applying, compaction against a running flush |
| `session/conn.go`: the connection | socket, two queues, first error, close state | Send, Recv, Close, read loop, write loop | who closed first decides restart or stop |
| `runtime/runhost.go`, `host.go`, `session.go`: one run | run context, pump result, conductor result, teardown | RunHost, host.Run, LogoutGraceful, Close | three goroutines end in any order; blocking sends in the teardown |
| `event/bus.go`, `runtime/dsl_events.go`: events | subscriber lists, closed; one translator per running routine | Subscribe, Unsubscribe, Publish, Close, translate | lossy delivery in two places; Close against publishers |
| `dsl/interp`: routines | the Go stack of a run: blocks, watcher frames, event queue, select cases, defer stack, budgets | statements, signals, defer, when, select, event dispatch | re-entrant sweeps and drains; five ways to leave a block |
| `mesa/mesad/server.go`, `runtime/persona_wiring.go`: live goals | registry entry, push channels, streams | PushGoal, Subscribe, reconnect, drain | pushes against reconnects and superseded streams |
| `runtime/reactive.go`, `speech.go`: conversations | dialogue windows, latches, lull timers, routing hint, in-flight slots | hear, latch, ask, expire, extract | timers against eviction; a send that fails after its latch |
| `cognition/goalgraph`, `runtime/goalgraph.go`, `mesad/cron_insight.go`: intentions | the live graph, its local copy, its row on mesad | block, recover, close, prune, re-import, flush; the cron's merge | four goroutines in two programs write one graph, whole copies at a time |
| `mesad/cron.go`, `cron_insight.go`, `ltm.go`, `runtime/observation.go`: distillation | the lines a host perceived, its knowledge rows, the escalation queue, a cursor per cron | AddObservation, the two crons' jobs, SyncKnowledge | rows and cursors read before a model call and written after it; jobs overlap; any call fails |
| `runtime/mesa_director.go`, `hybrid_director.go` | failure and spin counts, plan, goal | Next, goal revision | its writes of the goal graph race the other writers |
| `cognition/knowledge`, `cognition/resolve`, `limbic`, `pearl`, `world` | ledgers, mirror of the server | updates from events and packets | bounded tables, decay, desynchronised mirrors |
| `pathfind`, `worldmap`, `proto/v235`, `dsl/parser` | none | pure functions | boundary cases |

How they interact: the registry's `supervise` goroutine calls `RunHost` in a
loop; what `RunHost` returns decides between restart and stop. `RunHost` opens
the stores, connects, starts the frame pump (`host.Run`), which applies server
frames to the world mirror and publishes events, and drives the conductor, whose
director plans turns and whose arbiters listen to the bus. Routines act through
the connection and remember through the memory manager, whose remote tier is
mesad.

What makes each correct, in one line: one supervisor per host and no lost stop
(registry); one coroutine acting and no stranded park (conductor); no
acknowledged write lost, none undone (memory); a lost connection is an error and
a local stop is not (session, run); no send on a closed channel and every
publisher's events in order (bus); one firing per transition, one run per
deferred call, and an end (routines); the last goal a listening host applies is
the standing one (provisioning); no timer race forgets a line that matters
and the caps hold (conversations); open work is never dropped and both copies of the graph
converge (goal graph); no cursor passes what has not been used (distillation).

## Modules

### Supervisor, MCSupervisor, SupervisorProofs

One entry of the registry. `entry` is `managedHost`; `pc`, `run`, `seen` are the
supervise goroutines (a slot is a goroutine; two slots so that a second one could
appear); `call`, `held` are API goroutines in the middle of a call; `mainPc` is
the daemon's main. Every critical section of `mh.mu` is one action; the cancel
call, the password lookup and the `go` statement after it are actions of their
own, because the races are there. Runs are numbered, and a context, a cancel
function and a handle carry their run's number, so a late cancel can be told from
a justified one.

* `supervisor`: two API goroutines, three runs. Safety: `OneSupervisor`,
  `NoSpuriousCancel`, and `EntryIsTrue` (what the registry shows of a host is so:
  `HandleIsLive` and `NotWedgedLive`). Liveness: `StopStops`, `BounceRelaunches`,
  `ShutdownCompletes`, under weak fairness of each goroutine's next step and of a
  cancelled run's return (`RunEnds` of HostRun).

Proved (`SupervisorProofs`), for any clients, slots, bound on runs and either
policy: `TypeOK`, `OneSupervisor`, `NoSpuriousCancel`, `HandleIsLive`,
`NotWedgedLive` and with them `EntryIsTrue`. The inductive invariant adds `RunsNumbered` (the run in progress
is the newest, and the entry's cancel function is its own) and `CancelJustified`
(a captured cancel function of the current run belongs to a standing request):
without the second nothing says why a Stop that is still about to call `cancel`
may do so.

### Conductor, MCConductor, ConductorProofs

The conductor goroutine (`mpc`), the grind coroutine (`gpc`), the detour coroutine
(`det`), the two token channels of `SuspendController`, the interrupts channel,
the arbiters' latches, the operators. A critical section, a channel operation and
a select are one step each. What the director plans and what a routine does are
external: a routine reaches an action boundary, ends, or ends because its context
is over. Outcomes are abstracted to `ended` and `cut`.

* `conductor_safety`: all reflexes, one operator, one speaker. `SingleActive`,
  `NoStrandedPark`, `FreezeReachesDetour`.
* `conductor_liveness`: `FreezeSettles`, `ShutdownReturns`. Weak
  fairness of the conductor and of the timers; strong fairness of a routine's
  unwinding, because interrupts can make it park again and again before it gets
  to look at its context.

The turn's own deadline releases the parked grind while the detour it was parked
for still runs (see the disagreements), which is why `SingleActive` has to except
a turn that is over.

Proved (`ConductorProofs`), for any operators, speakers, reflexes and channel
capacity: `TypeOK` (with the channel's bound), `SingleActive`,
`FreezeReachesDetour`, `NoStrandedPark`. The inductive invariant adds `TurnPhase`
(no coroutine or token outlives its turn), `DetourPhase` (the dual cancel function
is registered whenever a detour runs) and `TokensOwned` (in a live turn each token
has exactly one goroutine that will take it).

### TieredMemory, MCTieredMemory, TieredMemoryProofs

Callers, one flusher, three tiers, the journal. One tier access or critical
section is a step. Values are numbered by the Put that wrote them, so "older" is
`<`. The local store is on disk or in memory, whichever `RunHost` got; like the
policy given to `New`, which decides a key's read and write mode, it is chosen at
`Init` and never changes. On disk the store writes without sync: a crash may lose
what has not become durable, in order; in memory a crash loses all. The store may
also be closed under running calls, as the teardown does. A remote call may fail
before or after it took effect.

The code finds its journal entries by `Store.Keys` (`Listing`): at a flush and, after
a restart, for the sequence number and the index. On disk `Keys` passes over every
key that begins with `\x00` (`hostkv/store.go:301-303`), and all entries do
(`manager.go:19`), so there a flush lists nothing and `New` starts from 0 beside the
entries an earlier life left. Only the store in memory lists its entries. The
properties say what is true of that code, and two definitions of the module,
`DurableJournalDrains` and `RestartKeepsPending`, say what its comments promise: see the
known disagreements. What depends on the order of the entries' numbers is therefore
stated for `OneLife`: before the first crash, or in memory, where every life begins with
an empty journal.

* `memory`: one key of any of four classes (write-back with four Puts,
  write-through with two, remote-authoritative and write-around with one), on disk and
  in memory, Gets, Deletes, a close and a crash. `AckedWriteSafe`: in one life no
  acknowledged write-back Put is lost on its way up. `JournalBounded`: a key has one
  pending entry, one more during a compaction or after a close, and at most two for each
  crash (TLC finds that one for each is not enough). `CachedReadIsFresh`.
  `RemoteInOrder`, on disk for a flush that sends nothing and in memory for one that
  sends oldest first. `JournalDrains`, of the store in memory: the 30-second tick is
  weak fairness of the flusher, and a remote that stays healthy answers a Put in
  the end (strong fairness of `FlushPutOK`, since failures may come first).

The safety properties are stated for one caller per key and the order property for
write-back keys: otherwise they fail, see below.

Proved (`TieredMemoryProofs`), for any keys, policies, callers, Puts and crashes, on
disk and in memory: `TypeOK`, and, for keys that one caller uses (the hypothesis
`OneUser`; different keys may have different callers, all running at once with the
flusher), `AckedWriteSafe`, `JournalBounded`, `CachedReadIsFresh` and the action property
`RemoteInOrder`. Two callers of one key may store their entries in the other order than
they took their values in, and each may drop the other's: that is why the hypothesis is
there. The proof first shows that every step is one of fifteen on the journal, the remote
and the calls (`Steps`), stated element by element. The inductive invariant then says, of
every state,

* where numbers come from: each entry number of a life was given to one Put, values are
  numbered by Puts (`Base`, `Values`, `Places`), a number given out but not yet stored is
  in the index for its own key only (`NumbersOwned`), and while the store is open the
  index and what a call supersedes are about their key, although the entry a new number
  is about to overwrite may still be another's (`IndexTrue`);
* a Put's value is newer than all there is of its key, and a key being deleted has no
  acknowledged value (`ValuesFresh`, `DeletedUnclaimed`);
* a store in memory has nothing on disk, and of a store on disk nothing is ever listed
  (`NothingKept`, `NothingListed`, in `Base`);
* length: only a crash leaves entries that neither the index nor a call knows, and no
  more than two of a key (`JournalLeft`);
* caches: on disk, in the store and in the scratch cache, and in what a call has found
  (`KeysFresh`, `CallsFresh`);

and of one life (`Life`)

* order: of two entries of a key the later holds the later value, an unstored number is
  later than its key's entries, and the flusher holds the oldest entry of its key
  (`JournalOrdered`, `EntriesOwned`, `InHand`, `OlderToo`);
* safety: what was acknowledged, or will be when the superseded entry is dropped, is in
  a journal entry or at the remote with nothing under way that would take it back
  (`ClaimsSafe`, `Landed`), and the remote is not ahead of the journal (`RemoteBehind`).

A life begins with nothing (`LifeBegins`): that is `Init`, and a crash in memory.

### SessionBase, Session

A connection after login: read loop, write loop, queues, and Close in its three
steps (mark, cut the socket, close `done`), since the point of `closing` is its
place before the cut. Frames are counted. The server may send, stop reading, or
hang up; these are the external actions. `SessionBase` holds the constants and
their assumptions. Session is checked inside HostRun, the one user it has.

Proved (first part of `HostRunProofs`), for any capacities, any number of frames and any user:
`TypeOK`, `ServerBlamedRightly`, `SilentEndIsLocal`. The inductive invariant adds
`CloseInOrder` (how far Close has come determines mark, socket and `done`) and
`FailureHasCause` (a failed read has a mark or a closed server behind it; a loop
that closes has stored an error).

### HostRun, MCHostRun, HostRunProofs

RunHost's goroutine, the frame pump and the conductor's return, around an
instance of Session, whose user they are. `result` is what the supervisor gets.

* `hostrun`: `EndIsTruthful` (the connection blames the server only for what the
  server did, and ends without an error only by our own Close); `VerdictIsRight`
  (`LossIsReported` and `ErrorIsReal`: RunHost returns an error when and only when
  the supervisor ought to restart); `RunEnds` (RunHost returns and both loops of the
  connection are gone, unless the server has stopped reading; and whenever `done`
  is closed both loops end, a full `recvCh` and a server that does not read
  notwithstanding). Assumed: goroutines run; the
  start-up second passes; a cancelled conductor returns (`ShutdownReturns` of
  Conductor); LogoutGraceful's 12 seconds pass (strong fairness: its retry loop
  re-enters the wait). The conductor is not assumed to return otherwise, nor the
  server to read.

Proved (second part of `HostRunProofs`): every step of the run is a step of its
connection or leaves it alone (`StepOfConn`; the actions are written so), and therefore
Session's inductive invariant holds of the composition without being proved
again (`ConnStepInv`) and with it `EndIsTruthful`; then `TypeOK` and
`VerdictIsRight`, from `Phases` (who may act when) and `Causes` (a cancelled run
was stopped by the operator, ended by its conductor, or lost its connection).

### EventFeed, EventBus, MCEventBus, EventBusProofs

`EventFeed` is what a reader of the bus may rely on: of each publisher's items some,
none twice, none before an older one, none invented. `EventBus` is the code:
Publish offers under the read lock to one channel after another, so publishers
overlap; Subscribe, Unsubscribe and Close take the write lock; the translator of a
running routine receives an event, turns it into up to `Fan` routine events and
offers them to a bounded queue. Every offer may drop.

* `eventbus`: `SendsAreSafe` (no offer meets a closed channel, the panic that would
  end the process), `ImplementsFeed` (EventBus implements EventFeed, with `given`
  mapped to what each reader has consumed), `TranslatorLeaves` (the translator of
  an ended run leaves the bus; strong fairness of Unsubscribe, which waits for a
  lock that publishers take again and again and Go's RWMutex grants in turn).

Proved (`EventBusProofs`), for any publishers, readers, capacities and `Fan`:
types, `SendsAreSafe` and the refinement `ImplementsFeed`. Neither is inductive
alone. Safe sends need `ChannelPhase` (a channel is subscribed or closed, never
both, and a reader about to subscribe has neither); the refinement needs, per
publisher and reader, the order of the whole pipe: what was given lies before the
queue, the queue before the event in hand, that before the channel, and nothing
lies beyond what was offered. The order is stated by operators on sequences
(`Ordered`, `Pending`, `Pipe`), so that its lemmas are about values and each action
only cites one.

### Routine, MCRoutine, RoutineProofs

One run of the interpreter. Its Go stack is the state: blocks, sweeps, dispatches,
selects and deferred calls, innermost last. The program is an input: at every
statement any form may come next, so one run of TLC covers every routine of a few
statements. Signals unwind to what catches them (`Catches`); expressions are one
predicate, which the world changes between any two steps.

* `routine`: `OncePerEdge`, `DefersRunOnce`, `SelectKeepsEvent`, and `RoutineEnds`,
  under weak fairness of the interpreter and of time; the op budget is what makes
  it true, and a select's timeout.
* `routine_defer`: a proc's exit runs its caller's deferred calls.

A sweep holds the positions (frame, place in it) it has still to test, which stand for
the code's snapshot: the frames below a sweep do not change before it ends. `credit`,
`pushed`, `ran` and a select's `heard` are history that only the properties read.

Proved (`RoutineProofs`), for any watchers, handlers, selects, defers, queue, budget and
so for any program: `TypeOK`, `OncePerEdge`, `DefersRunOnce` and `SelectKeepsEvent`. None
of the three is inductive, and since a panic may cut the stack anywhere, the invariant
speaks of every stack a cut can leave. Its parts are predicates of a stack and a list of
deferred calls (`Good`), so that their lemmas are about values, and a relation between
two stacks (`Kept`) covers every step that only pushes, pops or changes the top:

* `Placed`: the routine's body lies at the bottom, everything but a drain of deferred
  calls lies over some body (so that a panic is always caught), a select's case block
  lies on its select, a sweep has only registered watchers of frames below it to test;
* `Books`: a deferred call waits in exactly one place, the interpreter's list or one of
  the drains on the stack, until it has run, and `Drainable`: calls wait in the list
  only while a body is there to drain them. With `Phase` (a run that is over has no
  activation) every call has run by then;
* `Covered`: a registered watcher that would fire now has a transition to its credit.
  Firing spends it and records the new value in one step, which is why a nested sweep
  cannot spend it again;
* `Keeps`: the channel of an undecided select holds the first event it heard, is empty
  if it heard none, and is never over its capacity: a full channel drops later events only.

`DeferAtExit` is what `Books` does not say: which body's exit drains a call.

### Provision, MCProvision

One host's live goal from the operator to the director: PushGoal sets the registry
entry under one lock and delivers after it; Subscribe registers a channel, re-sends
the standing goal and forwards; the client's stream breaks and is dialled again; the
host applies the last goal it received; mesad drains and restarts, the host
restarts. The older stream's handler may still be running when the newer registers.

* `provision`: `GoalOnItsWay` (for a host that listens on the registered stream, the
  last thing it will apply is the standing goal), `Converges` (it applies it, if the
  stream lasts) and `DrainEnds` (a shutdown ends every handler, by force where a
  client does not read). Weak fairness of the host's loop, of each handler and of
  the forced stop.

Proved (last part of `HostRunProofs`, the stream a running host keeps to mesad, by
INSTANCE), for any streams, goals and capacities: `TypeOK`, and, when
calls of PushGoal do not overlap (the hypothesis `OneOperator`; with two operators the
property fails, see below), `GoalOnItsWay`. The property speaks of the stream the host
listens on after its re-send; the invariant (`SubSettled`) has to speak of the stream
the table names, from its registration on: what already waits in the channel of a
stream that is about to re-send is the registry's goal too, since a push that found
the stream registered has set the registry before; and of pushes between their two
locks (`Standing`, `Streamed`).

### Reactive, MCReactive, ReactiveProofs

The conversation windows of a host and the five goroutines that meet on them. Each
critical section of the mutex is a step; a timer that is Reset may have a callback
already waiting for the mutex, and both then exist. Lines are their speaker and
whether they carry anything; time is the order of events. `line` is history: what
became of the newest substantive line that each speaker said while engaged.

* `reactive`: `BooksBalance` (the latch count, the window cap and the extraction
  slots: `LatchesCounted`, `RoomForNewSpeaker`, `SlotsHeld`), `LineNotForgotten`
  (below), `HintNotStale`, `EngagedKept`.

`LineNotForgotten` is about the lull timer: while a substantive line waits in its
window, something is on its way to `spawnExtract` for it. It does not promise that the
line is extracted, and the code does not either. `spawnExtract` drops an extraction in
analysis mode, offline and at the in-flight cap (`reactive.go:534-549`, "DROP (bounded)";
`line` becomes `"dropped"`, and nothing is armed again: the line is read only if a later
line's lull takes the window while it is still there). A line also leaves its window
unread when its window is evicted, in the lull or between the two critical sections of
`reactiveObserve`, or when it is older than the lookback (`"lost"`); by `EngagedKept` no
window is evicted while its latch is live. The trimming of a window to its newest eight
lines is not modelled (eight courtesies or own lines within one lull), nor is what the
extraction makes of the window once it has it: the call may fail, or be given up when
analysis mode comes on (`ExtractStart`).

Proved (`ReactiveProofs`), for any speakers, timers and caps: all four. The
invariant adds that lines and latches belong to windows (`WindowsNest`), that a line
that is due is in its window (`LinesHeld`), that
every partner is known (`PartnersKnown`), the cap (`WindowsCapped`) and who owns a
timer (`TimersOwned`: a window's timer was made for that window, and a timer that
runs, is orphaned or has called back has an owner), without which a late callback
could reap a window it was not made for.

### GoalGraph, MCGoalGraph

The intention graph of one host, with the goroutines that write it: the director
(seed, block, recover, close, adopt), the reactive goroutine (close a question,
un-block its goals), the limbic goroutine (load, bootstrap, then at every tick prune,
fetch, merge, save, push) and mesad's insight cron, which re-reads the row, applies
its chains and closures and writes the whole row in another transaction. A step runs
up to the next read that another goroutine can make stale. `graph`, `local` and
`row` are the three copies, `snap` and `cron.work` the ones in flight. Calls fail;
the host restarts, with or without its store.

* `goalgraph`: `LiveWorkKept` (pruning and merging take closed nodes only),
  `ChainArrives` (what stays in the row reaches the running host), `MirrorCatchesUp`
  (a host graph that stays at least as fresh as the row ends up being the row). Weak
  fairness of the limbic goroutine: the ticker fires and each call has a deadline. Both
  are about a host outside analysis mode, which freezes the ticks
  (`runtime/goalgraph.go:100,122`).

Proved (last part of `DistillationProofs`, the other half of what the insight cron
writes), for any goals, questions, chains, cap and order: `TypeOK` and `LiveWorkKept`.
`TypeOK` needs two facts about every copy of the graph, the ones in flight included
(`Sound`): only goals are queued, or the director's next goal need not be one, and only
goals are blocked by a question, or the reactive goroutine could un-block something
else. `LiveWorkKept` then rests on one lemma per method of the graph; the one that
matters is `MergeSound`: a merge keeps the status of every node the host has, so the
pruning at its end finds no live one among the closed.

### Distillation, MCDistillation, DistillationProofs

What one host perceived on its way into beliefs. `at` is the observations table,
`row` the knowledge rows, `queue` the escalation queue, `cursor` and `drain` the
two crons' cursors; `job` are the jobs in the slots of the shared semaphore, each
with what it has read so far. A sweep dispatches a job whether or not the host's
last one has ended, so two jobs of one kind may overlap. A line yields one claim;
which claims the model flags, which the persona admits and which lines make a call
fail or outlast its job are constants. Calls fail, a job's minute ends, mesad dies:
each is a fault, and a bound says how many happen.

* `distillation`: `NothingSkipped`, `EscalationsKept`, `CronsSettle`. The lines the
  code may skip are kept in history variables, so that the first two say that no
  other line or claim is (`missed`: behind a read or cut off by its limit; `gaveUp`
  and `passed`: the poison ceiling). Assumed for `CronsSettle`: the tickers fire and
  a job runs until a call fails; a sweep waiting for a slot gets one (strong
  fairness: the other cron's jobs come and go); and the host is one of those a
  sweep takes, active within 24 hours and among the 64 last active.

Proved (`DistillationProofs`), for any lines, any verdicts of the models, any number of
job slots, faults, batch size, cap and queue bound, without a hypothesis: `TypeOK`,
`NothingSkipped`, `EscalationsKept`. Neither is inductive: a job carries a cursor that it
read long ago and will save, so what the saved cursor may pass is decided when the job
begins and must survive what the other jobs do in between. The inductive invariant says
of every job, in each of its phases, which cursors it may still save and why each is
safe:

* `LinesKept`: up to the second a consolidation job will save, every line is held (folded,
  missed or given up) or in the job's batch, and in the batch no longer once it is folded;
  and up to the cursor it began with, for the failure it may count;
* `ClaimsKept`: the same for the insight job's cursor, for that cursor advanced over its
  selection, where the claims it picked still count as open until the rows are written,
  and for the second it gives up to;
* `TagsTrue`: a claim with the `reconciled` tag has been lowered, in the rows and in every
  copy of them a job holds, so that not lowering it again loses nothing;
* `Typed`: what a job carries in each phase.

A step endangers another job's cursor only by what it adds behind it. `LinesGrow` and
`ClaimsGrow` say that it adds nothing there: held lines and settled claims stay so, and a
new line or item is beyond every job's reach or entered as missed or passed. That each
action is such a step, and that its own job's next record is safe, are the lemmas per
action; `Batch` and `Selects` say what the two reads choose, `Synced` that a write of
stale rows loses nothing. TLC agreed with the invariant on the run's instance and, without
the liveness, with two faults, a sentimental line and a hopeless claim.

## Known disagreements

`routine_defer` has a run of its own and an entry under `findings`. The others are
stated at the end of their module and are refuted by TLC on the instance given here,
with the property in place of the run's own:

| statement | what the code does | instance |
|---|---|---|
| `Supervisor!DeadIsTerminal` (`cradle/registry.go:326`, "Works on any state") | a Restart accepted between the supervisor's decision and its exit sets `restarting` and is acted on by nobody (`registry.go:338`, 269-305) | as `supervisor` |
| `Conductor!GrindNeverResumesOverDetour` (`runtime/detour.go:244-245`, "the grind must never resume concurrently with a live detour") | `checkpoint` also wakes on the turn's deadline, which runs on during a longer detour (`dsl/interp/suspend.go:83`) | as `conductor_safety` |
| `Conductor!NoTurnStartsWhilePaused` (`runtime/conductor.go:272`, "so no new turn starts until Resume") | a Pause that lands while the director is deciding cancels nothing, and the turn starts with `paused` set (`conductor.go:415`) | as `conductor_safety` |
| `Conductor!PauseIsNotAFailure` (`conductor.go:433-435`) | `Paused()` is asked after the turn has unwound; a Resume in between hands the cut turn to the director as a failure | as `conductor_safety` |
| `Conductor!CrisisNotForgotten` (`detour.go:358-359`) | a survival request that meets a finishing routine, or is drained after another detour, is dropped, and the latch keeps the arbiter silent (`detour.go:151`) | no operators, `QueueCap = 4` |
| `Conductor!AnalysisFreezes` (`cradle/registry.go:67-68`) | the control API's Resume thaws a host in analysis mode (`conductor.go:287`) | two operators |
| `Conductor!DealNotInterrupted` (`world/world.go:719-720`) | the committed region is read before the park and may be entered before it (`detour.go:118`) | as `conductor_safety` |
| `TieredMemory!DurableJournalDrains` (`manager.go:331`, "Flush drains the write-back journal to the remote tier") | on disk `Store.Keys` passes over every key that begins with `\x00`, as every journal entry does (`hostkv/store.go:301-303`, `manager.go:19`), so `Flush` lists none (`manager.go:338`) and nothing that was journalled ever reaches the remote; the tests flush on stores in memory only (`manager_test.go:267-305`) | `FairSpec`, one key, `Policies <- Goals`, otherwise as `memory` |
| `TieredMemory!RestartKeepsPending` (`manager.go:86-87`, "without restoring seq, a restart would re-number from 0 and OVERWRITE pending entries") | for the same reason `New` restores neither `seq` nor the index on disk (`manager.go:90-97`): after a restart the first journalled Put of one key overwrites entry 1 of another | `Spec`, `Keys = {key1, key2}`, `Policies <- Goals`, otherwise as `memory` |
| `TieredMemory!ReadYourWrites` (`memory/policy.go:12`) | the tombstone of a remote miss outlives a Put and hides it (`manager.go:181-184`) | as `memory` |
| `TieredMemory!SyncPutsInOrder` (`manager.go:331`, "so order is preserved") | a synchronous remote Put leaves the key's older journal entry pending, and the next flush writes it over the newer value (`manager.go:258`) | as `memory` |
| `TieredMemory!DeletedStaysDeleted` (`manager.go:276`, "removes key from every tier it can reach") | the key's pending journal entry stays, and the next flush puts the value back (`manager.go:277-287`) | as `memory` |
| `Session!LocalCloseIsClean` (`session/conn_eof_test.go:54-55`) | a Close that cuts the socket under a write leaves "write: ..." (`conn.go:277-278`) | Session with the constants of `hostrun` |
| `HostRun!LogoutIsBounded` (`runtime/session.go:44`) | with a server that does not read, Send blocks on the full queue and the logout's own deadline is never looked at (`session/conn.go:174`) | as `hostrun` |
| `HostRun!LogoutAcceptedIsSeen` (`runtime/session.go:36-39`) | the pump has ended before the logout is sent; a full `recvCh` blocks the read loop, and the accepted logout is not seen | as `hostrun` |
| `Routine!DeclaredFirst` (`docs/lang/events.md:465`) | the cases of a select share one channel with a slot per case: two events of a later case fill it and an earlier case's event is dropped (`dsl/interp/watchers.go:341`) | two events without handlers, a select on both, three arrivals, `QueueCap = 3` |
| `Routine!HandlersInOrder` (`runtime/dsl_events.go:37`) | a handler's own actions dispatch the next event, whose handlers run before those still owed the older one | two handlers, two arrivals, `QueueCap = 2` |
| `Routine!CanceledSaysSo` (`runtime/dsl_bridge.go:252`) | a deferred call that raises while a cancelled run unwinds replaces its result | as `routine` |
| `Routine!BudgetIsBackstop` (`dsl/validator/validator.go:530`) | the wall clock is looked at only when an operation is charged, and a select that waits for events charges none | a select whose only case is `on`, `OpBudget = 2` |
| `Provision!NotDeaf` (`mesad/server.go:693`, "so a superseded older stream tearing down doesn't evict the newer one") | the older handler may register after the newer one, over it, and then leave: the host listens on a stream nobody pushes to | as `provision` |
| `Provision!LatestWins` (`runtime/livegoal.go:9`, "Latest-wins") | two operators set the registry in one order and deliver in the other (`server.go:749`) | two operators |
| `Reactive!OneExtractionPerLull` (`runtime/reactive.go:89`) | Reset arms a timer whose callback has already started (`reactive.go:482`) | as `reactive` |
| `Reactive!DirectedStaysDirected` (`reactive.go:108`) | a routine's say may consume the routing hint of the host's own question | as `reactive` |
| `Reactive!UndoOnlyOwnLatch` (`runtime/speech.go:222`) | a failed question drops a latch that the speaker's own line took or refreshed | as `reactive` |
| `GoalGraph!ClosureArrives` (`runtime/goalgraph.go:88-90`) | the merge keeps the host's status of a node both have, so the cron's closure of a question never lands and is pushed over (`goalgraph.go:503-530`) | as `goalgraph` |
| `GoalGraph!ClosedStaysClosed` (`runtime/director_goals.go:115-119`, "must stay terminal") | a status is read in one critical section and written in another: the un-block of a goal that was closed meanwhile re-opens it (`reactive.go:687`) | as `goalgraph` |
| `GoalGraph!BootstrapKeepsLive` (`runtime/goalgraph.go:58-67`) | `Empty()` is asked before the fetch, `Import` replaces after it: what the director seeded meanwhile is gone | as `goalgraph` |
| `GoalGraph!PushKeepsChains` (`mesad/ltm.go:875-884`) | within one second the guard lets an older whole copy through, and the cron's nodes with it | as `goalgraph` |
| `GoalGraph!CronOnlyAdds` (`mesad/cron_insight.go:376-381`, "never deletes a node it doesn't own") | the row is re-read and written in two transactions; a push in between is overwritten | as `goalgraph` |
| `GoalGraph!MergedPushAccepted` (`ltm.go:881`, "the normal case") | the merge keeps the host's older stamp of a node the cron touched, so the merged graph can be refused as older | as `goalgraph` |
| `GoalGraph!NoStrandedBlock` (`director_goals.go:102-104`) | a goal that is being blocked when its question is answered stays blocked by a closed question | as `goalgraph` |
| `Distillation!AtLeastOnce` (`mesad/ltm.go:610-613`, "making this safely at-least-once") | the cursor is a second and the filter a strict `>`: lines that share the cursor's second and were cut off by the limit, or arrive late, are never read (`ltm.go:621-623`) | as `distillation` |
| `Distillation!QueueOnlyGrows` (`mesad/cron_insight.go:205-206`, "would race and lose escalations") | `recordEscalations` is itself a read-modify-write: a failed read is taken for an empty queue and written back, and overlapping jobs overwrite each other (`cron.go:407-421`) | as `distillation` |
| `Distillation!LoweredOnce` (`cron_insight.go:716-717`, "One contradiction = one β bump, forever") | a job's stale non-empty tags replace the row's, and the `reconciled:` tag with them; a retry bumps again (`ltm.go:755-758`) | `Sentimental = {a}` |
| `Distillation!PoisonIsSkipped` (`cron.go:221`, "one poison batch can't wedge a host's cursor"; `cron_insight.go:350`) | the insight cron's escape empties `DoneAtBoundary`, so the newest second is selected again for ever (`cron_insight.go:351`) | `Hopeless = {a}` |
| the same | a call that outlasts the job (60 s against the client's 120 s) leaves a dead context, with which the failure cannot be counted (`cron.go:313-315`) | `Slow = {c}`, `Poison = {}` |

## Bounds

Two API goroutines are what a race between calls needs; three runs give an earlier
run, the current one and the next. One speaker and one slot in the interrupts
channel make it overflow at once. Queues of 1 or 2 in place of 32 reach "full"
quickly and the code treats no other size specially. Four Puts give a superseded
entry, the one that supersedes it and as many again after a crash; one crash, since a
restart finds the durable state alone. Three speakers with room for two windows and one latch
evict at every new speaker. Two streams are a reconnect and the stream it
supersedes; a push channel of one directive overflows. Two publishers, two events
each and buffers of two drop in both places. Five operations let a watcher's body
yield to a nested sweep, or a proc run inside a deferred call. In the goal graph a cap
of two evicts as soon as a goal is closed, one second gives the two stamps that the
freshness guard compares, and three events are, for instance, a block, a closing and
a cron run, or a cron run between two failed pushes. In the distillation a batch of two
out of three lines within two seconds cuts a second in half, an insight run of one claim
leaves a sibling behind, a queue of two trims, a ceiling of two skips, and one fault is
enough for each gap; the two invariants hold with a second fault too (2.7 million
states), which takes the liveness check past a few minutes. `conductor_liveness` leaves survival and speech out:
they take the same path as the fatigue detour, and `displacement` adds the abort.
Where a theorem exists the bound is only TLC's: the proofs hold for all values.

Symmetry is used in `reactive` only, which checks safety, over speakers and over
timers, which no definition names. Deadlock checking is off where the modelled program ends (a
returned daemon, a run, crons with nothing left to read) and stays on for the conductor and the
memory.

## Mutants

Every property of a passing run is paired with a changed form of one mapped
definition, kept beside it in the module (`SocketFirst` beside `CloseOrder`,
`NoClaim` beside `Claim`, ...), which breaks it under the same configuration.

## What is not proved

Liveness and everything with fairness is checked by TLC only; the proof system
does not handle it: fourteen temporal properties, among them that runs, shutdowns and
freezes end. Every other property of a passing run is a theorem. No theorem is
about a recursive definition, and none uses an axiom or an unproved step.

The assumptions of the proofs are the `ASSUME`s of the modules: capacities and
bounds are positive numbers, callers are finitely many, reflex tiers are among the three the code has,
speaker names are not tier names, a routine's select cases are of the three kinds the
grammar has. Two components have a hypothesis in their theorems
besides: one caller per key (TieredMemory) and one operator at a time (Provision). The theorems about
GoalGraph and Provision name the module's assumption as their hypothesis, since they reach
it by INSTANCE.

## Not modelled

Login and ciphers, prompt text, the expression evaluator, the HTTP and web
surfaces, persona loading, generated tables and rendering; the reason for each is
in `PROJECT.json`. Two thirds of the repository's lines are generated tables,
protocol stubs, rendering, the parser and some eighty verbs that send a packet and
poll the mirror: they keep no state of their own that interleavings could break.
Inside modelled parts: the registry's listing calls; the conductor's trace and its
displacement note; memory search and metrics; RunHost's bring-up and REPL; the goal
graph's labels, tags, progress, aspirations and death writer, the operator's live goal
that overrides the director's, the goals minted for a neglected aspiration and the
north star that follows an empty queue (`director_goals.go:47,91-97`), the freeze of its
ticks in analysis mode, and the link from a closed question to its answer
(`cron_insight.go:807-809`); a tick's merge, save and export are one step; the interpreter's
values and its interactive session; persona deletion on mesad; in the crons, confidences,
the collection of stale rows, the host's own pushes of its ledger and the choice of
hosts for a sweep.

## Plan

1. Directors: spin and failure accounting, decision cache.
2. Knowledge and trust ledgers, alias store: bounds and monotonicity.
3. World mirror: trade, duel, bank and entity lists against packet order.
4. Obstacle learning and walk retries; path finding, region look-ups and the frame
   decoder as operators against a reference definition.
5. The extraction cache of mesad, the collection of stale knowledge rows, and the sweeps'
   choice among more hosts than they take.
