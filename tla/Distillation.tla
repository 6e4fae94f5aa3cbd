---------------------------- MODULE Distillation ----------------------------
(***************************************************************************)
(* How mesad turns what one host perceived into beliefs (src/mesa/mesad/    *)
(* cron.go and cron_insight.go).  The host ships each line it perceives,     *)
(* stamped with the second (src/runtime/observation.go).  The consolidation  *)
(* cron reads the lines past its cursor, folds the claims a model extracts   *)
(* from them into the knowledge rows and queues the claims the model flags.  *)
(* The insight cron reads the queue past a cursor of its own and lowers the  *)
(* beliefs that a flagged claim contradicts.  Both crons dispatch a host's   *)
(* job without asking whether its last one has ended.                        *)
(*                                                                         *)
(* A line yields one claim, which is its own subject; what a model makes of  *)
(* a line is a constant.  A step is one call that another job or the host    *)
(* can come between; the reads a job begins with are one step.  Left out:    *)
(* confidences, the collection of stale rows, the host's own pushes of its   *)
(* ledger, and the goal graph's side of the insight cron (see GoalGraph).    *)
(***************************************************************************)
EXTENDS Naturals, FiniteSets, SequencesExt

CONSTANTS
  Lines,        \* what the host may perceive
  Distilled,    \* the lines of the kinds in firehoseKinds
  Flagged,      \* the lines whose claim the model marks escalate
  Admitted,     \* the claims that the host's persona lets through
  Sentimental,  \* the lines whose claim carries a sentiment
  Poison,       \* the lines that make the consolidation's model call fail
  Slow,         \* the lines that make it last longer than a job may
  Hopeless,     \* the claims that make the insight's model call fail
  Jobs,         \* the slots of cronSem
  BatchSize, MaxPerHost, MaxQueue,
  MaxFail,      \* maxFailBeforeSkip
  MaxClock,     \* bound: seconds that pass
  MaxFaults     \* bound: failed calls, expired jobs, crashes and overlapping jobs

ASSUME ConstantsAssumption ==
  /\ Flagged \subseteq Distilled /\ Admitted \subseteq Flagged
  /\ Distilled \subseteq Lines /\ Poison \union Slow \subseteq Distilled
  /\ Sentimental \subseteq Distilled /\ Hopeless \subseteq Flagged
  /\ {BatchSize, MaxPerHost, MaxQueue, MaxFail, MaxClock} \subseteq Nat \ {0}
  /\ MaxFaults \in Nat

Seconds == 0 .. MaxClock

Items == [claim : Flagged, at : Seconds]

VARIABLES
  clock,
  at,        \* the observations table: the second a line was perceived in, 0 if absent
  row,       \* the host's knowledge rows
  cursor,    \* cron:consolidate:cursor
  queue,     \* cron:escalate:queue
  drain,     \* cron:insight:cursor
  job,       \* the job in each slot
  faults,    \* what is left of MaxFaults
  missed,    \* history: lines stored behind a read, or cut off by its limit
  gaveUp,    \* history: lines of a batch that was skipped as poison
  passed     \* history: queued claims skipped as poison, or queued behind the cursor

ghosts == <<missed, gaveUp, passed>>
vars == <<clock, at, row, cursor, queue, drain, job, faults, ghosts>>

Stored == {l \in Lines : at[l] # 0}

Idle == [at |-> "idle"]

Consolidating == {j \in Jobs : job[j].at \in {"extract", "sync", "record", "append", "save"}}
Draining == {j \in Jobs : job[j].at \in {"ask", "graph", "advance"}}

NoRows ==
  [beliefs |-> {}, lowered |-> [l \in Lines |-> 0], sentiment |-> {}, reconciled |-> {}]

Init ==
  /\ clock = 1 /\ at = [l \in Lines |-> 0]
  /\ row = NoRows
  /\ cursor = [last |-> 0, fails |-> 0]
  /\ queue = <<>> /\ drain = [last |-> 0, fails |-> 0, done |-> {}]
  /\ job = [j \in Jobs |-> Idle]
  /\ faults = MaxFaults
  /\ missed = {} /\ gaveUp = {} /\ passed = {}

Fault == faults > 0 /\ faults' = faults - 1

Tick ==
  /\ clock < MaxClock /\ clock' = clock + 1
  /\ UNCHANGED <<at, row, cursor, queue, drain, job, faults, ghosts>>

-----------------------------------------------------------------------------
(* The host. *)

\* The highest second that a cursor has passed, or that a running job may take it past.
Horizon == Max({cursor.last} \union {job[j].maxAt : j \in Consolidating})

\* A line arrives in the second it is stamped with or in a later one, or never.
AddObservation(l, s) ==
  /\ l \notin Stored /\ s \in 1 .. clock
  /\ at' = [at EXCEPT ![l] = s]
  /\ missed' = IF s <= Horizon THEN missed \union {l} ELSE missed
  /\ UNCHANGED <<clock, row, cursor, queue, drain, job, faults, gaveUp, passed>>

-----------------------------------------------------------------------------
(* The knowledge rows. *)

\* Mutant of SyncKnowledge: the rows are replaced.
ReplaceKnowledge(old, led) == led

\* A row keeps what only it has and takes the larger evidence; its tags are replaced by
\* the incoming ones unless there are none.
SyncKnowledge(old, led) ==
  LET tagged == led.sentiment \union led.reconciled IN
  [beliefs |-> old.beliefs \union led.beliefs,
   lowered |-> [l \in Lines |-> Max({old.lowered[l], led.lowered[l]})],
   sentiment |-> led.sentiment \union (old.sentiment \ tagged),
   reconciled |-> led.reconciled \union (old.reconciled \ tagged)]

Fold(led, batch) ==
  [led EXCEPT !.beliefs = @ \union (batch \cap Distilled),
              !.sentiment = @ \union (batch \cap Sentimental)]

\* A claim that carries its tag is not lowered again.
ApplyReconcile(led, claims) ==
  [led EXCEPT !.lowered = [l \in Lines |-> IF l \in claims \ led.reconciled THEN @[l] + 1 ELSE @[l]],
              !.reconciled = @ \union claims]

-----------------------------------------------------------------------------
(* The consolidation cron. *)

Set(j, rec) == job' = [job EXCEPT ![j] = rec]

\* The slots of the semaphore have no names: a job takes any free one.
Free(j) == job[j] = Idle /\ j = CHOOSE k \in Jobs : job[k] = Idle

End(j) == Set(j, Idle)

\* What is left to do is to move the cursor.
Save(maxAt) == [at |-> "save", maxAt |-> maxAt]

\* ORDER BY occurred_at LIMIT: which lines of the last second come first is open.
Batches(fresh) ==
  {b \in SUBSET fresh :
     /\ Cardinality(b) = Min({BatchSize, Cardinality(fresh)})
     /\ \A l \in b, m \in fresh \ b : at[l] <= at[m]}

\* A sweep dispatches the host's job: it loads the cursor, or starts from zero when that
\* fails, and reads the lines past it.  Nothing fresh, and the job is over.
BeginWith(j, cur) ==
  LET fresh == {l \in Stored : at[l] > cur.last} IN
  /\ Free(j) /\ fresh # {}
  /\ \E b \in Batches(fresh) :
       LET maxAt == Max({at[l] : l \in b}) IN
       /\ Set(j, IF b \cap Distilled # {}
                 THEN [at |-> "extract", cur |-> cur, batch |-> b, maxAt |-> maxAt]
                 ELSE Save(maxAt))
       /\ missed' = missed \union {l \in fresh \ b : at[l] = maxAt}
  /\ UNCHANGED <<clock, at, row, cursor, queue, drain, gaveUp, passed>>

Consolidate(j) == Consolidating = {} /\ BeginWith(j, cursor) /\ UNCHANGED faults

\* The sweep before was held up at the semaphore: its job is still running.
ConsolidateAgain(j) == Consolidating # {} /\ BeginWith(j, cursor) /\ Fault

CursorUnread(j) == BeginWith(j, [last |-> 0, fails |-> 0]) /\ Fault

\* Mutant of Bump: a failed batch is not counted.
NoBump(cur, maxAt) == cur

\* A failed batch is counted, and skipped at the ceiling.
Bump(cur, maxAt) ==
  IF cur.fails + 1 >= MaxFail THEN [last |-> maxAt, fails |-> 0]
  ELSE [cur EXCEPT !.fails = @ + 1]

\* The model call fails, or the read of the knowledge rows after it: the count is saved.
ExtractFails(j) ==
  LET J == job[j] IN
  /\ J.at = "extract"
  /\ IF J.batch \cap Poison # {} THEN UNCHANGED faults ELSE Fault
  /\ cursor' = Bump(J.cur, J.maxAt)
  /\ gaveUp' = IF cursor'.last = J.maxAt THEN gaveUp \union J.batch ELSE gaveUp
  /\ End(j)
  /\ UNCHANGED <<clock, at, row, queue, drain, missed, passed>>

Extract(j) ==
  LET J == job[j] IN
  /\ J.at = "extract" /\ J.batch \cap (Poison \union Slow) = {}
  /\ Set(j, [at |-> "sync", batch |-> J.batch, maxAt |-> J.maxAt, led |-> row])
  /\ UNCHANGED <<clock, at, row, cursor, queue, drain, faults, ghosts>>

\* The fold is written before the cursor moves.
SyncFold(j) ==
  LET J == job[j]  flagged == J.batch \cap Flagged IN
  /\ J.at = "sync"
  /\ row' = SyncKnowledge(row, Fold(J.led, J.batch))
  /\ Set(j, IF flagged = {} THEN Save(J.maxAt)
            ELSE [at |-> "record", flagged |-> flagged, maxAt |-> J.maxAt])
  /\ UNCHANGED <<clock, at, cursor, queue, drain, faults, ghosts>>

\* recordEscalations reads the queue and stamps the flagged claims ...
RecordWith(j, read) ==
  LET J == job[j] IN
  /\ J.at = "record"
  /\ \E s \in SetToSeqs(J.flagged) :
       Set(j, [at |-> "append", maxAt |-> J.maxAt, read |-> read,
               items |-> [i \in DOMAIN s |-> [claim |-> s[i], at |-> clock]]])
  /\ UNCHANGED <<clock, at, row, cursor, queue, drain, ghosts>>

Record(j) == RecordWith(j, queue) /\ UNCHANGED faults

\* A read that fails is taken for an empty queue.
QueueUnread(j) == RecordWith(j, <<>>) /\ Fault

\* ... and writes it back, the oldest gone when it is over its bound.
Trimmed(q) == SubSeq(q, Len(q) - Min({MaxQueue, Len(q)}) + 1, Len(q))

AppendFlagged(j) ==
  LET J == job[j]
      horizon == Max({drain.last} \union {job[k].maxAt : k \in Draining})
  IN
  /\ J.at = "append"
  /\ queue' = Trimmed(J.read \o J.items)
  /\ passed' = passed \union {it \in Range(queue') : it.at < horizon /\ it \notin Range(queue)}
  /\ Set(j, Save(J.maxAt))
  /\ UNCHANGED <<clock, at, row, cursor, drain, faults, missed, gaveUp>>

\* A write that fails is only logged.
AppendFails(j) ==
  /\ job[j].at = "append" /\ Fault
  /\ Set(j, Save(job[j].maxAt))
  /\ UNCHANGED <<clock, at, row, cursor, queue, drain, ghosts>>

SaveCursor(j) ==
  /\ job[j].at = "save"
  /\ cursor' = [last |-> job[j].maxAt, fails |-> 0]
  /\ End(j)
  /\ UNCHANGED <<clock, at, row, queue, drain, faults, ghosts>>

-----------------------------------------------------------------------------
(* The insight cron. *)

\* Mutant of AlreadyProcessed: the whole second of the cursor is done.
SecondProcessed(cur, it) == it.at <= cur.last

AlreadyProcessed(cur, it) == it.at < cur.last \/ (it.at = cur.last /\ it \in cur.done)

\* The positions of the queue that go to the model, oldest second first and as queued
\* within a second; and what the cursor may be advanced to.
Selection(q, cur, admitted) ==
  LET fresh == {i \in DOMAIN q : ~AlreadyProcessed(cur, q[i])}
      wanted == {i \in fresh : q[i].claim \in admitted}
      before(i) == {k \in wanted : q[k].at < q[i].at \/ (q[k].at = q[i].at /\ k < i)}
      picked == {i \in wanted : Cardinality(before(i)) < MaxPerHost}
      disposed == picked \union (fresh \ wanted)
      over == {q[i].at : i \in wanted \ picked}
      reach == {q[i].at : i \in {k \in disposed : over = {} \/ q[k].at <= Min(over)}}
  IN [picked |-> {q[i].claim : i \in picked}, disposed |-> {q[i] : i \in disposed},
      target |-> Max(reach \union {cur.last})]

AdvanceCursor(cur, target, disposed) ==
  [last |-> target, fails |-> 0,
   done |-> (IF target = cur.last THEN cur.done ELSE {}) \union {it \in disposed : it.at = target}]

\* The queue, the cursor and the rows are read.  A persona that the registry does not have
\* drops nothing.  Without work the job is over, and with nothing admitted the cursor moves
\* past what is dropped.
DrainWith(j, cur) ==
  /\ Free(j) /\ queue # <<>>
  /\ \E admitted \in {Admitted, Flagged} :
       LET sel == Selection(queue, cur, admitted)
           maxAt == Max({queue[i].at : i \in DOMAIN queue})
       IN /\ sel.disposed # {}
          /\ Set(j, IF sel.picked = {}
                    THEN [at |-> "advance", maxAt |-> maxAt,
                          cur |-> AdvanceCursor(cur, sel.target, sel.disposed)]
                    ELSE [at |-> "ask", maxAt |-> maxAt, cur |-> cur, sel |-> sel,
                          led |-> row, seen |-> Range(queue)])
  /\ UNCHANGED <<clock, at, row, cursor, queue, drain, ghosts>>

Insight(j) == Draining = {} /\ DrainWith(j, drain) /\ UNCHANGED faults

InsightAgain(j) == Draining # {} /\ DrainWith(j, drain) /\ Fault

DrainUnread(j) == DrainWith(j, [last |-> 0, fails |-> 0, done |-> {}]) /\ Fault

\* A failed read or model call is counted, and the whole read skipped at the ceiling.
InsightBump(cur, maxAt) ==
  IF cur.fails + 1 >= MaxFail THEN [last |-> maxAt, fails |-> 0, done |-> {}]
  ELSE [cur EXCEPT !.fails = @ + 1]

InsightFails(j) ==
  LET J == job[j] IN
  /\ J.at = "ask"
  /\ IF J.sel.picked \cap Hopeless # {} THEN UNCHANGED faults ELSE Fault
  /\ drain' = InsightBump(J.cur, J.maxAt)
  /\ passed' = IF J.cur.fails + 1 >= MaxFail THEN passed \union J.seen ELSE passed
  /\ End(j)
  /\ UNCHANGED <<clock, at, row, cursor, queue, missed, gaveUp>>

\* The model's answer is applied to the rows read before the call, and written.
InsightSync(j) ==
  LET J == job[j] IN
  /\ J.at = "ask" /\ J.sel.picked \cap Hopeless = {}
  /\ row' = SyncKnowledge(row, ApplyReconcile(J.led, J.sel.picked))
  /\ Set(j, [at |-> "graph", maxAt |-> J.maxAt, cur |-> J.cur, sel |-> J.sel])
  /\ UNCHANGED <<clock, at, cursor, queue, drain, faults, ghosts>>

\* A failed write is counted and never skipped, whether the rows' or the goal graph's.
WriteFails(j) ==
  LET J == job[j] IN
  /\ J.at = "graph" \/ (J.at = "ask" /\ J.sel.picked \cap Hopeless = {})
  /\ Fault
  /\ drain' = [J.cur EXCEPT !.fails = @ + 1]
  /\ End(j)
  /\ UNCHANGED <<clock, at, row, cursor, queue, ghosts>>

\* mergeGoalGraph, after which the cursor moves.
InsightDone(j) ==
  LET J == job[j] IN
  /\ J.at = "graph"
  /\ drain' = AdvanceCursor(J.cur, J.sel.target, J.sel.disposed)
  /\ End(j)
  /\ UNCHANGED <<clock, at, row, cursor, queue, faults, ghosts>>

PassDropped(j) ==
  /\ job[j].at = "advance"
  /\ drain' = job[j].cur
  /\ End(j)
  /\ UNCHANGED <<clock, at, row, cursor, queue, faults, ghosts>>

-----------------------------------------------------------------------------
\* A job's time is up, or a call fails on which it only returns: what it was about to
\* save is not saved.
Expire(j) ==
  /\ job[j] # Idle
  /\ IF job[j].at = "extract" /\ job[j].batch \cap Slow # {} THEN UNCHANGED faults ELSE Fault
  /\ End(j)
  /\ UNCHANGED <<clock, at, row, cursor, queue, drain, ghosts>>

\* mesad dies with every job.
Crash ==
  /\ \E j \in Jobs : job[j] # Idle
  /\ Fault
  /\ job' = [j \in Jobs |-> Idle]
  /\ UNCHANGED <<clock, at, row, cursor, queue, drain, ghosts>>

\* What a running job does next.
Proceed(j) ==
  \/ Extract(j) \/ ((ExtractFails(j) \/ Expire(j)) /\ faults' = faults)
  \/ SyncFold(j) \/ Record(j) \/ AppendFlagged(j) \/ SaveCursor(j)
  \/ (InsightFails(j) /\ faults' = faults)
  \/ InsightSync(j) \/ InsightDone(j) \/ PassDropped(j)

Next ==
  \/ Tick \/ Crash
  \/ \E l \in Lines, s \in Seconds : AddObservation(l, s)
  \/ \E j \in Jobs :
       \/ Consolidate(j) \/ ConsolidateAgain(j) \/ CursorUnread(j)
       \/ Extract(j) \/ ExtractFails(j) \/ SyncFold(j)
       \/ Record(j) \/ QueueUnread(j) \/ AppendFlagged(j) \/ AppendFails(j) \/ SaveCursor(j)
       \/ Insight(j) \/ InsightAgain(j) \/ DrainUnread(j)
       \/ InsightFails(j) \/ InsightSync(j) \/ WriteFails(j)
       \/ InsightDone(j) \/ PassDropped(j)
       \/ Expire(j)

Spec == Init /\ [][Next]_vars

\* The tickers fire, the sweeps take the host, a loop that waits for a slot gets one, and
\* jobs run.
Fairness ==
  /\ SF_vars(\E j \in Jobs : Consolidate(j)) /\ SF_vars(\E j \in Jobs : Insight(j))
  /\ \A j \in Jobs : WF_vars(Proceed(j))

FairSpec == Spec /\ Fairness

-----------------------------------------------------------------------------
(* Properties. *)

\* Every variable has its type.
TypeOK ==
  /\ clock \in 1 .. MaxClock /\ at \in [Lines -> Seconds]
  /\ row \in [beliefs : SUBSET Distilled, lowered : [Lines -> Nat],
              sentiment : SUBSET Sentimental, reconciled : SUBSET Flagged]
  /\ cursor \in [last : Seconds, fails : 0 .. MaxFail]
  /\ queue \in Seq(Items) /\ Len(queue) <= MaxQueue
  /\ drain \in [last : Seconds, fails : Nat, done : SUBSET Items]
  /\ faults \in 0 .. MaxFaults

\* The consolidation cursor passes a line only when its claim is in the rows, when its
\* batch failed as often as is allowed, or when the line came behind a read or was cut off
\* by its limit: no failed call, crash, retry, overlapping job or stale write of the other
\* cron takes it past another (cron.go:269-273, "the cursor only advances after the fold
\* persists", and 361-364; ltm.go:681-693).
NothingSkipped ==
  \A l \in Stored \cap Distilled :
    at[l] <= cursor.last => l \in row.beliefs \union missed \union gaveUp

\* A queued claim that the insight cron will not look at again was applied, is one the
\* persona drops, was skipped as poison or was queued behind the cursor: none is lost to
\* the cap on a run, to a second shared with others, or to a failed write
\* (cron_insight.go:58-64 and 388-390).
EscalationsKept ==
  \A it \in Range(queue) :
    AlreadyProcessed(drain, it) =>
      it.claim \notin Admitted \/ row.lowered[it.claim] > 0 \/ it \in passed

\* The crons come to rest: every stored line is passed, a poisonous one too, and every
\* queued claim is processed and stays so, so that no more model calls are made
\* (cron.go:220-222, cron_insight.go:37-39).
CronsSettle ==
  <>[](/\ \A l \in Stored : at[l] <= cursor.last
       /\ \A it \in Range(queue) : AlreadyProcessed(drain, it))

-----------------------------------------------------------------------------
(* What the repository says of this code and the code does not keep: see the  *)
(* README's known disagreements.                                              *)

\* A stored line is read at least once (ltm.go:609-613: "a crash mid-batch can re-surface
\* rows that share the cursor second ... making this safely at-least-once").
AtLeastOnce ==
  \A l \in Stored \cap Distilled : at[l] <= cursor.last => l \in row.beliefs \union gaveUp

\* A contradicted claim is lowered once (cron_insight.go:709-710 and 716-717: "One
\* contradiction = one beta bump, forever").
LoweredOnce == \A l \in Lines : row.lowered[l] <= 1

\* A queued claim leaves the queue by its bound only (cron_insight.go:205-206: "a
\* read-modify-write delete would race and lose escalations").
QueueOnlyGrows ==
  [][\A it \in Range(queue) : it \in Range(queue') \/ Len(queue') = MaxQueue]_vars

\* A batch that keeps failing is skipped, whatever makes it fail (cron.go:221: "so one
\* poison batch can't wedge a host's cursor"; cron_insight.go:350: "skip the WHOLE wedged
\* batch"): CronsSettle with Slow or with Hopeless claims.
PoisonIsSkipped == Slow \union Hopeless # {} => CronsSettle

=============================================================================
