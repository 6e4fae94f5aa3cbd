----------------------------- MODULE GoalGraph -----------------------------
(***************************************************************************)
(* The host's intention graph (src/cognition/goalgraph) and the two        *)
(* programs that write it.  On the host the director opens, blocks,        *)
(* recovers and closes goals, the reactive goroutine closes answered       *)
(* questions, and the limbic goroutine prunes the graph, folds mesa's copy *)
(* in, saves it locally and pushes it up every flush tick.  On mesad the   *)
(* insight cron grows the same goal_graphs row.                            *)
(*                                                                         *)
(* Left out: labels, tags, progress, aspirations and the death writer.     *)
(* Ids are already normalised and all clocks agree to the second.  A step  *)
(* runs up to the next read that another goroutine can make stale.         *)
(***************************************************************************)
EXTENDS Naturals, FiniteSets, Sequences

CONSTANTS Goals,       \* ids of goals the planner may pursue
          Acquirable,  \* the goals that name an item to acquire
          Question,    \* Question[g]: the open question that blocks g
          Enabler,     \* Enabler[g]: the sub-goal that enables g
          Chains,      \* ids of the nodes the insight cron may add
          Order,       \* all ids in string order, as sort.Slice ranks them
          FirstGoal,   \* the goal the director is constructed with
          Cap,         \* DefaultGraphCap
          MaxClock,    \* bound: seconds that pass
          MaxEvents    \* bound: director turns after the seeding, closing passes,
                       \* cron runs, restarts and failures, together

Ids == Goals \union Chains \union {Question[g] : g \in Goals} \union {Enabler[g] : g \in Goals}

ConstantsOK ==
  /\ Acquirable \subseteq Goals /\ FirstGoal \in Goals
  /\ Question \in [Goals -> Ids] /\ Enabler \in [Goals -> Ids]
  /\ Cap \in Nat \ {0}
  /\ {MaxClock, MaxEvents} \subseteq Nat
  /\ {Order[i] : i \in DOMAIN Order} = Ids /\ Len(Order) = Cardinality(Ids)

ASSUME ConstantsAssumption == ConstantsOK

Kinds == {"goal", "subgoal", "open_goal", "open_question", "state"}
Statuses == {"open", "active", "blocked", "done", "abandoned"}
Closed == {"done", "abandoned"}

NodeType == [kind : Kinds, status : Statuses, at : 0..MaxClock]
EdgeType == Ids \X Ids \X {"requires", "produces", "enables", "blocked_by"}

VARIABLES
  clock,    \* time.Now().Unix()
  graph,    \* h.goalGraph
  local,    \* the snapshot under goalgraph:_main in the local store
  row,      \* the host's goal_graphs row on mesad
  goal,     \* MesaDirector.goal
  turn,     \* where the director stands in a check-then-write sequence
  closer,   \* the reactive goroutine: its step, question, goals to un-block
  limbic,   \* where the limbic goroutine stands
  snap,     \* the snapshot the limbic goroutine holds across an RPC
  cron,     \* the insight cron: its step, its decisions, the row it read
  budget    \* what is left of MaxEvents

hostVars == <<graph, local, goal, turn, closer, limbic, snap>>
vars == <<clock, graph, local, row, goal, turn, closer, limbic, snap, cron, budget>>

----------------------------------------------------------------------------
(* The graph's methods. *)

None == [nodes |-> <<>>, edges |-> {}]

Has(g, id) == id \in DOMAIN g.nodes

StatusOf(g, id) == IF Has(g, id) THEN g.nodes[id].status ELSE "absent"

KindRank(k) ==
  CASE k = "goal" -> 4 [] k = "subgoal" -> 3 [] k = "open_goal" -> 2
    [] k = "open_question" -> 1 [] OTHER -> 0

StrongerKind(a, b) == IF KindRank(a) >= KindRank(b) THEN a ELSE b

Put(g, id, n) ==
  [g EXCEPT !.nodes = [x \in DOMAIN @ \union {id} |-> IF x = id THEN n ELSE @[x]]]

\* nodeLocked: the stored node, or a fresh one.
NodeFor(g, id, kind) ==
  IF Has(g, id) THEN g.nodes[id] ELSE [kind |-> kind, status |-> "open", at |-> clock]

\* status "" leaves the stored status alone.
Upsert(g, id, kind, status) ==
  LET n == NodeFor(g, id, kind) IN
  Put(g, id, [kind |-> StrongerKind(kind, n.kind),
              status |-> IF status = "" THEN n.status ELSE status,
              at |-> clock])

Link(g, from, to, rel) ==
  LET h == Put(g, from, NodeFor(g, from, "state")) IN
  [Put(h, to, NodeFor(h, to, "state")) EXCEPT !.edges = @ \union {<<from, to, rel>>}]

SetStatus(g, id, status) ==
  Put(g, id, [NodeFor(g, id, "state") EXCEPT !.status = status, !.at = clock])

OpenOf(g, kind) ==
  {id \in DOMAIN g.nodes : g.nodes[id].kind = kind /\ g.nodes[id].status \notin Closed}

BlockedBy(g, q) == {e[1] : e \in {f \in g.edges : f[2] = q /\ f[3] = "blocked_by"}}

Position(id) == CHOOSE i \in DOMAIN Order : Order[i] = id

Older(g, a, b) ==
  \/ g.nodes[a].at < g.nodes[b].at
  \/ g.nodes[a].at = g.nodes[b].at /\ Position(a) < Position(b)

Terminal(g) == {id \in DOMAIN g.nodes : g.nodes[id].status \in Closed}

\* Mutant of Evicted: a live node may go as well.
EvictedAnyStatus(g) ==
  {a \in DOMAIN g.nodes :
     Cardinality({b \in DOMAIN g.nodes : Older(g, b, a)}) + Cap < Cardinality(DOMAIN g.nodes)}

\* The oldest terminal nodes, as many as the graph is over its cap.
Evicted(g) ==
  {a \in Terminal(g) :
     Cardinality({b \in Terminal(g) : Older(g, b, a)}) + Cap < Cardinality(DOMAIN g.nodes)}

Without(g, dropped) ==
  [nodes |-> [id \in DOMAIN g.nodes \ dropped |-> g.nodes[id]],
   edges |-> {e \in g.edges : e[1] \notin dropped /\ e[2] \notin dropped}]

PruneTerminal(g) == Without(g, Evicted(g))

\* Mutant of ImportMerge: only nodes the host already has are merged.
ImportMergeKnown(g, s) ==
  PruneTerminal([g EXCEPT !.nodes = [id \in DOMAIN @ |->
    IF Has(s, id) THEN [@[id] EXCEPT !.kind = StrongerKind(@, s.nodes[id].kind)] ELSE @[id]]])

\* A node of both keeps the host's status and stamp and takes the stronger
\* kind; a node only the snapshot has is added as it is; edges are added.
ImportMerge(g, s) ==
  LET ends == UNION {{e[1], e[2]} : e \in s.edges}
      ids == DOMAIN g.nodes \union DOMAIN s.nodes \union ends
      merged(id) ==
        CASE Has(g, id) /\ Has(s, id) ->
               [g.nodes[id] EXCEPT !.kind = StrongerKind(@, s.nodes[id].kind)]
          [] ~Has(g, id) /\ Has(s, id) -> s.nodes[id]
          [] OTHER -> NodeFor(g, id, "state")
  IN PruneTerminal([nodes |-> [id \in ids |-> merged(id)], edges |-> g.edges \union s.edges])

\* maxNodeAt: the freshest stamp, 0 for a graph without nodes.
MaxNodeAt(g) ==
  LET stamps == {g.nodes[id].at : id \in DOMAIN g.nodes} \union {0}
  IN CHOOSE m \in stamps : \A s \in stamps : s <= m

\* Mutant of Accepts: an equally fresh snapshot is refused too.
AcceptsStrictly(stored, s) == MaxNodeAt(s) > MaxNodeAt(stored)

\* SyncGoalGraph refuses a snapshot strictly older than the stored one.
Accepts(stored, s) == MaxNodeAt(s) >= MaxNodeAt(stored)

SyncGoalGraph(stored, s) == IF s # None /\ Accepts(stored, s) THEN s ELSE stored

----------------------------------------------------------------------------
(* The system. *)

Idle == [at |-> "idle", goal |-> FirstGoal, goals |-> {}]
CronIdle == [at |-> "idle", work |-> None]

Init ==
  /\ clock = 0
  /\ graph = None /\ local = None /\ row = None
  /\ goal = FirstGoal /\ turn = "idle" /\ closer = Idle
  /\ limbic = "load" /\ snap = None
  /\ cron = CronIdle
  /\ budget = MaxEvents

Spend == budget > 0 /\ budget' = budget - 1

Tick ==
  /\ clock < MaxClock
  /\ clock' = clock + 1
  /\ UNCHANGED <<graph, local, row, goal, turn, closer, limbic, snap, cron, budget>>

(* The director.  Every turn first resolves the effective goal: a closed goal
   hands over to the newest queued one, or leaves no objective. *)

Elsewhere == UNCHANGED <<clock, local, row, closer, limbic, snap, cron>>

Pursuing == turn = "idle" /\ StatusOf(graph, goal) \notin Closed

\* resolveGoal through pickOpenGoal; equal stamps come back in any order.
Advance ==
  /\ turn = "idle" /\ StatusOf(graph, goal) \in Closed
  /\ \E next \in OpenOf(graph, "open_goal") \ {goal} :
       /\ \A other \in OpenOf(graph, "open_goal") \ {goal} :
            graph.nodes[other].at <= graph.nodes[next].at
       /\ graph' = SetStatus(graph, next, "active")
       /\ goal' = next
  /\ Elsewhere /\ UNCHANGED <<turn, budget>>

\* situation: the standing objective becomes a visible root node.
SeedCheck ==
  /\ Pursuing /\ ~Has(graph, goal)
  /\ turn' = "seed"
  /\ Elsewhere /\ UNCHANGED <<graph, goal, budget>>

Seed ==
  /\ turn = "seed" /\ turn' = "idle"
  /\ graph' = Upsert(graph, goal, "goal", "active")
  /\ Elsewhere /\ UNCHANGED <<goal, budget>>

\* markGoalBlocked: past its guard against a closed goal.
BlockCheck ==
  /\ Pursuing /\ Has(graph, goal)
  /\ Spend /\ turn' = "ask"
  /\ Elsewhere /\ UNCHANGED <<graph, goal>>

\* A question that exists keeps its status: a resolved one is not re-opened.
\* markTopicalQuestion links it at once.
AskQuestion ==
  /\ turn = "ask" /\ turn' = "block"
  /\ LET q == Question[goal]
         asked == Upsert(graph, q, "open_question", IF Has(graph, q) THEN "" ELSE "open")
     IN graph' = IF goal \in Acquirable THEN Link(asked, goal, q, "blocked_by") ELSE asked
  /\ Elsewhere /\ UNCHANGED <<goal, budget>>

\* mintEnablerIfNeeded
WithEnabler(g) ==
  IF \E e \in g.edges : e[1] = goal /\ e[3] \in {"requires", "enables"}
  THEN g
  ELSE LET e == Enabler[goal] IN
       Link(Link(Upsert(g, e, "subgoal", "open"), goal, e, "requires"), e, goal, "enables")

SetBlocked ==
  /\ turn = "block" /\ turn' = "idle"
  /\ LET stuck == SetStatus(graph, goal, "blocked")
     IN graph' = WithEnabler(IF goal \in Acquirable THEN stuck
                             ELSE Link(stuck, goal, Question[goal], "blocked_by"))
  /\ Elsewhere /\ UNCHANGED <<goal, budget>>

EnablerDone(g) == IF Has(g, Enabler[goal]) THEN SetStatus(g, Enabler[goal], "done") ELSE g

\* A turn that went well looks whether its goal is blocked ...
Succeed ==
  /\ Pursuing /\ Has(graph, goal)
  /\ Spend
  /\ IF StatusOf(graph, goal) = "blocked"
     THEN turn' = "recover" /\ UNCHANGED graph
     ELSE UNCHANGED turn /\ graph' = EnablerDone(graph)
  /\ Elsewhere /\ UNCHANGED goal

\* ... and then un-blocks it.
Recover ==
  /\ turn = "recover" /\ turn' = "idle"
  /\ graph' = EnablerDone(SetStatus(graph, goal, "active"))
  /\ Elsewhere /\ UNCHANGED <<goal, budget>>

\* applyGoalOp: the planner declares the goal done or abandoned.
CloseGoal(status) ==
  /\ Pursuing /\ Has(graph, goal)
  /\ Spend
  /\ graph' = SetStatus(graph, goal, status)
  /\ Elsewhere /\ UNCHANGED <<goal, turn>>

\* applyGoalOp: the planner queues another goal.
Adopt(t) ==
  /\ turn = "idle" /\ t # goal /\ ~Has(graph, t)
  /\ Spend
  /\ graph' = Upsert(graph, t, "open_goal", "open")
  /\ Elsewhere /\ UNCHANGED <<goal, turn>>

Director ==
  \/ Advance \/ SeedCheck \/ Seed \/ BlockCheck \/ AskQuestion \/ SetBlocked
  \/ Succeed \/ Recover
  \/ \E status \in Closed : CloseGoal(status)
  \/ \E t \in Goals : Adopt(t)

(* The reactive goroutine: closeResolvedQuestions. *)

NotReactive == UNCHANGED <<clock, local, row, goal, turn, limbic, snap, cron>>

\* An open question is answered: it is closed, and the goals it blocks are
\* the ones to look at.
CloseQuestion(q) ==
  /\ closer.at = "idle" /\ q \in OpenOf(graph, "open_question")
  /\ Spend
  /\ graph' = SetStatus(graph, q, "done")
  /\ closer' = [at |-> "check", goal |-> FirstGoal, goals |-> BlockedBy(graph, q)]
  /\ NotReactive

\* Get the next goal; remember it when it reads blocked.
CheckBlocked ==
  /\ closer.at = "check"
  /\ \/ closer.goals = {} /\ closer' = Idle
     \/ \E g \in closer.goals :
          closer' = IF StatusOf(graph, g) = "blocked"
                    THEN [at |-> "unblock", goal |-> g, goals |-> closer.goals \ {g}]
                    ELSE [closer EXCEPT !.goals = @ \ {g}]
  /\ NotReactive /\ UNCHANGED <<graph, budget>>

Unblock ==
  /\ closer.at = "unblock"
  /\ graph' = SetStatus(graph, closer.goal, "active")
  /\ closer' = [closer EXCEPT !.at = "check", !.goal = FirstGoal]
  /\ NotReactive /\ UNCHANGED budget

Reactive == (\E q \in Ids : CloseQuestion(q)) \/ CheckBlocked \/ Unblock

(* The limbic goroutine. *)

NotLimbic == UNCHANGED <<clock, goal, turn, closer, cron>>

\* loadGoalGraph: Import replaces the graph by the stored one.
LoadLocal ==
  /\ limbic = "load" /\ limbic' = "boot"
  /\ graph' = IF local # None THEN local ELSE graph
  /\ NotLimbic /\ UNCHANGED <<local, row, snap, budget>>

\* bootstrapGoalGraphFromMesa: an empty graph asks mesa, and what mesa has
\* replaces it when the answer is in; a live graph, an absent or failing
\* mesa and an empty row leave it alone.
BootFetch ==
  /\ limbic = "boot"
  /\ \/ graph = None /\ row # None /\ snap' = row /\ limbic' = "bootImport"
     \/ snap' = snap /\ limbic' = "idle"
  /\ NotLimbic /\ UNCHANGED <<graph, local, row, budget>>

BootImport ==
  /\ limbic = "bootImport" /\ limbic' = "idle"
  /\ graph' = snap /\ snap' = None
  /\ NotLimbic /\ UNCHANGED <<local, row, budget>>

\* The flush tick: pruneCognition, then the fetch of the warm re-import.
FlushTick ==
  /\ limbic = "idle" /\ limbic' = "merge"
  /\ graph' = PruneTerminal(graph) /\ snap' = row
  /\ NotLimbic /\ UNCHANGED <<local, row, budget>>

FetchFails ==
  /\ Spend
  /\ limbic = "idle" /\ limbic' = "merge"
  /\ graph' = PruneTerminal(graph)
  /\ NotLimbic /\ UNCHANGED <<local, row, snap>>

\* The fetched row is merged, the graph saved locally and exported for
\* mesad; an empty graph goes nowhere.
Merge ==
  /\ limbic = "merge"
  /\ graph' = IF snap # None THEN ImportMerge(graph, snap) ELSE graph
  /\ local' = IF graph' # None THEN graph' ELSE local
  /\ snap' = graph'
  /\ limbic' = IF graph' # None THEN "sync" ELSE "idle"
  /\ NotLimbic /\ UNCHANGED <<row, budget>>

PushCommit ==
  /\ limbic = "sync" /\ limbic' = "idle"
  /\ row' = SyncGoalGraph(row, snap) /\ snap' = None
  /\ NotLimbic /\ UNCHANGED <<graph, local, budget>>

PushFails ==
  /\ Spend
  /\ limbic = "sync" /\ limbic' = "idle"
  /\ snap' = None
  /\ NotLimbic /\ UNCHANGED <<graph, local, row>>

\* The host's context ends: a last local flush, which may fail or never
\* happen (a crash); then the program starts again, on the same store or,
\* in memory mode, on an empty one.
Restart ==
  /\ Spend
  /\ local' \in {local, IF graph # None THEN graph ELSE local, None}
  /\ graph' = None /\ goal' = FirstGoal /\ turn' = "idle" /\ closer' = Idle
  /\ limbic' = "load" /\ snap' = None
  /\ UNCHANGED <<clock, row, cron>>

Limbic ==
  \/ LoadLocal \/ BootFetch \/ BootImport \/ FlushTick \/ FetchFails
  \/ Merge \/ PushCommit \/ PushFails

(* The insight cron (mesad). *)

\* applyChains then applyCloseQuestions.
ApplyInsight(g, chains, closes) ==
  LET chained == [nodes |-> [id \in DOMAIN g.nodes \union chains |->
                               IF id \in chains
                               THEN [NodeFor(g, id, "state") EXCEPT !.at = clock]
                               ELSE g.nodes[id]],
                  edges |-> g.edges \union ((DOMAIN g.nodes \intersect Goals) \X chains \X {"requires"})]
  IN [chained EXCEPT !.nodes = [id \in DOMAIN @ |->
        IF id \in closes THEN [@[id] EXCEPT !.status = "done", !.at = clock] ELSE @[id]]]

\* insightHost asks the model and re-reads the row; the model decided on
\* nodes to chain to the goals and on open questions that a belief answers.
CronMerge(chains, closes) ==
  /\ cron.at = "idle" /\ chains \union closes # {}
  /\ Spend
  /\ cron' = [at |-> "write", work |-> ApplyInsight(row, chains, closes)]
  /\ UNCHANGED <<clock, row, hostVars>>

\* The merged row is written in a transaction of its own.
CronWrite ==
  /\ cron.at = "write" /\ cron' = CronIdle
  /\ row' = SyncGoalGraph(row, cron.work)
  /\ UNCHANGED <<clock, hostVars, budget>>

\* The write fails: the cursor stays where it was and a later run retries.
CronFails ==
  /\ Spend
  /\ cron.at = "write" /\ cron' = CronIdle
  /\ UNCHANGED <<clock, row, hostVars>>

Cron ==
  \/ \E chains \in SUBSET Chains, closes \in SUBSET OpenOf(row, "open_question") :
       CronMerge(chains, closes)
  \/ CronWrite \/ CronFails

Next == Tick \/ Director \/ Reactive \/ Limbic \/ Restart \/ Cron

Spec == Init /\ [][Next]_vars

\* The flush ticker keeps firing, every step of a flush returns (each RPC
\* has a deadline) and only finitely many of them fail.
FairSpec == Spec /\ WF_vars(Limbic)

----------------------------------------------------------------------------
IsGraph(g) ==
  /\ DOMAIN g = {"nodes", "edges"} /\ g.edges \subseteq EdgeType
  /\ DOMAIN g.nodes \subseteq Ids /\ \A id \in DOMAIN g.nodes : g.nodes[id] \in NodeType

\* Every variable has its type; every copy of the graph is one.
TypeOK ==
  /\ clock \in 0..MaxClock
  /\ \A g \in {graph, local, row, snap, cron.work} : IsGraph(g)
  /\ goal \in Goals
  /\ turn \in {"idle", "seed", "ask", "block", "recover"}
  /\ closer \in [at : {"idle", "check", "unblock"}, goal : Goals, goals : SUBSET Ids]
  /\ limbic \in {"load", "boot", "bootImport", "idle", "merge", "sync"}
  /\ cron.at \in {"idle", "write"} /\ budget \in 0..MaxEvents

(* Once the graph is loaded, work that is still open, active or blocked      *)
(* never leaves it while the host runs: pruning to the cap and merging a     *)
(* snapshot that does not know it take only closed nodes (PruneTerminal,     *)
(* ImportMerge).                                                             *)
LiveWorkKept ==
  [][limbic \notin {"load", "bootImport"} /\ limbic' # "load"
       => DOMAIN graph.nodes \ Terminal(graph) \subseteq DOMAIN graph'.nodes]_vars

(* A node the insight cron added, once it stays in mesad's row, reaches the  *)
(* running host's graph and stays there: the warm re-import carries it over  *)
(* restarts, failed fetches and interleaved flushes                          *)
(* (reimportGoalGraphFromMesa).                                              *)
ChainArrives ==
  \A c \in Chains : <>[](Has(row, c)) => <>[](Has(graph, c))

(* When the host's graph stays at least as fresh as mesad's row, the row     *)
(* ends up holding the host's statuses and edges: no lost or refused push    *)
(* and no cron write leaves the mirror behind for ever (SyncGoalGraph).      *)
MirrorCatchesUp ==
  <>[](graph # None /\ MaxNodeAt(graph) >= MaxNodeAt(row)) => <>[](row = graph)

----------------------------------------------------------------------------
(* What comments say of this code and the code does not keep; see the        *)
(* README's table of known disagreements.                                    *)

(* A question the cron closed on mesad is closed in the host's graph after   *)
(* the warm re-import.                                                       *)
ClosureArrives ==
  [][limbic = "merge" /\ limbic' = "sync"
       => \A q \in OpenOf(graph, "open_question") :
            StatusOf(snap, q) \in Closed => StatusOf(graph', q) \in Closed \union {"absent"}]_vars

(* A goal the host closed does not become open, active or blocked again      *)
(* while the host runs.                                                      *)
ClosedStaysClosed ==
  [][limbic \notin {"load", "bootImport"} /\ limbic' # "load"
       => \A g \in Terminal(graph) \intersect Goals : StatusOf(graph', g) \in Closed \union {"absent"}]_vars

(* A cold start never overwrites work the host has in its graph.             *)
BootstrapKeepsLive ==
  [][limbic = "bootImport" /\ limbic' = "idle" => DOMAIN graph.nodes \subseteq DOMAIN graph'.nodes]_vars

(* A host push never removes a node the cron added.                          *)
PushKeepsChains ==
  [][limbic = "sync" => \A c \in Chains : Has(row, c) => Has(row', c)]_vars

(* The cron only adds: its write never removes a node from the row.          *)
CronOnlyAdds ==
  [][cron.at = "write" => DOMAIN row.nodes \subseteq DOMAIN row'.nodes]_vars

(* The snapshot a host pushes after a re-import is not refused as older.     *)
MergedPushAccepted ==
  [][limbic = "merge" /\ limbic' = "sync" => MaxNodeAt(graph') >= MaxNodeAt(snap)]_vars

(* A goal is not left blocked by a question that was already answered.       *)
NoStrandedBlock ==
  turn = "idle" /\ closer.at = "idle" /\ StatusOf(graph, goal) = "blocked"
    => StatusOf(graph, Question[goal]) \notin Closed
=============================================================================
