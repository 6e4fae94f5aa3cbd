------------------------------ MODULE Routine -------------------------------
(***************************************************************************)
(* One run of a routine by the interpreter (dsl/interp): blocks, loops, try *)
(* and procs, the panics that carry break, return, abort and errors, the    *)
(* op budget, `defer`, event handlers, `when` watchers and `select`.        *)
(*                                                                         *)
(* The interpreter is one goroutine whose Go stack is the state: `stack`    *)
(* holds the activations that matter, the innermost last.  The program is   *)
(* an input: at every statement any form the validator admits there may     *)
(* come next.  Expressions are abstracted to the one predicate that         *)
(* watchers and select cases test, `world`, which changes between any two   *)
(* steps.  The action of a yielding call itself, the suspend checkpoint     *)
(* (module Conductor) and the reverie hook do nothing here.                 *)
(***************************************************************************)
EXTENDS Integers, Sequences, FiniteSets, SequencesExt

CONSTANTS
  Watchers,    \* `when` statements
  Qual,        \* their qualifiers
  Events,      \* event names
  Handlers,    \* per event name, its handlers, "on" or "bounded"
  SelectStmts, \* `select` statements, each the sequence of its cases
  Defers,      \* `defer` statements, each run at most once (a bound)
  QueueCap,    \* capacity of it.Events
  OpBudget,    \* Caps.OpBudget
  MaxFlips,    \* changes of the world (a bound)
  MaxArrivals  \* events that arrive (a bound)

Qualifiers == {"becomes true", "becomes false", "changes"}
Contexts == {"loop", "hand", "proc"}
Signals == {"break", "continue", "return", "cancel", "abort", "error"}
WhenCases(cs) == {i \in DOMAIN cs : cs[i].k = "when"}
OnCases(cs, e) == {i \in DOMAIN cs : cs[i] = [k |-> "on", of |-> e]}
TimeoutCases(cs) == {i \in DOMAIN cs : cs[i].k = "timeout"}

ASSUME RoutineAssumption ==
  /\ Qual \in [Watchers -> Qualifiers]
  /\ Handlers \in [Events -> Seq({"on", "bounded"})]
  /\ SelectStmts \subseteq Seq([k : {"when"}, of : Qualifiers]
                              \union [k : {"on"}, of : Events]
                              \union [k : {"timeout"}, of : {""}])
  /\ {QueueCap, OpBudget, MaxFlips, MaxArrivals} \subseteq Nat

VARIABLES
  stack,     \* the activations
  queue,     \* it.Events
  ops,       \* budget.opsRemaining; none is left once the deadline has passed
  deferred,  \* it.deferred
  world,     \* the value of the watched predicate
  last,      \* watcher.last
  canceled,  \* ctx.Err() of the run
  result,    \* Result.Kind, or where the run is
  flips,     \* changes of the world so far
  arrivals,  \* events that have arrived so far
  credit,    \* history: transitions a watcher matched less the times it fired
  pushed,    \* history: the deferred statements that were executed
  ran        \* history: times a deferred call has run

run == <<queue, ops, deferred, last, canceled, credit, pushed, ran>>
env == <<world, flips, arrivals>>
vars == <<stack, queue, ops, deferred, world, last, canceled, result, flips,
          arrivals, credit, pushed, ran>>

-----------------------------------------------------------------------------
(* Activations.  A block is one execBlock, with its watcher frame `ws`, who  *)
(* called it (and so catches what it raises) and where the validator places  *)
(* its statements.                                                           *)

Block(by, in) == [k |-> "block", by |-> by, in |-> in, ws |-> <<>>]
DrainQueue == [k |-> "drain", of |-> "", left |-> <<>>]
Sweep(ps) == [k |-> "sweep", left |-> ps]

Top == Last(stack)
At(k) == stack # <<>> /\ Top.k = k
ReplaceTop(a) == Append(Front(stack), a)
Blocks == {i \in DOMAIN stack : stack[i].k = "block"}
Selects == {i \in DOMAIN stack : stack[i].k = "select"}

\* A proc runs under context.Background(): nothing in it sees the cancel.
Canceled == canceled /\ \A i \in Blocks : stack[i].by # "proc"

\* The registered watchers, by frame and place in it.  A frame that a sweep has
\* in its snapshot does not change before the sweep ends.
activeWatchers(st) ==
  UNION {{<<i, n>> : n \in DOMAIN st[i].ws} : i \in {j \in DOMAIN st : st[j].k = "block"}}
Registered(p) == stack[p[1]].ws[p[2]]
Live == {Registered(p).w : p \in activeWatchers(stack)}

\* Outermost frame first, declaration order in a frame.
Before(p, q) == p[1] < q[1] \/ (p[1] = q[1] /\ p[2] < q[2])

\* The transition test that watchers and select cases share.
fireIf(qual, was) ==
  CASE qual = "becomes true"  -> ~was /\ world
    [] qual = "becomes false" -> was /\ ~world
    [] qual = "changes"       -> was # world

\* The value `last` starts from: a matching predicate fires at once, except
\* for "changes".
Seed(qual) ==
  CASE qual = "becomes true"  -> FALSE
    [] qual = "becomes false" -> TRUE
    [] qual = "changes"       -> world

-----------------------------------------------------------------------------
(* Panics.                                                                   *)

\* The block of one execBody.
IsBody(a) == a.k = "block" /\ a.by \in {"body", "proc"}

Catches(a, sig) ==
  \/ a.k = "defers" \/ IsBody(a)
  \/ /\ a.k = "block"
     /\ \/ a.by = "loop" /\ sig \in {"break", "continue"}
        \/ a.by = "try" /\ sig = "abort"
        \/ a.by = "handler" /\ sig \in {"break", "continue", "return", "cancel"}

\* The deferred function of execBody: every pending call of the interpreter.
drainDeferred(by, sig) ==
  [k |-> "defers", by |-> by, left |-> Reverse(deferred), then |-> sig]

\* A panic with `sig` above the activations `st`: the innermost that catches
\* it is the i-th.
Raise(st, sig) ==
  \E i \in DOMAIN st :
    /\ Catches(st[i], sig)
    /\ \A j \in DOMAIN st : Catches(st[j], sig) => j <= i
    /\ LET below == SubSeq(st, 1, i - 1)
       IN \/ /\ IsBody(st[i])
             /\ stack' = Append(below, drainDeferred(st[i].by, sig))
             /\ deferred' = <<>>
          \/ /\ ~IsBody(st[i])
             /\ stack' = CASE st[i].k = "defers" -> SubSeq(st, 1, i)
                           [] st[i].by = "try"   -> Append(below, Block("recover", st[i].in))
                           [] OTHER              -> below
             /\ UNCHANGED deferred

Outcome(sig) ==
  CASE sig = "ok" -> "completed"
    [] sig \in {"return", "cancel"} -> "returned"
    [] sig = "abort" -> "aborted"
    [] OTHER -> "errored"

-----------------------------------------------------------------------------
(* The run starts.  A failing parameter or precondition ends it before its   *)
(* body; so does a context that is already done.                             *)

runDecl ==
  /\ result = "ready"
  /\ \/ result' \in {"errored", "aborted"} /\ UNCHANGED stack
     \/ canceled /\ result' = "canceled" /\ UNCHANGED stack
     \/ ~canceled /\ result' = "running" /\ stack' = <<Block("body", {})>>
  /\ UNCHANGED <<run, env>>

\* execBlock looks at the context and execStmt charges the budget before each
\* statement.
Stmt == At("block") /\ ~Canceled /\ ops > 0 /\ ops' = ops - 1

StmtCanceled ==
  /\ At("block") /\ Canceled
  /\ Raise(stack, "cancel")
  /\ UNCHANGED <<queue, ops, last, canceled, credit, pushed, ran, result, env>>

StmtOutOfBudget ==
  /\ At("block") /\ ~Canceled /\ ops = 0
  /\ Raise(stack, "abort")
  /\ UNCHANGED <<queue, ops, last, canceled, credit, pushed, ran, result, env>>

\* The body of a loop, or try.  The branch of an if and a plain block are
\* loop bodies that run once and raise no break.
EnterBlock(by) ==
  /\ Stmt
  /\ stack' = Append(stack, Block(by, Top.in \union IF by = "loop" THEN {"loop"} ELSE {}))
  /\ UNCHANGED <<queue, deferred, last, canceled, credit, pushed, ran, result, env>>

\* procCallable.Call
CallProc ==
  /\ Stmt
  /\ stack' = Append(stack, Block("proc", {"proc"}))
  /\ UNCHANGED <<queue, deferred, last, canceled, credit, pushed, ran, result, env>>

\* break, continue, return, abort, a failing bang action, a runtime error.
Signal(sig) ==
  /\ Stmt
  /\ sig \in {"break", "continue"} => "loop" \in Top.in
  /\ sig = "return" => "hand" \notin Top.in
  /\ sig = "abort" => "proc" \notin Top.in
  /\ Raise(stack, sig)
  /\ UNCHANGED <<queue, last, canceled, credit, pushed, ran, result, env>>

\* The mutant leaves the calls on it.deferred while it runs them.
LeaveBlockKeeps ==
  /\ At("block")
  /\ stack' = CASE IsBody(Top) -> ReplaceTop(drainDeferred(Top.by, "ok"))
                [] Top.by = "case" -> Front(Front(stack))
                [] OTHER -> Front(stack)
  /\ UNCHANGED <<run, result, env>>

\* A block ends: its watcher frame is popped.
LeaveBlock ==
  /\ At("block")
  /\ IF IsBody(Top)
     THEN stack' = ReplaceTop(drainDeferred(Top.by, "ok")) /\ deferred' = <<>>
     ELSE /\ stack' = IF Top.by = "case" THEN Front(Front(stack)) ELSE Front(stack)
          /\ UNCHANGED deferred
  /\ UNCHANGED <<queue, ops, last, canceled, credit, pushed, ran, result, env>>

-----------------------------------------------------------------------------
(* defer.  `own` is the activation whose exit the call belongs to.           *)

Owns(i) == IsBody(stack[i]) /\ \A j \in DOMAIN stack : IsBody(stack[j]) => j <= i

pushDefer(d) ==
  /\ Stmt
  /\ d \notin pushed /\ pushed' = pushed \union {d}
  /\ \E i \in DOMAIN stack :
       Owns(i) /\ deferred' = Append(deferred, [d |-> d, own |-> i])
  /\ UNCHANGED <<stack, queue, last, canceled, credit, ran, result, env>>

\* One deferred call: an action, or a proc with a body of its own.
RunDeferred ==
  /\ At("defers") /\ Top.left # <<>>
  /\ ran' = [ran EXCEPT ![Head(Top.left).d] = @ + 1]
  /\ \E called \in {<<>>, <<Block("proc", {"proc"})>>} :
       stack' = ReplaceTop([Top EXCEPT !.left = Tail(@)]) \o called
  /\ UNCHANGED <<queue, ops, deferred, last, canceled, credit, pushed, result, env>>

\* The body's outcome takes effect once its deferred calls have run: the run
\* ends, or a proc's abort or error goes on in its caller.
DeferredDone ==
  /\ At("defers") /\ Top.left = <<>>
  /\ \/ /\ Top.by = "body"
        /\ stack' = <<>> /\ result' = Outcome(Top.then)
        /\ UNCHANGED deferred
     \/ /\ Top.by = "proc" /\ Outcome(Top.then) \in {"completed", "returned"}
        /\ stack' = Front(stack)
        /\ UNCHANGED <<deferred, result>>
     \/ /\ Top.by = "proc" /\ Outcome(Top.then) \in {"aborted", "errored"}
        /\ Raise(Front(stack), IF Top.then = "abort" THEN "abort" ELSE "error")
        /\ UNCHANGED result
  /\ UNCHANGED <<queue, ops, last, canceled, credit, pushed, ran, env>>

-----------------------------------------------------------------------------
(* Watchers.                                                                 *)

\* execWhen: register in the innermost frame, sweep at once.
execWhen(w) ==
  /\ Stmt
  /\ "proc" \notin Top.in
  /\ w \notin Live
  /\ LET r == [w |-> w, in |-> Top.in \union {"hand"}]
         registered == ReplaceTop([Top EXCEPT !.ws = Append(@, r)])
     IN stack' = Append(registered, Sweep(activeWatchers(registered)))
  /\ last' = [last EXCEPT ![w] = Seed(Qual[w])]
  /\ credit' = [credit EXCEPT ![w] = IF Seed(Qual[w]) # world THEN 1 ELSE 0]
  /\ UNCHANGED <<queue, deferred, canceled, pushed, ran, result, env>>

\* The mutant records the new value only for a watcher that does not fire.
evalWatcherLate ==
  /\ At("sweep") /\ ~Canceled /\ ops > 0
  /\ \E p \in Top.left :
       /\ \A q \in Top.left : ~Before(q, p)
       /\ LET r == Registered(p)
              fire == fireIf(Qual[r.w], last[r.w])
              swept == ReplaceTop([Top EXCEPT !.left = @ \ {p}])
          IN /\ last' = [last EXCEPT ![r.w] = IF fire THEN @ ELSE world]
             /\ credit' = [credit EXCEPT ![r.w] = IF fire THEN @ - 1 ELSE @]
             /\ stack' = IF fire THEN Append(swept, Block("watch", r.in)) ELSE swept
  /\ ops' = ops - 1
  /\ UNCHANGED <<queue, deferred, canceled, pushed, ran, result, env>>

\* evalWatchersOnce tests the watchers of its snapshot one by one; the body
\* of one that fires runs before the next is tested.
evalWatcher ==
  /\ At("sweep") /\ ~Canceled /\ ops > 0
  /\ \E p \in Top.left :
       /\ \A q \in Top.left : ~Before(q, p)
       /\ LET r == Registered(p)
              fire == fireIf(Qual[r.w], last[r.w])
              swept == ReplaceTop([Top EXCEPT !.left = @ \ {p}])
          IN /\ last' = [last EXCEPT ![r.w] = world]
             /\ credit' = [credit EXCEPT ![r.w] = IF fire THEN @ - 1 ELSE @]
             /\ stack' = IF fire THEN Append(swept, Block("watch", r.in)) ELSE swept
  /\ ops' = ops - 1
  /\ UNCHANGED <<queue, deferred, canceled, pushed, ran, result, env>>

\* A predicate is an expression: without budget its evaluation aborts.
SweepOutOfBudget ==
  /\ At("sweep") /\ Top.left # {} /\ ~Canceled /\ ops = 0
  /\ Raise(stack, "abort")
  /\ UNCHANGED <<queue, ops, last, canceled, credit, pushed, ran, result, env>>

SweepEnd ==
  /\ At("sweep") /\ (Top.left = {} \/ Canceled)
  /\ stack' = Front(stack)
  /\ UNCHANGED <<run, result, env>>

-----------------------------------------------------------------------------
(* Event dispatch, around every yielding call and in every round of select. *)

Yield ==
  /\ Stmt
  /\ "proc" \notin Top.in
  /\ stack' = Append(stack, DrainQueue)
  /\ UNCHANGED <<queue, deferred, last, canceled, credit, pushed, ran, result, env>>

\* Sends that find the channel full are dropped.
Send(ch, on, cap) ==
  IF Len(ch) + Len(on) <= cap THEN ch \o on ELSE SubSeq(ch \o on, 1, cap)

\* The cases of a set in declaration order (there is one such order).
Declared(S) ==
  {s \in [1 .. Cardinality(S) -> S] : \A i, j \in DOMAIN s : i < j => s[i] < s[j]}

\* fireEventListeners: a select that listens for the event in its cases `on`
\* keeps their indices.  `heard` is history.
Hear(a, on) ==
  [a EXCEPT !.ch = Send(@, on, IF a.cs = <<>> THEN 1 ELSE Len(a.cs)),
            !.heard = IF a.at = "run" THEN @ ELSE @ \o on]

\* dispatchPendingEvents takes the next event: listeners first, then handlers.
TakeEvent ==
  /\ At("drain") /\ Top.left = <<>> /\ queue # <<>>
  /\ LET e == Head(queue)
         on(i) == Declared(OnCases(stack[i].cs, e))
     IN \E fired \in [Selects -> UNION {on(i) : i \in Selects}] :
          /\ \A i \in Selects : fired[i] \in on(i)
          /\ stack' = [i \in DOMAIN stack |->
               IF i \in Selects THEN Hear(stack[i], fired[i])
               ELSE IF i = Len(stack) THEN [Top EXCEPT !.of = e, !.left = Handlers[e]]
               ELSE stack[i]]
  /\ queue' = Tail(queue)
  /\ UNCHANGED <<ops, deferred, last, canceled, credit, pushed, ran, result, env>>

\* runHandler; a bounded handler is passed over outside its region.
runHandler ==
  /\ At("drain") /\ Top.left # <<>>
  /\ LET rest == ReplaceTop([Top EXCEPT !.left = Tail(@)])
     IN \/ stack' = Append(rest, Block("handler", {"hand"}))
        \/ Head(Top.left) = "bounded" /\ stack' = rest
  /\ UNCHANGED <<run, result, env>>

\* The watchers are swept once the queue is drained.
DrainEnd ==
  /\ At("drain") /\ Top.left = <<>> /\ queue = <<>>
  /\ stack' = ReplaceTop(Sweep(activeWatchers(stack)))
  /\ UNCHANGED <<run, result, env>>

-----------------------------------------------------------------------------
(* select.  `ch` is onCh, `was` the when cases whose last value was true,    *)
(* `due` the timeouts that have elapsed and `win` the case that was chosen.  *)

Fired(cs, was) == {i \in WhenCases(cs) : fireIf(cs[i].of, i \in was)}
Polled(cs) == {i \in WhenCases(cs) : world}
Cost(cs) == Cardinality(WhenCases(cs))

\* A when case that holds already is taken before the select listens.
execSelect(cs) ==
  /\ At("block") /\ ~Canceled /\ ops > 0
  /\ "proc" \notin Top.in
  /\ \/ /\ ops > Cost(cs)
        /\ ops' = ops - 1 - Cost(cs)
        /\ LET seed == {i \in WhenCases(cs) : Seed(cs[i].of)}
           IN stack' = Append(stack,
                IF Fired(cs, seed) # {} THEN Block("plain", Top.in)
                ELSE [k |-> "select", cs |-> cs, at |-> "poll", ch |-> <<>>,
                      was |-> Polled(cs), due |-> {}, win |-> 0, heard |-> <<>>,
                      in |-> Top.in])
        /\ UNCHANGED deferred
     \/ /\ ops <= Cost(cs)
        /\ ops' = 0
        /\ Raise(stack, "abort")
  /\ UNCHANGED <<queue, last, canceled, credit, pushed, ran, result, env>>

\* One round: the cases that are ready, and the first declared of them wins.
\* The channel is emptied.
SelectRound(due) ==
  /\ At("select") /\ Top.at = "poll" /\ ~Canceled
  /\ ops >= Cost(Top.cs)
  /\ ops' = ops - Cost(Top.cs)
  /\ LET ready == ToSet(Top.ch) \union Fired(Top.cs, Top.was) \union due
         polled == [Top EXCEPT !.ch = <<>>, !.was = Polled(Top.cs)]
     IN \/ \E i \in ready :
             /\ \A j \in ready : i <= j
             /\ stack' = Append(ReplaceTop([polled EXCEPT !.at = "run", !.win = i]),
                                Block("case", Top.in))
        \/ /\ ready = {}
           /\ stack' = Append(ReplaceTop([polled EXCEPT !.at = "wait"]), DrainQueue)
  /\ UNCHANGED <<queue, deferred, last, canceled, credit, pushed, ran, result, env>>

\* The mutant never looks at the elapsed time.
SelectPollNoTimeout == SelectRound({})

SelectPoll == SelectRound(Top.due)

\* The mutant does not put it back.
SelectWaitDrops ==
  /\ At("select") /\ Top.at = "wait" /\ ~Canceled
  /\ \/ stack' = ReplaceTop([Top EXCEPT !.at = "poll"])
     \/ /\ Top.ch # <<>>
        /\ stack' = ReplaceTop([Top EXCEPT !.at = "poll", !.ch = Tail(@)])
  /\ UNCHANGED <<run, result, env>>

\* Blocked: the tick, or an on-case that fired in the dispatch, which is put
\* back for the next round.
SelectWait ==
  /\ At("select") /\ Top.at = "wait" /\ ~Canceled
  /\ \/ stack' = ReplaceTop([Top EXCEPT !.at = "poll"])
     \/ /\ Top.ch # <<>>
        /\ stack' = ReplaceTop([Top EXCEPT !.at = "poll",
                                           !.ch = Append(Tail(@), Head(@))])
  /\ UNCHANGED <<run, result, env>>

\* A cancel ends it with an error, an empty budget with an abort.
SelectStopped ==
  /\ At("select")
  /\ \/ Canceled /\ Raise(stack, "error")
     \/ /\ ~Canceled /\ Top.at = "poll" /\ ops < Cost(Top.cs)
        /\ Raise(stack, "abort")
  /\ UNCHANGED <<queue, ops, last, canceled, credit, pushed, ran, result, env>>

-----------------------------------------------------------------------------
(* The environment.                                                          *)

Matches(qual) == qual = "changes" \/ qual = (IF world THEN "becomes false" ELSE "becomes true")

Flip ==
  /\ result = "running" /\ flips < MaxFlips
  /\ flips' = flips + 1
  /\ world' = ~world
  /\ credit' = [w \in Watchers |->
       IF w \in Live /\ Matches(Qual[w]) THEN credit[w] + 1 ELSE credit[w]]
  /\ UNCHANGED <<stack, queue, ops, deferred, last, canceled, pushed, ran, result, arrivals>>

\* The translator offers an event without blocking.
Arrive(e) ==
  /\ result = "running" /\ arrivals < MaxArrivals
  /\ arrivals' = arrivals + 1
  /\ queue' = IF Len(queue) < QueueCap THEN Append(queue, e) ELSE queue
  /\ UNCHANGED <<stack, ops, deferred, world, last, canceled, result, flips,
                 credit, pushed, ran>>

Cancel ==
  /\ ~canceled /\ result \in {"ready", "running"} /\ canceled' = TRUE
  /\ UNCHANGED <<stack, queue, ops, deferred, last, credit, pushed, ran, result, env>>

\* The wall-clock deadline passes: every later charge fails.
WallClock ==
  /\ result = "running" /\ ops > 0 /\ ops' = 0
  /\ UNCHANGED <<stack, queue, deferred, last, canceled, credit, pushed, ran, result, env>>

Elapse ==
  /\ \E i \in Selects : \E c \in TimeoutCases(stack[i].cs) :
       /\ stack[i].at # "run" /\ c \notin stack[i].due
       /\ stack' = [stack EXCEPT ![i].due = @ \union {c}]
  /\ UNCHANGED <<run, result, env>>

Ended ==
  /\ result \notin {"ready", "running"}
  /\ UNCHANGED vars

-----------------------------------------------------------------------------
Init ==
  /\ stack = <<>> /\ queue = <<>> /\ ops = OpBudget /\ deferred = <<>>
  /\ world \in BOOLEAN
  /\ last = [w \in Watchers |-> FALSE]
  /\ canceled = FALSE /\ result = "ready"
  /\ flips = 0 /\ arrivals = 0
  /\ credit = [w \in Watchers |-> 0]
  /\ pushed = {}
  /\ ran = [d \in Defers |-> 0]

Interpreter ==
  \/ runDecl
  \/ StmtCanceled \/ StmtOutOfBudget \/ CallProc \/ LeaveBlock
  \/ \E by \in {"loop", "try"} : EnterBlock(by)
  \/ \E sig \in {"break", "continue", "return", "abort", "error"} : Signal(sig)
  \/ \E d \in Defers : pushDefer(d)
  \/ RunDeferred \/ DeferredDone
  \/ \E w \in Watchers : execWhen(w)
  \/ evalWatcher \/ SweepOutOfBudget \/ SweepEnd
  \/ Yield \/ TakeEvent \/ runHandler \/ DrainEnd
  \/ \E cs \in SelectStmts : execSelect(cs)
  \/ SelectPoll \/ SelectWait \/ SelectStopped

Next ==
  \/ Interpreter
  \/ Flip \/ (\E e \in Events : Arrive(e)) \/ Cancel \/ WallClock \/ Elapse
  \/ Ended

\* The interpreter's goroutine runs, and time passes in a select.
Spec == Init /\ [][Next]_vars
FairSpec == Spec /\ WF_vars(Interpreter) /\ WF_vars(Elapse)

-----------------------------------------------------------------------------
(* Properties.                                                               *)

Callers == {"body", "proc", "loop", "try", "recover", "handler", "watch", "plain", "case"}
DeferType == [d : Defers, own : Nat]
BlockType == [k : {"block"}, by : Callers, in : SUBSET Contexts,
              ws : Seq([w : Watchers, in : SUBSET Contexts])]
DrainType == [k : {"drain"}, of : Events \union {""}, left : Seq({"on", "bounded"})]
SweepType == [k : {"sweep"}, left : SUBSET (Nat \X Nat)]
DefersType == [k : {"defers"}, by : {"body", "proc"}, left : Seq(DeferType),
               then : Signals \union {"ok"}]
SelectType == [k : {"select"}, cs : SelectStmts, at : {"poll", "wait", "run"},
               ch : Seq(Nat), was : SUBSET Nat, due : SUBSET Nat, win : Nat,
               heard : Seq(Nat), in : SUBSET Contexts]
Activations == BlockType \union DrainType \union SweepType \union DefersType
               \union SelectType

\* The types; the fields of an activation are those of its kind.
TypeOK ==
  /\ stack \in Seq(Activations)
  /\ queue \in Seq(Events) /\ Len(queue) <= QueueCap
  /\ ops \in 0 .. OpBudget
  /\ deferred \in Seq(DeferType)
  /\ world \in BOOLEAN
  /\ last \in [Watchers -> BOOLEAN]
  /\ canceled \in BOOLEAN
  /\ result \in {"ready", "running", "completed", "returned", "aborted", "errored", "canceled"}
  /\ flips \in 0 .. MaxFlips /\ arrivals \in 0 .. MaxArrivals
  /\ credit \in [Watchers -> Int]
  /\ pushed \subseteq Defers
  /\ ran \in [Defers -> Nat]

\* A watcher fires at most once for each transition of its predicate, however
\* sweeps nest: the body of a watcher runs actions, whose dispatch sweeps the
\* same watchers again while the outer sweep still has them to test.
OncePerEdge == \A w \in Watchers : credit[w] >= 0

\* Every call that was deferred has run, once, when the run ends: a deferred
\* call may itself be a proc whose exit drains the interpreter's only defer
\* stack, and bodies end by break, abort, error and cancel as well as by
\* reaching their end.
DefersRunOnce ==
  /\ \A d \in Defers : ran[d] <= 1
  /\ result \notin {"ready", "running"} => \A d \in pushed : ran[d] = 1

\* The first event a waiting select hears is not lost: it stays in the channel
\* until the round that decides, through a full channel, nested dispatches and
\* the put-back on waking, and no case declared after it wins that round.
SelectKeepsEvent ==
  \A i \in Selects : stack[i].heard # <<>> =>
    IF stack[i].at = "run" THEN stack[i].win <= Head(stack[i].heard)
    ELSE Head(stack[i].heard) \in ToSet(stack[i].ch)

\* Every run ends: loops, handlers and watcher bodies spend the op budget,
\* recovering the abort does not bring it back, and a select with a timeout
\* case does not wait for an event that never comes.
RoutineEnds == <>(result \notin {"ready", "running"})

-----------------------------------------------------------------------------
(* What a comment or a doc says of this code and the code does not keep      *)
(* (README, known disagreements).                                            *)

\* A deferred call runs when the body it was deferred in exits
\* (docs/lang/events.md, "cleanup on scope exit").
DeferAtExit ==
  \A i \in DOMAIN stack : stack[i].k = "defers" =>
    \A e \in ToSet(stack[i].left) : e.own = i

\* The first declared of the cases that are ready wins (docs/lang/events.md).
DeclaredFirst ==
  \A i \in Selects : stack[i].at = "run" =>
    \A c \in ToSet(stack[i].heard) : stack[i].win <= c

\* Events reach a handler in the order published (runtime/dsl_events.go): no
\* dispatch runs a handler that an outer dispatch still owes an older event.
HandlersInOrder ==
  \A i, j \in DOMAIN stack :
    (i < j /\ stack[i].k = "drain" /\ stack[j].k = "drain" /\ j < Len(stack)
       /\ stack[i].of = stack[j].of)
      => Len(stack[j].left) >= Len(stack[i].left)

\* The wall-clock budget is the backstop of a select without a timeout case
\* (dsl/validator/validator.go): a run past its deadline ends.
BudgetIsBackstop == (ops = 0) ~> (result \notin {"ready", "running"})

\* A cancelled run terminates with ResultCanceled (runtime/dsl_bridge.go).
CanceledSaysSo ==
  [][(At("defers") /\ Top.by = "body" /\ Top.then = "cancel" /\ result' # result)
       => result' = "canceled"]_vars
=============================================================================
