----------------------------- MODULE Provision ------------------------------
(***************************************************************************)
(* Live goals from the operator to a host: Admin.PushGoal and              *)
(* Provision.Subscribe of mesad (mesa/mesad/server.go), the client's stream *)
(* (mesa/client/grpc.go), the host's subscription loop                     *)
(* (runtime/persona_wiring.go) and its live goal (runtime/livegoal.go).     *)
(*                                                                         *)
(* One host is modelled: a push treats every matched host alike and in      *)
(* turn, and nothing but the directive counter is shared between hosts.     *)
(* The registry entry is guarded by s.mu and the table of push channels by  *)
(* subsMu; no operation holds both.  A stream's handler, the operator's     *)
(* calls and the host each move on their own, the connection may break, the *)
(* host and mesad may restart.                                              *)
(***************************************************************************)
EXTENDS Naturals, Sequences

CONSTANTS
  Streams,   \* Subscribe streams that may be alive at once (a bound)
  Pushers,   \* operator calls of PushGoal that may overlap
  Goals,     \* goals an operator pushes
  ChanCap,   \* capacity of a push channel (8 in Subscribe)
  WireCap,   \* directives between stream.Send and the host's loop (a bound)
  Base,      \* the persona's own goal
  None       \* no goal, no stream

ConstantsOK ==
  /\ None \notin Streams
  /\ None \notin Goals
  /\ Base \notin Goals
  /\ Base # None
  /\ ChanCap \in Nat \ {0}
  /\ WireCap \in Nat \ {0}

ASSUME ProvisionAssumption == ConstantsOK

VARIABLES
  goal,    \* the registry entry's goal
  pushed,  \* entry.goalPushed
  subs,    \* s.subs[host]: the registered stream
  st,      \* per stream, where its handler is
  hand,    \* per stream, the goal its handler is about to send
  chan,    \* per stream, its push channel
  wire,    \* per stream, directives sent and not applied
  cut,     \* streams whose context is done: connection or client gone
  cur,     \* the host's stream
  live,    \* the host's live goal
  push,    \* per operator call, [at, goal, ch]
  down,    \* s.shutdown is closed
  lost     \* history: streams on which the last push was dropped

streamVars == <<subs, st, hand, chan, wire, cut>>
vars == <<goal, pushed, streamVars, cur, live, push, down, lost>>

Running(k) == st[k] # "ended"

TypeOK ==
  /\ goal \in Goals \union {Base}
  /\ pushed \in BOOLEAN
  /\ subs \in Streams \union {None}
  /\ st \in [Streams -> {"ended", "dialed", "registered", "loop", "send"}]
  /\ hand \in [Streams -> Goals \union {None}]
  /\ chan \in [Streams -> Seq(Goals)]
  /\ wire \in [Streams -> Seq(Goals)]
  /\ cut \subseteq Streams
  /\ cur \in Streams \union {None}
  /\ live \in Goals \union {None}
  /\ push \in [Pushers -> [at: {"idle", "lookup", "send"},
                           goal: Goals \union {None}, ch: Streams \union {None}]]
  /\ down \in BOOLEAN
  /\ lost \subseteq Streams

NoPush == [at |-> "idle", goal |-> None, ch |-> None]

Init ==
  /\ goal = Base
  /\ pushed = FALSE
  /\ subs = None
  /\ st = [k \in Streams |-> "ended"]
  /\ hand = [k \in Streams |-> None]
  /\ chan = [k \in Streams |-> <<>>]
  /\ wire = [k \in Streams |-> <<>>]
  /\ cut = {}
  /\ cur = None
  /\ live = None
  /\ push = [p \in Pushers |-> NoPush]
  /\ down = FALSE
  /\ lost = {}

-----------------------------------------------------------------------------
(* The host.                                                                *)

\* subscribeDirectives opens a stream; the server has yet to run its handler.
Dial(k) ==
  /\ cur = None
  /\ ~down
  /\ ~Running(k)
  /\ \A p \in Pushers : push[p].ch # k
  /\ st' = [st EXCEPT ![k] = "dialed"]
  /\ cur' = k
  /\ UNCHANGED <<goal, pushed, subs, hand, chan, wire, cut, live, push, down, lost>>

\* Variant of Apply: the first goal is kept.
ApplyOnce ==
  /\ cur # None
  /\ wire[cur] # <<>>
  /\ live = None
  /\ live' = Head(wire[cur])
  /\ wire' = [wire EXCEPT ![cur] = Tail(@)]
  /\ UNCHANGED <<goal, pushed, subs, st, hand, chan, cut, cur, push, down, lost>>

\* consumeDirectives: SetLiveGoal with the next goal revision.
Apply ==
  /\ cur # None
  /\ wire[cur] # <<>>
  /\ live' = Head(wire[cur])
  /\ wire' = [wire EXCEPT ![cur] = Tail(@)]
  /\ UNCHANGED <<goal, pushed, subs, st, hand, chan, cut, cur, push, down, lost>>

\* The stream has ended and its channel is drained; the loop backs off.
HangUp ==
  /\ cur # None
  /\ cur \in cut \/ ~Running(cur)
  /\ wire[cur] = <<>>
  /\ cur' = None
  /\ cut' = {k \in cut : Running(k)}
  /\ UNCHANGED <<goal, pushed, subs, st, hand, chan, wire, live, push, down, lost>>

\* The connection breaks, or the host cancels: what is still on the way is lost.
Break(n) ==
  /\ cur # None
  /\ cur \notin cut
  /\ n <= Len(wire[cur])
  /\ cut' = cut \union {cur}
  /\ wire' = [wire EXCEPT ![cur] = SubSeq(@, 1, n)]
  /\ UNCHANGED <<goal, pushed, subs, st, hand, chan, cur, live, push, down, lost>>

\* The host process starts anew, without a live goal.
HostRestart ==
  /\ cur = None
  /\ live # None
  /\ live' = None
  /\ UNCHANGED <<goal, pushed, streamVars, cur, push, down, lost>>

-----------------------------------------------------------------------------
(* The handler of a Subscribe stream.                                       *)

\* registerSub replaces whatever stream was registered.
RegisterSub(k) ==
  /\ st[k] = "dialed"
  /\ subs' = k
  /\ st' = [st EXCEPT ![k] = "registered"]
  /\ UNCHANGED <<goal, pushed, hand, chan, wire, cut, cur, live, push, down, lost>>

\* Variant of Resend: the standing goal is not sent again.
ResendForgets(k) ==
  /\ st[k] = "registered"
  /\ st' = [st EXCEPT ![k] = "loop"]
  /\ UNCHANGED <<goal, pushed, subs, hand, chan, wire, cut, cur, live, push, down, lost>>

\* The standing goal is read only after the registration, so that no push falls
\* between the two, and sent; an error of that send is ignored.
Resend(k) ==
  /\ st[k] = "registered"
  /\ wire' = IF pushed /\ k \notin cut THEN [wire EXCEPT ![k] = <<goal>>] ELSE wire
  /\ st' = [st EXCEPT ![k] = "loop"]
  /\ UNCHANGED <<goal, pushed, subs, hand, chan, cut, cur, live, push, down, lost>>

\* The loop takes a directive from its channel.
Take(k) ==
  /\ st[k] = "loop"
  /\ chan[k] # <<>>
  /\ hand' = [hand EXCEPT ![k] = Head(chan[k])]
  /\ chan' = [chan EXCEPT ![k] = Tail(@)]
  /\ st' = [st EXCEPT ![k] = "send"]
  /\ UNCHANGED <<goal, pushed, subs, wire, cut, cur, live, push, down, lost>>

\* stream.Send succeeds, once flow control lets it.
Send(k) ==
  /\ st[k] = "send"
  /\ k \notin cut
  /\ Len(wire[k]) < WireCap
  /\ wire' = [wire EXCEPT ![k] = Append(@, hand[k])]
  /\ hand' = [hand EXCEPT ![k] = None]
  /\ st' = [st EXCEPT ![k] = "loop"]
  /\ UNCHANGED <<goal, pushed, subs, chan, cut, cur, live, push, down, lost>>

\* unregisterSub: only if the table still names this stream.
Unregistered(k) == IF subs = k THEN None ELSE subs

\* Variant of Leave: a send on a dead stream never returns.
LeaveLoopOnly(k) ==
  /\ st[k] = "loop" /\ (k \in cut \/ down)
  /\ subs' = Unregistered(k)
  /\ st' = [st EXCEPT ![k] = "ended"]
  /\ hand' = [hand EXCEPT ![k] = None]
  /\ chan' = [chan EXCEPT ![k] = <<>>]
  /\ cut' = IF cur = k THEN cut ELSE cut \ {k}
  /\ lost' = lost \ {k}
  /\ UNCHANGED <<goal, pushed, wire, cur, live, push, down>>

\* The handler returns, on a done context, a shutdown or a failed send, and
\* its deferred unregisterSub runs.
Leave(k) ==
  /\ \/ st[k] = "loop" /\ (k \in cut \/ down)
     \/ st[k] = "send" /\ k \in cut
  /\ subs' = Unregistered(k)
  /\ st' = [st EXCEPT ![k] = "ended"]
  /\ hand' = [hand EXCEPT ![k] = None]
  /\ chan' = [chan EXCEPT ![k] = <<>>]
  /\ cut' = IF cur = k THEN cut ELSE cut \ {k}
  /\ lost' = lost \ {k}
  /\ UNCHANGED <<goal, pushed, wire, cur, live, push, down>>

-----------------------------------------------------------------------------
(* The operator.                                                            *)

\* PushGoal installs the goal in the registry, under s.mu.
PushSet(p, g) ==
  /\ push[p].at = "idle"
  /\ ~down
  /\ goal' = g
  /\ pushed' = TRUE
  /\ push' = [push EXCEPT ![p] = [at |-> "lookup", goal |-> g, ch |-> None]]
  /\ UNCHANGED <<streamVars, cur, live, down, lost>>

\* It looks for the host's channel, under subsMu.
PushLookup(p) ==
  /\ push[p].at = "lookup"
  /\ push' = [push EXCEPT ![p] = IF subs = None THEN NoPush
                                 ELSE [@ EXCEPT !.at = "send", !.ch = subs]]
  /\ UNCHANGED <<goal, pushed, streamVars, cur, live, down, lost>>

\* It delivers without blocking, or drops when the channel is full; what goes
\* to the channel of a handler that has returned is never read.
PushSend(p) ==
  /\ push[p].at = "send"
  /\ LET k == push[p].ch
     IN  IF ~Running(k)
         THEN UNCHANGED <<chan, lost>>
         ELSE IF Len(chan[k]) < ChanCap
         THEN /\ chan' = [chan EXCEPT ![k] = Append(@, push[p].goal)]
              /\ lost' = lost \ {k}
         ELSE /\ lost' = lost \union {k}
              /\ UNCHANGED chan
  /\ push' = [push EXCEPT ![p] = NoPush]
  /\ UNCHANGED <<goal, pushed, subs, st, hand, wire, cut, cur, live, down>>

\* PutPersonas installs a fresh entry, with the persona's own goal.
PutPersona ==
  /\ goal' = Base
  /\ pushed' = FALSE
  /\ UNCHANGED <<streamVars, cur, live, push, down, lost>>

-----------------------------------------------------------------------------
(* mesad's shutdown and restart.                                            *)

\* SIGTERM: Shutdown ends the streams, GracefulStop refuses new calls.
Shutdown ==
  /\ ~down
  /\ down' = TRUE
  /\ UNCHANGED <<goal, pushed, streamVars, cur, live, push, lost>>

\* The graceful drain's deadline passes: gs.Stop cancels every stream.
ForceStop ==
  /\ down
  /\ \E k \in Streams : Running(k) /\ k \notin cut
  /\ cut' = cut \union {k \in Streams : Running(k)}
  /\ UNCHANGED <<goal, pushed, subs, st, hand, chan, wire, cur, live, push, down, lost>>

\* The process ends once its calls have; personas come back from the database
\* without the operator's goal.
Restart ==
  /\ down
  /\ \A k \in Streams : ~Running(k)
  /\ \A p \in Pushers : push[p].at = "idle"
  /\ down' = FALSE
  /\ goal' = Base
  /\ pushed' = FALSE
  /\ subs' = None
  /\ UNCHANGED <<st, hand, chan, wire, cut, cur, live, push, lost>>

Handler(k) ==
  \/ RegisterSub(k)
  \/ Resend(k)
  \/ Take(k)
  \/ Send(k)
  \/ Leave(k)

Operator(p) ==
  \/ \E g \in Goals : PushSet(p, g)
  \/ PushLookup(p)
  \/ PushSend(p)

Next ==
  \/ \E k \in Streams : Dial(k)
  \/ Apply
  \/ HangUp
  \/ \E n \in 0..WireCap : Break(n)
  \/ HostRestart
  \/ \E k \in Streams : Handler(k)
  \/ \E p \in Pushers : Operator(p)
  \/ PutPersona
  \/ Shutdown
  \/ ForceStop
  \/ Restart

\* Goroutines run; the drain's timer fires.
Fairness ==
  /\ WF_vars(Apply)
  /\ \A k \in Streams : WF_vars(Handler(k))
  /\ WF_vars(ForceStop)

Spec == Init /\ [][Next]_vars
FairSpec == Spec /\ Fairness

-----------------------------------------------------------------------------
(* Properties.                                                              *)

\* What the host will have applied once stream k has nothing left to deliver.
Arriving(k) ==
  LET way == wire[k] \o (IF st[k] = "send" THEN <<hand[k]>> ELSE <<>>) \o chan[k]
  IN  IF way = <<>> THEN live ELSE way[Len(way)]

\* The host listens on the registered stream, past the connect-time re-send.
Attached ==
  /\ cur # None
  /\ subs = cur
  /\ cur \notin cut
  /\ st[cur] \in {"loop", "send"}

Quiet == \A p \in Pushers : push[p].at = "idle"

\* A standing operator goal is applied or on its way: whatever order a push, a
\* reconnect's registration and its look at the registry ran in, and across host
\* restarts, once no push is in progress and the last one was not dropped by a
\* full channel, the last goal the host will apply is the registry's.
GoalOnItsWay ==
  (Attached /\ Quiet /\ pushed /\ cur \notin lost) => Arriving(cur) = goal

\* A host that stays attached ends up with the operator's goal.
Converges ==
  <>[](Attached /\ Quiet /\ pushed /\ ~down /\ cur \notin lost) => <>[](live = goal)

\* mesad's shutdown is not held up for ever by a host that keeps its stream
\* open, not even one that has stopped reading.
DrainEnds == down ~> \A k \in Streams : ~Running(k)

-----------------------------------------------------------------------------
(* What the repository says and the code does not keep (see README).        *)

\* livegoal.go:9 "Latest-wins": violated with two operators, whose calls set the
\* registry in one order and deliver in the other.
LatestWins == GoalOnItsWay

\* server.go:693 "so a superseded older stream tearing down doesn't evict the
\* newer one": violated when the older stream's handler registers late, over
\* the newer one, and then leaves.
NotDeaf ==
  (/\ cur # None
   /\ cur \notin cut
   /\ st[cur] = "loop"
   /\ \A k \in Streams \ {cur} : ~Running(k)) => subs = cur
=============================================================================
