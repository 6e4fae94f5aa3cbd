------------------------------ MODULE Reactive ------------------------------
(***************************************************************************)
(* The reactive dialogue tier of a host (runtime/reactive.go) with the two  *)
(* speech drives that share its state (runtime/speech.go tryAsk and the     *)
(* directed reply of runtime/reflex.go).                                    *)
(*                                                                         *)
(* Five kinds of goroutine meet on reactiveState, whose mutex is released   *)
(* between the critical sections of one operation:                          *)
(*   - the limbic loop hears lines (reactiveObserve) and collects garbage;  *)
(*   - the social reflex asks and replies (one utterance at a time);        *)
(*   - a running routine says things in public (actions_social say());      *)
(*   - lull timers fire and call back into the state;                       *)
(*   - extraction goroutines hold a slot of the inflight semaphore.         *)
(* Each critical section is one action.                                     *)
(*                                                                         *)
(* A line is reduced to the speaker it came from and whether it is a mere   *)
(* courtesy; a window's lines to whether there are any (the buffer is       *)
(* trimmed to its newest lines, never to none) and whether all of them are  *)
(* older than the lookback.  Time is the order of events: a latch lapses, a *)
(* window ages and a timer fires when the environment says so.              *)
(***************************************************************************)
EXTENDS Naturals, Sequences, FiniteSets

CONSTANTS
  Speakers,      \* window keys (normalized speaker names)
  Peers,         \* speakers the host may ask or answer
  Timers,        \* lull timers that may be alive at once (a bound)
  MaxSpeakers,   \* reactiveMaxSpeakers
  MaxLatches,    \* reactiveMaxLatches
  MaxInflight,   \* reactiveMaxInflight
  MaxCallbacks,  \* callbacks of one timer, or of one key, waiting (a bound)
  MaxInputs,     \* lines heard, utterances and mode switches (a bound)
  NoOne,         \* no speaker: an empty key
  NoTimer        \* a nil *time.Timer

\* The latch cap is below the window cap (4 and 24 in reactive.go).
ASSUME ReactiveAssumption ==
  /\ IsFiniteSet(Speakers)
  /\ Peers \subseteq Speakers
  /\ NoOne \notin Speakers
  /\ NoTimer \notin Timers
  /\ MaxSpeakers \in Nat
  /\ MaxLatches \in Nat
  /\ MaxLatches < MaxSpeakers
  /\ MaxInflight \in Nat
  /\ MaxCallbacks \in Nat
  /\ MaxInputs \in Nat

VARIABLES
  open,      \* keys of r.windows
  spoken,    \* windows with at least one line
  aged,      \* windows all of whose lines are older than the lookback
  order,     \* the windows, the oldest lastSeen first
  latched,   \* windows with w.latched
  lapsed,    \* latched windows whose latchTTL has passed
  latches,   \* r.latches
  handle,    \* w.extractTimer of the current window of a key
  armed,     \* timers that are running
  calls,     \* per timer, callbacks started that have not taken the mutex yet
  owner,     \* per timer, the key of the window it was made for
  orphan,    \* timers whose window was dropped from the map
  pending,   \* per key, callbacks past the mutex, about to call spawnExtract
  hint,      \* r.directSelf
  inflight,  \* len(r.inflight)
  queued,    \* extraction goroutines before their analysis check
  calling,   \* extraction goroutines inside the ExtractDialog call
  obs,       \* the limbic loop: [at, who, courtesy]
  ask,       \* the social reflex: [at, to, key, asks]
  say,       \* the routine's public line: [at, key]
  active,    \* analysis mode (analysis.activeBit)
  inputs,    \* inputs so far
  line       \* history: per speaker, what became of the newest substantive line
             \* heard while engaged (see LineStates)

winVars   == <<open, spoken, aged, order>>
latchVars == <<latched, lapsed, latches>>
timerVars == <<handle, armed, calls, owner, orphan>>
slotVars  == <<inflight, queued, calling>>
vars == <<winVars, latchVars, timerVars, pending, hint, slotVars,
          obs, ask, say, active, inputs, line>>

Keys == Speakers \union {NoOne}

\* "none": none was heard, or an extraction took the window with it; "due": it waits in
\* the window for one; "dropped": its extraction was dropped (analysis mode, offline, the
\* inflight cap), and only a later one may take it; "lost": it left the window unread.
LineStates == {"none", "due", "dropped", "lost"}

TypeOK ==
  /\ open \subseteq Speakers
  /\ spoken \subseteq open
  /\ aged \subseteq spoken
  /\ order \in Seq(Speakers)
  /\ latched \subseteq open
  /\ lapsed \subseteq latched
  /\ latches \in Nat
  /\ handle \in [Speakers -> Timers \union {NoTimer}]
  /\ armed \subseteq Timers
  /\ calls \in [Timers -> Nat]
  /\ owner \in [Timers -> Keys]
  /\ orphan \subseteq Timers
  /\ pending \in [Speakers -> Nat]
  /\ hint \in Keys
  /\ inflight \in Nat
  /\ queued \in Nat
  /\ calling \in Nat
  /\ obs \in [at: {"idle", "trigger", "arm", "spawn"}, who: Keys, courtesy: BOOLEAN]
  /\ ask \in [at: {"idle", "compose", "direct", "send", "append"},
              to: Keys, key: Keys, asks: BOOLEAN]
  /\ say \in [at: {"idle", "append"}, key: Keys]
  /\ active \in BOOLEAN
  /\ inputs \in Nat
  /\ line \in [Speakers -> LineStates]

Init ==
  /\ open = {} /\ spoken = {} /\ aged = {} /\ order = <<>>
  /\ latched = {} /\ lapsed = {} /\ latches = 0
  /\ handle = [s \in Speakers |-> NoTimer]
  /\ armed = {} /\ orphan = {}
  /\ calls = [t \in Timers |-> 0]
  /\ owner = [t \in Timers |-> NoOne]
  /\ pending = [s \in Speakers |-> 0]
  /\ hint = NoOne
  /\ inflight = 0 /\ queued = 0 /\ calling = 0
  /\ obs = [at |-> "idle", who |-> NoOne, courtesy |-> FALSE]
  /\ ask = [at |-> "idle", to |-> NoOne, key |-> NoOne, asks |-> FALSE]
  /\ say = [at |-> "idle", key |-> NoOne]
  /\ active = FALSE
  /\ inputs = 0
  /\ line = [s \in Speakers |-> "none"]

-----------------------------------------------------------------------------
(* Windows: room at the cap, recency, dropping a window.                    *)

\* evictIfFullLocked: at the cap, the unlatched window seen longest ago.
Evicted ==
  IF Cardinality(open) < MaxSpeakers
  THEN {}
  ELSE {s \in open \ latched : \A i, j \in 1..Len(order) :
          (order[i] = s /\ order[j] \in open \ latched) => i <= j}

\* The windows once s has been given one, when the eviction made room for it.
Roomed(s) ==
  LET kept == open \ Evicted
  IN  IF s \in open THEN open
      ELSE IF Cardinality(kept) < MaxSpeakers THEN kept \union {s} ELSE kept

Without(seq, gone) == SelectSeq(seq, LAMBDA x : x \notin gone)

Touched(seq, s) == Append(Without(seq, {s}), s)

\* The timer of a dropped window runs on; nothing in the map refers to it.
Orphaned(gone) == orphan \union {t \in Timers : owner[t] \in gone}

Unhandled(gone) == [s \in Speakers |-> IF s \in gone THEN NoTimer ELSE handle[s]]

\* The lines, when those of the speakers in kept are all that is left in the windows.
Surviving(kept) ==
  [s \in Speakers |-> IF line[s] \in {"due", "dropped"} /\ s \notin kept THEN "lost" ELSE line[s]]

\* One more input from the world, within the bound.
Input == inputs < MaxInputs /\ inputs' = inputs + 1

-----------------------------------------------------------------------------
(* The limbic loop.                                                         *)

Idle == [at |-> "idle", who |-> NoOne, courtesy |-> FALSE]

\* reactiveObserve up to its first unlock: pushLine opens the window (evicting
\* at the cap), adds the line, and refreshes a live latch or drops one that has
\* lapsed.  A live latch goes on to arm the timer, unless the line is a
\* courtesy; otherwise the trigger decides.
Observe(s, courtesy, triggered) ==
  /\ Input
  /\ obs.at = "idle"
  /\ ~active
  /\ LET kept   == Roomed(s)
         gone   == open \ kept
         live   == s \in latched /\ s \notin lapsed
         heard  == s \in kept
         old    == Surviving(spoken \ (gone \union (aged \cap {s})))
     IN  /\ open' = kept
         /\ spoken' = IF heard THEN (spoken \ gone) \union {s} ELSE spoken \ gone
         /\ aged' = aged \ (gone \union {s})
         /\ order' = IF heard THEN Touched(Without(order, gone), s) ELSE Without(order, gone)
         /\ latched' = IF live THEN latched ELSE latched \ {s}
         /\ lapsed' = lapsed \ {s}
         /\ latches' = IF s \in latched /\ ~live THEN latches - 1 ELSE latches
         /\ handle' = Unhandled(gone)
         /\ orphan' = Orphaned(gone)
         /\ line' = IF live /\ ~courtesy THEN [old EXCEPT ![s] = "due"] ELSE old
         /\ obs' = CASE live /\ ~courtesy -> [at |-> "arm", who |-> s, courtesy |-> FALSE]
                     [] ~live /\ triggered -> [at |-> "trigger", who |-> s, courtesy |-> courtesy]
                     [] OTHER -> Idle
  /\ UNCHANGED <<armed, calls, owner, pending, hint, slotVars, ask, say, active>>

\* tryLatch: open the window if it is gone by now, then latch it, or refresh
\* the latch it holds, unless the latch cap is reached.  spot is where a new
\* window stands in the order of lastSeen, stale whether the caller's clock
\* reading is already older than the latch's lifetime.
TryLatch(s, spot, stale) ==
  LET kept == Roomed(s)
      gone == open \ kept
      rest == Without(order, gone)
      wins == s \in kept /\ (s \in latched \/ latches < MaxLatches)
  IN  /\ open' = kept
      /\ spoken' = spoken \ gone
      /\ aged' = aged \ gone
      /\ order' = IF s \in open \/ s \notin kept THEN rest
                  ELSE SubSeq(rest, 1, spot) \o <<s>> \o SubSeq(rest, spot + 1, Len(rest))
      /\ latched' = IF wins THEN latched \union {s} ELSE latched
      /\ lapsed' = IF ~wins THEN lapsed
                   ELSE IF stale THEN lapsed \union {s} ELSE lapsed \ {s}
      /\ latches' = IF wins /\ s \notin latched THEN latches + 1 ELSE latches
      /\ handle' = Unhandled(gone)
      /\ orphan' = Orphaned(gone)

Latches(s) == s \in Roomed(s) /\ (s \in latched \/ latches < MaxLatches)

\* reactiveObserve's second critical section, on a trigger hit.
Trigger ==
  /\ obs.at = "trigger"
  /\ LET s    == obs.who
         arms == Latches(s) /\ ~obs.courtesy
         left == spoken \ (open \ Roomed(s))
     IN  /\ TryLatch(s, Len(Without(order, open \ Roomed(s))), FALSE)
         /\ line' = [Surviving(left) EXCEPT ![s] =
                       IF ~arms THEN @ ELSE IF s \in left THEN "due" ELSE "lost"]
         /\ obs' = IF arms THEN [at |-> "arm", who |-> s, courtesy |-> FALSE] ELSE Idle
  /\ UNCHANGED <<armed, calls, owner, pending, hint, slotVars, ask, say, active, inputs>>

\* scheduleExtract: without a window, extract at once; with a timer, Reset it,
\* which arms it again even when its callback has started; else a new timer.
ScheduleNow ==
  /\ obs.at = "arm"
  /\ obs.who \notin open
  /\ obs' = [obs EXCEPT !.at = "spawn"]
  /\ UNCHANGED <<winVars, latchVars, timerVars, pending, hint, slotVars, ask, say, active, inputs, line>>

\* Variant of ScheduleReset: the timer is stopped and not started again.
ScheduleStop ==
  /\ obs.at = "arm"
  /\ obs.who \in open
  /\ handle[obs.who] # NoTimer
  /\ armed' = armed \ {handle[obs.who]}
  /\ obs' = Idle
  /\ UNCHANGED <<winVars, latchVars, handle, calls, owner, orphan, pending, hint, slotVars,
                 ask, say, active, inputs, line>>

ScheduleReset ==
  /\ obs.at = "arm"
  /\ obs.who \in open
  /\ handle[obs.who] # NoTimer
  /\ armed' = armed \union {handle[obs.who]}
  /\ obs' = Idle
  /\ UNCHANGED <<winVars, latchVars, handle, calls, owner, orphan, pending, hint, slotVars,
                 ask, say, active, inputs, line>>

ScheduleNew(t) ==
  /\ obs.at = "arm"
  /\ obs.who \in open
  /\ handle[obs.who] = NoTimer
  /\ owner[t] = NoOne
  /\ handle' = [handle EXCEPT ![obs.who] = t]
  /\ owner' = [owner EXCEPT ![t] = obs.who]
  /\ armed' = armed \union {t}
  /\ obs' = Idle
  /\ UNCHANGED <<winVars, latchVars, calls, orphan, pending, hint, slotVars, ask, say, active, inputs, line>>

\* Variant of GcLatches: a latch goes whether or not its lifetime has passed.
GcLatchesEarly ==
  /\ obs.at = "idle"
  /\ LET still == {}
         lines == spoken \ aged
         gone  == open \ (still \union lines)
     IN  /\ latched' = still
         /\ lapsed' = {}
         /\ latches' = 0
         /\ spoken' = lines
         /\ aged' = {}
         /\ open' = open \ gone
         /\ order' = Without(order, gone)
         /\ handle' = Unhandled(gone)
         /\ orphan' = Orphaned(gone)
         /\ line' = Surviving(lines)
  /\ UNCHANGED <<armed, calls, owner, pending, hint, slotVars, obs, ask, say, active, inputs>>

\* gcLatches on the flush tick: lapsed latches decay, lines past the lookback
\* go, and an unlatched window without lines is dropped.
GcLatches ==
  /\ obs.at = "idle"
  /\ LET still == latched \ lapsed
         lines == spoken \ aged
         gone  == open \ (still \union lines)
     IN  /\ latched' = still
         /\ lapsed' = {}
         /\ latches' = latches - Cardinality(lapsed)
         /\ spoken' = lines
         /\ aged' = {}
         /\ open' = open \ gone
         /\ order' = Without(order, gone)
         /\ handle' = Unhandled(gone)
         /\ orphan' = Orphaned(gone)
         /\ line' = Surviving(lines)
  /\ UNCHANGED <<armed, calls, owner, pending, hint, slotVars, obs, ask, say, active, inputs>>

-----------------------------------------------------------------------------
(* Timers and extraction.                                                   *)

\* The quiet window passes: the runtime starts the callback.
Fire(t) ==
  /\ t \in armed
  /\ calls[t] < MaxCallbacks
  /\ armed' = armed \ {t}
  /\ calls' = [calls EXCEPT ![t] = @ + 1]
  /\ UNCHANGED <<winVars, latchVars, handle, owner, orphan, pending, hint, slotVars,
                 obs, ask, say, active, inputs, line>>

\* The callback's critical section: it clears the handle of its own window,
\* whichever timer that handle holds by now.
Callback(t) ==
  /\ calls[t] > 0
  /\ pending[owner[t]] < MaxCallbacks
  /\ LET s     == owner[t]
         spent == calls[t] = 1 /\ t \notin armed
     IN  /\ calls' = [calls EXCEPT ![t] = @ - 1]
         /\ handle' = IF t \in orphan THEN handle ELSE [handle EXCEPT ![s] = NoTimer]
         /\ owner' = IF spent THEN [owner EXCEPT ![t] = NoOne] ELSE owner
         /\ orphan' = IF spent THEN orphan \ {t} ELSE orphan
         /\ pending' = [pending EXCEPT ![s] = @ + 1]
  /\ UNCHANGED <<winVars, latchVars, armed, hint, slotVars, obs, ask, say, active, inputs, line>>

\* spawnExtract: nothing under analysis mode, offline, or at the inflight cap;
\* a slot taken for an empty window is given back; else a goroutine is started.
\* The line of s is read only in the last case: a drop leaves it in the window unread,
\* and arms nothing.
SpawnExtract(s, healthy) ==
  /\ IF ~active /\ healthy /\ inflight < MaxInflight /\ s \in spoken
     THEN /\ inflight' = inflight + 1 /\ queued' = queued + 1
          /\ line' = [line EXCEPT ![s] = IF @ = "lost" THEN @ ELSE "none"]
     ELSE /\ UNCHANGED <<inflight, queued>>
          /\ line' = [line EXCEPT ![s] = IF @ = "due" THEN "dropped" ELSE @]
  /\ UNCHANGED calling

SpawnLater(s, healthy) ==
  /\ pending[s] > 0
  /\ pending' = [pending EXCEPT ![s] = @ - 1]
  /\ SpawnExtract(s, healthy)
  /\ UNCHANGED <<winVars, latchVars, timerVars, hint, obs, ask, say, active, inputs>>

SpawnNow(healthy) ==
  /\ obs.at = "spawn"
  /\ SpawnExtract(obs.who, healthy)
  /\ obs' = Idle
  /\ UNCHANGED <<winVars, latchVars, timerVars, pending, hint, ask, say, active, inputs>>

\* The goroutine looks at analysis mode once more, then calls mesa.
ExtractStart ==
  /\ queued > 0
  /\ queued' = queued - 1
  /\ IF active
     THEN inflight' = inflight - 1 /\ UNCHANGED calling
     ELSE calling' = calling + 1 /\ UNCHANGED inflight
  /\ UNCHANGED <<winVars, latchVars, timerVars, pending, hint, obs, ask, say, active, inputs, line>>

\* The call returns, or fails, or times out; claims go to the ledger
\* (writebackClaims), an urgent intent to the conductor's interrupt
\* (maybeInterrupt), and the slot is given back in every case.
ExtractEnd ==
  /\ calling > 0
  /\ calling' = calling - 1
  /\ inflight' = inflight - 1
  /\ UNCHANGED <<winVars, latchVars, timerVars, pending, hint, queued, obs, ask, say, active, inputs, line>>

-----------------------------------------------------------------------------
(* The social reflex: ask a question, or reply to a player.                 *)

Silent == [at |-> "idle", to |-> NoOne, key |-> NoOne, asks |-> FALSE]

\* tryAsk passes its gates, reads the clock and calls the composer.
AskCompose(s) ==
  /\ Input
  /\ ask.at = "idle"
  /\ ~active
  /\ ask' = [at |-> "compose", to |-> s, key |-> NoOne, asks |-> TRUE]
  /\ UNCHANGED <<winVars, latchVars, timerVars, pending, hint, slotVars, obs, say, active, line>>

\* The composer errs or chooses silence.
AskSilent ==
  /\ ask.at = "compose"
  /\ ask' = Silent
  /\ UNCHANGED <<winVars, latchVars, timerVars, pending, hint, slotVars, obs, say, active, inputs, line>>

\* The target is latched before the question is sent, with the clock reading
\* from before the composer's call.
AskLatch(spot, stale) ==
  /\ ask.at = "compose"
  /\ spot \in 0..Len(Without(order, open \ Roomed(ask.to)))
  /\ TryLatch(ask.to, spot, stale)
  /\ line' = Surviving(spoken \ (open \ Roomed(ask.to)))
  /\ ask' = [ask EXCEPT !.at = "direct"]
  /\ UNCHANGED <<armed, calls, owner, pending, hint, slotVars, obs, say, active, inputs>>

\* socialReflex answers a player: no latch, the hint only.
Reply(s) ==
  /\ Input
  /\ ask.at = "idle"
  /\ ~active
  /\ ask' = [at |-> "direct", to |-> s, key |-> NoOne, asks |-> FALSE]
  /\ UNCHANGED <<winVars, latchVars, timerVars, pending, hint, slotVars, obs, say, active, line>>

\* directSelfTo.
Direct ==
  /\ ask.at = "direct"
  /\ hint' = ask.to
  /\ ask' = [ask EXCEPT !.at = "send"]
  /\ UNCHANGED <<winVars, latchVars, timerVars, pending, slotVars, obs, say, active, inputs, line>>

\* Variant of SendFail: the routing hint stays armed.
SendFailKeepsHint ==
  /\ ask.at = "send"
  /\ LET drops == ask.asks /\ ask.to \in latched
     IN  /\ latched' = IF drops THEN latched \ {ask.to} ELSE latched
         /\ lapsed' = IF drops THEN lapsed \ {ask.to} ELSE lapsed
         /\ latches' = IF drops THEN latches - 1 ELSE latches
  /\ ask' = Silent
  /\ UNCHANGED <<winVars, timerVars, pending, hint, slotVars, obs, say, active, inputs, line>>

\* Variant of SendFail: the count is lowered whether or not the latch is held.
SendFailMiscounts ==
  /\ ask.at = "send"
  /\ hint' = NoOne
  /\ latched' = IF ask.asks THEN latched \ {ask.to} ELSE latched
  /\ lapsed' = IF ask.asks THEN lapsed \ {ask.to} ELSE lapsed
  /\ latches' = IF ask.asks /\ latches > 0 THEN latches - 1 ELSE latches
  /\ ask' = Silent
  /\ UNCHANGED <<winVars, timerVars, pending, slotVars, obs, say, active, inputs, line>>

\* The send fails: clearDirectSelf, and a question's target is unlatched.
SendFail ==
  /\ ask.at = "send"
  /\ hint' = NoOne
  /\ LET drops == ask.asks /\ ask.to \in latched
     IN  /\ latched' = IF drops THEN latched \ {ask.to} ELSE latched
         /\ lapsed' = IF drops THEN lapsed \ {ask.to} ELSE lapsed
         /\ latches' = IF drops THEN latches - 1 ELSE latches
  /\ ask' = Silent
  /\ UNCHANGED <<winVars, timerVars, pending, slotVars, obs, say, active, inputs, line>>

\* host.Say: the line is sent, then reactiveObserveSelf, whose first half is
\* takeDirectSelf.  The line is not blank: mesad trims a reply and has the host speak
\* only a non-empty one (mesad/act.go:458-459), and tryAsk looks for itself.
SendOk ==
  /\ ask.at = "send"
  /\ hint' = NoOne
  /\ ask' = [ask EXCEPT !.at = "append", !.key = hint]
  /\ UNCHANGED <<winVars, latchVars, timerVars, pending, slotVars, obs, say, active, inputs, line>>

\* Second half: into the hinted window if it is latched (appendToWindow), or
\* into every latched window (appendToLatched); each has its latch refreshed.
SelfLine(key) ==
  LET to == IF key = NoOne THEN latched ELSE {key} \cap latched
  IN  /\ spoken' = spoken \union to
      /\ aged' = aged \ to
      /\ lapsed' = lapsed \ to
      /\ order' = Without(order, to) \o SelectSeq(order, LAMBDA x : x \in to)
      /\ line' = Surviving(spoken \ (aged \cap to))
      /\ UNCHANGED <<open, latched, latches>>

AskAppend ==
  /\ ask.at = "append"
  /\ SelfLine(ask.key)
  /\ ask' = Silent
  /\ UNCHANGED <<timerVars, pending, hint, slotVars, obs, say, active, inputs>>

\* A routine's say(): the same seam without a hint of its own.
SayTake ==
  /\ Input
  /\ say.at = "idle"
  /\ hint' = NoOne
  /\ say' = [at |-> "append", key |-> hint]
  /\ UNCHANGED <<winVars, latchVars, timerVars, pending, slotVars, obs, ask, active, line>>

SayAppend ==
  /\ say.at = "append"
  /\ SelfLine(say.key)
  /\ say' = [at |-> "idle", key |-> NoOne]
  /\ UNCHANGED <<timerVars, pending, hint, slotVars, obs, ask, active, inputs>>

-----------------------------------------------------------------------------
(* Time and the operator.                                                   *)

\* latchTTL passes.
Lapse(s) ==
  /\ s \in latched \ lapsed
  /\ lapsed' = lapsed \union {s}
  /\ UNCHANGED <<winVars, latched, latches, timerVars, pending, hint, slotVars,
                 obs, ask, say, active, inputs, line>>

\* The last line of a quiet window passes the lookback: longer than a latch
\* lives and than a timer runs.
Age(s) ==
  /\ s \in spoken \ aged
  /\ s \notin latched \/ s \in lapsed
  /\ handle[s] = NoTimer
  /\ aged' = aged \union {s}
  /\ UNCHANGED <<open, spoken, order, latchVars, timerVars, pending, hint, slotVars,
                 obs, ask, say, active, inputs, line>>

\* EnterAnalysis / ExitAnalysis.
Analysis ==
  /\ Input
  /\ active' = ~active
  /\ UNCHANGED <<winVars, latchVars, timerVars, pending, hint, slotVars, obs, ask, say, line>>

Next ==
  \/ \E s \in Speakers, c, h \in BOOLEAN : Observe(s, c, h)
  \/ Trigger
  \/ ScheduleNow
  \/ ScheduleReset
  \/ \E t \in Timers : ScheduleNew(t)
  \/ GcLatches
  \/ \E t \in Timers : Fire(t)
  \/ \E t \in Timers : Callback(t)
  \/ \E s \in Speakers, h \in BOOLEAN : SpawnLater(s, h)
  \/ \E h \in BOOLEAN : SpawnNow(h)
  \/ ExtractStart
  \/ ExtractEnd
  \/ \E s \in Peers : AskCompose(s)
  \/ AskSilent
  \/ \E i \in 0..MaxSpeakers, b \in BOOLEAN : AskLatch(i, b)
  \/ \E s \in Peers : Reply(s)
  \/ Direct
  \/ SendOk
  \/ SendFail
  \/ AskAppend
  \/ SayTake
  \/ SayAppend
  \/ \E s \in Speakers : Lapse(s)
  \/ \E s \in Speakers : Age(s)
  \/ Analysis

Spec == Init /\ [][Next]_vars

-----------------------------------------------------------------------------
(* Properties.                                                              *)

\* A timer or a callback that will still extract the window of s.
Outstanding(s) ==
  \/ pending[s] > 0
  \/ \E t \in Timers : owner[t] = s /\ (t \in armed \/ calls[t] > 0)

\* r.latches counts the latched windows and stays within its cap, whichever of
\* pushLine, tryLatch, unlatch and gcLatches drops or takes the latch.
LatchesCounted == latches = Cardinality(latched) /\ latches <= MaxLatches

\* The window map stays within its cap, and at the cap there is always a
\* window to evict, so pushLine never has to drop a new speaker's line.
RoomForNewSpeaker ==
  /\ Cardinality(open) <= MaxSpeakers
  /\ Cardinality(open) = MaxSpeakers => open \ latched # {}

\* The inflight semaphore holds one slot per live extraction goroutine: no path
\* of spawnExtract leaks one or gives one back twice, and the cap holds.
SlotsHeld == inflight = queued + calling /\ inflight <= MaxInflight

\* The reactive tier's books balance: every latch, window and extraction slot that is
\* counted exists, and none of the caps is passed or blocks for good (reactive.go:186-260,
\* 540-560).
BooksBalance == LatchesCounted /\ RoomForNewSpeaker /\ SlotsHeld

\* The speakers whose newest substantive line waits in its window for an extraction.
Due == {s \in Speakers : line[s] = "due"}

\* No race of the lull timer forgets a substantive line of an engaged speaker: from the
\* line on, the limbic loop is about to arm its timer, or a timer of that speaker runs, or
\* a callback is on its way to spawnExtract, through every Reset, callback and
\* re-creation of the window, until the line's fate is decided (reactive.go:472-495).
\* The code decides it in three ways: an extraction takes the window; the extraction is
\* dropped, as spawnExtract does by design (reactive.go:534-549); or the line leaves the
\* window unread, when that is evicted or pruned.  The last two are not excluded by this
\* property: a line so dropped or lost may never be extracted.
LineNotForgotten ==
  \A s \in Due : (obs.at = "arm" /\ obs.who = s) \/ Outstanding(s)

\* directSelf outlives no utterance: outside the step from arming to sending,
\* no later line can be routed by it.
HintNotStale == hint # NoOne => ask.at = "send" /\ hint = ask.to

\* A conversation whose latch is live keeps its window and its latch, unless
\* the host's own question to that speaker failed to send.
EngagedKept ==
  [][\A s \in latched \ lapsed :
       s \in latched' \cap open' \/ (SendFail /\ ask.to = s)]_vars

-----------------------------------------------------------------------------
(* What the repository says and the code does not keep (see README).        *)

\* reactive.go:89 "ONE extraction runs per conversational lull": violated,
\* Reset arms a timer whose callback has already started.
OneExtractionPerLull ==
  \A s \in Speakers :
    /\ pending[s] <= 1
    /\ Cardinality({t \in Timers : owner[t] = s /\ t \in armed}) <= 1

\* reactive.go:108 "the question pairs only with its own conversation":
\* violated, a routine's say() may consume the hint first, and the question is
\* broadcast to every latched conversation.
DirectedStaysDirected == ask.at = "append" => ask.key = ask.to

\* speech.go:222 "undo the pre-emit latch": violated, the latch may be one the
\* speaker's own line took or refreshed, whose extraction is still due.
UndoOnlyOwnLatch ==
  [][\A s \in Due \cap latched : SendFail => s \in latched']_vars
=============================================================================
