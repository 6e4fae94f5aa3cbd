--------------------------- MODULE ReactiveProofs ---------------------------
(* Proofs about Reactive, for any speakers, timers and caps.                 *)
EXTENDS Reactive, FiniteSetTheorems, TLAPS

-----------------------------------------------------------------------------
(* The inductive invariant.                                                  *)

\* Latches and lines belong to windows.
WindowsNest ==
  /\ open \subseteq Speakers /\ spoken \subseteq open /\ aged \subseteq spoken
  /\ latched \subseteq open /\ lapsed \subseteq latched

\* A line being handled has a speaker, and an utterance being made someone it is for.
PartnersKnown ==
  /\ obs \in [at: {"idle", "trigger", "arm", "spawn"}, who: Keys, courtesy: BOOLEAN]
  /\ obs.at # "idle" => obs.who \in Speakers
  /\ ask \in [at: {"idle", "compose", "direct", "send", "append"},
              to: Keys, key: Keys, asks: BOOLEAN]
  /\ ask.at # "idle" => ask.to \in Speakers

\* The window map within its cap.
WindowsCapped == Cardinality(open) <= MaxSpeakers

SlotTypes == inflight \in Nat /\ queued \in Nat /\ calling \in Nat

TimerTypes ==
  /\ handle \in [Speakers -> Timers \union {NoTimer}]
  /\ armed \subseteq Timers
  /\ calls \in [Timers -> Nat]
  /\ owner \in [Timers -> Keys]
  /\ pending \in [Speakers -> Nat]

\* A line that is due is in its window still.
LinesHeld == line \in [Speakers -> LineStates] /\ Due \subseteq spoken

\* A timer that a window holds was made for it and not for a window dropped since; a
\* timer that runs, is orphaned or has a callback on its way was made for some window.
TimersOwned ==
  /\ \A s \in Speakers : handle[s] # NoTimer => owner[handle[s]] = s /\ handle[s] \notin orphan
  /\ \A t \in Timers : t \in armed \/ calls[t] > 0 \/ t \in orphan => owner[t] \in Speakers

IInv ==
  /\ WindowsNest /\ PartnersKnown
  /\ LatchesCounted /\ WindowsCapped
  /\ SlotTypes /\ SlotsHeld
  /\ TimerTypes /\ TimersOwned
  /\ LinesHeld /\ LineNotForgotten
  /\ HintNotStale

-----------------------------------------------------------------------------
(* Windows and latches.                                                      *)

\* What making room for a speaker does: it drops no latched window, adds none but the
\* speaker's, and stays within the cap.
LEMMA RoomMade ==
  ASSUME WindowsNest, WindowsCapped, NEW s \in Speakers
  PROVE  /\ latched \subseteq Roomed(s)
         /\ Roomed(s) \subseteq open \union {s}
         /\ Roomed(s) \subseteq Speakers
         /\ Cardinality(Roomed(s)) <= MaxSpeakers
         /\ s \in open => Roomed(s) = open
<1>1. latched \subseteq open \ Evicted BY DEF Evicted, WindowsNest
<1>2. /\ latched \subseteq Roomed(s) /\ Roomed(s) \subseteq open \union {s}
      /\ Roomed(s) \subseteq Speakers
      /\ s \in open => Roomed(s) = open
  <2>1. Roomed(s) \in {open, (open \ Evicted) \union {s}, open \ Evicted} BY DEF Roomed
  <2>2. s \in open => Roomed(s) = open BY DEF Roomed
  <2> QED BY <1>1, <2>1, <2>2 DEF WindowsNest
<1>3. Cardinality(Roomed(s)) <= MaxSpeakers
  <2> DEFINE kept == open \ Evicted
  <2>1. IsFiniteSet(open) /\ Cardinality(open) \in Nat
    BY ReactiveAssumption, FS_Subset, FS_CardinalityType DEF WindowsNest
  <2>2. IsFiniteSet(kept) /\ Cardinality(kept) \in Nat /\ Cardinality(kept) <= Cardinality(open)
    BY <2>1, FS_Subset, FS_CardinalityType
  <2>3. Cardinality(kept \union {s}) \in {Cardinality(kept), Cardinality(kept) + 1}
    BY <2>2, FS_AddElement
  <2>4. CASE Roomed(s) = open BY <2>4 DEF WindowsCapped
  <2>5. CASE Roomed(s) = kept \union {s} /\ Cardinality(kept) < MaxSpeakers
    BY <2>2, <2>3, <2>5, ReactiveAssumption
  <2>6. CASE Roomed(s) = kept BY <2>1, <2>2, <2>6, ReactiveAssumption DEF WindowsCapped
  <2> QED BY <2>4, <2>5, <2>6 DEF Roomed
<1> QED BY <1>2, <1>3

\* Every step keeps windows, latches and partners in place.
LEMMA WindowStep ==
  ASSUME WindowsNest, WindowsCapped, PartnersKnown, HintNotStale, [Next]_vars
  PROVE  WindowsNest' /\ WindowsCapped' /\ PartnersKnown'
<1>a. NoOne \in Keys /\ Speakers \subseteq Keys /\ Peers \subseteq Speakers
  BY ReactiveAssumption DEF Keys
<1>1. ASSUME NEW s \in Speakers, NEW c \in BOOLEAN, NEW h \in BOOLEAN, Observe(s, c, h)
      PROVE  WindowsNest' /\ WindowsCapped' /\ PartnersKnown'
  <2> USE <1>1 DEF Observe
  <2>1. open' = Roomed(s) OBVIOUS
  <2>2. WindowsCapped' BY <2>1, RoomMade DEF WindowsCapped
  <2>3. latched' \subseteq open' /\ lapsed' \subseteq latched' /\ open' \subseteq Speakers
    BY <2>1, RoomMade DEF WindowsNest
  <2>4. spoken' \subseteq open' /\ aged' \subseteq spoken' BY <2>1, RoomMade DEF WindowsNest
  <2>6. obs' \in {[at |-> "arm", who |-> s, courtesy |-> FALSE],
                  [at |-> "trigger", who |-> s, courtesy |-> c], Idle}
    OBVIOUS
  <2>7. PartnersKnown' BY <1>a, <2>6 DEF PartnersKnown, Idle
  <2> QED BY <2>2, <2>3, <2>4, <2>7 DEF WindowsNest
<1>2. ASSUME NEW s \in Speakers, NEW i, NEW b, TryLatch(s, i, b)
      PROVE  WindowsNest' /\ WindowsCapped'
  <2> USE <1>2 DEF TryLatch
  <2>1. open' = Roomed(s) OBVIOUS
  <2>2. WindowsCapped' BY <2>1, RoomMade DEF WindowsCapped
  <2>3. latched' \subseteq open' /\ lapsed' \subseteq latched' /\ open' \subseteq Speakers
    BY <2>1, RoomMade DEF WindowsNest
  <2>4. spoken' \subseteq open' /\ aged' \subseteq spoken' BY <2>1, RoomMade DEF WindowsNest
  <2> QED BY <2>2, <2>3, <2>4 DEF WindowsNest
<1>3. CASE Trigger
  <2>1. obs.who \in Speakers BY <1>3 DEF Trigger, PartnersKnown
  <2>2. WindowsNest' /\ WindowsCapped' BY <1>2, <1>3, <2>1 DEF Trigger
  <2>3. PartnersKnown' BY <1>3, <1>a, <2>1 DEF Trigger, PartnersKnown, Idle
  <2> QED BY <2>2, <2>3
<1>4. ASSUME NEW i, NEW b, AskLatch(i, b) PROVE WindowsNest' /\ WindowsCapped' /\ PartnersKnown'
  <2>1. ask.to \in Speakers BY <1>4 DEF AskLatch, PartnersKnown
  <2>2. WindowsNest' /\ WindowsCapped' BY <1>2, <1>4, <2>1 DEF AskLatch
  <2>3. PartnersKnown' BY <1>4 DEF AskLatch, PartnersKnown
  <2> QED BY <2>2, <2>3
<1>5. CASE GcLatches
  <2>1. WindowsNest' BY <1>5 DEF GcLatches, WindowsNest
  <2>2. open' \subseteq open BY <1>5 DEF GcLatches
  <2>3. IsFiniteSet(open) /\ Cardinality(open) \in Nat
    BY ReactiveAssumption, FS_Subset, FS_CardinalityType DEF WindowsNest
  <2>4. Cardinality(open') <= Cardinality(open) /\ Cardinality(open') \in Nat
    BY <2>2, <2>3, FS_Subset, FS_CardinalityType
  <2>5. WindowsCapped' BY <2>3, <2>4, ReactiveAssumption DEF WindowsCapped
  <2>6. PartnersKnown' BY <1>5 DEF GcLatches, PartnersKnown
  <2> QED BY <2>1, <2>5, <2>6
<1>6. ASSUME NEW k, SelfLine(k) PROVE WindowsNest' /\ WindowsCapped'
  BY <1>6 DEF SelfLine, WindowsNest, WindowsCapped
<1>7. CASE AskAppend
  <2>1. PartnersKnown' BY <1>7, <1>a DEF AskAppend, PartnersKnown, Silent
  <2> QED BY <1>6, <1>7, <2>1 DEF AskAppend
<1>8. CASE SayAppend
  <2>1. PartnersKnown' BY <1>8 DEF SayAppend, PartnersKnown
  <2> QED BY <1>6, <1>8, <2>1 DEF SayAppend
<1>9. CASE SendFail
  <2>1. PartnersKnown' BY <1>9, <1>a DEF SendFail, PartnersKnown, Silent
  <2>2. WindowsNest' /\ WindowsCapped' BY <1>9 DEF SendFail, winVars, WindowsNest, WindowsCapped
  <2> QED BY <2>1, <2>2
<1>10. ASSUME NEW s \in Speakers, Lapse(s) PROVE WindowsNest' /\ WindowsCapped' /\ PartnersKnown'
  BY <1>10 DEF Lapse, winVars, WindowsNest, WindowsCapped, PartnersKnown
<1>11. ASSUME NEW s \in Speakers, Age(s) PROVE WindowsNest' /\ WindowsCapped' /\ PartnersKnown'
  BY <1>11 DEF Age, latchVars, WindowsNest, WindowsCapped, PartnersKnown
<1>12. ASSUME UNCHANGED <<winVars, latchVars>> PROVE WindowsNest' /\ WindowsCapped'
  BY <1>12 DEF winVars, latchVars, WindowsNest, WindowsCapped
<1>13. ASSUME NEW s \in Speakers, NEW h \in BOOLEAN, SpawnLater(s, h)
       PROVE  WindowsNest' /\ WindowsCapped' /\ PartnersKnown'
  <2>1. UNCHANGED <<winVars, latchVars>> BY <1>13 DEF SpawnLater
  <2>2. PartnersKnown' BY <1>13 DEF SpawnLater, PartnersKnown
  <2> QED BY <1>12, <2>1, <2>2
<1>14. ASSUME NEW h \in BOOLEAN, SpawnNow(h) PROVE WindowsNest' /\ WindowsCapped' /\ PartnersKnown'
  <2>1. UNCHANGED <<winVars, latchVars>> BY <1>14 DEF SpawnNow
  <2>2. PartnersKnown' BY <1>14, <1>a DEF SpawnNow, PartnersKnown, Idle
  <2> QED BY <1>12, <2>1, <2>2
<1>15. ASSUME \/ ScheduleNow \/ ScheduleReset \/ \E t \in Timers : ScheduleNew(t)
       PROVE  WindowsNest' /\ WindowsCapped' /\ PartnersKnown'
  <2>1. UNCHANGED <<winVars, latchVars>>
    BY <1>15 DEF ScheduleNow, ScheduleReset, ScheduleNew
  <2>2. PartnersKnown'
    <3>1. CASE ScheduleNow BY <3>1 DEF ScheduleNow, PartnersKnown
    <3>2. ASSUME obs' = Idle, ask' = ask PROVE PartnersKnown' BY <1>a, <3>2 DEF PartnersKnown, Idle
    <3>3. CASE ~ScheduleNow BY <1>15, <3>2, <3>3 DEF ScheduleReset, ScheduleNew
    <3> QED BY <3>1, <3>3
  <2> QED BY <1>12, <2>1, <2>2
<1>16. ASSUME \/ \E s \in Peers : AskCompose(s) \/ Reply(s)
              \/ AskSilent \/ Direct \/ SendOk
       PROVE  WindowsNest' /\ WindowsCapped' /\ PartnersKnown'
  <2>1. UNCHANGED <<winVars, latchVars>>
    BY <1>16 DEF AskCompose, Reply, AskSilent, Direct, SendOk
  <2>2. ASSUME NEW s \in Peers, AskCompose(s) \/ Reply(s) PROVE PartnersKnown'
    <3>1. s \in Speakers /\ obs' = obs BY <1>a, <2>2 DEF AskCompose, Reply
    <3>2. CASE AskCompose(s) BY <1>a, <3>1, <3>2 DEF AskCompose, PartnersKnown
    <3>3. CASE Reply(s) BY <1>a, <3>1, <3>3 DEF Reply, PartnersKnown
    <3> QED BY <2>2, <3>2, <3>3
  <2>3. CASE AskSilent BY <1>12, <1>a, <2>1, <2>3 DEF AskSilent, PartnersKnown, Silent
  <2>4. CASE Direct BY <1>12, <2>1, <2>4 DEF Direct, PartnersKnown
  <2>5. CASE SendOk
    <3>1. hint \in Keys BY <1>a DEF HintNotStale, PartnersKnown
    <3> QED BY <1>12, <2>1, <2>5, <3>1 DEF SendOk, PartnersKnown
  <2> QED BY <1>12, <1>16, <2>1, <2>2, <2>3, <2>4, <2>5
<1>17. ASSUME \/ \E t \in Timers : Fire(t) \/ Callback(t)
              \/ ExtractStart \/ ExtractEnd \/ SayTake \/ Analysis \/ UNCHANGED vars
       PROVE  WindowsNest' /\ WindowsCapped' /\ PartnersKnown'
  <2>1. UNCHANGED <<winVars, latchVars, obs, ask>>
    BY <1>17 DEF Fire, Callback, ExtractStart, ExtractEnd, SayTake, Analysis, vars
  <2>2. PartnersKnown' BY <2>1 DEF PartnersKnown
  <2> QED BY <1>12, <2>1, <2>2
<1> QED BY <1>1, <1>3, <1>4, <1>5, <1>7, <1>8, <1>9, <1>10, <1>11, <1>13, <1>14, <1>15, <1>16, <1>17
        DEF Next
\* r.latches follows the latches through every step that takes or drops one.
LEMMA LatchStep ==
  ASSUME WindowsNest, WindowsCapped, PartnersKnown, LatchesCounted, [Next]_vars
  PROVE  LatchesCounted'
<1>f. /\ IsFiniteSet(latched) /\ Cardinality(latched) \in Nat
      /\ IsFiniteSet(lapsed) /\ Cardinality(lapsed) \in Nat
  BY ReactiveAssumption, FS_Subset, FS_CardinalityType DEF WindowsNest
<1>m. MaxLatches \in Nat BY ReactiveAssumption
<1>u. ASSUME UNCHANGED <<latched, latches>> PROVE LatchesCounted' BY <1>u DEF LatchesCounted
<1>r. ASSUME NEW s \in latched, latched' = latched \ {s}, latches' = latches - 1 PROVE LatchesCounted'
  <2>1. Cardinality(latched \ {s}) = Cardinality(latched) - 1 BY <1>f, FS_RemoveElement
  <2> QED BY <1>f, <1>m, <1>r, <2>1 DEF LatchesCounted
<1>1. ASSUME NEW s \in Speakers, NEW c \in BOOLEAN, NEW h \in BOOLEAN, Observe(s, c, h)
      PROVE  LatchesCounted'
  <2>1. CASE s \in latched \ lapsed BY <1>1, <1>u, <2>1 DEF Observe
  <2>2. CASE s \in latched \cap lapsed BY <1>1, <1>r, <2>2 DEF Observe
  <2>3. CASE s \notin latched
    <3>1. latched' = latched /\ latches' = latches BY <1>1, <2>3 DEF Observe
    <3> QED BY <1>u, <3>1
  <2> QED BY <2>1, <2>2, <2>3
<1>2. ASSUME NEW s, NEW i, NEW b, TryLatch(s, i, b) PROVE LatchesCounted'
  <2>1. CASE s \in Roomed(s) /\ s \notin latched /\ latches < MaxLatches
    <3>1. latched' = latched \union {s} /\ latches' = latches + 1 BY <1>2, <2>1 DEF TryLatch
    <3>2. Cardinality(latched \union {s}) = Cardinality(latched) + 1 BY <1>f, <2>1, FS_AddElement
    <3> QED BY <1>f, <1>m, <2>1, <3>1, <3>2 DEF LatchesCounted
  <2>2. CASE ~(s \in Roomed(s) /\ s \notin latched /\ latches < MaxLatches)
    <3>1. latched' = latched /\ latches' = latches BY <1>2, <2>2 DEF TryLatch
    <3> QED BY <1>u, <3>1
  <2> QED BY <2>1, <2>2
<1>3. CASE Trigger BY <1>2, <1>3 DEF Trigger
<1>4. ASSUME NEW i, NEW b, AskLatch(i, b) PROVE LatchesCounted' BY <1>2, <1>4 DEF AskLatch
<1>5. CASE GcLatches
  <2>1. latched' = latched \ lapsed /\ latches' = latches - Cardinality(lapsed) BY <1>5 DEF GcLatches
  <2>2. latched \cap lapsed = lapsed BY DEF WindowsNest
  <2>3. Cardinality(latched \ lapsed) = Cardinality(latched) - Cardinality(lapsed)
    BY <1>f, <2>2, FS_Difference
  <2>4. Cardinality(latched \ lapsed) <= Cardinality(latched) BY <1>f, FS_Subset
  <2> QED BY <1>f, <1>m, <2>1, <2>3, <2>4 DEF LatchesCounted
<1>6. CASE SendFail
  <2>1. CASE ask.asks /\ ask.to \in latched BY <1>6, <1>r, <2>1 DEF SendFail
  <2>2. CASE ~(ask.asks /\ ask.to \in latched) BY <1>6, <1>u, <2>2 DEF SendFail
  <2> QED BY <2>1, <2>2
<1>7. \/ \E s \in Speakers, c, h \in BOOLEAN : Observe(s, c, h)
      \/ Trigger \/ \E i \in 0..MaxSpeakers, b \in BOOLEAN : AskLatch(i, b)
      \/ GcLatches \/ SendFail
      \/ UNCHANGED <<latched, latches>>
  BY DEF Next, vars, latchVars, ScheduleNow, ScheduleReset, ScheduleNew, Fire, Callback, SpawnLater,
         SpawnNow, ExtractStart, ExtractEnd, AskCompose, AskSilent, Reply, Direct, SendOk, AskAppend,
         SelfLine, SayTake, SayAppend, Lapse, Age, Analysis
<1> QED BY <1>1, <1>3, <1>4, <1>5, <1>6, <1>7, <1>u

\* Slots are taken and given back one by one.
LEMMA SlotStep ==
  ASSUME SlotTypes, SlotsHeld, [Next]_vars
  PROVE  SlotTypes' /\ SlotsHeld'
<1> USE ReactiveAssumption DEF SlotTypes, SlotsHeld
<1>1. ASSUME NEW s, NEW h, SpawnExtract(s, h) PROVE SlotTypes' /\ SlotsHeld'
  BY <1>1 DEF SpawnExtract
<1>2. CASE ExtractStart BY <1>2 DEF ExtractStart
<1>3. CASE ExtractEnd BY <1>3 DEF ExtractEnd
<1>4. CASE UNCHANGED slotVars BY <1>4 DEF slotVars
<1>5. \/ \E s, h : SpawnExtract(s, h)
      \/ ExtractStart \/ ExtractEnd \/ UNCHANGED slotVars
  BY DEF Next, vars, Observe, Trigger, ScheduleNow, ScheduleReset, ScheduleNew, GcLatches, Fire,
         Callback, SpawnLater, SpawnNow, AskCompose, AskSilent, AskLatch, Reply, Direct, SendOk,
         SendFail, AskAppend, SayTake, SayAppend, Lapse, Age, Analysis
<1> QED BY <1>1, <1>2, <1>3, <1>4, <1>5

\* The hint is set between arming and sending, and consumed by whoever speaks first.
LEMMA HintStep ==
  ASSUME PartnersKnown, HintNotStale, [Next]_vars
  PROVE  HintNotStale'
<1> USE DEF HintNotStale
<1>1. CASE Direct BY <1>1 DEF Direct, PartnersKnown
<1>2. CASE SendOk \/ SendFail \/ SayTake BY <1>2 DEF SendOk, SendFail, SayTake
<1>3. ASSUME hint' = hint, ask.at # "send" PROVE HintNotStale' BY <1>3
<1>4. ASSUME UNCHANGED <<hint, ask>> PROVE HintNotStale' BY <1>4
<1>5. ASSUME \/ \E s \in Peers : AskCompose(s) \/ Reply(s)
             \/ \E i \in 0..MaxSpeakers, b \in BOOLEAN : AskLatch(i, b)
             \/ AskSilent \/ AskAppend
      PROVE  HintNotStale'
  BY <1>3, <1>5 DEF AskCompose, Reply, AskLatch, AskSilent, AskAppend
<1>6. \/ Direct \/ SendOk \/ SendFail \/ SayTake \/ AskSilent \/ AskAppend
      \/ \E s \in Peers : AskCompose(s) \/ Reply(s)
      \/ \E i \in 0..MaxSpeakers, b \in BOOLEAN : AskLatch(i, b)
      \/ UNCHANGED <<hint, ask>>
  BY DEF Next, vars, Observe, Trigger, ScheduleNow, ScheduleReset, ScheduleNew, GcLatches, Fire,
         Callback, SpawnLater, SpawnNow, ExtractStart, ExtractEnd, SayAppend, Lapse, Age, Analysis
<1> QED BY <1>1, <1>2, <1>4, <1>5, <1>6
-----------------------------------------------------------------------------
(* Timers.                                                                   *)

\* A dropped window takes no timer of another window with it.
LEMMA DropStep ==
  ASSUME TimerTypes, TimersOwned, NEW gone, gone \subseteq Speakers,
         handle' = Unhandled(gone), orphan' = Orphaned(gone),
         UNCHANGED <<armed, calls, owner, pending>>
  PROVE  TimerTypes' /\ TimersOwned' /\ \A s \in Speakers : Outstanding(s) => Outstanding(s)'
<1>1. \A s \in Speakers : handle'[s] = IF s \in gone THEN NoTimer ELSE handle[s] BY DEF Unhandled
<1>2. handle' \in [Speakers -> Timers \union {NoTimer}] BY DEF Unhandled, TimerTypes
<1>3. TimerTypes' BY <1>2 DEF TimerTypes
<1>4. ASSUME NEW s \in Speakers, handle'[s] # NoTimer
      PROVE  owner[handle'[s]] = s /\ handle'[s] \notin orphan'
  BY <1>1, <1>4 DEF TimersOwned, Orphaned
<1>5. TimersOwned' BY <1>4 DEF TimersOwned, Orphaned
<1>6. \A s \in Speakers : Outstanding(s) => Outstanding(s)' BY DEF Outstanding
<1> QED BY <1>3, <1>5, <1>6

\* What is left of the lines when some leave their windows.
LEMMA Survivors ==
  ASSUME LinesHeld, NEW kept
  PROVE  /\ Surviving(kept) \in [Speakers -> LineStates]
         /\ \A s \in Speakers : Surviving(kept)[s] = "due" <=> s \in Due /\ s \in kept
BY DEF Surviving, LinesHeld, LineStates, Due

\* How each step changes the lines: the lines of some windows survive, or a new one is
\* due, with the limbic loop about to arm its timer; or an extraction decides one.
LEMMA LineStep ==
  ASSUME WindowsNest, WindowsCapped, PartnersKnown, LinesHeld, [Next]_vars
  PROVE  /\ LinesHeld'
         /\ \A s \in Due' \ Due : obs.at # "arm" /\ obs'.at = "arm" /\ obs'.who = s
         /\ \A s \in Speakers, h \in BOOLEAN :
              SpawnLater(s, h) \/ (SpawnNow(h) /\ s = obs.who) => s \notin Due'
<1> DEFINE Goal == LinesHeld' /\ \A s \in Due' \ Due : obs.at # "arm" /\ obs'.at = "arm" /\ obs'.who = s
<1>1. ASSUME NEW s \in Speakers, NEW c \in BOOLEAN, NEW h \in BOOLEAN, Observe(s, c, h) PROVE Goal
  <2> DEFINE left == spoken \ ((open \ Roomed(s)) \union (aged \cap {s}))
             live == s \in latched /\ s \notin lapsed /\ ~c
  <2>1. /\ line' = IF live THEN [Surviving(left) EXCEPT ![s] = "due"] ELSE Surviving(left)
        /\ live => obs'.at = "arm" /\ obs'.who = s
        /\ obs.at = "idle"
    BY <1>1 DEF Observe
  <2>2. left \subseteq spoken'
    BY <1>1 DEF Observe
  <2>3. live => s \in spoken'
    BY <1>1, RoomMade DEF Observe, WindowsNest
  <2>4. line' \in [Speakers -> LineStates] BY <2>1, Survivors DEF LineStates
  <2>5. \A k \in Speakers : line'[k] = "due" => (k \in Due /\ k \in left) \/ (live /\ k = s)
    BY <2>1, Survivors
  <2> QED BY <2>1, <2>2, <2>3, <2>4, <2>5 DEF LinesHeld, Due
<1>2. ASSUME Trigger PROVE Goal
  <2> DEFINE left == spoken \ (open \ Roomed(obs.who))
             arms == Latches(obs.who) /\ ~obs.courtesy
  <2>1. /\ line' = [Surviving(left) EXCEPT ![obs.who] =
                      IF ~arms THEN @ ELSE IF obs.who \in left THEN "due" ELSE "lost"]
        /\ arms => obs'.at = "arm" /\ obs'.who = obs.who
        /\ obs.at = "trigger" /\ obs.who \in Speakers
    BY <1>2 DEF Trigger, PartnersKnown
  <2>2. left = spoken' BY <1>2 DEF Trigger, TryLatch
  <2>3. line' \in [Speakers -> LineStates] BY <2>1, Survivors DEF LineStates
  <2>4. \A k \in Speakers : line'[k] = "due" => (k \in Due \/ (arms /\ k = obs.who)) /\ k \in left
    BY <2>1, Survivors
  <2> HIDE DEF left, arms
  <2>5. \A k \in Due' \ Due : obs.at # "arm" /\ obs'.at = "arm" /\ obs'.who = k
    BY <2>1, <2>4 DEF Due
  <2>6. Due' \subseteq spoken' BY <2>2, <2>4 DEF Due
  <2> QED BY <2>3, <2>5, <2>6 DEF LinesHeld
<1>k. ASSUME NEW left, line' = Surviving(left), left \subseteq spoken' PROVE Goal
  BY <1>k, Survivors DEF LinesHeld, Due
<1>3. ASSUME NEW i, NEW b, AskLatch(i, b) PROVE Goal
  <2>1. line' = Surviving(spoken \ (open \ Roomed(ask.to))) /\ spoken' = spoken \ (open \ Roomed(ask.to))
    BY <1>3 DEF AskLatch, TryLatch
  <2> QED BY <1>k, <2>1
<1>4. ASSUME GcLatches PROVE Goal
  <2>1. line' = Surviving(spoken \ aged) /\ spoken' = spoken \ aged BY <1>4 DEF GcLatches
  <2> QED BY <1>k, <2>1
<1>5. ASSUME NEW k, SelfLine(k) PROVE Goal
  <2>1. PICK to : line' = Surviving(spoken \ (aged \cap to)) /\ spoken' = spoken \union to
    BY <1>5 DEF SelfLine
  <2>2. spoken \ (aged \cap to) \subseteq spoken' BY <2>1
  <2> QED BY <1>k, <2>1, <2>2
<1>6. ASSUME NEW s \in Speakers, NEW h, SpawnExtract(s, h), spoken' = spoken
      PROVE  Goal /\ s \notin Due'
  <2>1. /\ line' \in [Speakers -> LineStates]
        /\ line'[s] # "due" /\ \A k \in Speakers : line'[k] = "due" => line[k] = "due"
    BY <1>6 DEF SpawnExtract, LinesHeld, LineStates
  <2> QED BY <1>6, <2>1 DEF LinesHeld, Due
<1>7. ASSUME NEW s \in Speakers, NEW h, SpawnLater(s, h) PROVE Goal /\ s \notin Due'
  BY <1>6, <1>7 DEF SpawnLater, winVars
<1>8. ASSUME NEW h, SpawnNow(h) PROVE Goal /\ obs.who \notin Due'
  <2>1. obs.who \in Speakers BY <1>8 DEF SpawnNow, PartnersKnown
  <2> QED BY <1>6, <1>8, <2>1 DEF SpawnNow, winVars
<1>9. ASSUME UNCHANGED <<line, spoken>> PROVE Goal BY <1>9 DEF LinesHeld, Due
<1>10. \/ \E s \in Speakers, c, h \in BOOLEAN : Observe(s, c, h)
       \/ Trigger \/ \E i \in 0..MaxSpeakers, b \in BOOLEAN : AskLatch(i, b)
       \/ GcLatches \/ \E k : SelfLine(k)
       \/ \E s \in Speakers, h \in BOOLEAN : SpawnLater(s, h)
       \/ \E h \in BOOLEAN : SpawnNow(h)
       \/ UNCHANGED <<line, spoken>>
  BY DEF Next, vars, winVars, ScheduleNow, ScheduleReset, ScheduleNew, Fire, Callback, ExtractStart,
         ExtractEnd, AskCompose, AskSilent, Reply, Direct, SendOk, SendFail, AskAppend, SayTake,
         SayAppend, Lapse, Age, Analysis
<1>11. Goal BY <1>1, <1>2, <1>3, <1>4, <1>5, <1>7, <1>8, <1>9, <1>10
<1> QED BY <1>7, <1>8, <1>11

\* Every step keeps the timers owned and every substantive line on its way to an
\* extraction.
LEMMA TimerStep ==
  ASSUME WindowsNest, WindowsCapped, PartnersKnown, LinesHeld, TimerTypes, TimersOwned,
         LineNotForgotten, [Next]_vars
  PROVE  TimerTypes' /\ TimersOwned' /\ LineNotForgotten'
<1> DEFINE Goal == TimerTypes' /\ TimersOwned' /\ LineNotForgotten'
<1>d. Due \subseteq Speakers /\ Due' \subseteq Speakers BY DEF Due
<1>o. \A s : open \ s \subseteq Speakers BY DEF WindowsNest
<1>n. NoOne \notin Speakers /\ NoTimer \notin Timers BY ReactiveAssumption
<1>k. ASSUME \A s \in Due' : Outstanding(s) => Outstanding(s)', obs.at # "arm" \/ obs' = obs
      PROVE  LineNotForgotten'
  <2>1. \A s \in Due' \ Due : obs.at # "arm" /\ obs'.at = "arm" /\ obs'.who = s BY LineStep
  <2> QED BY <1>k, <2>1 DEF LineNotForgotten
<1>1. ASSUME NEW s \in Speakers, NEW c \in BOOLEAN, NEW h \in BOOLEAN, Observe(s, c, h) PROVE Goal
  <2>1. /\ handle' = Unhandled(open \ Roomed(s)) /\ orphan' = Orphaned(open \ Roomed(s))
        /\ UNCHANGED <<armed, calls, owner, pending>> /\ obs.at = "idle"
    BY <1>1 DEF Observe
  <2>2. TimerTypes' /\ TimersOwned' /\ \A k \in Speakers : Outstanding(k) => Outstanding(k)'
    BY <1>o, <2>1, DropStep
  <2>3. LineNotForgotten' BY <1>d, <1>k, <2>1, <2>2
  <2> QED BY <2>2, <2>3
<1>2. CASE Trigger
  <2>1. /\ handle' = Unhandled(open \ Roomed(obs.who)) /\ orphan' = Orphaned(open \ Roomed(obs.who))
        /\ UNCHANGED <<armed, calls, owner, pending>> /\ obs.at = "trigger" /\ obs.who \in Speakers
    BY <1>2 DEF Trigger, TryLatch, PartnersKnown
  <2>2. TimerTypes' /\ TimersOwned' /\ \A k \in Speakers : Outstanding(k) => Outstanding(k)'
    BY <1>o, <2>1, DropStep
  <2>3. LineNotForgotten' BY <1>d, <1>k, <2>1, <2>2
  <2> QED BY <2>2, <2>3
<1>3. ASSUME NEW i, NEW b, AskLatch(i, b) PROVE Goal
  <2>1. /\ handle' = Unhandled(open \ Roomed(ask.to)) /\ orphan' = Orphaned(open \ Roomed(ask.to))
        /\ UNCHANGED <<armed, calls, owner, pending, obs>>
    BY <1>3 DEF AskLatch, TryLatch
  <2>2. TimerTypes' /\ TimersOwned' /\ \A k \in Speakers : Outstanding(k) => Outstanding(k)'
    BY <1>o, <2>1, DropStep
  <2> QED BY <1>d, <1>k, <2>1, <2>2
<1>4. CASE GcLatches
  <2> DEFINE gone == open \ ((latched \ lapsed) \union (spoken \ aged))
  <2>1. /\ handle' = Unhandled(gone) /\ orphan' = Orphaned(gone)
        /\ UNCHANGED <<armed, calls, owner, pending, obs>>
    BY <1>4 DEF GcLatches
  <2>2. TimerTypes' /\ TimersOwned' /\ \A k \in Speakers : Outstanding(k) => Outstanding(k)'
    BY <1>o, <2>1, DropStep
  <2> QED BY <1>d, <1>k, <2>1, <2>2
<1>5. CASE ScheduleNow
  <2>1. UNCHANGED timerVars /\ pending' = pending /\ line' = line /\ obs.who \notin Due
    BY <1>5 DEF ScheduleNow, WindowsNest, LinesHeld
  <2>2. TimerTypes' /\ TimersOwned' BY <2>1 DEF TimerTypes, TimersOwned, timerVars
  <2>3. LineNotForgotten' BY <2>1 DEF LineNotForgotten, Due, Outstanding, timerVars
  <2> QED BY <2>2, <2>3
<1>6. CASE ScheduleReset
  <2>1. /\ obs.at = "arm" /\ obs.who \in Speakers /\ handle[obs.who] # NoTimer
        /\ armed' = armed \union {handle[obs.who]} /\ UNCHANGED <<handle, calls, owner, orphan, pending, line>>
    BY <1>6 DEF ScheduleReset, PartnersKnown
  <2>2. handle[obs.who] \in Timers /\ owner[handle[obs.who]] = obs.who
    BY <2>1 DEF TimerTypes, TimersOwned
  <2>3. TimerTypes' /\ TimersOwned' BY <2>1, <2>2 DEF TimerTypes, TimersOwned
  <2>4. LineNotForgotten' BY <2>1, <2>2 DEF LineNotForgotten, Due, Outstanding
  <2> QED BY <2>3, <2>4
<1>7. ASSUME NEW t \in Timers, ScheduleNew(t) PROVE Goal
  <2>1. /\ obs.at = "arm" /\ obs.who \in Speakers /\ owner[t] = NoOne
        /\ handle' = [handle EXCEPT ![obs.who] = t] /\ owner' = [owner EXCEPT ![t] = obs.who]
        /\ armed' = armed \union {t} /\ UNCHANGED <<calls, orphan, pending, line>>
    BY <1>7 DEF ScheduleNew, PartnersKnown
  <2>2. TimerTypes' BY <2>1 DEF TimerTypes, Keys
  <2>3. TimersOwned'
    <3>1. t \notin orphan /\ \A k \in Speakers : handle[k] # t BY <1>n, <2>1 DEF TimersOwned
    <3>2. \A k \in Speakers \ {obs.who} : handle'[k] = handle[k] BY <2>1 DEF TimerTypes
    <3>3. handle'[obs.who] = t /\ owner'[t] = obs.who BY <2>1 DEF TimerTypes
    <3>4. \A u \in Timers \ {t} : owner'[u] = owner[u] BY <2>1 DEF TimerTypes
    <3>5. ASSUME NEW k \in Speakers, handle'[k] # NoTimer
          PROVE  owner'[handle'[k]] = k /\ handle'[k] \notin orphan'
      BY <2>1, <3>1, <3>2, <3>3, <3>4, <3>5 DEF TimersOwned, TimerTypes
    <3>6. \A u \in Timers : u \in armed' \/ calls'[u] > 0 \/ u \in orphan' => owner'[u] \in Speakers
      BY <2>1, <3>3, <3>4 DEF TimersOwned
    <3> QED BY <3>5, <3>6 DEF TimersOwned
  <2>4. LineNotForgotten'
    <3>1. owner'[t] = obs.who /\ t \in armed' BY <2>1 DEF TimerTypes
    <3>2. \A u \in Timers \ {t} : owner'[u] = owner[u] BY <2>1 DEF TimerTypes
    <3>3. \A k \in Speakers : Outstanding(k) => Outstanding(k)'
      BY <1>n, <2>1, <3>2 DEF Outstanding
    <3>4. PICK who \in Speakers : who = obs.who BY <2>1
    <3>5. Outstanding(who)' BY <2>1, <3>1, <3>4 DEF Outstanding
    <3> QED BY <1>d, <2>1, <3>3, <3>4, <3>5 DEF LineNotForgotten, Due
  <2> QED BY <2>2, <2>3, <2>4
<1>8. ASSUME NEW t \in Timers, Fire(t) PROVE Goal
  <2>1. /\ t \in armed /\ armed' = armed \ {t} /\ calls' = [calls EXCEPT ![t] = @ + 1]
        /\ UNCHANGED <<handle, owner, orphan, pending, obs>>
    BY <1>8 DEF Fire
  <2>2. calls'[t] > 0 /\ \A u \in Timers \ {t} : calls'[u] = calls[u] BY <2>1 DEF TimerTypes
  <2>3. TimerTypes' BY <2>1 DEF TimerTypes
  <2>4. TimersOwned' BY <2>1, <2>2 DEF TimersOwned
  <2>5. \A k \in Speakers : Outstanding(k) => Outstanding(k)' BY <2>1, <2>2 DEF Outstanding
  <2> QED BY <1>d, <1>k, <2>1, <2>3, <2>4, <2>5
<1>9. ASSUME NEW t \in Timers, Callback(t) PROVE Goal
  <2> DEFINE s == owner[t]
  <2>1. /\ calls[t] > 0 /\ calls' = [calls EXCEPT ![t] = @ - 1]
        /\ handle' = IF t \in orphan THEN handle ELSE [handle EXCEPT ![s] = NoTimer]
        /\ pending' = [pending EXCEPT ![s] = @ + 1]
        /\ UNCHANGED <<armed, obs>>
    BY <1>9 DEF Callback
  <2>2. \/ calls[t] = 1 /\ t \notin armed /\ owner' = [owner EXCEPT ![t] = NoOne] /\ orphan' = orphan \ {t}
        \/ (calls[t] # 1 \/ t \in armed) /\ owner' = owner /\ orphan' = orphan
    BY <1>9 DEF Callback
  <2>3. s \in Speakers BY <2>1 DEF TimersOwned
  <2>4. /\ \A u \in Timers \ {t} : owner'[u] = owner[u] /\ calls'[u] = calls[u]
        /\ pending'[s] > 0 /\ \A k \in Speakers \ {s} : pending'[k] = pending[k]
    BY <2>1, <2>2, <2>3 DEF TimerTypes
  <2>5. \A k \in Speakers : handle'[k] # NoTimer => handle'[k] = handle[k] /\ handle[k] # t
    BY <2>1, <2>3 DEF TimerTypes, TimersOwned
  <2>6. TimerTypes' BY <2>1, <2>2, <2>3 DEF TimerTypes, Keys
  <2>7. orphan' \subseteq orphan BY <2>2
  <2>8. owner'[t] \in Speakers \/ (t \notin armed' /\ calls'[t] = 0 /\ t \notin orphan')
    BY <2>1, <2>2, <2>3 DEF TimerTypes
  <2>9. TimersOwned'
    <3>1. ASSUME NEW k \in Speakers, handle'[k] # NoTimer
          PROVE  owner'[handle'[k]] = k /\ handle'[k] \notin orphan'
      BY <2>4, <2>5, <2>7, <3>1 DEF TimersOwned, TimerTypes
    <3>2. ASSUME NEW u \in Timers, u \in armed' \/ calls'[u] > 0 \/ u \in orphan'
          PROVE  owner'[u] \in Speakers
      BY <2>1, <2>4, <2>7, <2>8, <3>2 DEF TimersOwned
    <3> QED BY <3>1, <3>2 DEF TimersOwned
  <2>10. \A k \in Speakers : Outstanding(k) => Outstanding(k)'
    BY <2>1, <2>3, <2>4 DEF Outstanding
  <2> QED BY <1>d, <1>k, <2>1, <2>6, <2>9, <2>10
<1>10. ASSUME NEW s \in Speakers, NEW h \in BOOLEAN, SpawnLater(s, h) PROVE Goal
  <2>1. /\ UNCHANGED timerVars /\ obs' = obs
        /\ pending[s] > 0 /\ pending' = [pending EXCEPT ![s] = @ - 1]
    BY <1>10 DEF SpawnLater
  <2>2. TimerTypes' BY <2>1 DEF TimerTypes, timerVars
  <2>3. TimersOwned' BY <2>1 DEF TimersOwned, timerVars
  <2>4. s \notin Due' BY <1>10, LineStep
  <2>5. \A k \in Due' : Outstanding(k) => Outstanding(k)'
    BY <1>d, <2>1, <2>4 DEF Outstanding, timerVars, TimerTypes
  <2> QED BY <1>k, <2>1, <2>2, <2>3, <2>5
<1>11. ASSUME UNCHANGED <<timerVars, pending>>, obs.at # "arm" \/ obs' = obs PROVE Goal
  <2>1. TimerTypes' /\ TimersOwned' BY <1>11 DEF TimerTypes, TimersOwned, timerVars
  <2>2. \A s \in Due' : Outstanding(s) => Outstanding(s)' BY <1>11 DEF Outstanding, timerVars
  <2> QED BY <1>11, <1>k, <2>1, <2>2
<1>12. \/ \E s \in Speakers, c, h \in BOOLEAN : Observe(s, c, h)
       \/ Trigger \/ ScheduleNow \/ ScheduleReset \/ \E t \in Timers : ScheduleNew(t)
       \/ GcLatches \/ \E i \in 0..MaxSpeakers, b \in BOOLEAN : AskLatch(i, b)
       \/ \E t \in Timers : Fire(t) \/ Callback(t)
       \/ \E s \in Speakers, h \in BOOLEAN : SpawnLater(s, h)
       \/ UNCHANGED <<timerVars, pending>> /\ (obs.at # "arm" \/ obs' = obs)
  BY DEF Next, vars, SpawnNow, ExtractStart, ExtractEnd, AskCompose, AskSilent, Reply, Direct, SendOk,
         SendFail, AskAppend, SayTake, SayAppend, Lapse, Age, Analysis
<1> QED BY <1>1, <1>2, <1>3, <1>4, <1>5, <1>6, <1>7, <1>8, <1>9, <1>10, <1>11, <1>12
-----------------------------------------------------------------------------
(* The theorems.                                                             *)

LEMMA InitInv == Init => IInv
<1> SUFFICES ASSUME Init PROVE IInv OBVIOUS
<1> USE ReactiveAssumption DEF Init
<1>1. WindowsNest BY DEF WindowsNest
<1>2. PartnersKnown BY DEF PartnersKnown, Keys
<1>3. LatchesCounted /\ WindowsCapped BY FS_EmptySet DEF LatchesCounted, WindowsCapped
<1>4. SlotTypes /\ SlotsHeld BY DEF SlotTypes, SlotsHeld
<1>5. TimerTypes BY DEF TimerTypes, Keys
<1>6. TimersOwned BY DEF TimersOwned
<1>7. LinesHeld /\ LineNotForgotten /\ HintNotStale
  BY DEF LinesHeld, Due, LineStates, LineNotForgotten, HintNotStale
<1> QED BY <1>1, <1>2, <1>3, <1>4, <1>5, <1>6, <1>7 DEF IInv

LEMMA StepInv == IInv /\ [Next]_vars => IInv'
<1> SUFFICES ASSUME IInv, [Next]_vars PROVE IInv' OBVIOUS
<1>1. WindowsNest' /\ WindowsCapped' /\ PartnersKnown' BY WindowStep DEF IInv
<1>2. LatchesCounted' BY LatchStep DEF IInv
<1>3. SlotTypes' /\ SlotsHeld' BY SlotStep DEF IInv
<1>4. HintNotStale' BY HintStep DEF IInv
<1>5. LinesHeld' BY LineStep DEF IInv
<1>6. TimerTypes' /\ TimersOwned' /\ LineNotForgotten' BY TimerStep DEF IInv
<1> QED BY <1>1, <1>2, <1>3, <1>4, <1>5, <1>6 DEF IInv

\* The inductive invariant holds in every reachable state.
THEOREM Invariance == Spec => []IInv
BY InitInv, StepInv, PTL DEF Spec

\* The latch count, the window map and the extraction slots are exact and within their
\* caps, and a full map has a window to evict, because fewer windows can be latched
\* than there are windows.
THEOREM BooksAreBalanced == Spec => []BooksBalance
<1>1. ASSUME IInv PROVE BooksBalance
  <2>1. ASSUME Cardinality(open) = MaxSpeakers PROVE open \ latched # {}
    <3>1. SUFFICES ASSUME open \ latched = {} PROVE FALSE OBVIOUS
    <3>2. open = latched BY <1>1, <3>1 DEF IInv, WindowsNest
    <3>3. MaxSpeakers <= MaxLatches BY <1>1, <2>1, <3>2 DEF IInv, LatchesCounted
    <3> QED BY <3>3, ReactiveAssumption
  <2> QED BY <1>1, <2>1 DEF IInv, BooksBalance, RoomForNewSpeaker, WindowsCapped
<1> QED BY <1>1, Invariance, PTL

\* A substantive line of an engaged speaker always has a timer, a callback or the limbic
\* loop on its way to spawnExtract, until an extraction takes the window, is dropped, or
\* the line has left the window unread.
THEOREM LinesAreKept == Spec => []LineNotForgotten
<1>1. IInv => LineNotForgotten BY DEF IInv
<1> QED BY <1>1, Invariance, PTL

\* The routing hint exists only between arming it and sending the line it is for.
THEOREM HintIsFresh == Spec => []HintNotStale
<1>1. IInv => HintNotStale BY DEF IInv
<1> QED BY <1>1, Invariance, PTL

\* No step but a failed question to that speaker takes the window or the live latch of a
\* conversation.
THEOREM EngagedStay == Spec => EngagedKept
<1>1. ASSUME IInv, [Next]_vars, NEW s \in latched \ lapsed
      PROVE  s \in latched' \cap open' \/ (SendFail /\ ask.to = s)
  <2>0. s \in open BY <1>1 DEF IInv, WindowsNest
  <2>r. ASSUME NEW k \in Speakers PROVE s \in Roomed(k)
    BY <1>1, RoomMade DEF IInv
  <2>1. ASSUME NEW k \in Speakers, NEW c \in BOOLEAN, NEW h \in BOOLEAN, Observe(k, c, h)
        PROVE  s \in latched' \cap open'
    BY <1>1, <2>1, <2>r DEF Observe
  <2>2. ASSUME NEW k \in Speakers, NEW i, NEW b, TryLatch(k, i, b) PROVE s \in latched' \cap open'
    BY <1>1, <2>2, <2>r DEF TryLatch
  <2>3. CASE Trigger BY <1>1, <2>2, <2>3 DEF Trigger, IInv, PartnersKnown
  <2>4. ASSUME NEW i, NEW b, AskLatch(i, b) PROVE s \in latched' \cap open'
    BY <1>1, <2>2, <2>4 DEF AskLatch, IInv, PartnersKnown
  <2>5. CASE GcLatches BY <1>1, <2>0, <2>5 DEF GcLatches
  <2>6. CASE SendFail BY <1>1, <2>0, <2>6 DEF SendFail, winVars
  <2>7. CASE UNCHANGED <<open, latched>> BY <1>1, <2>0, <2>7
  <2>8. \/ \E k \in Speakers, c, h \in BOOLEAN : Observe(k, c, h)
        \/ Trigger \/ \E i \in 0..MaxSpeakers, b \in BOOLEAN : AskLatch(i, b)
        \/ GcLatches \/ SendFail \/ UNCHANGED <<open, latched>>
    BY <1>1 DEF Next, vars, winVars, latchVars, ScheduleNow, ScheduleReset, ScheduleNew, Fire,
                Callback, SpawnLater, SpawnNow, ExtractStart, ExtractEnd, AskCompose, AskSilent,
                Reply, Direct, SendOk, AskAppend, SelfLine, SayTake, SayAppend, Lapse, Age, Analysis
  <2> QED BY <2>1, <2>3, <2>4, <2>5, <2>6, <2>7, <2>8
<1>2. IInv /\ [Next]_vars =>
        [\A s \in latched \ lapsed :
           s \in latched' \cap open' \/ (SendFail /\ ask.to = s)]_vars
  BY <1>1
<1> QED BY <1>2, Invariance, PTL DEF Spec, EngagedKept
=============================================================================
