------------------------- MODULE DistillationProofs -------------------------
(***************************************************************************)
(* Proofs about Distillation, for any lines, models, jobs, bounds and      *)
(* faults: what the two cursors pass.                                      *)
(***************************************************************************)
EXTENDS Distillation, FiniteSetTheorems, WellFoundedInduction, TLAPS

-----------------------------------------------------------------------------
(* The inductive invariant.                                                    *)

Ledgers == [beliefs : SUBSET Distilled, lowered : [Lines -> Nat],
            sentiment : SUBSET Sentimental, reconciled : SUBSET Flagged]
Cursors == [last : Seconds, fails : 0 .. MaxFail]
DrainCursors == [last : Seconds, fails : Nat, done : SUBSET Items]
Selections == [picked : SUBSET Flagged, disposed : SUBSET Items, target : Seconds]

\* What a job carries in each of its phases.
JobTyped(J) ==
  /\ J.at \in {"idle", "extract", "sync", "record", "append", "save", "ask", "graph", "advance"}
  /\ J.at = "idle" => J = Idle
  /\ J.at # "idle" => J.maxAt \in Seconds
  /\ J.at = "extract" => J.cur \in Cursors /\ J.cur.fails < MaxFail /\ J.cur.last < J.maxAt
  /\ J.at \in {"extract", "sync"} => J.batch \subseteq Lines /\ IsFiniteSet(J.batch)
  /\ J.at \in {"sync", "ask"} => J.led \in Ledgers
  /\ J.at = "record" => J.flagged \subseteq Flagged /\ IsFiniteSet(J.flagged)
  /\ J.at = "append" => J.read \in Seq(Items) /\ J.items \in Seq(Items)
  /\ J.at \in {"ask", "graph", "advance"} => J.cur \in DrainCursors /\ J.cur.last <= J.maxAt
  /\ J.at \in {"ask", "graph"} => J.sel \in Selections /\ J.sel.target <= J.maxAt
  /\ J.at = "ask" => J.seen \subseteq Items

Typed ==
  /\ TypeOK /\ IsFiniteSet(Stored) /\ cursor.fails < MaxFail /\ job = [j \in Jobs |-> job[j]]
  /\ \A j \in Jobs : JobTyped(job[j])

\* The lines that need no more reading.
Held == row.beliefs \union missed \union gaveUp

\* Every line up to second s is held, or in the batch: stamps and held stand for at and
\* Held, now or after a step.
ClearTo(stamps, held, s, batch) ==
  \A l \in Distilled : stamps[l] # 0 /\ stamps[l] <= s => l \in held \union batch

\* A consolidation job may move the cursor as far as its batch once that is folded, and
\* back to where the cursor was when it began.
LinesOf(J, stamps, held) ==
  /\ J.at = "extract" => ClearTo(stamps, held, J.cur.last, {})
  /\ J.at \in {"extract", "sync"} => ClearTo(stamps, held, J.maxAt, J.batch)
  /\ J.at \in {"record", "append", "save"} => ClearTo(stamps, held, J.maxAt, {})

LinesKept ==
  /\ ClearTo(at, Held, cursor.last, {})
  /\ \A j \in Jobs : LinesOf(job[j], at, Held)

\* A flagged claim needs no more asking: low and skipped stand for row.lowered and passed.
Settled(it, low, skipped) == it.claim \notin Admitted \/ low[it.claim] > 0 \/ it \in skipped

\* With the cursor cur no item of the queue is lost, nor an item that cur remembers as done,
\* if the claims asked about are applied.
Passable(cur, asked, items, low, skipped) ==
  /\ \A it \in items : AlreadyProcessed(cur, it) => Settled(it, low, skipped) \/ it.claim \in asked
  /\ \A it \in cur.done : Settled(it, low, skipped) \/ it.claim \in asked

\* An insight job may move the cursor past its selection once that is applied, past all it
\* has seen when it gives up, and back to where the cursor was when it began.
ClaimsOf(J, items, low, skipped) ==
  /\ J.at \in {"ask", "graph", "advance"} => Passable(J.cur, {}, items, low, skipped)
  /\ J.at = "ask" =>
       /\ Passable(AdvanceCursor(J.cur, J.sel.target, J.sel.disposed), J.sel.picked,
                   items, low, skipped)
       /\ \A it \in items : it.at < J.maxAt => it \in J.seen \/ Settled(it, low, skipped)
  /\ J.at = "graph" =>
       Passable(AdvanceCursor(J.cur, J.sel.target, J.sel.disposed), {}, items, low, skipped)

ClaimsKept ==
  /\ Passable(drain, {}, Range(queue), row.lowered, passed)
  /\ \A j \in Jobs : ClaimsOf(job[j], Range(queue), row.lowered, passed)

\* A claim that carries the tag has been lowered, in the rows and in every copy of them.
Marked(led) == \A l \in led.reconciled : led.lowered[l] > 0

TagsTrue ==
  Marked(row) /\ \A j \in Jobs : job[j].at \in {"sync", "ask"} => Marked(job[j].led)

IInv == Typed /\ LinesKept /\ ClaimsKept /\ TagsTrue

-----------------------------------------------------------------------------
(* The operators.                                                              *)

\* A non-empty set of numbers has a least one.
LEMMA Least ==
  ASSUME NEW S \in SUBSET Nat, S # {}
  PROVE  Min(S) \in S /\ \A x \in S : Min(S) <= x
<1>0. S \subseteq Nat
  OBVIOUS
<1>1. PICK m \in S : \A y \in S : ~(<<y, m>> \in OpToRel(<, Nat))
  BY WFMin, NatLessThanWellFounded, Zenon
<1>2. \A y \in S : ~(y < m)
  BY <1>0, <1>1 DEF OpToRel
<1>3. \A y \in S : m <= y
  <2> SUFFICES ASSUME NEW y \in S PROVE m <= y
    OBVIOUS
  <2>1. y \in Nat /\ m \in Nat /\ ~(y < m)
    BY <1>0, <1>2
  <2> QED BY <2>1
<1>4. \E z \in S : \A y \in S : z <= y
  BY <1>3
<1> QED BY <1>4 DEF Min

\* A bounded one has a greatest.
LEMMA Greatest ==
  ASSUME NEW N \in Nat, NEW S \in SUBSET (0 .. N), S # {}
  PROVE  Max(S) \in S /\ \A x \in S : x <= Max(S)
<1> DEFINE T == {x \in 0 .. N : N - x \in S}
<1>1. T \in SUBSET Nat /\ T # {}
  <2>1. PICK s \in S : TRUE
    OBVIOUS
  <2>2. N - s \in 0 .. N /\ N - (N - s) = s
    OBVIOUS
  <2>3. N - s \in T
    BY <2>2
  <2> QED BY <2>3
<1>2. Min(T) \in T /\ \A x \in T : Min(T) <= x
  <2> HIDE DEF T
  <2> QED BY <1>1, Least
<1>3. N - Min(T) \in S /\ Min(T) \in 0 .. N
  BY <1>2
<1>4. \A x \in S : x <= N - Min(T)
  <2> SUFFICES ASSUME NEW x \in S PROVE x <= N - Min(T)
    OBVIOUS
  <2>1. N - x \in 0 .. N /\ N - (N - x) = x
    OBVIOUS
  <2>2. N - x \in T
    BY <2>1
  <2>3. Min(T) <= N - x
    BY <2>2, <1>2
  <2> QED BY <2>3, <1>3
<1>5. \E m \in S : \A x \in S : m >= x
  <2> HIDE DEF T
  <2> QED BY <1>3, <1>4
<1> QED BY <1>5 DEF Max

\* The larger of two numbers.
LEMMA Larger ==
  ASSUME NEW a \in Nat, NEW b \in Nat
  PROVE  Max({a, b}) \in Nat /\ Max({a, b}) >= a /\ Max({a, b}) >= b
<1>1. \E m \in {a, b} : \A x \in {a, b} : m >= x
  OBVIOUS
<1> QED BY <1>1 DEF Max

\* What the assumption says of the bounds.
LEMMA Bounds ==
  /\ BatchSize \in Nat \ {0} /\ MaxQueue \in Nat \ {0} /\ MaxFail \in Nat \ {0}
  /\ MaxClock \in Nat \ {0} /\ MaxFaults \in Nat
  /\ Distilled \subseteq Lines /\ Flagged \subseteq Distilled /\ Admitted \subseteq Flagged
  /\ Flagged \subseteq Lines
  /\ Seconds \subseteq Nat /\ 0 \in Seconds
BY ConstantsAssumption DEF Seconds

\* A write of the rows loses no belief, lowers none less and keeps its tags true
\* (ltm.go:681-760).
LEMMA Synced ==
  ASSUME NEW old \in Ledgers, NEW led \in Ledgers
  PROVE  /\ SyncKnowledge(old, led) \in Ledgers
         /\ old.beliefs \union led.beliefs \subseteq SyncKnowledge(old, led).beliefs
         /\ \A l \in Lines : /\ SyncKnowledge(old, led).lowered[l] >= old.lowered[l]
                             /\ SyncKnowledge(old, led).lowered[l] >= led.lowered[l]
         /\ Marked(old) /\ Marked(led) => Marked(SyncKnowledge(old, led))
<1> DEFINE new == SyncKnowledge(old, led)
<1>1. \A l \in Lines : old.lowered[l] \in Nat /\ led.lowered[l] \in Nat
  BY DEF Ledgers
<1>2. \A l \in Lines : /\ Max({old.lowered[l], led.lowered[l]}) \in Nat
                       /\ Max({old.lowered[l], led.lowered[l]}) >= old.lowered[l]
                       /\ Max({old.lowered[l], led.lowered[l]}) >= led.lowered[l]
  BY <1>1, Larger
<1>3. new.lowered = [l \in Lines |-> Max({old.lowered[l], led.lowered[l]})]
  BY DEF SyncKnowledge
<1>4. new \in Ledgers /\ old.beliefs \union led.beliefs \subseteq new.beliefs
  BY <1>2, <1>3 DEF SyncKnowledge, Ledgers
<1>5. \A l \in Lines : new.lowered[l] \in Nat /\ new.lowered[l] >= old.lowered[l]
                         /\ new.lowered[l] >= led.lowered[l]
  BY <1>2, <1>3
<1>6. new.reconciled \subseteq old.reconciled \union led.reconciled
  BY DEF SyncKnowledge
<1>7. old.reconciled \union led.reconciled \subseteq Lines
  BY Bounds DEF Ledgers
<1>8. ASSUME Marked(old), Marked(led) PROVE Marked(new)
  BY <1>1, <1>5, <1>6, <1>7, <1>8 DEF Marked
<1> QED BY <1>4, <1>5, <1>8

\* The elements of a queue, of two queues in a row and of a trimmed one.
LEMMA Elements ==
  ASSUME NEW q \in Seq(Items)
  PROVE  /\ Range(q) \subseteq Items
         /\ \A i \in DOMAIN q : q[i] \in Items /\ q[i] \in Range(q) /\ q[i].at \in Seconds
         /\ q # <<>> => Range(q) # {}
<1>1. \A i \in DOMAIN q : q[i] \in Items
  OBVIOUS
<1>2. q # <<>> => 1 \in DOMAIN q
  OBVIOUS
<1> QED BY <1>1, <1>2 DEF Range, Items

\* The bound drops the oldest items and keeps the rest as they are (cron.go:415-419).
LEMMA Trims ==
  ASSUME NEW q \in Seq(Items)
  PROVE  /\ Trimmed(q) \in Seq(Items) /\ Len(Trimmed(q)) <= MaxQueue
         /\ Range(Trimmed(q)) \subseteq Range(q)
<1> DEFINE m == Min({MaxQueue, Len(q)})
<1>1. m \in {MaxQueue, Len(q)} /\ m <= MaxQueue /\ m <= Len(q)
  BY Bounds, Least
<1>2. m \in 0 .. Len(q) /\ m <= MaxQueue
  BY <1>1, Bounds
<1> HIDE DEF m
<1>3. CASE m = 0
  <2>1. Trimmed(q) = <<>>
    BY <1>3 DEF Trimmed, m
  <2> QED BY <2>1, Bounds DEF Range
<1>4. CASE m # 0
  <2>1. Len(q) - m + 1 \in 1 .. Len(q)
    BY <1>2, <1>4
  <2>2. Trimmed(q) = SubSeq(q, Len(q) - m + 1, Len(q))
    BY DEF Trimmed, m
  <2>3. Trimmed(q) \in Seq(Items) /\ Len(Trimmed(q)) = m
    BY <1>2, <2>1, <2>2
  <2>4. \A i \in 1 .. m : Trimmed(q)[i] = q[Len(q) - m + i] /\ Len(q) - m + i \in 1 .. Len(q)
    BY <1>2, <2>1, <2>2
  <2> QED BY <1>2, <2>3, <2>4 DEF Range
<1> QED BY <1>3, <1>4

\* Two queues in a row.
LEMMA Joins ==
  ASSUME NEW q \in Seq(Items), NEW r \in Seq(Items)
  PROVE  q \o r \in Seq(Items) /\ Range(q \o r) \subseteq Range(q) \union Range(r)
BY DEF Range

\* The flagged claims of a batch, stamped, are a queue (cron.go:406-413).
LEMMA Stamps ==
  ASSUME NEW F \in SUBSET Flagged, IsFiniteSet(F), NEW s \in SetToSeqs(F), NEW t \in Seconds
  PROVE  [i \in DOMAIN s |-> [claim |-> s[i], at |-> t]] \in Seq(Items)
<1>1. Cardinality(F) \in Nat
  BY FS_CardinalityType
<1>2. s \in [1 .. Cardinality(F) -> F]
  BY DEF SetToSeqs
<1>3. DOMAIN s = 1 .. Cardinality(F) /\ \A i \in DOMAIN s : s[i] \in Flagged
  BY <1>2
<1>4. \A i \in DOMAIN s : [claim |-> s[i], at |-> t] \in Items
  BY <1>3 DEF Items
<1> DEFINE n == Cardinality(F)
           r == [i \in 1 .. n |-> [claim |-> s[i], at |-> t]]
<1>5. r \in [1 .. n -> Items]
  BY <1>3, <1>4
<1>6. n \in Nat
  BY <1>1
<1>7. r = [i \in DOMAIN s |-> [claim |-> s[i], at |-> t]]
  BY <1>3
<1> HIDE DEF n, r
<1>8. r \in Seq(Items)
  BY <1>5, <1>6
<1> QED BY <1>7, <1>8

\* The stored lines past second s, and the last second of a batch.
Fresh(s) == {l \in Stored : at[l] > s}
Top(b) == Max({at[l] : l \in b})

\* A batch of fresh lines is not empty, and it reaches a second up to which it leaves out
\* only lines of that second (ltm.go:614-639).
LEMMA Batch ==
  ASSUME at \in [Lines -> Seconds], IsFiniteSet(Stored), NEW s \in Seconds,
         Fresh(s) # {}, NEW b \in Batches(Fresh(s))
  PROVE  /\ b \subseteq Fresh(s) /\ b \subseteq Lines /\ IsFiniteSet(b)
         /\ Top(b) \in Seconds /\ Top(b) > s
         /\ \A l \in Fresh(s) : at[l] <= Top(b) => l \in b \/ at[l] = Top(b)
<1> DEFINE fresh == Fresh(s)  S == {at[l] : l \in b}  top == Max(S)
<1>1. b \subseteq fresh /\ fresh \subseteq Stored /\ fresh \subseteq Lines
  BY DEF Batches, Fresh, Stored
<1>2. IsFiniteSet(fresh) /\ IsFiniteSet(b)
  BY <1>1, FS_Subset
<1>3. Cardinality(fresh) \in Nat \ {0}
  BY <1>2, FS_CardinalityType, FS_EmptySet
<1>4. Min({BatchSize, Cardinality(fresh)}) # 0
  BY <1>3, Bounds, Least
<1>5. b # {}
  BY <1>2, <1>4, FS_EmptySet DEF Batches
<1>6. S \in SUBSET (0 .. MaxClock) /\ S # {}
  BY <1>1, <1>5 DEF Seconds
<1>7. top \in S /\ \A x \in S : x <= top
  <2> HIDE DEF S
  <2> QED BY <1>6, Bounds, Greatest
<1>8. PICK m \in b : top = at[m]
  BY <1>7
<1>9. \A l \in Lines : at[l] \in Nat
  BY Bounds
<1>10. \A l \in fresh \ b : at[m] <= at[l]
  BY <1>8 DEF Batches
<1>11. top \in Seconds /\ top > s
  BY <1>1, <1>8 DEF Fresh
<1> HIDE DEF top
<1>12. \A l \in fresh : at[l] <= top => l \in b \/ at[l] = top
  BY <1>1, <1>8, <1>9, <1>10
<1>13. top = Top(b)
  BY DEF Top, top
<1> QED BY <1>1, <1>2, <1>11, <1>12, <1>13

\* What the insight cron selects: the cursor may go up to the selection's target when the
\* picked claims are applied (cron_insight.go:241-289).
LEMMA Selects ==
  ASSUME NEW q \in Seq(Items), q # <<>>, NEW cur \in DrainCursors, NEW admitted \in {Admitted, Flagged},
         NEW sel, sel = Selection(q, cur, admitted), sel.disposed # {},
         NEW top, top = Max({q[i].at : i \in DOMAIN q})
  PROVE  /\ sel \in Selections /\ top \in Seconds
         /\ cur.last <= top /\ sel.target <= top /\ \A it \in Range(q) : it.at <= top
         /\ \A it \in Range(q) : it.at < sel.target =>
              AlreadyProcessed(cur, it) \/ it.claim \notin Admitted \/ it.claim \in sel.picked
         /\ \A it \in sel.disposed : it.claim \notin Admitted \/ it.claim \in sel.picked
<1> DEFINE fresh == {i \in DOMAIN q : ~AlreadyProcessed(cur, q[i])}
           wanted == {i \in fresh : q[i].claim \in admitted}
           before(i) == {k \in wanted : q[k].at < q[i].at \/ (q[k].at = q[i].at /\ k < i)}
           picked == {i \in wanted : Cardinality(before(i)) < MaxPerHost}
           disposed == picked \union (fresh \ wanted)
           over == {q[i].at : i \in wanted \ picked}
           reach == {q[i].at : i \in {k \in disposed : over = {} \/ q[k].at <= Min(over)}}
           target == Max(reach \union {cur.last})
           ats == {q[i].at : i \in DOMAIN q}
<1>1. sel = [picked |-> {q[i].claim : i \in picked}, disposed |-> {q[i] : i \in disposed},
             target |-> target]
  BY DEF Selection
<1>2. picked \subseteq wanted /\ wanted \subseteq fresh /\ fresh \subseteq DOMAIN q
  OBVIOUS
<1>3. \A i \in fresh \ wanted : q[i].claim \notin Admitted
  BY Bounds, Elements
<1>4. \A i \in DOMAIN q : q[i] \in Items /\ q[i].claim \in Flagged /\ q[i].at \in Seconds
  BY Elements DEF Items
<1>5. over \subseteq Seconds /\ reach \subseteq ats /\ ats \subseteq Seconds
  BY <1>2, <1>4
<1>6. cur.last \in Seconds
  BY DEF DrainCursors
<1>7. ASSUME NEW i \in fresh PROVE q[i].at >= cur.last
  <2>1. q[i].at \in Nat /\ cur.last \in Nat
    BY <1>2, <1>4, <1>6, Bounds
  <2>2. ~(q[i].at < cur.last)
    BY DEF AlreadyProcessed
  <2> QED BY <2>1, <2>2
<1> HIDE DEF picked, wanted, fresh
<1>8. ats # {}
  BY Elements DEF Range
<1>9. top \in ats /\ \A x \in ats : x <= top
  <2>1. ats \in SUBSET (0 .. MaxClock)
    BY <1>5 DEF Seconds
  <2> HIDE DEF ats
  <2> QED BY <1>8, <2>1, Bounds, Greatest DEF ats
<1>10. PICK d \in disposed : TRUE
  BY <1>1
<1>11. d \in fresh
  BY <1>2
<1>12. cur.last <= top
  <2>1. q[d].at \in ats /\ q[d].at >= cur.last
    BY <1>2, <1>7, <1>11
  <2>2. q[d].at <= top /\ q[d].at \in Nat /\ top \in Nat /\ cur.last \in Nat
    BY <1>5, <1>6, <1>9, <2>1, Bounds
  <2> QED BY <2>1, <2>2
<1>13. target \in reach \union {cur.last} /\ \A x \in reach \union {cur.last} : x <= target
  <2>1. reach \union {cur.last} \in SUBSET (0 .. MaxClock)
    BY <1>5, <1>6 DEF Seconds
  <2> HIDE DEF reach
  <2> QED BY <2>1, Bounds, Greatest
<1>14. target \in Seconds /\ target <= top
  BY <1>5, <1>6, <1>9, <1>12, <1>13
<1>15. ASSUME NEW i \in wanted \ picked PROVE target = cur.last \/ target <= q[i].at
  <2>1. q[i].at \in over
    OBVIOUS
  <2>2. over \in SUBSET Nat /\ over # {}
    BY <1>5, <2>1, Bounds
  <2>3. Min(over) <= q[i].at /\ Min(over) \in Nat
    <3> HIDE DEF over
    <3> QED BY <2>1, <2>2, Least
  <2>4. \A x \in reach : x <= Min(over)
    BY <2>1
  <2>5. \A x \in reach : x \in Nat
    BY <1>5, Bounds
  <2>6. q[i].at \in Nat
    BY <1>2, <1>4, Bounds
  <2> HIDE DEF over, reach, target
  <2> QED BY <1>13, <2>3, <2>4, <2>5, <2>6
<1>16. ASSUME NEW i \in DOMAIN q, q[i].at < target, ~AlreadyProcessed(cur, q[i])
       PROVE  q[i].claim \notin Admitted \/ i \in picked
  <2>1. i \in fresh
    BY <1>16 DEF fresh
  <2>2. CASE i \in wanted \ picked
    <3>1. q[i].at >= cur.last /\ q[i].at \in Nat /\ cur.last \in Nat /\ target \in Nat
      BY <1>4, <1>6, <1>7, <1>14, <2>1, Bounds
    <3> HIDE DEF target
    <3> QED BY <1>15, <1>16, <2>2, <3>1
  <2> QED BY <1>3, <2>1, <2>2
<1>17. sel \in Selections
  BY <1>1, <1>2, <1>4, <1>14 DEF Selections
<1>18. \A it \in Range(q) : it.at <= top
  BY <1>9 DEF Range
<1>19. \A it \in Range(q) : it.at < sel.target =>
          AlreadyProcessed(cur, it) \/ it.claim \notin Admitted \/ it.claim \in sel.picked
  <2> HIDE DEF target, disposed
  <2> QED BY <1>1, <1>16 DEF Range
<1>20. \A it \in sel.disposed : it.claim \notin Admitted \/ it.claim \in sel.picked
  BY <1>1, <1>3
<1>21. top \in Seconds /\ sel.target <= top
  BY <1>1, <1>5, <1>9, <1>14
<1> QED BY <1>12, <1>17, <1>18, <1>19, <1>20, <1>21


-----------------------------------------------------------------------------
(* What a step may do to what another job relies on.                           *)

\* The highest second that the insight cursor has passed, or that a running job may take
\* it past.
Edge == Max({drain.last} \union {job[j].maxAt : j \in Draining})

\* A held line stays held, and a line that arrives is beyond the horizon or missed.
LinesGrow ==
  /\ at' \in [Lines -> Seconds] /\ Held \subseteq Held'
  /\ \A l \in Distilled : at'[l] = at[l] \/ l \in missed' \/ at'[l] > Horizon

\* A settled claim stays settled, and an item that is queued is beyond the edge or passed.
ClaimsGrow ==
  /\ Range(queue') \subseteq Items /\ row'.lowered \in [Lines -> Nat]
  /\ \A l \in Lines : row'.lowered[l] >= row.lowered[l]
  /\ passed \subseteq passed'
  /\ \A it \in Range(queue') : it \in Range(queue) \/ it \in passed' \/ it.at >= Edge

\* Neither cursor, and no job, is beyond its bound.
LEMMA Reaches ==
  ASSUME Typed
  PROVE  /\ Horizon \in Seconds /\ cursor.last <= Horizon /\ cursor.last \in Seconds
         /\ \A j \in Consolidating : job[j].maxAt <= Horizon
         /\ Edge \in Seconds /\ drain.last <= Edge /\ drain.last \in Seconds
         /\ \A j \in Draining : job[j].maxAt <= Edge
<1> DEFINE H == {cursor.last} \union {job[j].maxAt : j \in Consolidating}
           E == {drain.last} \union {job[j].maxAt : j \in Draining}
<1>1. cursor.last \in Seconds /\ drain.last \in Seconds
  BY DEF Typed, TypeOK
<1>2. \A j \in Consolidating \union Draining : job[j].maxAt \in Seconds
  BY DEF Typed, JobTyped, Consolidating, Draining
<1>3. H \in SUBSET (0 .. MaxClock) /\ H # {} /\ E \in SUBSET (0 .. MaxClock) /\ E # {}
  BY <1>1, <1>2 DEF Seconds
<1>4. cursor.last \in H /\ \A j \in Consolidating : job[j].maxAt \in H
  OBVIOUS
<1>5. drain.last \in E /\ \A j \in Draining : job[j].maxAt \in E
  OBVIOUS
<1>6. Horizon = Max(H) /\ Edge = Max(E)
  BY DEF Horizon, Edge
<1> HIDE DEF H, E
<1>7. Horizon \in H /\ \A x \in H : x <= Horizon
  BY <1>3, <1>6, Bounds, Greatest
<1>8. Edge \in E /\ \A x \in E : x <= Edge
  BY <1>3, <1>6, Bounds, Greatest
<1> QED BY <1>1, <1>3, <1>4, <1>5, <1>7, <1>8 DEF Seconds

\* What was clear up to the horizon stays clear.
LEMMA StaysClear ==
  ASSUME Typed, LinesGrow, NEW s \in Seconds, s <= Horizon, NEW b, ClearTo(at, Held, s, b)
  PROVE  ClearTo(at', Held', s, b)
<1> SUFFICES ASSUME NEW l \in Distilled, at'[l] # 0, at'[l] <= s PROVE l \in Held' \union b
  BY DEF ClearTo
<1>1. at'[l] \in Nat /\ s \in Nat /\ Horizon \in Nat
  BY Bounds, Reaches DEF LinesGrow
<1>2. at'[l] = at[l] \/ l \in missed'
  BY <1>1 DEF LinesGrow
<1>3. Held \subseteq Held' /\ missed' \subseteq Held'
  BY DEF LinesGrow, Held
<1> QED BY <1>2, <1>3 DEF ClearTo

\* The cursor and the jobs that a step leaves alone keep what they rely on.
LEMMA LinesStay ==
  ASSUME Typed, LinesKept, LinesGrow
  PROVE  /\ ClearTo(at', Held', cursor.last, {})
         /\ \A j \in Jobs : LinesOf(job[j], at', Held')
<1>1. ClearTo(at', Held', cursor.last, {})
  BY Reaches, StaysClear DEF LinesKept
<1>2. ASSUME NEW j \in Jobs PROVE LinesOf(job[j], at', Held')
  <2>1. LinesOf(job[j], at, Held) /\ JobTyped(job[j])
    BY DEF LinesKept, Typed
  <2>2. ASSUME job[j].at \in {"extract", "sync", "record", "append", "save"}
        PROVE  job[j].maxAt \in Seconds /\ job[j].maxAt <= Horizon
    BY <2>1, <2>2, Reaches DEF Consolidating, JobTyped
  <2>3. ASSUME job[j].at = "extract" PROVE ClearTo(at', Held', job[j].cur.last, {})
    <3>1. job[j].cur.last \in Seconds /\ job[j].cur.last < job[j].maxAt
      BY <2>1, <2>3 DEF JobTyped, Cursors
    <3>2. job[j].maxAt \in Nat /\ Horizon \in Nat /\ job[j].cur.last \in Nat
      BY <2>2, <2>3, <3>1, Reaches, Bounds
    <3>3. job[j].cur.last <= Horizon
      BY <2>2, <2>3, <3>1, <3>2
    <3>4. ClearTo(at, Held, job[j].cur.last, {})
      BY <2>1, <2>3 DEF LinesOf
    <3> QED BY <3>1, <3>3, <3>4, StaysClear
  <2>4. ASSUME job[j].at \in {"extract", "sync"}
        PROVE  ClearTo(at', Held', job[j].maxAt, job[j].batch)
    <3>1. ClearTo(at, Held, job[j].maxAt, job[j].batch)
      BY <2>1, <2>4 DEF LinesOf
    <3> QED BY <2>2, <2>4, <3>1, StaysClear
  <2>5. ASSUME job[j].at \in {"record", "append", "save"} PROVE ClearTo(at', Held', job[j].maxAt, {})
    <3>1. ClearTo(at, Held, job[j].maxAt, {})
      BY <2>1, <2>5 DEF LinesOf
    <3> QED BY <2>2, <2>5, <3>1, StaysClear
  <2> QED BY <2>3, <2>4, <2>5 DEF LinesOf
<1> QED BY <1>1, <1>2

\* A claim that is settled stays settled.
LEMMA StaysSettled ==
  ASSUME Typed, ClaimsGrow, NEW it \in Items, Settled(it, row.lowered, passed)
  PROVE  Settled(it, row'.lowered, passed')
<1>1. it.claim \in Lines
  BY Bounds DEF Items
<1>2. row.lowered[it.claim] \in Nat /\ row'.lowered[it.claim] \in Nat
  BY <1>1 DEF Typed, TypeOK, ClaimsGrow
<1>3. row'.lowered[it.claim] >= row.lowered[it.claim] /\ passed \subseteq passed'
  BY <1>1 DEF ClaimsGrow
<1> QED BY <1>2, <1>3 DEF Settled

\* What a cursor could pass it can still pass.
LEMMA StaysPassable ==
  ASSUME Typed, ClaimsGrow, NEW cur, cur.last \in Seconds, cur.done \subseteq Items,
         cur.last <= Edge, NEW asked, Passable(cur, asked, Range(queue), row.lowered, passed)
  PROVE  Passable(cur, asked, Range(queue'), row'.lowered, passed')
<1>1. \A it \in cur.done : Settled(it, row'.lowered, passed') \/ it.claim \in asked
  BY StaysSettled DEF Passable
<1>2. ASSUME NEW it \in Range(queue'), AlreadyProcessed(cur, it)
      PROVE  Settled(it, row'.lowered, passed') \/ it.claim \in asked
  <2>1. it \in Items /\ it.at \in Nat /\ Edge \in Nat /\ cur.last \in Nat
    BY Bounds, Reaches DEF ClaimsGrow, Items
  <2>2. CASE it \in Range(queue)
    BY <1>2, <2>1, <2>2, StaysSettled DEF Passable
  <2>3. CASE it \in passed'
    BY <2>3 DEF Settled
  <2>4. CASE it.at >= Edge
    <3>1. ~(it.at < cur.last)
      BY <2>1, <2>4
    <3>2. it \in cur.done
      BY <1>2, <3>1 DEF AlreadyProcessed
    <3> QED BY <1>1, <3>2
  <2> QED BY <2>2, <2>3, <2>4 DEF ClaimsGrow
<1> QED BY <1>1, <1>2 DEF Passable

\* Where a selection takes the cursor to.
LEMMA Advances ==
  ASSUME NEW cur \in DrainCursors, NEW sel \in Selections
  PROVE  /\ AdvanceCursor(cur, sel.target, sel.disposed) \in DrainCursors
         /\ AdvanceCursor(cur, sel.target, sel.disposed).last = sel.target
         /\ AdvanceCursor(cur, sel.target, sel.disposed).done \subseteq Items
         /\ sel.target \in Seconds
BY DEF DrainCursors, Selections, AdvanceCursor

\* The insight cursor and the jobs that a step leaves alone keep what they rely on.
LEMMA ClaimsStay ==
  ASSUME Typed, ClaimsKept, ClaimsGrow
  PROVE  /\ Passable(drain, {}, Range(queue'), row'.lowered, passed')
         /\ \A j \in Jobs : ClaimsOf(job[j], Range(queue'), row'.lowered, passed')
<1>1. Passable(drain, {}, Range(queue'), row'.lowered, passed')
  <2>1. drain.last \in Seconds /\ drain.last <= Edge /\ drain.done \subseteq Items
    BY Reaches DEF Typed, TypeOK
  <2>2. Passable(drain, {}, Range(queue), row.lowered, passed)
    BY DEF ClaimsKept
  <2> QED BY <2>1, <2>2, StaysPassable
<1>2. ASSUME NEW j \in Jobs PROVE ClaimsOf(job[j], Range(queue'), row'.lowered, passed')
  <2> DEFINE J == job[j]  next == AdvanceCursor(J.cur, J.sel.target, J.sel.disposed)
  <2>1. ClaimsOf(J, Range(queue), row.lowered, passed) /\ JobTyped(J)
    BY DEF ClaimsKept, Typed
  <2>2. ASSUME J.at \in {"ask", "graph", "advance"}
        PROVE  /\ J.maxAt \in Nat /\ J.maxAt <= Edge /\ Edge \in Nat
               /\ J.cur \in DrainCursors /\ J.cur.last <= Edge
    <3>1. J.maxAt \in Nat /\ J.maxAt <= Edge /\ Edge \in Nat
      BY <2>1, <2>2, Reaches, Bounds DEF Draining, JobTyped
    <3>2. J.cur \in DrainCursors /\ J.cur.last <= J.maxAt /\ J.cur.last \in Nat
      BY <2>1, <2>2, Bounds DEF JobTyped, DrainCursors
    <3> HIDE DEF J
    <3> QED BY <3>1, <3>2
  <2>3. ASSUME J.at \in {"ask", "graph"}
        PROVE  next.last \in Seconds /\ next.done \subseteq Items /\ next.last <= Edge
    <3>1. J.sel \in Selections /\ J.sel.target <= J.maxAt
      BY <2>1, <2>3 DEF JobTyped
    <3>2. next.last = J.sel.target /\ J.sel.target \in Seconds /\ next.done \subseteq Items
      BY <2>2, <2>3, <3>1, Advances
    <3>3. J.sel.target \in Nat
      BY <3>2, Bounds
    <3> HIDE DEF J, next
    <3> QED BY <2>2, <2>3, <3>1, <3>2, <3>3
  <2>4. ASSUME J.at \in {"ask", "graph", "advance"}
        PROVE  Passable(J.cur, {}, Range(queue'), row'.lowered, passed')
    <3>1. Passable(J.cur, {}, Range(queue), row.lowered, passed)
      BY <2>1, <2>4 DEF ClaimsOf
    <3>2. J.cur.last \in Seconds /\ J.cur.done \subseteq Items
      BY <2>2, <2>4 DEF DrainCursors
    <3> HIDE DEF J
    <3> QED BY <2>2, <2>4, <3>1, <3>2, StaysPassable
  <2>5. ASSUME J.at = "ask" PROVE Passable(next, J.sel.picked, Range(queue'), row'.lowered, passed')
    <3>1. Passable(next, J.sel.picked, Range(queue), row.lowered, passed)
      BY <2>1, <2>5 DEF ClaimsOf
    <3>2. next.last \in Seconds /\ next.done \subseteq Items /\ next.last <= Edge
      BY <2>3, <2>5
    <3> HIDE DEF J, next
    <3> QED BY <3>1, <3>2, StaysPassable
  <2>6. ASSUME J.at = "graph" PROVE Passable(next, {}, Range(queue'), row'.lowered, passed')
    <3>1. Passable(next, {}, Range(queue), row.lowered, passed)
      BY <2>1, <2>6 DEF ClaimsOf
    <3>2. next.last \in Seconds /\ next.done \subseteq Items /\ next.last <= Edge
      BY <2>3, <2>6
    <3> HIDE DEF J, next
    <3> QED BY <3>1, <3>2, StaysPassable
  <2>7. ASSUME J.at = "ask", NEW it \in Range(queue'), it.at < J.maxAt
        PROVE  it \in J.seen \/ Settled(it, row'.lowered, passed')
    <3>1. it \in Items /\ it.at \in Nat
      BY Bounds DEF ClaimsGrow, Items
    <3>2. ~(it.at >= Edge)
      BY <2>2, <2>7, <3>1
    <3>3. CASE it \in Range(queue)
      <4>1. it \in J.seen \/ Settled(it, row.lowered, passed)
        BY <2>1, <2>7, <3>3 DEF ClaimsOf
      <4> QED BY <3>1, <4>1, StaysSettled
    <3>4. CASE it \in passed'
      BY <3>4 DEF Settled
    <3> QED BY <3>2, <3>3, <3>4 DEF ClaimsGrow
  <2> QED BY <2>4, <2>5, <2>6, <2>7 DEF ClaimsOf
<1> QED BY <1>1, <1>2

-----------------------------------------------------------------------------
(* A step of one job.                                                          *)

\* Nothing is asked of a slot that is free.
LEMMA Resting ==
  ASSUME NEW stamps, NEW held, NEW items, NEW low, NEW skipped
  PROVE  /\ JobTyped(Idle) /\ LinesOf(Idle, stamps, held) /\ ClaimsOf(Idle, items, low, skipped)
         /\ Idle.at \notin {"sync", "ask"}
BY DEF Idle, JobTyped, LinesOf, ClaimsOf

\* What is to be shown of a step that sets one job: the types, the cursors it leaves, what
\* its new record relies on, and that it takes nothing from the others.
LEMMA Moves ==
  ASSUME IInv, NEW j \in Jobs, NEW rec, job' = [job EXCEPT ![j] = rec],
         TypeOK', at' = at, cursor'.fails < MaxFail, JobTyped(rec),
         LinesGrow, ClaimsGrow,
         ClearTo(at', Held', cursor'.last, {}), LinesOf(rec, at', Held'),
         Passable(drain', {}, Range(queue'), row'.lowered, passed'),
         ClaimsOf(rec, Range(queue'), row'.lowered, passed'),
         Marked(row'), rec.at \in {"sync", "ask"} => Marked(rec.led)
  PROVE  IInv'
<1>1. job = [k \in Jobs |-> job[k]]
  BY DEF IInv, Typed
<1>2. job' = [k \in Jobs |-> job'[k]]
  BY <1>1
<1>3. \A k \in Jobs : job'[k] = IF k = j THEN rec ELSE job[k]
  BY <1>1
<1>4. Typed'
  <2>1. IsFiniteSet(Stored')
    BY DEF IInv, Typed, Stored
  <2> QED BY <1>2, <1>3, <2>1 DEF IInv, Typed
<1>5. LinesKept'
  <2>1. \A k \in Jobs : LinesOf(job'[k], at', Held')
    BY <1>3, LinesStay DEF IInv
  <2> QED BY <2>1 DEF LinesKept
<1>6. ClaimsKept'
  <2>1. \A k \in Jobs : ClaimsOf(job'[k], Range(queue'), row'.lowered, passed')
    BY <1>3, ClaimsStay DEF IInv
  <2> QED BY <2>1 DEF ClaimsKept
<1>7. TagsTrue'
  BY <1>3 DEF IInv, TagsTrue
<1> QED BY <1>4, <1>5, <1>6, <1>7 DEF IInv

\* A step that leaves the lines, the rows and the queue alone.
LEMMA Quiet ==
  ASSUME Typed, UNCHANGED <<at, row, queue>>,
         missed \subseteq missed', gaveUp \subseteq gaveUp', passed \subseteq passed'
  PROVE  LinesGrow /\ ClaimsGrow
<1>1. Held \subseteq Held' /\ at' = at /\ at \in [Lines -> Seconds]
  BY DEF Held, Typed, TypeOK
<1>2. LinesGrow
  BY <1>1 DEF LinesGrow
<1>3. queue \in Seq(Items) /\ row.lowered \in [Lines -> Nat]
  BY DEF Typed, TypeOK
<1>4. Range(queue') \subseteq Items /\ Range(queue') = Range(queue)
  BY <1>3, Elements
<1>5. \A l \in Lines : row.lowered[l] \in Nat
  BY <1>3
<1>6. \A l \in Lines : row'.lowered[l] >= row.lowered[l]
  BY <1>5
<1>7. ClaimsGrow
  BY <1>3, <1>4, <1>6 DEF ClaimsGrow
<1> QED BY <1>2, <1>7

\* A fault is one less of what is left.
LEMMA Faults ==
  ASSUME TypeOK, Fault \/ UNCHANGED faults
  PROVE  faults' \in 0 .. MaxFaults
BY Bounds DEF TypeOK, Fault

\* A step that moves neither cursor, nor what they pass, and gives a job its next record.
LEMMA Passes ==
  ASSUME IInv, NEW j \in Jobs, NEW rec, job' = [job EXCEPT ![j] = rec],
         UNCHANGED <<clock, at, row, cursor, queue, drain, gaveUp, passed>>,
         Fault \/ UNCHANGED faults, missed \subseteq missed',
         JobTyped(rec), LinesOf(rec, at', Held'),
         ClaimsOf(rec, Range(queue), row.lowered, passed),
         rec.at \in {"sync", "ask"} => Marked(rec.led)
  PROVE  IInv'
<1>1. Typed /\ LinesKept /\ ClaimsKept /\ TagsTrue
  BY DEF IInv
<1>2. LinesGrow /\ ClaimsGrow
  BY <1>1, Quiet
<1>3. TypeOK /\ faults' \in 0 .. MaxFaults
  BY <1>1, Faults DEF Typed
<1>4. TypeOK' /\ cursor'.fails < MaxFail
  BY <1>1, <1>3 DEF TypeOK, Typed
<1>5. ClearTo(at', Held', cursor'.last, {})
  BY <1>1, <1>2, LinesStay
<1>6. Passable(drain', {}, Range(queue'), row'.lowered, passed')
  BY <1>1, <1>2, ClaimsStay
<1>7. ClaimsOf(rec, Range(queue'), row'.lowered, passed') /\ Marked(row')
  BY <1>1 DEF TagsTrue
<1> QED BY <1>2, <1>4, <1>5, <1>6, <1>7, Moves

\* A step that saves the consolidation cursor and ends its job.
LEMMA Saves ==
  ASSUME IInv, NEW j \in Jobs, job' = [job EXCEPT ![j] = Idle],
         UNCHANGED <<clock, at, row, queue, drain, missed, passed>>,
         Fault \/ UNCHANGED faults, gaveUp \subseteq gaveUp',
         cursor' \in Cursors, cursor'.fails < MaxFail, ClearTo(at', Held', cursor'.last, {})
  PROVE  IInv'
<1>1. Typed /\ TypeOK /\ ClaimsKept /\ Marked(row)
  BY DEF IInv, Typed, TagsTrue
<1>2. LinesGrow /\ ClaimsGrow
  BY <1>1, Quiet
<1>3. faults' \in 0 .. MaxFaults
  BY <1>1, Faults
<1>4. TypeOK'
  BY <1>1, <1>3 DEF TypeOK, Cursors
<1>5. Passable(drain', {}, Range(queue'), row'.lowered, passed') /\ Marked(row')
  BY <1>1 DEF ClaimsKept
<1>6. /\ LinesOf(Idle, at', Held') /\ ClaimsOf(Idle, Range(queue'), row'.lowered, passed')
      /\ JobTyped(Idle) /\ Idle.at \notin {"sync", "ask"}
  BY Resting
<1> QED BY <1>2, <1>4, <1>5, <1>6, Moves

\* A step that saves the insight cursor and ends its job.
LEMMA SavesDrain ==
  ASSUME IInv, NEW j \in Jobs, job' = [job EXCEPT ![j] = Idle],
         UNCHANGED <<clock, at, row, cursor, queue, missed, gaveUp>>,
         Fault \/ UNCHANGED faults, passed \subseteq passed',
         drain' \in DrainCursors, Passable(drain', {}, Range(queue), row.lowered, passed')
  PROVE  IInv'
<1>1. Typed /\ TypeOK /\ LinesKept /\ Marked(row)
  BY DEF IInv, Typed, TagsTrue
<1>2. LinesGrow /\ ClaimsGrow
  BY <1>1, Quiet
<1>3. faults' \in 0 .. MaxFaults
  BY <1>1, Faults
<1>4. TypeOK' /\ cursor'.fails < MaxFail
  BY <1>1, <1>3 DEF TypeOK, DrainCursors, Typed
<1>5. Passable(drain', {}, Range(queue'), row'.lowered, passed') /\ Marked(row')
  BY <1>1
<1>6. /\ LinesOf(Idle, at', Held') /\ ClaimsOf(Idle, Range(queue'), row'.lowered, passed')
      /\ JobTyped(Idle) /\ Idle.at \notin {"sync", "ask"}
  BY Resting
<1>7. ClearTo(at', Held', cursor'.last, {})
  BY <1>1, <1>2, LinesStay
<1> QED BY <1>2, <1>4, <1>5, <1>6, <1>7, Moves

-----------------------------------------------------------------------------
(* The host and the clock.                                                     *)

\* A tick changes nothing that a cursor passes.
LEMMA TickStep == ASSUME IInv, Tick PROVE IInv'
<1>1. Typed'
  BY Bounds DEF IInv, Typed, TypeOK, Tick, ghosts, JobTyped, Stored
<1>2. LinesKept' /\ ClaimsKept' /\ TagsTrue'
  BY DEF IInv, Tick, ghosts, LinesKept, ClaimsKept, TagsTrue, Held
<1> QED BY <1>1, <1>2 DEF IInv

\* A line that arrives behind the horizon is missed (observation.go:64-115).
LEMMA AddStep ==
  ASSUME IInv, NEW l \in Lines, NEW s \in Seconds, AddObservation(l, s) PROVE IInv'
<1>1. Typed /\ LinesKept /\ ClaimsKept /\ TagsTrue
  BY DEF IInv
<1>2. UNCHANGED <<clock, row, cursor, queue, drain, job, faults, gaveUp, passed>>
  BY DEF AddObservation
<1>3. at \in [Lines -> Seconds] /\ at' = [at EXCEPT ![l] = s]
  BY <1>1 DEF AddObservation, Typed, TypeOK
<1>4. at' \in [Lines -> Seconds] /\ at'[l] = s /\ \A m \in Lines \ {l} : at'[m] = at[m]
  BY <1>3
<1>5. Held \subseteq Held'
  BY DEF AddObservation, Held
<1>6. l \in missed' \/ s > Horizon
  <2>1. s \in Nat /\ Horizon \in Nat
    BY <1>1, Reaches, Bounds
  <2> QED BY <2>1 DEF AddObservation
<1>7. LinesGrow
  BY <1>4, <1>5, <1>6, Bounds DEF LinesGrow
<1>8. LinesKept'
  BY <1>1, <1>2, <1>7, LinesStay DEF LinesKept
<1>9. Typed'
  <2>1. Stored' \subseteq Stored \union {l} /\ IsFiniteSet(Stored)
    BY <1>1, <1>4 DEF Stored, Typed
  <2>2. IsFiniteSet(Stored')
    BY <2>1, FS_AddElement, FS_Subset
  <2> QED BY <1>1, <1>2, <1>4, <2>2 DEF Typed, TypeOK, JobTyped
<1>10. ClaimsKept' /\ TagsTrue'
  BY <1>1, <1>2 DEF ClaimsKept, TagsTrue
<1> QED BY <1>8, <1>9, <1>10 DEF IInv

-----------------------------------------------------------------------------
(* The consolidation cron.                                                     *)

\* A batch leaves out no line up to its last second that is not missed (cron.go:274-303).
LEMMA BeginStep ==
  ASSUME IInv, NEW j \in Jobs, NEW cur \in Cursors, cur.fails < MaxFail,
         ClearTo(at, Held, cur.last, {}), BeginWith(j, cur), Fault \/ UNCHANGED faults
  PROVE  IInv'
<1> DEFINE fresh == Fresh(cur.last)
<1>1. Typed /\ at \in [Lines -> Seconds] /\ IsFiniteSet(Stored) /\ cur.last \in Seconds
  BY DEF IInv, Typed, TypeOK, Cursors
<1>2. fresh # {} /\ UNCHANGED <<clock, at, row, cursor, queue, drain, gaveUp, passed>>
  BY DEF BeginWith, Fresh
<1> DEFINE rec(b) == IF b \cap Distilled # {}
                     THEN [at |-> "extract", cur |-> cur, batch |-> b, maxAt |-> Top(b)]
                     ELSE Save(Top(b))
<1>3. PICK b \in Batches(fresh) :
         job' = [job EXCEPT ![j] = rec(b)] /\ missed' = missed \union {l \in fresh \ b : at[l] = Top(b)}
  BY DEF BeginWith, Set, Fresh, Top
<1>4. /\ b \subseteq fresh /\ b \subseteq Lines /\ IsFiniteSet(b) /\ Top(b) \in Seconds /\ Top(b) > cur.last
      /\ \A l \in fresh : at[l] <= Top(b) => l \in b \/ at[l] = Top(b)
  BY <1>1, <1>2, Batch
<1> DEFINE max == Top(b)
<1>5. max \in Nat /\ cur.last \in Nat /\ \A l \in Lines : at[l] \in Nat
  BY <1>1, <1>4, Bounds
<1>6. missed' = missed \union {l \in fresh \ b : at[l] = max}
  BY <1>3
<1>7. \A l \in fresh : at[l] <= max => l \in b \/ at[l] = max
  BY <1>4
<1>8. max \in Seconds /\ cur.last < max
  BY <1>4, <1>5
<1> HIDE DEF max
<1>9. Held \subseteq Held' /\ missed' \subseteq Held' /\ missed \subseteq missed'
  BY <1>2, <1>6 DEF Held
<1>10. ClearTo(at', Held', cur.last, {})
  BY <1>2, <1>9 DEF ClearTo
<1>11. ClearTo(at', Held', max, b)
  <2> SUFFICES ASSUME NEW l \in Distilled, at[l] # 0, at[l] <= max PROVE l \in Held' \union b
    BY <1>2 DEF ClearTo
  <2>1. l \in Stored /\ at[l] \in Nat
    BY <1>5, Bounds DEF Stored
  <2>2. CASE at[l] <= cur.last
    BY <1>9, <2>2 DEF ClearTo
  <2>3. CASE at[l] > cur.last
    <3>1. l \in b \/ l \in missed'
      BY <1>6, <1>7, <2>1, <2>3 DEF Fresh
    <3> QED BY <1>9, <3>1
  <2> QED BY <1>5, <2>1, <2>2, <2>3
<1>12. CASE b \cap Distilled # {}
  <2> DEFINE R == [at |-> "extract", cur |-> cur, batch |-> b, maxAt |-> max]
  <2>1. job' = [job EXCEPT ![j] = R]
    BY <1>3, <1>12 DEF max
  <2>2. JobTyped(R)
    BY <1>4, <1>8 DEF JobTyped
  <2>3. LinesOf(R, at', Held')
    BY <1>10, <1>11 DEF LinesOf
  <2>4. ClaimsOf(R, Range(queue), row.lowered, passed) /\ R.at \notin {"sync", "ask"}
    BY DEF ClaimsOf
  <2> HIDE DEF R
  <2> QED BY <1>2, <1>9, <2>1, <2>2, <2>3, <2>4, Passes
<1>13. CASE b \cap Distilled = {}
  <2>1. job' = [job EXCEPT ![j] = Save(max)]
    BY <1>3, <1>13 DEF max
  <2>2. JobTyped(Save(max))
    BY <1>8 DEF JobTyped, Save
  <2>3. ClearTo(at', Held', max, {})
    BY <1>11, <1>13 DEF ClearTo
  <2>4. LinesOf(Save(max), at', Held')
    BY <2>3 DEF LinesOf, Save
  <2>5. ClaimsOf(Save(max), Range(queue), row.lowered, passed) /\ Save(max).at \notin {"sync", "ask"}
    BY DEF ClaimsOf, Save
  <2> QED BY <1>2, <1>9, <2>1, <2>2, <2>4, <2>5, Passes
<1> QED BY <1>12, <1>13

\* A job begins at the cursor, or at zero.
LEMMA BeginSteps ==
  ASSUME IInv, NEW j \in Jobs, Consolidate(j) \/ ConsolidateAgain(j) \/ CursorUnread(j)
  PROVE  IInv'
<1>1. cursor \in Cursors /\ cursor.fails < MaxFail /\ ClearTo(at, Held, cursor.last, {})
  BY DEF IInv, Typed, TypeOK, Cursors, LinesKept
<1> DEFINE zero == [last |-> 0, fails |-> 0]
<1>2. zero \in Cursors /\ zero.fails < MaxFail /\ zero.last = 0
  BY Bounds DEF Cursors
<1>3. ClearTo(at, Held, 0, {})
  <2>1. \A l \in Distilled : at[l] \in Nat
    BY Bounds DEF IInv, Typed, TypeOK
  <2> QED BY <2>1 DEF ClearTo
<1> HIDE DEF zero
<1>4. CASE Consolidate(j) \/ ConsolidateAgain(j)
  BY <1>1, <1>4, BeginStep DEF Consolidate, ConsolidateAgain
<1>5. CASE CursorUnread(j)
  BY <1>2, <1>3, <1>5, BeginStep DEF CursorUnread, zero
<1> QED BY <1>4, <1>5

\* The model's answer, and the rows read after it.
LEMMA ExtractStep == ASSUME IInv, NEW j \in Jobs, Extract(j) PROVE IInv'
<1> DEFINE J == job[j]
           R == [at |-> "sync", batch |-> J.batch, maxAt |-> J.maxAt, led |-> row]
<1>1. Typed /\ JobTyped(J) /\ LinesOf(J, at, Held) /\ Marked(row) /\ row \in Ledgers
  BY DEF IInv, Typed, TypeOK, LinesKept, TagsTrue, Ledgers
<1>2. J.at = "extract" /\ job' = [job EXCEPT ![j] = R]
  BY DEF Extract, Set
<1>3. UNCHANGED <<clock, at, row, cursor, queue, drain, faults, missed, gaveUp, passed>>
  BY DEF Extract, ghosts
<1>4. JobTyped(R)
  BY <1>1, <1>2 DEF JobTyped
<1>5. LinesOf(R, at', Held')
  BY <1>1, <1>2, <1>3 DEF LinesOf, Held
<1>6. ClaimsOf(R, Range(queue), row.lowered, passed) /\ Marked(R.led)
  BY <1>1 DEF ClaimsOf
<1> HIDE DEF R
<1> QED BY <1>2, <1>3, <1>4, <1>5, <1>6, Passes

\* A batch that failed as often as is allowed is given up, and no other (cron.go:304-341).
LEMMA ExtractFailsStep == ASSUME IInv, NEW j \in Jobs, ExtractFails(j) PROVE IInv'
<1> DEFINE J == job[j]
<1>1. Typed /\ JobTyped(J) /\ LinesOf(J, at, Held)
  BY DEF IInv, Typed, LinesKept
<1>2. /\ J.at = "extract" /\ cursor' = Bump(J.cur, J.maxAt) /\ job' = [job EXCEPT ![j] = Idle]
      /\ gaveUp' = IF cursor'.last = J.maxAt THEN gaveUp \union J.batch ELSE gaveUp
      /\ UNCHANGED <<clock, at, row, queue, drain, missed, passed>>
  BY DEF ExtractFails, End, Set
<1>3. Fault \/ UNCHANGED faults
  BY DEF ExtractFails
<1>4. /\ J.cur \in Cursors /\ J.cur.fails < MaxFail /\ J.cur.last < J.maxAt /\ J.maxAt \in Seconds
      /\ ClearTo(at, Held, J.cur.last, {}) /\ ClearTo(at, Held, J.maxAt, J.batch)
  BY <1>1, <1>2 DEF JobTyped, LinesOf
<1>5. J.cur.fails \in Nat /\ J.cur.last \in Seconds /\ MaxFail \in Nat \ {0}
  BY <1>4, Bounds DEF Cursors
<1>6. Held \subseteq Held'
  BY <1>2 DEF Held
<1>7. cursor' \in Cursors /\ cursor'.fails < MaxFail
  BY <1>2, <1>4, <1>5, Bounds DEF Bump, Cursors
<1>8. ClearTo(at', Held', cursor'.last, {})
  <2>1. CASE J.cur.fails + 1 >= MaxFail
    <3>1. cursor'.last = J.maxAt
      BY <1>2, <2>1 DEF Bump
    <3>2. J.batch \subseteq Held'
      BY <1>2, <3>1 DEF Held
    <3> QED BY <1>2, <1>4, <1>6, <3>1, <3>2 DEF ClearTo
  <2>2. CASE ~(J.cur.fails + 1 >= MaxFail)
    <3>1. cursor'.last = J.cur.last
      BY <1>2, <1>4, <2>2 DEF Bump, Cursors
    <3> QED BY <1>2, <1>4, <1>6, <3>1 DEF ClearTo
  <2> QED BY <2>1, <2>2
<1>9. gaveUp \subseteq gaveUp'
  BY <1>2
<1> QED BY <1>2, <1>3, <1>7, <1>8, <1>9, Saves

\* The cursor is moved over a batch that is folded (cron.go:361-364).
LEMMA SaveCursorStep == ASSUME IInv, NEW j \in Jobs, SaveCursor(j) PROVE IInv'
<1>1. JobTyped(job[j]) /\ LinesOf(job[j], at, Held)
  BY DEF IInv, Typed, LinesKept
<1>2. /\ job[j].at = "save" /\ cursor' = [last |-> job[j].maxAt, fails |-> 0]
      /\ job' = [job EXCEPT ![j] = Idle]
      /\ UNCHANGED <<clock, at, row, queue, drain, faults, missed, gaveUp, passed>>
  BY DEF SaveCursor, End, Set, ghosts
<1>3. job[j].maxAt \in Seconds /\ ClearTo(at, Held, job[j].maxAt, {})
  BY <1>1, <1>2 DEF JobTyped, LinesOf
<1>4. cursor' \in Cursors /\ cursor'.fails < MaxFail
  BY <1>2, <1>3, Bounds DEF Cursors
<1>5. ClearTo(at', Held', cursor'.last, {})
  BY <1>2, <1>3 DEF Held
<1> QED BY <1>2, <1>4, <1>5, Saves

\* A write of a ledger that was read before: nothing that the rows hold is lost.
LEMMA Writes ==
  ASSUME IInv, NEW led \in Ledgers, Marked(led), row' = SyncKnowledge(row, led),
         UNCHANGED <<at, queue, missed, gaveUp, passed>>
  PROVE  /\ LinesGrow /\ ClaimsGrow /\ row' \in Ledgers /\ Marked(row')
         /\ led.beliefs \subseteq Held' /\ Held \subseteq Held'
         /\ \A l \in Lines : row'.lowered[l] >= led.lowered[l]
<1>1. /\ row \in Ledgers /\ Marked(row) /\ queue \in Seq(Items) /\ at \in [Lines -> Seconds]
  BY DEF IInv, Typed, TypeOK, Ledgers, TagsTrue
<1>2. /\ row' \in Ledgers /\ Marked(row') /\ row.beliefs \union led.beliefs \subseteq row'.beliefs
      /\ \A l \in Lines : row'.lowered[l] >= row.lowered[l] /\ row'.lowered[l] >= led.lowered[l]
  BY <1>1, Synced
<1>3. Held \subseteq Held' /\ led.beliefs \subseteq Held'
  BY <1>2 DEF Held
<1>4. LinesGrow
  BY <1>1, <1>3 DEF LinesGrow
<1>5. Range(queue) \subseteq Items
  BY <1>1, Elements
<1>6. row'.lowered \in [Lines -> Nat]
  BY <1>2 DEF Ledgers
<1>7. ClaimsGrow
  BY <1>2, <1>5, <1>6 DEF ClaimsGrow
<1> QED BY <1>2, <1>3, <1>4, <1>7

\* The fold of a batch is written before anything passes it (cron.go:360-372).
LEMMA SyncFoldStep == ASSUME IInv, NEW j \in Jobs, SyncFold(j) PROVE IInv'
<1> DEFINE J == job[j]  led == Fold(J.led, J.batch)  flagged == J.batch \cap Flagged
           R == IF flagged = {} THEN Save(J.maxAt)
                ELSE [at |-> "record", flagged |-> flagged, maxAt |-> J.maxAt]
<1>1. Typed /\ TypeOK /\ JobTyped(J) /\ LinesOf(J, at, Held) /\ ClaimsKept
  BY DEF IInv, Typed, LinesKept
<1>2. /\ J.at = "sync" /\ row' = SyncKnowledge(row, led) /\ job' = [job EXCEPT ![j] = R]
      /\ UNCHANGED <<clock, at, cursor, queue, drain, faults, missed, gaveUp, passed>>
  BY DEF SyncFold, Set, ghosts
<1>3. J.led \in Ledgers /\ J.batch \subseteq Lines /\ J.maxAt \in Seconds /\ Marked(J.led)
  BY <1>1, <1>2 DEF JobTyped, IInv, TagsTrue
<1>4. ClearTo(at, Held, J.maxAt, J.batch)
  BY <1>1, <1>2 DEF LinesOf
<1>5. led \in Ledgers /\ J.batch \cap Distilled \subseteq led.beliefs
  BY <1>3 DEF Fold, Ledgers
<1>6. Marked(led)
  BY <1>3 DEF Marked, Fold, Ledgers
<1> HIDE DEF led
<1>7. /\ LinesGrow /\ ClaimsGrow /\ row' \in Ledgers /\ Marked(row')
      /\ led.beliefs \subseteq Held' /\ Held \subseteq Held'
  BY <1>2, <1>5, <1>6, Writes
<1>8. ClearTo(at', Held', J.maxAt, {})
  <2>1. J.batch \cap Distilled \subseteq Held'
    BY <1>5, <1>7
  <2> HIDE DEF J
  <2> QED BY <1>2, <1>4, <1>7, <2>1 DEF ClearTo
<1>9. JobTyped(R)
  <2>1. IsFiniteSet(flagged)
    BY <1>1, <1>2, FS_Subset DEF JobTyped
  <2> QED BY <1>3, <2>1 DEF JobTyped, Save
<1>10. LinesOf(R, at', Held') /\ R.at \notin {"sync", "ask"}
  BY <1>8 DEF LinesOf, Save
<1>11. ClaimsOf(R, Range(queue'), row'.lowered, passed')
  BY DEF ClaimsOf, Save
<1>12. TypeOK' /\ cursor'.fails < MaxFail
  BY <1>1, <1>2, <1>7 DEF TypeOK, Ledgers, Typed
<1>13. ClearTo(at', Held', cursor'.last, {})
  BY <1>2, <1>7, LinesStay DEF IInv
<1>14. Passable(drain', {}, Range(queue'), row'.lowered, passed')
  BY <1>2, <1>7, ClaimsStay DEF IInv
<1> HIDE DEF R
<1> QED BY <1>2, <1>7, <1>9, <1>10, <1>11, <1>12, <1>13, <1>14, Moves

\* The flagged claims are stamped, and the queue or nothing is read (cron.go:395-413).
LEMMA RecordStep ==
  ASSUME IInv, NEW j \in Jobs, NEW read \in Seq(Items), RecordWith(j, read),
         Fault \/ UNCHANGED faults
  PROVE  IInv'
<1> DEFINE J == job[j]
           items(s) == [i \in DOMAIN s |-> [claim |-> s[i], at |-> clock]]
           rec(s) == [at |-> "append", maxAt |-> J.maxAt, read |-> read, items |-> items(s)]
<1>1. Typed /\ TypeOK /\ JobTyped(J) /\ LinesOf(J, at, Held)
  BY DEF IInv, Typed, LinesKept
<1>2. PICK s \in SetToSeqs(J.flagged) : job' = [job EXCEPT ![j] = rec(s)]
  BY DEF RecordWith, Set
<1>3. J.at = "record" /\ UNCHANGED <<clock, at, row, cursor, queue, drain, missed, gaveUp, passed>>
  BY DEF RecordWith, ghosts
<1>4. J.flagged \in SUBSET Flagged /\ IsFiniteSet(J.flagged) /\ J.maxAt \in Seconds /\ ClearTo(at, Held, J.maxAt, {})
  BY <1>1, <1>3 DEF JobTyped, LinesOf
<1>5. clock \in Seconds
  BY <1>1, Bounds DEF TypeOK, Seconds
<1>6. items(s) \in Seq(Items)
  BY <1>4, <1>5, Stamps
<1> DEFINE I == items(s)
           R == [at |-> "append", maxAt |-> J.maxAt, read |-> read, items |-> I]
<1>7. job' = [job EXCEPT ![j] = R] /\ I \in Seq(Items)
  BY <1>2, <1>6
<1> HIDE DEF I
<1>8. JobTyped(R)
  BY <1>4, <1>7 DEF JobTyped
<1>9. LinesOf(R, at', Held')
  BY <1>3, <1>4 DEF LinesOf, Held
<1>10. ClaimsOf(R, Range(queue), row.lowered, passed) /\ R.at \notin {"sync", "ask"}
  BY DEF ClaimsOf
<1> HIDE DEF R
<1> QED BY <1>3, <1>7, <1>8, <1>9, <1>10, Passes

\* The queue is read, or taken for empty when that fails.
LEMMA RecordSteps ==
  ASSUME IInv, NEW j \in Jobs, Record(j) \/ QueueUnread(j) PROVE IInv'
<1>1. queue \in Seq(Items) /\ <<>> \in Seq(Items)
  BY DEF IInv, Typed, TypeOK
<1> QED BY <1>1, RecordStep DEF Record, QueueUnread

\* The queue is written back: what is new in it is beyond the edge or passed
\* (cron.go:414-425).
LEMMA AppendStep == ASSUME IInv, NEW j \in Jobs, AppendFlagged(j) PROVE IInv'
<1> DEFINE J == job[j]
<1>1. Typed /\ TypeOK /\ JobTyped(J) /\ LinesOf(J, at, Held) /\ Marked(row)
  BY DEF IInv, Typed, LinesKept, TagsTrue
<1>2. /\ J.at = "append" /\ queue' = Trimmed(J.read \o J.items)
      /\ passed' = passed \union {it \in Range(queue') : it.at < Edge /\ it \notin Range(queue)}
      /\ job' = [job EXCEPT ![j] = Save(J.maxAt)]
      /\ UNCHANGED <<clock, at, row, cursor, drain, faults, missed, gaveUp>>
  BY DEF AppendFlagged, Set, Edge
<1>3. J.read \in Seq(Items) /\ J.items \in Seq(Items) /\ J.maxAt \in Seconds
  BY <1>1, <1>2 DEF JobTyped
<1>4. ClearTo(at, Held, J.maxAt, {})
  BY <1>1, <1>2 DEF LinesOf
<1>5. J.read \o J.items \in Seq(Items)
  BY <1>3, Joins
<1>6. queue' \in Seq(Items) /\ Len(queue') <= MaxQueue
  BY <1>2, <1>5, Trims
<1>7. Range(queue') \subseteq Items
  BY <1>6, Elements
<1>8. \A it \in Range(queue') : it \in Range(queue) \/ it \in passed' \/ it.at >= Edge
  <2> SUFFICES ASSUME NEW it \in Range(queue') PROVE it \in Range(queue) \/ it \in passed' \/ it.at >= Edge
    OBVIOUS
  <2>1. it.at \in Nat /\ Edge \in Nat
    BY <1>1, <1>7, Reaches, Bounds DEF Items
  <2> QED BY <1>2, <2>1
<1>9. row.lowered \in [Lines -> Nat] /\ \A l \in Lines : row.lowered[l] \in Nat
  BY <1>1 DEF TypeOK
<1>10. \A l \in Lines : row'.lowered[l] >= row.lowered[l]
  BY <1>2, <1>9
<1>11. ClaimsGrow
  BY <1>2, <1>7, <1>8, <1>9, <1>10 DEF ClaimsGrow
<1>12. LinesGrow /\ Held' = Held
  BY <1>1, <1>2 DEF LinesGrow, Held, TypeOK
<1>13. TypeOK' /\ cursor'.fails < MaxFail
  BY <1>1, <1>2, <1>6 DEF TypeOK, Typed
<1>14. ClearTo(at', Held', cursor'.last, {})
  BY <1>2, <1>12, LinesStay DEF IInv
<1>15. Passable(drain', {}, Range(queue'), row'.lowered, passed')
  BY <1>2, <1>11, ClaimsStay DEF IInv
<1> DEFINE R == Save(J.maxAt)
<1>16. JobTyped(R) /\ R.at \notin {"sync", "ask"}
  BY <1>3 DEF JobTyped, Save
<1>17. LinesOf(R, at', Held')
  BY <1>2, <1>4, <1>12 DEF LinesOf, Save
<1>18. ClaimsOf(R, Range(queue'), row'.lowered, passed')
  BY DEF ClaimsOf, Save
<1>19. Marked(row') /\ at' = at /\ job' = [job EXCEPT ![j] = R]
  BY <1>1, <1>2
<1> HIDE DEF R
<1> QED BY <1>11, <1>12, <1>13, <1>14, <1>15, <1>16, <1>17, <1>18, <1>19, Moves

\* A queue that cannot be written does not hold up the cursor.
LEMMA AppendFailsStep == ASSUME IInv, NEW j \in Jobs, AppendFails(j) PROVE IInv'
<1> DEFINE R == Save(job[j].maxAt)
<1>1. JobTyped(job[j]) /\ LinesOf(job[j], at, Held)
  BY DEF IInv, Typed, LinesKept
<1>2. /\ job[j].at = "append" /\ Fault /\ job' = [job EXCEPT ![j] = R]
      /\ UNCHANGED <<clock, at, row, cursor, queue, drain, missed, gaveUp, passed>>
  BY DEF AppendFails, Set, ghosts
<1>3. job[j].maxAt \in Seconds /\ ClearTo(at, Held, job[j].maxAt, {})
  BY <1>1, <1>2 DEF JobTyped, LinesOf
<1>4. JobTyped(R) /\ R.at \notin {"sync", "ask"}
  BY <1>3 DEF JobTyped, Save
<1>5. LinesOf(R, at', Held')
  BY <1>2, <1>3 DEF LinesOf, Save, Held
<1>6. ClaimsOf(R, Range(queue), row.lowered, passed)
  BY DEF ClaimsOf, Save
<1> HIDE DEF R
<1> QED BY <1>2, <1>4, <1>5, <1>6, Passes

-----------------------------------------------------------------------------
(* The insight cron.                                                           *)

\* The cursor may be taken to a selection's target once the picked claims are applied.
LEMMA SelectionPassable ==
  ASSUME NEW cur \in DrainCursors, NEW sel \in Selections, NEW items, NEW low, NEW skipped,
         Passable(cur, {}, items, low, skipped),
         \A it \in items : it.at < sel.target =>
           AlreadyProcessed(cur, it) \/ it.claim \notin Admitted \/ it.claim \in sel.picked,
         \A it \in sel.disposed : it.claim \notin Admitted \/ it.claim \in sel.picked
  PROVE  Passable(AdvanceCursor(cur, sel.target, sel.disposed), sel.picked, items, low, skipped)
<1> DEFINE next == AdvanceCursor(cur, sel.target, sel.disposed)
<1>1. next.last = sel.target /\ next.done \subseteq cur.done \union sel.disposed
  BY DEF AdvanceCursor
<1> HIDE DEF next
<1>2. \A it \in next.done : Settled(it, low, skipped) \/ it.claim \in sel.picked
  BY <1>1 DEF Passable, Settled
<1>3. ASSUME NEW it \in items, AlreadyProcessed(next, it)
      PROVE  Settled(it, low, skipped) \/ it.claim \in sel.picked
  <2>1. CASE it.at < sel.target
    BY <2>1 DEF Passable, Settled
  <2>2. CASE it \in next.done
    BY <1>2, <2>2
  <2> QED BY <1>1, <1>3, <2>1, <2>2 DEF AlreadyProcessed
<1>4. Passable(next, sel.picked, items, low, skipped)
  BY <1>2, <1>3 DEF Passable
<1> QED BY <1>4 DEF next

\* A run of the insight cron begins (cron_insight.go:212-300).
LEMMA DrainStep ==
  ASSUME IInv, NEW j \in Jobs, NEW cur \in DrainCursors,
         Passable(cur, {}, Range(queue), row.lowered, passed), DrainWith(j, cur),
         Fault \/ UNCHANGED faults
  PROVE  IInv'
<1> DEFINE Sel(admitted) == Selection(queue, cur, admitted)
           top == Max({queue[i].at : i \in DOMAIN queue})
           Rec(sel) == IF sel.picked = {}
                       THEN [at |-> "advance", maxAt |-> top,
                             cur |-> AdvanceCursor(cur, sel.target, sel.disposed)]
                       ELSE [at |-> "ask", maxAt |-> top, cur |-> cur, sel |-> sel,
                             led |-> row, seen |-> Range(queue)]
<1>1. Typed /\ TypeOK /\ Marked(row) /\ row \in Ledgers /\ queue \in Seq(Items)
  BY DEF IInv, Typed, TypeOK, TagsTrue, Ledgers
<1>2. queue # <<>> /\ UNCHANGED <<clock, at, row, cursor, queue, drain, missed, gaveUp, passed>>
  BY DEF DrainWith, ghosts
<1>3. PICK admitted \in {Admitted, Flagged} :
        Sel(admitted).disposed # {} /\ job' = [job EXCEPT ![j] = Rec(Sel(admitted))]
  BY DEF DrainWith, Set
<1> DEFINE sel == Sel(admitted)
<1>4. /\ sel \in Selections /\ top \in Seconds
      /\ cur.last <= top /\ sel.target <= top
      /\ \A it \in Range(queue) : it.at <= top
      /\ \A it \in Range(queue) : it.at < sel.target =>
           AlreadyProcessed(cur, it) \/ it.claim \notin Admitted \/ it.claim \in sel.picked
      /\ \A it \in sel.disposed : it.claim \notin Admitted \/ it.claim \in sel.picked
  BY <1>1, <1>2, <1>3, Selects
<1>5. job' = [job EXCEPT ![j] = Rec(sel)]
  BY <1>3
<1> HIDE DEF sel, top
<1> DEFINE next == AdvanceCursor(cur, sel.target, sel.disposed)
<1>6. Passable(next, sel.picked, Range(queue), row.lowered, passed)
  BY <1>4, SelectionPassable
<1>7. next \in DrainCursors /\ next.last = sel.target
  BY <1>4, Advances
<1>8. CASE sel.picked = {}
  <2> DEFINE R == [at |-> "advance", maxAt |-> top, cur |-> next]
  <2>1. job' = [job EXCEPT ![j] = R]
    BY <1>5, <1>8
  <2> HIDE DEF next
  <2>2. JobTyped(R) /\ R.at \notin {"sync", "ask"}
    BY <1>4, <1>7 DEF JobTyped
  <2>3. LinesOf(R, at', Held')
    BY DEF LinesOf
  <2>4. ClaimsOf(R, Range(queue), row.lowered, passed)
    BY <1>6, <1>8 DEF ClaimsOf
  <2> HIDE DEF R
  <2> QED BY <1>2, <2>1, <2>2, <2>3, <2>4, Passes
<1>9. CASE sel.picked # {}
  <2> DEFINE R == [at |-> "ask", maxAt |-> top, cur |-> cur, sel |-> sel,
                   led |-> row, seen |-> Range(queue)]
  <2>1. job' = [job EXCEPT ![j] = R] /\ Marked(R.led)
    BY <1>1, <1>5, <1>9
  <2>2. Range(queue) \subseteq Items
    BY <1>1, Elements
  <2>3. JobTyped(R)
    BY <1>1, <1>4, <2>2 DEF JobTyped
  <2>4. LinesOf(R, at', Held')
    BY DEF LinesOf
  <2>5. ClaimsOf(R, Range(queue), row.lowered, passed)
    BY <1>6 DEF ClaimsOf
  <2> HIDE DEF R
  <2> QED BY <1>2, <2>1, <2>3, <2>4, <2>5, Passes
<1> QED BY <1>8, <1>9

\* A run begins at the cursor, or at zero.
LEMMA DrainSteps ==
  ASSUME IInv, NEW j \in Jobs, Insight(j) \/ InsightAgain(j) \/ DrainUnread(j) PROVE IInv'
<1>1. drain \in DrainCursors /\ Passable(drain, {}, Range(queue), row.lowered, passed)
  BY DEF IInv, Typed, TypeOK, DrainCursors, ClaimsKept
<1> DEFINE zero == [last |-> 0, fails |-> 0, done |-> {}]
<1>2. zero \in DrainCursors
  BY Bounds DEF DrainCursors
<1>3. Passable(zero, {}, Range(queue), row.lowered, passed)
  <2>1. queue \in Seq(Items)
    BY DEF IInv, Typed, TypeOK
  <2>2. \A it \in Range(queue) : it.at \in Nat
    BY <2>1, Elements, Bounds DEF Items
  <2>3. \A it \in Range(queue) : ~AlreadyProcessed(zero, it)
    BY <2>2 DEF AlreadyProcessed
  <2> QED BY <2>3 DEF Passable
<1> HIDE DEF zero
<1>4. CASE Insight(j) \/ InsightAgain(j)
  BY <1>1, <1>4, DrainStep DEF Insight, InsightAgain
<1>5. CASE DrainUnread(j)
  BY <1>2, <1>3, <1>5, DrainStep DEF DrainUnread, zero
<1> QED BY <1>4, <1>5

\* A model call that failed as often as is allowed passes what it has seen, and nothing
\* else (cron_insight.go:302-356).
LEMMA InsightFailsStep == ASSUME IInv, NEW j \in Jobs, InsightFails(j) PROVE IInv'
<1> DEFINE J == job[j]
<1>1. TypeOK /\ JobTyped(J) /\ ClaimsOf(J, Range(queue), row.lowered, passed)
  BY DEF IInv, Typed, ClaimsKept
<1>2. /\ J.at = "ask" /\ drain' = InsightBump(J.cur, J.maxAt) /\ job' = [job EXCEPT ![j] = Idle]
      /\ passed' = IF J.cur.fails + 1 >= MaxFail THEN passed \union J.seen ELSE passed
      /\ UNCHANGED <<clock, at, row, cursor, queue, missed, gaveUp>>
  BY DEF InsightFails, End, Set
<1>3. Fault \/ UNCHANGED faults
  BY DEF InsightFails
<1>4. J.cur \in DrainCursors /\ J.maxAt \in Seconds
  BY <1>1, <1>2 DEF JobTyped
<1>5. /\ Passable(J.cur, {}, Range(queue), row.lowered, passed)
      /\ \A it \in Range(queue) : it.at < J.maxAt => it \in J.seen \/ Settled(it, row.lowered, passed)
  BY <1>1, <1>2 DEF ClaimsOf
<1>6. passed \subseteq passed'
  BY <1>2
<1>7. drain' \in DrainCursors /\ Passable(drain', {}, Range(queue), row.lowered, passed')
  <2>1. CASE J.cur.fails + 1 >= MaxFail
    <3>1. drain' = [last |-> J.maxAt, fails |-> 0, done |-> {}] /\ J.seen \subseteq passed'
      BY <1>2, <2>1 DEF InsightBump
    <3>2. drain' \in DrainCursors
      BY <1>4, <3>1 DEF DrainCursors
    <3>3. drain'.done = {} /\ \A it \in Range(queue) : AlreadyProcessed(drain', it) => it.at < J.maxAt
      BY <3>1 DEF AlreadyProcessed
    <3> QED BY <1>5, <1>6, <3>1, <3>2, <3>3 DEF Passable, Settled
  <2>2. CASE ~(J.cur.fails + 1 >= MaxFail)
    <3>1. drain' = [J.cur EXCEPT !.fails = @ + 1] /\ passed' = passed
      BY <1>2, <2>2 DEF InsightBump
    <3>2. drain' \in DrainCursors /\ drain'.last = J.cur.last /\ drain'.done = J.cur.done
      BY <1>4, <3>1 DEF DrainCursors
    <3> QED BY <1>5, <3>1, <3>2 DEF Passable, AlreadyProcessed
  <2> QED BY <2>1, <2>2
<1> QED BY <1>2, <1>3, <1>6, <1>7, SavesDrain

\* A write that failed leaves the cursor where the job found it (cron_insight.go:366-386).
LEMMA WriteFailsStep == ASSUME IInv, NEW j \in Jobs, WriteFails(j) PROVE IInv'
<1> DEFINE J == job[j]
<1>1. TypeOK /\ JobTyped(J) /\ ClaimsOf(J, Range(queue), row.lowered, passed)
  BY DEF IInv, Typed, ClaimsKept
<1>2. /\ J.at \in {"ask", "graph"} /\ Fault /\ drain' = [J.cur EXCEPT !.fails = @ + 1]
      /\ job' = [job EXCEPT ![j] = Idle]
      /\ UNCHANGED <<clock, at, row, cursor, queue, missed, gaveUp, passed>>
  BY DEF WriteFails, End, Set, ghosts
<1>3. J.cur \in DrainCursors /\ Passable(J.cur, {}, Range(queue), row.lowered, passed)
  BY <1>1, <1>2 DEF JobTyped, ClaimsOf
<1>4. drain' \in DrainCursors /\ drain'.last = J.cur.last /\ drain'.done = J.cur.done
  BY <1>2, <1>3 DEF DrainCursors
<1>5. Passable(drain', {}, Range(queue), row.lowered, passed')
  BY <1>2, <1>3, <1>4 DEF Passable, AlreadyProcessed
<1> QED BY <1>2, <1>4, <1>5, SavesDrain

\* The rows hold what was applied: the cursor may pass the selection (cron_insight.go:358-366).
LEMMA InsightSyncStep == ASSUME IInv, NEW j \in Jobs, InsightSync(j) PROVE IInv'
<1> DEFINE J == job[j]  led == ApplyReconcile(J.led, J.sel.picked)
           next == AdvanceCursor(J.cur, J.sel.target, J.sel.disposed)
           R == [at |-> "graph", maxAt |-> J.maxAt, cur |-> J.cur, sel |-> J.sel]
<1>1. Typed /\ TypeOK /\ JobTyped(J) /\ LinesKept
  BY DEF IInv, Typed
<1>2. /\ J.at = "ask" /\ row' = SyncKnowledge(row, led) /\ job' = [job EXCEPT ![j] = R]
      /\ UNCHANGED <<clock, at, cursor, queue, drain, faults, missed, gaveUp, passed>>
  BY DEF InsightSync, Set, ghosts
<1>3. /\ J.led \in Ledgers /\ Marked(J.led) /\ J.sel \in Selections /\ J.maxAt \in Seconds
      /\ J.cur \in DrainCursors /\ J.cur.last <= J.maxAt /\ J.sel.target <= J.maxAt
  BY <1>1, <1>2 DEF JobTyped, IInv, TagsTrue
<1>4. J.sel.picked \subseteq Flagged /\ J.sel.picked \subseteq Lines
  BY <1>3, Bounds DEF Selections
<1>5. /\ \A l \in Lines : J.led.lowered[l] \in Nat
      /\ J.led.lowered \in [Lines -> Nat] /\ J.led.reconciled \subseteq Flagged
  BY <1>3 DEF Ledgers
<1>6. led = [J.led EXCEPT
               !.lowered = [l \in Lines |-> IF l \in J.sel.picked \ J.led.reconciled
                                            THEN J.led.lowered[l] + 1 ELSE J.led.lowered[l]],
               !.reconciled = J.led.reconciled \union J.sel.picked]
  BY <1>3 DEF ApplyReconcile, Ledgers
<1>7. led \in Ledgers
  <2> DEFINE low == [l \in Lines |-> IF l \in J.sel.picked \ J.led.reconciled
                                   THEN J.led.lowered[l] + 1 ELSE J.led.lowered[l]]
             tags == J.led.reconciled \union J.sel.picked
  <2>1. low \in [Lines -> Nat] /\ tags \subseteq Flagged
    BY <1>4, <1>5
  <2>2. led = [J.led EXCEPT !.lowered = low, !.reconciled = tags]
    BY <1>6
  <2> HIDE DEF low, tags, led
  <2> QED BY <1>3, <2>1, <2>2 DEF Ledgers
<1>8. /\ led.reconciled = J.led.reconciled \union J.sel.picked
      /\ \A l \in Lines : led.lowered[l] = IF l \in J.sel.picked \ J.led.reconciled
                                           THEN J.led.lowered[l] + 1 ELSE J.led.lowered[l]
  BY <1>3, <1>6 DEF Ledgers
<1>9. Marked(led)
  <2> SUFFICES ASSUME NEW l \in led.reconciled PROVE led.lowered[l] > 0
    BY DEF Marked
  <2>1. l \in Lines
    BY <1>4, <1>5, <1>8, Bounds
  <2>2. l \in J.led.reconciled => J.led.lowered[l] > 0
    BY <1>3 DEF Marked
  <2> HIDE DEF led, J
  <2> QED BY <1>5, <1>8, <2>1, <2>2
<1> HIDE DEF led
<1>10. /\ LinesGrow /\ ClaimsGrow /\ row' \in Ledgers /\ Marked(row')
       /\ \A l \in Lines : row'.lowered[l] >= led.lowered[l]
  BY <1>2, <1>7, <1>9, Writes
<1>11. ASSUME NEW l \in J.sel.picked PROVE row'.lowered[l] > 0
  <2>1. l \in Lines /\ led.lowered[l] > 0
    BY <1>4, <1>8, <1>9 DEF Marked
  <2>2. led.lowered[l] \in Nat /\ row'.lowered[l] \in Nat /\ row'.lowered[l] >= led.lowered[l]
    BY <1>7, <1>10, <2>1 DEF Ledgers
  <2> QED BY <2>1, <2>2
<1>12. ClaimsOf(J, Range(queue'), row'.lowered, passed')
  BY <1>10, ClaimsStay DEF IInv
<1>13. Passable(J.cur, {}, Range(queue'), row'.lowered, passed')
  BY <1>2, <1>12 DEF ClaimsOf
<1>14. Passable(next, J.sel.picked, Range(queue'), row'.lowered, passed')
  BY <1>2, <1>12 DEF ClaimsOf
<1>15. Passable(next, {}, Range(queue'), row'.lowered, passed')
  BY <1>11, <1>14 DEF Passable, Settled
<1>16. ClaimsOf(R, Range(queue'), row'.lowered, passed')
  BY <1>13, <1>15 DEF ClaimsOf
<1>17. JobTyped(R) /\ LinesOf(R, at', Held') /\ R.at \notin {"sync", "ask"}
  BY <1>3 DEF JobTyped, LinesOf
<1>18. TypeOK' /\ cursor'.fails < MaxFail
  BY <1>1, <1>2, <1>10 DEF TypeOK, Ledgers, Typed
<1>19. ClearTo(at', Held', cursor'.last, {})
  BY <1>2, <1>10, LinesStay DEF IInv
<1>20. Passable(drain', {}, Range(queue'), row'.lowered, passed')
  BY <1>2, <1>10, ClaimsStay DEF IInv
<1> HIDE DEF R
<1> QED BY <1>2, <1>10, <1>16, <1>17, <1>18, <1>19, <1>20, Moves

\* The cursor passes the selection (cron_insight.go:291-300 and 388-394).
LEMMA InsightDoneStep ==
  ASSUME IInv, NEW j \in Jobs, InsightDone(j) \/ PassDropped(j) PROVE IInv'
<1> DEFINE J == job[j]
<1>1. JobTyped(J) /\ ClaimsOf(J, Range(queue), row.lowered, passed)
  BY DEF IInv, Typed, ClaimsKept
<1>2. /\ job' = [job EXCEPT ![j] = Idle]
      /\ UNCHANGED <<clock, at, row, cursor, queue, faults, missed, gaveUp, passed>>
  BY DEF InsightDone, PassDropped, End, Set, ghosts
<1>3. CASE InsightDone(j)
  <2>1. J.at = "graph" /\ drain' = AdvanceCursor(J.cur, J.sel.target, J.sel.disposed)
    BY <1>3 DEF InsightDone
  <2>2. J.cur \in DrainCursors /\ J.sel \in Selections
    BY <1>1, <2>1 DEF JobTyped
  <2>3. drain' \in DrainCursors
    BY <2>1, <2>2, Advances
  <2>4. Passable(drain', {}, Range(queue), row.lowered, passed')
    BY <1>1, <1>2, <2>1 DEF ClaimsOf
  <2> QED BY <1>2, <2>3, <2>4, SavesDrain
<1>4. CASE PassDropped(j)
  <2>1. J.at = "advance" /\ drain' = J.cur
    BY <1>4 DEF PassDropped
  <2>2. drain' \in DrainCursors /\ Passable(drain', {}, Range(queue), row.lowered, passed')
    BY <1>1, <1>2, <2>1 DEF JobTyped, ClaimsOf
  <2> QED BY <1>2, <2>2, SavesDrain
<1> QED BY <1>3, <1>4

-----------------------------------------------------------------------------
(* Jobs that end early.                                                        *)

\* What a job was about to save is not saved.
LEMMA ExpireStep == ASSUME IInv, NEW j \in Jobs, Expire(j) PROVE IInv'
<1>1. /\ job' = [job EXCEPT ![j] = Idle] /\ (Fault \/ UNCHANGED faults)
      /\ UNCHANGED <<clock, at, row, cursor, queue, drain, missed, gaveUp, passed>>
  BY DEF Expire, End, Set, ghosts
<1>2. /\ LinesOf(Idle, at', Held') /\ ClaimsOf(Idle, Range(queue), row.lowered, passed)
      /\ JobTyped(Idle) /\ Idle.at \notin {"sync", "ask"}
  BY Resting
<1> QED BY <1>1, <1>2, Passes

\* A crash ends every job and loses nothing that was saved.
LEMMA CrashStep == ASSUME IInv, Crash PROVE IInv'
<1>1. /\ job' = [j \in Jobs |-> Idle] /\ Fault
      /\ UNCHANGED <<clock, at, row, cursor, queue, drain, missed, gaveUp, passed>>
  BY DEF Crash, ghosts
<1>2. TypeOK /\ cursor.fails < MaxFail /\ faults' \in 0 .. MaxFaults
  BY <1>1, Faults DEF IInv, Typed
<1>3. TypeOK' /\ cursor'.fails < MaxFail
  BY <1>1, <1>2 DEF TypeOK
<1>4. job' = [j \in Jobs |-> job'[j]] /\ \A j \in Jobs : job'[j] = Idle
  BY <1>1
<1>5. Typed'
  <2>1. IsFiniteSet(Stored')
    BY <1>1 DEF IInv, Typed, Stored
  <2> QED BY <1>3, <1>4, <2>1, Resting DEF Typed
<1>6. LinesKept'
  <2>1. \A j \in Jobs : LinesOf(job'[j], at', Held')
    BY <1>4, Resting
  <2>2. ClearTo(at', Held', cursor'.last, {})
    BY <1>1 DEF IInv, LinesKept, Held
  <2> QED BY <2>1, <2>2 DEF LinesKept
<1>7. ClaimsKept'
  <2>1. \A j \in Jobs : ClaimsOf(job'[j], Range(queue'), row'.lowered, passed')
    BY <1>4, Resting
  <2> QED BY <1>1, <2>1 DEF IInv, ClaimsKept
<1>8. TagsTrue'
  BY <1>1, <1>4, Resting DEF IInv, TagsTrue
<1> QED BY <1>5, <1>6, <1>7, <1>8 DEF IInv

-----------------------------------------------------------------------------
(* The theorems.                                                               *)

\* The crons start with nothing to pass.
LEMMA IInvInit == Init => IInv
<1> SUFFICES ASSUME Init PROVE IInv
  OBVIOUS
<1>1. job = [j \in Jobs |-> job[j]] /\ \A j \in Jobs : job[j] = Idle
  BY DEF Init
<1>2. TypeOK /\ cursor.fails < MaxFail
  BY Bounds DEF Init, TypeOK, NoRows, Seconds
<1>3. Typed
  <2>1. IsFiniteSet(Stored)
    BY FS_EmptySet DEF Init, Stored
  <2> QED BY <1>1, <1>2, <2>1, Resting DEF Typed
<1>4. LinesKept
  <2>1. ClearTo(at, Held, cursor.last, {})
    BY Bounds DEF Init, ClearTo
  <2>2. \A j \in Jobs : LinesOf(job[j], at, Held)
    BY <1>1, Resting
  <2> QED BY <2>1, <2>2 DEF LinesKept
<1>5. ClaimsKept
  <2>1. Range(queue) = {} /\ drain.done = {}
    BY DEF Init, Range
  <2>2. Passable(drain, {}, Range(queue), row.lowered, passed)
    BY <2>1 DEF Passable
  <2>3. \A j \in Jobs : ClaimsOf(job[j], Range(queue), row.lowered, passed)
    BY <1>1, Resting
  <2> QED BY <2>2, <2>3 DEF ClaimsKept
<1>6. TagsTrue
  <2>1. Marked(row)
    BY DEF Init, NoRows, Marked
  <2> QED BY <1>1, <2>1, Resting DEF TagsTrue
<1> QED BY <1>3, <1>4, <1>5, <1>6 DEF IInv

\* Every step keeps the invariant.
LEMMA IInvNext == IInv /\ [Next]_vars => IInv'
<1> SUFFICES ASSUME IInv, [Next]_vars PROVE IInv'
  OBVIOUS
<1>1. CASE UNCHANGED vars
  <2>1. UNCHANGED <<clock, at, row, cursor, queue, drain, job, faults, missed, gaveUp, passed>>
    BY <1>1 DEF vars, ghosts
  <2>2. Typed'
    BY <2>1 DEF IInv, Typed, TypeOK, JobTyped, Stored
  <2> QED BY <2>1, <2>2 DEF IInv, LinesKept, ClaimsKept, TagsTrue, Held
<1>2. CASE Tick \/ Crash
  BY <1>2, TickStep, CrashStep
<1>3. CASE \E l \in Lines, s \in Seconds : AddObservation(l, s)
  BY <1>3, AddStep
<1>4. ASSUME NEW j \in Jobs,
             \/ Consolidate(j) \/ ConsolidateAgain(j) \/ CursorUnread(j)
             \/ Extract(j) \/ ExtractFails(j) \/ SyncFold(j)
             \/ Record(j) \/ QueueUnread(j) \/ AppendFlagged(j) \/ AppendFails(j) \/ SaveCursor(j)
      PROVE  IInv'
  BY <1>4, BeginSteps, ExtractStep, ExtractFailsStep, SyncFoldStep, RecordSteps, AppendStep,
     AppendFailsStep, SaveCursorStep
<1>5. ASSUME NEW j \in Jobs,
             \/ Insight(j) \/ InsightAgain(j) \/ DrainUnread(j)
             \/ InsightFails(j) \/ InsightSync(j) \/ WriteFails(j)
             \/ InsightDone(j) \/ PassDropped(j) \/ Expire(j)
      PROVE  IInv'
  BY <1>5, DrainSteps, InsightFailsStep, InsightSyncStep, WriteFailsStep, InsightDoneStep, ExpireStep
<1> QED BY <1>1, <1>2, <1>3, <1>4, <1>5 DEF Next

\* The inductive invariant holds of every behaviour of the crons.
THEOREM Invariance == Spec => []IInv
BY IInvInit, IInvNext, PTL DEF Spec

\* Every variable keeps its type: the escalation queue stays within its bound, and the
\* consolidation's count of failures below its ceiling.
THEOREM TypeCorrect == Spec => []TypeOK
<1>1. IInv => TypeOK
  BY DEF IInv, Typed
<1> QED BY <1>1, Invariance, PTL

\* The consolidation cursor passes no line that was not folded into the rows, given up as
\* poison, or stored or cut off behind a read, whatever calls fail, jobs overlap, expire or
\* die (cron.go:269-273, 361-364).
THEOREM CursorSkipsNothing == Spec => []NothingSkipped
<1>1. IInv => NothingSkipped
  <2> SUFFICES ASSUME IInv, NEW l \in Stored \cap Distilled, at[l] <= cursor.last
               PROVE  l \in row.beliefs \union missed \union gaveUp
    BY DEF NothingSkipped
  <2>1. ClearTo(at, Held, cursor.last, {})
    BY DEF IInv, LinesKept
  <2> QED BY <2>1 DEF ClearTo, Held, Stored
<1> QED BY <1>1, Invariance, PTL

\* The insight cursor passes no queued claim that was not applied, dropped by the persona,
\* skipped as poison or queued behind it (cron_insight.go:58-64, 388-390).
THEOREM EscalationsAreKept == Spec => []EscalationsKept
<1>1. IInv => EscalationsKept
  <2> SUFFICES ASSUME IInv, NEW it \in Range(queue), AlreadyProcessed(drain, it)
               PROVE  it.claim \notin Admitted \/ row.lowered[it.claim] > 0 \/ it \in passed
    BY DEF EscalationsKept
  <2>1. Passable(drain, {}, Range(queue), row.lowered, passed)
    BY DEF IInv, ClaimsKept
  <2> QED BY <2>1 DEF Passable, Settled
<1> QED BY <1>1, Invariance, PTL

-----------------------------------------------------------------------------
(* The goal graph.  The insight cron writes a host's goal_graphs row as well as  *)
(* its beliefs, and the host merges that row into the graph it plans from: for    *)
(* any goals, questions, chains, cap and order of the nodes, no writer takes live *)
(* work out of the graph.  The theorems carry GoalGraph's assumption as their     *)
(* hypothesis.                                                                    *)

CONSTANTS Goals, Acquirable, Question, Enabler, Chains, Order, FirstGoal, Cap, MaxEvents

VARIABLES graph, local, stored, goal, turn, closer, limbic, snap, cron, budget

\* `stored` is the goal_graphs row.
G == INSTANCE GoalGraph WITH row <- stored

\* A graph in which only goals are queued, and only goals are blocked by a question.
Sound(g) ==
  /\ G!IsGraph(g)
  /\ \A id \in DOMAIN g.nodes : g.nodes[id].kind = "open_goal" => id \in Goals
  /\ \A e \in g.edges : e[3] = "blocked_by" => e[1] \in Goals

GraphInv ==
  /\ G!ConstantsOK /\ G!TypeOK
  /\ \A g \in {graph, local, stored, snap, cron.work} : Sound(g)
  /\ closer.goals \subseteq Goals

\* The live nodes of g are nodes of h.
KeepsLive(g, h) == DOMAIN g.nodes \ G!Terminal(g) \subseteq DOMAIN h.nodes

\* Goals, chains, questions and enablers are ids.
LEMMA GraphIds ==
  /\ Goals \subseteq G!Ids /\ Chains \subseteq G!Ids
  /\ \A g \in Goals : Question[g] \in G!Ids /\ Enabler[g] \in G!Ids
BY DEF G!Ids

\* What the assumption says of the first goal and the bounds.
LEMMA GraphConstants ==
  ASSUME G!ConstantsOK PROVE FirstGoal \in Goals /\ MaxClock \in Nat /\ MaxEvents \in Nat
BY DEF G!ConstantsOK

\* The empty graph.
LEMMA NoneSound == Sound(G!None)
BY DEF Sound, G!IsGraph, G!None

\* A node that is put in takes the place of the one it had (goalgraph.go:104-115).
LEMMA PutSound ==
  ASSUME NEW g, Sound(g), NEW id \in G!Ids, NEW n \in G!NodeType, n.kind = "open_goal" => id \in Goals
  PROVE  /\ Sound(G!Put(g, id, n)) /\ G!Put(g, id, n).edges = g.edges
         /\ DOMAIN G!Put(g, id, n).nodes = DOMAIN g.nodes \union {id}
         /\ \A x \in DOMAIN g.nodes \union {id} :
              G!Put(g, id, n).nodes[x] = IF x = id THEN n ELSE g.nodes[x]
<1> DEFINE N == [x \in DOMAIN g.nodes \union {id} |-> IF x = id THEN n ELSE g.nodes[x]]
           h == G!Put(g, id, n)
<1>1. DOMAIN g = {"nodes", "edges"} /\ G!IsGraph(g)
  BY DEF Sound, G!IsGraph
<1>2. h = [g EXCEPT !.nodes = N]
  BY DEF G!Put
<1> HIDE DEF N
<1>3. DOMAIN h = {"nodes", "edges"} /\ h.nodes = N /\ h.edges = g.edges
  BY <1>1, <1>2
<1> HIDE DEF h
<1>4. DOMAIN N = DOMAIN g.nodes \union {id} /\ \A x \in DOMAIN N : N[x] = IF x = id THEN n ELSE g.nodes[x]
  BY DEF N
<1>5. G!IsGraph(h)
  BY <1>1, <1>3, <1>4 DEF G!IsGraph
<1>6. Sound(h)
  BY <1>3, <1>4, <1>5 DEF Sound
<1> QED BY <1>3, <1>4, <1>6 DEF h

\* The stored node or a fresh one.
LEMMA NodeForTyped ==
  ASSUME NEW g, Sound(g), NEW id \in G!Ids, NEW kind \in G!Kinds, kind = "open_goal" => id \in Goals,
         clock \in 0 .. MaxClock
  PROVE  /\ G!NodeFor(g, id, kind) \in G!NodeType
         /\ G!NodeFor(g, id, kind).kind = "open_goal" => id \in Goals
<1>1. CASE G!Has(g, id)
  BY <1>1 DEF G!NodeFor, G!Has, Sound, G!IsGraph
<1>2. CASE ~G!Has(g, id)
  BY <1>2 DEF G!NodeFor, G!NodeType, G!Statuses
<1> QED BY <1>1, <1>2

\* An upsert keeps a graph a graph and adds at most its node (goalgraph.go:148-163).
LEMMA UpsertSound ==
  ASSUME NEW g, Sound(g), NEW id \in G!Ids, NEW kind \in G!Kinds, kind = "open_goal" => id \in Goals,
         NEW status \in G!Statuses \union {""}, clock \in 0 .. MaxClock
  PROVE  /\ Sound(G!Upsert(g, id, kind, status))
         /\ DOMAIN g.nodes \subseteq DOMAIN G!Upsert(g, id, kind, status).nodes
<1> DEFINE n == G!NodeFor(g, id, kind)
           m == [kind |-> G!StrongerKind(kind, n.kind), status |-> IF status = "" THEN n.status ELSE status,
                 at |-> clock]
<1>1. n \in G!NodeType /\ (n.kind = "open_goal" => id \in Goals)
  BY NodeForTyped
<1> HIDE DEF n
<1>2. G!StrongerKind(kind, n.kind) \in {kind, n.kind}
  BY DEF G!StrongerKind
<1>3. m \in G!NodeType /\ (m.kind = "open_goal" => id \in Goals)
  BY <1>1, <1>2 DEF G!NodeType
<1>4. G!Upsert(g, id, kind, status) = G!Put(g, id, m)
  BY DEF G!Upsert, n
<1> HIDE DEF m
<1>5. Sound(G!Put(g, id, m)) /\ DOMAIN G!Put(g, id, m).nodes = DOMAIN g.nodes \union {id}
  BY <1>3, PutSound, Zenon
<1> QED BY <1>4, <1>5

\* So does a change of status (goalgraph.go:186-192).
LEMMA SetStatusSound ==
  ASSUME NEW g, Sound(g), NEW id \in G!Ids, NEW status \in G!Statuses, clock \in 0 .. MaxClock
  PROVE  /\ Sound(G!SetStatus(g, id, status))
         /\ DOMAIN g.nodes \subseteq DOMAIN G!SetStatus(g, id, status).nodes
<1> DEFINE n == G!NodeFor(g, id, "state")  m == [n EXCEPT !.status = status, !.at = clock]
<1>1. n \in G!NodeType /\ (n.kind = "open_goal" => id \in Goals)
  BY NodeForTyped DEF G!Kinds
<1> HIDE DEF n
<1>2. m \in G!NodeType /\ (m.kind = "open_goal" => id \in Goals)
  BY <1>1 DEF G!NodeType
<1>3. G!SetStatus(g, id, status) = G!Put(g, id, m)
  BY DEF G!SetStatus, n
<1> HIDE DEF m
<1> QED BY <1>2, <1>3, PutSound

\* A link adds its two ends at most, and one edge (goalgraph.go:171-183).
LEMMA LinkSound ==
  ASSUME NEW g, Sound(g), NEW from \in G!Ids, NEW to \in G!Ids,
         NEW rel \in {"requires", "produces", "enables", "blocked_by"},
         rel = "blocked_by" => from \in Goals, clock \in 0 .. MaxClock
  PROVE  /\ Sound(G!Link(g, from, to, rel))
         /\ DOMAIN g.nodes \subseteq DOMAIN G!Link(g, from, to, rel).nodes
<1> DEFINE n == G!NodeFor(g, from, "state")  h == G!Put(g, from, n)
           m == G!NodeFor(h, to, "state")  k == G!Put(h, to, m)
           l == [k EXCEPT !.edges = k.edges \union {<<from, to, rel>>}]
<1>1. n \in G!NodeType /\ (n.kind = "open_goal" => from \in Goals)
  BY NodeForTyped DEF G!Kinds
<1> HIDE DEF n
<1>2. Sound(h) /\ DOMAIN g.nodes \subseteq DOMAIN h.nodes
  BY <1>1, PutSound
<1> HIDE DEF h
<1>3. m \in G!NodeType /\ (m.kind = "open_goal" => to \in Goals)
  BY <1>2, NodeForTyped DEF G!Kinds
<1> HIDE DEF m
<1>4. Sound(k) /\ DOMAIN h.nodes \subseteq DOMAIN k.nodes
  BY <1>2, <1>3, PutSound
<1>5. G!Link(g, from, to, rel) = [k EXCEPT !.edges = k.edges \union {<<from, to, rel>>}]
  BY DEF G!Link, k, m, h, n
<1> HIDE DEF k
<1>6. DOMAIN k = {"nodes", "edges"} /\ k.edges \subseteq G!EdgeType
  BY <1>4 DEF Sound, G!IsGraph
<1>7. DOMAIN l = {"nodes", "edges"} /\ l.nodes = k.nodes /\ l.edges = k.edges \union {<<from, to, rel>>}
  BY <1>6
<1> HIDE DEF l
<1>8. <<from, to, rel>> \in G!EdgeType
  BY DEF G!EdgeType
<1>9. G!IsGraph(l)
  BY <1>4, <1>6, <1>7, <1>8 DEF Sound, G!IsGraph
<1>10. Sound(l)
  BY <1>4, <1>7, <1>9 DEF Sound
<1> QED BY <1>2, <1>4, <1>5, <1>7, <1>10 DEF l

\* Pruning takes closed nodes only (goalgraph.go:571-620).
LEMMA PruneSound ==
  ASSUME NEW g, Sound(g)
  PROVE  Sound(G!PruneTerminal(g)) /\ KeepsLive(g, G!PruneTerminal(g))
<1> DEFINE D == G!Evicted(g)  h == G!Without(g, D)
<1>1. D \subseteq G!Terminal(g)
  BY DEF G!Evicted
<1> HIDE DEF D
<1>2. /\ DOMAIN h = {"nodes", "edges"} /\ DOMAIN h.nodes = DOMAIN g.nodes \ D
      /\ \A id \in DOMAIN h.nodes : h.nodes[id] = g.nodes[id]
      /\ h.edges \subseteq g.edges
  BY DEF G!Without
<1>3. G!PruneTerminal(g) = h
  BY DEF G!PruneTerminal, D
<1> HIDE DEF h
<1>4. G!IsGraph(h)
  BY <1>2 DEF Sound, G!IsGraph
<1>5. Sound(h)
  BY <1>2, <1>4 DEF Sound
<1> QED BY <1>1, <1>2, <1>3, <1>5 DEF KeepsLive

\* A merge keeps the statuses of the host's own nodes, so that what it prunes afterwards
\* is none of the host's live ones (goalgraph.go:503-549).
LEMMA MergeSound ==
  ASSUME NEW g, Sound(g), NEW s, Sound(s), clock \in 0 .. MaxClock
  PROVE  Sound(G!ImportMerge(g, s)) /\ KeepsLive(g, G!ImportMerge(g, s))
<1> DEFINE ends == UNION {{e[1], e[2]} : e \in s.edges}
           ids == DOMAIN g.nodes \union DOMAIN s.nodes \union ends
           merged(id) ==
             CASE G!Has(g, id) /\ G!Has(s, id) ->
                    [g.nodes[id] EXCEPT !.kind = G!StrongerKind(g.nodes[id].kind, s.nodes[id].kind)]
               [] ~G!Has(g, id) /\ G!Has(s, id) -> s.nodes[id]
               [] OTHER -> G!NodeFor(g, id, "state")
           h == [nodes |-> [id \in ids |-> merged(id)], edges |-> g.edges \union s.edges]
<1>1. G!ImportMerge(g, s) = G!PruneTerminal(h)
  BY DEF G!ImportMerge
<1>2. G!IsGraph(g) /\ G!IsGraph(s)
  BY DEF Sound
<1>3. ends \subseteq G!Ids
  BY <1>2 DEF G!IsGraph, G!EdgeType
<1> HIDE DEF ends
<1>4. ids \subseteq G!Ids
  BY <1>2, <1>3 DEF G!IsGraph
<1>5. ASSUME NEW id \in ids
      PROVE  /\ merged(id) \in G!NodeType /\ (merged(id).kind = "open_goal" => id \in Goals)
             /\ G!Has(g, id) => merged(id).status = g.nodes[id].status
  <2>1. CASE G!Has(g, id) /\ G!Has(s, id)
    <3>1. /\ g.nodes[id] \in G!NodeType /\ s.nodes[id] \in G!NodeType
          /\ g.nodes[id].kind = "open_goal" => id \in Goals
          /\ s.nodes[id].kind = "open_goal" => id \in Goals
      BY <1>2, <2>1 DEF Sound, G!IsGraph, G!Has
    <3>2. G!StrongerKind(g.nodes[id].kind, s.nodes[id].kind) \in {g.nodes[id].kind, s.nodes[id].kind}
      BY DEF G!StrongerKind
    <3>3. merged(id) = [g.nodes[id] EXCEPT !.kind = G!StrongerKind(g.nodes[id].kind, s.nodes[id].kind)]
      BY <2>1
    <3> HIDE DEF merged
    <3> QED BY <3>1, <3>2, <3>3 DEF G!NodeType
  <2>2. CASE ~G!Has(g, id) /\ G!Has(s, id)
    <3>1. merged(id) = s.nodes[id]
      BY <2>2
    <3> QED BY <1>2, <2>2, <3>1 DEF Sound, G!IsGraph, G!Has
  <2>3. CASE ~G!Has(s, id)
    <3>1. merged(id) = G!NodeFor(g, id, "state")
      BY <2>3
    <3>2. merged(id) \in G!NodeType /\ (merged(id).kind = "open_goal" => id \in Goals)
      BY <1>4, <3>1, NodeForTyped DEF G!Kinds
    <3> QED BY <3>1, <3>2 DEF G!NodeFor
  <2> QED BY <2>1, <2>2, <2>3
<1> HIDE DEF merged, ids
<1>6. /\ DOMAIN h = {"nodes", "edges"} /\ DOMAIN h.nodes = ids /\ h.edges = g.edges \union s.edges
      /\ \A id \in ids : h.nodes[id] = merged(id)
  OBVIOUS
<1> HIDE DEF h
<1>7. G!IsGraph(h)
  BY <1>2, <1>4, <1>5, <1>6 DEF G!IsGraph
<1>8. Sound(h)
  BY <1>5, <1>6, <1>7 DEF Sound
<1>9. Sound(G!PruneTerminal(h)) /\ KeepsLive(h, G!PruneTerminal(h))
  BY <1>8, PruneSound
<1>10. DOMAIN g.nodes \ G!Terminal(g) \subseteq DOMAIN h.nodes \ G!Terminal(h)
  BY <1>5, <1>6 DEF G!Terminal, G!Has, ids
<1> QED BY <1>1, <1>9, <1>10 DEF KeepsLive

\* The cron's additions and closings (cron_insight.go:759-815).
LEMMA InsightSound ==
  ASSUME NEW g, Sound(g), NEW chains \in SUBSET Chains, NEW closes \in SUBSET G!Ids,
         clock \in 0 .. MaxClock
  PROVE  Sound(G!ApplyInsight(g, chains, closes))
<1> DEFINE ids == DOMAIN g.nodes \union chains
           one(id) == IF id \in chains THEN [G!NodeFor(g, id, "state") EXCEPT !.at = clock] ELSE g.nodes[id]
           two(id) == IF id \in closes THEN [one(id) EXCEPT !.status = "done", !.at = clock] ELSE one(id)
           h == G!ApplyInsight(g, chains, closes)
<1>1. G!IsGraph(g) /\ ids \subseteq G!Ids
  BY GraphIds DEF Sound, G!IsGraph
<1>2. /\ DOMAIN h = {"nodes", "edges"} /\ DOMAIN h.nodes = ids
      /\ \A id \in ids : h.nodes[id] = two(id)
      /\ h.edges = g.edges \union ((DOMAIN g.nodes \intersect Goals) \X chains \X {"requires"})
  BY DEF G!ApplyInsight
<1>3. ASSUME NEW id \in ids PROVE one(id) \in G!NodeType /\ (one(id).kind = "open_goal" => id \in Goals)
  <2>1. CASE id \in chains
    <3>1. G!NodeFor(g, id, "state") \in G!NodeType /\ (G!NodeFor(g, id, "state").kind = "open_goal" => id \in Goals)
      BY <1>1, NodeForTyped DEF G!Kinds
    <3> QED BY <2>1, <3>1 DEF G!NodeType
  <2>2. CASE id \notin chains
    BY <1>1, <2>2 DEF Sound, G!IsGraph
  <2> QED BY <2>1, <2>2
<1> HIDE DEF one
<1>4. \A id \in ids : two(id) \in G!NodeType /\ (two(id).kind = "open_goal" => id \in Goals)
  BY <1>3 DEF G!NodeType, G!Statuses
<1> HIDE DEF two, h
<1>5. ASSUME NEW e \in (DOMAIN g.nodes \intersect Goals) \X chains \X {"requires"}
      PROVE  e \in G!EdgeType /\ e[3] = "requires"
  BY GraphIds DEF G!EdgeType
<1>6. h.edges \subseteq G!EdgeType
  BY <1>1, <1>2, <1>5 DEF G!IsGraph
<1>7. G!IsGraph(h)
  BY <1>1, <1>2, <1>4, <1>6 DEF G!IsGraph
<1>8. Sound(h)
  BY <1>2, <1>4, <1>5, <1>7 DEF Sound
<1> QED BY <1>8 DEF h

\* A row that is refused stays as it was (ltm.go:885-921).
LEMMA SyncSound ==
  ASSUME NEW g, Sound(g), NEW s, Sound(s) PROVE Sound(G!SyncGoalGraph(g, s))
BY DEF G!SyncGoalGraph

\* The graph is the host's, or one that a step makes of it: every copy stays sound, and the
\* graph's live nodes stay in it unless it is loaded or imported.
Kept == limbic \notin {"load", "bootImport"} /\ limbic' # "load" => KeepsLive(graph, graph')

\* A step that writes only the graph.
LEMMA GraphWritten ==
  ASSUME GraphInv, Sound(graph'), DOMAIN graph.nodes \subseteq DOMAIN graph'.nodes,
         UNCHANGED <<clock, local, stored, limbic, snap, cron>>,
         goal' \in Goals, turn' \in {"idle", "seed", "ask", "block", "recover"},
         closer' \in [at : {"idle", "check", "unblock"}, goal : Goals, goals : SUBSET Goals],
         budget' \in 0 .. MaxEvents
  PROVE  GraphInv' /\ Kept
<1>1. closer' \in [at : {"idle", "check", "unblock"}, goal : Goals, goals : SUBSET G!Ids]
  BY GraphIds
<1>2. \A g \in {graph', local', stored', snap', cron'.work} : Sound(g)
  BY DEF GraphInv
<1>3. \A g \in {graph', local', stored', snap', cron'.work} : G!IsGraph(g)
  BY <1>2 DEF Sound
<1>4. G!TypeOK'
  BY <1>1, <1>3 DEF GraphInv, G!TypeOK
<1>5. Kept
  BY DEF Kept, KeepsLive
<1> QED BY <1>2, <1>4, <1>5 DEF GraphInv

\* What the invariant says of the host's variables.
LEMMA GraphTypes ==
  ASSUME GraphInv
  PROVE  /\ G!ConstantsOK /\ FirstGoal \in Goals
         /\ Sound(graph) /\ Sound(local) /\ Sound(stored) /\ Sound(snap) /\ Sound(cron.work)
         /\ clock \in 0 .. MaxClock /\ goal \in Goals /\ goal \in G!Ids
         /\ Question[goal] \in G!Ids /\ Enabler[goal] \in G!Ids
         /\ turn \in {"idle", "seed", "ask", "block", "recover"}
         /\ closer \in [at : {"idle", "check", "unblock"}, goal : Goals, goals : SUBSET Goals]
         /\ budget \in 0 .. MaxEvents
<1>1. closer \in [at : {"idle", "check", "unblock"}, goal : Goals, goals : SUBSET G!Ids]
      /\ closer.goals \subseteq Goals
  BY DEF GraphInv, G!TypeOK
<1>2. closer \in [at : {"idle", "check", "unblock"}, goal : Goals, goals : SUBSET Goals]
  BY <1>1
<1> QED BY <1>2, GraphIds, GraphConstants DEF GraphInv, G!TypeOK

\* What is left of the bound on events.
LEMMA Spends ==
  ASSUME GraphInv, G!Spend \/ UNCHANGED budget PROVE budget' \in 0 .. MaxEvents
BY GraphConstants DEF GraphInv, G!TypeOK, G!Spend

\* The director opens, blocks, recovers and closes goals (aspirations.go:367-400).
LEMMA DirectorStep == ASSUME GraphInv, G!Director PROVE GraphInv' /\ Kept
<1> USE GraphTypes
<1>1. ASSUME G!Advance PROVE GraphInv' /\ Kept
  <2>1. PICK next \in G!OpenOf(graph, "open_goal") \ {goal} :
          graph' = G!SetStatus(graph, next, "active") /\ goal' = next
    BY <1>1 DEF G!Advance
  <2>2. next \in Goals /\ next \in G!Ids
    BY GraphIds DEF G!OpenOf, Sound
  <2>3. Sound(graph') /\ DOMAIN graph.nodes \subseteq DOMAIN graph'.nodes
    BY <2>1, <2>2, SetStatusSound DEF G!Statuses
  <2>4. UNCHANGED <<clock, local, stored, closer, limbic, snap, cron, turn, budget>>
    BY <1>1 DEF G!Advance, G!Elsewhere
  <2> QED BY <2>1, <2>2, <2>3, <2>4, GraphWritten
<1>2. ASSUME G!SeedCheck PROVE GraphInv' /\ Kept
  BY <1>2, GraphWritten DEF G!SeedCheck, G!Elsewhere
<1>3. ASSUME G!Seed PROVE GraphInv' /\ Kept
  <2>1. Sound(graph') /\ DOMAIN graph.nodes \subseteq DOMAIN graph'.nodes
    BY <1>3, UpsertSound DEF G!Seed, G!Kinds, G!Statuses
  <2> QED BY <1>3, <2>1, GraphWritten DEF G!Seed, G!Elsewhere
<1>4. ASSUME G!BlockCheck PROVE GraphInv' /\ Kept
  BY <1>4, Spends, GraphWritten DEF G!BlockCheck, G!Elsewhere
<1>5. ASSUME G!AskQuestion PROVE GraphInv' /\ Kept
  <2> DEFINE q == Question[goal]
             asked == G!Upsert(graph, q, "open_question", IF G!Has(graph, q) THEN "" ELSE "open")
  <2>1. Sound(asked) /\ DOMAIN graph.nodes \subseteq DOMAIN asked.nodes
    BY UpsertSound DEF G!Kinds, G!Statuses
  <2>2. graph' = IF goal \in Acquirable THEN G!Link(asked, goal, q, "blocked_by") ELSE asked
    BY <1>5 DEF G!AskQuestion
  <2> HIDE DEF asked
  <2>3. /\ Sound(G!Link(asked, goal, q, "blocked_by"))
        /\ DOMAIN asked.nodes \subseteq DOMAIN G!Link(asked, goal, q, "blocked_by").nodes
    BY <2>1, LinkSound
  <2>4. Sound(graph') /\ DOMAIN graph.nodes \subseteq DOMAIN graph'.nodes
    BY <2>1, <2>2, <2>3
  <2> QED BY <1>5, <2>4, GraphWritten DEF G!AskQuestion, G!Elsewhere
<1>6. ASSUME G!SetBlocked PROVE GraphInv' /\ Kept
  <2> DEFINE stuck == G!SetStatus(graph, goal, "blocked")
             linked == IF goal \in Acquirable THEN stuck ELSE G!Link(stuck, goal, Question[goal], "blocked_by")
  <2>1. Sound(stuck) /\ DOMAIN graph.nodes \subseteq DOMAIN stuck.nodes
    BY SetStatusSound DEF G!Statuses
  <2> HIDE DEF stuck
  <2>2. Sound(linked) /\ DOMAIN graph.nodes \subseteq DOMAIN linked.nodes
    BY <2>1, LinkSound
  <2>3. graph' = G!WithEnabler(linked)
    BY <1>6 DEF G!SetBlocked, stuck
  <2> HIDE DEF linked
  <2> DEFINE e == Enabler[goal]  a == G!Upsert(linked, e, "subgoal", "open")
             b == G!Link(a, goal, e, "requires")  c == G!Link(b, e, goal, "enables")
  <2>4. Sound(a) /\ DOMAIN linked.nodes \subseteq DOMAIN a.nodes
    BY <2>2, UpsertSound DEF G!Kinds, G!Statuses
  <2> HIDE DEF a
  <2>5. Sound(b) /\ DOMAIN a.nodes \subseteq DOMAIN b.nodes
    BY <2>4, LinkSound
  <2> HIDE DEF b
  <2>6. Sound(c) /\ DOMAIN b.nodes \subseteq DOMAIN c.nodes
    BY <2>5, LinkSound
  <2>7. graph' = linked \/ graph' = c
    BY <2>3 DEF G!WithEnabler, a, b
  <2> HIDE DEF c
  <2>8. Sound(graph') /\ DOMAIN graph.nodes \subseteq DOMAIN graph'.nodes
    BY <2>2, <2>4, <2>5, <2>6, <2>7
  <2> QED BY <1>6, <2>8, GraphWritten DEF G!SetBlocked, G!Elsewhere
<1>7. ASSUME NEW g, Sound(g)
      PROVE  Sound(G!EnablerDone(g)) /\ DOMAIN g.nodes \subseteq DOMAIN G!EnablerDone(g).nodes
  BY <1>7, SetStatusSound DEF G!EnablerDone, G!Statuses
<1>8. ASSUME G!Succeed PROVE GraphInv' /\ Kept
  <2>1. Sound(graph') /\ DOMAIN graph.nodes \subseteq DOMAIN graph'.nodes
    BY <1>7, <1>8 DEF G!Succeed
  <2> QED BY <1>8, <2>1, Spends, GraphWritten DEF G!Succeed, G!Elsewhere
<1>9. ASSUME G!Recover PROVE GraphInv' /\ Kept
  <2> DEFINE h == G!SetStatus(graph, goal, "active")
  <2>1. Sound(h) /\ DOMAIN graph.nodes \subseteq DOMAIN h.nodes
    BY SetStatusSound DEF G!Statuses
  <2>2. graph' = G!EnablerDone(h)
    BY <1>9 DEF G!Recover
  <2> HIDE DEF h
  <2>3. Sound(graph') /\ DOMAIN graph.nodes \subseteq DOMAIN graph'.nodes
    BY <1>7, <2>1, <2>2
  <2> QED BY <1>9, <2>3, GraphWritten DEF G!Recover, G!Elsewhere
<1>10. ASSUME NEW status \in G!Closed, G!CloseGoal(status) PROVE GraphInv' /\ Kept
  <2>1. Sound(graph') /\ DOMAIN graph.nodes \subseteq DOMAIN graph'.nodes
    BY <1>10, SetStatusSound DEF G!CloseGoal, G!Statuses, G!Closed
  <2> QED BY <1>10, <2>1, Spends, GraphWritten DEF G!CloseGoal, G!Elsewhere
<1>11. ASSUME NEW t \in Goals, G!Adopt(t) PROVE GraphInv' /\ Kept
  <2>1. Sound(graph') /\ DOMAIN graph.nodes \subseteq DOMAIN graph'.nodes
    BY <1>11, UpsertSound, GraphIds DEF G!Adopt, G!Kinds, G!Statuses
  <2> QED BY <1>11, <2>1, Spends, GraphWritten DEF G!Adopt, G!Elsewhere
<1> QED BY <1>1, <1>2, <1>3, <1>4, <1>5, <1>6, <1>8, <1>9, <1>10, <1>11 DEF G!Director

\* The reactive goroutine closes an answered question (reactive.go:667-686).
LEMMA ReactiveStep == ASSUME GraphInv, G!Reactive PROVE GraphInv' /\ Kept
<1> USE GraphTypes
<1>1. ASSUME NEW q \in G!Ids, G!CloseQuestion(q) PROVE GraphInv' /\ Kept
  <2>1. Sound(graph') /\ DOMAIN graph.nodes \subseteq DOMAIN graph'.nodes
    BY <1>1, SetStatusSound DEF G!CloseQuestion, G!Statuses
  <2>2. G!BlockedBy(graph, q) \subseteq Goals
    BY DEF G!BlockedBy, Sound
  <2>3. closer' \in [at : {"idle", "check", "unblock"}, goal : Goals, goals : SUBSET Goals]
    BY <1>1, <2>2 DEF G!CloseQuestion
  <2> QED BY <1>1, <2>1, <2>3, Spends, GraphWritten DEF G!CloseQuestion, G!NotReactive
<1>2. ASSUME G!CheckBlocked PROVE GraphInv' /\ Kept
  <2>1. closer' \in [at : {"idle", "check", "unblock"}, goal : Goals, goals : SUBSET Goals]
    BY <1>2 DEF G!CheckBlocked, G!Idle
  <2> QED BY <1>2, <2>1, GraphWritten DEF G!CheckBlocked, G!NotReactive
<1>3. ASSUME G!Unblock PROVE GraphInv' /\ Kept
  <2>1. closer.goal \in G!Ids
    BY GraphIds
  <2>2. Sound(graph') /\ DOMAIN graph.nodes \subseteq DOMAIN graph'.nodes
    BY <1>3, <2>1, SetStatusSound DEF G!Unblock, G!Statuses
  <2>3. closer' \in [at : {"idle", "check", "unblock"}, goal : Goals, goals : SUBSET Goals]
    BY <1>3 DEF G!Unblock
  <2> QED BY <1>3, <2>2, <2>3, GraphWritten DEF G!Unblock, G!NotReactive
<1> QED BY <1>1, <1>2, <1>3 DEF G!Reactive

\* A step that keeps the director and the reactive goroutine where they are.
LEMMA CopiesWritten ==
  ASSUME GraphInv, Sound(graph'), Sound(local'), Sound(stored'), Sound(snap'),
         UNCHANGED <<clock, goal, turn, closer, cron>>,
         limbic' \in {"load", "boot", "bootImport", "idle", "merge", "sync"},
         budget' \in 0 .. MaxEvents
  PROVE  GraphInv'
<1>1. \A g \in {graph', local', stored', snap', cron'.work} : Sound(g)
  BY DEF GraphInv
<1>2. \A g \in {graph', local', stored', snap', cron'.work} : G!IsGraph(g)
  BY <1>1 DEF Sound
<1>3. G!TypeOK'
  BY <1>2 DEF GraphInv, G!TypeOK
<1> QED BY <1>1, <1>3 DEF GraphInv

\* The limbic goroutine prunes, merges, saves and pushes (goalgraph.go:36-57 of the runtime).
LEMMA LimbicStep == ASSUME GraphInv, G!Limbic PROVE GraphInv' /\ Kept
<1> USE GraphTypes, NoneSound
<1>1. CASE G!LoadLocal
  BY <1>1, CopiesWritten DEF G!LoadLocal, G!NotLimbic, Kept
<1>2. CASE G!BootFetch
  BY <1>2, CopiesWritten DEF G!BootFetch, G!NotLimbic, Kept, KeepsLive
<1>3. CASE G!BootImport
  BY <1>3, CopiesWritten DEF G!BootImport, G!NotLimbic, Kept
<1>4. CASE G!FlushTick \/ G!FetchFails
  <2>1. graph' = G!PruneTerminal(graph) /\ Sound(snap') /\ limbic' = "merge" /\ (G!Spend \/ UNCHANGED budget)
        /\ UNCHANGED <<clock, goal, turn, closer, cron, local, stored>>
    BY <1>4 DEF G!FlushTick, G!FetchFails, G!NotLimbic
  <2>2. Sound(graph') /\ KeepsLive(graph, graph')
    BY <2>1, PruneSound
  <2> QED BY <2>1, <2>2, Spends, CopiesWritten DEF Kept
<1>5. CASE G!Merge
  <2>1. Sound(graph') /\ KeepsLive(graph, graph')
    BY <1>5, MergeSound DEF G!Merge, KeepsLive
  <2> QED BY <1>5, <2>1, CopiesWritten DEF G!Merge, G!NotLimbic, Kept
<1>6. CASE G!PushCommit
  <2>1. Sound(stored')
    BY <1>6, SyncSound DEF G!PushCommit
  <2> QED BY <1>6, <2>1, CopiesWritten DEF G!PushCommit, G!NotLimbic, Kept, KeepsLive
<1>7. CASE G!PushFails
  BY <1>7, Spends, CopiesWritten DEF G!PushFails, G!NotLimbic, Kept, KeepsLive
<1> QED BY <1>1, <1>2, <1>3, <1>4, <1>5, <1>6, <1>7 DEF G!Limbic

\* A restart begins with an empty graph and loads it (limbic.go:49-85).
LEMMA RestartStep == ASSUME GraphInv, G!Restart PROVE GraphInv' /\ Kept
<1>1. \A g \in {graph', local', stored', snap', cron'.work} : Sound(g)
  BY GraphTypes, NoneSound DEF G!Restart
<1>2. \A g \in {graph', local', stored', snap', cron'.work} : G!IsGraph(g)
  BY <1>1 DEF Sound
<1>3. budget' \in 0 .. MaxEvents
  BY Spends DEF G!Restart
<1>4. closer' \in [at : {"idle", "check", "unblock"}, goal : Goals, goals : SUBSET G!Ids]
      /\ closer'.goals \subseteq Goals
  BY GraphTypes DEF G!Restart, G!Idle
<1>5. G!TypeOK'
  BY <1>2, <1>3, <1>4, GraphConstants DEF GraphInv, G!TypeOK, G!Restart
<1>6. Kept
  BY DEF Kept, G!Restart
<1> QED BY <1>1, <1>4, <1>5, <1>6 DEF GraphInv

\* The cron's run, its write and a write that fails (cron_insight.go:439-447).
LEMMA CronStep == ASSUME GraphInv, G!Cron PROVE GraphInv' /\ Kept
<1> USE GraphTypes
<1>1. /\ UNCHANGED <<clock, graph, local, goal, turn, closer, limbic, snap>>
      /\ G!Spend \/ UNCHANGED budget
      /\ Sound(stored') /\ Sound(cron'.work) /\ cron'.at \in {"idle", "write"}
  <2>1. ASSUME NEW chains \in SUBSET Chains, NEW closes \in SUBSET G!OpenOf(stored, "open_question"),
               G!CronMerge(chains, closes)
        PROVE  <1>1!:
    <3>1. closes \in SUBSET G!Ids
      BY DEF G!OpenOf, Sound, G!IsGraph
    <3>2. Sound(G!ApplyInsight(stored, chains, closes))
      BY <3>1, InsightSound
    <3> QED BY <2>1, <3>2 DEF G!CronMerge, G!hostVars
  <2>2. CASE G!CronWrite
    <3>1. Sound(stored')
      BY <2>2, SyncSound DEF G!CronWrite
    <3> QED BY <2>2, <3>1, NoneSound DEF G!CronWrite, G!CronIdle, G!hostVars
  <2>3. CASE G!CronFails
    BY <2>3, NoneSound DEF G!CronFails, G!CronIdle, G!hostVars
  <2> QED BY <2>1, <2>2, <2>3 DEF G!Cron
<1>2. \A g \in {graph', local', stored', snap', cron'.work} : Sound(g)
  BY <1>1
<1>3. \A g \in {graph', local', stored', snap', cron'.work} : G!IsGraph(g)
  BY <1>2 DEF Sound
<1>4. budget' \in 0 .. MaxEvents
  BY <1>1, Spends
<1>5. G!TypeOK' /\ closer'.goals \subseteq Goals
  BY <1>1, <1>3, <1>4 DEF GraphInv, G!TypeOK
<1>6. Kept
  BY <1>1 DEF Kept, KeepsLive
<1> QED BY <1>2, <1>5, <1>6 DEF GraphInv

\* Every copy starts empty.
LEMMA GraphInit == G!ConstantsOK /\ G!Init => GraphInv
<1> SUFFICES ASSUME G!ConstantsOK, G!Init PROVE GraphInv
  OBVIOUS
<1>1. \A g \in {graph, local, stored, snap, cron.work} : Sound(g)
  BY NoneSound DEF G!Init, G!CronIdle
<1>2. \A g \in {graph, local, stored, snap, cron.work} : G!IsGraph(g)
  BY <1>1 DEF Sound
<1>3. G!TypeOK
  BY <1>2, GraphConstants DEF G!Init, G!TypeOK, G!Idle, G!CronIdle
<1> QED BY <1>1, <1>3 DEF GraphInv, G!Init, G!Idle

\* Every step keeps every copy sound, and the live work.
LEMMA GraphNext == GraphInv /\ [G!Next]_G!vars => GraphInv' /\ (G!Next => Kept)
<1> SUFFICES ASSUME GraphInv, [G!Next]_G!vars PROVE GraphInv' /\ (G!Next => Kept)
  OBVIOUS
<1>1. CASE UNCHANGED G!vars
  <2>1. GraphInv'
    BY <1>1 DEF G!vars, GraphInv, G!TypeOK
  <2> QED BY <1>1, <2>1 DEF G!vars, Kept, KeepsLive
<1>2. CASE G!Tick
  <2>1. GraphInv'
    BY <1>2, GraphConstants DEF G!Tick, GraphInv, G!TypeOK
  <2> QED BY <1>2, <2>1 DEF G!Tick, Kept, KeepsLive
<1> QED BY <1>1, <1>2, DirectorStep, ReactiveStep, LimbicStep, RestartStep, CronStep DEF G!Next

\* The invariant holds of every behaviour of the host and the cron.
THEOREM GraphInvariance == ASSUME G!ConstantsOK PROVE G!Spec => []GraphInv
BY GraphInit, GraphNext, PTL DEF G!Spec

\* Every copy of the graph stays one: the host's, its local snapshot, mesad's row, the
\* snapshot in flight and the cron's work.
THEOREM GraphTypeCorrect == ASSUME G!ConstantsOK PROVE G!Spec => []G!TypeOK
<1>1. GraphInv => G!TypeOK
  BY DEF GraphInv
<1> QED BY <1>1, GraphInvariance, PTL

\* Once the graph is loaded, no step of the director, the reactive or the limbic goroutine
\* takes live work out of it while the host runs.
THEOREM LiveWorkStays == ASSUME G!ConstantsOK PROVE G!Spec => G!LiveWorkKept
<1>1. GraphInv /\ [G!Next]_G!vars =>
        [limbic \notin {"load", "bootImport"} /\ limbic' # "load"
           => DOMAIN graph.nodes \ G!Terminal(graph) \subseteq DOMAIN graph'.nodes]_G!vars
  BY GraphNext DEF Kept, KeepsLive
<1> QED BY <1>1, GraphInvariance, PTL DEF G!Spec, G!LiveWorkKept

=============================================================================
