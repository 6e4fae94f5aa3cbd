--------------------------- MODULE RoutineProofs ----------------------------
(***************************************************************************)
(* The safety of the interpreter's watchers, deferred calls and selects,    *)
(* for any program: any watchers, handlers, selects, defers and budget.     *)
(***************************************************************************)
EXTENDS Routine, FiniteSetTheorems, SequenceTheorems, TLAPS

-----------------------------------------------------------------------------
(* The inductive invariant, as predicates of a stack `st` and a list of      *)
(* deferred calls `df`, so that its lemmas are about values.                 *)

\* A select that has not decided keeps the first event it heard in its channel,
\* which is empty if it heard none and never holds more than its capacity.
Keeps(a) ==
  /\ a.at = "run" /\ a.heard # <<>> => a.win <= Head(a.heard)
  /\ a.at # "run" => IF a.heard = <<>> THEN a.ch = <<>> ELSE Head(a.heard) \in ToSet(a.ch)
  /\ Len(a.ch) <= IF a.cs = <<>> THEN 1 ELSE Len(a.cs)

\* What an activation needs of those below it.  The routine's body is the
\* outermost; statements, sweeps, dispatches and selects run in some body; the
\* block of a select's case lies on its select; a sweep has only watchers of
\* frames below it left to test.
Placed(st, i) ==
  /\ st[i].k \in {"block", "defers"} /\ st[i].by = "body" => i = 1
  /\ st[i].k # "defers" => \E j \in 1 .. i : IsBody(st[j])
  /\ st[i].k = "block" /\ st[i].by = "case" => i > 1 /\ st[i - 1].k = "select"
  /\ st[i].k = "sweep" => \A p \in st[i].left :
       p[1] \in 1 .. i - 1 /\ st[p[1]].k = "block" /\ p[2] \in DOMAIN st[p[1]].ws
  /\ st[i].k = "select" => Keeps(st[i])

StackOK(st) == st \in Seq(Activations) /\ \A i \in DOMAIN st : Placed(st, i)

\* Calls are deferred only while a body is there to drain them.
HasBody(st) == \E i \in DOMAIN st : IsBody(st[i])
Drainable(st, df) == df # <<>> => HasBody(st)

\* Where deferred calls wait: row 0 is the interpreter's list, row i what the
\* i-th activation is draining.
Row(st, i) == IF i \in DOMAIN st /\ st[i].k = "defers" THEN st[i].left ELSE <<>>
Rows(st, df) == [i \in Nat |-> IF i = 0 THEN df ELSE Row(st, i)]

\* A call waits in one place until it runs, and is never dropped.
Books(rows, pu, rn) ==
  /\ \A i, j \in Nat : \A m \in DOMAIN rows[i], n \in DOMAIN rows[j] :
       rows[i][m].d = rows[j][n].d => i = j /\ m = n
  /\ \A i \in Nat : \A m \in DOMAIN rows[i] : rows[i][m].d \in pu /\ rn[rows[i][m].d] = 0
  /\ \A d \in pu : rn[d] = 1 \/ \E i \in Nat : \E m \in DOMAIN rows[i] : rows[i][m].d = d
  /\ \A d \in Defers : rn[d] \in {0, 1} /\ (d \notin pu => rn[d] = 0)

\* A registered watcher that would fire has a transition to its credit.
LiveIn(st) == {st[p[1]].ws[p[2]].w : p \in activeWatchers(st)}
Covered(st) == \A w \in LiveIn(st) : fireIf(Qual[w], last[w]) => credit[w] >= 1

Good(st, df) ==
  StackOK(st) /\ Drainable(st, df) /\ Books(Rows(st, df), pushed, ran) /\ Covered(st)

\* Outside its body a run has no activation and owes no deferred call.
Phase ==
  result # "running" => stack = <<>> /\ \A d \in pushed : ran[d] = 1

IInv == TypeOK /\ Good(stack, deferred) /\ Phase /\ OncePerEdge

-----------------------------------------------------------------------------
(* Stacks.                                                                   *)

LEMMA SeqFacts ==
  ASSUME NEW T, NEW s \in Seq(T)
  PROVE  /\ Len(s) \in Nat /\ DOMAIN s = 1 .. Len(s) /\ (s # <<>> => Len(s) # 0)
         /\ \A i \in DOMAIN s : s[i] \in T
  BY EmptySeq

LEMMA CasesSeq ==
  ASSUME NEW cs \in SelectStmts
  PROVE  Len(cs) \in Nat /\ DOMAIN cs = 1 .. Len(cs) /\ (cs # <<>> => Len(cs) # 0)
<1>1. cs \in Seq([k : {"when"}, of : Qualifiers] \union [k : {"on"}, of : Events]
                 \union [k : {"timeout"}, of : {""}])
  BY RoutineAssumption
<1> QED BY <1>1, SeqFacts

\* The bottom n activations of a stack.
LEMMA Bottom ==
  ASSUME NEW T, NEW st \in Seq(T), NEW n \in 0 .. Len(st)
  PROVE  /\ SubSeq(st, 1, n) \in Seq(T) /\ Len(SubSeq(st, 1, n)) = n
         /\ DOMAIN SubSeq(st, 1, n) = 1 .. n
         /\ \A i \in 1 .. n : SubSeq(st, 1, n)[i] = st[i]
  BY SubSeqProperties

\* One more activation on a stack.
LEMMA Pushed ==
  ASSUME NEW T, NEW st \in Seq(T), NEW a \in T
  PROVE  /\ Append(st, a) \in Seq(T) /\ Len(Append(st, a)) = Len(st) + 1
         /\ DOMAIN Append(st, a) = 1 .. Len(st) + 1
         /\ \A i \in 1 .. Len(st) : Append(st, a)[i] = st[i]
         /\ Append(st, a)[Len(st) + 1] = a
  BY AppendProperties

\* What an activation needs depends on the activations below it only.
LEMMA PlacedLocal ==
  ASSUME NEW st, NEW st2, NEW i \in Nat \ {0},
         \A j \in 1 .. i : st2[j] = st[j], Placed(st, i)
  PROVE  Placed(st2, i)
<1>1. st2[i] = st[i] /\ (i > 1 => st2[i - 1] = st[i - 1])
  OBVIOUS
<1>2. st2[i].k # "defers" => \E j \in 1 .. i : IsBody(st2[j])
  BY <1>1 DEF Placed
<1>3. st2[i].k = "sweep" => \A p \in st2[i].left :
       p[1] \in 1 .. i - 1 /\ st2[p[1]].k = "block" /\ p[2] \in DOMAIN st2[p[1]].ws
  BY <1>1 DEF Placed
<1>4. st2[i].k = "block" /\ st2[i].by = "case" => i > 1 /\ st2[i - 1].k = "select"
  BY <1>1 DEF Placed
<1> QED BY <1>1, <1>2, <1>3, <1>4 DEF Placed

LEMMA BottomOK ==
  ASSUME NEW st, StackOK(st), NEW n \in 0 .. Len(st)
  PROVE  StackOK(SubSeq(st, 1, n))
<1> DEFINE s == SubSeq(st, 1, n)
<1>1. st \in Seq(Activations) /\ \A i \in DOMAIN st : Placed(st, i)
  BY DEF StackOK
<1>2. s \in Seq(Activations) /\ DOMAIN s = 1 .. n /\ \A i \in 1 .. n : s[i] = st[i]
  BY <1>1, Bottom
<1>3. ASSUME NEW i \in DOMAIN s PROVE Placed(s, i)
  <2>1. i \in DOMAIN st /\ i \in Nat \ {0} /\ \A j \in 1 .. i : s[j] = st[j]
    BY <1>1, <1>2, <1>3
  <2> QED BY <1>1, <2>1, PlacedLocal
<1> QED BY <1>2, <1>3 DEF StackOK

LEMMA PushedOK ==
  ASSUME NEW st, StackOK(st), NEW a \in Activations, Placed(Append(st, a), Len(st) + 1)
  PROVE  StackOK(Append(st, a))
<1> DEFINE s == Append(st, a)
<1>1. st \in Seq(Activations) /\ \A i \in DOMAIN st : Placed(st, i)
  BY DEF StackOK
<1>2. s \in Seq(Activations) /\ DOMAIN s = 1 .. Len(st) + 1 /\ \A i \in 1 .. Len(st) : s[i] = st[i]
  BY <1>1, Pushed
<1>3. ASSUME NEW i \in DOMAIN s PROVE Placed(s, i)
  <2>1. CASE i = Len(st) + 1
    BY <2>1
  <2>2. CASE i # Len(st) + 1
    <3>1. i \in DOMAIN st /\ i \in Nat \ {0} /\ \A j \in 1 .. i : s[j] = st[j]
      BY <1>1, <1>2, <1>3, <2>2
    <3> QED BY <1>1, <3>1, PlacedLocal
  <2> QED BY <2>1, <2>2
<1> QED BY <1>2, <1>3 DEF StackOK

\* The kind of an activation tells its type.
LEMMA Kinds ==
  ASSUME NEW a \in Activations
  PROVE  /\ a.k = "block" => a \in BlockType
         /\ a.k = "drain" => a \in DrainType
         /\ a.k = "sweep" => a \in SweepType
         /\ a.k = "defers" => a \in DefersType
         /\ a.k = "select" => a \in SelectType
  BY DEF Activations, BlockType, DrainType, SweepType, DefersType, SelectType

\* `st2` waits for the same deferred calls as `st`, has no watcher that `st` has
\* not, and still has a body if `st` has one.
Kept(st, st2) ==
  /\ StackOK(st2)
  /\ \A i \in Nat : Row(st2, i) = Row(st, i)
  /\ LiveIn(st2) \subseteq LiveIn(st)
  /\ HasBody(st) => HasBody(st2)

LEMMA KeptTrans ==
  ASSUME NEW st, NEW st2, NEW st3, Kept(st, st2), Kept(st2, st3)
  PROVE  Kept(st, st3)
  BY DEF Kept

LEMMA KeptGood ==
  ASSUME NEW st, NEW st2, NEW df, Good(st, df), Kept(st, st2)
  PROVE  Good(st2, df)
<1>1. Rows(st2, df) = Rows(st, df)
  BY DEF Rows, Kept
<1> QED BY <1>1 DEF Good, Kept, Drainable, Covered

\* The watchers of a stack whose blocks are blocks of another one, or have none.
LEMMA LiveSubset ==
  ASSUME NEW st, NEW st2,
         \A i \in DOMAIN st2 : st2[i].k = "block" =>
           \/ i \in DOMAIN st /\ st[i].k = "block" /\ st2[i].ws = st[i].ws
           \/ st2[i].ws = <<>>
  PROVE  LiveIn(st2) \subseteq LiveIn(st)
<1> SUFFICES ASSUME NEW w \in LiveIn(st2) PROVE w \in LiveIn(st)
  OBVIOUS
<1>1. PICK p \in activeWatchers(st2) : w = st2[p[1]].ws[p[2]].w
  BY DEF LiveIn
<1>2. PICK i \in DOMAIN st2 : st2[i].k = "block" /\ \E n \in DOMAIN st2[i].ws : p = <<i, n>>
  BY <1>1 DEF activeWatchers
<1>3. PICK n \in DOMAIN st2[i].ws : p = <<i, n>>
  BY <1>2
<1>4. st2[i].ws # <<>>
  BY <1>3
<1>5. i \in DOMAIN st /\ st[i].k = "block" /\ st2[i].ws = st[i].ws
  BY <1>2, <1>4
<1>6. p \in activeWatchers(st)
  BY <1>3, <1>5 DEF activeWatchers
<1>7. w = st[p[1]].ws[p[2]].w
  BY <1>1, <1>3, <1>5
<1> QED BY <1>6, <1>7 DEF LiveIn

\* Activations that drain nothing and are no body may go.
LEMMA KeptCut ==
  ASSUME NEW st, StackOK(st), NEW n \in 0 .. Len(st),
         \A i \in n + 1 .. Len(st) : Row(st, i) = <<>> /\ ~IsBody(st[i])
  PROVE  Kept(st, SubSeq(st, 1, n))
<1> DEFINE s == SubSeq(st, 1, n)
<1>1. st \in Seq(Activations) /\ DOMAIN st = 1 .. Len(st) /\ Len(st) \in Nat
  BY DEF StackOK
<1>2. DOMAIN s = 1 .. n /\ \A i \in 1 .. n : s[i] = st[i]
  BY <1>1, Bottom
<1>3. StackOK(s)
  BY BottomOK
<1>4. ASSUME NEW i \in Nat PROVE Row(s, i) = Row(st, i)
  <2>1. CASE i \in 1 .. n
    <3>1. i \in DOMAIN s /\ i \in DOMAIN st /\ s[i] = st[i]
      BY <1>1, <1>2, <2>1
    <3> QED BY <3>1 DEF Row
  <2>2. CASE i \in n + 1 .. Len(st)
    <3>1. i \notin DOMAIN s
      BY <1>2, <2>2
    <3> QED BY <2>2, <3>1 DEF Row
  <2>3. CASE i \notin 1 .. Len(st)
    <3>1. i \notin DOMAIN s /\ i \notin DOMAIN st
      BY <1>1, <1>2, <2>3
    <3> QED BY <3>1 DEF Row
  <2> QED BY <1>1, <2>1, <2>2, <2>3
<1>5. LiveIn(s) \subseteq LiveIn(st)
  <2>1. \A i \in DOMAIN s : i \in DOMAIN st /\ s[i] = st[i]
    BY <1>1, <1>2
  <2> QED BY <2>1, LiveSubset
<1>6. HasBody(st) => HasBody(s)
  <2> SUFFICES ASSUME NEW i \in DOMAIN st, IsBody(st[i]) PROVE HasBody(s)
    BY DEF HasBody
  <2>1. i \in 1 .. n
    BY <1>1
  <2> QED BY <1>2, <2>1 DEF HasBody
<1> QED BY <1>3, <1>4, <1>5, <1>6 DEF Kept

\* So may an activation come, on one that is not draining.
Fresh(a) == a.k # "defers" /\ (a.k = "block" => a.ws = <<>>)

LEMMA KeptPush ==
  ASSUME NEW st, StackOK(st), NEW a \in Activations, Fresh(a),
         Placed(Append(st, a), Len(st) + 1)
  PROVE  Kept(st, Append(st, a))
<1> DEFINE s == Append(st, a)
<1>1. st \in Seq(Activations) /\ DOMAIN st = 1 .. Len(st) /\ Len(st) \in Nat
  BY DEF StackOK
<1>2. DOMAIN s = 1 .. Len(st) + 1 /\ (\A i \in 1 .. Len(st) : s[i] = st[i]) /\ s[Len(st) + 1] = a
  BY <1>1, Pushed
<1>3. StackOK(s)
  BY PushedOK
<1>4. ASSUME NEW i \in Nat PROVE Row(s, i) = Row(st, i)
  <2>1. CASE i \in 1 .. Len(st)
    <3>1. i \in DOMAIN s /\ i \in DOMAIN st /\ s[i] = st[i]
      BY <1>1, <1>2, <2>1
    <3> QED BY <3>1 DEF Row
  <2>2. CASE i = Len(st) + 1
    <3>1. i \notin DOMAIN st /\ s[i].k # "defers"
      BY <1>1, <1>2, <2>2 DEF Fresh
    <3> QED BY <3>1 DEF Row
  <2>3. CASE i \notin 1 .. Len(st) + 1
    <3>1. i \notin DOMAIN s /\ i \notin DOMAIN st
      BY <1>1, <1>2, <2>3
    <3> QED BY <3>1 DEF Row
  <2> QED BY <1>1, <2>1, <2>2, <2>3
<1>5. LiveIn(s) \subseteq LiveIn(st)
  <2>1. \A i \in DOMAIN s : (i \in DOMAIN st /\ s[i] = st[i]) \/ s[i] = a
    BY <1>1, <1>2
  <2>2. \A i \in DOMAIN s : s[i].k = "block" =>
           \/ i \in DOMAIN st /\ st[i].k = "block" /\ s[i].ws = st[i].ws
           \/ s[i].ws = <<>>
    BY <2>1 DEF Fresh
  <2> QED BY <2>2, LiveSubset
<1>6. HasBody(st) => HasBody(s)
  BY <1>1, <1>2 DEF HasBody
<1> QED BY <1>3, <1>4, <1>5, <1>6 DEF Kept

\* Where an activation that is no body may be pushed: on any that is not
\* draining, if it is no sweep, select or case.
LEMMA PlacedOn ==
  ASSUME NEW st, StackOK(st), st # <<>>, Last(st).k # "defers", NEW a \in Activations,
         a.k \in {"block", "defers"} => a.by # "body",
         a.k = "block" /\ a.by = "case" => Last(st).k = "select",
         a.k = "sweep" => a.left \subseteq activeWatchers(st),
         a.k = "select" => Keeps(a)
  PROVE  Placed(Append(st, a), Len(st) + 1)
<1> DEFINE s == Append(st, a)  n == Len(st)
<1>1. st \in Seq(Activations) /\ DOMAIN st = 1 .. n /\ n \in Nat \ {0}
  BY EmptySeq DEF StackOK
<1>2. DOMAIN s = 1 .. n + 1 /\ (\A i \in 1 .. n : s[i] = st[i]) /\ s[n + 1] = a
  BY <1>1, Pushed
<1>3. \E j \in 1 .. n + 1 : IsBody(s[j])
  <2>1. PICK j \in 1 .. n : IsBody(st[j])
    BY <1>1 DEF StackOK, Placed, Last
  <2> QED BY <1>1, <1>2, <2>1
<1>4. s[n + 1].k = "sweep" => \A p \in s[n + 1].left :
       p[1] \in 1 .. (n + 1) - 1 /\ s[p[1]].k = "block" /\ p[2] \in DOMAIN s[p[1]].ws
  <2> SUFFICES ASSUME a.k = "sweep", NEW p \in a.left
               PROVE p[1] \in 1 .. n /\ s[p[1]].k = "block" /\ p[2] \in DOMAIN s[p[1]].ws
    BY <1>1, <1>2
  <2>1. PICK i \in DOMAIN st : st[i].k = "block" /\ \E m \in DOMAIN st[i].ws : p = <<i, m>>
    BY DEF activeWatchers
  <2> QED BY <1>1, <1>2, <2>1
<1>5. s[n + 1].k = "block" /\ s[n + 1].by = "case" => n + 1 > 1 /\ s[(n + 1) - 1].k = "select"
  <2>1. (n + 1) - 1 = n /\ n \in 1 .. n /\ n + 1 > 1
    BY <1>1
  <2>2. s[(n + 1) - 1] = Last(st)
    BY <1>2, <2>1 DEF Last
  <2> QED BY <1>2, <2>1, <2>2
<1>6. s[n + 1].k \in {"block", "defers"} /\ s[n + 1].by = "body" => n + 1 = 1
  BY <1>2
<1>7. s[n + 1].k = "select" => Keeps(s[n + 1])
  BY <1>2
<1> QED BY <1>3, <1>4, <1>5, <1>6, <1>7 DEF Placed

\* A proc may be pushed anywhere.
LEMMA PlacedProc ==
  ASSUME NEW st, StackOK(st), NEW c
  PROVE  /\ Block("proc", c).k = "block" /\ Fresh(Block("proc", c)) /\ IsBody(Block("proc", c))
         /\ c \in SUBSET Contexts => Block("proc", c) \in Activations
         /\ c \in SUBSET Contexts => Placed(Append(st, Block("proc", c)), Len(st) + 1)
<1> DEFINE a == Block("proc", c)  s == Append(st, a)  n == Len(st)
<1>1. a.k = "block" /\ Fresh(a) /\ IsBody(a) /\ a.by = "proc"
  BY DEF Block, Fresh, IsBody
<1>2. c \in SUBSET Contexts => a \in Activations
  BY EmptySeq DEF Block, Activations, BlockType, Callers
<1>3. ASSUME c \in SUBSET Contexts PROVE Placed(s, n + 1)
  <2>1. st \in Seq(Activations) /\ n \in Nat
    BY DEF StackOK
  <2>2. s[n + 1] = a
    BY <1>2, <1>3, <2>1, Pushed
  <2>3. n + 1 \in 1 .. n + 1
    BY <2>1
  <2> QED BY <1>1, <2>2, <2>3 DEF Placed
<1> QED BY <1>1, <1>2, <1>3

-----------------------------------------------------------------------------
(* Deferred calls.                                                           *)

LEMMA ReverseProperties ==
  ASSUME NEW T, NEW s \in Seq(T)
  PROVE  /\ Reverse(s) \in Seq(T) /\ DOMAIN Reverse(s) = 1 .. Len(s) /\ DOMAIN s = 1 .. Len(s)
         /\ \A i \in 1 .. Len(s) : (Len(s) - i) + 1 \in 1 .. Len(s)
                                   /\ Reverse(s)[i] = s[(Len(s) - i) + 1]
<1>1. Len(s) \in Nat /\ DOMAIN s = 1 .. Len(s) /\ \A i \in 1 .. Len(s) : s[i] \in T
  OBVIOUS
<1>2. \A i \in 1 .. Len(s) : (Len(s) - i) + 1 \in 1 .. Len(s)
  BY <1>1
<1>3. Reverse(s) = [i \in 1 .. Len(s) |-> s[(Len(s) - i) + 1]]
  BY DEF Reverse
<1>4. Reverse(s) \in [1 .. Len(s) -> T]
  BY <1>1, <1>2, <1>3
<1>5. Reverse(s) \in Seq(T)
  BY <1>1, <1>4, SeqDef
<1> QED BY <1>1, <1>2, <1>3, <1>5

\* A drain takes the interpreter's list over, the last call first.
LEMMA BooksDrain ==
  ASSUME NEW rows, NEW rows2, NEW pu, NEW rn, Books(rows, pu, rn), rows[0] \in Seq(DeferType),
         NEW n \in Nat \ {0}, rows[n] = <<>>, rows2[n] = Reverse(rows[0]), rows2[0] = <<>>,
         \A i \in Nat \ {0, n} : rows2[i] = rows[i]
  PROVE  Books(rows2, pu, rn)
<1> DEFINE l == Len(rows[0])  o(m) == (l - m) + 1
<1>1. /\ DOMAIN rows2[n] = 1 .. l /\ DOMAIN rows[0] = 1 .. l /\ l \in Nat
      /\ \A m \in 1 .. l : o(m) \in 1 .. l /\ rows2[n][m] = rows[0][o(m)]
  BY ReverseProperties
<1>2. DOMAIN rows2[0] = {}
  OBVIOUS
<1> DEFINE from(i) == IF i = n THEN 0 ELSE i
           at(i, m) == IF i = n THEN o(m) ELSE m
<1> HIDE DEF l, o
<1>3. ASSUME NEW i \in Nat, NEW m \in DOMAIN rows2[i]
      PROVE  /\ from(i) \in Nat /\ at(i, m) \in DOMAIN rows[from(i)]
             /\ rows2[i][m] = rows[from(i)][at(i, m)] /\ i # 0
  BY <1>1, <1>2, <1>3
<1> HIDE DEF from, at
<1>4. ASSUME NEW i \in Nat, NEW j \in Nat, NEW m \in DOMAIN rows2[i], NEW k \in DOMAIN rows2[j],
             rows2[i][m].d = rows2[j][k].d
      PROVE  i = j /\ m = k
  <2>1. from(i) = from(j) /\ at(i, m) = at(j, k)
    BY <1>3, <1>4 DEF Books
  <2>2. i = j
    BY <1>3, <2>1 DEF from
  <2>3. CASE i # n
    BY <2>1, <2>2, <2>3 DEF at
  <2>4. CASE i = n
    <3>1. o(m) = o(k) /\ m \in 1 .. l /\ k \in 1 .. l
      BY <1>1, <2>1, <2>2, <2>4 DEF at
    <3> QED BY <1>1, <2>2, <3>1 DEF o
  <2> QED BY <2>3, <2>4
<1>5. \A i \in Nat : \A m \in DOMAIN rows2[i] : rows2[i][m].d \in pu /\ rn[rows2[i][m].d] = 0
  BY <1>3 DEF Books
<1>6. ASSUME NEW d \in pu, rn[d] # 1
      PROVE  \E i \in Nat : \E m \in DOMAIN rows2[i] : rows2[i][m].d = d
  <2>1. PICK i \in Nat : \E m \in DOMAIN rows[i] : rows[i][m].d = d
    BY <1>6 DEF Books
  <2>2. PICK m \in DOMAIN rows[i] : rows[i][m].d = d
    BY <2>1
  <2>3. CASE i # 0
    <3>1. i # n
      BY <2>2
    <3>2. rows2[i] = rows[i]
      BY <2>3, <3>1
    <3> QED BY <2>2, <3>2
  <2>4. CASE i = 0
    <3>1. m \in 1 .. l /\ o(m) \in 1 .. l
      BY <1>1, <2>2, <2>4
    <3>2. o(o(m)) = m
      BY <1>1, <3>1 DEF o
    <3>3. o(m) \in DOMAIN rows2[n] /\ rows2[n][o(m)] = rows[0][m]
      BY <1>1, <3>1, <3>2
    <3> QED BY <2>2, <2>4, <3>3
  <2> QED BY <2>3, <2>4
<1> QED BY <1>4, <1>5, <1>6 DEF Books

\* One call runs.
LEMMA BooksRun ==
  ASSUME NEW rows, NEW rows2, NEW pu \in SUBSET Defers, NEW rn \in [Defers -> Nat], NEW rn2,
         Books(rows, pu, rn), NEW n \in Nat, rows[n] \in Seq(DeferType), rows[n] # <<>>,
         rows2[n] = Tail(rows[n]), \A i \in Nat \ {n} : rows2[i] = rows[i],
         rn2 = [rn EXCEPT ![Head(rows[n]).d] = @ + 1]
  PROVE  Books(rows2, pu, rn2)
<1> DEFINE l == Len(rows[n])  d0 == Head(rows[n]).d
<1>1. /\ l \in Nat \ {0} /\ DOMAIN rows[n] = 1 .. l /\ DOMAIN rows2[n] = 1 .. l - 1
      /\ Head(rows[n]) = rows[n][1] /\ 1 \in DOMAIN rows[n]
      /\ \A m \in 1 .. l - 1 : m + 1 \in 1 .. l /\ rows2[n][m] = rows[n][m + 1]
  BY HeadTailProperties, EmptySeq
<1>2. d0 \in pu /\ rn[d0] = 0 /\ d0 \in Defers /\ d0 = rows[n][1].d
  BY <1>1 DEF Books
<1>3. rn2[d0] = 1 /\ \A d \in Defers : d # d0 => rn2[d] = rn[d]
  BY <1>2
<1> DEFINE at(i, m) == IF i = n THEN m + 1 ELSE m
<1> HIDE DEF l, d0
<1>4. ASSUME NEW i \in Nat, NEW m \in DOMAIN rows2[i]
      PROVE  /\ at(i, m) \in DOMAIN rows[i] /\ rows2[i][m] = rows[i][at(i, m)]
             /\ i = n => at(i, m) # 1 /\ m \in Nat /\ at(i, m) = m + 1
             /\ i # n => at(i, m) = m
  <2>1. CASE i = n
    <3>1. m \in 1 .. l - 1
      BY <1>1, <1>4, <2>1
    <3>2. at(i, m) = m + 1 /\ m + 1 # 1 /\ m \in Nat
      BY <1>1, <2>1, <3>1
    <3> QED BY <1>1, <2>1, <3>1, <3>2
  <2>2. CASE i # n
    BY <1>4, <2>2
  <2> QED BY <2>1, <2>2
<1> HIDE DEF at
<1>5. ASSUME NEW i \in Nat, NEW j \in Nat, NEW m \in DOMAIN rows2[i], NEW k \in DOMAIN rows2[j],
             rows2[i][m].d = rows2[j][k].d
      PROVE  i = j /\ m = k
  <2>1. i = j /\ at(i, m) = at(j, k)
    BY <1>4, <1>5 DEF Books
  <2> QED BY <1>4, <2>1
<1>6. ASSUME NEW i \in Nat, NEW m \in DOMAIN rows2[i]
      PROVE  rows2[i][m].d \in pu /\ rn2[rows2[i][m].d] = 0
  <2>1. rows2[i][m].d \in pu /\ rn[rows2[i][m].d] = 0
    BY <1>4 DEF Books
  <2>2. rows2[i][m].d # d0
    BY <1>1, <1>2, <1>4 DEF Books
  <2> QED BY <1>3, <2>1, <2>2
<1>7. ASSUME NEW d \in pu, rn2[d] # 1
      PROVE  \E i \in Nat : \E m \in DOMAIN rows2[i] : rows2[i][m].d = d
  <2>1. d # d0 /\ rn[d] # 1
    BY <1>3, <1>7
  <2>2. PICK i \in Nat : \E m \in DOMAIN rows[i] : rows[i][m].d = d
    BY <2>1 DEF Books
  <2>3. PICK m \in DOMAIN rows[i] : rows[i][m].d = d
    BY <2>2
  <2>4. CASE i # n
    BY <2>3, <2>4
  <2>5. CASE i = n
    <3>1. m \in 1 .. l /\ m # 1
      BY <1>1, <1>2, <2>1, <2>3, <2>5
    <3>2. m - 1 \in 1 .. l - 1 /\ (m - 1) + 1 = m
      BY <1>1, <3>1
    <3>3. m - 1 \in DOMAIN rows2[n] /\ rows2[n][m - 1] = rows[n][m]
      BY <1>1, <3>2
    <3> QED BY <2>3, <2>5, <3>3
  <2> QED BY <2>4, <2>5
<1>8. \A d \in Defers : rn2[d] \in {0, 1} /\ (d \notin pu => rn2[d] = 0)
  BY <1>2, <1>3 DEF Books
<1> QED BY <1>5, <1>6, <1>7, <1>8 DEF Books

\* One call is deferred.
LEMMA BooksPush ==
  ASSUME NEW rows, NEW rows2, NEW pu \in SUBSET Defers, NEW rn, Books(rows, pu, rn),
         NEW d0 \in Defers \ pu, NEW own \in Nat, rows[0] \in Seq(DeferType),
         rows2[0] = Append(rows[0], [d |-> d0, own |-> own]),
         \A i \in Nat \ {0} : rows2[i] = rows[i]
  PROVE  Books(rows2, pu \union {d0}, rn)
<1> DEFINE l == Len(rows[0])  e == [d |-> d0, own |-> own]
<1>1. e \in DeferType /\ e.d = d0
  BY DEF DeferType
<1>2. /\ l \in Nat /\ DOMAIN rows[0] = 1 .. l /\ DOMAIN rows2[0] = 1 .. l + 1
      /\ rows2[0][l + 1] = e /\ \A m \in 1 .. l : rows2[0][m] = rows[0][m]
  BY <1>1, Pushed
<1> HIDE DEF l, e
<1>3. ASSUME NEW i \in Nat, NEW m \in DOMAIN rows2[i]
      PROVE  \/ i = 0 /\ m = l + 1 /\ rows2[i][m].d = d0
             \/ m \in DOMAIN rows[i] /\ rows2[i][m] = rows[i][m] /\ rows2[i][m].d # d0
  <2>1. CASE i = 0 /\ m = l + 1
    BY <1>1, <1>2, <2>1
  <2>2. CASE ~(i = 0 /\ m = l + 1)
    <3>1. m \in DOMAIN rows[i] /\ rows2[i][m] = rows[i][m]
      BY <1>2, <1>3, <2>2
    <3> QED BY <3>1 DEF Books
  <2> QED BY <2>1, <2>2
<1>4. ASSUME NEW i \in Nat, NEW j \in Nat, NEW m \in DOMAIN rows2[i], NEW k \in DOMAIN rows2[j],
             rows2[i][m].d = rows2[j][k].d
      PROVE  i = j /\ m = k
  BY <1>3, <1>4 DEF Books
<1>5. rn[d0] = 0
  BY DEF Books
<1>6. ASSUME NEW i \in Nat, NEW m \in DOMAIN rows2[i]
      PROVE  rows2[i][m].d \in pu \union {d0} /\ rn[rows2[i][m].d] = 0
  BY <1>3, <1>5 DEF Books
<1>7. ASSUME NEW d \in pu \union {d0}, rn[d] # 1
      PROVE  \E i \in Nat : \E m \in DOMAIN rows2[i] : rows2[i][m].d = d
  <2>1. CASE d = d0
    <3>1. l + 1 \in DOMAIN rows2[0]
      BY <1>2
    <3> QED BY <1>1, <1>2, <2>1, <3>1
  <2>2. CASE d # d0
    <3>1. PICK i \in Nat : \E m \in DOMAIN rows[i] : rows[i][m].d = d
      BY <1>7, <2>2 DEF Books
    <3>2. PICK m \in DOMAIN rows[i] : rows[i][m].d = d
      BY <3>1
    <3>3. m \in DOMAIN rows2[i] /\ rows2[i][m] = rows[i][m]
      BY <1>2, <3>2
    <3> QED BY <3>2, <3>3
  <2> QED BY <2>1, <2>2
<1>8. \A d \in Defers : rn[d] \in {0, 1} /\ (d \notin pu \union {d0} => rn[d] = 0)
  BY DEF Books
<1> QED BY <1>4, <1>6, <1>7, <1>8 DEF Books

\* A body ends, by reaching its end or by a signal: what is above it goes and its
\* block becomes the drain of the deferred calls.
LEMMA DrainGood ==
  ASSUME NEW st, Good(st, deferred), deferred \in Seq(DeferType), NEW n \in DOMAIN st,
         IsBody(st[n]), \A i \in n + 1 .. Len(st) : Row(st, i) = <<>> /\ ~IsBody(st[i]),
         NEW sig \in Signals \union {"ok"}
  PROVE  Good(Append(SubSeq(st, 1, n - 1), drainDeferred(st[n].by, sig)), <<>>)
<1> DEFINE b == SubSeq(st, 1, n - 1)  a == drainDeferred(st[n].by, sig)  s == Append(b, a)
<1>1. st \in Seq(Activations) /\ DOMAIN st = 1 .. Len(st) /\ Len(st) \in Nat /\ StackOK(st)
  BY DEF Good, StackOK
<1>2. n \in 1 .. Len(st) /\ n - 1 \in 0 .. Len(st) /\ (n - 1) + 1 = n
  BY <1>1
<1>3. b \in Seq(Activations) /\ Len(b) = n - 1 /\ DOMAIN b = 1 .. n - 1 /\ \A i \in 1 .. n - 1 : b[i] = st[i]
  BY <1>1, <1>2, Bottom
<1>4. StackOK(b)
  BY <1>1, <1>2, BottomOK
<1>5. st[n].by \in {"body", "proc"}
  BY DEF IsBody
<1>6. Reverse(deferred) \in Seq(DeferType)
  BY ReverseProperties
<1>7. /\ a \in Activations /\ a.k = "defers" /\ a.by = st[n].by /\ a.left = Reverse(deferred)
  BY <1>5, <1>6 DEF drainDeferred, Activations, DefersType
<1>8. /\ DOMAIN s = 1 .. n /\ s[n] = a /\ \A i \in 1 .. n - 1 : s[i] = st[i]
  BY <1>2, <1>3, <1>7, Pushed
<1>9. StackOK(s)
  <2>1. Placed(st, n)
    BY <1>1 DEF StackOK
  <2>2. st[n].by = "body" => n = 1
    BY <2>1 DEF Placed, IsBody
  <2>3. Placed(s, n)
    BY <1>7, <1>8, <2>2 DEF Placed
  <2>4. Len(b) + 1 = n
    BY <1>2, <1>3
  <2> QED BY <1>4, <1>7, <2>3, <2>4, PushedOK
<1>10. Books(Rows(s, <<>>), pushed, ran)
  <2> DEFINE r == Rows(st, deferred)  r2 == Rows(s, <<>>)
  <2>1. Books(r, pushed, ran)
    BY DEF Good
  <2>2. r[0] = deferred /\ r2[0] = <<>>
    BY DEF Rows
  <2>3. n \in Nat \ {0} /\ r[n] = Row(st, n) /\ r2[n] = Row(s, n)
    BY <1>2 DEF Rows
  <2>4. Row(st, n) = <<>>
    BY DEF Row, IsBody
  <2>5. Row(s, n) = Reverse(deferred)
    BY <1>2, <1>7, <1>8 DEF Row
  <2>6. ASSUME NEW i \in Nat \ {0, n} PROVE r2[i] = r[i]
    <3>1. r2[i] = Row(s, i) /\ r[i] = Row(st, i)
      BY DEF Rows
    <3>2. CASE i < n
      <4>1. i \in DOMAIN s /\ i \in DOMAIN st /\ s[i] = st[i]
        BY <1>1, <1>2, <1>8, <3>2
      <4> QED BY <3>1, <4>1 DEF Row
    <3>3. CASE i > n
      <4>1. i \notin DOMAIN s
        BY <1>2, <1>8, <3>3
      <4>2. Row(st, i) = <<>>
        <5>1. CASE i \in DOMAIN st
          BY <1>1, <1>2, <3>3, <5>1
        <5>2. CASE i \notin DOMAIN st
          BY <5>2 DEF Row
        <5> QED BY <5>1, <5>2
      <4> QED BY <3>1, <4>1, <4>2 DEF Row
    <3> QED BY <1>2, <3>2, <3>3
  <2>7. r[0] \in Seq(DeferType) /\ r[n] = <<>> /\ r2[n] = Reverse(r[0])
    BY <2>2, <2>3, <2>4, <2>5
  <2> HIDE DEF r, r2
  <2>8. n \in Nat \ {0}
    BY <2>3
  <2>9. Books(r2, pushed, ran)
    BY <2>1, <2>2, <2>6, <2>7, <2>8, BooksDrain
  <2> QED BY <2>9 DEF r2
<1>11. LiveIn(s) \subseteq LiveIn(st)
  <2>1. \A i \in DOMAIN s : (i \in DOMAIN st /\ s[i] = st[i]) \/ s[i] = a
    BY <1>1, <1>2, <1>8
  <2>2. \A i \in DOMAIN s : s[i].k = "block" =>
           \/ i \in DOMAIN st /\ st[i].k = "block" /\ s[i].ws = st[i].ws
           \/ s[i].ws = <<>>
    BY <1>7, <2>1
  <2> QED BY <2>2, LiveSubset
<1>12. Covered(s)
  BY <1>11 DEF Covered, Good
<1> QED BY <1>9, <1>10, <1>12 DEF Good, Drainable

\* Nothing above the activation that catches a signal drains or is a body.
LEMMA Uncaught ==
  ASSUME NEW a, NEW sig, ~Catches(a, sig)
  PROVE  a.k # "defers" /\ ~IsBody(a)
  BY DEF Catches

\* A panic keeps the invariant.
LEMMA RaiseGood ==
  ASSUME NEW st, Good(st, deferred), deferred \in Seq(DeferType), NEW sig \in Signals,
         Raise(st, sig)
  PROVE  Good(stack', deferred') /\ deferred' \in Seq(DeferType)
<1>1. st \in Seq(Activations) /\ DOMAIN st = 1 .. Len(st) /\ Len(st) \in Nat /\ StackOK(st)
  BY DEF Good, StackOK
<1>2. PICK i \in DOMAIN st :
        /\ Catches(st[i], sig)
        /\ \A j \in DOMAIN st : Catches(st[j], sig) => j <= i
        /\ \/ /\ IsBody(st[i])
              /\ stack' = Append(SubSeq(st, 1, i - 1), drainDeferred(st[i].by, sig))
              /\ deferred' = <<>>
           \/ /\ ~IsBody(st[i])
              /\ stack' = CASE st[i].k = "defers" -> SubSeq(st, 1, i)
                            [] st[i].by = "try"   -> Append(SubSeq(st, 1, i - 1), Block("recover", st[i].in))
                            [] OTHER              -> SubSeq(st, 1, i - 1)
              /\ UNCHANGED deferred
  BY DEF Raise
<1>3. i \in 1 .. Len(st) /\ i \in 0 .. Len(st) /\ i - 1 \in 0 .. Len(st) /\ (i - 1) + 1 = i
  BY <1>1
<1>4. \A j \in i + 1 .. Len(st) : Row(st, j) = <<>> /\ ~IsBody(st[j])
  <2> SUFFICES ASSUME NEW j \in i + 1 .. Len(st) PROVE Row(st, j) = <<>> /\ ~IsBody(st[j])
    OBVIOUS
  <2>1. j \in DOMAIN st /\ ~(j <= i)
    BY <1>1, <1>3
  <2>2. ~Catches(st[j], sig)
    BY <1>2, <2>1
  <2> QED BY <2>2, Uncaught DEF Row
<1>5. CASE IsBody(st[i])
  <2>1. /\ stack' = Append(SubSeq(st, 1, i - 1), drainDeferred(st[i].by, sig))
        /\ deferred' = <<>>
    BY <1>2, <1>5
  <2>2. Good(Append(SubSeq(st, 1, i - 1), drainDeferred(st[i].by, sig)), <<>>)
    BY <1>4, <1>5, DrainGood
  <2> QED BY <2>1, <2>2, EmptySeq
<1>6. CASE ~IsBody(st[i]) /\ st[i].k = "defers"
  <2>1. st[i] \in Activations /\ st[i].by # "try"
    <3>1. st[i] \in Activations
      BY <1>1
    <3> QED BY <1>6, <3>1, Kinds DEF DefersType
  <2>2. stack' = SubSeq(st, 1, i) /\ deferred' = deferred
    BY <1>2, <1>6, <2>1
  <2>3. Kept(st, SubSeq(st, 1, i))
    BY <1>1, <1>3, <1>4, KeptCut
  <2> QED BY <2>2, <2>3, KeptGood
<1>7. CASE ~IsBody(st[i]) /\ st[i].k # "defers"
  <2> DEFINE b == SubSeq(st, 1, i - 1)
  <2>1. \A j \in (i - 1) + 1 .. Len(st) : Row(st, j) = <<>> /\ ~IsBody(st[j])
    <3>1. Row(st, i) = <<>>
      BY <1>7 DEF Row
    <3> QED BY <1>3, <1>4, <1>7, <3>1
  <2>2. Kept(st, b)
    BY <1>1, <1>3, <2>1, KeptCut
  <2>3. CASE st[i].by # "try"
    <3>1. stack' = b /\ deferred' = deferred
      BY <1>2, <1>7, <2>3
    <3> QED BY <2>2, <3>1, KeptGood
  <2>4. CASE st[i].by = "try"
    <3> DEFINE a == Block("recover", st[i].in)  s == Append(b, a)
    <3>1. stack' = s /\ deferred' = deferred
      BY <1>2, <1>7, <2>4
    <3>2. st[i] \in BlockType /\ st[i].k = "block"
      <4>1. st[i] \in Activations /\ st[i].k = "block"
        BY <1>1, <1>2, <1>7 DEF Catches
      <4> QED BY <4>1, Kinds
    <3>3. a \in Activations /\ a.k = "block" /\ a.by = "recover" /\ Fresh(a)
      BY <3>2, EmptySeq DEF Block, Activations, BlockType, Callers, Fresh
    <3>4. StackOK(b) /\ b \in Seq(Activations) /\ Len(b) = i - 1 /\ \A j \in 1 .. i - 1 : b[j] = st[j]
      BY <1>1, <1>3, Bottom, BottomOK
    <3>5. (\A j \in 1 .. i - 1 : s[j] = st[j]) /\ s[i] = a /\ Len(b) + 1 = i
      BY <1>3, <3>3, <3>4, Pushed
    <3>6. Placed(s, i)
      <4>1. Placed(st, i)
        BY <1>1 DEF StackOK
      <4>2. PICK j \in 1 .. i : IsBody(st[j])
        BY <1>7, <4>1 DEF Placed
      <4>3. j \in 1 .. i - 1
        BY <1>3, <1>7, <4>2
      <4>4. \E m \in 1 .. i : IsBody(s[m])
        BY <3>5, <4>2, <4>3
      <4> QED BY <3>3, <3>5, <4>4 DEF Placed
    <3>7. Kept(b, s)
      BY <3>3, <3>4, <3>5, <3>6, KeptPush
    <3>8. Good(s, deferred)
      <4> HIDE DEF b, s
      <4>1. Good(b, deferred)
        BY <2>2, KeptGood
      <4> QED BY <3>7, <4>1, KeptGood
    <3> QED BY <3>1, <3>8
  <2> QED BY <2>3, <2>4
<1> QED BY <1>5, <1>6, <1>7

-----------------------------------------------------------------------------
(* Moves of the stack.                                                       *)

\* The top of a stack.
LEMMA TopFacts ==
  ASSUME NEW st, StackOK(st), st # <<>>
  PROVE  /\ Len(st) \in Nat \ {0} /\ DOMAIN st = 1 .. Len(st) /\ Len(st) - 1 \in 0 .. Len(st)
         /\ Len(st) \in DOMAIN st /\ (Len(st) - 1) + 1 = Len(st)
         /\ Last(st) = st[Len(st)] /\ Last(st) \in Activations /\ Placed(st, Len(st))
         /\ Front(st) = SubSeq(st, 1, Len(st) - 1)
         /\ StackOK(Front(st)) /\ Len(Front(st)) = Len(st) - 1
         /\ \A i \in 1 .. Len(st) - 1 : Front(st)[i] = st[i]
<1>1. st \in Seq(Activations) /\ \A i \in DOMAIN st : Placed(st, i)
  BY DEF StackOK
<1>2. Len(st) \in Nat \ {0} /\ DOMAIN st = 1 .. Len(st)
  BY <1>1, EmptySeq
<1>3. /\ Len(st) - 1 \in 0 .. Len(st) /\ Len(st) \in DOMAIN st /\ (Len(st) - 1) + 1 = Len(st)
  BY <1>2
<1>4. Front(st) = SubSeq(st, 1, Len(st) - 1)
  BY DEF Front
<1>5. StackOK(Front(st)) /\ Len(Front(st)) = Len(st) - 1
         /\ \A i \in 1 .. Len(st) - 1 : Front(st)[i] = st[i]
  BY <1>1, <1>3, <1>4, Bottom, BottomOK
<1>6. Last(st) = st[Len(st)] /\ Last(st) \in Activations
  BY <1>1, <1>3 DEF Last
<1> QED BY <1>1, <1>2, <1>3, <1>4, <1>5, <1>6

\* The top may be popped if it is no body and has nothing left to drain.
LEMMA PopKept ==
  ASSUME NEW st, StackOK(st), st # <<>>, ~IsBody(Last(st)),
         Last(st).k = "defers" => Last(st).left = <<>>
  PROVE  Kept(st, Front(st))
<1> DEFINE n == Len(st)
<1>1. /\ n \in Nat \ {0} /\ n - 1 \in 0 .. n /\ n \in DOMAIN st /\ (n - 1) + 1 = n
      /\ Last(st) = st[n] /\ Front(st) = SubSeq(st, 1, n - 1)
  BY TopFacts
<1>2. Row(st, n) = <<>>
  BY <1>1 DEF Row
<1> HIDE DEF n
<1>3. \A i \in (n - 1) + 1 .. n : i = n
  BY <1>1
<1>4. \A i \in (n - 1) + 1 .. n : Row(st, i) = <<>> /\ ~IsBody(st[i])
  BY <1>1, <1>2, <1>3
<1> QED BY <1>1, <1>4, KeptCut DEF n

\* An activation pushed on one that is not draining.
LEMMA PushKept ==
  ASSUME NEW st, StackOK(st), st # <<>>, Last(st).k # "defers", NEW a \in Activations,
         Fresh(a), a.k = "block" => a.by # "body",
         a.k = "block" /\ a.by = "case" => Last(st).k = "select",
         a.k = "sweep" => a.left \subseteq activeWatchers(st),
         a.k = "select" => Keeps(a)
  PROVE  Kept(st, Append(st, a))
<1>1. Placed(Append(st, a), Len(st) + 1)
  BY PlacedOn DEF Fresh
<1> QED BY <1>1, KeptPush

\* A dispatch, sweep or select that takes a step.
LEMMA SwapKept ==
  ASSUME NEW st, StackOK(st), st # <<>>, Last(st).k \notin {"block", "defers"},
         NEW a \in Activations, a.k \notin {"block", "defers"},
         a.k = "sweep" => \A p \in a.left : /\ p[1] \in 1 .. Len(st) - 1
                                            /\ st[p[1]].k = "block"
                                            /\ p[2] \in DOMAIN st[p[1]].ws,
         a.k = "select" => Keeps(a)
  PROVE  /\ Kept(st, Append(Front(st), a)) /\ Append(Front(st), a) # <<>>
         /\ Last(Append(Front(st), a)) = a
         /\ Len(Append(Front(st), a)) = Len(st)
         /\ \A i \in 1 .. Len(st) - 1 : Append(Front(st), a)[i] = st[i]
<1> DEFINE n == Len(st)  b == Front(st)  s == Append(b, a)
<1>1. /\ n \in Nat \ {0} /\ n - 1 \in 0 .. n /\ n \in DOMAIN st /\ (n - 1) + 1 = n
      /\ Last(st) = st[n] /\ Placed(st, n) /\ StackOK(b) /\ Len(b) = n - 1
      /\ \A i \in 1 .. n - 1 : b[i] = st[i]
  BY TopFacts
<1>2. b \in Seq(Activations)
  BY <1>1 DEF StackOK
<1>3. Len(s) = n /\ (\A i \in 1 .. n - 1 : s[i] = st[i]) /\ s[n] = a
  <2>1. /\ Len(s) = Len(b) + 1 /\ s[Len(b) + 1] = a
        /\ \A i \in 1 .. Len(b) : s[i] = b[i]
    BY <1>2, Pushed
  <2> QED BY <1>1, <2>1
<1>4. Kept(st, b)
  BY PopKept DEF IsBody
<1>5. Placed(s, n)
  <2>1. PICK j \in 1 .. n : IsBody(st[j])
    BY <1>1 DEF Placed
  <2>2. j # n
    BY <1>1, <2>1 DEF IsBody
  <2>3. j \in 1 .. n - 1
    <3> HIDE DEF n
    <3> QED BY <1>1, <2>1, <2>2
  <2>6. IsBody(s[j])
    BY <1>3, <2>1, <2>3
  <2>4. \E m \in 1 .. n : IsBody(s[m])
    BY <2>1, <2>6
  <2>5. s[n].k = "sweep" => \A p \in s[n].left :
          p[1] \in 1 .. n - 1 /\ s[p[1]].k = "block" /\ p[2] \in DOMAIN s[p[1]].ws
    BY <1>3
  <2> QED BY <1>3, <2>4, <2>5 DEF Placed
<1>6. Kept(b, s)
  <2>1. Len(b) + 1 = n /\ Fresh(a)
    BY <1>1 DEF Fresh
  <2> QED BY <1>1, <1>5, <2>1, KeptPush
<1>7. Kept(st, s)
  BY <1>4, <1>6, KeptTrans
<1>8. s # <<>> /\ Last(s) = a
  BY <1>1, <1>2, <1>3, EmptySeq DEF Last
<1> QED BY <1>3, <1>7, <1>8

\* Selects and the dispatch on top change in place.
LEMMA PointwiseKept ==
  ASSUME NEW st, NEW st2, StackOK(st), st2 \in Seq(Activations), DOMAIN st2 = DOMAIN st,
         \A i \in DOMAIN st : /\ st2[i].k = st[i].k
                              /\ st[i].k \notin {"select", "drain"} => st2[i] = st[i]
                              /\ st[i].k = "select" => Keeps(st2[i])
  PROVE  Kept(st, st2)
<1>1. st \in Seq(Activations) /\ DOMAIN st = 1 .. Len(st) /\ Len(st) \in Nat
  BY DEF StackOK
<1>2. \A i \in DOMAIN st : IsBody(st[i]) => IsBody(st2[i])
  BY DEF IsBody
<1>3. ASSUME NEW i \in DOMAIN st PROVE Placed(st2, i)
  <2>1. Placed(st, i) /\ i \in Nat \ {0} /\ 1 .. i \subseteq DOMAIN st
    BY <1>1 DEF StackOK
  <2>2. st2[i].k # "defers" => \E j \in 1 .. i : IsBody(st2[j])
    BY <1>2, <2>1 DEF Placed
  <2>3. st2[i].k \in {"block", "defers"} /\ st2[i].by = "body" => i = 1
    BY <2>1 DEF Placed
  <2>4. st2[i].k = "block" /\ st2[i].by = "case" => i > 1 /\ st2[i - 1].k = "select"
    BY <2>1 DEF Placed
  <2>5. st2[i].k = "sweep" => \A p \in st2[i].left :
          p[1] \in 1 .. i - 1 /\ st2[p[1]].k = "block" /\ p[2] \in DOMAIN st2[p[1]].ws
    BY <2>1 DEF Placed
  <2> QED BY <2>2, <2>3, <2>4, <2>5 DEF Placed
<1>4. StackOK(st2)
  BY <1>3 DEF StackOK
<1>5. \A i \in Nat : Row(st2, i) = Row(st, i)
  BY DEF Row
<1>6. LiveIn(st2) \subseteq LiveIn(st)
  BY LiveSubset
<1>7. HasBody(st) => HasBody(st2)
  BY <1>2 DEF HasBody
<1> QED BY <1>4, <1>5, <1>6, <1>7 DEF Kept

\* Registered watchers are watchers.
LEMMA LiveType ==
  ASSUME NEW st, StackOK(st)
  PROVE  LiveIn(st) \subseteq Watchers
<1> SUFFICES ASSUME NEW v \in LiveIn(st) PROVE v \in Watchers
  OBVIOUS
<1>1. PICK p \in activeWatchers(st) : v = st[p[1]].ws[p[2]].w
  BY DEF LiveIn
<1>2. PICK i \in DOMAIN st : st[i].k = "block" /\ \E m \in DOMAIN st[i].ws : p = <<i, m>>
  BY <1>1 DEF activeWatchers
<1>3. PICK m \in DOMAIN st[i].ws : p = <<i, m>>
  BY <1>2
<1>4. st[i] \in BlockType
  BY <1>2, Kinds DEF StackOK
<1>5. st[i].ws[m] \in [w : Watchers, in : SUBSET Contexts]
  <2>1. st[i].ws \in Seq([w : Watchers, in : SUBSET Contexts])
    BY <1>4 DEF BlockType
  <2> QED BY <1>3, <2>1, SeqFacts
<1> QED BY <1>1, <1>3, <1>5

\* The blocks that statements push.
LEMMA BlockFacts ==
  ASSUME NEW by \in Callers, NEW c \in SUBSET Contexts
  PROVE  /\ Block(by, c) \in Activations /\ Block(by, c).k = "block"
         /\ Block(by, c).by = by /\ Fresh(Block(by, c))
  BY EmptySeq DEF Block, Activations, BlockType, Fresh
LEMMA DrainFacts ==
  DrainQueue \in Activations /\ DrainQueue.k = "drain" /\ Fresh(DrainQueue)
  BY EmptySeq DEF DrainQueue, Activations, DrainType, Fresh

-----------------------------------------------------------------------------
(* Steps.                                                                    *)

\* A step that moves the stack and the deferred calls only.
LEMMA GoodPrime ==
  ASSUME Good(stack', deferred'), UNCHANGED <<world, last, credit, pushed, ran>>
  PROVE  Good(stack, deferred)'
<1>1. Covered(stack)'
  BY DEF Good, Covered, LiveIn, fireIf, activeWatchers
<1>2. Books(Rows(stack, deferred), pushed, ran)'
  BY DEF Good
<1>3. StackOK(stack)' /\ Drainable(stack, deferred)'
  BY DEF Good, StackOK, Drainable, Placed, HasBody, IsBody, Keeps
<1> QED BY <1>1, <1>2, <1>3 DEF Good

\* The statements of a block.
LEMMA EnterGood ==
  ASSUME IInv, NEW by \in {"loop", "try"}, EnterBlock(by)
  PROVE  Good(stack, deferred)'
<1>1. At("block") /\ stack' = Append(stack, Block(by, Top.in \union IF by = "loop" THEN {"loop"} ELSE {}))
      /\ UNCHANGED <<deferred, world, last, credit, pushed, ran>>
  BY DEF EnterBlock, Stmt, env
<1>2. Good(stack, deferred) /\ StackOK(stack) /\ stack # <<>> /\ Last(stack).k = "block"
  BY <1>1 DEF IInv, Good, At, Top
<1>3. Top \in BlockType
  BY <1>2, TopFacts, Kinds DEF Top
<1> DEFINE c == Top.in \union IF by = "loop" THEN {"loop"} ELSE {}
<1>4. c \in SUBSET Contexts /\ by \in Callers /\ by # "body" /\ by # "case"
  BY <1>3 DEF BlockType, Contexts, Callers
<1> HIDE DEF c
<1>5. Kept(stack, Append(stack, Block(by, c)))
  BY <1>2, <1>4, BlockFacts, PushKept
<1>6. Good(stack', deferred')
  BY <1>1, <1>2, <1>5, KeptGood DEF c
<1> QED BY <1>1, <1>6, GoodPrime

LEMMA CallGood ==
  ASSUME IInv, CallProc
  PROVE  Good(stack, deferred)'
<1>1. stack' = Append(stack, Block("proc", {"proc"}))
      /\ UNCHANGED <<deferred, world, last, credit, pushed, ran>>
  BY DEF CallProc, env
<1>2. Good(stack, deferred) /\ StackOK(stack)
  BY DEF IInv, Good
<1>3. {"proc"} \in SUBSET Contexts
  BY DEF Contexts
<1>4. Kept(stack, Append(stack, Block("proc", {"proc"})))
  BY <1>2, <1>3, PlacedProc, KeptPush
<1>5. Good(stack', deferred')
  BY <1>1, <1>2, <1>4, KeptGood
<1> QED BY <1>1, <1>5, GoodPrime

LEMMA YieldGood ==
  ASSUME IInv, Yield
  PROVE  Good(stack, deferred)'
<1>1. At("block") /\ stack' = Append(stack, DrainQueue)
      /\ UNCHANGED <<deferred, world, last, credit, pushed, ran>>
  BY DEF Yield, Stmt, env
<1>2. Good(stack, deferred) /\ StackOK(stack) /\ stack # <<>> /\ Last(stack).k = "block"
  BY <1>1 DEF IInv, Good, At, Top
<1>3. Kept(stack, Append(stack, DrainQueue))
  BY <1>2, DrainFacts, PushKept
<1>4. Good(stack', deferred')
  BY <1>1, <1>2, <1>3, KeptGood
<1> QED BY <1>1, <1>4, GoodPrime

\* A signal, from a statement or from what has no budget left or is canceled.
LEMMA PanicGood ==
  ASSUME IInv, NEW sig \in Signals, Raise(stack, sig),
         UNCHANGED <<world, last, credit, pushed, ran>>
  PROVE  Good(stack, deferred)' /\ deferred' \in Seq(DeferType)
<1>1. Good(stack, deferred) /\ deferred \in Seq(DeferType)
  BY DEF IInv, TypeOK
<1>2. Good(stack', deferred') /\ deferred' \in Seq(DeferType)
  BY <1>1, RaiseGood
<1> QED BY <1>2, GoodPrime

LEMMA LeaveGood ==
  ASSUME IInv, LeaveBlock
  PROVE  Good(stack, deferred)' /\ deferred' \in Seq(DeferType)
<1>1. At("block") /\ UNCHANGED <<world, last, credit, pushed, ran>>
  BY DEF LeaveBlock, env
<1>2. /\ Good(stack, deferred) /\ StackOK(stack) /\ stack # <<>> /\ Last(stack).k = "block"
      /\ deferred \in Seq(DeferType) /\ Top = Last(stack)
  BY <1>1 DEF IInv, TypeOK, Good, At, Top
<1> DEFINE n == Len(stack)
<1>3. /\ n \in Nat \ {0} /\ n \in DOMAIN stack /\ Last(stack) = stack[n] /\ Placed(stack, n)
      /\ Front(stack) = SubSeq(stack, 1, n - 1) /\ StackOK(Front(stack))
      /\ Len(Front(stack)) = n - 1 /\ \A i \in 1 .. n - 1 : Front(stack)[i] = stack[i]
  BY <1>2, TopFacts
<1>4. CASE IsBody(Top)
  <2>1. stack' = Append(Front(stack), drainDeferred(Top.by, "ok")) /\ deferred' = <<>>
    BY <1>4 DEF LeaveBlock, ReplaceTop
  <2>2. \A i \in n + 1 .. Len(stack) : Row(stack, i) = <<>> /\ ~IsBody(stack[i])
    BY <1>3
  <2>3. Good(Append(SubSeq(stack, 1, n - 1), drainDeferred(stack[n].by, "ok")), <<>>)
    <3> HIDE DEF n
    <3> QED BY <1>2, <1>3, <1>4, <2>2, DrainGood
  <2>4. Good(stack', deferred')
    BY <1>2, <1>3, <2>1, <2>3
  <2> QED BY <1>1, <2>1, <2>4, GoodPrime, EmptySeq
<1>5. CASE ~IsBody(Top)
  <2>1. deferred' = deferred
    BY <1>5 DEF LeaveBlock
  <2>2. Kept(stack, Front(stack))
    BY <1>2, <1>5, PopKept
  <2>3. CASE Top.by = "case"
    <3>1. stack' = Front(Front(stack))
      BY <1>5, <2>3 DEF LeaveBlock
    <3>2. n > 1 /\ stack[n - 1].k = "select"
      BY <1>2, <1>3, <2>3 DEF Placed
    <3>3. Front(stack) # <<>> /\ Last(Front(stack)) = stack[n - 1]
      <4>1. Len(Front(stack)) # 0 /\ n - 1 \in 1 .. n - 1
        BY <1>3, <3>2
      <4> QED BY <1>3, <4>1, EmptySeq DEF Last
    <3>4. Kept(Front(stack), Front(Front(stack)))
      BY <1>3, <3>2, <3>3, PopKept DEF IsBody
    <3>5. Good(stack', deferred')
      BY <1>2, <2>1, <2>2, <3>1, <3>4, KeptTrans, KeptGood
    <3> QED BY <1>1, <1>2, <2>1, <3>5, GoodPrime
  <2>4. CASE Top.by # "case"
    <3>1. stack' = Front(stack)
      BY <1>5, <2>4 DEF LeaveBlock
    <3>2. Good(stack', deferred')
      BY <1>2, <2>1, <2>2, <3>1, KeptGood
    <3> QED BY <1>1, <1>2, <2>1, <3>2, GoodPrime
  <2> QED BY <2>3, <2>4
<1> QED BY <1>4, <1>5

-----------------------------------------------------------------------------
\* defer.
LEMMA PushDeferGood ==
  ASSUME IInv, NEW d \in Defers, pushDefer(d)
  PROVE  Good(stack, deferred)' /\ deferred' \in Seq(DeferType)
<1>1. PICK i \in DOMAIN stack : Owns(i) /\ deferred' = Append(deferred, [d |-> d, own |-> i])
  BY DEF pushDefer
<1>2. /\ d \notin pushed /\ pushed' = pushed \union {d}
      /\ UNCHANGED <<stack, world, last, credit, ran>>
  BY DEF pushDefer, env
<1>3. /\ Good(stack, deferred) /\ StackOK(stack) /\ deferred \in Seq(DeferType)
      /\ pushed \subseteq Defers /\ i \in Nat
  BY DEF IInv, TypeOK, Good, StackOK
<1>4. deferred' \in Seq(DeferType)
  <2>1. [d |-> d, own |-> i] \in DeferType
    BY <1>3 DEF DeferType
  <2> QED BY <1>1, <1>3, <2>1, Pushed
<1>5. Books(Rows(stack, deferred'), pushed \union {d}, ran)
  <2> DEFINE r == Rows(stack, deferred)  r2 == Rows(stack, deferred')
  <2>1. /\ Books(r, pushed, ran) /\ r[0] = deferred /\ r2[0] = deferred'
        /\ \A j \in Nat \ {0} : r2[j] = r[j]
    BY <1>3 DEF Good, Rows
  <2> HIDE DEF r, r2
  <2>2. Books(r2, pushed \union {d}, ran)
    BY <1>1, <1>2, <1>3, <2>1, BooksPush
  <2> QED BY <2>2 DEF r2
<1>6. HasBody(stack)
  BY <1>1 DEF Owns, HasBody
<1>7. Covered(stack)'
  BY <1>2, <1>3 DEF Good, Covered, fireIf
<1> QED BY <1>2, <1>3, <1>4, <1>5, <1>6, <1>7 DEF Good, Drainable

\* A deferred call runs, in a proc of its own or not.
LEMMA RunDeferredGood ==
  ASSUME IInv, RunDeferred
  PROVE  Good(stack, deferred)'
<1> DEFINE n == Len(stack)  a == [Top EXCEPT !.left = Tail(@)]  s == Append(Front(stack), a)
           c == Block("proc", {"proc"})  d0 == Head(Top.left).d
<1>1. /\ At("defers") /\ Top.left # <<>> /\ ran' = [ran EXCEPT ![d0] = @ + 1]
      /\ stack' = s \o <<>> \/ stack' = s \o <<c>>
      /\ UNCHANGED <<deferred, world, last, credit, pushed>>
  BY DEF RunDeferred, ReplaceTop, env
<1>2. /\ Good(stack, deferred) /\ StackOK(stack) /\ stack # <<>> /\ Last(stack).k = "defers"
      /\ deferred \in Seq(DeferType) /\ Top = Last(stack)
      /\ pushed \in SUBSET Defers /\ ran \in [Defers -> Nat]
  BY <1>1 DEF IInv, TypeOK, Good, At, Top
<1>3. /\ n \in Nat \ {0} /\ n \in DOMAIN stack /\ DOMAIN stack = 1 .. n /\ Placed(stack, n)
      /\ Last(stack) = stack[n] /\ StackOK(Front(stack)) /\ Len(Front(stack)) = n - 1
      /\ (n - 1) + 1 = n /\ \A i \in 1 .. n - 1 : Front(stack)[i] = stack[i]
  BY <1>2, TopFacts
<1>4. Top \in DefersType /\ Top \in Activations
  BY <1>2, <1>3, TopFacts, Kinds
<1>5. Top.left \in Seq(DeferType) /\ Tail(Top.left) \in Seq(DeferType)
  <2>1. Top.left \in Seq(DeferType)
    BY <1>4 DEF DefersType
  <2> QED BY <1>1, <2>1, HeadTailProperties
<1>6. /\ a \in DefersType /\ a.k = "defers" /\ a.by = Top.by /\ a.left = Tail(Top.left)
  BY <1>4, <1>5 DEF DefersType
<1>7. a \in Activations /\ Front(stack) \in Seq(Activations)
  BY <1>3, <1>6 DEF Activations, StackOK
<1>8. /\ s \in Seq(Activations) /\ Len(s) = n /\ DOMAIN s = 1 .. n /\ s[n] = a
      /\ \A i \in 1 .. n - 1 : s[i] = stack[i]
  <2>1. /\ s \in Seq(Activations) /\ Len(s) = Len(Front(stack)) + 1
        /\ DOMAIN s = 1 .. Len(Front(stack)) + 1 /\ s[Len(Front(stack)) + 1] = a
        /\ \A i \in 1 .. Len(Front(stack)) : s[i] = Front(stack)[i]
    BY <1>7, Pushed
  <2> QED BY <1>3, <2>1
<1> HIDE DEF n, a, s, c
<1>9. StackOK(s)
  <2>1. Placed(s, n)
    BY <1>2, <1>3, <1>6, <1>8 DEF Placed
  <2> QED BY <1>3, <1>7, <1>8, <2>1, PushedOK DEF s
<1>10. Books(Rows(s, deferred), pushed, ran')
  <2> DEFINE r == Rows(stack, deferred)  r2 == Rows(s, deferred)
  <2>1. Books(r, pushed, ran)
    BY <1>2 DEF Good
  <2>2. r[n] = Top.left /\ r2[n] = Tail(Top.left) /\ n \in Nat
    <3>1. Row(stack, n) = Top.left
      BY <1>2, <1>3 DEF Row
    <3>2. Row(s, n) = Tail(Top.left)
      BY <1>3, <1>6, <1>8 DEF Row
    <3> QED BY <1>3, <3>1, <3>2 DEF Rows
  <2>3. ASSUME NEW i \in Nat \ {n} PROVE r2[i] = r[i]
    <3>1. CASE i \in 1 .. n - 1
      <4>1. i \in DOMAIN s /\ i \in DOMAIN stack /\ s[i] = stack[i]
        BY <1>3, <1>8, <3>1
      <4>2. Row(s, i) = Row(stack, i)
        BY <4>1 DEF Row
      <4> QED BY <4>2 DEF Rows
    <3>2. CASE i \notin 1 .. n
      <4>1. Row(s, i) = Row(stack, i)
        BY <1>3, <1>8, <3>2 DEF Row
      <4> QED BY <4>1 DEF Rows
    <3> QED BY <1>3, <3>1, <3>2
  <2> HIDE DEF r, r2
  <2>4. r[n] \in Seq(DeferType) /\ r[n] # <<>> /\ r2[n] = Tail(r[n])
        /\ ran' = [ran EXCEPT ![Head(r[n]).d] = @ + 1]
    BY <1>1, <1>5, <2>2
  <2>5. Books(r2, pushed, ran')
    BY <1>2, <2>1, <2>2, <2>3, <2>4, BooksRun
  <2> QED BY <2>5 DEF r2
<1>11. LiveIn(s) \subseteq LiveIn(stack)
  <2>1. \A i \in DOMAIN s : (i \in DOMAIN stack /\ s[i] = stack[i]) \/ s[i] = a
    BY <1>3, <1>8
  <2>2. \A i \in DOMAIN s : s[i].k = "block" =>
           \/ i \in DOMAIN stack /\ stack[i].k = "block" /\ s[i].ws = stack[i].ws
           \/ s[i].ws = <<>>
    BY <1>6, <2>1
  <2> QED BY <2>2, LiveSubset
<1>12. HasBody(stack) => HasBody(s)
  <2> SUFFICES ASSUME NEW i \in DOMAIN stack, IsBody(stack[i]) PROVE HasBody(s)
    BY DEF HasBody
  <2>1. i # n
    BY <1>2, <1>3 DEF IsBody
  <2>2. i \in 1 .. n - 1
    BY <1>3, <2>1
  <2> QED BY <1>3, <1>8, <2>2 DEF HasBody
<1>13. Kept(s, Append(s, c))
  <2>1. {"proc"} \in SUBSET Contexts
    BY DEF Contexts
  <2> QED BY <1>9, <2>1, PlacedProc, KeptPush DEF c
<1>14. c \in Activations
  BY <1>9, PlacedProc DEF c, Contexts
<1>15. stack' = s \/ stack' = Append(s, c)
  BY <1>1, <1>8, <1>14, ConcatEmptySeq, AppendIsConcat
<1>16. /\ StackOK(stack') /\ (HasBody(stack) => HasBody(stack'))
       /\ LiveIn(stack') \subseteq LiveIn(stack) /\ Rows(stack', deferred) = Rows(s, deferred)
  <2>1. CASE stack' = s
    BY <1>9, <1>11, <1>12, <2>1
  <2>2. CASE stack' = Append(s, c)
    <3>1. Rows(stack', deferred) = Rows(s, deferred)
      BY <1>13, <2>2 DEF Kept, Rows
    <3> QED BY <1>11, <1>12, <1>13, <2>2, <3>1 DEF Kept
  <2> QED BY <1>15, <2>1, <2>2
<1>17. Covered(stack)'
  BY <1>1, <1>2, <1>16 DEF Good, Covered, fireIf
<1>18. Drainable(stack', deferred)
  BY <1>2, <1>16 DEF Good, Drainable
<1> QED BY <1>1, <1>10, <1>16, <1>17, <1>18 DEF Good

\* The outcome of a body takes effect.
LEMMA DeferredDoneGood ==
  ASSUME IInv, DeferredDone
  PROVE  Good(stack, deferred)' /\ deferred' \in Seq(DeferType) /\ Phase'
<1>1. At("defers") /\ Top.left = <<>> /\ UNCHANGED <<world, last, credit, pushed, ran>>
  BY DEF DeferredDone, env
<1>2. /\ Good(stack, deferred) /\ StackOK(stack) /\ stack # <<>> /\ Last(stack).k = "defers"
      /\ deferred \in Seq(DeferType) /\ Top = Last(stack) /\ result = "running"
  BY <1>1 DEF IInv, TypeOK, Good, At, Top, Phase
<1>3. Kept(stack, Front(stack))
  BY <1>1, <1>2, PopKept DEF IsBody
<1>4. Good(Front(stack), deferred)
  BY <1>2, <1>3, KeptGood
<1>5. CASE Top.by = "body" /\ stack' = <<>> /\ result' = Outcome(Top.then) /\ UNCHANGED deferred
  <2>1. Len(stack) = 1 /\ DOMAIN stack = 1 .. 1 /\ stack[1] = Top
    BY <1>2, <1>5, TopFacts DEF Placed
  <2>2. ~HasBody(stack)
    BY <1>2, <2>1 DEF HasBody, IsBody
  <2>3. deferred = <<>>
    BY <1>2, <2>2 DEF Good, Drainable
  <2>4. \A i \in Nat : Row(stack, i) = <<>> /\ Row(<<>>, i) = <<>>
    BY <1>1, <2>1 DEF Row
  <2>5. \A i \in Nat : Rows(stack, deferred)[i] = <<>>
    BY <2>3, <2>4 DEF Rows
  <2>6. Books(Rows(stack, deferred), pushed, ran)
    BY <1>2 DEF Good
  <2>7. \A d \in pushed : ran[d] = 1
    BY <2>5, <2>6 DEF Books
  <2>8. Rows(<<>>, deferred) = Rows(stack, deferred)
    BY <2>4 DEF Rows
  <2>9. StackOK(<<>>) /\ Drainable(<<>>, deferred)
    BY <2>3, EmptySeq DEF StackOK, Drainable
  <2>10. LiveIn(<<>>) = {}
    BY DEF LiveIn, activeWatchers
  <2>11. Good(stack', deferred')
    BY <1>5, <2>6, <2>8, <2>9, <2>10 DEF Good, Covered
  <2> QED BY <1>1, <1>2, <1>5, <2>7, <2>11, GoodPrime DEF Phase
<1>6. CASE stack' = Front(stack) /\ UNCHANGED <<deferred, result>>
  <2>1. Good(stack', deferred')
    BY <1>4, <1>6
  <2> QED BY <1>1, <1>2, <1>6, <2>1, GoodPrime DEF Phase
<1>7. CASE Raise(Front(stack), IF Top.then = "abort" THEN "abort" ELSE "error") /\ UNCHANGED result
  <2> DEFINE sig == IF Top.then = "abort" THEN "abort" ELSE "error"
  <2>1. sig \in Signals /\ Raise(Front(stack), sig)
    BY <1>7 DEF Signals
  <2> HIDE DEF sig
  <2>2. Good(stack', deferred') /\ deferred' \in Seq(DeferType)
    BY <1>2, <1>4, <2>1, RaiseGood
  <2> QED BY <1>1, <1>2, <1>7, <2>2, GoodPrime DEF Phase
<1> QED BY <1>5, <1>6, <1>7 DEF DeferredDone

-----------------------------------------------------------------------------
\* Watchers.  A newly registered one has a credit exactly if it fires at once.
LEMMA ExecWhenGood ==
  ASSUME IInv, NEW w \in Watchers, execWhen(w)
  PROVE  Good(stack, deferred)' /\ last' \in [Watchers -> BOOLEAN]
         /\ credit' \in [Watchers -> Int] /\ OncePerEdge'
<1> DEFINE n == Len(stack)  r == [w |-> w, in |-> Top.in \union {"hand"}]
           a == [Top EXCEPT !.ws = Append(@, r)]  s == Append(Front(stack), a)
           sw == Sweep(activeWatchers(s))
<1>1. /\ At("block") /\ w \notin Live /\ stack' = Append(s, sw)
      /\ last' = [last EXCEPT ![w] = Seed(Qual[w])]
      /\ credit' = [credit EXCEPT ![w] = IF Seed(Qual[w]) # world THEN 1 ELSE 0]
      /\ UNCHANGED <<deferred, world, pushed, ran>>
  BY DEF execWhen, Stmt, ReplaceTop, env
<1>2. /\ Good(stack, deferred) /\ StackOK(stack) /\ stack # <<>> /\ Last(stack).k = "block"
      /\ Top = Last(stack) /\ world \in BOOLEAN /\ last \in [Watchers -> BOOLEAN]
      /\ credit \in [Watchers -> Int] /\ OncePerEdge /\ Qual[w] \in Qualifiers
  BY <1>1, RoutineAssumption DEF IInv, TypeOK, Good, At, Top
<1>3. /\ n \in Nat \ {0} /\ n \in DOMAIN stack /\ DOMAIN stack = 1 .. n /\ Placed(stack, n)
      /\ Last(stack) = stack[n] /\ StackOK(Front(stack)) /\ Len(Front(stack)) = n - 1
      /\ (n - 1) + 1 = n /\ \A i \in 1 .. n - 1 : Front(stack)[i] = stack[i]
  BY <1>2, TopFacts
<1>4. Top \in BlockType
  BY <1>2, <1>3, TopFacts, Kinds
<1>5. r \in [w : Watchers, in : SUBSET Contexts] /\ r.w = w
  BY <1>4 DEF BlockType, Contexts
<1>6. Top.ws \in Seq([w : Watchers, in : SUBSET Contexts])
  BY <1>4 DEF BlockType
<1>7. /\ Append(Top.ws, r) \in Seq([w : Watchers, in : SUBSET Contexts])
      /\ Len(Top.ws) \in Nat /\ DOMAIN Top.ws = 1 .. Len(Top.ws)
      /\ DOMAIN Append(Top.ws, r) = 1 .. Len(Top.ws) + 1
      /\ (\A i \in 1 .. Len(Top.ws) : Append(Top.ws, r)[i] = Top.ws[i])
      /\ Append(Top.ws, r)[Len(Top.ws) + 1] = r
  BY <1>5, <1>6, Pushed
<1>8. a \in BlockType /\ a.k = "block" /\ a.by = Top.by /\ a.ws = Append(Top.ws, r)
  BY <1>4, <1>7 DEF BlockType
<1>9. a \in Activations /\ Front(stack) \in Seq(Activations)
  BY <1>3, <1>8 DEF Activations, StackOK
<1>10. /\ s \in Seq(Activations) /\ Len(s) = n /\ DOMAIN s = 1 .. n /\ s[n] = a
       /\ \A i \in 1 .. n - 1 : s[i] = stack[i]
  <2>1. /\ s \in Seq(Activations) /\ Len(s) = Len(Front(stack)) + 1
        /\ DOMAIN s = 1 .. Len(Front(stack)) + 1 /\ s[Len(Front(stack)) + 1] = a
        /\ \A i \in 1 .. Len(Front(stack)) : s[i] = Front(stack)[i]
    BY <1>9, Pushed
  <2> QED BY <1>3, <2>1
<1> HIDE DEF n, r, a, s, sw
<1>11. \A i \in DOMAIN stack : IsBody(stack[i]) => i \in DOMAIN s /\ IsBody(s[i])
  <2> SUFFICES ASSUME NEW i \in DOMAIN stack, IsBody(stack[i]) PROVE i \in DOMAIN s /\ IsBody(s[i])
    OBVIOUS
  <2>1. CASE i = n
    BY <1>2, <1>3, <1>8, <1>10, <2>1 DEF IsBody
  <2>2. CASE i # n
    BY <1>3, <1>10, <2>2
  <2> QED BY <2>1, <2>2
<1>12. StackOK(s)
  <2>1. \E j \in 1 .. n : IsBody(s[j])
    <3>1. PICK j \in 1 .. n : IsBody(stack[j])
      BY <1>2, <1>3 DEF Placed
    <3> QED BY <1>3, <1>10, <1>11, <3>1
  <2>2. Top.by = "body" => n = 1
    BY <1>2, <1>3 DEF Placed
  <2>3. Top.by = "case" => n > 1 /\ stack[n - 1].k = "select" /\ s[n - 1] = stack[n - 1]
    <3> SUFFICES ASSUME Top.by = "case" PROVE n > 1 /\ stack[n - 1].k = "select" /\ s[n - 1] = stack[n - 1]
      OBVIOUS
    <3>1. n > 1 /\ stack[n - 1].k = "select"
      BY <1>2, <1>3 DEF Placed
    <3>2. n - 1 \in 1 .. n - 1
      BY <1>3, <3>1
    <3> QED BY <1>10, <3>1, <3>2
  <2>4. Placed(s, n)
    BY <1>8, <1>10, <2>1, <2>2, <2>3 DEF Placed
  <2> QED BY <1>3, <1>9, <1>10, <2>4, PushedOK DEF s
<1>13. sw \in Activations /\ sw.k = "sweep" /\ sw.left = activeWatchers(s) /\ Fresh(sw)
  <2>1. sw = [k |-> "sweep", left |-> activeWatchers(s)]
    BY DEF sw, Sweep
  <2>2. ASSUME NEW i \in DOMAIN s, s[i].k = "block" PROVE DOMAIN s[i].ws \subseteq Nat
    <3>1. s[i] \in BlockType
      BY <1>10, <2>2, Kinds
    <3> QED BY <3>1 DEF BlockType
  <2>3. activeWatchers(s) \subseteq Nat \X Nat
    BY <1>10, <2>2 DEF activeWatchers
  <2> QED BY <2>1, <2>3 DEF Activations, SweepType, Fresh
<1>14. Kept(s, stack')
  <2>1. s # <<>> /\ Last(s) = a
    BY <1>3, <1>10, EmptySeq DEF Last
  <2>2. Kept(s, Append(s, sw))
    BY <1>8, <1>12, <1>13, <2>1, PushKept
  <2> QED BY <1>1, <2>2
<1>15. \A i \in Nat : Row(s, i) = Row(stack, i)
  <2> SUFFICES ASSUME NEW i \in Nat PROVE Row(s, i) = Row(stack, i)
    OBVIOUS
  <2>1. CASE i \in 1 .. n - 1
    BY <1>3, <1>10, <2>1 DEF Row
  <2>2. CASE i = n
    BY <1>2, <1>3, <1>8, <1>10, <2>2 DEF Row
  <2>3. CASE i \notin 1 .. n
    BY <1>3, <1>10, <2>3 DEF Row
  <2> QED BY <1>3, <2>1, <2>2, <2>3
<1>16. LiveIn(s) \subseteq LiveIn(stack) \union {w}
  <2> SUFFICES ASSUME NEW v \in LiveIn(s), v # w PROVE v \in LiveIn(stack)
    OBVIOUS
  <2>1. PICK p \in activeWatchers(s) : v = s[p[1]].ws[p[2]].w
    BY DEF LiveIn
  <2>2. PICK i \in DOMAIN s : s[i].k = "block" /\ \E m \in DOMAIN s[i].ws : p = <<i, m>>
    BY <2>1 DEF activeWatchers
  <2>3. PICK m \in DOMAIN s[i].ws : p = <<i, m>>
    BY <2>2
  <2>4. /\ i \in DOMAIN stack /\ stack[i].k = "block" /\ m \in DOMAIN stack[i].ws
        /\ v = stack[i].ws[m].w
    <3>1. CASE i = n
      <4>1. s[i] = a /\ a.ws = Append(Top.ws, r) /\ stack[i] = Top
        BY <1>2, <1>3, <1>8, <1>10, <3>1
      <4>2. v = Append(Top.ws, r)[m].w
        BY <2>1, <2>3, <4>1
      <4>3. m \in 1 .. Len(Top.ws) + 1 /\ m # Len(Top.ws) + 1
        BY <1>5, <1>7, <2>3, <4>1, <4>2
      <4>4. m \in 1 .. Len(Top.ws)
        BY <1>7, <4>3
      <4> QED BY <1>2, <1>3, <1>7, <3>1, <4>1, <4>2, <4>4
    <3>2. CASE i # n
      <4>1. i \in DOMAIN stack /\ s[i] = stack[i]
        BY <1>3, <1>10, <3>2
      <4> QED BY <2>1, <2>2, <2>3, <4>1
    <3> QED BY <3>1, <3>2
  <2>5. <<i, m>> \in activeWatchers(stack)
    BY <2>4 DEF activeWatchers
  <2> QED BY <2>4, <2>5 DEF LiveIn
<1>17. LiveIn(stack') \subseteq LiveIn(stack) \union {w}
  BY <1>14, <1>16 DEF Kept
<1>18. Seed(Qual[w]) \in BOOLEAN
  BY <1>2 DEF Seed, Qualifiers
<1>19. /\ last' \in [Watchers -> BOOLEAN] /\ last'[w] = Seed(Qual[w])
       /\ \A v \in Watchers : v # w => last'[v] = last[v] /\ credit'[v] = credit[v]
       /\ credit' \in [Watchers -> Int] /\ credit'[w] = IF Seed(Qual[w]) # world THEN 1 ELSE 0
  BY <1>1, <1>2, <1>18
<1>20. LiveIn(stack') \subseteq Watchers
  BY <1>2, <1>17, LiveType
<1>21. ASSUME NEW v \in LiveIn(stack'), fireIf(Qual[v], last'[v]) PROVE credit'[v] >= 1
  <2>1. CASE v = w
    <3>1. Qual[w] \in Qualifiers /\ fireIf(Qual[w], Seed(Qual[w]))
      BY <1>2, <1>19, <1>21, <2>1
    <3>2. Seed(Qual[w]) # world
      BY <3>1 DEF fireIf, Seed, Qualifiers
    <3> QED BY <1>19, <2>1, <3>2
  <2>2. CASE v # w
    <3>1. v \in LiveIn(stack) /\ last'[v] = last[v] /\ credit'[v] = credit[v]
      BY <1>17, <1>19, <1>20, <2>2
    <3> QED BY <1>2, <1>21, <3>1 DEF Good, Covered
  <2> QED BY <2>1, <2>2
<1>22. Covered(stack)'
  BY <1>1, <1>21 DEF Covered, fireIf
<1>23. Rows(stack', deferred) = Rows(stack, deferred)
  BY <1>14, <1>15 DEF Rows, Kept
<1>24. HasBody(stack) => HasBody(stack')
  BY <1>11, <1>14 DEF HasBody, Kept
<1>25. StackOK(stack') /\ Drainable(stack', deferred) /\ Books(Rows(stack', deferred), pushed, ran)
  BY <1>2, <1>14, <1>23, <1>24 DEF Good, Kept, Drainable
<1>26. OncePerEdge'
  BY <1>2, <1>19 DEF OncePerEdge
<1> QED BY <1>1, <1>19, <1>22, <1>25, <1>26 DEF Good

\* A sweep tests a watcher: it is a registered one, so it fires on a credit, and
\* having seen the current value it does not fire again before the world changes.
LEMMA EvalWatcherGood ==
  ASSUME IInv, evalWatcher
  PROVE  Good(stack, deferred)' /\ last' \in [Watchers -> BOOLEAN]
         /\ credit' \in [Watchers -> Int] /\ OncePerEdge'
<1>1. At("sweep") /\ UNCHANGED <<deferred, world, pushed, ran>>
  BY DEF evalWatcher, env
<1>2. PICK p \in Top.left :
        LET r == Registered(p)
            fire == fireIf(Qual[r.w], last[r.w])
            swept == ReplaceTop([Top EXCEPT !.left = @ \ {p}])
        IN /\ last' = [last EXCEPT ![r.w] = world]
           /\ credit' = [credit EXCEPT ![r.w] = IF fire THEN @ - 1 ELSE @]
           /\ stack' = IF fire THEN Append(swept, Block("watch", r.in)) ELSE swept
  BY DEF evalWatcher
<1> DEFINE n == Len(stack)  r == Registered(p)  fire == fireIf(Qual[r.w], last[r.w])
           a == [Top EXCEPT !.left = @ \ {p}]  s == Append(Front(stack), a)
<1>3. /\ last' = [last EXCEPT ![r.w] = world]
      /\ credit' = [credit EXCEPT ![r.w] = IF fire THEN @ - 1 ELSE @]
      /\ stack' = IF fire THEN Append(s, Block("watch", r.in)) ELSE s
  BY <1>2 DEF ReplaceTop
<1>4. /\ Good(stack, deferred) /\ StackOK(stack) /\ stack # <<>> /\ Last(stack).k = "sweep"
      /\ Top = Last(stack) /\ world \in BOOLEAN /\ last \in [Watchers -> BOOLEAN]
      /\ credit \in [Watchers -> Int] /\ OncePerEdge
  BY <1>1 DEF IInv, TypeOK, Good, At, Top
<1>5. /\ n \in Nat \ {0} /\ Last(stack) = stack[n] /\ Placed(stack, n) /\ DOMAIN stack = 1 .. n
      /\ Top \in SweepType
  BY <1>4, TopFacts, Kinds
<1>6. \A q \in Top.left : /\ q[1] \in 1 .. n - 1 /\ stack[q[1]].k = "block"
                          /\ q[2] \in DOMAIN stack[q[1]].ws
  BY <1>4, <1>5 DEF Placed
<1>7. a \in SweepType /\ a.k = "sweep" /\ a.left = Top.left \ {p}
  BY <1>5 DEF SweepType
<1>8. a \in Activations
  BY <1>7 DEF Activations
<1>9. Kept(stack, s) /\ s # <<>> /\ Last(s) = a
  <2> HIDE DEF a
  <2> QED BY <1>4, <1>6, <1>7, <1>8, SwapKept DEF n
<1>10. r = stack[p[1]].ws[p[2]] /\ r.w \in LiveIn(stack) /\ r.w \in Watchers /\ r.in \in SUBSET Contexts
  <2>1. p[1] \in DOMAIN stack /\ stack[p[1]].k = "block" /\ p[2] \in DOMAIN stack[p[1]].ws
    BY <1>5, <1>6
  <2>2. stack[p[1]] \in BlockType
    BY <1>4, <2>1, Kinds DEF StackOK
  <2>3. r = stack[p[1]].ws[p[2]] /\ r \in [w : Watchers, in : SUBSET Contexts]
    <3>1. stack[p[1]].ws \in Seq([w : Watchers, in : SUBSET Contexts])
      BY <2>2 DEF BlockType
    <3> QED BY <2>1, <3>1, SeqFacts DEF Registered
  <2>4. <<p[1], p[2]>> \in activeWatchers(stack)
    BY <2>1 DEF activeWatchers
  <2>5. r.w \in LiveIn(stack)
    BY <2>3, <2>4 DEF LiveIn
  <2> QED BY <2>3, <2>5
<1> HIDE DEF n, a, s, r
<1>11. Kept(stack, stack')
  <2>1. CASE fire
    <3> DEFINE c == Block("watch", r.in)
    <3>1. c \in Activations /\ c.k = "block" /\ c.by = "watch" /\ Fresh(c)
      BY <1>10, BlockFacts DEF Callers
    <3> HIDE DEF c
    <3>2. Kept(s, Append(s, c))
      BY <1>7, <1>9, <3>1, PushKept DEF Kept
    <3>3. Kept(stack, Append(s, c))
      BY <1>9, <3>2, KeptTrans
    <3> QED BY <1>3, <2>1, <3>3 DEF c
  <2>2. CASE ~fire
    BY <1>3, <1>9, <2>2
  <2> QED BY <2>1, <2>2
<1>12. fire => credit[r.w] >= 1
  BY <1>4, <1>10 DEF Good, Covered
<1>13. /\ last' \in [Watchers -> BOOLEAN] /\ last'[r.w] = world
       /\ \A v \in Watchers : v # r.w => last'[v] = last[v] /\ credit'[v] = credit[v]
       /\ credit' \in [Watchers -> Int] /\ credit'[r.w] = IF fire THEN credit[r.w] - 1 ELSE credit[r.w]
  <2> HIDE DEF fire
  <2> QED BY <1>3, <1>4, <1>10
<1>14. credit[r.w] >= 0 /\ credit[r.w] \in Int
  BY <1>4, <1>10 DEF OncePerEdge
<1>15. credit'[r.w] >= 0
  <2> HIDE DEF fire
  <2> QED BY <1>12, <1>13, <1>14
<1>16. OncePerEdge'
  BY <1>4, <1>13, <1>15 DEF OncePerEdge
<1>17. LiveIn(stack') \subseteq LiveIn(stack) /\ LiveIn(stack) \subseteq Watchers
  BY <1>4, <1>11, LiveType DEF Kept
<1>18. ASSUME NEW v \in LiveIn(stack'), fireIf(Qual[v], last'[v]) PROVE credit'[v] >= 1
  <2>1. v \in LiveIn(stack) /\ v \in Watchers /\ Qual[v] \in Qualifiers
    BY <1>17, RoutineAssumption
  <2>2. v # r.w
    BY <1>4, <1>13, <1>18, <2>1 DEF fireIf, Qualifiers
  <2> QED BY <1>4, <1>13, <1>18, <2>1, <2>2 DEF Good, Covered
<1>19. Covered(stack)'
  BY <1>1, <1>18 DEF Covered, fireIf
<1>20. Good(stack', deferred)
  BY <1>4, <1>11, KeptGood
<1> QED BY <1>1, <1>13, <1>16, <1>19, <1>20 DEF Good

LEMMA SweepEndGood ==
  ASSUME IInv, SweepEnd
  PROVE  Good(stack, deferred)'
<1>1. At("sweep") /\ stack' = Front(stack) /\ UNCHANGED <<deferred, world, last, credit, pushed, ran>>
  BY DEF SweepEnd, env, run
<1>2. Good(stack, deferred) /\ StackOK(stack) /\ stack # <<>> /\ Last(stack).k = "sweep"
  BY <1>1 DEF IInv, Good, At, Top
<1>3. Kept(stack, Front(stack))
  BY <1>2, PopKept DEF IsBody
<1>4. Good(stack', deferred')
  BY <1>1, <1>2, <1>3, KeptGood
<1> QED BY <1>1, <1>4, GoodPrime

\* The world changes: a registered watcher that now fires is credited for it.
LEMMA FlipGood ==
  ASSUME IInv, Flip
  PROVE  Good(stack, deferred)' /\ credit' \in [Watchers -> Int] /\ OncePerEdge'
<1>1. /\ world' = ~world
      /\ credit' = [w \in Watchers |->
           IF w \in Live /\ Matches(Qual[w]) THEN credit[w] + 1 ELSE credit[w]]
      /\ UNCHANGED <<stack, deferred, last, pushed, ran>>
  BY DEF Flip
<1>2. /\ Good(stack, deferred) /\ world \in BOOLEAN /\ last \in [Watchers -> BOOLEAN]
      /\ credit \in [Watchers -> Int] /\ OncePerEdge
  BY DEF IInv, TypeOK
<1>3. Live = LiveIn(stack) /\ Live \subseteq Watchers
  <2>1. Live = LiveIn(stack)
    BY DEF Live, LiveIn, Registered
  <2> QED BY <1>2, <2>1, LiveType DEF Good
<1>4. \A v \in Watchers : /\ credit[v] \in Int /\ credit[v] >= 0 /\ credit'[v] \in Int
                          /\ credit'[v] >= credit[v]
                          /\ v \in Live /\ Matches(Qual[v]) => credit'[v] >= 1
  <2> HIDE DEF Live, Matches
  <2> QED BY <1>1, <1>2 DEF OncePerEdge
<1>5. credit' \in [Watchers -> Int] /\ OncePerEdge'
  <2>1. credit' \in [Watchers -> Int]
    BY <1>1, <1>4
  <2>2. \A v \in Watchers : credit'[v] >= 0
    BY <1>4
  <2> QED BY <2>1, <2>2 DEF OncePerEdge
<1>6. ASSUME NEW v \in Live, fireIf(Qual[v], last[v])' PROVE credit'[v] >= 1
  <2>1. v \in Watchers /\ Qual[v] \in Qualifiers /\ last[v] \in BOOLEAN
    BY <1>2, <1>3, RoutineAssumption
  <2>2. CASE Matches(Qual[v])
    BY <1>4, <2>1, <2>2
  <2>3. CASE ~Matches(Qual[v])
    <3>1. fireIf(Qual[v], last[v])
      BY <1>1, <1>2, <1>6, <2>1, <2>3 DEF fireIf, Matches, Qualifiers
    <3>2. credit[v] >= 1
      BY <1>2, <1>3, <3>1 DEF Good, Covered
    <3> QED BY <1>4, <2>1, <3>2
  <2> QED BY <2>2, <2>3
<1>7. Covered(stack)'
  <2>1. LiveIn(stack)' = Live
    BY <1>1, <1>3
  <2> QED BY <1>1, <1>6, <2>1 DEF Covered
<1> QED BY <1>1, <1>2, <1>5, <1>7 DEF Good

-----------------------------------------------------------------------------
\* Dispatch.  A listener's send never pushes the first event out of the channel.
LEMMA SendFacts ==
  ASSUME NEW ch \in Seq(Nat), NEW on \in Seq(Nat), NEW cap \in Nat \ {0}, Len(ch) <= cap
  PROVE  /\ Send(ch, on, cap) \in Seq(Nat) /\ Len(Send(ch, on, cap)) <= cap
         /\ ToSet(ch) \subseteq ToSet(Send(ch, on, cap))
         /\ ch = <<>> /\ on = <<>> => Send(ch, on, cap) = <<>>
         /\ ch = <<>> /\ on # <<>> => Head(on) \in ToSet(Send(ch, on, cap))
<1> DEFINE c == ch \o on  l == Len(ch)  m == Len(on)
<1>1. /\ c \in Seq(Nat) /\ Len(c) = l + m /\ l \in Nat /\ m \in Nat
      /\ \A i \in 1 .. l + m : c[i] = IF i <= l THEN ch[i] ELSE on[i - l]
  BY ConcatProperties
<1>2. DOMAIN ch = 1 .. l /\ DOMAIN c = 1 .. l + m /\ Len(c) \in Nat
  BY <1>1
<1> HIDE DEF c, l, m
<1>3. PICK n \in 0 .. l + m :
        /\ Send(ch, on, cap) = (IF n = l + m THEN c ELSE SubSeq(c, 1, n))
        /\ n <= cap /\ (n < l + m => n = cap)
  <2>1. CASE l + m <= cap
    <3>1. Send(ch, on, cap) = c /\ l + m \in 0 .. l + m
      BY <1>1, <2>1 DEF Send, c, l, m
    <3>2. ~(l + m < l + m)
      BY <1>1
    <3> QED BY <2>1, <3>1, <3>2
  <2>2. CASE ~(l + m <= cap)
    <3>1. Send(ch, on, cap) = SubSeq(c, 1, cap) /\ cap \in 0 .. l + m /\ cap # l + m
      BY <1>1, <2>2 DEF Send, c, l, m
    <3> QED BY <1>1, <2>2, <3>1
  <2> QED BY <2>1, <2>2
<1> DEFINE s == Send(ch, on, cap)
<1>4. s \in Seq(Nat) /\ Len(s) = n /\ DOMAIN s = 1 .. n /\ \A i \in 1 .. n : s[i] = c[i]
  <2>1. CASE n = l + m
    BY <1>1, <1>2, <1>3, <2>1
  <2>2. CASE n # l + m
    <3>1. s = SubSeq(c, 1, n) /\ n \in 0 .. Len(c)
      BY <1>1, <1>3, <2>2
    <3> QED BY <1>1, <3>1, Bottom
  <2> QED BY <2>1, <2>2
<1> HIDE DEF s
<1>5. l <= n
  BY <1>1, <1>3 DEF l
<1>6. ToSet(ch) \subseteq ToSet(s)
  <2> SUFFICES ASSUME NEW i \in DOMAIN ch PROVE ch[i] \in ToSet(s)
    BY DEF ToSet
  <2>1. i \in 1 .. n /\ i \in 1 .. l + m /\ i <= l
    BY <1>1, <1>2, <1>3, <1>5
  <2>2. s[i] = ch[i]
    BY <1>1, <1>4, <2>1
  <2> QED BY <1>4, <2>1, <2>2 DEF ToSet
<1>7. ch = <<>> /\ on = <<>> => s = <<>>
  <2> SUFFICES ASSUME ch = <<>>, on = <<>> PROVE s = <<>>
    OBVIOUS
  <2>1. l = 0 /\ m = 0
    BY DEF l, m
  <2>2. n = 0
    BY <1>3, <2>1
  <2> QED BY <1>4, <2>2, EmptySeq
<1>8. ch = <<>> /\ on # <<>> => Head(on) \in ToSet(s)
  <2> SUFFICES ASSUME ch = <<>>, on # <<>> PROVE Head(on) \in ToSet(s)
    OBVIOUS
  <2>1. l = 0 /\ m # 0 /\ Head(on) = on[1]
    BY EmptySeq, HeadTailProperties DEF l, m
  <2>2. n >= 1 /\ 1 \in 1 .. n /\ 1 \in 1 .. l + m
    BY <1>1, <1>3, <2>1
  <2>3. s[1] = on[1]
    BY <1>1, <1>4, <2>1, <2>2
  <2> QED BY <1>4, <2>1, <2>2, <2>3 DEF ToSet
<1> QED BY <1>3, <1>4, <1>6, <1>7, <1>8 DEF s

\* A select that hears keeps what it must.
LEMMA HearKeeps ==
  ASSUME NEW a \in SelectType, Keeps(a), NEW on \in Seq(Nat)
  PROVE  Hear(a, on) \in SelectType /\ Hear(a, on).k = "select" /\ Keeps(Hear(a, on))
<1> DEFINE cap == IF a.cs = <<>> THEN 1 ELSE Len(a.cs)
           ch2 == Send(a.ch, on, cap)
           hd2 == IF a.at = "run" THEN a.heard ELSE a.heard \o on
           b == Hear(a, on)
<1>1. a.ch \in Seq(Nat) /\ a.heard \in Seq(Nat) /\ a.cs \in SelectStmts
  BY DEF SelectType
<1>2. cap \in Nat \ {0} /\ Len(a.ch) <= cap
  <2>1. Len(a.cs) \in Nat /\ (a.cs # <<>> => Len(a.cs) # 0)
    BY <1>1, CasesSeq
  <2> QED BY <2>1 DEF Keeps
<1> HIDE DEF cap
<1>3. /\ ch2 \in Seq(Nat) /\ Len(ch2) <= cap /\ ToSet(a.ch) \subseteq ToSet(ch2)
      /\ a.ch = <<>> /\ on = <<>> => ch2 = <<>>
      /\ a.ch = <<>> /\ on # <<>> => Head(on) \in ToSet(ch2)
  BY <1>1, <1>2, SendFacts
<1> HIDE DEF ch2
<1>4. hd2 \in Seq(Nat)
  BY <1>1, ConcatProperties
<1>5. b = [a EXCEPT !.ch = ch2, !.heard = hd2]
  BY DEF Hear, ch2, cap
<1> HIDE DEF hd2, b
<1>6. /\ b \in SelectType /\ b.k = "select" /\ b.ch = ch2 /\ b.heard = hd2 /\ b.at = a.at
      /\ b.win = a.win /\ b.cs = a.cs
  BY <1>3, <1>4, <1>5 DEF SelectType
<1>7. Keeps(b)
  <2>1. Len(b.ch) <= IF b.cs = <<>> THEN 1 ELSE Len(b.cs)
    BY <1>3, <1>6 DEF cap
  <2>2. CASE a.at = "run"
    BY <1>6, <2>1, <2>2 DEF Keeps, hd2
  <2>3. CASE a.at # "run"
    <3>1. hd2 = a.heard \o on
      BY <2>3 DEF hd2
    <3>2. CASE a.heard = <<>>
      <4>1. a.ch = <<>> /\ hd2 = on
        BY <2>3, <3>1, <3>2, ConcatEmptySeq DEF Keeps
      <4> QED BY <1>3, <1>6, <2>1, <2>3, <4>1 DEF Keeps
    <3>3. CASE a.heard # <<>>
      <4>1. Head(a.heard) \in ToSet(ch2)
        BY <1>3, <2>3, <3>3 DEF Keeps
      <4>2. hd2 # <<>> /\ Head(hd2) = Head(a.heard)
        <5>1. Len(a.heard) \in Nat \ {0} /\ Len(on) \in Nat
          BY <1>1, <3>3, EmptySeq
        <5>2. Len(hd2) = Len(a.heard) + Len(on) /\ hd2[1] = a.heard[1]
          BY <1>1, <3>1, <5>1, ConcatProperties
        <5>3. hd2 # <<>>
          BY <1>4, <5>1, <5>2, EmptySeq
        <5> QED BY <1>1, <1>4, <3>3, <5>2, <5>3, HeadTailProperties
      <4> QED BY <1>6, <2>1, <2>3, <4>1, <4>2 DEF Keeps
    <3> QED BY <3>2, <3>3
  <2> QED BY <2>2, <2>3
<1> QED BY <1>6, <1>7 DEF b

\* The cases of a select are finitely many.
LEMMA CasesFinite ==
  ASSUME NEW cs \in SelectStmts, NEW S, S \subseteq DOMAIN cs
  PROVE  IsFiniteSet(S) /\ Cardinality(S) \in Nat /\ S \subseteq Nat
<1>1. DOMAIN cs = 1 .. Len(cs) /\ Len(cs) \in Nat
  BY CasesSeq
<1>2. IsFiniteSet(1 .. Len(cs))
  BY <1>1, FS_Interval
<1>3. IsFiniteSet(S)
  BY <1>1, <1>2, FS_Subset
<1>4. S \subseteq Nat
  BY <1>1
<1> QED BY <1>3, <1>4, FS_CardinalityType

LEMMA DeclaredSeq ==
  ASSUME NEW cs \in SelectStmts, NEW e, NEW s \in Declared(OnCases(cs, e))
  PROVE  s \in Seq(Nat)
<1> DEFINE S == OnCases(cs, e)  n == Cardinality(S)
<1>1. n \in Nat /\ S \subseteq Nat
  BY CasesFinite DEF OnCases
<1>2. s \in [1 .. n -> S]
  BY DEF Declared
<1> HIDE DEF S, n
<1>3. s \in [1 .. n -> Nat]
  BY <1>1, <1>2
<1> QED BY <1>1, <1>3, SeqDef

LEMMA TakeEventGood ==
  ASSUME IInv, TakeEvent
  PROVE  Good(stack, deferred)' /\ queue' \in Seq(Events) /\ Len(queue') <= QueueCap
<1> DEFINE e == Head(queue)  n == Len(stack)  b == [Top EXCEPT !.of = e, !.left = Handlers[e]]
<1>1. /\ At("drain") /\ queue # <<>> /\ queue' = Tail(queue)
      /\ UNCHANGED <<deferred, world, last, credit, pushed, ran>>
  BY DEF TakeEvent, env
<1>2. PICK fired :
        /\ \A i \in Selects : fired[i] \in Declared(OnCases(stack[i].cs, e))
        /\ stack' = [i \in DOMAIN stack |->
             IF i \in Selects THEN Hear(stack[i], fired[i])
             ELSE IF i = n THEN b ELSE stack[i]]
  BY DEF TakeEvent
<1>3. /\ Good(stack, deferred) /\ StackOK(stack) /\ stack # <<>> /\ Last(stack).k = "drain"
      /\ Top = Last(stack) /\ queue \in Seq(Events) /\ Len(queue) <= QueueCap
  BY <1>1 DEF IInv, TypeOK, Good, At, Top
<1>4. e \in Events /\ Tail(queue) \in Seq(Events) /\ Len(Tail(queue)) = Len(queue) - 1 /\ Len(queue) \in Nat
  BY <1>1, <1>3, HeadTailProperties, SeqFacts
<1>5. QueueCap \in Nat /\ Handlers[e] \in Seq({"on", "bounded"})
  BY <1>4, RoutineAssumption
<1>6. queue' \in Seq(Events) /\ Len(queue') <= QueueCap
  BY <1>1, <1>3, <1>4, <1>5
<1>7. /\ n \in Nat \ {0} /\ DOMAIN stack = 1 .. n /\ Last(stack) = stack[n] /\ Top \in DrainType
      /\ \A i \in DOMAIN stack : stack[i] \in Activations /\ Placed(stack, i)
  BY <1>3, TopFacts, Kinds, SeqFacts DEF StackOK
<1>8. b \in DrainType /\ b.k = "drain" /\ b \in Activations
  <2>1. b \in DrainType /\ b.k = "drain"
    <3> HIDE DEF e
    <3> QED BY <1>4, <1>5, <1>7 DEF DrainType
  <2> QED BY <2>1 DEF Activations
<1> HIDE DEF b, n, e
<1>9. ASSUME NEW i \in DOMAIN stack
      PROVE  /\ stack'[i] \in Activations /\ stack'[i].k = stack[i].k
             /\ stack[i].k \notin {"select", "drain"} => stack'[i] = stack[i]
             /\ stack[i].k = "select" => Keeps(stack'[i])
  <2>1. CASE i \in Selects
    <3>1. stack[i].k = "select" /\ stack[i] \in SelectType /\ Keeps(stack[i]) /\ stack[i].cs \in SelectStmts
      BY <1>7, <2>1, Kinds DEF Selects, Placed, SelectType
    <3>2. fired[i] \in Seq(Nat) /\ stack'[i] = Hear(stack[i], fired[i])
      BY <1>2, <2>1, <3>1, DeclaredSeq
    <3>3. stack'[i] \in SelectType /\ stack'[i].k = "select" /\ Keeps(stack'[i])
      BY <3>1, <3>2, HearKeeps
    <3> QED BY <3>1, <3>3 DEF Activations
  <2>2. CASE i \notin Selects /\ i = n
    <3>1. stack'[i] = b
      BY <1>2, <2>2
    <3> QED BY <1>3, <1>7, <1>8, <2>2, <3>1
  <2>3. CASE i \notin Selects /\ i # n
    <3>1. stack'[i] = stack[i] /\ stack[i].k # "select"
      BY <1>2, <2>3 DEF Selects
    <3> QED BY <1>7, <3>1
  <2> QED BY <2>1, <2>2, <2>3
<1>10. DOMAIN stack' = DOMAIN stack /\ stack' \in Seq(Activations)
  <2>1. DOMAIN stack' = 1 .. n /\ stack' = [i \in 1 .. n |-> stack'[i]]
    BY <1>2, <1>7
  <2>2. stack' \in [1 .. n -> Activations]
    BY <1>7, <1>9, <2>1
  <2> QED BY <1>7, <2>1, <2>2, SeqDef
<1>11. Kept(stack, stack')
  BY <1>3, <1>9, <1>10, PointwiseKept
<1>12. Good(stack', deferred')
  BY <1>1, <1>3, <1>11, KeptGood
<1> QED BY <1>1, <1>6, <1>12, GoodPrime

LEMMA RunHandlerGood ==
  ASSUME IInv, runHandler
  PROVE  Good(stack, deferred)'
<1> DEFINE a == [Top EXCEPT !.left = Tail(@)]  s == Append(Front(stack), a)
           c == Block("handler", {"hand"})
<1>1. /\ At("drain") /\ Top.left # <<>> /\ (stack' = Append(s, c) \/ stack' = s)
      /\ UNCHANGED <<deferred, world, last, credit, pushed, ran>>
  BY DEF runHandler, ReplaceTop, run, env
<1>2. /\ Good(stack, deferred) /\ StackOK(stack) /\ stack # <<>> /\ Last(stack).k = "drain"
      /\ Top = Last(stack)
  BY <1>1 DEF IInv, Good, At, Top
<1>3. Top \in DrainType
  BY <1>2, TopFacts, Kinds
<1>4. a \in DrainType /\ a.k = "drain"
  <2>1. Top.left \in Seq({"on", "bounded"})
    BY <1>3 DEF DrainType
  <2>2. Tail(Top.left) \in Seq({"on", "bounded"})
    BY <1>1, <2>1, HeadTailProperties
  <2> QED BY <1>3, <2>2 DEF DrainType
<1>5. a \in Activations
  BY <1>4 DEF Activations
<1>6. c \in Activations /\ c.k = "block" /\ c.by = "handler" /\ Fresh(c)
  BY BlockFacts DEF Callers, Contexts
<1> HIDE DEF a, c
<1>7. Kept(stack, s) /\ s # <<>> /\ Last(s) = a
  BY <1>2, <1>4, <1>5, SwapKept
<1> HIDE DEF s
<1>8. Kept(s, Append(s, c))
  BY <1>4, <1>6, <1>7, PushKept DEF Kept
<1>9. Kept(stack, stack')
  BY <1>1, <1>7, <1>8, KeptTrans
<1>10. Good(stack', deferred')
  BY <1>1, <1>2, <1>9, KeptGood
<1> QED BY <1>1, <1>10, GoodPrime

LEMMA DrainEndGood ==
  ASSUME IInv, DrainEnd
  PROVE  Good(stack, deferred)'
<1> DEFINE a == Sweep(activeWatchers(stack))  n == Len(stack)
<1>1. /\ At("drain") /\ stack' = Append(Front(stack), a)
      /\ UNCHANGED <<deferred, world, last, credit, pushed, ran>>
  BY DEF DrainEnd, ReplaceTop, run, env
<1>2. /\ Good(stack, deferred) /\ StackOK(stack) /\ stack # <<>> /\ Last(stack).k = "drain"
      /\ Top = Last(stack) /\ stack \in Seq(Activations)
  BY <1>1 DEF IInv, Good, At, Top, StackOK
<1>3. n \in Nat \ {0} /\ DOMAIN stack = 1 .. n /\ Last(stack) = stack[n]
  BY <1>2, TopFacts
<1>4. ASSUME NEW p \in activeWatchers(stack)
      PROVE  /\ p[1] \in 1 .. n - 1 /\ stack[p[1]].k = "block" /\ p[2] \in DOMAIN stack[p[1]].ws
             /\ p \in Nat \X Nat
  <2>1. PICK i \in DOMAIN stack : stack[i].k = "block" /\ \E m \in DOMAIN stack[i].ws : p = <<i, m>>
    BY DEF activeWatchers
  <2>2. PICK m \in DOMAIN stack[i].ws : p = <<i, m>>
    BY <2>1
  <2>3. i # n
    BY <1>2, <1>3, <2>1
  <2>4. i \in 1 .. n - 1
    <3> HIDE DEF n
    <3> QED BY <1>3, <2>3
  <2>5. stack[i] \in BlockType
    BY <1>2, <2>1, Kinds
  <2>6. stack[i].ws \in Seq([w : Watchers, in : SUBSET Contexts])
    BY <2>5 DEF BlockType
  <2>7. m \in Nat
    BY <2>2, <2>6, SeqFacts
  <2> QED BY <2>1, <2>2, <2>4, <2>7
<1>5. a.k = "sweep" /\ a.left = activeWatchers(stack) /\ a \in Activations
  <2>1. activeWatchers(stack) \in SUBSET (Nat \X Nat)
    BY <1>4
  <2> QED BY <2>1 DEF Sweep, Activations, SweepType
<1> HIDE DEF a
<1>6. Kept(stack, Append(Front(stack), a))
  BY <1>2, <1>4, <1>5, SwapKept
<1>7. Good(stack', deferred')
  BY <1>1, <1>2, <1>6, KeptGood
<1> QED BY <1>1, <1>7, GoodPrime

-----------------------------------------------------------------------------
\* select.
LEMMA ExecSelectGood ==
  ASSUME IInv, NEW cs \in SelectStmts, execSelect(cs)
  PROVE  Good(stack, deferred)' /\ deferred' \in Seq(DeferType)
<1> DEFINE a == [k |-> "select", cs |-> cs, at |-> "poll", ch |-> <<>>,
                 was |-> Polled(cs), due |-> {}, win |-> 0, heard |-> <<>>, in |-> Top.in]
           c == Block("plain", Top.in)
<1>1. At("block") /\ UNCHANGED <<world, last, credit, pushed, ran>>
  BY DEF execSelect, env
<1>2. /\ Good(stack, deferred) /\ StackOK(stack) /\ stack # <<>> /\ Last(stack).k = "block"
      /\ Top = Last(stack) /\ deferred \in Seq(DeferType)
  BY <1>1 DEF IInv, TypeOK, Good, At, Top
<1>3. Top \in BlockType /\ Top.in \in SUBSET Contexts
  <2>1. Top \in BlockType
    BY <1>2, TopFacts, Kinds
  <2> QED BY <2>1 DEF BlockType
<1>4. (UNCHANGED deferred /\ (stack' = Append(stack, c) \/ stack' = Append(stack, a)))
      \/ Raise(stack, "abort")
  BY DEF execSelect
<1>5. c \in Activations /\ c.k = "block" /\ c.by = "plain" /\ Fresh(c)
  BY <1>3, BlockFacts DEF Callers
<1>6. a \in SelectType /\ a.k = "select" /\ Keeps(a)
  <2>1. Polled(cs) \in SUBSET Nat
    BY CasesFinite DEF Polled, WhenCases
  <2>2. a \in SelectType
    <3> HIDE DEF Polled
    <3> QED BY <1>3, <2>1, EmptySeq DEF SelectType
  <2>3. a.ch = <<>> /\ a.heard = <<>> /\ a.at = "poll" /\ Len(a.ch) = 0 /\ a.cs = cs
    BY EmptySeq
  <2>4. Len(cs) \in Nat
    BY CasesSeq
  <2> QED BY <2>2, <2>3, <2>4 DEF Keeps
<1>7. a \in Activations /\ Fresh(a)
  BY <1>6 DEF Activations, Fresh
<1> HIDE DEF a, c
<1>8. CASE UNCHANGED deferred /\ (stack' = Append(stack, c) \/ stack' = Append(stack, a))
  <2>1. Kept(stack, Append(stack, c))
    BY <1>2, <1>5, PushKept
  <2>2. Kept(stack, Append(stack, a))
    BY <1>2, <1>6, <1>7, PushKept
  <2>3. Good(stack', deferred')
    BY <1>2, <1>8, <2>1, <2>2, KeptGood
  <2> QED BY <1>1, <1>2, <1>8, <2>3, GoodPrime
<1>9. CASE Raise(stack, "abort")
  BY <1>1, <1>9, PanicGood DEF Signals
<1> QED BY <1>4, <1>8, <1>9

\* A round decides for no case declared after the first event it heard.
LEMMA SelectRoundGood ==
  ASSUME IInv, SelectPoll
  PROVE  Good(stack, deferred)'
<1> DEFINE ready == ToSet(Top.ch) \union Fired(Top.cs, Top.was) \union Top.due
           polled == [Top EXCEPT !.ch = <<>>, !.was = Polled(Top.cs)]
           won(i) == [polled EXCEPT !.at = "run", !.win = i]
           waits == [polled EXCEPT !.at = "wait"]
           c == Block("case", Top.in)
<1>1. At("select") /\ Top.at = "poll" /\ UNCHANGED <<deferred, world, last, credit, pushed, ran>>
  BY DEF SelectPoll, SelectRound, env
<1>2. \/ \E i \in ready : /\ \A j \in ready : i <= j
                          /\ stack' = Append(Append(Front(stack), won(i)), c)
      \/ ready = {} /\ stack' = Append(Append(Front(stack), waits), DrainQueue)
  BY DEF SelectPoll, SelectRound, ReplaceTop
<1>3. /\ Good(stack, deferred) /\ StackOK(stack) /\ stack # <<>> /\ Last(stack).k = "select"
      /\ Top = Last(stack)
  BY <1>1 DEF IInv, Good, At, Top
<1>4. Top \in SelectType /\ Keeps(Top)
  BY <1>3, TopFacts, Kinds DEF Placed
<1>5. /\ Top.cs \in SelectStmts /\ Top.ch \in Seq(Nat) /\ Top.heard \in Seq(Nat)
      /\ Top.due \in SUBSET Nat /\ Top.in \in SUBSET Contexts
  BY <1>4 DEF SelectType
<1>6. ready \subseteq Nat
  <2>1. ToSet(Top.ch) \subseteq Nat
    BY <1>5, SeqFacts DEF ToSet
  <2>2. Fired(Top.cs, Top.was) \subseteq Nat
    BY <1>5, CasesFinite DEF Fired, WhenCases
  <2> QED BY <1>5, <2>1, <2>2
<1>7. Polled(Top.cs) \in SUBSET Nat
  BY <1>5, CasesFinite DEF Polled, WhenCases
<1>8. c \in Activations /\ c.k = "block" /\ c.by = "case" /\ Fresh(c)
  BY <1>5, BlockFacts DEF Callers
<1>9. Len(Top.cs) \in Nat /\ (Top.cs # <<>> => Len(Top.cs) # 0)
  BY <1>5, CasesSeq
<1>10. Top.heard # <<>> => Head(Top.heard) \in ready
  BY <1>1, <1>4 DEF Keeps
<1> HIDE DEF ready, c
<1>11. ASSUME NEW i \in ready, \A j \in ready : i <= j,
              stack' = Append(Append(Front(stack), won(i)), c)
       PROVE  Kept(stack, stack')
  <2> DEFINE a == won(i)
  <2>1. a \in SelectType /\ a.k = "select" /\ a.at = "run" /\ a.win = i /\ a.ch = <<>>
        /\ a.heard = Top.heard /\ a.cs = Top.cs
    <3> HIDE DEF Polled
    <3> QED BY <1>4, <1>6, <1>7, EmptySeq DEF SelectType
  <2> HIDE DEF a
  <2>2. Keeps(a)
    BY <1>9, <1>10, <1>11, <2>1, EmptySeq DEF Keeps
  <2>3. a \in Activations
    BY <2>1 DEF Activations
  <2> DEFINE s == Append(Front(stack), a)
  <2>4. Kept(stack, s) /\ s # <<>> /\ Last(s) = a
    BY <1>3, <2>1, <2>2, <2>3, SwapKept
  <2>5. stack' = Append(s, c)
    BY <1>11 DEF a
  <2> HIDE DEF s
  <2>6. Kept(s, Append(s, c))
    BY <1>8, <2>1, <2>4, PushKept DEF Kept
  <2> QED BY <2>4, <2>5, <2>6, KeptTrans
<1>12. ASSUME ready = {}, stack' = Append(Append(Front(stack), waits), DrainQueue)
       PROVE  Kept(stack, stack')
  <2> DEFINE a == waits
  <2>1. a \in SelectType /\ a.k = "select" /\ a.at = "wait" /\ a.ch = <<>>
        /\ a.heard = Top.heard /\ a.cs = Top.cs
    <3> HIDE DEF Polled
    <3> QED BY <1>4, <1>7, EmptySeq DEF SelectType
  <2> HIDE DEF a
  <2>2. Keeps(a)
    BY <1>9, <1>10, <1>12, <2>1, EmptySeq DEF Keeps
  <2>3. a \in Activations
    BY <2>1 DEF Activations
  <2> DEFINE s == Append(Front(stack), a)
  <2>4. Kept(stack, s) /\ s # <<>> /\ Last(s) = a
    BY <1>3, <2>1, <2>2, <2>3, SwapKept
  <2>5. stack' = Append(s, DrainQueue)
    BY <1>12 DEF a
  <2> HIDE DEF s
  <2>6. Kept(s, Append(s, DrainQueue))
    BY <2>1, <2>4, DrainFacts, PushKept DEF Kept
  <2> QED BY <2>4, <2>5, <2>6, KeptTrans
<1>13. Kept(stack, stack')
  BY <1>2, <1>11, <1>12
<1>14. Good(stack', deferred')
  BY <1>1, <1>3, <1>13, KeptGood
<1> QED BY <1>1, <1>14, GoodPrime

\* The event that woke a select goes back into its channel.
LEMMA SelectWaitGood ==
  ASSUME IInv, SelectWait
  PROVE  Good(stack, deferred)'
<1> DEFINE ch2 == Append(Tail(Top.ch), Head(Top.ch))
           a == [Top EXCEPT !.at = "poll"]
           b == [Top EXCEPT !.at = "poll", !.ch = ch2]
<1>1. /\ At("select") /\ Top.at = "wait" /\ UNCHANGED <<deferred, world, last, credit, pushed, ran>>
      /\ \/ stack' = Append(Front(stack), a)
         \/ Top.ch # <<>> /\ stack' = Append(Front(stack), b)
  BY DEF SelectWait, ReplaceTop, run, env
<1>2. /\ Good(stack, deferred) /\ StackOK(stack) /\ stack # <<>> /\ Last(stack).k = "select"
      /\ Top = Last(stack)
  BY <1>1 DEF IInv, Good, At, Top
<1>3. Top \in SelectType /\ Keeps(Top) /\ Top.ch \in Seq(Nat)
  BY <1>2, TopFacts, Kinds DEF Placed, SelectType
<1>4. a \in SelectType /\ a.k = "select" /\ a.at = "poll" /\ a.ch = Top.ch /\ a.heard = Top.heard /\ a.cs = Top.cs
  BY <1>3 DEF SelectType
<1>5. CASE stack' = Append(Front(stack), a)
  <2> HIDE DEF a
  <2>1. Keeps(a) /\ a \in Activations
    BY <1>1, <1>3, <1>4 DEF Keeps, Activations
  <2>2. Kept(stack, Append(Front(stack), a))
    BY <1>2, <1>4, <2>1, SwapKept
  <2>3. Good(stack', deferred')
    BY <1>1, <1>2, <1>5, <2>2, KeptGood
  <2> QED BY <1>1, <2>3, GoodPrime
<1>6. CASE Top.ch # <<>> /\ stack' = Append(Front(stack), b)
  <2> DEFINE l == Len(Top.ch)
  <2>1. /\ l \in Nat \ {0} /\ Head(Top.ch) = Top.ch[1] /\ Head(Top.ch) \in Nat
        /\ Tail(Top.ch) \in Seq(Nat) /\ Len(Tail(Top.ch)) = l - 1 /\ DOMAIN Top.ch = 1 .. l
        /\ \A i \in 1 .. l - 1 : Tail(Top.ch)[i] = Top.ch[i + 1]
    BY <1>3, <1>6, SeqFacts, HeadTailProperties
  <2>2. /\ ch2 \in Seq(Nat) /\ Len(ch2) = (l - 1) + 1 /\ DOMAIN ch2 = 1 .. (l - 1) + 1
        /\ ch2[(l - 1) + 1] = Top.ch[1] /\ \A i \in 1 .. l - 1 : ch2[i] = Top.ch[i + 1]
    <3>1. /\ ch2 \in Seq(Nat) /\ Len(ch2) = Len(Tail(Top.ch)) + 1
          /\ DOMAIN ch2 = 1 .. Len(Tail(Top.ch)) + 1
          /\ ch2[Len(Tail(Top.ch)) + 1] = Head(Top.ch)
          /\ \A i \in 1 .. Len(Tail(Top.ch)) : ch2[i] = Tail(Top.ch)[i]
      BY <2>1, Pushed
    <3> QED BY <2>1, <3>1
  <2> HIDE DEF l, ch2
  <2>3. Len(ch2) = l /\ DOMAIN ch2 = 1 .. l
    BY <2>1, <2>2
  <2>4. ToSet(Top.ch) \subseteq ToSet(ch2)
    <3> SUFFICES ASSUME NEW i \in 1 .. l PROVE Top.ch[i] \in ToSet(ch2)
      BY <2>1 DEF ToSet
    <3>1. CASE i = 1
      <4>1. (l - 1) + 1 = l /\ l \in 1 .. l
        BY <2>1
      <4>2. ch2[l] = Top.ch[i]
        BY <2>2, <3>1, <4>1
      <4> QED BY <2>3, <4>1, <4>2 DEF ToSet
    <3>2. CASE i # 1
      <4>1. i - 1 \in 1 .. l - 1 /\ (i - 1) + 1 = i /\ i - 1 \in 1 .. l
        BY <2>1, <3>2
      <4>2. ch2[i - 1] = Top.ch[i]
        BY <2>2, <4>1
      <4> QED BY <2>3, <4>1, <4>2 DEF ToSet
    <3> QED BY <3>1, <3>2
  <2>5. b \in SelectType /\ b.k = "select" /\ b.at = "poll" /\ b.ch = ch2 /\ b.heard = Top.heard /\ b.cs = Top.cs
    BY <1>3, <2>2 DEF SelectType
  <2> HIDE DEF b
  <2>6. Keeps(b) /\ b \in Activations
    <3>1. Len(b.ch) = Len(Top.ch) /\ Top.heard # <<>> /\ Head(Top.heard) \in ToSet(ch2)
      BY <1>1, <1>3, <1>6, <2>3, <2>4, <2>5 DEF Keeps, l
    <3> QED BY <1>3, <2>5, <3>1 DEF Keeps, Activations
  <2>7. Kept(stack, Append(Front(stack), b))
    BY <1>2, <2>5, <2>6, SwapKept
  <2>8. Good(stack', deferred')
    BY <1>1, <1>2, <1>6, <2>7, KeptGood
  <2> QED BY <1>1, <2>8, GoodPrime
<1> QED BY <1>1, <1>5, <1>6

\* A timeout elapses.
LEMMA ElapseGood ==
  ASSUME IInv, Elapse
  PROVE  Good(stack, deferred)'
<1>1. PICK i \in Selects : \E c \in TimeoutCases(stack[i].cs) :
        stack' = [stack EXCEPT ![i].due = @ \union {c}]
  BY DEF Elapse
<1>2. PICK c \in TimeoutCases(stack[i].cs) : stack' = [stack EXCEPT ![i].due = @ \union {c}]
  BY <1>1
<1>3. UNCHANGED <<deferred, world, last, credit, pushed, ran>>
  BY DEF Elapse, run, env
<1>4. Good(stack, deferred) /\ StackOK(stack) /\ stack \in Seq(Activations)
  BY DEF IInv, Good, StackOK
<1>5. i \in DOMAIN stack /\ stack[i].k = "select"
  BY DEF Selects
<1>6. stack[i] \in SelectType /\ Keeps(stack[i]) /\ stack[i].cs \in SelectStmts
  <2>1. stack[i] \in Activations /\ Placed(stack, i)
    BY <1>4, <1>5, SeqFacts DEF StackOK
  <2> QED BY <1>5, <2>1, Kinds DEF Placed, SelectType
<1>7. c \in Nat
  BY <1>6, CasesFinite DEF TimeoutCases
<1> DEFINE a == [stack[i] EXCEPT !.due = @ \union {c}]
<1>8. a \in SelectType /\ a.k = "select" /\ a.at = stack[i].at /\ a.heard = stack[i].heard
      /\ a.ch = stack[i].ch /\ a.win = stack[i].win /\ a.cs = stack[i].cs
  BY <1>6, <1>7 DEF SelectType
<1>9. stack' = [stack EXCEPT ![i] = a]
  BY <1>2, <1>5
<1> HIDE DEF a
<1>10. Keeps(a) /\ a \in Activations
  BY <1>6, <1>8 DEF Keeps, Activations
<1>11. DOMAIN stack' = DOMAIN stack /\ stack' \in Seq(Activations)
  BY <1>4, <1>5, <1>9, <1>10, ExceptSeq
<1>12. \A j \in DOMAIN stack : stack'[j] = IF j = i THEN a ELSE stack[j]
  BY <1>9
<1>13. \A j \in DOMAIN stack : /\ stack'[j].k = stack[j].k
                               /\ stack[j].k \notin {"select", "drain"} => stack'[j] = stack[j]
                               /\ stack[j].k = "select" => Keeps(stack'[j])
  <2>1. \A j \in DOMAIN stack : stack[j].k = "select" => Keeps(stack[j])
    BY <1>4 DEF StackOK, Placed
  <2> QED BY <1>5, <1>8, <1>10, <1>12, <2>1
<1>14. Good(stack', deferred')
  BY <1>3, <1>4, <1>11, <1>13, PointwiseKept, KeptGood
<1> QED BY <1>3, <1>14, GoodPrime

\* The body starts.
LEMMA RunDeclGood ==
  ASSUME IInv, runDecl
  PROVE  Good(stack, deferred)' /\ Phase'
<1>1. /\ result = "ready" /\ UNCHANGED <<deferred, world, last, credit, pushed, ran>>
      /\ \/ UNCHANGED stack
         \/ result' = "running" /\ stack' = <<Block("body", {})>>
  BY DEF runDecl, run, env
<1>2. Good(stack, deferred) /\ stack = <<>> /\ \A d \in pushed : ran[d] = 1
  BY <1>1 DEF IInv, Phase
<1>3. CASE UNCHANGED stack
  <2>1. Good(stack', deferred')
    BY <1>1, <1>2, <1>3
  <2> QED BY <1>1, <1>2, <1>3, <2>1, GoodPrime DEF Phase
<1>4. CASE result' = "running" /\ stack' = <<Block("body", {})>>
  <2> DEFINE a == Block("body", {})  s == <<a>>
  <2>1. a \in Activations /\ a.k = "block" /\ a.by = "body" /\ Fresh(a)
    BY BlockFacts DEF Callers
  <2> HIDE DEF a
  <2>2. Len(s) = 1 /\ s[1] = a /\ s = Append(stack, a) /\ Len(stack) = 0
    BY <1>2
  <2>3. IsBody(s[1])
    BY <2>1, <2>2 DEF IsBody
  <2> HIDE DEF s
  <2>4. Placed(s, Len(stack) + 1)
    BY <2>1, <2>2, <2>3 DEF Placed
  <2>5. Kept(stack, s)
    BY <1>2, <2>1, <2>2, <2>4, KeptPush DEF Good
  <2>6. Good(stack', deferred')
    BY <1>1, <1>2, <1>4, <2>5, KeptGood DEF s, a
  <2> QED BY <1>1, <1>4, <2>6, GoodPrime DEF Phase
<1> QED BY <1>1, <1>3, <1>4

-----------------------------------------------------------------------------
(* The theorems.                                                             *)

\* The parts of the types that are not about the stack or the watchers.
ScalarsOK ==
  /\ queue \in Seq(Events) /\ Len(queue) <= QueueCap
  /\ ops \in 0 .. OpBudget
  /\ world \in BOOLEAN
  /\ canceled \in BOOLEAN
  /\ result \in {"ready", "running", "completed", "returned", "aborted", "errored", "canceled"}
  /\ flips \in 0 .. MaxFlips /\ arrivals \in 0 .. MaxArrivals
  /\ pushed \subseteq Defers

LEMMA OpsLeft ==
  ASSUME ops \in 0 .. OpBudget
  PROVE  /\ ops > 0 => ops - 1 \in 0 .. OpBudget
         /\ 0 \in 0 .. OpBudget
         /\ \A c \in Nat : /\ ops > c => ops - 1 - c \in 0 .. OpBudget
                           /\ ops >= c => ops - c \in 0 .. OpBudget
<1>1. OpBudget \in Nat
  BY RoutineAssumption
<1> QED BY <1>1

LEMMA ScalarStep ==
  ASSUME IInv, Next
  PROVE  ScalarsOK'
<1>1. /\ queue \in Seq(Events) /\ Len(queue) <= QueueCap /\ ops \in 0 .. OpBudget
      /\ world \in BOOLEAN /\ canceled \in BOOLEAN
      /\ result \in {"ready", "running", "completed", "returned", "aborted", "errored", "canceled"}
      /\ flips \in 0 .. MaxFlips /\ arrivals \in 0 .. MaxArrivals /\ pushed \subseteq Defers
  BY DEF IInv, TypeOK
<1>2. QueueCap \in Nat /\ OpBudget \in Nat /\ MaxFlips \in Nat /\ MaxArrivals \in Nat
  BY RoutineAssumption
<1> USE DEF ScalarsOK, run, env
<1>3. CASE runDecl
  BY <1>1, <1>3 DEF runDecl
<1>4. CASE StmtCanceled
  BY <1>1, <1>4 DEF StmtCanceled
<1>5. CASE StmtOutOfBudget
  BY <1>1, <1>5 DEF StmtOutOfBudget
<1>6. CASE CallProc
  BY <1>1, <1>6, OpsLeft DEF CallProc, Stmt
<1>7. CASE LeaveBlock
  BY <1>1, <1>7 DEF LeaveBlock
<1>8. ASSUME NEW by \in {"loop", "try"}, EnterBlock(by) PROVE ScalarsOK'
  BY <1>1, <1>8, OpsLeft DEF EnterBlock, Stmt
<1>9. ASSUME NEW sig, Signal(sig) PROVE ScalarsOK'
  BY <1>1, <1>9, OpsLeft DEF Signal, Stmt
<1>10. ASSUME NEW d \in Defers, pushDefer(d) PROVE ScalarsOK'
  BY <1>1, <1>10, OpsLeft DEF pushDefer, Stmt
<1>11. CASE RunDeferred
  BY <1>1, <1>11 DEF RunDeferred
<1>12. CASE DeferredDone
  BY <1>1, <1>12 DEF DeferredDone, Outcome
<1>13. ASSUME NEW w \in Watchers, execWhen(w) PROVE ScalarsOK'
  BY <1>1, <1>13, OpsLeft DEF execWhen, Stmt
<1>14. CASE evalWatcher
  BY <1>1, <1>14, OpsLeft DEF evalWatcher
<1>15. CASE SweepOutOfBudget
  BY <1>1, <1>15 DEF SweepOutOfBudget
<1>16. CASE SweepEnd
  BY <1>1, <1>16 DEF SweepEnd
<1>17. CASE Yield
  BY <1>1, <1>17, OpsLeft DEF Yield, Stmt
<1>18. CASE TakeEvent
  <2>1. queue' \in Seq(Events) /\ Len(queue') <= QueueCap
    BY <1>18, TakeEventGood
  <2> QED BY <1>1, <1>18, <2>1 DEF TakeEvent
<1>19. CASE runHandler
  BY <1>1, <1>19 DEF runHandler
<1>20. CASE DrainEnd
  BY <1>1, <1>20 DEF DrainEnd
<1>21. ASSUME NEW cs \in SelectStmts, execSelect(cs) PROVE ScalarsOK'
  <2>1. Cost(cs) \in Nat
    BY CasesFinite DEF Cost, WhenCases
  <2>2. ops' \in 0 .. OpBudget
    BY <1>1, <1>21, <2>1, OpsLeft DEF execSelect
  <2> QED BY <1>1, <1>21, <2>2 DEF execSelect
<1>22. CASE SelectPoll
  <2>1. Top \in SelectType
    <3>1. StackOK(stack) /\ stack # <<>> /\ Last(stack).k = "select" /\ Top = Last(stack)
      BY <1>22 DEF IInv, Good, SelectPoll, SelectRound, At, Top
    <3> QED BY <3>1, TopFacts, Kinds
  <2>2. Top.cs \in SelectStmts
    BY <2>1 DEF SelectType
  <2>3. Cost(Top.cs) \in Nat
    BY <2>2, CasesFinite DEF Cost, WhenCases
  <2>4. ops' \in 0 .. OpBudget
    BY <1>1, <1>22, <2>3, OpsLeft DEF SelectPoll, SelectRound
  <2> QED BY <1>1, <1>22, <2>4 DEF SelectPoll, SelectRound
<1>23. CASE SelectWait
  BY <1>1, <1>23 DEF SelectWait
<1>24. CASE SelectStopped
  BY <1>1, <1>24 DEF SelectStopped
<1>25. CASE Flip
  BY <1>1, <1>2, <1>25 DEF Flip
<1>26. ASSUME NEW e \in Events, Arrive(e) PROVE ScalarsOK'
  <2>1. queue' \in Seq(Events) /\ Len(queue') <= QueueCap
    <3>1. Append(queue, e) \in Seq(Events) /\ Len(Append(queue, e)) = Len(queue) + 1
      BY <1>1, Pushed
    <3> QED BY <1>1, <1>2, <1>26, <3>1, SeqFacts DEF Arrive
  <2>2. arrivals' \in 0 .. MaxArrivals
    BY <1>1, <1>2, <1>26 DEF Arrive
  <2> QED BY <1>1, <1>26, <2>1, <2>2 DEF Arrive
<1>27. CASE Cancel
  BY <1>1, <1>27 DEF Cancel
<1>28. CASE WallClock
  BY <1>1, <1>28, OpsLeft DEF WallClock
<1>29. CASE Elapse
  BY <1>1, <1>29 DEF Elapse
<1>30. CASE Ended
  BY <1>1, <1>30 DEF Ended, vars
<1> QED BY <1>3, <1>4, <1>5, <1>6, <1>7, <1>8, <1>9, <1>10, <1>11, <1>12, <1>13, <1>14, <1>15,
      <1>16, <1>17, <1>18, <1>19, <1>20, <1>21, <1>22, <1>23, <1>24, <1>25, <1>26, <1>27, <1>28,
      <1>29, <1>30 DEF Next, Interpreter

\* The other parts of the invariant.
RestOK ==
  /\ Good(stack, deferred) /\ Phase /\ OncePerEdge
  /\ deferred \in Seq(DeferType)
  /\ last \in [Watchers -> BOOLEAN] /\ credit \in [Watchers -> Int]
  /\ ran \in [Defers -> Nat]

LEMMA Parts == IInv <=> ScalarsOK /\ RestOK
<1>1. Good(stack, deferred) => stack \in Seq(Activations)
  BY DEF Good, StackOK
<1> HIDE DEF Good
<1> QED BY <1>1 DEF IInv, TypeOK, ScalarsOK, RestOK

\* While there is an activation the run goes on.
LEMMA StillRunning ==
  ASSUME IInv, stack # <<>>, result' = result
  PROVE  Phase'
<1>1. result = "running"
  BY DEF IInv, Phase
<1> QED BY <1>1 DEF Phase

\* A step inside the run that leaves the watchers and the runs of calls alone.
LEMMA InRun ==
  ASSUME IInv, stack # <<>>, UNCHANGED <<last, credit, ran, result>>,
         Good(stack, deferred)', deferred' \in Seq(DeferType)
  PROVE  RestOK'
<1>1. Phase'
  BY StillRunning
<1>2. OncePerEdge'
  BY DEF IInv, OncePerEdge
<1>3. last' \in [Watchers -> BOOLEAN] /\ credit' \in [Watchers -> Int] /\ ran' \in [Defers -> Nat]
  BY DEF IInv, TypeOK
<1> QED BY <1>1, <1>2, <1>3 DEF RestOK

\* A panic.
LEMMA PanicRest ==
  ASSUME IInv, stack # <<>>, NEW sig \in Signals, Raise(stack, sig),
         UNCHANGED <<world, last, credit, pushed, ran, result>>
  PROVE  RestOK'
  BY PanicGood, InRun

\* A step of the environment that leaves the interpreter's own state alone.
LEMMA Outside ==
  ASSUME IInv, UNCHANGED <<stack, deferred, world, last, credit, pushed, ran, result>>
  PROVE  RestOK'
<1>1. Good(stack, deferred)'
  <2>1. Good(stack', deferred')
    <3>1. Good(stack, deferred) /\ stack' = stack /\ deferred' = deferred
      BY DEF IInv
    <3> QED BY <3>1
  <2> QED BY <2>1, GoodPrime
<1>2. Phase' /\ OncePerEdge'
  BY DEF IInv, Phase, OncePerEdge
<1>3. /\ deferred' \in Seq(DeferType) /\ last' \in [Watchers -> BOOLEAN]
      /\ credit' \in [Watchers -> Int] /\ ran' \in [Defers -> Nat]
  BY DEF IInv, TypeOK
<1> QED BY <1>1, <1>2, <1>3 DEF RestOK

LEMMA RestStep ==
  ASSUME IInv, Next
  PROVE  RestOK'
<1>1. /\ deferred \in Seq(DeferType) /\ last \in [Watchers -> BOOLEAN]
      /\ credit \in [Watchers -> Int] /\ ran \in [Defers -> Nat] /\ OncePerEdge
  BY DEF IInv, TypeOK
<1>2. {"break", "continue", "return", "abort", "error", "cancel"} \subseteq Signals
  BY DEF Signals
<1>3. CASE runDecl
  <2>1. /\ deferred' = deferred /\ last' = last /\ credit' = credit /\ ran' = ran
    BY <1>3 DEF runDecl, run
  <2>2. Good(stack, deferred)' /\ Phase'
    BY <1>3, RunDeclGood
  <2>3. OncePerEdge'
    BY <1>1, <2>1 DEF OncePerEdge
  <2> QED BY <1>1, <2>1, <2>2, <2>3 DEF RestOK
<1>4. CASE StmtCanceled
  <2>1. /\ stack # <<>> /\ Raise(stack, "cancel")
        /\ UNCHANGED <<world, last, credit, pushed, ran, result>>
    BY <1>4 DEF StmtCanceled, At, env
  <2> QED BY <1>2, <2>1, PanicRest
<1>5. CASE StmtOutOfBudget
  <2>1. /\ stack # <<>> /\ Raise(stack, "abort")
        /\ UNCHANGED <<world, last, credit, pushed, ran, result>>
    BY <1>5 DEF StmtOutOfBudget, At, env
  <2> QED BY <1>2, <2>1, PanicRest
<1>6. CASE CallProc
  <2>1. stack # <<>> /\ UNCHANGED <<deferred, last, credit, ran, result>>
    BY <1>6 DEF CallProc, Stmt, At
  <2> QED BY <1>1, <1>6, <2>1, CallGood, InRun
<1>7. CASE LeaveBlock
  <2>1. stack # <<>> /\ UNCHANGED <<last, credit, ran, result>>
    BY <1>7 DEF LeaveBlock, At
  <2> QED BY <1>7, <2>1, LeaveGood, InRun
<1>8. ASSUME NEW by \in {"loop", "try"}, EnterBlock(by) PROVE RestOK'
  <2>1. stack # <<>> /\ UNCHANGED <<deferred, last, credit, ran, result>>
    BY <1>8 DEF EnterBlock, Stmt, At
  <2>2. Good(stack, deferred)'
    BY <1>8, EnterGood
  <2> QED BY <1>1, <2>1, <2>2, InRun
<1>9. ASSUME NEW sig \in {"break", "continue", "return", "abort", "error"}, Signal(sig) PROVE RestOK'
  <2>1. /\ stack # <<>> /\ Raise(stack, sig) /\ sig \in Signals
        /\ UNCHANGED <<world, last, credit, pushed, ran, result>>
    BY <1>2, <1>9 DEF Signal, Stmt, At, env
  <2> QED BY <2>1, PanicRest
<1>10. ASSUME NEW d \in Defers, pushDefer(d) PROVE RestOK'
  <2>1. stack # <<>> /\ UNCHANGED <<last, credit, ran, result>>
    BY <1>10 DEF pushDefer, Stmt, At
  <2>2. Good(stack, deferred)' /\ deferred' \in Seq(DeferType)
    BY <1>10, PushDeferGood
  <2> QED BY <2>1, <2>2, InRun
<1>11. CASE RunDeferred
  <2>1. /\ stack # <<>> /\ ran' = [ran EXCEPT ![Head(Top.left).d] = @ + 1]
        /\ UNCHANGED <<deferred, last, credit, result>>
    BY <1>11 DEF RunDeferred, At
  <2>2. ran' \in [Defers -> Nat]
    <3> DEFINE d0 == Head(Top.left).d
    <3>1. DOMAIN ran' = Defers /\ ran' = [d \in Defers |-> IF d = d0 THEN ran[d0] + 1 ELSE ran[d]]
      BY <1>1, <2>1
    <3> HIDE DEF d0
    <3>2. ASSUME NEW d \in Defers PROVE ran'[d] \in Nat
      <4>1. ran[d] \in Nat /\ ran'[d] = (IF d = d0 THEN ran[d0] + 1 ELSE ran[d])
        BY <1>1, <3>1
      <4> QED BY <4>1
    <3> QED BY <3>1, <3>2
  <2>3. Good(stack, deferred)' /\ Phase' /\ OncePerEdge'
    BY <1>1, <1>11, <2>1, RunDeferredGood, StillRunning DEF OncePerEdge
  <2> QED BY <1>1, <2>1, <2>2, <2>3 DEF RestOK
<1>12. CASE DeferredDone
  <2>1. UNCHANGED <<last, credit, ran>>
    BY <1>12 DEF DeferredDone
  <2>2. Good(stack, deferred)' /\ Phase' /\ deferred' \in Seq(DeferType)
    BY <1>12, DeferredDoneGood
  <2>3. OncePerEdge'
    BY <1>1, <2>1 DEF OncePerEdge
  <2> QED BY <1>1, <2>1, <2>2, <2>3 DEF RestOK
<1>13. ASSUME NEW w \in Watchers, execWhen(w) PROVE RestOK'
  <2>1. stack # <<>> /\ UNCHANGED <<deferred, ran, result>>
    BY <1>13 DEF execWhen, Stmt, At
  <2>2. /\ Good(stack, deferred)' /\ last' \in [Watchers -> BOOLEAN]
        /\ credit' \in [Watchers -> Int] /\ OncePerEdge'
    BY <1>13, ExecWhenGood
  <2> QED BY <1>1, <2>1, <2>2, StillRunning DEF RestOK
<1>14. CASE evalWatcher
  <2>1. stack # <<>> /\ UNCHANGED <<deferred, ran, result>>
    BY <1>14 DEF evalWatcher, At
  <2>2. /\ Good(stack, deferred)' /\ last' \in [Watchers -> BOOLEAN]
        /\ credit' \in [Watchers -> Int] /\ OncePerEdge'
    BY <1>14, EvalWatcherGood
  <2> QED BY <1>1, <2>1, <2>2, StillRunning DEF RestOK
<1>15. CASE SweepOutOfBudget
  <2>1. /\ stack # <<>> /\ Raise(stack, "abort")
        /\ UNCHANGED <<world, last, credit, pushed, ran, result>>
    BY <1>15 DEF SweepOutOfBudget, At, env
  <2> QED BY <1>2, <2>1, PanicRest
<1>16. CASE SweepEnd
  <2>1. stack # <<>> /\ UNCHANGED <<deferred, last, credit, ran, result>>
    BY <1>16 DEF SweepEnd, At, run
  <2> QED BY <1>1, <1>16, <2>1, SweepEndGood, InRun
<1>17. CASE Yield
  <2>1. stack # <<>> /\ UNCHANGED <<deferred, last, credit, ran, result>>
    BY <1>17 DEF Yield, Stmt, At
  <2> QED BY <1>1, <1>17, <2>1, YieldGood, InRun
<1>18. CASE TakeEvent
  <2>1. stack # <<>> /\ UNCHANGED <<deferred, last, credit, ran, result>>
    BY <1>18 DEF TakeEvent, At
  <2> QED BY <1>1, <1>18, <2>1, TakeEventGood, InRun
<1>19. CASE runHandler
  <2>1. stack # <<>> /\ UNCHANGED <<deferred, last, credit, ran, result>>
    BY <1>19 DEF runHandler, At, run
  <2> QED BY <1>1, <1>19, <2>1, RunHandlerGood, InRun
<1>20. CASE DrainEnd
  <2>1. stack # <<>> /\ UNCHANGED <<deferred, last, credit, ran, result>>
    BY <1>20 DEF DrainEnd, At, run
  <2> QED BY <1>1, <1>20, <2>1, DrainEndGood, InRun
<1>21. ASSUME NEW cs \in SelectStmts, execSelect(cs) PROVE RestOK'
  <2>1. stack # <<>> /\ UNCHANGED <<last, credit, ran, result>>
    BY <1>21 DEF execSelect, At
  <2>2. Good(stack, deferred)' /\ deferred' \in Seq(DeferType)
    BY <1>21, ExecSelectGood
  <2> QED BY <2>1, <2>2, InRun
<1>22. CASE SelectPoll
  <2>1. stack # <<>> /\ UNCHANGED <<deferred, last, credit, ran, result>>
    BY <1>22 DEF SelectPoll, SelectRound, At
  <2> QED BY <1>1, <1>22, <2>1, SelectRoundGood, InRun
<1>23. CASE SelectWait
  <2>1. stack # <<>> /\ UNCHANGED <<deferred, last, credit, ran, result>>
    BY <1>23 DEF SelectWait, At, run
  <2> QED BY <1>1, <1>23, <2>1, SelectWaitGood, InRun
<1>24. CASE SelectStopped
  <2>1. /\ stack # <<>> /\ (Raise(stack, "error") \/ Raise(stack, "abort"))
        /\ UNCHANGED <<world, last, credit, pushed, ran, result>>
    BY <1>24 DEF SelectStopped, At, env
  <2> QED BY <1>2, <2>1, PanicRest
<1>25. CASE Flip
  <2>1. UNCHANGED <<stack, deferred, last, pushed, ran, result>>
    BY <1>25 DEF Flip
  <2>2. Good(stack, deferred)' /\ credit' \in [Watchers -> Int] /\ OncePerEdge'
    BY <1>25, FlipGood
  <2>3. Phase'
    BY <2>1 DEF IInv, Phase
  <2> QED BY <1>1, <2>1, <2>2, <2>3 DEF RestOK
<1>26. ASSUME NEW e \in Events, Arrive(e) PROVE RestOK'
  <2>1. UNCHANGED <<stack, deferred, world, last, credit, pushed, ran, result>>
    BY <1>26 DEF Arrive
  <2> QED BY <2>1, Outside
<1>27. CASE Cancel
  <2>1. UNCHANGED <<stack, deferred, world, last, credit, pushed, ran, result>>
    BY <1>27 DEF Cancel, env
  <2> QED BY <2>1, Outside
<1>28. CASE WallClock
  <2>1. UNCHANGED <<stack, deferred, world, last, credit, pushed, ran, result>>
    BY <1>28 DEF WallClock, env
  <2> QED BY <2>1, Outside
<1>29. CASE Elapse
  <2>1. UNCHANGED <<deferred, last, credit, ran, result>>
    BY <1>29 DEF Elapse, run
  <2>2. stack # <<>>
    BY <1>29 DEF Elapse, Selects
  <2> QED BY <1>1, <1>29, <2>1, <2>2, ElapseGood, InRun
<1>30. CASE Ended
  <2>1. UNCHANGED <<stack, deferred, world, last, credit, pushed, ran, result>>
    BY <1>30 DEF Ended, vars
  <2> QED BY <2>1, Outside
<1> QED BY <1>3, <1>4, <1>5, <1>6, <1>7, <1>8, <1>9, <1>10, <1>11, <1>12, <1>13, <1>14, <1>15,
      <1>16, <1>17, <1>18, <1>19, <1>20, <1>21, <1>22, <1>23, <1>24, <1>25, <1>26, <1>27, <1>28,
      <1>29, <1>30 DEF Next, Interpreter

LEMMA InitIInv ==
  ASSUME Init
  PROVE  IInv
<1> USE DEF Init
<1>1. ScalarsOK
  <2>1. QueueCap \in Nat /\ OpBudget \in Nat /\ MaxFlips \in Nat /\ MaxArrivals \in Nat
    BY RoutineAssumption
  <2>2. queue \in Seq(Events) /\ Len(queue) <= QueueCap
    BY <2>1
  <2>3. ops \in 0 .. OpBudget /\ flips \in 0 .. MaxFlips /\ arrivals \in 0 .. MaxArrivals
    BY <2>1
  <2> QED BY <2>2, <2>3 DEF ScalarsOK
<1>2. stack = <<>> /\ deferred = <<>> /\ pushed = {} /\ DOMAIN stack = {}
  OBVIOUS
<1>3. StackOK(stack) /\ Drainable(stack, deferred)
  BY <1>2 DEF StackOK, Drainable
<1>4. Covered(stack)
  BY <1>2 DEF Covered, LiveIn, activeWatchers
<1>5. \A i \in Nat : Rows(stack, deferred)[i] = <<>>
  BY <1>2 DEF Rows, Row
<1>6. \A i \in Nat : DOMAIN Rows(stack, deferred)[i] = {}
  BY <1>5
<1>7. Books(Rows(stack, deferred), pushed, ran)
  BY <1>2, <1>6 DEF Books
<1>8. Phase /\ OncePerEdge
  BY <1>2 DEF Phase, OncePerEdge
<1>9. Good(stack, deferred)
  BY <1>3, <1>4, <1>7 DEF Good
<1>10. /\ deferred \in Seq(DeferType) /\ last \in [Watchers -> BOOLEAN]
       /\ credit \in [Watchers -> Int] /\ ran \in [Defers -> Nat]
  OBVIOUS
<1> QED BY <1>1, <1>8, <1>9, <1>10, Parts DEF RestOK

\* The inductive invariant holds in every state of every run of a routine.
THEOREM Invariance == Spec => []IInv
<1>1. Init => IInv
  BY InitIInv
<1>2. IInv /\ [Next]_vars => IInv'
  <2> SUFFICES ASSUME IInv, [Next]_vars PROVE IInv'
    OBVIOUS
  <2>1. CASE Next
    <3>1. ScalarsOK' /\ RestOK'
      BY <2>1, ScalarStep, RestStep
    <3>2. (IInv <=> ScalarsOK /\ RestOK)'
      BY Parts, PTL
    <3> QED BY <3>1, <3>2
  <2>2. CASE UNCHANGED vars
    <3>1. RestOK'
      <4>1. UNCHANGED <<stack, deferred, world, last, credit, pushed, ran, result>>
        BY <2>2 DEF vars
      <4> QED BY <4>1, Outside
    <3>2. ScalarsOK'
      BY <2>2 DEF IInv, TypeOK, ScalarsOK, vars
    <3>3. (IInv <=> ScalarsOK /\ RestOK)'
      BY Parts, PTL
    <3> QED BY <3>1, <3>2, <3>3
  <2> QED BY <2>1, <2>2
<1> QED BY <1>1, <1>2, PTL DEF Spec

\* The types of the interpreter's state: an activation has the fields of its
\* kind, whatever panics cut the stack (dsl/interp).
THEOREM TypeCorrect == Spec => []TypeOK
<1>1. IInv => TypeOK
  BY DEF IInv
<1> QED BY <1>1, Invariance, PTL

\* A watcher fires at most once for each transition of its predicate, however
\* deep sweeps nest in one another's bodies (evalWatchersOnce).
THEOREM FiresOncePerEdge == Spec => []OncePerEdge
<1>1. IInv => OncePerEdge
  BY DEF IInv
<1> QED BY <1>1, Invariance, PTL

\* No deferred call runs twice, and when the run has ended, by whatever panic,
\* every call that was deferred has run (execBody, drainDeferred).
THEOREM DeferredRunOnce == Spec => []DefersRunOnce
<1>1. ASSUME IInv PROVE DefersRunOnce
  <2>1. \A d \in Defers : ran[d] \in {0, 1}
    BY <1>1 DEF IInv, Good, Books
  <2>2. \A d \in Defers : ran[d] <= 1
    BY <2>1
  <2>3. result # "running" => \A d \in pushed : ran[d] = 1
    BY <1>1 DEF IInv, Phase
  <2> QED BY <2>2, <2>3 DEF DefersRunOnce
<1> QED BY <1>1, Invariance, PTL

\* The first event that a waiting select hears is in its channel until the
\* select decides, and no case declared after it wins (execSelect).
THEOREM SelectsKeepEvents == Spec => []SelectKeepsEvent
<1>1. ASSUME IInv PROVE SelectKeepsEvent
  <2>1. \A i \in Selects : Keeps(stack[i])
    BY <1>1 DEF IInv, Good, StackOK, Placed, Selects
  <2>2. ASSUME NEW i \in Selects, stack[i].heard # <<>>
        PROVE  IF stack[i].at = "run" THEN stack[i].win <= Head(stack[i].heard)
               ELSE Head(stack[i].heard) \in ToSet(stack[i].ch)
    <3>1. Keeps(stack[i])
      BY <2>1
    <3> QED BY <2>2, <3>1 DEF Keeps
  <2> QED BY <2>2 DEF SelectKeepsEvent
<1> QED BY <1>1, Invariance, PTL
=============================================================================
