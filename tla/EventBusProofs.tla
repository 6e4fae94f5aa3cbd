--------------------------- MODULE EventBusProofs ---------------------------
(* Proofs about EventBus, for any publishers, readers, capacities and Fan.   *)
EXTENDS EventBus, TLAPS

Items == [p : Publishers, n : Nat]

-----------------------------------------------------------------------------
(* The inductive invariant.                                                  *)

\* A channel is subscribed or closed, not both, and a reader that is about to
\* subscribe has neither.
ChannelPhase ==
  /\ subs \cap shut = {}
  /\ \A r \in Readers : pc[r] = "new" => r \notin subs \union shut

\* The items of the first n events of a publisher.
Span(n) == n * Fan

\* Per publisher, its events that have been offered to r or passed it by.
OfferedTo(r) == [p \in Publishers |-> IF r \in sending[p] THEN count[p] - 1 ELSE count[p]]

\* Per publisher the numbers in s grow.
Growing(s) == \A i, j \in DOMAIN s : (i < j /\ s[i].p = s[j].p) => s[i].n < s[j].n

\* A channel c whose reader was given g and offered o: every event in it has been
\* offered, none is in it twice or late, and what the reader was given is older.
Ordered(g, c, o) ==
  /\ Growing(c)
  /\ \A i \in DOMAIN c : c[i].n \in 1..o[c[i].p] /\ g[c[i].p] <= Span(c[i].n - 1)
  /\ \A p \in Publishers : g[p] <= Span(o[p])

\* Items s that have left the channel and were not yet given: they lie between the
\* newest item given and the oldest event in the channel.
Pending(g, c, o, s) ==
  /\ Growing(s)
  /\ \A i \in DOMAIN s :
       /\ g[s[i].p] < s[i].n
       /\ s[i].n <= Span(o[s[i].p])
       /\ \A j \in DOMAIN c : s[i].p = c[j].p => s[i].n <= Span(c[j].n - 1)

\* A translator's queue q and the items h it is forwarding, which are newer.
Pipe(g, c, o, q, h) ==
  /\ Pending(g, c, o, q) /\ Pending(g, c, o, h)
  /\ \A i \in DOMAIN q, j \in DOMAIN h : q[i].p = h[j].p => q[i].n < h[j].n

SendingCounted == \A p \in Publishers : count[p] = 0 => sending[p] = {}
ChanOrdered == \A r \in Readers : Ordered(given[r], chan[r], OfferedTo(r))
QueueOrdered == \A r \in Translators : Pipe(given[r], chan[r], OfferedTo(r), queue[r], hold[r])

IInv ==
  TypeOK /\ ChannelPhase /\ SendsAreSafe /\ SendingCounted /\ ChanOrdered /\ QueueOrdered

-----------------------------------------------------------------------------
(* Numbers and sequences.                                                    *)

\* Spans are numbers, grow with their argument, and one event adds Fan items.
LEMMA Spans ==
  /\ \A n \in Nat : Span(n) \in Nat
  /\ \A m, n \in Nat : m <= n => Span(m) <= Span(n)
  /\ \A n \in Nat \ {0} : Span(n) = Span(n - 1) + Fan
  /\ Span(0) = 0
  /\ \A n \in Nat : Fan * n = Span(n)
<1>1. \A n \in Nat : Span(n) \in Nat BY BusAssumption DEF Span
<1>2. \A m, n \in Nat : m <= n => Span(m) <= Span(n) BY BusAssumption DEF Span
<1>3. \A n \in Nat \ {0} : Span(n) = Span(n - 1) + Fan BY BusAssumption DEF Span
<1>4. Span(0) = 0 BY BusAssumption DEF Span
<1>5. \A n \in Nat : Fan * n = Span(n) BY BusAssumption DEF Span
<1> QED BY <1>1, <1>2, <1>3, <1>4, <1>5

\* The elements of a sequence of items are items.
LEMMA Elements ==
  ASSUME NEW s \in Seq(Items), NEW i \in DOMAIN s
  PROVE  s[i] \in Items /\ s[i].p \in Publishers /\ s[i].n \in Nat /\ i \in Nat
<1>1. DOMAIN s = 1..Len(s) /\ Len(s) \in Nat OBVIOUS
<1>2. s[i] \in Items BY <1>1
<1> QED BY <1>1, <1>2 DEF Items

\* An appended element is the last one; the others stay where they are.
LEMMA Appended ==
  ASSUME NEW s \in Seq(Items), NEW e \in Items
  PROVE  /\ Append(s, e) \in Seq(Items)
         /\ \A i \in DOMAIN Append(s, e) :
              \/ i \in DOMAIN s /\ Append(s, e)[i] = s[i]
              \/ i = Len(s) + 1 /\ Append(s, e)[i] = e
BY DEF Items

\* Without its first element a sequence has the others, one place earlier.
LEMMA Shortened ==
  ASSUME NEW s \in Seq(Items), s # <<>>
  PROVE  /\ Tail(s) \in Seq(Items)
         /\ 1 \in DOMAIN s /\ Head(s) = s[1] /\ Head(s) \in Items
         /\ \A i \in DOMAIN Tail(s) : i + 1 \in DOMAIN s /\ Tail(s)[i] = s[i + 1] /\ 1 < i + 1
<1>1. DOMAIN s = 1..Len(s) /\ Len(s) \in Nat /\ Len(s) > 0 OBVIOUS
<1>2. Tail(s) \in Seq(Items) /\ Len(Tail(s)) = Len(s) - 1 OBVIOUS
<1>3. DOMAIN Tail(s) = 1..(Len(s) - 1) BY <1>2
<1>4. Head(s) = s[1] OBVIOUS
<1>5. s[1] \in Items BY <1>1
<1>6. \A i \in 1..(Len(s) - 1) : Tail(s)[i] = s[i + 1] BY <1>1
<1> QED BY <1>1, <1>2, <1>3, <1>4, <1>5, <1>6

\* Growing survives an append of something newer.
LEMMA GrowingAppend ==
  ASSUME NEW s \in Seq(Items), NEW e \in Items, Growing(s),
         \A i \in DOMAIN s : s[i].p = e.p => s[i].n < e.n
  PROVE  Growing(Append(s, e))
<1> SUFFICES ASSUME NEW i \in DOMAIN Append(s, e), NEW j \in DOMAIN Append(s, e), i < j,
                    Append(s, e)[i].p = Append(s, e)[j].p
             PROVE  Append(s, e)[i].n < Append(s, e)[j].n
  BY DEF Growing
<1>1. DOMAIN s = 1..Len(s) /\ DOMAIN Append(s, e) = 1..(Len(s) + 1) /\ Len(s) \in Nat OBVIOUS
<1>2. i \in DOMAIN s /\ Append(s, e)[i] = s[i] BY <1>1, Appended
<1>3. CASE j \in DOMAIN s /\ Append(s, e)[j] = s[j] BY <1>2, <1>3 DEF Growing
<1>4. CASE Append(s, e)[j] = e BY <1>2, <1>4
<1> QED BY <1>3, <1>4, Appended

\* Growing survives the loss of the head.
LEMMA GrowingTail ==
  ASSUME NEW s \in Seq(Items), s # <<>>, Growing(s)
  PROVE  /\ Growing(Tail(s))
         /\ \A i \in DOMAIN Tail(s) : s[1].p = Tail(s)[i].p => s[1].n < Tail(s)[i].n
<1>1. ASSUME NEW i \in DOMAIN Tail(s), NEW j \in DOMAIN Tail(s), i < j,
             Tail(s)[i].p = Tail(s)[j].p
      PROVE  Tail(s)[i].n < Tail(s)[j].n
  <2>1. i + 1 < j + 1 /\ i + 1 \in DOMAIN s /\ j + 1 \in DOMAIN s
    BY <1>1, Shortened, Elements
  <2> QED BY <2>1, <1>1, Shortened DEF Growing
<1>2. \A i \in DOMAIN Tail(s) : s[1].p = Tail(s)[i].p => s[1].n < Tail(s)[i].n
  BY Shortened DEF Growing
<1> QED BY <1>1, <1>2 DEF Growing

\* What the translator makes of an event: items of its publisher, growing, above the
\* items of the earlier events and up to its own last one.
LEMMA ReceivedItems ==
  ASSUME NEW e \in Items, e.n # 0, NEW out \in translateEvents(e)
  PROVE  /\ out \in Seq(Items) /\ Growing(out)
         /\ \A i \in DOMAIN out :
              out[i].p = e.p /\ Span(e.n - 1) < out[i].n /\ out[i].n <= Span(e.n)
<1>1. PICK k \in 0..Fan : out = [j \in 1..k |-> Item(e.p, (e.n - 1) * Fan + j)]
  BY DEF translateEvents
<1>2. e.n \in Nat \ {0} /\ e.p \in Publishers /\ e.n - 1 \in Nat BY DEF Items
<1>3. Span(e.n - 1) \in Nat /\ Span(e.n) = Span(e.n - 1) + Fan /\ (e.n - 1) * Fan = Span(e.n - 1)
  BY <1>2, Spans DEF Span
<1>4. out = [j \in 1..k |-> Item(e.p, Span(e.n - 1) + j)] BY <1>1, <1>3
<1>5. \A j \in 1..k : Item(e.p, Span(e.n - 1) + j) \in Items
  BY <1>2, <1>3 DEF Items, Item
<1>6. k \in Nat /\ Fan \in Nat /\ k <= Fan BY BusAssumption
<1>7. out \in Seq(Items) BY <1>4, <1>5, <1>6
<1>8. DOMAIN out = 1..k BY <1>4
<1>9. \A i \in 1..k : out[i].p = e.p /\ out[i].n = Span(e.n - 1) + i BY <1>4 DEF Item
<1>10. Growing(out) BY <1>3, <1>6, <1>8, <1>9 DEF Growing
<1> QED BY <1>3, <1>6, <1>7, <1>8, <1>9, <1>10

-----------------------------------------------------------------------------
(* What each step of an item's way does to the order, about values alone.    *)

\* More has been offered.
LEMMA OfferedMore ==
  ASSUME NEW g \in [Publishers -> Nat], NEW c \in Seq(Items), NEW s \in Seq(Items),
         NEW o \in [Publishers -> Nat], NEW o2 \in [Publishers -> Nat],
         \A p \in Publishers : o[p] <= o2[p]
  PROVE  /\ Ordered(g, c, o) => Ordered(g, c, o2)
         /\ Pending(g, c, o, s) => Pending(g, c, o2, s)
<1>1. \A p \in Publishers : Span(o[p]) \in Nat /\ Span(o2[p]) \in Nat /\ Span(o[p]) <= Span(o2[p])
  BY Spans
<1>2. ASSUME Ordered(g, c, o) PROVE Ordered(g, c, o2)
  BY <1>1, <1>2, Elements DEF Ordered
<1>3. ASSUME Pending(g, c, o, s) PROVE Pending(g, c, o2, s)
  BY <1>1, <1>3, Elements DEF Pending
<1> QED BY <1>2, <1>3

\* An event enters the channel.
LEMMA OfferedOne ==
  ASSUME NEW g \in [Publishers -> Nat], NEW c \in Seq(Items), NEW s \in Seq(Items),
         NEW o \in [Publishers -> Nat], NEW e \in Items, e.n = o[e.p] + 1,
         NEW o2 \in [Publishers -> Nat], \A p \in Publishers : o[p] <= o2[p], o2[e.p] = e.n
  PROVE  /\ Ordered(g, c, o) => Ordered(g, Append(c, e), o2)
         /\ Pending(g, c, o, s) => Pending(g, Append(c, e), o2, s)
<1>0. e.p \in Publishers /\ e.n \in Nat BY DEF Items
<1>1. ASSUME Ordered(g, c, o) PROVE Ordered(g, Append(c, e), o2)
  <2>1. Ordered(g, c, o2) BY <1>1, OfferedMore
  <2>2. Growing(Append(c, e))
    <3>1. \A i \in DOMAIN c : c[i].p = e.p => c[i].n < e.n BY <1>0, <1>1, Elements DEF Ordered
    <3> QED BY <1>1, <3>1, GrowingAppend DEF Ordered
  <2>3. g[e.p] <= Span(e.n - 1) BY <1>0, <1>1 DEF Ordered
  <2> QED BY <1>0, <2>1, <2>2, <2>3, Appended DEF Ordered
<1>2. ASSUME Pending(g, c, o, s) PROVE Pending(g, Append(c, e), o2, s)
  <2>1. Pending(g, c, o2, s) BY <1>2, OfferedMore
  <2>2. \A i \in DOMAIN s : s[i].p = e.p => s[i].n <= Span(e.n - 1) BY <1>0, <1>2 DEF Pending
  <2> QED BY <2>1, <2>2, Appended DEF Pending
<1> QED BY <1>1, <1>2

\* The translator takes the oldest event of the channel and holds its items.
LEMMA ReceivedOne ==
  ASSUME NEW g \in [Publishers -> Nat], NEW c \in Seq(Items), NEW q \in Seq(Items),
         NEW o \in [Publishers -> Nat], c # <<>>, Ordered(g, c, o), Pending(g, c, o, q),
         NEW out \in translateEvents(Head(c))
  PROVE  Ordered(g, Tail(c), o) /\ Pipe(g, Tail(c), o, q, out)
<1>0. Head(c) = c[1] /\ 1 \in DOMAIN c /\ c[1] \in Items /\ c[1].p \in Publishers /\ c[1].n \in Nat
  BY Shortened, Elements
<1>1. c[1].n \in 1..o[c[1].p] /\ g[c[1].p] <= Span(c[1].n - 1) BY <1>0 DEF Ordered
<1>2. /\ out \in Seq(Items) /\ Growing(out)
      /\ \A i \in DOMAIN out :
           out[i].p = c[1].p /\ Span(c[1].n - 1) < out[i].n /\ out[i].n <= Span(c[1].n)
  BY <1>0, <1>1, ReceivedItems
<1>3. /\ Growing(Tail(c))
      /\ \A j \in DOMAIN Tail(c) : c[1].p = Tail(c)[j].p => c[1].n < Tail(c)[j].n
  BY GrowingTail DEF Ordered
<1>4. Ordered(g, Tail(c), o) BY <1>3, Shortened DEF Ordered
<1>5. Pending(g, Tail(c), o, q) BY Shortened DEF Pending
<1>6. /\ Span(c[1].n) <= Span(o[c[1].p]) /\ {Span(c[1].n), Span(c[1].n - 1), Span(o[c[1].p])} \subseteq Nat
      /\ \A m \in Nat : c[1].n < m => Span(c[1].n) <= Span(m - 1) /\ Span(m - 1) \in Nat
  <2>1. o[c[1].p] \in Nat /\ c[1].n <= o[c[1].p] /\ c[1].n - 1 \in Nat BY <1>0, <1>1
  <2>2. \A m \in Nat : c[1].n < m => m - 1 \in Nat /\ c[1].n <= m - 1 BY <1>0
  <2>3. \A m \in Nat : c[1].n < m => Span(c[1].n) <= Span(m - 1) /\ Span(m - 1) \in Nat
    BY <1>0, <2>2, Spans
  <2> QED BY <1>0, <2>1, <2>3, Spans
<1>7. \A i \in DOMAIN out : out[i].n \in Nat BY <1>2, Elements
<1>8. \A j \in DOMAIN Tail(c) : Tail(c)[j].n \in Nat BY Shortened, Elements
<1>9. Pending(g, Tail(c), o, out)
  <2> SUFFICES ASSUME NEW i \in DOMAIN out
               PROVE  /\ g[out[i].p] < out[i].n /\ out[i].n <= Span(o[out[i].p])
                      /\ \A j \in DOMAIN Tail(c) :
                           out[i].p = Tail(c)[j].p => out[i].n <= Span(Tail(c)[j].n - 1)
    BY <1>2 DEF Pending
  <2>1. g[out[i].p] < out[i].n BY <1>0, <1>1, <1>2, <1>6, <1>7
  <2>2. out[i].n <= Span(o[out[i].p]) BY <1>2, <1>6, <1>7
  <2>3. ASSUME NEW j \in DOMAIN Tail(c), out[i].p = Tail(c)[j].p
        PROVE  out[i].n <= Span(Tail(c)[j].n - 1)
    BY <1>2, <1>3, <1>6, <1>7, <1>8, <2>3
  <2> QED BY <2>1, <2>2, <2>3
<1>10. \A i \in DOMAIN q : q[i].n \in Nat /\ (q[i].p = c[1].p => q[i].n <= Span(c[1].n - 1))
  BY <1>0, Elements DEF Pending
<1>11. \A i \in DOMAIN q, j \in DOMAIN out : q[i].p = out[j].p => q[i].n < out[j].n
  BY <1>2, <1>6, <1>7, <1>10
<1> QED BY <1>4, <1>5, <1>9, <1>11 DEF Pipe

\* One item is offered to the queue.
LEMMA ForwardedOne ==
  ASSUME NEW g \in [Publishers -> Nat], NEW c \in Seq(Items), NEW o \in [Publishers -> Nat],
         NEW q \in Seq(Items), NEW h \in Seq(Items), h # <<>>, Pipe(g, c, o, q, h),
         NEW q2 \in {q, Append(q, Head(h))}
  PROVE  Pipe(g, c, o, q2, Tail(h))
<1>0. Head(h) = h[1] /\ 1 \in DOMAIN h /\ h[1] \in Items BY Shortened
<1>1. /\ Growing(Tail(h))
      /\ \A j \in DOMAIN Tail(h) : h[1].p = Tail(h)[j].p => h[1].n < Tail(h)[j].n
  BY GrowingTail DEF Pipe, Pending
<1>2. Pending(g, c, o, Tail(h)) BY <1>1, Shortened DEF Pipe, Pending
<1>3. CASE q2 = q BY <1>2, <1>3, Shortened DEF Pipe
<1>4. CASE q2 = Append(q, Head(h))
  <2>1. Growing(q2) BY <1>0, <1>4, GrowingAppend DEF Pipe, Pending
  <2>2. Pending(g, c, o, q2) BY <1>0, <1>4, <2>1, Appended DEF Pipe, Pending
  <2>3. \A i \in DOMAIN q2, j \in DOMAIN Tail(h) : q2[i].p = Tail(h)[j].p => q2[i].n < Tail(h)[j].n
    <3> SUFFICES ASSUME NEW i \in DOMAIN q2, NEW j \in DOMAIN Tail(h), q2[i].p = Tail(h)[j].p
                 PROVE  q2[i].n < Tail(h)[j].n
      OBVIOUS
    <3>1. j + 1 \in DOMAIN h /\ Tail(h)[j] = h[j + 1] BY Shortened
    <3>2. CASE i \in DOMAIN q /\ q2[i] = q[i] BY <3>1, <3>2 DEF Pipe
    <3>3. CASE q2[i] = h[1] BY <1>1, <3>3
    <3> QED BY <1>0, <1>4, <3>2, <3>3, Appended
  <2> QED BY <1>2, <2>2, <2>3 DEF Pipe
<1> QED BY <1>3, <1>4

\* The interpreter takes the oldest item of its queue.
LEMMA DispatchedOne ==
  ASSUME NEW g \in [Publishers -> Nat], NEW c \in Seq(Items), NEW o \in [Publishers -> Nat],
         NEW q \in Seq(Items), NEW h \in Seq(Items), q # <<>>,
         Ordered(g, c, o), Pipe(g, c, o, q, h),
         NEW g2, g2 = [g EXCEPT ![Head(q).p] = Head(q).n]
  PROVE  Ordered(g2, c, o) /\ Pipe(g2, c, o, Tail(q), h)
<1>0. Head(q) = q[1] /\ 1 \in DOMAIN q /\ q[1] \in Items /\ q[1].p \in Publishers /\ q[1].n \in Nat
  BY Shortened, Elements
<1>1. \A p \in Publishers : g2[p] = IF p = q[1].p THEN q[1].n ELSE g[p] BY <1>0
<1>2. /\ Growing(Tail(q))
      /\ \A j \in DOMAIN Tail(q) : q[1].p = Tail(q)[j].p => q[1].n < Tail(q)[j].n
  BY GrowingTail DEF Pipe, Pending
<1>3. Ordered(g2, c, o) BY <1>0, <1>1, Elements DEF Ordered, Pipe, Pending
<1>4. Pending(g2, c, o, Tail(q))
  <2>1. \A i \in DOMAIN Tail(q) : Tail(q)[i].p \in Publishers BY Shortened, Elements
  <2> QED BY <1>1, <1>2, <2>1, Shortened DEF Pipe, Pending
<1>5. Pending(g2, c, o, h) BY <1>0, <1>1, Elements DEF Pipe, Pending
<1>6. \A i \in DOMAIN Tail(q), j \in DOMAIN h : Tail(q)[i].p = h[j].p => Tail(q)[i].n < h[j].n
  <2>1. \A i \in DOMAIN q, j \in DOMAIN h : q[i].p = h[j].p => q[i].n < h[j].n BY DEF Pipe
  <2>2. \A i \in DOMAIN Tail(q) : i + 1 \in DOMAIN q /\ Tail(q)[i] = q[i + 1] BY Shortened
  <2> QED BY <2>1, <2>2
<1> QED BY <1>3, <1>4, <1>5, <1>6 DEF Pipe

\* A plain reader takes the oldest event of its channel.
LEMMA HarvestedOne ==
  ASSUME NEW g \in [Publishers -> Nat], NEW c \in Seq(Items), NEW o \in [Publishers -> Nat],
         c # <<>>, Ordered(g, c, o),
         NEW g2, g2 = [g EXCEPT ![Head(c).p] = Span(Head(c).n)]
  PROVE  Ordered(g2, Tail(c), o)
<1>0. Head(c) = c[1] /\ 1 \in DOMAIN c /\ c[1] \in Items /\ c[1].p \in Publishers /\ c[1].n \in Nat
  BY Shortened, Elements
<1>1. \A p \in Publishers : g2[p] = IF p = c[1].p THEN Span(c[1].n) ELSE g[p] BY <1>0
<1>2. /\ Growing(Tail(c))
      /\ \A j \in DOMAIN Tail(c) : c[1].p = Tail(c)[j].p => c[1].n < Tail(c)[j].n
  BY GrowingTail DEF Ordered
<1>3. \A j \in DOMAIN Tail(c) : Tail(c)[j].p \in Publishers /\ Tail(c)[j].n \in Nat
  BY Shortened, Elements
<1>4. Span(c[1].n) <= Span(o[c[1].p]) BY <1>0, Spans DEF Ordered
<1>5. \A m \in Nat : c[1].n < m => Span(c[1].n) <= Span(m - 1) BY <1>0, Spans
<1>6. \A j \in DOMAIN Tail(c) :
        Tail(c)[j].n \in 1..o[Tail(c)[j].p] /\ g2[Tail(c)[j].p] <= Span(Tail(c)[j].n - 1)
  BY <1>1, <1>2, <1>3, <1>5, Shortened DEF Ordered
<1>7. \A p \in Publishers : g2[p] <= Span(o[p]) BY <1>1, <1>4 DEF Ordered
<1> QED BY <1>2, <1>6, <1>7 DEF Ordered

-----------------------------------------------------------------------------
(* Types, and the channels.                                                  *)

LEMMA InitInv == Init => IInv
<1> SUFFICES ASSUME Init PROVE IInv OBVIOUS
<1>1. TypeOK
  <2>1. chan \in [Readers -> Seq(Items)] /\ hold \in [Translators -> Seq(Items)]
        /\ queue \in [Translators -> Seq(Items)]
    BY DEF Init
  <2>2. given \in [Readers -> [Publishers -> Nat]] BY DEF Init
  <2>3. closed \in BOOLEAN BY DEF Init
  <2> QED BY <2>1, <2>2, <2>3 DEF Init, TypeOK, Items
<1>2. ChannelPhase /\ SendsAreSafe /\ SendingCounted
  BY DEF Init, ChannelPhase, SendsAreSafe, SendingCounted
<1>3. ChanOrdered BY Spans DEF Init, ChanOrdered, Ordered, Growing, OfferedTo
<1>4. QueueOrdered BY DEF Init, QueueOrdered, Pipe, Pending, Growing, Readers
<1> QED BY <1>1, <1>2, <1>3, <1>4 DEF IInv
\* Every step keeps the types.
LEMMA TypeStep == TypeOK /\ ChanOrdered /\ [Next]_vars => TypeOK'
<1> SUFFICES ASSUME TypeOK, ChanOrdered, [Next]_vars PROVE TypeOK' OBVIOUS
<1> USE DEF Items
<1>t. /\ \A r \in Readers : chan[r] \in Seq(Items)
      /\ \A r \in Translators : hold[r] \in Seq(Items) /\ queue[r] \in Seq(Items) /\ r \in Readers
  BY DEF TypeOK, Readers
<1>1. ASSUME NEW p \in Publishers, Publish(p) PROVE TypeOK'
  <2>1. count' \in [Publishers -> Nat] BY <1>1 DEF Publish, TypeOK
  <2>2. sending' \in [Publishers -> SUBSET Readers] BY <1>1 DEF Publish, Audience, TypeOK
  <2> QED BY <1>1, <2>1, <2>2 DEF Publish, TypeOK
<1>2. ASSUME NEW p \in Publishers, NEW r \in Readers, Offer(p, r) PROVE TypeOK'
  <2>1. sending' \in [Publishers -> SUBSET Readers] BY <1>2 DEF Offer, TypeOK
  <2>2. Item(p, count[p]) \in Items BY DEF TypeOK, Item
  <2>3. Append(chan[r], Item(p, count[p])) \in Seq(Items) BY <1>t, <2>2, Appended
  <2>4. chan' \in [Readers -> Seq(Items)] BY <1>2, <1>t, <2>3 DEF Offer, TypeOK
  <2> QED BY <1>2, <2>1, <2>4 DEF Offer, TypeOK
<1>3. ASSUME NEW r \in Readers, Subscribe(r) PROVE TypeOK'
  <2>1. pc' \in [Readers -> {"new", "read", "exit", "gone"}] BY <1>3 DEF Subscribe, TypeOK
  <2> QED BY <1>3, <2>1 DEF Subscribe, TypeOK
<1>4. ASSUME NEW r \in Translators, Receive(r) PROVE TypeOK'
  <2>1. PICK out \in translateEvents(Head(chan[r])) : hold' = [hold EXCEPT ![r] = out]
    BY <1>4 DEF Receive
  <2>2. Head(chan[r]) \in Items /\ Tail(chan[r]) \in Seq(Items) BY <1>4, <1>t, Shortened DEF Receive
  <2>3. Head(chan[r]).n # 0
    <3>1. 1 \in DOMAIN chan[r] /\ Head(chan[r]) = chan[r][1] BY <1>4, <1>t, Shortened DEF Receive
    <3> QED BY <3>1, <1>t DEF ChanOrdered, Ordered
  <2>4. out \in Seq(Items) BY <2>1, <2>2, <2>3, ReceivedItems
  <2>5. hold' \in [Translators -> Seq(Items)] BY <2>1, <2>4 DEF TypeOK
  <2>6. chan' \in [Readers -> Seq(Items)] BY <1>4, <2>2, <1>t DEF Receive, TypeOK
  <2> QED BY <1>4, <2>5, <2>6 DEF Receive, TypeOK
<1>5. ASSUME NEW r \in Translators, Forward(r) PROVE TypeOK'
  <2>1. Head(hold[r]) \in Items /\ Tail(hold[r]) \in Seq(Items) BY <1>5, <1>t, Shortened DEF Forward
  <2>2. Append(queue[r], Head(hold[r])) \in Seq(Items) BY <2>1, <1>t, Appended
  <2>3. hold' \in [Translators -> Seq(Items)] BY <1>5, <2>1 DEF Forward, TypeOK
  <2>4. queue' \in [Translators -> Seq(Items)] BY <1>5, <2>2, <1>t DEF Forward, TypeOK
  <2> QED BY <1>5, <2>3, <2>4 DEF Forward, TypeOK
<1>6. ASSUME NEW r \in Translators, Exit(r) PROVE TypeOK' BY <1>6 DEF Exit, TypeOK
<1>7. ASSUME NEW r \in Translators, Unsubscribe(r) PROVE TypeOK' BY <1>7 DEF Unsubscribe, TypeOK
<1>8. ASSUME NEW r \in Translators, Dispatch(r) PROVE TypeOK'
  <2>1. Head(queue[r]) \in Items /\ Tail(queue[r]) \in Seq(Items) BY <1>8, <1>t, Shortened DEF Dispatch
  <2>2. queue' \in [Translators -> Seq(Items)] BY <1>8, <2>1 DEF Dispatch, TypeOK
  <2>3. given' \in [Readers -> [Publishers -> Nat]] BY <1>8, <1>t, <2>1 DEF Dispatch, Give, TypeOK
  <2> QED BY <1>8, <2>2, <2>3 DEF Dispatch, TypeOK
<1>9. ASSUME NEW r \in Translators, Cancel(r) PROVE TypeOK' BY <1>9 DEF Cancel, TypeOK
<1>10. ASSUME NEW r \in Plain, Harvest(r) PROVE TypeOK'
  <2>0. r \in Readers BY DEF Readers
  <2>1. CASE chan[r] # <<>>
    <3>1. Head(chan[r]) \in Items /\ Tail(chan[r]) \in Seq(Items) BY <2>0, <2>1, <1>t, Shortened
    <3>2. chan' \in [Readers -> Seq(Items)] BY <1>10, <2>0, <2>1, <3>1 DEF Harvest, TypeOK
    <3>3. Head(chan[r]).n * Fan \in Nat /\ Head(chan[r]).p \in Publishers BY <3>1, BusAssumption
    <3>4. given' = [given EXCEPT ![r][Head(chan[r]).p] = Head(chan[r]).n * Fan]
      BY <1>10, <2>1 DEF Harvest, Give, Item
    <3>5. given' \in [Readers -> [Publishers -> Nat]] BY <2>0, <3>3, <3>4 DEF TypeOK
    <3> QED BY <1>10, <2>1, <3>2, <3>5 DEF Harvest, TypeOK
  <2>2. CASE chan[r] = <<>> BY <1>10, <2>0, <2>2 DEF Harvest, TypeOK
  <2> QED BY <2>1, <2>2
<1>11. CASE Close BY <1>11 DEF Close, TypeOK
<1>12. CASE UNCHANGED vars BY <1>12 DEF vars, TypeOK
<1> QED BY <1>1, <1>2, <1>3, <1>4, <1>5, <1>6, <1>7, <1>8, <1>9, <1>10, <1>11, <1>12 DEF Next
\* Subscribing, leaving and closing happen while no Publish is in progress.
LEMMA ChannelStep ==
  ASSUME TypeOK, ChannelPhase, SendsAreSafe, [Next]_vars
  PROVE  ChannelPhase' /\ SendsAreSafe'
<1> USE DEF TypeOK, ChannelPhase, SendsAreSafe
<1>1. ASSUME NEW p \in Publishers, Publish(p) PROVE ChannelPhase' /\ SendsAreSafe'
  BY <1>1 DEF Publish, Audience
<1>2. ASSUME NEW p \in Publishers, NEW r \in Readers, Offer(p, r) PROVE ChannelPhase' /\ SendsAreSafe'
  BY <1>2 DEF Offer
<1>3. ASSUME NEW r \in Readers, Subscribe(r) PROVE ChannelPhase' /\ SendsAreSafe'
  BY <1>3 DEF Subscribe, RLocked
<1>4. ASSUME NEW r \in Translators, Receive(r) PROVE ChannelPhase' /\ SendsAreSafe'
  BY <1>4 DEF Receive
<1>5. ASSUME NEW r \in Translators, Forward(r) PROVE ChannelPhase' /\ SendsAreSafe'
  BY <1>5 DEF Forward
<1>6. ASSUME NEW r \in Translators, Exit(r) PROVE ChannelPhase' /\ SendsAreSafe'
  BY <1>6 DEF Exit
<1>7. ASSUME NEW r \in Translators, Unsubscribe(r) PROVE ChannelPhase' /\ SendsAreSafe'
  BY <1>7 DEF Unsubscribe, RLocked
<1>8. ASSUME NEW r \in Translators, Dispatch(r) PROVE ChannelPhase' /\ SendsAreSafe'
  BY <1>8 DEF Dispatch
<1>9. ASSUME NEW r \in Translators, Cancel(r) PROVE ChannelPhase' /\ SendsAreSafe'
  BY <1>9 DEF Cancel
<1>10. ASSUME NEW r \in Plain, Harvest(r) PROVE ChannelPhase' /\ SendsAreSafe'
  BY <1>10 DEF Harvest
<1>11. CASE Close BY <1>11 DEF Close, RLocked
<1>12. CASE UNCHANGED vars BY <1>12 DEF vars
<1> QED BY <1>1, <1>2, <1>3, <1>4, <1>5, <1>6, <1>7, <1>8, <1>9, <1>10, <1>11, <1>12 DEF Next

-----------------------------------------------------------------------------
(* The order of the items.                                                   *)

\* What has been offered to a reader grows; a Publish in progress counts its event.
LEMMA OfferedStep ==
  ASSUME TypeOK, TypeOK', SendingCounted, [Next]_vars
  PROVE  /\ SendingCounted'
         /\ \A r \in Readers :
              /\ OfferedTo(r) \in [Publishers -> Nat] /\ OfferedTo(r)' \in [Publishers -> Nat]
              /\ \A p \in Publishers : OfferedTo(r)[p] <= OfferedTo(r)'[p]
<1> USE DEF TypeOK, SendingCounted, OfferedTo
<1>1. ASSUME NEW p \in Publishers, Publish(p)
      PROVE  SendingCounted' /\ \A r \in Readers, q \in Publishers : OfferedTo(r)[q] <= OfferedTo(r)'[q]
  <2>1. /\ sending[p] = {} /\ count'[p] = count[p] + 1
        /\ \A q \in Publishers \ {p} : count'[q] = count[q] /\ sending'[q] = sending[q]
    BY <1>1 DEF Publish
  <2>2. SendingCounted'
    <3>1. count'[p] # 0 BY <2>1
    <3> QED BY <2>1, <3>1
  <2>3. ASSUME NEW r \in Readers, NEW q \in Publishers PROVE OfferedTo(r)[q] <= OfferedTo(r)'[q]
    <3>1. CASE q = p BY <2>1, <3>1
    <3>2. CASE q # p BY <2>1, <3>2
    <3> QED BY <3>1, <3>2
  <2> QED BY <2>2, <2>3
<1>2. ASSUME NEW p \in Publishers, NEW s \in Readers, Offer(p, s)
      PROVE  SendingCounted' /\ \A r \in Readers, q \in Publishers : OfferedTo(r)[q] <= OfferedTo(r)'[q]
  <2>1. /\ sending'[p] = sending[p] \ {s} /\ count' = count
        /\ \A q \in Publishers \ {p} : sending'[q] = sending[q]
    BY <1>2 DEF Offer
  <2>2. SendingCounted' BY <2>1
  <2>3. ASSUME NEW r \in Readers, NEW q \in Publishers PROVE OfferedTo(r)[q] <= OfferedTo(r)'[q]
    <3>1. CASE q = p BY <2>1, <3>1
    <3>2. CASE q # p BY <2>1, <3>2
    <3> QED BY <3>1, <3>2
  <2> QED BY <2>2, <2>3
<1>3. ASSUME UNCHANGED <<count, sending>>
      PROVE  SendingCounted' /\ \A r \in Readers, q \in Publishers : OfferedTo(r)[q] <= OfferedTo(r)'[q]
  BY <1>3
<1>4. \A r \in Readers : OfferedTo(r) \in [Publishers -> Nat] OBVIOUS
<1>5. SendingCounted' => \A r \in Readers : OfferedTo(r)' \in [Publishers -> Nat] OBVIOUS
<1>6. \/ \E p \in Publishers : Publish(p)
      \/ \E p \in Publishers, s \in Readers : Offer(p, s)
      \/ UNCHANGED <<count, sending>>
  BY DEF Next, vars, Subscribe, Receive, Forward, Exit, Unsubscribe, Dispatch, Cancel, Harvest, Close
<1> QED BY <1>1, <1>2, <1>3, <1>4, <1>5, <1>6
\* Every step keeps the items of every reader in order.
LEMMA OrderStep ==
  ASSUME IInv, TypeOK', [Next]_vars
  PROVE  SendingCounted' /\ ChanOrdered' /\ QueueOrdered'
<1>0. /\ SendingCounted'
      /\ \A r \in Readers : OfferedTo(r) \in [Publishers -> Nat] /\ OfferedTo(r)' \in [Publishers -> Nat]
      /\ \A r \in Readers, p \in Publishers : OfferedTo(r)[p] <= OfferedTo(r)'[p]
  BY OfferedStep DEF IInv
<1>t. /\ \A r \in Readers : chan[r] \in Seq(Items) /\ given[r] \in [Publishers -> Nat]
      /\ \A r \in Translators : hold[r] \in Seq(Items) /\ queue[r] \in Seq(Items) /\ r \in Readers
  BY DEF IInv, TypeOK, Readers, Items
<1>i. /\ \A r \in Readers : Ordered(given[r], chan[r], OfferedTo(r))
      /\ \A r \in Translators : Pipe(given[r], chan[r], OfferedTo(r), queue[r], hold[r])
  BY DEF IInv, ChanOrdered, QueueOrdered
<1> DEFINE Good(r) == /\ Ordered(given'[r], chan'[r], OfferedTo(r)')
                      /\ r \in Translators => Pipe(given'[r], chan'[r], OfferedTo(r)', queue'[r], hold'[r])
<1>s. SUFFICES \A r \in Readers : Good(r)
  BY <1>0, <1>t DEF ChanOrdered, QueueOrdered
<1>u. ASSUME NEW r \in Readers, chan'[r] = chan[r], given'[r] = given[r],
             r \in Translators => queue'[r] = queue[r] /\ hold'[r] = hold[r]
      PROVE  Good(r)
  <2>1. Ordered(given[r], chan[r], OfferedTo(r)') BY <1>0, <1>t, <1>i, OfferedMore
  <2>2. ASSUME r \in Translators PROVE Pipe(given[r], chan[r], OfferedTo(r)', queue[r], hold[r])
    BY <1>0, <1>t, <1>i, <2>2, OfferedMore DEF Pipe
  <2> QED BY <1>u, <2>1, <2>2
<1>1. ASSUME UNCHANGED <<chan, given, queue, hold>> PROVE \A r \in Readers : Good(r)
  BY <1>1, <1>u
<1>2. ASSUME NEW p \in Publishers, NEW r \in Readers, Offer(p, r) PROVE \A s \in Readers : Good(s)
  <2>1. ASSUME NEW s \in Readers, s # r PROVE Good(s) BY <1>2, <1>u, <2>1 DEF Offer, IInv, TypeOK
  <2>2. UNCHANGED <<given, queue, hold, count>> /\ r \in sending[p] BY <1>2 DEF Offer
  <2>3. CASE Len(chan[r]) < Buffer
    <3> DEFINE e == Item(p, count[p])
    <3>1. chan'[r] = Append(chan[r], e) BY <1>2, <2>3 DEF Offer, IInv, TypeOK
    <3>2. e \in Items /\ e.p = p /\ e.n = count[p] BY DEF IInv, TypeOK, Item, Items
    <3>3. sending'[p] = sending[p] \ {r} BY <1>2 DEF Offer, IInv, TypeOK
    <3>4. OfferedTo(r)[p] = count[p] - 1 /\ OfferedTo(r)'[p] = count[p]
      BY <2>2, <3>3 DEF OfferedTo
    <3>5. e.n = OfferedTo(r)[e.p] + 1 /\ OfferedTo(r)'[e.p] = e.n
      BY <3>2, <3>4 DEF IInv, TypeOK
    <3> HIDE DEF e
    <3>6. Ordered(given[r], Append(chan[r], e), OfferedTo(r)')
      BY <1>0, <1>t, <1>i, <3>2, <3>5, OfferedOne
    <3>7. ASSUME r \in Translators
          PROVE  Pipe(given[r], Append(chan[r], e), OfferedTo(r)', queue[r], hold[r])
      BY <1>0, <1>t, <1>i, <3>2, <3>5, <3>7, OfferedOne DEF Pipe
    <3> QED BY <2>1, <2>2, <3>1, <3>6, <3>7
  <2>4. CASE ~(Len(chan[r]) < Buffer)
    <3>1. chan'[r] = chan[r] BY <1>2, <2>4 DEF Offer, IInv, TypeOK
    <3>2. Good(r) BY <1>u, <2>2, <3>1
    <3> QED BY <2>1, <3>2
  <2> QED BY <2>3, <2>4
<1>o. ASSUME UNCHANGED <<count, sending>> PROVE \A r \in Readers : OfferedTo(r)' = OfferedTo(r)
  BY <1>o DEF OfferedTo
<1>3. ASSUME NEW r \in Translators, Receive(r) PROVE \A s \in Readers : Good(s)
  <2>0. r \in Readers /\ UNCHANGED <<given, queue, count, sending>> BY <1>3, <1>t DEF Receive
  <2>1. ASSUME NEW s \in Readers, s # r PROVE Good(s) BY <1>3, <1>u, <2>1 DEF Receive, IInv, TypeOK
  <2>2. PICK out \in translateEvents(Head(chan[r])) : hold' = [hold EXCEPT ![r] = out]
    BY <1>3 DEF Receive
  <2>3. chan[r] # <<>> /\ chan'[r] = Tail(chan[r]) /\ hold'[r] = out
    BY <1>3, <2>0, <2>2 DEF Receive, IInv, TypeOK
  <2>4. /\ Ordered(given[r], Tail(chan[r]), OfferedTo(r))
        /\ Pipe(given[r], Tail(chan[r]), OfferedTo(r), queue[r], out)
    BY <1>0, <1>t, <1>i, <2>0, <2>2, <2>3, ReceivedOne DEF Pipe
  <2> QED BY <1>o, <2>0, <2>1, <2>3, <2>4
<1>4. ASSUME NEW r \in Translators, Forward(r) PROVE \A s \in Readers : Good(s)
  <2>0. r \in Readers /\ UNCHANGED <<chan, given, count, sending>> BY <1>4, <1>t DEF Forward
  <2>1. ASSUME NEW s \in Readers, s # r PROVE Good(s) BY <1>4, <1>u, <2>1 DEF Forward, IInv, TypeOK
  <2>2. /\ hold[r] # <<>> /\ hold'[r] = Tail(hold[r])
        /\ queue'[r] \in {queue[r], Append(queue[r], Head(hold[r]))}
    BY <1>4 DEF Forward, IInv, TypeOK
  <2>3. Pipe(given[r], chan[r], OfferedTo(r), queue'[r], hold'[r])
    BY <1>0, <1>t, <1>i, <2>0, <2>2, ForwardedOne
  <2> QED BY <1>i, <1>o, <2>0, <2>1, <2>3
<1>5. ASSUME NEW r \in Translators, Dispatch(r) PROVE \A s \in Readers : Good(s)
  <2>0. r \in Readers /\ UNCHANGED <<chan, hold, count, sending>> BY <1>5, <1>t DEF Dispatch
  <2>1. ASSUME NEW s \in Readers, s # r PROVE Good(s)
    BY <1>5, <1>u, <2>1 DEF Dispatch, Give, IInv, TypeOK
  <2>2. /\ queue[r] # <<>> /\ queue'[r] = Tail(queue[r])
        /\ given'[r] = [given[r] EXCEPT ![Head(queue[r]).p] = Head(queue[r]).n]
    BY <1>5, <2>0 DEF Dispatch, Give, IInv, TypeOK
  <2>3. /\ Ordered(given'[r], chan[r], OfferedTo(r))
        /\ Pipe(given'[r], chan[r], OfferedTo(r), Tail(queue[r]), hold[r])
    BY <1>0, <1>t, <1>i, <2>0, <2>2, DispatchedOne
  <2> QED BY <1>o, <2>0, <2>1, <2>2, <2>3
<1>6. ASSUME NEW r \in Plain, Harvest(r) PROVE \A s \in Readers : Good(s)
  <2>0. r \in Readers /\ r \notin Translators /\ UNCHANGED <<queue, hold, count, sending>>
    BY <1>6, BusAssumption DEF Harvest, Readers
  <2>1. CASE chan[r] # <<>>
    <3>1. ASSUME NEW s \in Readers, s # r PROVE Good(s)
      BY <1>6, <1>u, <2>1, <3>1 DEF Harvest, Give, IInv, TypeOK
    <3>2. Head(chan[r]) \in Items /\ Head(chan[r]).p \in Publishers /\ Head(chan[r]).n \in Nat
      BY <1>t, <2>0, <2>1, Shortened DEF Items
    <3>3. /\ chan'[r] = Tail(chan[r])
          /\ given' = [given EXCEPT ![r][Head(chan[r]).p] = Span(Head(chan[r]).n)]
      BY <1>6, <2>0, <2>1 DEF Harvest, Give, Item, Span, IInv, TypeOK
    <3>4. given'[r] = [given[r] EXCEPT ![Head(chan[r]).p] = Span(Head(chan[r]).n)]
      BY <2>0, <3>3 DEF IInv, TypeOK
    <3>5. Ordered(given'[r], Tail(chan[r]), OfferedTo(r))
      BY <1>0, <1>t, <1>i, <2>0, <2>1, <3>4, HarvestedOne
    <3> QED BY <1>o, <2>0, <3>1, <3>3, <3>5
  <2>2. CASE chan[r] = <<>>
    <3>1. UNCHANGED <<chan, given, queue, hold>> BY <1>6, <2>2 DEF Harvest
    <3> QED BY <1>1, <3>1
  <2> QED BY <2>1, <2>2
<1>7. \/ \E p \in Publishers, r \in Readers : Offer(p, r)
      \/ \E r \in Translators : Receive(r) \/ Forward(r) \/ Dispatch(r)
      \/ \E r \in Plain : Harvest(r)
      \/ UNCHANGED <<chan, given, queue, hold>>
  BY DEF Next, vars, Publish, Subscribe, Exit, Unsubscribe, Cancel, Close
<1> QED BY <1>1, <1>2, <1>3, <1>4, <1>5, <1>6, <1>7

LEMMA StepInv == IInv /\ [Next]_vars => IInv'
<1> SUFFICES ASSUME IInv, [Next]_vars PROVE IInv' OBVIOUS
<1>1. TypeOK' BY TypeStep DEF IInv
<1>2. ChannelPhase' /\ SendsAreSafe' BY ChannelStep DEF IInv
<1>3. SendingCounted' /\ ChanOrdered' /\ QueueOrdered' BY <1>1, OrderStep
<1> QED BY <1>1, <1>2, <1>3 DEF IInv

-----------------------------------------------------------------------------
(* The theorems.                                                             *)

\* The inductive invariant holds in every reachable state.
THEOREM Invariance == Spec => []IInv
BY InitInv, StepInv, PTL DEF Spec

\* Every state of the bus and its readers has its type.
THEOREM TypeCorrect == Spec => []TypeOK
<1>1. IInv => TypeOK BY DEF IInv
<1> QED BY <1>1, Invariance, PTL

\* Publish never sends on a channel that Close has closed or that has left the bus.
THEOREM SafeSends == Spec => []SendsAreSafe
<1>1. IInv => SendsAreSafe BY DEF IInv
<1> QED BY <1>1, Invariance, PTL
\* A step of the bus or of a reader is a step of the feed, or none: publishing
\* publishes, and dispatching or harvesting gives an item that is newer than those
\* before it and has been published.
LEMMA FeedStep == IInv /\ [Next]_vars =>
  [Feed!Next]_<<[p \in Publishers |-> Fan * count[p]], given>>
<1> SUFFICES ASSUME IInv, [Next]_vars
             PROVE  \/ Feed!Next
                    \/ UNCHANGED <<[p \in Publishers |-> Fan * count[p]], given>>
  OBVIOUS
<1>t. /\ \A r \in Readers : chan[r] \in Seq(Items) /\ given[r] \in [Publishers -> Nat]
      /\ \A r \in Translators : queue[r] \in Seq(Items) /\ r \in Readers
      /\ count \in [Publishers -> Nat] /\ Fan \in Nat
  BY BusAssumption DEF IInv, TypeOK, Readers, Items
<1>o. \A r \in Readers, p \in Publishers :
        Span(OfferedTo(r)[p]) <= Fan * count[p] /\ Fan * count[p] \in Nat /\ OfferedTo(r)[p] \in Nat
  <2> SUFFICES ASSUME NEW r \in Readers, NEW p \in Publishers
               PROVE  Span(OfferedTo(r)[p]) <= Fan * count[p] /\ Fan * count[p] \in Nat
                      /\ OfferedTo(r)[p] \in Nat
    OBVIOUS
  <2>1. OfferedTo(r)[p] \in Nat /\ OfferedTo(r)[p] <= count[p] /\ count[p] \in Nat
    BY <1>t DEF OfferedTo, IInv, SendingCounted
  <2> QED BY <2>1, Spans
<1>1. ASSUME NEW p \in Publishers, Publish(p) PROVE Feed!Next
  <2>1. count' = [count EXCEPT ![p] = @ + 1] /\ given' = given BY <1>1 DEF Publish
  <2>2. Fan * (count[p] + 1) = Fan * count[p] + Fan BY <1>t
  <2>3. [q \in Publishers |-> Fan * count'[q]]
          = [[q \in Publishers |-> Fan * count[q]] EXCEPT ![p] = @ + Fan]
    BY <1>t, <2>1, <2>2
  <2> QED BY <2>1, <2>3 DEF Feed!Next, Feed!Publish
<1>2. ASSUME NEW r \in Readers, NEW p \in Publishers, NEW n \in Nat, given[r][p] < n,
             n <= Fan * count[p], given' = [given EXCEPT ![r][p] = n], count' = count
      PROVE  Feed!Next
  <2>1. n \in 1..(Fan * count[p]) BY <1>2, <1>t, <1>o
  <2> QED BY <1>2, <2>1 DEF Feed!Next, Feed!Give
<1>3. ASSUME NEW r \in Translators, Dispatch(r) PROVE Feed!Next
  <2> DEFINE e == Head(queue[r])
  <2>1. queue[r] # <<>> /\ given' = [given EXCEPT ![r][e.p] = e.n] /\ count' = count
    BY <1>3 DEF Dispatch, Give
  <2>2. 1 \in DOMAIN queue[r] /\ e = queue[r][1] /\ e.p \in Publishers /\ e.n \in Nat
    BY <1>t, <2>1, Shortened DEF Items
  <2>3. given[r][e.p] < e.n /\ e.n <= Span(OfferedTo(r)[e.p])
    BY <2>2 DEF IInv, QueueOrdered, Pipe, Pending
  <2> HIDE DEF e
  <2>4. /\ OfferedTo(r)[e.p] \in Nat /\ Span(OfferedTo(r)[e.p]) \in Nat /\ Fan * count[e.p] \in Nat
        /\ Span(OfferedTo(r)[e.p]) <= Fan * count[e.p] /\ given[r][e.p] \in Nat
    BY <1>t, <1>o, <2>2, Spans
  <2>5. e.n <= Fan * count[e.p] BY <2>2, <2>3, <2>4
  <2> QED BY <1>2, <1>t, <2>1, <2>2, <2>3, <2>5
<1>4. ASSUME NEW r \in Plain, Harvest(r), chan[r] # <<>> PROVE Feed!Next
  <2> DEFINE e == Head(chan[r])
  <2>0. r \in Readers BY DEF Readers
  <2>1. given' = [given EXCEPT ![r][e.p] = Span(e.n)] /\ count' = count
    BY <1>4 DEF Harvest, Give, Item, Span
  <2>2. 1 \in DOMAIN chan[r] /\ e = chan[r][1] /\ e.p \in Publishers /\ e.n \in Nat
    BY <1>4, <1>t, <2>0, Shortened DEF Items
  <2>3. e.n \in 1..OfferedTo(r)[e.p] /\ given[r][e.p] <= Span(e.n - 1)
    BY <2>0, <2>2 DEF IInv, ChanOrdered, Ordered
  <2> HIDE DEF e
  <2>4. /\ OfferedTo(r)[e.p] \in Nat /\ Span(OfferedTo(r)[e.p]) \in Nat /\ Fan * count[e.p] \in Nat
        /\ Span(OfferedTo(r)[e.p]) <= Fan * count[e.p] /\ given[r][e.p] \in Nat
    BY <1>t, <1>o, <2>0, <2>2, Spans
  <2>5. e.n \in Nat \ {0} /\ e.n - 1 \in Nat /\ e.n <= OfferedTo(r)[e.p] BY <2>2, <2>3, <2>4
  <2>6. Span(e.n) \in Nat /\ Span(e.n - 1) \in Nat /\ Span(e.n - 1) < Span(e.n)
    <3>1. Span(e.n) = Span(e.n - 1) + Fan BY <2>5, Spans
    <3>2. Span(e.n) \in Nat /\ Span(e.n - 1) \in Nat BY <2>5, Spans
    <3> QED BY <3>1, <3>2, BusAssumption
  <2>7. Span(e.n) <= Span(OfferedTo(r)[e.p]) BY <2>4, <2>5, Spans
  <2>8. given[r][e.p] < Span(e.n) /\ Span(e.n) <= Fan * count[e.p] BY <2>3, <2>4, <2>6, <2>7
  <2> QED BY <1>2, <2>0, <2>1, <2>2, <2>6, <2>8
<1>5. \/ \E p \in Publishers : Publish(p)
      \/ \E r \in Translators : Dispatch(r)
      \/ \E r \in Plain : Harvest(r) /\ chan[r] # <<>>
      \/ UNCHANGED <<count, given>>
  BY DEF Next, vars, Offer, Subscribe, Receive, Forward, Exit, Unsubscribe, Cancel, Harvest, Close
<1> QED BY <1>1, <1>3, <1>4, <1>5

\* The bus with its translators and plain readers implements the feed.
THEOREM Refinement == Spec => ImplementsFeed
<1>1. Init => Feed!Init
  <2>1. ASSUME Init PROVE [p \in Publishers |-> Fan * count[p]] = [p \in Publishers |-> 0]
    BY <2>1, BusAssumption DEF Init
  <2> QED BY <2>1 DEF Init, Feed!Init
<1> QED BY <1>1, Invariance, FeedStep, PTL DEF Spec, ImplementsFeed, Feed!Spec
=============================================================================
