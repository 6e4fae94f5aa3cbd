------------------------------ MODULE EventBus ------------------------------
(***************************************************************************)
(* The host's event bus (event/bus.go) and the two ways its events are      *)
(* read: the translator of an interpreter (runtime/dsl_events.go), which    *)
(* turns each event into up to Fan routine events and offers them to the    *)
(* interpreter's queue (drained by dispatchPendingEvents), and a plain      *)
(* reader of one kind (harvestDecisions of runtime/hybrid_director.go).     *)
(*                                                                         *)
(* Publish holds the read lock while it offers the event to one channel     *)
(* after another, so publishers overlap each other but not Subscribe,       *)
(* Unsubscribe or Close, which take the write lock.  Every offer is         *)
(* non-blocking.  An event is its publisher and its number there; each      *)
(* publisher publishes events of one kind.                                  *)
(***************************************************************************)
EXTENDS Naturals, Sequences, FiniteSets

CONSTANTS
  Publishers,    \* goroutines that publish, each events of its own kind
  Translators,   \* runs of an interpreter: "*" subscribers
  Plain,         \* plain readers
  Of,            \* per plain reader, the publisher whose kind it reads
  Buffer,        \* capacity of a subscriber's channel
  QueueCap,      \* capacity of it.Events
  Fan,           \* routine events one event may become
  MaxEvents      \* events of one publisher (a bound)

Readers == Translators \union Plain

ASSUME BusAssumption ==
  /\ Translators \cap Plain = {}
  /\ Of \in [Plain -> Publishers]
  /\ {Buffer, QueueCap, MaxEvents} \subseteq Nat
  /\ Fan \in Nat \ {0}

VARIABLES
  closed,     \* b.closed
  subs,       \* channels in b.subscribers
  shut,       \* channels that have been closed
  chan,       \* per reader, its channel
  count,      \* per publisher, events published
  sending,    \* per publisher, channels its Publish has still to offer to
  pc,         \* per reader, where its goroutine is
  done,       \* translators whose context is done
  hold,       \* per translator, routine events it is forwarding
  queue,      \* per translator, it.Events of its interpreter
  given       \* per reader and publisher, the newest item it was given

vars == <<closed, subs, shut, chan, count, sending, pc, done, hold, queue, given>>

Item(p, n) == [p |-> p, n |-> n]
RLocked == \E p \in Publishers : sending[p] # {}

-----------------------------------------------------------------------------
(* The bus.                                                                  *)

\* The channels Publish offers an event of p to: those of its kind, then "*".
Audience(p) == {r \in subs : r \in Plain => Of[r] = p}

\* Publish takes the read lock.  A closed bus, and one without subscribers,
\* is left at once.
Publish(p) ==
  /\ sending[p] = {} /\ count[p] < MaxEvents
  /\ count' = [count EXCEPT ![p] = @ + 1]
  /\ sending' = [sending EXCEPT ![p] = IF closed THEN {} ELSE Audience(p)]
  /\ UNCHANGED <<closed, subs, shut, chan, pc, done, hold, queue, given>>

\* One non-blocking send.  The order within a kind is the order of
\* subscription; readers cannot tell, so any is taken, kinds before "*".
Offer(p, r) ==
  /\ r \in sending[p]
  /\ r \in Translators => sending[p] \cap Plain = {}
  /\ chan' = [chan EXCEPT ![r] =
       IF Len(@) < Buffer THEN Append(@, Item(p, count[p])) ELSE @]
  /\ sending' = [sending EXCEPT ![p] = @ \ {r}]
  /\ UNCHANGED <<closed, subs, shut, count, pc, done, hold, queue, given>>

\* Subscribe: a closed bus answers with a channel that is closed already.
Subscribe(r) ==
  /\ pc[r] = "new" /\ ~RLocked
  /\ IF closed THEN shut' = shut \union {r} /\ UNCHANGED subs
               ELSE subs' = subs \union {r} /\ UNCHANGED shut
  /\ pc' = [pc EXCEPT ![r] = "read"]
  /\ UNCHANGED <<closed, chan, count, sending, done, hold, queue, given>>

\* The mutant returns without unsubscribing.
UnsubscribeNot(r) ==
  /\ pc[r] = "exit" /\ ~RLocked
  /\ pc' = [pc EXCEPT ![r] = "gone"]
  /\ UNCHANGED <<closed, subs, shut, chan, count, sending, done, hold, queue, given>>

\* The translator's deferred Unsubscribe; the channel is not closed.
Unsubscribe(r) ==
  /\ pc[r] = "exit" /\ ~RLocked
  /\ subs' = subs \ {r}
  /\ pc' = [pc EXCEPT ![r] = "gone"]
  /\ UNCHANGED <<closed, shut, chan, count, sending, done, hold, queue, given>>

\* The mutant closes the channels under the read lock.
CloseShared ==
  /\ ~closed
  /\ closed' = TRUE
  /\ shut' = shut \union subs
  /\ subs' = {}
  /\ UNCHANGED <<chan, count, sending, pc, done, hold, queue, given>>

Close ==
  /\ ~closed /\ ~RLocked
  /\ closed' = TRUE
  /\ shut' = shut \union subs
  /\ subs' = {}
  /\ UNCHANGED <<chan, count, sending, pc, done, hold, queue, given>>

-----------------------------------------------------------------------------
(* The readers.                                                              *)

Give(r, i) == given' = [given EXCEPT ![r][i.p] = i.n]

\* The routine events of the event: up to Fan of them, numbered in order.
translateEvents(e) ==
  {[j \in 1..k |-> Item(e.p, (e.n - 1) * Fan + j)] : k \in 0..Fan}

\* The translator's select: a received event, a closed channel or a done
\* context; Go picks any that is ready.
Receive(r) ==
  /\ pc[r] = "read" /\ hold[r] = <<>> /\ chan[r] # <<>>
  /\ \E out \in translateEvents(Head(chan[r])) : hold' = [hold EXCEPT ![r] = out]
  /\ chan' = [chan EXCEPT ![r] = Tail(@)]
  /\ UNCHANGED <<closed, subs, shut, count, sending, pc, done, queue, given>>

Exit(r) ==
  /\ pc[r] = "read" /\ hold[r] = <<>>
  /\ r \in done \/ (r \in shut /\ chan[r] = <<>>)
  /\ pc' = [pc EXCEPT ![r] = "exit"]
  /\ UNCHANGED <<closed, subs, shut, chan, count, sending, done, hold, queue, given>>

\* The mutant offers the routine events of one event in reverse.
ForwardReversed(r) ==
  /\ hold[r] # <<>>
  /\ queue' = [queue EXCEPT ![r] =
       IF Len(@) < QueueCap THEN Append(@, hold[r][Len(hold[r])]) ELSE @]
  /\ hold' = [hold EXCEPT ![r] = SubSeq(@, 1, Len(@) - 1)]
  /\ UNCHANGED <<closed, subs, shut, chan, count, sending, pc, done, given>>

\* One routine event is offered to the interpreter; a full queue drops it.
Forward(r) ==
  /\ hold[r] # <<>>
  /\ queue' = [queue EXCEPT ![r] =
       IF Len(@) < QueueCap THEN Append(@, Head(hold[r])) ELSE @]
  /\ hold' = [hold EXCEPT ![r] = Tail(@)]
  /\ UNCHANGED <<closed, subs, shut, chan, count, sending, pc, done, given>>

\* dispatchPendingEvents takes an event off the queue.
Dispatch(r) ==
  /\ queue[r] # <<>>
  /\ Give(r, Head(queue[r]))
  /\ queue' = [queue EXCEPT ![r] = Tail(@)]
  /\ UNCHANGED <<closed, subs, shut, chan, count, sending, pc, done, hold>>

\* The run ends: its context is cancelled.
Cancel(r) ==
  /\ r \notin done
  /\ done' = done \union {r}
  /\ UNCHANGED <<closed, subs, shut, chan, count, sending, pc, hold, queue, given>>

\* harvestDecisions: what the channel holds, or forget a closed one and
\* subscribe again next time.
Harvest(r) ==
  /\ pc[r] = "read"
  /\ \/ /\ chan[r] # <<>>
        /\ Give(r, Item(Head(chan[r]).p, Head(chan[r]).n * Fan))
        /\ chan' = [chan EXCEPT ![r] = Tail(@)]
        /\ UNCHANGED <<pc, shut>>
     \/ /\ chan[r] = <<>> /\ r \in shut
        /\ pc' = [pc EXCEPT ![r] = "new"]
        /\ shut' = shut \ {r}
        /\ UNCHANGED <<chan, given>>
  /\ UNCHANGED <<closed, subs, count, sending, done, hold, queue>>

-----------------------------------------------------------------------------
Init ==
  /\ closed = FALSE /\ subs = {} /\ shut = {}
  /\ chan = [r \in Readers |-> <<>>]
  /\ count = [p \in Publishers |-> 0]
  /\ sending = [p \in Publishers |-> {}]
  /\ pc = [r \in Readers |-> "new"]
  /\ done = {}
  /\ hold = [r \in Translators |-> <<>>]
  /\ queue = [r \in Translators |-> <<>>]
  /\ given = [r \in Readers |-> [p \in Publishers |-> 0]]

Next ==
  \/ \E p \in Publishers : Publish(p) \/ \E r \in Readers : Offer(p, r)
  \/ \E r \in Readers : Subscribe(r)
  \/ \E r \in Translators :
       Receive(r) \/ Forward(r) \/ Exit(r) \/ Unsubscribe(r) \/ Dispatch(r) \/ Cancel(r)
  \/ \E r \in Plain : Harvest(r)
  \/ Close

Spec == Init /\ [][Next]_vars

\* A publisher in Publish and a translator are running goroutines; nothing
\* obliges a run to end, a bus to close or anyone to publish.
FairSpec ==
  /\ Spec
  /\ \A p \in Publishers : \A r \in Readers : WF_vars(Offer(p, r))
  /\ \A r \in Translators :
       WF_vars(Receive(r)) /\ WF_vars(Forward(r)) /\ WF_vars(Exit(r)) /\ SF_vars(Unsubscribe(r))

-----------------------------------------------------------------------------
(* Properties.                                                               *)

TypeOK ==
  /\ closed \in BOOLEAN
  /\ subs \subseteq Readers /\ shut \subseteq Readers /\ done \subseteq Translators
  /\ chan \in [Readers -> Seq([p : Publishers, n : Nat])]
  /\ count \in [Publishers -> Nat]
  /\ sending \in [Publishers -> SUBSET Readers]
  /\ pc \in [Readers -> {"new", "read", "exit", "gone"}]
  /\ hold \in [Translators -> Seq([p : Publishers, n : Nat])]
  /\ queue \in [Translators -> Seq([p : Publishers, n : Nat])]
  /\ given \in [Readers -> [Publishers -> Nat]]

\* No send on a closed channel (a panic of the whole process): a Publish in
\* progress never holds a channel that Close has closed, nor one whose reader
\* has unsubscribed.
SendsAreSafe ==
  \A p \in Publishers : sending[p] \subseteq subs /\ sending[p] \cap shut = {}

\* The bus implements the feed: per publisher every reader is given items
\* once, in order, whatever is dropped, and whoever subscribes, leaves or
\* closes meanwhile.
Feed == INSTANCE EventFeed WITH issued <- [p \in Publishers |-> Fan * count[p]]
ImplementsFeed == Feed!Spec

\* The translator of a run that has ended leaves the bus (the leak the code
\* fixed once: a dead channel per turn).
TranslatorLeaves ==
  \A r \in Translators : (r \in done /\ pc[r] # "new") ~> (r \notin subs)

=============================================================================
