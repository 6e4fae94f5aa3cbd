---------------------------- MODULE TieredMemory ----------------------------
(***************************************************************************)
(* The host's tiered memory (src/memory/manager.go): a scratch cache, the   *)
(* local store (src/hostkv) and the remote tier, with the write-back        *)
(* journal that carries local writes up to the remote.  Callers put, get    *)
(* and delete keys; one goroutine (src/runtime/memory_journal.go) flushes   *)
(* the journal; the remote comes and goes and its calls fail; the process   *)
(* crashes and starts again on what its store kept.                         *)
(*                                                                         *)
(* One access to a tier, or one critical section of mu, is a step.  A value *)
(* is the number of the write that made it, 0 is an absent key, so a larger *)
(* value of a key is a later one.  Journal entry n is the store key         *)
(* "\x00journal:n".  The local store is on disk (Pebble), or in memory when *)
(* RunHost has no directory or cannot open it (runhost.go:56-102, 333-349). *)
(* On disk its writes become durable in order, some time after they return, *)
(* and a crash loses the ones that have not; in memory a crash loses all.   *)
(* Once the store is closed (a host's teardown races its own goroutines)    *)
(* its operations fail and its keys read as absent.                         *)
(***************************************************************************)
EXTENDS Integers, FiniteSets

CONSTANTS
  Keys, Callers,
  NoKey,       \* not a key
  Users,       \* the callers that use a key
  Deleters,    \* the callers that delete
  Policies,    \* the policies a host may be built with: each key's read and write mode
  MaxWrites,   \* bound: Puts in a behaviour ...
  MaxPuts,     \* ... and, of these, to a key of each write mode
  MaxCrashes   \* bound: crashes in a behaviour

Reads == {"cached", "fresh", "local", "remote"}
Writes == {"around", "back", "through", "authoritative"}

ASSUME KeysAssumption == NoKey \notin Keys
ASSUME CallersAssumption == IsFiniteSet(Callers)
ASSUME UsersAssumption == Users \in [Keys -> SUBSET Callers] /\ Deleters \subseteq Callers
ASSUME PoliciesAssumption == Policies \subseteq [Keys -> [read : Reads, write : Writes]]
ASSUME BoundsAssumption ==
  MaxWrites \in Nat /\ MaxCrashes \in Nat /\ MaxPuts \in [Writes -> 0 .. MaxWrites]

VARIABLES
  policy,                \* m.policy, given to New and never changed
  onDisk,                \* whether m.local is on disk; never changed
  scratch, neg,          \* L0: cached values, and tombstones of remote misses
  local, closed,         \* L1: the local store, and whether it is closed
  jkey, jval,            \* the journal in the local store: entry n's key and value
  remote, healthy,       \* L2 and whether it answers
  seq, byKey,            \* m.seq and m.journalByKey (0: no entry)
  pc, key, mode, val,    \* a caller's place in its call, and what the call is about
  jk, stale,             \* the journal entries of its enqueueJournal
  fpc, fkeys, fcur, fkey, fval,  \* the flusher: entries to do, and the one in hand
  dLocal, dJkey, dJval, dAcked,  \* the local store, and acked, as a crash leaves them
  writes, crashes,
  acked,                 \* history: the latest value of a key whose Put succeeded
  gone                   \* history: keys deleted in every tier and not put since

Value == 0 .. MaxWrites
Entry == 1 .. MaxWrites

setup == <<policy, onDisk>>
cacheVars == <<scratch, neg>>
localVars == <<local, closed>>
journalVars == <<jkey, jval>>
remoteVars == <<remote, healthy>>
indexVars == <<seq, byKey>>
callVars == <<pc, key, mode, val, jk, stale>>
flushVars == <<fpc, fkeys, fcur, fkey, fval>>
diskVars == <<dLocal, dJkey, dJval, dAcked>>
countVars == <<writes, crashes>>
vars == <<setup, cacheVars, localVars, journalVars, remoteVars, indexVars, callVars,
          flushVars, diskVars, countVars, acked, gone>>

PendingOf(k) == {n \in Entry : jkey[n] = k}
Pending == {n \in Entry : jkey[n] # NoKey}

\* Store.Keys(journalPrefix): on disk it passes over every key that begins with \x00, and
\* so lists none of the entries the store has.
Listing(journal) == IF onDisk THEN {} ELSE {n \in Entry : journal[n] # NoKey}

\* The modes of a key's class (Policy.resolve).
ReadMode(k) == policy[k].read
WriteMode(k) == policy[k].write

Init ==
  /\ policy \in Policies /\ onDisk \in BOOLEAN
  /\ scratch = [k \in Keys |-> 0] /\ neg = {} /\ local = [k \in Keys |-> 0]
  /\ closed = FALSE
  /\ jkey = [n \in Entry |-> NoKey] /\ jval = [n \in Entry |-> 0]
  /\ remote = [k \in Keys |-> 0] /\ healthy \in BOOLEAN
  /\ seq = 0 /\ byKey = [k \in Keys |-> 0]
  /\ pc = [c \in Callers |-> "idle"] /\ key = [c \in Callers |-> NoKey]
  /\ mode = [c \in Callers |-> "none"] /\ val = [c \in Callers |-> 0]
  /\ jk = [c \in Callers |-> 0] /\ stale = [c \in Callers |-> 0]
  /\ fpc = "idle" /\ fkeys = {} /\ fcur = 0 /\ fkey = NoKey /\ fval = 0
  /\ writes = 0 /\ crashes = 0 /\ acked = [k \in Keys |-> 0] /\ gone = {}
  /\ dLocal = local /\ dJkey = jkey /\ dJval = jval /\ dAcked = acked

\* The caller's next step, with or without a new value in hand; the end of its call,
\* when its variables are gone; and the answer of a Get, on its way to the caller.
Carry(c, where, v) ==
  /\ pc' = [pc EXCEPT ![c] = where] /\ val' = [val EXCEPT ![c] = v]
  /\ key' = key /\ mode' = mode /\ jk' = jk /\ stale' = stale

Goto(c, where) == Carry(c, where, val[c])

Return(c) ==
  /\ pc' = [pc EXCEPT ![c] = "idle"] /\ key' = [key EXCEPT ![c] = NoKey]
  /\ mode' = [mode EXCEPT ![c] = "none"] /\ val' = [val EXCEPT ![c] = 0]
  /\ jk' = [jk EXCEPT ![c] = 0] /\ stale' = [stale EXCEPT ![c] = 0]

Answer(c, v) == Carry(c, "got", v)

-----------------------------------------------------------------------------
(* Put. *)

\* A write-back or write-through Put writes the local store first, the other two the
\* scratch cache.
PutBegin(c, k) ==
  /\ pc[c] = "idle" /\ c \in Users[k] /\ writes < MaxPuts[WriteMode(k)]
  /\ writes' = writes + 1
  /\ key' = [key EXCEPT ![c] = k] /\ val' = [val EXCEPT ![c] = writes + 1]
  /\ mode' = [mode EXCEPT ![c] = WriteMode(k)]
  /\ pc' = [pc EXCEPT ![c] = IF WriteMode(k) \in {"back", "through"} THEN "putLocal"
                             ELSE "putScratch"]
  /\ gone' = gone \ {k}
  /\ UNCHANGED <<setup, cacheVars, localVars, journalVars, remoteVars, indexVars, jk,
                 stale, flushVars, diskVars, crashes, acked>>

\* A closed store fails the Put, except of a key whose local copy is only a projection.
PutLocal(c) ==
  /\ pc[c] = "putLocal"
  /\ local' = IF closed THEN local ELSE [local EXCEPT ![key[c]] = val[c]]
  /\ \/ mode[c] = "authoritative" /\ Goto(c, "putRemote")
     \/ mode[c] # "authoritative" /\ ~closed /\ Goto(c, "putScratch")
     \/ mode[c] # "authoritative" /\ closed /\ Return(c)
  /\ UNCHANGED <<setup, cacheVars, closed, journalVars, remoteVars, indexVars,
                 flushVars, diskVars, countVars, acked, gone>>

ScratchSkipped(c) == scratch
ScratchAfterPut(c) == [scratch EXCEPT ![key[c]] = val[c]]

PutScratch(c) ==
  /\ pc[c] = "putScratch"
  /\ scratch' = ScratchAfterPut(c)
  /\ \/ mode[c] = "around" /\ Return(c)
     \/ mode[c] = "authoritative" /\ Goto(c, "putLocal")
     \/ mode[c] = "through" /\ Goto(c, "putRemote")
     \/ mode[c] = "back" /\ Goto(c, "enqueue")
  /\ UNCHANGED <<setup, neg, localVars, journalVars, remoteVars, indexVars, flushVars,
                 diskVars, countVars, acked, gone>>

\* The synchronous write.  A call that fails may still have been applied.
PutRemote(c) ==
  /\ pc[c] = "putRemote"
  /\ \/ /\ ~healthy
        /\ Goto(c, "enqueue") /\ UNCHANGED <<remote, acked>>
     \/ /\ healthy
        /\ remote' = [remote EXCEPT ![key[c]] = val[c]]
        /\ acked' = [acked EXCEPT ![key[c]] = val[c]]
        /\ Return(c)
     \/ /\ healthy
        /\ remote' \in {remote, [remote EXCEPT ![key[c]] = val[c]]}
        /\ IF mode[c] = "authoritative" THEN Goto(c, "enqueue")
           ELSE Return(c)
        /\ UNCHANGED acked
  /\ UNCHANGED <<setup, cacheVars, localVars, journalVars, healthy, indexVars,
                 flushVars, diskVars, countVars, gone>>

\* enqueueJournal: a new entry number and the entry it supersedes, under mu ...
NothingStale(k) == 0
StaleEntry(k) == byKey[k]

Enqueue(c) ==
  /\ pc[c] = "enqueue"
  /\ seq' = seq + 1
  /\ jk' = [jk EXCEPT ![c] = seq + 1]
  /\ stale' = [stale EXCEPT ![c] = StaleEntry(key[c])]
  /\ byKey' = [byKey EXCEPT ![key[c]] = seq + 1]
  /\ pc' = [pc EXCEPT ![c] = "store"]
  /\ UNCHANGED <<setup, cacheVars, localVars, journalVars, remoteVars, key, mode, val,
                 flushVars, diskVars, countVars, acked, gone>>

\* ... then the entry is stored, and then the superseded one dropped.
StoreEntry(c) ==
  /\ pc[c] = "store"
  /\ \/ /\ ~closed
        /\ jkey' = [jkey EXCEPT ![jk[c]] = key[c]]
        /\ jval' = [jval EXCEPT ![jk[c]] = val[c]]
        /\ Goto(c, "compact")
     \/ closed /\ Return(c) /\ UNCHANGED <<jkey, jval>>
  /\ UNCHANGED <<setup, cacheVars, localVars, remoteVars, indexVars, flushVars,
                 diskVars, countVars, acked, gone>>

\* The journal without entry n (0: no entry), unless the store is closed.
Dropped(n) ==
  /\ jkey' = [m \in Entry |-> IF m = n /\ ~closed THEN NoKey ELSE jkey[m]]
  /\ jval' = [m \in Entry |-> IF m = n /\ ~closed THEN 0 ELSE jval[m]]

Compact(c) ==
  /\ pc[c] = "compact"
  /\ Dropped(stale[c])
  /\ acked' = [acked EXCEPT ![key[c]] = val[c]]
  /\ Return(c)
  /\ UNCHANGED <<setup, cacheVars, localVars, remoteVars, indexVars, flushVars,
                 diskVars, countVars, gone>>

-----------------------------------------------------------------------------
(* Get and Delete. *)

\* A cached or local read starts at the caches, a fresh or remote one at the remote.
GetBegin(c, k) ==
  /\ pc[c] = "idle" /\ c \in Users[k]
  /\ key' = [key EXCEPT ![c] = k] /\ mode' = [mode EXCEPT ![c] = ReadMode(k)]
  /\ pc' = [pc EXCEPT ![c] = IF ReadMode(k) \in {"cached", "local"} THEN "getScratch"
                             ELSE "getRemote"]
  /\ UNCHANGED <<setup, cacheVars, localVars, journalVars, remoteVars, indexVars, val,
                 jk, stale, flushVars, diskVars, countVars, acked, gone>>

\* The tombstone of a cached read, then the scratch cache.
GetScratch(c) ==
  /\ pc[c] = "getScratch"
  /\ LET k == key[c] IN
       \/ mode[c] = "cached" /\ k \in neg /\ Answer(c, 0)
       \/ /\ ~(mode[c] = "cached" /\ k \in neg)
          /\ IF scratch[k] # 0 THEN Answer(c, scratch[k])
             ELSE Goto(c, "getLocal")
  /\ UNCHANGED <<setup, cacheVars, localVars, journalVars, remoteVars, indexVars,
                 flushVars, diskVars, countVars, acked, gone>>

\* The local store; a hit is promoted.  A "local" read ends here.
GetLocal(c) ==
  /\ pc[c] = "getLocal"
  /\ LET v == IF closed THEN 0 ELSE local[key[c]] IN
       \/ v # 0 /\ Carry(c, "promote", v)
       \/ v = 0 /\ mode[c] = "local" /\ Answer(c, 0)
       \/ v = 0 /\ mode[c] # "local" /\ Goto(c, "getRemote")
  /\ UNCHANGED <<setup, cacheVars, localVars, journalVars, remoteVars, indexVars,
                 flushVars, diskVars, countVars, acked, gone>>

\* A class without a TTL keeps no tombstones.
HasTTL(k) == ReadMode(k) \in {"cached", "fresh"}

\* The remote read: a hit is installed in the tiers below, a miss leaves a tombstone,
\* an error ends the call.  A fresh read that got no answer falls back to the caches.
FallBack(c) ==
  /\ mode[c] = "fresh" /\ UNCHANGED <<key, val, jk, stale>>
  /\ mode' = [mode EXCEPT ![c] = "local"] /\ pc' = [pc EXCEPT ![c] = "getScratch"]

Unanswered(c) == FallBack(c) \/ (mode[c] # "fresh" /\ Answer(c, 0))

GetRemote(c) ==
  /\ pc[c] = "getRemote"
  /\ LET k == key[c] IN
       \/ ~healthy /\ Unanswered(c) /\ UNCHANGED neg
       \/ healthy /\ Return(c) /\ UNCHANGED neg
       \/ /\ healthy /\ remote[k] = 0 /\ Unanswered(c)
          /\ neg' = IF HasTTL(k) THEN neg \union {k} ELSE neg
       \/ healthy /\ remote[k] # 0 /\ Carry(c, "install", remote[k]) /\ UNCHANGED neg
  /\ UNCHANGED <<setup, scratch, localVars, journalVars, remoteVars, indexVars,
                 flushVars, diskVars, countVars, acked, gone>>

Install(c) ==
  /\ pc[c] = "install"
  /\ local' = IF closed THEN local ELSE [local EXCEPT ![key[c]] = val[c]]
  /\ Goto(c, "promote")
  /\ UNCHANGED <<setup, cacheVars, closed, journalVars, remoteVars, indexVars,
                 flushVars, diskVars, countVars, acked, gone>>

Promote(c) ==
  /\ pc[c] = "promote"
  /\ scratch' = [scratch EXCEPT ![key[c]] = val[c]]
  /\ Answer(c, val[c])
  /\ UNCHANGED <<setup, neg, localVars, journalVars, remoteVars, indexVars, flushVars,
                 diskVars, countVars, acked, gone>>

GetReturns(c) ==
  /\ pc[c] = "got"
  /\ Return(c)
  /\ UNCHANGED <<setup, cacheVars, localVars, journalVars, remoteVars, indexVars,
                 flushVars, diskVars, countVars, acked, gone>>

DeleteBegin(c, k) ==
  /\ pc[c] = "idle" /\ c \in Users[k] \intersect Deleters
  /\ key' = [key EXCEPT ![c] = k]
  /\ scratch' = [scratch EXCEPT ![k] = 0] /\ neg' = neg \ {k}
  /\ acked' = [acked EXCEPT ![k] = 0] /\ dAcked' = [dAcked EXCEPT ![k] = 0]
  /\ pc' = [pc EXCEPT ![c] = "delLocal"]
  /\ UNCHANGED <<setup, localVars, journalVars, remoteVars, indexVars, mode, val, jk,
                 stale, flushVars, dLocal, dJkey, dJval, countVars, gone>>

DeleteLocal(c) ==
  /\ pc[c] = "delLocal"
  /\ local' = IF closed THEN local ELSE [local EXCEPT ![key[c]] = 0]
  /\ Goto(c, "delRemote")
  /\ UNCHANGED <<setup, cacheVars, closed, journalVars, remoteVars, indexVars,
                 flushVars, diskVars, countVars, acked, gone>>

DeleteRemote(c) ==
  /\ pc[c] = "delRemote"
  /\ \/ ~healthy /\ UNCHANGED <<remote, gone>>
     \/ /\ healthy /\ remote' = [remote EXCEPT ![key[c]] = 0]
        /\ gone' = IF closed THEN gone ELSE gone \union {key[c]}
     \/ healthy /\ remote' \in {remote, [remote EXCEPT ![key[c]] = 0]} /\ UNCHANGED gone
  /\ Return(c)
  /\ UNCHANGED <<setup, cacheVars, localVars, journalVars, healthy, indexVars,
                 flushVars, diskVars, countVars, acked>>

-----------------------------------------------------------------------------
(* The flusher, the remote's health, expiry and crashes. *)

FlushBegin ==
  /\ fpc = "idle" /\ healthy
  /\ fpc' = "next" /\ fkeys' = IF closed THEN {} ELSE Listing(jkey)
  /\ UNCHANGED <<setup, cacheVars, localVars, journalVars, remoteVars, indexVars,
                 callVars, fcur, fkey, fval, diskVars, countVars, acked, gone>>

\* Oldest first.  An entry that has been compacted away since is passed over.
LatestFirst(n) == \A m \in fkeys : m <= n
OldestFirst(n) == \A m \in fkeys : n <= m

FlushTake ==
  /\ fpc = "next"
  /\ \/ fkeys = {} /\ fpc' = "idle" /\ UNCHANGED <<fkeys, fcur, fkey, fval>>
     \/ \E n \in fkeys :
          /\ OldestFirst(n)
          /\ fkeys' = fkeys \ {n}
          /\ IF closed \/ jkey[n] = NoKey THEN UNCHANGED <<fpc, fcur, fkey, fval>>
             ELSE fpc' = "put" /\ fcur' = n /\ fkey' = jkey[n] /\ fval' = jval[n]
  /\ UNCHANGED <<setup, cacheVars, localVars, journalVars, remoteVars, indexVars,
                 callVars, diskVars, countVars, acked, gone>>

\* The remote write; it may fail with or without effect, and a failure ends the flush.
FlushPutOK ==
  /\ fpc = "put" /\ fpc' = "drop"
  /\ remote' = [remote EXCEPT ![fkey] = fval]
  /\ UNCHANGED <<setup, cacheVars, localVars, journalVars, healthy, indexVars,
                 callVars, fkeys, fcur, fkey, fval, diskVars, countVars, acked, gone>>

SentAnyway == fpc' = "drop" /\ UNCHANGED <<fkeys, fcur, fkey, fval>>
AfterError == fpc' = "idle" /\ fkeys' = {} /\ fcur' = 0 /\ fkey' = NoKey /\ fval' = 0

FlushPutFails ==
  /\ fpc = "put" /\ AfterError
  /\ remote' \in {remote, [remote EXCEPT ![fkey] = fval]}
  /\ UNCHANGED <<setup, cacheVars, localVars, journalVars, healthy, indexVars,
                 callVars, diskVars, countVars, acked, gone>>

KeptAfterFlush == UNCHANGED <<jkey, jval>>
DropFlushed == Dropped(fcur)

FlushDrop ==
  /\ fpc = "drop"
  /\ DropFlushed
  /\ fpc' = "index"
  /\ UNCHANGED <<setup, cacheVars, localVars, remoteVars, indexVars, callVars, fkeys,
                 fcur, fkey, fval, diskVars, countVars, acked, gone>>

FlushIndex ==
  /\ fpc = "index"
  /\ byKey' = IF byKey[fkey] = fcur THEN [byKey EXCEPT ![fkey] = 0] ELSE byKey
  /\ fpc' = "next" /\ fcur' = 0 /\ fkey' = NoKey /\ fval' = 0
  /\ UNCHANGED <<setup, cacheVars, localVars, journalVars, remoteVars, seq, callVars,
                 fkeys, diskVars, countVars, acked, gone>>

HealthChanges ==
  /\ healthy' = ~healthy
  /\ UNCHANGED <<setup, cacheVars, localVars, journalVars, remote, indexVars, callVars,
                 flushVars, diskVars, countVars, acked, gone>>

\* A TTL runs out, or the cache is full.
Expire(k) ==
  /\ \/ scratch[k] # 0 /\ scratch' = [scratch EXCEPT ![k] = 0] /\ UNCHANGED neg
     \/ k \in neg /\ neg' = neg \ {k} /\ UNCHANGED scratch
  /\ UNCHANGED <<setup, localVars, journalVars, remoteVars, indexVars, callVars,
                 flushVars, diskVars, countVars, acked, gone>>

\* The store's log reaches the disk, if it has one; closing the store makes it.  (What
\* the disk has matters only while a crash can still come.)
Synced ==
  IF onDisk THEN dLocal' = local /\ dJkey' = jkey /\ dJval' = jval /\ dAcked' = acked
  ELSE UNCHANGED diskVars

Sync ==
  /\ onDisk /\ ~closed /\ crashes < MaxCrashes /\ Synced
  /\ UNCHANGED <<setup, cacheVars, localVars, journalVars, remoteVars, indexVars,
                 callVars, flushVars, countVars, acked, gone>>

Close ==
  /\ ~closed /\ closed' = TRUE /\ Synced
  /\ UNCHANGED <<setup, cacheVars, local, journalVars, remoteVars, indexVars, callVars,
                 flushVars, countVars, acked, gone>>

\* A crash, and New on what is left: the sequence number and the index start from the
\* journal entries the store lists, later ones winning.
Latest(S) == CHOOSE n \in 0 .. MaxWrites : (n = 0 \/ n \in S) /\ \A m \in S : m <= n

RecoveredSeq == Latest(Listing(dJkey))
RecoveredIndex(k) == Latest({n \in Listing(dJkey) : dJkey[n] = k})

Crash ==
  /\ crashes < MaxCrashes
  /\ crashes' = crashes + 1
  /\ closed' = FALSE
  /\ local' = dLocal /\ jkey' = dJkey /\ jval' = dJval /\ acked' = dAcked
  /\ scratch' = [k \in Keys |-> 0] /\ neg' = {}
  /\ seq' = RecoveredSeq
  /\ byKey' = [k \in Keys |-> RecoveredIndex(k)]
  /\ pc' = [c \in Callers |-> "idle"] /\ key' = [c \in Callers |-> NoKey]
  /\ mode' = [c \in Callers |-> "none"] /\ val' = [c \in Callers |-> 0]
  /\ jk' = [c \in Callers |-> 0] /\ stale' = [c \in Callers |-> 0]
  /\ fpc' = "idle" /\ fkeys' = {} /\ fcur' = 0 /\ fkey' = NoKey /\ fval' = 0
  /\ gone' = {}
  /\ UNCHANGED <<setup, remoteVars, diskVars, writes>>

-----------------------------------------------------------------------------
Call(c) == \E k \in Keys : PutBegin(c, k) \/ GetBegin(c, k) \/ DeleteBegin(c, k)

CallStep(c) ==
  \/ PutLocal(c) \/ PutScratch(c) \/ PutRemote(c)
  \/ Enqueue(c) \/ StoreEntry(c) \/ Compact(c)
  \/ GetScratch(c) \/ GetLocal(c) \/ GetRemote(c) \/ Install(c) \/ Promote(c)
  \/ GetReturns(c)
  \/ DeleteLocal(c) \/ DeleteRemote(c)

FlushStep == FlushTake \/ FlushPutOK \/ FlushPutFails \/ FlushDrop \/ FlushIndex

Next ==
  \/ \E c \in Callers : Call(c) \/ CallStep(c)
  \/ FlushBegin \/ FlushStep
  \/ HealthChanges \/ (\E k \in Keys : Expire(k)) \/ Sync \/ Close \/ Crash

Spec == Init /\ [][Next]_vars

\* The goroutines keep running, the flush ticker keeps firing, and a remote that is
\* asked again and again in the end takes a write.
Fairness ==
  /\ \A c \in Callers : WF_vars(CallStep(c))
  /\ WF_vars(FlushBegin) /\ WF_vars(FlushStep) /\ SF_vars(FlushPutOK)

FairSpec == Spec /\ Fairness

-----------------------------------------------------------------------------
(* Properties. *)

\* Every variable has its type.
TypeOK ==
  /\ policy \in Policies /\ onDisk \in BOOLEAN
  /\ scratch \in [Keys -> Value] /\ neg \subseteq Keys
  /\ local \in [Keys -> Value] /\ closed \in BOOLEAN
  /\ jkey \in [Entry -> Keys \union {NoKey}] /\ jval \in [Entry -> Value]
  /\ remote \in [Keys -> Value] /\ healthy \in BOOLEAN
  /\ seq \in 0 .. MaxWrites /\ byKey \in [Keys -> 0 .. MaxWrites]
  /\ pc \in [Callers -> {"idle", "putLocal", "putScratch", "putRemote", "enqueue", "store",
                         "compact", "getScratch", "getLocal", "getRemote", "install",
                         "promote", "got", "delLocal", "delRemote"}]
  /\ key \in [Callers -> Keys \union {NoKey}]
  /\ mode \in [Callers -> Reads \union Writes \union {"none"}]
  /\ val \in [Callers -> Value]
  /\ jk \in [Callers -> 0 .. MaxWrites] /\ stale \in [Callers -> 0 .. MaxWrites]
  /\ fpc \in {"idle", "next", "put", "drop", "index"} /\ fkeys \subseteq Entry
  /\ fcur \in 0 .. MaxWrites /\ fkey \in Keys \union {NoKey} /\ fval \in Value
  /\ dLocal \in [Keys -> Value] /\ dJkey \in [Entry -> Keys \union {NoKey}]
  /\ dJval \in [Entry -> Value] /\ dAcked \in [Keys -> Value]
  /\ writes \in 0 .. MaxWrites /\ crashes \in 0 .. MaxCrashes
  /\ acked \in [Keys -> Value] /\ gone \subseteq Keys

\* The journal holds only what this life of the process wrote: its numbers start from 0
\* after every restart, and on disk older entries may still be there.
OneLife == crashes = 0 \/ ~onDisk

\* A write-back Put that returned nil is not lost on its way up while the process lives:
\* the remote holds it or a later one, or the journal still does, through compaction,
\* failed flushes and a closed store (manager.go:311-363).  Stated, as the next three
\* are, for keys that one caller uses.
AckedWriteSafe ==
  \A k \in Keys :
    OneLife /\ WriteMode(k) = "back" /\ acked[k] # 0 =>
      remote[k] >= acked[k] \/ \E n \in PendingOf(k) : jval[n] >= acked[k]

\* Compaction keeps the journal from growing, drained or not: a key has one pending
\* entry, one more while a Put is between storing its entry and dropping the old one or
\* when the store closes there, and what earlier lives left, which is no more than two
\* for each crash (manager.go:48-52, 322-326).
JournalBounded ==
  \A k \in Keys :
    Cardinality(PendingOf(k)) <=
      1 + 2 * crashes + (IF closed THEN 1 ELSE 0) +
        Cardinality({c \in Callers : pc[c] = "compact" /\ key[c] = k})

\* A cached read that finds a value finds the caller's own latest acknowledged write, in
\* whichever tier it looks (manager.go:159-200), while the store is open.
CachedReadIsFresh ==
  \A c \in Callers :
    pc[c] = "got" /\ mode[c] = "cached" /\ val[c] # 0 /\ ~closed => val[c] >= acked[key[c]]

\* The remote's value of a write-back key is never replaced by an older one: the entries
\* a flush lists reach it in the order of the Puts (manager.go:331-352).
RemoteInOrder ==
  [][\A k \in Keys : WriteMode(k) = "back" /\ remote'[k] # 0 => remote'[k] >= remote[k]]_vars

\* Once the remote stays up and the store open, every pending write of a store in memory
\* reaches the remote and leaves the journal (memory_journal.go:113-125).
JournalDrains == ~onDisk /\ <>[](healthy /\ ~closed) => <>[](Pending = {})

-----------------------------------------------------------------------------
(* What the repository says of this code and the code does not keep: see the  *)
(* README's known disagreements.                                              *)

\* So does every pending write of a store on disk (manager.go:331: "Flush drains the
\* write-back journal to the remote tier").
DurableJournalDrains == <>[](healthy /\ ~closed) => <>[](Pending = {})

\* An acknowledged write that the disk kept is not lost after a restart either
\* (manager.go:86-87: "without restoring seq, a restart would re-number from 0 and
\* OVERWRITE pending entries").
RestartKeepsPending ==
  \A k \in Keys :
    WriteMode(k) = "back" /\ acked[k] # 0 =>
      remote[k] >= acked[k] \/ \E n \in PendingOf(k) : jval[n] >= acked[k]

\* A cached read of a key the caller has written finds a value at all (policy.go:12-13:
\* the first hit of scratch, local, remote).
ReadYourWrites ==
  \A c \in Callers :
    pc[c] = "got" /\ mode[c] = "cached" /\ acked[key[c]] # 0 /\ ~closed => val[c] # 0

\* Nor is the value of a key of any other class, whose Puts reach the remote themselves or,
\* while it is away, through the journal (manager.go:248-266, 331: "so order is preserved").
SyncPutsInOrder ==
  [][\A k \in Keys : crashes' = 0 /\ remote'[k] # 0 => remote'[k] >= remote[k]]_vars

\* A key deleted from every tier, and not put since, stays deleted (manager.go:276-287).
DeletedStaysDeleted == \A k \in gone : remote[k] = 0

=============================================================================
