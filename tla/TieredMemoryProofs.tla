------------------------ MODULE TieredMemoryProofs ------------------------
(***************************************************************************)
(* Proofs about TieredMemory, for any keys, policies, callers, Puts and    *)
(* crashes.  What the types and the counters need holds without a          *)
(* hypothesis; the rest is proved for keys that one caller uses (OneUser), *)
(* because two calls about one key may store and compact their entries in  *)
(* the other order than they took their values in.  What depends on the    *)
(* order of the journal's numbers is proved for one life of the process    *)
(* (Life): after a restart on disk older entries may have higher numbers.  *)
(*                                                                         *)
(* The argument: every step of Next is one of a few steps on the journal,  *)
(* the remote and the calls (Steps); each part of the inductive invariant  *)
(* IInv is kept by each of those.                                          *)
(***************************************************************************)
EXTENDS TieredMemory, FiniteSetTheorems, TLAPS

-----------------------------------------------------------------------------
(* The part of the invariant that needs no hypothesis.                         *)

\* The phases of a Put before its journal entry has a number and after, of a Get and of a
\* Delete.
Putting == {"putLocal", "putScratch", "putRemote", "enqueue"}
Numbered == {"store", "compact"}
Getting == {"getScratch", "getLocal", "getRemote", "install", "promote", "got"}
Deleting == {"delLocal", "delRemote"}

\* A call in progress is about a key of its caller, and only a Put that has a journal
\* entry of its own knows entry numbers.
CallsOwned ==
  \A c \in Callers :
    /\ pc[c] = "idle" => key[c] = NoKey
    /\ pc[c] # "idle" => key[c] \in Keys /\ c \in Users[key[c]]
    /\ pc[c] \notin Numbered => jk[c] = 0 /\ stale[c] = 0
    /\ pc[c] \in Numbered => jk[c] \in Entry

\* Every number given out so far belongs to one Put, and each Put under way may still
\* need one, so the numbers never run out before the Puts do.
Unnumbered == {c \in Callers : pc[c] \in Putting}
Counted == seq + Cardinality(Unnumbered) <= writes

\* No call has a number that has not been given out, nor has an entry, unless an earlier
\* life left it.
Numbers ==
  /\ OneLife => \A n \in Entry : jkey[n] # NoKey => n <= seq
  /\ \A c \in Callers : jk[c] <= seq

\* A store in memory has nothing on disk, and of a store on disk nothing is ever listed.
NothingKept ==
  ~onDisk => (\A n \in Entry : dJkey[n] = NoKey) /\ (\A k \in Keys : dAcked[k] = 0)
NothingListed == onDisk => fkeys = {} /\ fpc \in {"idle", "next"}

Base == TypeOK /\ CallsOwned /\ Counted /\ Numbers /\ NothingKept /\ NothingListed

-----------------------------------------------------------------------------
(* What a restart finds, and counting.                                         *)

\* New finds no entry, whichever store it starts on (manager.go:86-97): the sequence
\* number and the index start from 0.
LEMMA Recovered ==
  ASSUME NothingKept
  PROVE  RecoveredSeq = 0 /\ \A k \in Keys : RecoveredIndex(k) = 0
<1>1. Listing(dJkey) = {}
  BY DEF NothingKept, Listing
<1>2. \A S : S = {} => Latest(S) = 0
  <2> SUFFICES Latest({}) = 0
    OBVIOUS
  <2>1. \E n \in 0 .. MaxWrites : (n = 0 \/ n \in {}) /\ \A m \in {} : m <= n
    BY BoundsAssumption
  <2> QED BY <2>1 DEF Latest
<1> QED BY <1>1, <1>2 DEF RecoveredSeq, RecoveredIndex

\* A Put without a number is one of finitely many.
LEMMA UnnumberedCount ==
  /\ IsFiniteSet(Unnumbered)
  /\ Cardinality(Unnumbered) \in Nat
  /\ \A c \in Callers : c \in Unnumbered => Cardinality(Unnumbered) >= 1
<1>1. IsFiniteSet(Unnumbered)
  BY CallersAssumption, FS_Subset DEF Unnumbered
<1>2. Cardinality(Unnumbered) \in Nat
  BY <1>1, FS_CardinalityType
<1>3. \A c \in Callers : c \in Unnumbered => Cardinality(Unnumbered) # 0
  BY <1>1, FS_EmptySet
<1> QED BY <1>1, <1>2, <1>3

-----------------------------------------------------------------------------
(* Types.                                                                      *)

\* TypeOK in the parts that change together.
CallTypes ==
  /\ pc \in [Callers -> {"idle"} \union Putting \union Numbered \union Getting \union Deleting]
  /\ key \in [Callers -> Keys \union {NoKey}]
  /\ mode \in [Callers -> Reads \union Writes \union {"none"}]
  /\ val \in [Callers -> Value]
  /\ jk \in [Callers -> 0 .. MaxWrites] /\ stale \in [Callers -> 0 .. MaxWrites]

StoreTypes ==
  /\ policy \in Policies
  /\ scratch \in [Keys -> Value] /\ neg \subseteq Keys
  /\ local \in [Keys -> Value] /\ remote \in [Keys -> Value]
  /\ acked \in [Keys -> Value] /\ gone \subseteq Keys
  /\ writes \in 0 .. MaxWrites /\ crashes \in 0 .. MaxCrashes

FlagTypes == closed \in BOOLEAN /\ healthy \in BOOLEAN /\ onDisk \in BOOLEAN

JournalTypes ==
  /\ jkey \in [Entry -> Keys \union {NoKey}] /\ jval \in [Entry -> Value]
  /\ seq \in 0 .. MaxWrites /\ byKey \in [Keys -> 0 .. MaxWrites]
  /\ fpc \in {"idle", "next", "put", "drop", "index"} /\ fkeys \subseteq Entry
  /\ fcur \in 0 .. MaxWrites /\ fkey \in Keys \union {NoKey} /\ fval \in Value
  /\ dLocal \in [Keys -> Value] /\ dJkey \in [Entry -> Keys \union {NoKey}]
  /\ dJval \in [Entry -> Value] /\ dAcked \in [Keys -> Value]

\* A key's modes are modes.
LEMMA Modes ==
  StoreTypes =>
    \A k \in Keys : /\ ReadMode(k) \in Reads /\ WriteMode(k) \in Writes
                    /\ MaxPuts[WriteMode(k)] \in 0 .. MaxWrites
BY PoliciesAssumption, BoundsAssumption DEF StoreTypes, ReadMode, WriteMode

\* Together they are TypeOK.
LEMMA Types == TypeOK <=> CallTypes /\ StoreTypes /\ FlagTypes /\ JournalTypes
BY DEF TypeOK, CallTypes, StoreTypes, FlagTypes, JournalTypes, Putting, Numbered,
      Getting, Deleting

\* There is a number left for a Put that asks for one.
LEMMA NumberLeft == Base => \A c \in Callers : pc[c] = "enqueue" => seq + 1 \in 0 .. MaxWrites
<1> SUFFICES ASSUME Base, NEW c \in Callers,
      pc[c] = "enqueue" PROVE seq + 1 \in 0 .. MaxWrites
  OBVIOUS
<1>1. Cardinality(Unnumbered) \in Nat /\ Cardinality(Unnumbered) >= 1
  BY UnnumberedCount DEF Unnumbered, Putting
<1>2. seq \in 0 .. MaxWrites /\ writes \in 0 .. MaxWrites
  BY DEF Base, TypeOK
<1> QED BY <1>1, <1>2, BoundsAssumption DEF Base, Counted

\* Every step keeps the types of the calls,
LEMMA CallTypesStep ==
  Base /\ [Next]_vars => CallTypes'
<1> SUFFICES ASSUME Base, [Next]_vars PROVE CallTypes'
  OBVIOUS
<1> USE DEF Value, Entry, setup, cacheVars, localVars, journalVars, remoteVars, indexVars,
      callVars, flushVars, diskVars, countVars, Putting, Numbered, Getting, Deleting
<1> USE BoundsAssumption, KeysAssumption
<1>a. CallTypes /\ StoreTypes /\ FlagTypes /\ JournalTypes
  BY Types DEF Base
<1>b. \A c \in Callers : pc[c] # "idle" => key[c] \in Keys
  BY DEF Base, CallsOwned
<1>e. 0 \in Value
  OBVIOUS
<1>1. ASSUME NEW c \in Callers, NEW k \in Keys, PutBegin(c, k) PROVE CallTypes'
  <2>1. writes + 1 \in 0 .. MaxWrites
    BY <1>1, <1>a, Modes DEF PutBegin, StoreTypes
  <2>2. WriteMode(k) \in Writes
    BY <1>a, Modes
  <2> QED BY <1>1, <2>1, <2>2, <1>a DEF PutBegin, CallTypes
<1>2. ASSUME NEW c \in Callers, NEW k \in Keys, GetBegin(c, k) PROVE CallTypes'
  BY <1>2, <1>a, Modes DEF GetBegin, CallTypes, StoreTypes, JournalTypes
<1>3. ASSUME NEW c \in Callers, NEW k \in Keys, DeleteBegin(c, k) PROVE CallTypes'
  BY <1>3, <1>a DEF DeleteBegin, CallTypes
<1>4. ASSUME NEW c \in Callers, PutLocal(c) PROVE CallTypes'
  BY <1>4, <1>a DEF PutLocal, Goto, Carry, Return, CallTypes
<1>5. ASSUME NEW c \in Callers, PutScratch(c) PROVE CallTypes'
  BY <1>5, <1>a DEF PutScratch, ScratchAfterPut, Goto, Carry, Return, CallTypes
<1>6. ASSUME NEW c \in Callers, PutRemote(c) PROVE CallTypes'
  BY <1>6, <1>a DEF PutRemote, Goto, Carry, Return, CallTypes
<1>7. ASSUME NEW c \in Callers, Enqueue(c) PROVE CallTypes'
  BY <1>7, <1>a, <1>b, NumberLeft DEF Enqueue, StaleEntry, CallTypes, StoreTypes,
        JournalTypes
<1>8. ASSUME NEW c \in Callers, StoreEntry(c) PROVE CallTypes'
  BY <1>8, <1>a DEF StoreEntry, Goto, Carry, Return, CallTypes
<1>9. ASSUME NEW c \in Callers, Compact(c) PROVE CallTypes'
  BY <1>9, <1>a DEF Compact, Dropped, Return, CallTypes
<1>10. ASSUME NEW c \in Callers, GetScratch(c) PROVE CallTypes'
  <2>1. scratch[key[c]] \in Value
    BY <1>10, <1>a, <1>b DEF GetScratch, StoreTypes
  <2> QED BY <1>10, <2>1, <1>a, <1>e DEF GetScratch, Answer, Goto, Carry, CallTypes
<1>11. ASSUME NEW c \in Callers, GetLocal(c) PROVE CallTypes'
  <2>1. local[key[c]] \in Value
    BY <1>11, <1>a, <1>b DEF GetLocal, StoreTypes
  <2> QED BY <1>11, <2>1, <1>a, <1>e DEF GetLocal, Answer, Goto, Carry, CallTypes
<1>12. ASSUME NEW c \in Callers, GetRemote(c) PROVE CallTypes'
  <2>1. remote[key[c]] \in Value
    BY <1>12, <1>a, <1>b DEF GetRemote, StoreTypes
  <2> QED BY <1>12, <2>1, <1>a, <1>e DEF GetRemote, Unanswered, FallBack, Answer,
        Carry, Return, Reads, CallTypes
<1>13. ASSUME NEW c \in Callers, Install(c) PROVE CallTypes'
  BY <1>13, <1>a DEF Install, Goto, Carry, CallTypes
<1>14. ASSUME NEW c \in Callers, Promote(c) PROVE CallTypes'
  BY <1>14, <1>a DEF Promote, Answer, Carry, CallTypes
<1>15. ASSUME NEW c \in Callers, GetReturns(c) PROVE CallTypes'
  BY <1>15, <1>a DEF GetReturns, Return, CallTypes
<1>16. ASSUME NEW c \in Callers, DeleteLocal(c) PROVE CallTypes'
  BY <1>16, <1>a DEF DeleteLocal, Goto, Carry, CallTypes
<1>17. ASSUME NEW c \in Callers, DeleteRemote(c) PROVE CallTypes'
  BY <1>17, <1>a DEF DeleteRemote, Return, CallTypes
<1>18. CASE Crash
  BY <1>18, <1>a DEF Crash, CallTypes
<1>19. CASE UNCHANGED <<callVars>>
  BY <1>19, <1>a DEF CallTypes
<1> QED
  BY <1>1, <1>2, <1>3, <1>4, <1>5, <1>6, <1>7, <1>8, <1>9, <1>10, <1>11, <1>12, <1>13,
        <1>14, <1>15, <1>16, <1>17, <1>18, <1>19
  DEF Next, Call, CallStep, FlushStep, vars, FlushBegin, FlushTake, FlushPutOK,
        FlushPutFails, FlushDrop, FlushIndex, HealthChanges, Sync, Close, Expire

\* of the tiers,
LEMMA StoreTypesStep ==
  Base /\ [Next]_vars => StoreTypes'
<1> SUFFICES ASSUME Base, [Next]_vars PROVE StoreTypes'
  OBVIOUS
<1> USE DEF Value, Entry, setup, cacheVars, localVars, journalVars, remoteVars, indexVars,
      callVars, flushVars, diskVars, countVars
<1> USE BoundsAssumption, KeysAssumption
<1>a. CallTypes /\ StoreTypes /\ FlagTypes /\ JournalTypes
  BY Types DEF Base
<1>b. \A c \in Callers : pc[c] # "idle" => key[c] \in Keys
  BY DEF Base, CallsOwned
<1>e. 0 \in Value
  OBVIOUS
<1>1. ASSUME NEW c \in Callers, NEW k \in Keys, PutBegin(c, k) PROVE StoreTypes'
  <2>1. writes + 1 \in 0 .. MaxWrites
    BY <1>1, <1>a, Modes DEF PutBegin, StoreTypes
  <2> QED BY <1>1, <2>1, <1>a DEF PutBegin, StoreTypes
<1>2. ASSUME NEW c \in Callers, NEW k \in Keys, DeleteBegin(c, k) PROVE StoreTypes'
  BY <1>2, <1>a DEF DeleteBegin, StoreTypes
<1>3. ASSUME NEW c \in Callers, PutLocal(c) PROVE StoreTypes'
  BY <1>3, <1>a, <1>b DEF PutLocal, Goto, Carry, Return, CallTypes, StoreTypes,
        JournalTypes
<1>4. ASSUME NEW c \in Callers, PutScratch(c) PROVE StoreTypes'
  BY <1>4, <1>a, <1>b DEF PutScratch, ScratchAfterPut, Goto, Carry, Return, CallTypes,
        StoreTypes, JournalTypes
<1>5. ASSUME NEW c \in Callers, PutRemote(c) PROVE StoreTypes'
  <2>1. val[c] \in Value
    BY <1>a DEF CallTypes
  <2>2. /\ remote' = remote \/ remote' = [remote EXCEPT ![key[c]] = val[c]]
        /\ acked' = acked \/ acked' = [acked EXCEPT ![key[c]] = val[c]]
        /\ UNCHANGED <<setup, scratch, neg, local, gone, writes, crashes>>
    BY <1>5 DEF PutRemote
  <2>3. remote' \in [Keys -> Value] /\ acked' \in [Keys -> Value]
    BY <2>1, <2>2, <1>a DEF StoreTypes
  <2> QED BY <2>2, <2>3, <1>a DEF StoreTypes
<1>6. ASSUME NEW c \in Callers, Compact(c) PROVE StoreTypes'
  BY <1>6, <1>a, <1>b DEF Compact, Dropped, Return, CallTypes, StoreTypes, JournalTypes
<1>7. ASSUME NEW c \in Callers, GetRemote(c) PROVE StoreTypes'
  BY <1>7, <1>a, <1>b DEF GetRemote, Unanswered, FallBack, Answer, Carry, Return,
        CallTypes, StoreTypes, JournalTypes, Reads
<1>8. ASSUME NEW c \in Callers, Install(c) PROVE StoreTypes'
  BY <1>8, <1>a, <1>b DEF Install, Goto, Carry, CallTypes, StoreTypes, JournalTypes
<1>9. ASSUME NEW c \in Callers, Promote(c) PROVE StoreTypes'
  BY <1>9, <1>a, <1>b DEF Promote, Answer, Carry, CallTypes, StoreTypes, JournalTypes
<1>10. ASSUME NEW c \in Callers, DeleteLocal(c) PROVE StoreTypes'
  <2>1. local' = local \/ local' = [local EXCEPT ![key[c]] = 0]
    BY <1>10 DEF DeleteLocal
  <2>2. local' \in [Keys -> Value]
    BY <2>1, <1>a, <1>e DEF StoreTypes
  <2>3. UNCHANGED <<setup, scratch, neg, remote, acked, gone, writes, crashes>>
    BY <1>10 DEF DeleteLocal
  <2> QED BY <2>2, <2>3, <1>a DEF StoreTypes
<1>11. ASSUME NEW c \in Callers, DeleteRemote(c) PROVE StoreTypes'
  <2>1. key[c] \in Keys
    BY <1>11, <1>b DEF DeleteRemote
  <2>2. /\ remote' = remote \/ remote' = [remote EXCEPT ![key[c]] = 0]
        /\ gone' = gone \/ gone' = gone \union {key[c]}
        /\ UNCHANGED <<setup, scratch, neg, local, acked, writes, crashes>>
    BY <1>11 DEF DeleteRemote
  <2>3. remote' \in [Keys -> Value] /\ gone' \subseteq Keys
    BY <2>1, <2>2, <1>a, <1>e DEF StoreTypes
  <2> QED BY <2>2, <2>3, <1>a DEF StoreTypes
<1>12. CASE FlushPutOK
  BY <1>12, <1>a, <1>b DEF FlushPutOK, CallTypes, StoreTypes, JournalTypes
<1>13. CASE FlushPutFails
  <2>1. fval \in Value
    BY <1>a DEF JournalTypes
  <2>2. /\ remote' = remote \/ remote' = [remote EXCEPT ![fkey] = fval]
        /\ UNCHANGED <<setup, scratch, neg, local, acked, gone, writes, crashes>>
    BY <1>13 DEF FlushPutFails
  <2>3. remote' \in [Keys -> Value]
    BY <2>1, <2>2, <1>a DEF StoreTypes
  <2> QED BY <2>2, <2>3, <1>a DEF StoreTypes
<1>14. CASE Crash
  BY <1>14, <1>a, Recovered DEF Crash, CallTypes, StoreTypes, JournalTypes, Base
<1>15. ASSUME NEW k \in Keys, Expire(k) PROVE StoreTypes'
  BY <1>15, <1>a DEF Expire, StoreTypes
<1>16. CASE UNCHANGED <<policy, scratch, neg, local, remote, acked, gone, writes,
      crashes>>
  BY <1>16, <1>a DEF StoreTypes
<1> QED
  BY <1>1, <1>2, <1>3, <1>4, <1>5, <1>6, <1>7, <1>8, <1>9, <1>10, <1>11, <1>12, <1>13,
        <1>14, <1>15, <1>16
  DEF Next, Call, CallStep, FlushStep, vars, GetBegin, Enqueue, StoreEntry,
        GetScratch, GetLocal, GetReturns, FlushBegin, FlushTake, FlushDrop,
        FlushIndex, HealthChanges, Sync, Close

\* of the flags
LEMMA FlagTypesStep ==
  Base /\ [Next]_vars => FlagTypes'
<1> SUFFICES ASSUME Base, [Next]_vars PROVE FlagTypes'
  OBVIOUS
<1> USE DEF Value, Entry, setup, cacheVars, localVars, journalVars, remoteVars, indexVars,
      callVars, flushVars, diskVars, countVars
<1> USE BoundsAssumption, KeysAssumption
<1>a. CallTypes /\ StoreTypes /\ FlagTypes /\ JournalTypes
  BY Types DEF Base
<1>1. CASE HealthChanges
  BY <1>1, <1>a DEF HealthChanges, FlagTypes
<1>2. CASE Close
  BY <1>2, <1>a DEF Close, Synced, FlagTypes
<1>3. CASE Crash
  BY <1>3, <1>a DEF Crash, FlagTypes
<1>4. CASE UNCHANGED <<closed, healthy, onDisk>>
  BY <1>4, <1>a DEF FlagTypes
<1> QED
  BY <1>1, <1>2, <1>3, <1>4
  DEF Next, Call, CallStep, FlushStep, vars, PutBegin, GetBegin, DeleteBegin,
        PutLocal, PutScratch, PutRemote, Enqueue, StoreEntry, Compact, GetScratch,
        GetLocal, GetRemote, Install, Promote, GetReturns, DeleteLocal, DeleteRemote,
        FlushBegin, FlushTake, FlushPutOK, FlushPutFails, FlushDrop, FlushIndex, Sync,
        Expire

\* and of the journal, the flusher and the disk.
LEMMA JournalTypesStep ==
  Base /\ [Next]_vars => JournalTypes'
<1> SUFFICES ASSUME Base, [Next]_vars PROVE JournalTypes'
  OBVIOUS
<1> USE DEF Value, Entry, setup, cacheVars, localVars, journalVars, remoteVars, indexVars,
      callVars, flushVars, diskVars, countVars
<1> USE BoundsAssumption, KeysAssumption
<1>a. CallTypes /\ StoreTypes /\ FlagTypes /\ JournalTypes
  BY Types DEF Base
<1>b. \A c \in Callers : pc[c] # "idle" => key[c] \in Keys
  BY DEF Base, CallsOwned
<1>e. 0 \in Value
  OBVIOUS
<1>1. ASSUME NEW c \in Callers, NEW k \in Keys, DeleteBegin(c, k) PROVE JournalTypes'
  BY <1>1, <1>a DEF DeleteBegin, JournalTypes
<1>2. ASSUME NEW c \in Callers, Enqueue(c) PROVE JournalTypes'
  BY <1>2, <1>a, <1>b, NumberLeft DEF Enqueue, StaleEntry, CallTypes, StoreTypes,
        JournalTypes
<1>3. ASSUME NEW c \in Callers, StoreEntry(c) PROVE JournalTypes'
  BY <1>3, <1>a, <1>b DEF StoreEntry, Goto, Carry, Return, CallTypes, StoreTypes,
        JournalTypes
<1>4. ASSUME NEW c \in Callers, Compact(c) PROVE JournalTypes'
  BY <1>4, <1>a DEF Compact, Dropped, Return, JournalTypes
<1>5. CASE FlushBegin
  BY <1>5, <1>a, <1>b DEF FlushBegin, Listing, CallTypes, StoreTypes, JournalTypes
<1>6. CASE FlushTake
  <2>1. CASE fkeys = {} /\ UNCHANGED <<fkeys, fcur, fkey, fval>> /\ fpc' = "idle"
    BY <1>6, <2>1, <1>a DEF FlushTake, JournalTypes
  <2>2. ASSUME NEW n \in fkeys, fkeys' = fkeys \ {n},
               \/ UNCHANGED <<fpc, fcur, fkey, fval>>
               \/ fpc' = "put" /\ fcur' = n /\ fkey' = jkey[n] /\ fval' = jval[n]
        PROVE  JournalTypes'
    <3>1. jkey[n] \in Keys \union {NoKey} /\ jval[n] \in Value /\ n \in 0 .. MaxWrites
      BY <1>a DEF JournalTypes
    <3>2. UNCHANGED <<jkey, jval, seq, byKey, dLocal, dJkey, dJval, dAcked>>
      BY <1>6 DEF FlushTake
    <3> QED BY <2>2, <3>1, <3>2, <1>a DEF JournalTypes
  <2> QED BY <1>6, <2>1, <2>2, Zenon DEF FlushTake
<1>7. CASE FlushPutOK
  BY <1>7, <1>a DEF FlushPutOK, JournalTypes
<1>8. CASE FlushPutFails
  BY <1>8, <1>a DEF FlushPutFails, AfterError, JournalTypes
<1>9. CASE FlushDrop
  BY <1>9, <1>a DEF FlushDrop, DropFlushed, Dropped, JournalTypes
<1>10. CASE FlushIndex
  <2>1. byKey' = byKey \/ byKey' = [byKey EXCEPT ![fkey] = 0]
    BY <1>10 DEF FlushIndex
  <2>2. byKey' \in [Keys -> 0 .. MaxWrites]
    BY <2>1, <1>a, <1>e DEF JournalTypes
  <2> QED BY <1>10, <2>2, <1>a, <1>e DEF FlushIndex, JournalTypes
<1>11. CASE Sync
  BY <1>11, <1>a, <1>b DEF Sync, Synced, CallTypes, StoreTypes, JournalTypes
<1>12. CASE Close
  BY <1>12, <1>a, <1>b DEF Close, Synced, CallTypes, StoreTypes, JournalTypes
<1>13. CASE Crash
  BY <1>13, <1>a, Recovered DEF Crash, CallTypes, StoreTypes, JournalTypes, Base
<1>14. CASE UNCHANGED <<journalVars, indexVars, flushVars, diskVars>>
  BY <1>14, <1>a DEF JournalTypes
<1> QED
  BY <1>1, <1>2, <1>3, <1>4, <1>5, <1>6, <1>7, <1>8, <1>9, <1>10, <1>11, <1>12, <1>13,
        <1>14
  DEF Next, Call, CallStep, FlushStep, vars, PutBegin, PutLocal, PutScratch,
        PutRemote, GetBegin, GetScratch, GetLocal, GetRemote, Install, Promote,
        GetReturns, DeleteLocal, DeleteRemote, HealthChanges, Expire

\* A call in progress stays about its key, and entry numbers stay with the call.
LEMMA OwnedStep ==
  Base /\ [Next]_vars => CallsOwned'
<1> SUFFICES ASSUME Base, [Next]_vars PROVE CallsOwned'
  OBVIOUS
<1> USE DEF Entry, callVars, Putting, Numbered, Getting, Deleting
<1> USE BoundsAssumption, KeysAssumption
<1>a. CallTypes /\ StoreTypes
  BY Types DEF Base
<1>b. CallsOwned
  BY DEF Base
<1>1. ASSUME NEW c \in Callers, NEW k \in Keys, PutBegin(c, k) PROVE CallsOwned'
  BY <1>1, <1>a, <1>b DEF PutBegin, CallsOwned, CallTypes
<1>2. ASSUME NEW c \in Callers, NEW k \in Keys, GetBegin(c, k) PROVE CallsOwned'
  BY <1>2, <1>a, <1>b DEF GetBegin, CallsOwned, CallTypes
<1>3. ASSUME NEW c \in Callers, NEW k \in Keys, DeleteBegin(c, k) PROVE CallsOwned'
  BY <1>3, <1>a, <1>b DEF DeleteBegin, CallsOwned, CallTypes
<1>4. ASSUME NEW c \in Callers, PutLocal(c) PROVE CallsOwned'
  BY <1>4, <1>a, <1>b DEF PutLocal, Goto, Carry, Return, CallsOwned, CallTypes
<1>5. ASSUME NEW c \in Callers, PutScratch(c) PROVE CallsOwned'
  BY <1>5, <1>a, <1>b DEF PutScratch, ScratchAfterPut, Goto, Carry, Return,
        CallsOwned, CallTypes
<1>6. ASSUME NEW c \in Callers, PutRemote(c) PROVE CallsOwned'
  BY <1>6, <1>a, <1>b DEF PutRemote, Goto, Carry, Return, CallsOwned, CallTypes
<1>7. ASSUME NEW c \in Callers, Enqueue(c) PROVE CallsOwned'
  BY <1>7, <1>a, <1>b, NumberLeft DEF Enqueue, StaleEntry, CallsOwned, CallTypes,
        Base, TypeOK
<1>8. ASSUME NEW c \in Callers, StoreEntry(c) PROVE CallsOwned'
  BY <1>8, <1>a, <1>b DEF StoreEntry, Goto, Carry, Return, CallsOwned, CallTypes
<1>9. ASSUME NEW c \in Callers, Compact(c) PROVE CallsOwned'
  BY <1>9, <1>a, <1>b DEF Compact, Dropped, Return, CallsOwned, CallTypes
<1>10. ASSUME NEW c \in Callers, GetScratch(c) PROVE CallsOwned'
  BY <1>10, <1>a, <1>b DEF GetScratch, Answer, Goto, Carry, CallsOwned, CallTypes
<1>11. ASSUME NEW c \in Callers, GetLocal(c) PROVE CallsOwned'
  BY <1>11, <1>a, <1>b DEF GetLocal, Answer, Goto, Carry, CallsOwned, CallTypes
<1>12. ASSUME NEW c \in Callers, GetRemote(c) PROVE CallsOwned'
  BY <1>12, <1>a, <1>b DEF GetRemote, Unanswered, FallBack, Answer, Carry, Return,
        CallsOwned, CallTypes
<1>13. ASSUME NEW c \in Callers, Install(c) PROVE CallsOwned'
  BY <1>13, <1>a, <1>b DEF Install, Goto, Carry, CallsOwned, CallTypes
<1>14. ASSUME NEW c \in Callers, Promote(c) PROVE CallsOwned'
  BY <1>14, <1>a, <1>b DEF Promote, Answer, Carry, CallsOwned, CallTypes
<1>15. ASSUME NEW c \in Callers, GetReturns(c) PROVE CallsOwned'
  BY <1>15, <1>a, <1>b DEF GetReturns, Return, CallsOwned, CallTypes
<1>16. ASSUME NEW c \in Callers, DeleteLocal(c) PROVE CallsOwned'
  BY <1>16, <1>a, <1>b DEF DeleteLocal, Goto, Carry, CallsOwned, CallTypes
<1>17. ASSUME NEW c \in Callers, DeleteRemote(c) PROVE CallsOwned'
  BY <1>17, <1>a, <1>b DEF DeleteRemote, Return, CallsOwned, CallTypes
<1>18. CASE Crash
  BY <1>18, <1>a, <1>b DEF Crash, CallsOwned, CallTypes
<1>19. CASE UNCHANGED <<callVars>>
  BY <1>19, <1>b DEF CallsOwned
<1> QED
  BY <1>1, <1>2, <1>3, <1>4, <1>5, <1>6, <1>7, <1>8, <1>9, <1>10, <1>11, <1>12, <1>13,
        <1>14, <1>15, <1>16, <1>17, <1>18, <1>19
  DEF Next, Call, CallStep, FlushStep, vars, FlushBegin, FlushTake, FlushPutOK,
        FlushPutFails, FlushDrop, FlushIndex, HealthChanges, Expire, Sync, Close

\* Entry numbers stay below their counters.
LEMMA NumbersStep ==
  Base /\ [Next]_vars => Numbers'
<1> SUFFICES ASSUME Base, [Next]_vars PROVE Numbers'
  OBVIOUS
<1> USE DEF OneLife, Entry, setup, cacheVars, localVars, journalVars, remoteVars, indexVars, callVars,
      flushVars, diskVars, countVars
<1> USE BoundsAssumption, KeysAssumption
<1>a. CallTypes /\ StoreTypes /\ JournalTypes
  BY Types DEF Base
<1>b. CallsOwned /\ Numbers
  BY DEF Base
<1>1. ASSUME NEW c \in Callers, NEW k \in Keys, PutBegin(c, k) PROVE Numbers'
  BY <1>1, <1>a, <1>b DEF PutBegin, Numbers, CallTypes, StoreTypes, JournalTypes
<1>2. ASSUME NEW c \in Callers, PutLocal(c) PROVE Numbers'
  <2>1. jk' = jk \/ jk' = [jk EXCEPT ![c] = 0]
    BY <1>2 DEF PutLocal, Goto, Carry, Return
  <2>2. UNCHANGED <<jkey, seq, onDisk, crashes>>
    BY <1>2 DEF PutLocal
  <2>3. \A d \in Callers : jk'[d] = jk[d] \/ jk'[d] = 0
    BY <2>1, <1>a DEF CallTypes
  <2>4. seq >= 0
    BY <1>a DEF JournalTypes
  <2> QED BY <2>2, <2>3, <2>4, <1>b DEF Numbers
<1>3. ASSUME NEW c \in Callers, PutScratch(c) PROVE Numbers'
  <2>1. jk' = jk \/ jk' = [jk EXCEPT ![c] = 0]
    BY <1>3 DEF PutScratch, ScratchAfterPut, Goto, Carry, Return
  <2>2. UNCHANGED <<jkey, seq, onDisk, crashes>>
    BY <1>3 DEF PutScratch
  <2>3. \A d \in Callers : jk'[d] = jk[d] \/ jk'[d] = 0
    BY <2>1, <1>a DEF CallTypes
  <2>4. seq >= 0
    BY <1>a DEF JournalTypes
  <2> QED BY <2>2, <2>3, <2>4, <1>b DEF Numbers
<1>4. ASSUME NEW c \in Callers, PutRemote(c) PROVE Numbers'
  <2>1. jk' = jk \/ jk' = [jk EXCEPT ![c] = 0]
    BY <1>4 DEF PutRemote, Goto, Carry, Return
  <2>2. UNCHANGED <<jkey, seq, onDisk, crashes>>
    BY <1>4 DEF PutRemote
  <2>3. \A d \in Callers : jk'[d] = jk[d] \/ jk'[d] = 0
    BY <2>1, <1>a DEF CallTypes
  <2>4. seq >= 0
    BY <1>a DEF JournalTypes
  <2> QED BY <2>2, <2>3, <2>4, <1>b DEF Numbers
<1>5. ASSUME NEW c \in Callers, Enqueue(c) PROVE Numbers'
  BY <1>5, <1>a, <1>b DEF Enqueue, StaleEntry, Numbers, CallTypes, StoreTypes,
        JournalTypes
<1>6. ASSUME NEW c \in Callers, StoreEntry(c) PROVE Numbers'
  <2>1. jk' = jk \/ jk' = [jk EXCEPT ![c] = 0]
    BY <1>6 DEF StoreEntry, Goto, Carry, Return
  <2>2. UNCHANGED <<seq, onDisk, crashes>>
    BY <1>6 DEF StoreEntry
  <2>3. jkey' = jkey \/ jkey' = [jkey EXCEPT ![jk[c]] = key[c]]
    BY <1>6 DEF StoreEntry
  <2>4. \A d \in Callers : jk'[d] = jk[d] \/ jk'[d] = 0
    BY <2>1, <1>a DEF CallTypes
  <2>5. \A n \in Entry : jkey'[n] = jkey[n] \/ n = jk[c]
    BY <2>3, <1>a DEF JournalTypes
  <2>6. seq >= 0
    BY <1>a DEF JournalTypes
  <2> QED BY <2>2, <2>4, <2>5, <2>6, <1>b DEF Numbers
<1>7. ASSUME NEW c \in Callers, Compact(c) PROVE Numbers'
  BY <1>7, <1>a, <1>b DEF Compact, Dropped, Return, Numbers, CallTypes, StoreTypes,
        JournalTypes
<1>8. ASSUME NEW c \in Callers, GetRemote(c) PROVE Numbers'
  <2>1. jk' = jk \/ jk' = [jk EXCEPT ![c] = 0]
    BY <1>8 DEF GetRemote, Unanswered, FallBack, Answer, Carry, Return
  <2>2. UNCHANGED <<jkey, seq, onDisk, crashes>>
    BY <1>8 DEF GetRemote
  <2>3. \A d \in Callers : jk'[d] = jk[d] \/ jk'[d] = 0
    BY <2>1, <1>a DEF CallTypes
  <2>4. seq >= 0
    BY <1>a DEF JournalTypes
  <2> QED BY <2>2, <2>3, <2>4, <1>b DEF Numbers
<1>9. ASSUME NEW c \in Callers, GetReturns(c) PROVE Numbers'
  BY <1>9, <1>a, <1>b DEF GetReturns, Return, Numbers, CallTypes, StoreTypes,
        JournalTypes
<1>10. ASSUME NEW c \in Callers, DeleteRemote(c) PROVE Numbers'
  BY <1>10, <1>a, <1>b DEF DeleteRemote, Return, Numbers, CallTypes, StoreTypes,
        JournalTypes
<1>11. CASE FlushDrop
  BY <1>11, <1>a, <1>b DEF FlushDrop, DropFlushed, Dropped, Numbers, CallTypes,
        StoreTypes, JournalTypes
<1>12. CASE Sync
  BY <1>12, <1>b DEF Sync, Numbers
<1>13. CASE Close
  BY <1>13, <1>b DEF Close, Numbers
<1>14. CASE Crash
  <2>1. NothingKept /\ crashes \in Nat
    BY <1>a DEF Base, StoreTypes
  <2>2. seq' = 0 /\ \A c \in Callers : jk'[c] = 0
    BY <1>14, <2>1, Recovered DEF Crash
  <2>3. jkey' = dJkey /\ crashes' = crashes + 1 /\ onDisk' = onDisk
    BY <1>14 DEF Crash
  <2>4. OneLife' => ~onDisk
    BY <2>1, <2>3
  <2> QED BY <2>1, <2>2, <2>3, <2>4 DEF Numbers, NothingKept
<1>15. CASE UNCHANGED <<jkey, seq, jk, onDisk, crashes>>
  BY <1>15, <1>b DEF Numbers
<1> QED
  BY <1>1, <1>2, <1>3, <1>4, <1>5, <1>6, <1>7, <1>8, <1>9, <1>10, <1>11, <1>12, <1>13,
        <1>14, <1>15
  DEF Next, Call, CallStep, FlushStep, vars, GetBegin, DeleteBegin, GetScratch,
        GetLocal, Install, Promote, DeleteLocal, FlushBegin, FlushTake, FlushPutOK,
        FlushPutFails, FlushIndex, HealthChanges, Expire, Answer, Goto, Carry

\* A Put takes at most one number.
LEMMA CountedStep == Base /\ [Next]_vars => Counted'
<1> SUFFICES ASSUME Base, [Next]_vars PROVE Counted'
  OBVIOUS
<1>a. CallTypes /\ StoreTypes /\ JournalTypes
  BY Types DEF Base
<1>b. seq \in Nat /\ writes \in Nat /\ Cardinality(Unnumbered) \in Nat /\ IsFiniteSet(Unnumbered)
  BY <1>a, UnnumberedCount, BoundsAssumption DEF StoreTypes, JournalTypes
<1>c. seq + Cardinality(Unnumbered) <= writes
  BY DEF Base, Counted
<1>1. ASSUME NEW c \in Callers, NEW k \in Keys, PutBegin(c, k) PROVE Counted'
  <2>1. Unnumbered' = Unnumbered \union {c} /\ c \notin Unnumbered
    BY <1>1, <1>a DEF PutBegin, Unnumbered, Putting, CallTypes
  <2>2. Cardinality(Unnumbered') = Cardinality(Unnumbered) + 1
    BY <1>b, <2>1, FS_AddElement
  <2>3. seq' = seq /\ writes' = writes + 1
    BY <1>1 DEF PutBegin, indexVars
  <2> QED BY <2>2, <2>3, <1>b, <1>c DEF Counted
<1>2. ASSUME NEW c \in Callers, Enqueue(c) PROVE Counted'
  <2>1. Unnumbered' = Unnumbered \ {c} /\ c \in Unnumbered
    BY <1>2, <1>a DEF Enqueue, Unnumbered, Putting, CallTypes
  <2>2. Cardinality(Unnumbered') = Cardinality(Unnumbered) - 1
    BY <1>b, <2>1, FS_RemoveElement
  <2>3. seq' = seq + 1 /\ writes' = writes
    BY <1>2 DEF Enqueue, countVars
  <2> QED BY <2>2, <2>3, <1>b, <1>c DEF Counted
<1>3. CASE Crash
  <2>1. Unnumbered' = {}
    BY <1>3 DEF Crash, Unnumbered, Putting
  <2>2. seq' = RecoveredSeq /\ writes' = writes
    BY <1>3 DEF Crash
  <2>3. RecoveredSeq = 0
    BY Recovered DEF Base
  <2> QED BY <2>1, <2>2, <2>3, <1>b, FS_EmptySet DEF Counted
<1>4. ASSUME Unnumbered' \subseteq Unnumbered, UNCHANGED <<seq, writes>> PROVE Counted'
  <2>1. Cardinality(Unnumbered') \in Nat /\ Cardinality(Unnumbered') <= Cardinality(Unnumbered)
    BY <1>4, <1>b, FS_Subset, FS_CardinalityType
  <2> QED BY <1>4, <2>1, <1>b, <1>c DEF Counted
<1>5. ASSUME NEW c \in Callers, NEW k \in Keys, GetBegin(c, k) PROVE Counted'
  <2>1. Unnumbered' \subseteq Unnumbered
    BY <1>5, <1>a DEF GetBegin, Unnumbered, Putting, callVars, CallTypes
  <2> QED BY <1>5, <2>1, <1>4 DEF GetBegin, indexVars, countVars
<1>6. ASSUME NEW c \in Callers, NEW k \in Keys, DeleteBegin(c, k) PROVE Counted'
  <2>1. Unnumbered' \subseteq Unnumbered
    BY <1>6, <1>a DEF DeleteBegin, Unnumbered, Putting, callVars, CallTypes
  <2> QED BY <1>6, <2>1, <1>4 DEF DeleteBegin, indexVars, countVars
<1>7. ASSUME NEW c \in Callers, PutLocal(c) PROVE Counted'
  <2>1. Unnumbered' \subseteq Unnumbered
    BY <1>7, <1>a DEF PutLocal, Goto, Carry, Return, Unnumbered, Putting, callVars,
          CallTypes
  <2> QED BY <1>7, <2>1, <1>4 DEF PutLocal, indexVars, countVars
<1>8. ASSUME NEW c \in Callers, PutScratch(c) PROVE Counted'
  <2>1. Unnumbered' \subseteq Unnumbered
    BY <1>8, <1>a DEF PutScratch, ScratchAfterPut, Goto, Carry, Return, Unnumbered,
          Putting, callVars, CallTypes
  <2> QED BY <1>8, <2>1, <1>4 DEF PutScratch, indexVars, countVars
<1>9. ASSUME NEW c \in Callers, PutRemote(c) PROVE Counted'
  <2>1. Unnumbered' \subseteq Unnumbered
    BY <1>9, <1>a DEF PutRemote, Goto, Carry, Return, Unnumbered, Putting, callVars,
          CallTypes
  <2> QED BY <1>9, <2>1, <1>4 DEF PutRemote, indexVars, countVars
<1>10. ASSUME NEW c \in Callers, StoreEntry(c) PROVE Counted'
  <2>1. Unnumbered' \subseteq Unnumbered
    BY <1>10, <1>a DEF StoreEntry, Goto, Carry, Return, Unnumbered, Putting, callVars,
          CallTypes
  <2> QED BY <1>10, <2>1, <1>4 DEF StoreEntry, indexVars, countVars
<1>11. ASSUME NEW c \in Callers, Compact(c) PROVE Counted'
  <2>1. Unnumbered' \subseteq Unnumbered
    BY <1>11, <1>a DEF Compact, Dropped, Return, Unnumbered, Putting, callVars,
          CallTypes
  <2> QED BY <1>11, <2>1, <1>4 DEF Compact, indexVars, countVars
<1>12. ASSUME NEW c \in Callers, GetScratch(c) PROVE Counted'
  <2>1. Unnumbered' \subseteq Unnumbered
    BY <1>12, <1>a DEF GetScratch, Answer, Goto, Carry, Unnumbered, Putting, callVars,
          CallTypes
  <2> QED BY <1>12, <2>1, <1>4 DEF GetScratch, indexVars, countVars
<1>13. ASSUME NEW c \in Callers, GetLocal(c) PROVE Counted'
  <2>1. Unnumbered' \subseteq Unnumbered
    BY <1>13, <1>a DEF GetLocal, Answer, Goto, Carry, Unnumbered, Putting, callVars,
          CallTypes
  <2> QED BY <1>13, <2>1, <1>4 DEF GetLocal, indexVars, countVars
<1>14. ASSUME NEW c \in Callers, GetRemote(c) PROVE Counted'
  <2>1. Unnumbered' \subseteq Unnumbered
    BY <1>14, <1>a DEF GetRemote, Unanswered, FallBack, Answer, Carry, Return,
          Unnumbered, Putting, callVars, CallTypes
  <2> QED BY <1>14, <2>1, <1>4 DEF GetRemote, indexVars, countVars
<1>15. ASSUME NEW c \in Callers, Install(c) PROVE Counted'
  <2>1. Unnumbered' \subseteq Unnumbered
    BY <1>15, <1>a DEF Install, Goto, Carry, Unnumbered, Putting, callVars, CallTypes
  <2> QED BY <1>15, <2>1, <1>4 DEF Install, indexVars, countVars
<1>16. ASSUME NEW c \in Callers, Promote(c) PROVE Counted'
  <2>1. Unnumbered' \subseteq Unnumbered
    BY <1>16, <1>a DEF Promote, Answer, Carry, Unnumbered, Putting, callVars, CallTypes
  <2> QED BY <1>16, <2>1, <1>4 DEF Promote, indexVars, countVars
<1>17. ASSUME NEW c \in Callers, GetReturns(c) PROVE Counted'
  <2>1. Unnumbered' \subseteq Unnumbered
    BY <1>17, <1>a DEF GetReturns, Return, Unnumbered, Putting, callVars, CallTypes
  <2> QED BY <1>17, <2>1, <1>4 DEF GetReturns, indexVars, countVars
<1>18. ASSUME NEW c \in Callers, DeleteLocal(c) PROVE Counted'
  <2>1. Unnumbered' \subseteq Unnumbered
    BY <1>18, <1>a DEF DeleteLocal, Goto, Carry, Unnumbered, Putting, callVars,
          CallTypes
  <2> QED BY <1>18, <2>1, <1>4 DEF DeleteLocal, indexVars, countVars
<1>19. ASSUME NEW c \in Callers, DeleteRemote(c) PROVE Counted'
  <2>1. Unnumbered' \subseteq Unnumbered
    BY <1>19, <1>a DEF DeleteRemote, Return, Unnumbered, Putting, callVars, CallTypes
  <2> QED BY <1>19, <2>1, <1>4 DEF DeleteRemote, indexVars, countVars
<1>20. CASE UNCHANGED <<pc, seq, writes>>
  BY <1>20, <1>c DEF Counted, Unnumbered
<1> QED
  BY <1>1, <1>2, <1>3, <1>5, <1>6, <1>7, <1>8, <1>9, <1>10, <1>11, <1>12, <1>13,
        <1>14, <1>15, <1>16, <1>17, <1>18, <1>19, <1>20
  DEF Next, Call, CallStep, FlushStep, vars, callVars, indexVars, countVars,
        FlushBegin, FlushTake, FlushPutOK, FlushPutFails, FlushDrop, FlushIndex,
        HealthChanges, Sync, Close, Expire

\* What is on disk, and what is listed, stay nothing.
LEMMA NothingStep == Base /\ [Next]_vars => NothingKept' /\ NothingListed'
<1> SUFFICES ASSUME Base, [Next]_vars PROVE NothingKept' /\ NothingListed'
  OBVIOUS
<1> USE DEF setup, flushVars, diskVars
<1>a. dAcked \in [Keys -> Value]
  BY DEF Base, TypeOK
<1>b. NothingKept /\ NothingListed
  BY DEF Base
<1>1. NothingKept'
  <2>1. ASSUME NEW c \in Callers, NEW k \in Keys, DeleteBegin(c, k) PROVE NothingKept'
    BY <2>1, <1>a, <1>b DEF DeleteBegin, NothingKept
  <2>2. CASE Sync
    BY <2>2, <1>b DEF Sync, NothingKept
  <2>3. CASE Close
    BY <2>3, <1>b DEF Close, Synced, NothingKept
  <2>4. CASE UNCHANGED <<onDisk, dJkey, dAcked>>
    BY <2>4, <1>b DEF NothingKept
  <2> QED
    BY <2>1, <2>2, <2>3, <2>4
    DEF Next, Call, CallStep, FlushStep, vars, PutBegin, GetBegin, PutLocal, PutScratch,
        PutRemote, Enqueue, StoreEntry, Compact, GetScratch, GetLocal, GetRemote, Install,
        Promote, GetReturns, DeleteLocal, DeleteRemote, FlushBegin, FlushTake, FlushPutOK,
        FlushPutFails, FlushDrop, FlushIndex, HealthChanges, Expire, Crash
<1>2. NothingListed'
  <2>1. CASE FlushBegin
    BY <2>1, <1>b DEF FlushBegin, Listing, NothingListed
  <2>2. CASE FlushStep
    BY <2>2, <1>b DEF FlushStep, FlushTake, FlushPutOK, FlushPutFails, FlushDrop,
          FlushIndex, NothingListed
  <2>3. CASE Crash
    BY <2>3, <1>b DEF Crash, NothingListed
  <2>4. CASE UNCHANGED <<onDisk, fkeys, fpc>>
    BY <2>4, <1>b DEF NothingListed
  <2> QED
    BY <2>1, <2>2, <2>3, <2>4
    DEF Next, Call, CallStep, vars, PutBegin, GetBegin, DeleteBegin, PutLocal, PutScratch,
        PutRemote, Enqueue, StoreEntry, Compact, GetScratch, GetLocal, GetRemote, Install,
        Promote, GetReturns, DeleteLocal, DeleteRemote, HealthChanges, Expire, Sync, Close
<1> QED BY <1>1, <1>2

\* The types, the calls and the counters together are inductive.
LEMMA BaseInit == Init => Base
<1> SUFFICES ASSUME Init PROVE Base
  OBVIOUS
<1> USE DEF Init, Value, Entry
<1>1. TypeOK
  <2> USE BoundsAssumption
  <2>1. CallTypes
    BY DEF CallTypes
  <2>2. StoreTypes
    BY DEF StoreTypes
  <2>3. FlagTypes
    BY DEF FlagTypes
  <2>4. JournalTypes
    BY DEF JournalTypes
  <2> QED BY <2>1, <2>2, <2>3, <2>4, Types
<1>2. CallsOwned
  BY DEF CallsOwned, Numbered
<1>3. Counted
  <2>1. Unnumbered = {}
    BY DEF Unnumbered, Putting
  <2> QED BY <2>1, FS_EmptySet DEF Counted
<1>4. Numbers
  BY DEF Numbers
<1>5. NothingKept /\ NothingListed
  BY DEF NothingKept, NothingListed
<1> QED BY <1>1, <1>2, <1>3, <1>4, <1>5 DEF Base

\* Every step keeps them.
LEMMA BaseStep == Base /\ [Next]_vars => Base'
<1> SUFFICES ASSUME Base, [Next]_vars PROVE Base'
  OBVIOUS
<1>1. CallTypes' /\ StoreTypes' /\ FlagTypes' /\ JournalTypes'
  BY CallTypesStep, StoreTypesStep, FlagTypesStep, JournalTypesStep
<1>2. TypeOK' <=> CallTypes' /\ StoreTypes' /\ FlagTypes' /\ JournalTypes'
  BY Types, PTL
<1> QED BY <1>1, <1>2, OwnedStep, NumbersStep, CountedStep, NothingStep DEF Base

\* Types, ownership of calls and the numbering of entries hold of every behaviour.
THEOREM BaseHolds == Spec => []Base
<1>1. Init => Base
  BY BaseInit
<1>2. Base /\ [Next]_vars => Base'
  BY BaseStep
<1> QED BY <1>1, <1>2, PTL DEF Spec

\* Every variable keeps its type: in particular the journal's numbers never run out
\* before the Puts do (manager.go:311-320).
THEOREM TypeCorrect == Spec => []TypeOK
BY BaseHolds, PTL DEF Base

-----------------------------------------------------------------------------

(* What a step does to the journal, the remote and the calls, whatever it does *)
(* to the caches: each action that matters to them, element by element.        *)

\* Each key has at most one caller that uses it.
OneUser == \A k \in Keys : \A c, d \in Users[k] : c = d

\* No two calls are about the same key, and a key whose caller is idle is in no call.
LEMMA Alone ==
  ASSUME OneUser, Base
  PROVE  /\ \A c, d \in Callers : key[c] = key[d] /\ key[c] \in Keys => c = d
         /\ \A k \in Keys : \A c \in Users[k] : pc[c] = "idle" => \A d \in Callers : key[d] # k
<1>1. \A c \in Callers : key[c] \in Keys => pc[c] # "idle" /\ c \in Users[key[c]]
  BY KeysAssumption DEF Base, CallsOwned
<1> QED BY <1>1 DEF OneUser

\* What the types say of single elements.
LEMMA Elements ==
  Base =>
    /\ Entry \subseteq Nat \ {0} /\ 0 \notin Entry /\ NoKey \notin Keys
    /\ writes \in Nat /\ seq \in Nat /\ crashes \in Nat /\ fval \in Nat /\ fcur \in Nat
    /\ fkeys \subseteq Entry
    /\ \A n \in Entry : jval[n] \in Nat /\ dJval[n] \in Nat
    /\ \A k \in Keys : remote[k] \in Nat /\ acked[k] \in Nat /\ dAcked[k] \in Nat /\ byKey[k] \in Nat
    /\ \A c \in Callers : val[c] \in Nat /\ jk[c] \in Nat /\ stale[c] \in Nat
    /\ \A c \in Callers : pc[c] # "idle" => key[c] \in Keys
BY BoundsAssumption, KeysAssumption DEF Base, TypeOK, CallsOwned, Value, Entry

diskJournal == <<dJkey, dJval, dAcked>>

\* Function g is f with v at i.
Written(g, f, S, i, v) == \A x \in S : g[x] = IF x = i THEN v ELSE f[x]

\* A call goes on at w, ends, or is not the one that moves.
GoesOn(c, w) ==
  /\ pc'[c] = w /\ key'[c] = key[c] /\ val'[c] = val[c] /\ jk'[c] = jk[c]
  /\ stale'[c] = stale[c]
Ends(c) == pc'[c] = "idle" /\ key'[c] = NoKey /\ jk'[c] = 0 /\ stale'[c] = 0
Others(c) == \A d \in Callers : d # c => GoesOn(d, pc[d])

\* A step that moves no call into or out of a Put's or a Delete's part of the work, but
\* for its end.
Quiet ==
  /\ UNCHANGED <<setup, closed, journalVars, remote, indexVars, jk, stale, flushVars,
                 diskJournal, countVars, acked>>
  /\ \A c \in Callers :
       \/ GoesOn(c, pc[c])
       \/ pc[c] \in Putting /\ pc'[c] \in Putting /\ GoesOn(c, pc'[c])
       \/ pc[c] \in Deleting /\ pc'[c] \in Deleting /\ GoesOn(c, pc'[c])
       \/ pc[c] \notin Numbered /\ pc'[c] \in Getting \union {"idle"}

\* A Put of a new value begins.
PutStarts(c, k) ==
  /\ pc[c] = "idle" /\ c \in Users[k] /\ writes' = writes + 1
  /\ pc'[c] \in Putting /\ key'[c] = k /\ val'[c] = writes + 1
  /\ jk'[c] = jk[c] /\ stale'[c] = stale[c] /\ Others(c)
  /\ UNCHANGED <<setup, closed, journalVars, remote, indexVars, flushVars, diskJournal,
                 crashes, acked>>

\* A Delete begins, and with it the claim on the key's value ends.
DeleteStarts(c, k) ==
  /\ pc[c] = "idle" /\ c \in Users[k]
  /\ Written(acked', acked, Keys, k, 0) /\ Written(dAcked', dAcked, Keys, k, 0)
  /\ pc'[c] = "delLocal" /\ key'[c] = k /\ jk'[c] = jk[c] /\ stale'[c] = stale[c]
  /\ Others(c)
  /\ UNCHANGED <<setup, closed, journalVars, remote, indexVars, flushVars, dJkey,
                 dJval, countVars>>

\* A Put's own write of the remote succeeds, or fails with or without effect.
RemoteWritten(c) ==
  /\ pc[c] = "putRemote" /\ Others(c)
  /\ GoesOn(c, "enqueue") \/ Ends(c)
  /\ remote' = remote \/ Written(remote', remote, Keys, key[c], val[c])
  /\ acked' = acked \/ (Ends(c) /\ Written(acked', acked, Keys, key[c], val[c]))
  /\ UNCHANGED <<setup, closed, journalVars, indexVars, flushVars, diskJournal,
                 countVars>>

\* enqueueWriteBack takes a number and puts it in the index.
EntryNumbered(c) ==
  /\ pc[c] = "enqueue" /\ Others(c)
  /\ pc'[c] = "store" /\ key'[c] = key[c] /\ val'[c] = val[c]
  /\ jk'[c] = seq + 1 /\ seq' = seq + 1 /\ stale'[c] = byKey[key[c]]
  /\ Written(byKey', byKey, Keys, key[c], seq + 1)
  /\ UNCHANGED <<setup, closed, journalVars, remote, flushVars, diskJournal, countVars,
                 acked>>

\* It stores the entry, unless the store is closed.
EntryStored(c) ==
  /\ pc[c] = "store" /\ Others(c)
  /\ \/ closed /\ Ends(c) /\ UNCHANGED journalVars
     \/ /\ ~closed /\ GoesOn(c, "compact")
        /\ Written(jkey', jkey, Entry, jk[c], key[c])
        /\ Written(jval', jval, Entry, jk[c], val[c])
  /\ UNCHANGED <<setup, closed, remote, indexVars, flushVars, diskJournal, countVars,
                 acked>>

\* Entry n is gone, unless the store is closed.
Gone(n) ==
  \/ closed /\ UNCHANGED journalVars
  \/ ~closed /\ Written(jkey', jkey, Entry, n, NoKey) /\ Written(jval', jval, Entry,
        n, 0)

\* It drops the entry it supersedes, and the Put is acknowledged.
EntryCompacted(c) ==
  /\ pc[c] = "compact" /\ Others(c) /\ Ends(c)
  /\ Gone(stale[c]) /\ Written(acked', acked, Keys, key[c], val[c])
  /\ UNCHANGED <<setup, closed, remote, indexVars, flushVars, diskJournal, countVars>>

\* A Delete reaches the remote, or fails.
RemoteCleared(c) ==
  /\ pc[c] = "delRemote" /\ Others(c) /\ Ends(c)
  /\ remote' = remote \/ Written(remote', remote, Keys, key[c], 0)
  /\ UNCHANGED <<setup, closed, journalVars, indexVars, flushVars, diskJournal,
                 countVars, acked>>

NoCallMoves == UNCHANGED <<setup, pc, key, val, jk, stale, countVars>>

\* Flush lists the journal.
FlushStarts ==
  /\ fpc = "idle" /\ fpc' = "next" /\ (closed \/ onDisk \/ fkeys' = Pending)
  /\ fkeys' \subseteq Pending /\ (onDisk => fkeys' = {}) /\ NoCallMoves
  /\ UNCHANGED <<closed, journalVars, remote, indexVars, fcur, fkey, fval, diskJournal,
                 acked>>

\* No entry is left, the oldest is gone, or it is taken in hand.
EntryTaken ==
  /\ fpc = "next" /\ NoCallMoves
  /\ \/ fkeys = {} /\ fpc' = "idle" /\ UNCHANGED <<fkeys, fcur, fkey, fval>>
     \/ \E n \in fkeys :
          /\ fkeys' = fkeys \ {n} /\ \A m \in fkeys : n <= m
          /\ \/ (closed \/ jkey[n] = NoKey) /\ UNCHANGED <<fpc, fcur, fkey, fval>>
             \/ /\ ~closed /\ jkey[n] # NoKey
                /\ fpc' = "put" /\ fcur' = n /\ fkey' = jkey[n] /\ fval' = jval[n]
  /\ UNCHANGED <<closed, journalVars, remote, indexVars, diskJournal, acked>>

\* It is sent, or the flush gives up, the send having had its effect or not.
EntrySent ==
  /\ fpc = "put" /\ NoCallMoves
  /\ \/ fpc' = "drop" /\ Written(remote', remote, Keys, fkey, fval)
        /\ UNCHANGED <<fkeys, fcur, fkey, fval>>
     \/ /\ fpc' = "idle" /\ fkeys' = {} /\ fcur' = 0 /\ fkey' = NoKey /\ fval' = 0
        /\ remote' = remote \/ Written(remote', remote, Keys, fkey, fval)
  /\ UNCHANGED <<closed, journalVars, indexVars, diskJournal, acked>>

\* A sent entry is dropped,
EntryFlushed ==
  /\ fpc = "drop" /\ fpc' = "index" /\ NoCallMoves /\ Gone(fcur)
  /\ UNCHANGED <<closed, remote, indexVars, fkeys, fcur, fkey, fval, diskJournal,
        acked>>

\* and then its place in the index, if it is still there.
IndexCleared ==
  /\ fpc = "index" /\ fpc' = "next" /\ fcur' = 0 /\ fkey' = NoKey /\ fval' = 0
  /\ byKey' = byKey \/ (byKey[fkey] = fcur /\ Written(byKey', byKey, Keys, fkey, 0))
  /\ NoCallMoves
  /\ UNCHANGED <<closed, journalVars, remote, seq, fkeys, diskJournal, acked>>

\* The store reaches the disk, if it has one.
DiskWritten ==
  /\ ~closed /\ NoCallMoves
  /\ \/ onDisk /\ dJkey' = jkey /\ dJval' = jval /\ dAcked' = acked
     \/ ~onDisk /\ UNCHANGED diskJournal
  /\ UNCHANGED <<journalVars, remote, indexVars, flushVars, acked>>

\* A crash: the journal is what the disk has, and its numbers start again.
Restarts ==
  /\ crashes' = crashes + 1 /\ ~closed'
  /\ jkey' = dJkey /\ jval' = dJval /\ acked' = dAcked
  /\ seq' = 0 /\ \A k \in Keys : byKey'[k] = 0
  /\ \A c \in Callers : Ends(c)
  /\ fpc' = "idle" /\ fkeys' = {} /\ fcur' = 0 /\ fkey' = NoKey /\ fval' = 0
  /\ UNCHANGED <<setup, remote, diskJournal, writes>>

\* A step of one life of the process, and any step.
Lives ==
  \/ Quiet
  \/ \E c \in Callers : \E k \in Keys : PutStarts(c, k) \/ DeleteStarts(c, k)
  \/ \E c \in Callers : RemoteWritten(c) \/ EntryNumbered(c) \/ EntryStored(c)
                          \/ EntryCompacted(c) \/ RemoteCleared(c)
  \/ FlushStarts \/ EntryTaken \/ EntrySent \/ EntryFlushed \/ IndexCleared
  \/ DiskWritten

Step == Lives \/ Restarts

\* Every step of the specification is one of these.
LEMMA Steps ==
  Base /\ [Next]_vars => Step
<1> SUFFICES ASSUME Base, [Next]_vars PROVE Step
  OBVIOUS
<1> USE DEF Entry, Putting, Numbered, Getting, Deleting, diskJournal, setup, cacheVars,
      localVars, journalVars, remoteVars, indexVars, callVars, flushVars, diskVars,
      countVars
<1>a. CallTypes /\ StoreTypes /\ JournalTypes
  BY Types DEF Base
<1>b. \A c \in Callers : pc[c] \notin Numbered => jk[c] = 0 /\ stale[c] = 0
  BY DEF Base, CallsOwned
<1>1. ASSUME NEW c \in Callers, NEW k \in Keys, PutBegin(c, k) PROVE Step
  <2>1. Others(c)
    BY <1>1, <1>a DEF PutBegin, CallTypes, Others, GoesOn
  <2>2. PutStarts(c, k)
    BY <1>1, <2>1, <1>a DEF PutBegin, PutStarts, Written, CallTypes, StoreTypes,
          JournalTypes
  <2> QED BY <2>2 DEF Step, Lives
<1>2. ASSUME NEW c \in Callers, NEW k \in Keys, GetBegin(c, k) PROVE Step
  <2>1. jk' = jk /\ stale' = stale
    BY <1>2, <1>a, <1>b DEF GetBegin, CallTypes
  <2>2. \A d \in Callers : d # c => pc'[d] = pc[d] /\ key'[d] = key[d] /\ val'[d] = val[d]
    BY <1>2, <1>a DEF GetBegin, CallTypes
  <2>3. pc[c] \notin Numbered /\ pc'[c] \in Getting \union {"idle"}
    BY <1>2, <1>a DEF GetBegin, CallTypes
  <2>4. UNCHANGED <<setup, closed, journalVars, remote, indexVars, flushVars, dJkey,
        dJval, dAcked, countVars, acked>>
    BY <1>2 DEF GetBegin
  <2>5. \A d \in Callers :
          \/ GoesOn(d, pc[d])
          \/ pc[d] \in Putting /\ pc'[d] \in Putting /\ GoesOn(d, pc'[d])
          \/ pc[d] \in Deleting /\ pc'[d] \in Deleting /\ GoesOn(d, pc'[d])
          \/ pc[d] \notin Numbered /\ pc'[d] \in Getting \union {"idle"}
    BY <2>1, <2>2, <2>3 DEF GoesOn
  <2> QED BY <2>1, <2>4, <2>5 DEF Quiet, Step, Lives
<1>3. ASSUME NEW c \in Callers, NEW k \in Keys, DeleteBegin(c, k) PROVE Step
  <2>1. Others(c)
    BY <1>3, <1>a DEF DeleteBegin, CallTypes, Others, GoesOn
  <2>2. DeleteStarts(c, k)
    BY <1>3, <2>1, <1>a DEF DeleteBegin, DeleteStarts, Written, CallTypes, StoreTypes,
          JournalTypes
  <2> QED BY <2>2 DEF Step, Lives
<1>4. ASSUME NEW c \in Callers, PutLocal(c) PROVE Step
  <2>1. jk' = jk /\ stale' = stale
    BY <1>4, <1>a, <1>b DEF PutLocal, Goto, Carry, Return, CallTypes
  <2>2. \A d \in Callers : d # c => pc'[d] = pc[d] /\ key'[d] = key[d] /\ val'[d] = val[d]
    BY <1>4, <1>a DEF PutLocal, Goto, Carry, Return, CallTypes
  <2>3. \/ key'[c] = key[c] /\ val'[c] = val[c] /\ pc[c] \in Putting /\ pc'[c] \in Putting
        \/ pc[c] \notin Numbered /\ pc'[c] \in Getting \union {"idle"}
    BY <1>4, <1>a DEF PutLocal, Goto, Carry, Return, CallTypes
  <2>4. UNCHANGED <<setup, closed, journalVars, remote, indexVars, flushVars, dJkey,
        dJval, dAcked, countVars, acked>>
    BY <1>4 DEF PutLocal
  <2>5. \A d \in Callers :
          \/ GoesOn(d, pc[d])
          \/ pc[d] \in Putting /\ pc'[d] \in Putting /\ GoesOn(d, pc'[d])
          \/ pc[d] \in Deleting /\ pc'[d] \in Deleting /\ GoesOn(d, pc'[d])
          \/ pc[d] \notin Numbered /\ pc'[d] \in Getting \union {"idle"}
    BY <2>1, <2>2, <2>3 DEF GoesOn
  <2> QED BY <2>1, <2>4, <2>5 DEF Quiet, Step, Lives
<1>5. ASSUME NEW c \in Callers, PutScratch(c) PROVE Step
  <2>1. jk' = jk /\ stale' = stale
    BY <1>5, <1>a, <1>b DEF PutScratch, ScratchAfterPut, Goto, Carry, Return, CallTypes
  <2>2. \A d \in Callers : d # c => pc'[d] = pc[d] /\ key'[d] = key[d] /\ val'[d] = val[d]
    BY <1>5, <1>a DEF PutScratch, ScratchAfterPut, Goto, Carry, Return, CallTypes
  <2>3. \/ key'[c] = key[c] /\ val'[c] = val[c] /\ pc[c] \in Putting /\ pc'[c] \in Putting
        \/ pc[c] \notin Numbered /\ pc'[c] \in Getting \union {"idle"}
    BY <1>5, <1>a DEF PutScratch, ScratchAfterPut, Goto, Carry, Return, CallTypes
  <2>4. UNCHANGED <<setup, closed, journalVars, remote, indexVars, flushVars, dJkey,
        dJval, dAcked, countVars, acked>>
    BY <1>5 DEF PutScratch
  <2>5. \A d \in Callers :
          \/ GoesOn(d, pc[d])
          \/ pc[d] \in Putting /\ pc'[d] \in Putting /\ GoesOn(d, pc'[d])
          \/ pc[d] \in Deleting /\ pc'[d] \in Deleting /\ GoesOn(d, pc'[d])
          \/ pc[d] \notin Numbered /\ pc'[d] \in Getting \union {"idle"}
    BY <2>1, <2>2, <2>3 DEF GoesOn
  <2> QED BY <2>1, <2>4, <2>5 DEF Quiet, Step, Lives
<1>6. ASSUME NEW c \in Callers, PutRemote(c) PROVE Step
  <2>1. Others(c)
    BY <1>6, <1>a DEF PutRemote, Goto, Carry, Return, CallTypes, Others, GoesOn
  <2>2. RemoteWritten(c)
    BY <1>6, <2>1, <1>a DEF PutRemote, Goto, Carry, Return, RemoteWritten, Written,
          Ends, GoesOn, CallTypes, StoreTypes, JournalTypes
  <2> QED BY <2>2 DEF Step, Lives
<1>7. ASSUME NEW c \in Callers, Enqueue(c) PROVE Step
  <2>1. Others(c)
    BY <1>7, <1>a DEF Enqueue, StaleEntry, CallTypes, Others, GoesOn
  <2>2. EntryNumbered(c)
    BY <1>7, <2>1, <1>a DEF Enqueue, StaleEntry, EntryNumbered, Written, CallTypes,
          StoreTypes, JournalTypes
  <2> QED BY <2>2 DEF Step, Lives
<1>8. ASSUME NEW c \in Callers, StoreEntry(c) PROVE Step
  <2>1. Others(c)
    BY <1>8, <1>a DEF StoreEntry, Goto, Carry, Return, CallTypes, Others, GoesOn
  <2>2. EntryStored(c)
    BY <1>8, <2>1, <1>a DEF StoreEntry, Goto, Carry, Return, EntryStored, Written,
          Ends, GoesOn, CallTypes, StoreTypes, JournalTypes
  <2> QED BY <2>2 DEF Step, Lives
<1>9. ASSUME NEW c \in Callers, Compact(c) PROVE Step
  <2>1. Others(c)
    BY <1>9, <1>a DEF Compact, Dropped, Return, CallTypes, Others, GoesOn
  <2>2. EntryCompacted(c)
    BY <1>9, <2>1, <1>a DEF Compact, Dropped, Return, EntryCompacted, Written, Gone,
          Ends, CallTypes, StoreTypes, JournalTypes
  <2> QED BY <2>2 DEF Step, Lives
<1>10. ASSUME NEW c \in Callers, GetScratch(c) PROVE Step
  <2>1. jk' = jk /\ stale' = stale
    BY <1>10, <1>a, <1>b DEF GetScratch, Answer, Goto, Carry, CallTypes
  <2>2. \A d \in Callers : d # c => pc'[d] = pc[d] /\ key'[d] = key[d] /\ val'[d] = val[d]
    BY <1>10, <1>a DEF GetScratch, Answer, Goto, Carry, CallTypes
  <2>3. pc[c] \notin Numbered /\ pc'[c] \in Getting \union {"idle"}
    BY <1>10, <1>a DEF GetScratch, Answer, Goto, Carry, CallTypes
  <2>4. UNCHANGED <<setup, closed, journalVars, remote, indexVars, flushVars, dJkey,
        dJval, dAcked, countVars, acked>>
    BY <1>10 DEF GetScratch
  <2>5. \A d \in Callers :
          \/ GoesOn(d, pc[d])
          \/ pc[d] \in Putting /\ pc'[d] \in Putting /\ GoesOn(d, pc'[d])
          \/ pc[d] \in Deleting /\ pc'[d] \in Deleting /\ GoesOn(d, pc'[d])
          \/ pc[d] \notin Numbered /\ pc'[d] \in Getting \union {"idle"}
    BY <2>1, <2>2, <2>3 DEF GoesOn
  <2> QED BY <2>1, <2>4, <2>5 DEF Quiet, Step, Lives
<1>11. ASSUME NEW c \in Callers, GetLocal(c) PROVE Step
  <2>1. jk' = jk /\ stale' = stale
    BY <1>11, <1>a, <1>b DEF GetLocal, Answer, Goto, Carry, CallTypes
  <2>2. \A d \in Callers : d # c => pc'[d] = pc[d] /\ key'[d] = key[d] /\ val'[d] = val[d]
    BY <1>11, <1>a DEF GetLocal, Answer, Goto, Carry, CallTypes
  <2>3. pc[c] \notin Numbered /\ pc'[c] \in Getting \union {"idle"}
    BY <1>11, <1>a DEF GetLocal, Answer, Goto, Carry, CallTypes
  <2>4. UNCHANGED <<setup, closed, journalVars, remote, indexVars, flushVars, dJkey,
        dJval, dAcked, countVars, acked>>
    BY <1>11 DEF GetLocal
  <2>5. \A d \in Callers :
          \/ GoesOn(d, pc[d])
          \/ pc[d] \in Putting /\ pc'[d] \in Putting /\ GoesOn(d, pc'[d])
          \/ pc[d] \in Deleting /\ pc'[d] \in Deleting /\ GoesOn(d, pc'[d])
          \/ pc[d] \notin Numbered /\ pc'[d] \in Getting \union {"idle"}
    BY <2>1, <2>2, <2>3 DEF GoesOn
  <2> QED BY <2>1, <2>4, <2>5 DEF Quiet, Step, Lives
<1>12. ASSUME NEW c \in Callers, GetRemote(c) PROVE Step
  <2>1. jk' = jk /\ stale' = stale
    BY <1>12, <1>a, <1>b DEF GetRemote, Unanswered, FallBack, Answer, Carry, Return,
          CallTypes
  <2>2. \A d \in Callers : d # c => pc'[d] = pc[d] /\ key'[d] = key[d] /\ val'[d] = val[d]
    BY <1>12, <1>a DEF GetRemote, Unanswered, FallBack, Answer, Carry, Return, CallTypes
  <2>3. pc[c] \notin Numbered /\ pc'[c] \in Getting \union {"idle"}
    BY <1>12, <1>a DEF GetRemote, Unanswered, FallBack, Answer, Carry, Return, CallTypes
  <2>4. UNCHANGED <<setup, closed, journalVars, remote, indexVars, flushVars, dJkey,
        dJval, dAcked, countVars, acked>>
    BY <1>12 DEF GetRemote
  <2>5. \A d \in Callers :
          \/ GoesOn(d, pc[d])
          \/ pc[d] \in Putting /\ pc'[d] \in Putting /\ GoesOn(d, pc'[d])
          \/ pc[d] \in Deleting /\ pc'[d] \in Deleting /\ GoesOn(d, pc'[d])
          \/ pc[d] \notin Numbered /\ pc'[d] \in Getting \union {"idle"}
    BY <2>1, <2>2, <2>3 DEF GoesOn
  <2> QED BY <2>1, <2>4, <2>5 DEF Quiet, Step, Lives
<1>13. ASSUME NEW c \in Callers, Install(c) PROVE Step
  <2>1. jk' = jk /\ stale' = stale
    BY <1>13, <1>a, <1>b DEF Install, Goto, Carry, CallTypes
  <2>2. \A d \in Callers : d # c => pc'[d] = pc[d] /\ key'[d] = key[d] /\ val'[d] = val[d]
    BY <1>13, <1>a DEF Install, Goto, Carry, CallTypes
  <2>3. pc[c] \notin Numbered /\ pc'[c] \in Getting \union {"idle"}
    BY <1>13, <1>a DEF Install, Goto, Carry, CallTypes
  <2>4. UNCHANGED <<setup, closed, journalVars, remote, indexVars, flushVars, dJkey,
        dJval, dAcked, countVars, acked>>
    BY <1>13 DEF Install
  <2>5. \A d \in Callers :
          \/ GoesOn(d, pc[d])
          \/ pc[d] \in Putting /\ pc'[d] \in Putting /\ GoesOn(d, pc'[d])
          \/ pc[d] \in Deleting /\ pc'[d] \in Deleting /\ GoesOn(d, pc'[d])
          \/ pc[d] \notin Numbered /\ pc'[d] \in Getting \union {"idle"}
    BY <2>1, <2>2, <2>3 DEF GoesOn
  <2> QED BY <2>1, <2>4, <2>5 DEF Quiet, Step, Lives
<1>14. ASSUME NEW c \in Callers, Promote(c) PROVE Step
  <2>1. jk' = jk /\ stale' = stale
    BY <1>14, <1>a, <1>b DEF Promote, Answer, Carry, CallTypes
  <2>2. \A d \in Callers : d # c => pc'[d] = pc[d] /\ key'[d] = key[d] /\ val'[d] = val[d]
    BY <1>14, <1>a DEF Promote, Answer, Carry, CallTypes
  <2>3. pc[c] \notin Numbered /\ pc'[c] \in Getting \union {"idle"}
    BY <1>14, <1>a DEF Promote, Answer, Carry, CallTypes
  <2>4. UNCHANGED <<setup, closed, journalVars, remote, indexVars, flushVars, dJkey,
        dJval, dAcked, countVars, acked>>
    BY <1>14 DEF Promote
  <2>5. \A d \in Callers :
          \/ GoesOn(d, pc[d])
          \/ pc[d] \in Putting /\ pc'[d] \in Putting /\ GoesOn(d, pc'[d])
          \/ pc[d] \in Deleting /\ pc'[d] \in Deleting /\ GoesOn(d, pc'[d])
          \/ pc[d] \notin Numbered /\ pc'[d] \in Getting \union {"idle"}
    BY <2>1, <2>2, <2>3 DEF GoesOn
  <2> QED BY <2>1, <2>4, <2>5 DEF Quiet, Step, Lives
<1>15. ASSUME NEW c \in Callers, GetReturns(c) PROVE Step
  <2>1. jk' = jk /\ stale' = stale
    BY <1>15, <1>a, <1>b DEF GetReturns, Return, CallTypes
  <2>2. \A d \in Callers : d # c => pc'[d] = pc[d] /\ key'[d] = key[d] /\ val'[d] = val[d]
    BY <1>15, <1>a DEF GetReturns, Return, CallTypes
  <2>3. pc[c] \notin Numbered /\ pc'[c] \in Getting \union {"idle"}
    BY <1>15, <1>a DEF GetReturns, Return, CallTypes
  <2>4. UNCHANGED <<setup, closed, journalVars, remote, indexVars, flushVars, dJkey,
        dJval, dAcked, countVars, acked>>
    BY <1>15 DEF GetReturns
  <2>5. \A d \in Callers :
          \/ GoesOn(d, pc[d])
          \/ pc[d] \in Putting /\ pc'[d] \in Putting /\ GoesOn(d, pc'[d])
          \/ pc[d] \in Deleting /\ pc'[d] \in Deleting /\ GoesOn(d, pc'[d])
          \/ pc[d] \notin Numbered /\ pc'[d] \in Getting \union {"idle"}
    BY <2>1, <2>2, <2>3 DEF GoesOn
  <2> QED BY <2>1, <2>4, <2>5 DEF Quiet, Step, Lives
<1>16. ASSUME NEW c \in Callers, DeleteLocal(c) PROVE Step
  <2>1. jk' = jk /\ stale' = stale
    BY <1>16, <1>a, <1>b DEF DeleteLocal, Goto, Carry, CallTypes
  <2>2. \A d \in Callers : d # c => pc'[d] = pc[d] /\ key'[d] = key[d] /\ val'[d] = val[d]
    BY <1>16, <1>a DEF DeleteLocal, Goto, Carry, CallTypes
  <2>3. key'[c] = key[c] /\ val'[c] = val[c] /\ pc[c] \in Deleting /\ pc'[c] \in Deleting
    BY <1>16, <1>a DEF DeleteLocal, Goto, Carry, CallTypes
  <2>4. UNCHANGED <<setup, closed, journalVars, remote, indexVars, flushVars, dJkey,
        dJval, dAcked, countVars, acked>>
    BY <1>16 DEF DeleteLocal
  <2>5. \A d \in Callers :
          \/ GoesOn(d, pc[d])
          \/ pc[d] \in Putting /\ pc'[d] \in Putting /\ GoesOn(d, pc'[d])
          \/ pc[d] \in Deleting /\ pc'[d] \in Deleting /\ GoesOn(d, pc'[d])
          \/ pc[d] \notin Numbered /\ pc'[d] \in Getting \union {"idle"}
    BY <2>1, <2>2, <2>3 DEF GoesOn
  <2> QED BY <2>1, <2>4, <2>5 DEF Quiet, Step, Lives
<1>17. ASSUME NEW c \in Callers, DeleteRemote(c) PROVE Step
  <2>1. Others(c)
    BY <1>17, <1>a DEF DeleteRemote, Return, CallTypes, Others, GoesOn
  <2>2. RemoteCleared(c)
    BY <1>17, <2>1, <1>a DEF DeleteRemote, Return, RemoteCleared, Written, Ends,
          CallTypes, StoreTypes, JournalTypes
  <2> QED BY <2>2 DEF Step, Lives
<1>18. CASE FlushBegin
  <2>1. FlushStarts
    BY <1>18, <1>a DEF FlushBegin, Listing, Pending, FlushStarts, NoCallMoves
  <2> QED BY <2>1 DEF Step, Lives
<1>19. CASE FlushTake
  <2>1. EntryTaken
    BY <1>19, <1>a DEF FlushTake, OldestFirst, EntryTaken, NoCallMoves, Written,
          StoreTypes, JournalTypes
  <2> QED BY <2>1 DEF Step, Lives
<1>20. CASE FlushPutOK
  <2>1. EntrySent
    BY <1>20, <1>a DEF FlushPutOK, EntrySent, NoCallMoves, Written, StoreTypes,
          JournalTypes
  <2> QED BY <2>1 DEF Step, Lives
<1>21. CASE FlushPutFails
  <2>1. EntrySent
    BY <1>21, <1>a DEF FlushPutFails, AfterError, EntrySent, NoCallMoves, Written,
          StoreTypes, JournalTypes
  <2> QED BY <2>1 DEF Step, Lives
<1>22. CASE FlushDrop
  <2>1. EntryFlushed
    BY <1>22, <1>a DEF FlushDrop, DropFlushed, Dropped, EntryFlushed, NoCallMoves,
          Written, Gone, StoreTypes, JournalTypes
  <2> QED BY <2>1 DEF Step, Lives
<1>23. CASE FlushIndex
  <2>1. IndexCleared
    BY <1>23, <1>a DEF FlushIndex, IndexCleared, NoCallMoves, Written, StoreTypes,
          JournalTypes
  <2> QED BY <2>1 DEF Step, Lives
<1>24. CASE HealthChanges
  BY <1>24 DEF HealthChanges, Quiet, GoesOn, Step, Lives
<1>25. CASE Sync
  <2>1. DiskWritten
    BY <1>25, <1>a DEF Sync, Synced, DiskWritten, NoCallMoves, Written, StoreTypes,
          JournalTypes
  <2> QED BY <2>1 DEF Step, Lives
<1>26. CASE Close
  <2>1. DiskWritten
    BY <1>26, <1>a DEF Close, Synced, DiskWritten, NoCallMoves, Written, StoreTypes,
          JournalTypes
  <2> QED BY <2>1 DEF Step, Lives
<1>27. CASE Crash
  <2>1. Restarts
    BY <1>27, <1>a, Recovered DEF Crash, Restarts, Ends, Base
  <2> QED BY <2>1 DEF Step, Lives
<1>28. ASSUME NEW k \in Keys, Expire(k) PROVE Step
  BY <1>28 DEF Expire, Quiet, GoesOn, Step, Lives
<1>29. CASE UNCHANGED vars
  BY <1>29 DEF vars, Quiet, GoesOn, Step, Lives
<1> QED BY <1>1, <1>2, <1>3, <1>4, <1>5, <1>6, <1>7, <1>8, <1>9, <1>10, <1>11, <1>12,
      <1>13, <1>14, <1>15, <1>16, <1>17, <1>18, <1>19, <1>20, <1>21, <1>22, <1>23,
      <1>24, <1>25, <1>26, <1>27, <1>28, <1>29 DEF Next, Call, CallStep, FlushStep

-----------------------------------------------------------------------------
(* Bounds.                                                                     *)

\* Values are numbered by writes, and a Put's own value is one of them.
Values ==
  /\ \A n \in Entry : jval[n] <= writes /\ dJval[n] <= writes
  /\ \A k \in Keys : remote[k] <= writes /\ acked[k] <= writes /\ dAcked[k] <= writes
  /\ fval <= writes
  /\ \A c \in Callers : pc[c] \in Putting \union Numbered => val[c] \in 1 .. writes

\* Entries are numbered by seq.
Places ==
  /\ \A n \in fkeys : n <= seq
  /\ fcur <= seq
  /\ \A c \in Callers : stale[c] <= seq
  /\ \A k \in Keys : byKey[k] <= seq

\* A Put is in its key's write mode, a cached Get in its key's read mode, and only the
\* modes that write synchronously call the remote.
ModesKept ==
  \A c \in Callers :
    /\ pc[c] \in Putting \union Numbered => mode[c] = WriteMode(key[c])
    /\ pc[c] = "putRemote" => mode[c] \in {"through", "authoritative"}
    /\ pc[c] \in Getting /\ mode[c] = "cached" => ReadMode(key[c]) = "cached"

\* Calls keep to their modes.
LEMMA ModesStep ==
  Base /\ ModesKept /\ [Next]_vars => ModesKept'
<1> SUFFICES ASSUME Base, ModesKept, [Next]_vars PROVE ModesKept'
  OBVIOUS
<1> USE DEF setup, Putting, Numbered, Getting, Deleting, callVars
<1>a. CallTypes
  BY Types DEF Base
<1>b. ModesKept
  OBVIOUS
<1>1. ASSUME NEW c \in Callers, NEW k \in Keys, PutBegin(c, k) PROVE ModesKept'
  BY <1>1, <1>a DEF PutBegin, ModesKept, CallTypes, ReadMode, WriteMode
<1>2. ASSUME NEW c \in Callers, NEW k \in Keys, GetBegin(c, k) PROVE ModesKept'
  BY <1>2, <1>a DEF GetBegin, ModesKept, CallTypes, ReadMode, WriteMode
<1>3. ASSUME NEW c \in Callers, NEW k \in Keys, DeleteBegin(c, k) PROVE ModesKept'
  BY <1>3, <1>a DEF DeleteBegin, ModesKept, CallTypes, ReadMode, WriteMode
<1>4. ASSUME NEW c \in Callers, PutLocal(c) PROVE ModesKept'
  BY <1>4, <1>a DEF PutLocal, Goto, Carry, Return, ModesKept, CallTypes, ReadMode,
        WriteMode
<1>5. ASSUME NEW c \in Callers, PutScratch(c) PROVE ModesKept'
  BY <1>5, <1>a DEF PutScratch, ScratchAfterPut, Goto, Carry, Return, ModesKept,
        CallTypes, ReadMode, WriteMode
<1>6. ASSUME NEW c \in Callers, PutRemote(c) PROVE ModesKept'
  BY <1>6, <1>a DEF PutRemote, Goto, Carry, Return, ModesKept, CallTypes, ReadMode,
        WriteMode
<1>7. ASSUME NEW c \in Callers, Enqueue(c) PROVE ModesKept'
  BY <1>7, <1>a DEF Enqueue, StaleEntry, ModesKept, CallTypes, ReadMode, WriteMode
<1>8. ASSUME NEW c \in Callers, StoreEntry(c) PROVE ModesKept'
  BY <1>8, <1>a DEF StoreEntry, Goto, Carry, Return, ModesKept, CallTypes, ReadMode,
        WriteMode
<1>9. ASSUME NEW c \in Callers, Compact(c) PROVE ModesKept'
  BY <1>9, <1>a DEF Compact, Dropped, Return, ModesKept, CallTypes, ReadMode, WriteMode
<1>10. ASSUME NEW c \in Callers, GetScratch(c) PROVE ModesKept'
  BY <1>10, <1>a DEF GetScratch, Answer, Goto, Carry, ModesKept, CallTypes, ReadMode,
        WriteMode
<1>11. ASSUME NEW c \in Callers, GetLocal(c) PROVE ModesKept'
  BY <1>11, <1>a DEF GetLocal, Answer, Goto, Carry, ModesKept, CallTypes, ReadMode,
        WriteMode
<1>12. ASSUME NEW c \in Callers, GetRemote(c) PROVE ModesKept'
  BY <1>12, <1>a DEF GetRemote, Unanswered, FallBack, Answer, Carry, Return,
        ModesKept, CallTypes, ReadMode, WriteMode
<1>13. ASSUME NEW c \in Callers, Install(c) PROVE ModesKept'
  BY <1>13, <1>a DEF Install, Goto, Carry, ModesKept, CallTypes, ReadMode, WriteMode
<1>14. ASSUME NEW c \in Callers, Promote(c) PROVE ModesKept'
  BY <1>14, <1>a DEF Promote, Answer, Carry, ModesKept, CallTypes, ReadMode, WriteMode
<1>15. ASSUME NEW c \in Callers, GetReturns(c) PROVE ModesKept'
  BY <1>15, <1>a DEF GetReturns, Return, ModesKept, CallTypes, ReadMode, WriteMode
<1>16. ASSUME NEW c \in Callers, DeleteLocal(c) PROVE ModesKept'
  BY <1>16, <1>a DEF DeleteLocal, Goto, Carry, ModesKept, CallTypes, ReadMode, WriteMode
<1>17. ASSUME NEW c \in Callers, DeleteRemote(c) PROVE ModesKept'
  BY <1>17, <1>a DEF DeleteRemote, Return, ModesKept, CallTypes, ReadMode, WriteMode
<1>18. CASE Crash
  BY <1>18, <1>a DEF Crash, ModesKept, CallTypes, ReadMode, WriteMode
<1>19. CASE UNCHANGED <<setup, callVars>>
  BY <1>19, <1>b DEF ModesKept, ReadMode, WriteMode
<1> QED
  BY <1>1, <1>2, <1>3, <1>4, <1>5, <1>6, <1>7, <1>8, <1>9, <1>10, <1>11, <1>12, <1>13,
        <1>14, <1>15, <1>16, <1>17, <1>18, <1>19
  DEF Next, Call, CallStep, FlushStep, vars, FlushBegin, FlushTake, FlushPutOK,
        FlushPutFails, FlushDrop, FlushIndex, HealthChanges, Expire, Sync, Close

\* Values stay below their counter.
LEMMA ValuesStep ==
  Base /\ Values /\ Step => Values'
<1> SUFFICES ASSUME Base, Values, Step PROVE Values'
  OBVIOUS
<1> USE DEF setup, journalVars, indexVars, flushVars, diskJournal, countVars, Putting,
      Numbered, Getting, Deleting
<1>1. CASE Quiet
  BY <1>1, Elements DEF Quiet, GoesOn, Values
<1>2. ASSUME NEW c \in Callers, NEW k \in Keys, PutStarts(c, k) PROVE Values'
  BY <1>2, Elements DEF PutStarts, Others, GoesOn, Values
<1>3. ASSUME NEW c \in Callers, NEW k \in Keys, DeleteStarts(c, k) PROVE Values'
  BY <1>3, Elements DEF DeleteStarts, Written, Others, GoesOn, Values
<1>4. ASSUME NEW c \in Callers, RemoteWritten(c) PROVE Values'
  BY <1>4, Elements DEF RemoteWritten, Written, Others, GoesOn, Ends, Values
<1>5. ASSUME NEW c \in Callers, EntryNumbered(c) PROVE Values'
  BY <1>5, Elements DEF EntryNumbered, Written, Others, GoesOn, Values
<1>6. ASSUME NEW c \in Callers, EntryStored(c) PROVE Values'
  BY <1>6, Elements DEF EntryStored, Written, Others, GoesOn, Ends, Values
<1>7. ASSUME NEW c \in Callers, EntryCompacted(c) PROVE Values'
  BY <1>7, Elements DEF EntryCompacted, Gone, Written, Others, GoesOn, Ends, Values
<1>8. ASSUME NEW c \in Callers, RemoteCleared(c) PROVE Values'
  BY <1>8, Elements DEF RemoteCleared, Written, Others, GoesOn, Ends, Values
<1>9. CASE FlushStarts
  BY <1>9, Elements DEF FlushStarts, NoCallMoves, Values
<1>10. CASE EntryTaken
  BY <1>10, Elements DEF EntryTaken, NoCallMoves, Values
<1>11. CASE EntrySent
  BY <1>11, Elements DEF EntrySent, NoCallMoves, Written, Values
<1>12. CASE EntryFlushed
  BY <1>12, Elements DEF EntryFlushed, Gone, Written, NoCallMoves, Values
<1>13. CASE IndexCleared
  BY <1>13, Elements DEF IndexCleared, Written, NoCallMoves, Values
<1>14. CASE DiskWritten
  BY <1>14, Elements DEF DiskWritten, NoCallMoves, Values
<1>15. CASE Restarts
  BY <1>15, Elements DEF Restarts, Ends, Values
<1> QED BY <1>1, <1>2, <1>3, <1>4, <1>5, <1>6, <1>7, <1>8, <1>9, <1>10, <1>11, <1>12,
      <1>13, <1>14, <1>15 DEF Step, Lives

\* Entry numbers stay below theirs.
LEMMA PlacesStep ==
  Base /\ Places /\ Step => Places'
<1> SUFFICES ASSUME Base, Places, Step PROVE Places'
  OBVIOUS
<1> USE DEF setup, journalVars, indexVars, flushVars, diskJournal, countVars
<1>1. CASE Quiet
  BY <1>1, Elements DEF Quiet, GoesOn, Places
<1>2. ASSUME NEW c \in Callers, NEW k \in Keys, PutStarts(c, k) PROVE Places'
  BY <1>2, Elements DEF PutStarts, Others, GoesOn, Places
<1>3. ASSUME NEW c \in Callers, NEW k \in Keys, DeleteStarts(c, k) PROVE Places'
  BY <1>3, Elements DEF DeleteStarts, Written, Others, GoesOn, Places
<1>4. ASSUME NEW c \in Callers, RemoteWritten(c) PROVE Places'
  BY <1>4, Elements DEF RemoteWritten, Written, Others, GoesOn, Ends, Places
<1>5. ASSUME NEW c \in Callers, EntryNumbered(c) PROVE Places'
  BY <1>5, Elements DEF EntryNumbered, Written, Others, GoesOn, Places
<1>6. ASSUME NEW c \in Callers, EntryStored(c) PROVE Places'
  BY <1>6, Elements DEF EntryStored, Written, Others, GoesOn, Ends, Places
<1>7. ASSUME NEW c \in Callers, EntryCompacted(c) PROVE Places'
  BY <1>7, Elements DEF EntryCompacted, Gone, Written, Others, GoesOn, Ends, Places
<1>8. ASSUME NEW c \in Callers, RemoteCleared(c) PROVE Places'
  BY <1>8, Elements DEF RemoteCleared, Written, Others, GoesOn, Ends, Places
<1>9. CASE FlushStarts
  BY <1>9, Elements DEF FlushStarts, NoCallMoves, Places, Pending, Base, Numbers,
        OneLife
<1>10. CASE EntryTaken
  BY <1>10, Elements DEF EntryTaken, NoCallMoves, Places
<1>11. CASE EntrySent
  BY <1>11, Elements DEF EntrySent, NoCallMoves, Written, Places
<1>12. CASE EntryFlushed
  BY <1>12, Elements DEF EntryFlushed, Gone, Written, NoCallMoves, Places
<1>13. CASE IndexCleared
  BY <1>13, Elements DEF IndexCleared, Written, NoCallMoves, Places
<1>14. CASE DiskWritten
  BY <1>14, Elements DEF DiskWritten, NoCallMoves, Places
<1>15. CASE Restarts
  BY <1>15, Elements DEF Restarts, Ends, Places
<1> QED BY <1>1, <1>2, <1>3, <1>4, <1>5, <1>6, <1>7, <1>8, <1>9, <1>10, <1>11, <1>12,
      <1>13, <1>14, <1>15 DEF Step, Lives

-----------------------------------------------------------------------------
(* Order.                                                                      *)

\* A number that has been given out and not yet stored is in the index for its call's key
\* alone, and no other call has it.
NumberOwned(d) ==
  /\ byKey[key[d]] = jk[d]
  /\ \A k \in Keys : byKey[k] = jk[d] => k = key[d]
  /\ \A c \in Callers : stale[c] # jk[d] /\ (jk[c] = jk[d] => c = d)

\* In one life of the process it is also later than every entry of the key that is stored
\* or in the flusher's hands.
EntryOwned(d) ==
  /\ jkey[jk[d]] = NoKey /\ jk[d] \notin fkeys /\ jk[d] # fcur
  /\ \A n \in Entry : jkey[n] = key[d] => n < jk[d]
  /\ fpc \in {"put", "drop"} /\ fkey = key[d] => fcur < jk[d]

\* So are they for every call between the two.
NumbersOwned == \A d \in Callers : pc[d] = "store" => NumberOwned(d)
EntriesOwned == \A d \in Callers : pc[d] = "store" => EntryOwned(d)

\* An unstored number stays with its call,
LEMMA NumbersOwnedStep ==
  OneUser /\ Base /\ Places /\ (OneLife => EntriesOwned) /\ NumbersOwned /\ Step => NumbersOwned'
<1> SUFFICES ASSUME OneUser, Base, Places, OneLife => EntriesOwned, NumbersOwned,
      Step PROVE NumbersOwned'
  OBVIOUS
<1> USE DEF setup, journalVars, indexVars, flushVars, diskJournal, countVars, Putting,
      Numbered, Getting, Deleting
<1>a. \A c, d \in Callers : key[c] = key[d] /\ key[c] \in Keys => c = d
  BY Alone
<1>b. \A c \in Callers : pc[c] \in Numbered => jk[c] \in Entry
  BY DEF Base, CallsOwned
<1>1. CASE Quiet
  BY <1>1, <1>b, Elements DEF Quiet, GoesOn, NumbersOwned, NumberOwned
<1>2. ASSUME NEW c \in Callers, NEW k \in Keys, PutStarts(c, k) PROVE NumbersOwned'
  BY <1>2, <1>b, Elements DEF PutStarts, Others, GoesOn, NumbersOwned, NumberOwned
<1>3. ASSUME NEW c \in Callers, NEW k \in Keys, DeleteStarts(c, k) PROVE NumbersOwned'
  BY <1>3, <1>b, Elements DEF DeleteStarts, Written, Others, GoesOn, NumbersOwned,
        NumberOwned
<1>4. ASSUME NEW c \in Callers, RemoteWritten(c) PROVE NumbersOwned'
  BY <1>4, <1>b, Elements DEF RemoteWritten, Written, Others, GoesOn, Ends,
        NumbersOwned, NumberOwned
<1>5. ASSUME NEW c \in Callers, EntryNumbered(c) PROVE NumbersOwned'
  <2> SUFFICES ASSUME NEW d \in Callers, pc'[d] = "store" PROVE NumberOwned(d)'
    BY DEF NumbersOwned
  <2> USE <1>5 DEF EntryNumbered, Written, Others, GoesOn
  <2>0. seq + 1 \in Entry /\ key[c] \in Keys
    BY NumberLeft, Elements DEF Entry
  <2>1. CASE d = c
    <3>1. \A e \in Callers : jk[e] <= seq
      BY DEF Base, Numbers
    <3> QED BY <2>0, <2>1, <3>1, <1>a, Elements DEF NumberOwned, Places
  <2>2. CASE d # c
    <3>1. pc[d] = "store" /\ NumberOwned(d) /\ key[d] # key[c] /\ jk[d] <= seq
      BY <2>0, <2>2, <1>a DEF NumbersOwned, Base, Numbers
    <3> QED BY <2>0, <2>2, <3>1, Elements DEF NumberOwned
  <2> QED BY <2>1, <2>2
<1>6. ASSUME NEW c \in Callers, EntryStored(c) PROVE NumbersOwned'
  BY <1>6, <1>a, <1>b, Elements DEF EntryStored, Written, Others, GoesOn, Ends,
        NumbersOwned, NumberOwned
<1>7. ASSUME NEW c \in Callers, EntryCompacted(c) PROVE NumbersOwned'
  BY <1>7, <1>b, Elements DEF EntryCompacted, Others, GoesOn, Ends, NumbersOwned,
        NumberOwned
<1>8. ASSUME NEW c \in Callers, RemoteCleared(c) PROVE NumbersOwned'
  BY <1>8, <1>b, Elements DEF RemoteCleared, Others, GoesOn, Ends, NumbersOwned,
        NumberOwned
<1>9. CASE FlushStarts
  BY <1>9 DEF FlushStarts, NoCallMoves, NumbersOwned, NumberOwned
<1>10. CASE EntryTaken
  BY <1>10 DEF EntryTaken, NoCallMoves, NumbersOwned, NumberOwned
<1>11. CASE EntrySent
  BY <1>11 DEF EntrySent, NoCallMoves, NumbersOwned, NumberOwned
<1>12. CASE EntryFlushed
  BY <1>12 DEF EntryFlushed, NoCallMoves, NumbersOwned, NumberOwned
<1>13. CASE IndexCleared
  <2>1. EntriesOwned
    BY <1>13 DEF IndexCleared, Base, NothingListed, OneLife
  <2> QED BY <1>13, <2>1, <1>b, Elements DEF IndexCleared, Written, NoCallMoves,
        NumbersOwned, NumberOwned, EntriesOwned, EntryOwned
<1>14. CASE DiskWritten
  BY <1>14 DEF DiskWritten, NoCallMoves, NumbersOwned, NumberOwned
<1>15. CASE Restarts
  BY <1>15 DEF Restarts, Ends, NumbersOwned
<1> QED BY <1>1, <1>2, <1>3, <1>4, <1>5, <1>6, <1>7, <1>8, <1>9, <1>10, <1>11, <1>12,
      <1>13, <1>14, <1>15 DEF Step, Lives

\* and, while the process lives, later than its key's entries.
LEMMA EntriesOwnedStep ==
  OneUser /\ Base /\ Places /\ NumbersOwned /\ OneLife /\ EntriesOwned /\ Lives => EntriesOwned'
<1> SUFFICES ASSUME OneUser, Base, Places, NumbersOwned, OneLife, EntriesOwned,
      Lives PROVE EntriesOwned'
  OBVIOUS
<1> USE DEF setup, journalVars, indexVars, flushVars, diskJournal, countVars, Putting,
      Numbered, Getting, Deleting
<1>a. \A c, d \in Callers : key[c] = key[d] /\ key[c] \in Keys => c = d
  BY Alone
<1>b. \A c \in Callers : pc[c] \in Numbered => jk[c] \in Entry
  BY DEF Base, CallsOwned
<1>1. CASE Quiet
  BY <1>1, <1>b, Elements DEF Quiet, GoesOn, EntriesOwned, EntryOwned
<1>2. ASSUME NEW c \in Callers, NEW k \in Keys, PutStarts(c, k) PROVE EntriesOwned'
  BY <1>2, <1>b, Elements DEF PutStarts, Others, GoesOn, EntriesOwned, EntryOwned
<1>3. ASSUME NEW c \in Callers, NEW k \in Keys, DeleteStarts(c, k) PROVE EntriesOwned'
  BY <1>3, <1>b, Elements DEF DeleteStarts, Others, GoesOn, EntriesOwned, EntryOwned
<1>4. ASSUME NEW c \in Callers, RemoteWritten(c) PROVE EntriesOwned'
  BY <1>4, <1>b, Elements DEF RemoteWritten, Others, GoesOn, Ends, EntriesOwned,
        EntryOwned
<1>5. ASSUME NEW c \in Callers, EntryNumbered(c) PROVE EntriesOwned'
  <2> SUFFICES ASSUME NEW d \in Callers, pc'[d] = "store" PROVE EntryOwned(d)'
    BY DEF EntriesOwned
  <2> USE <1>5 DEF EntryNumbered, Others, GoesOn
  <2>0. seq + 1 \in Entry /\ key[c] \in Keys
    BY NumberLeft, Elements DEF Entry
  <2>1. CASE d = c
    <3>1. \A n \in Entry : jkey[n] # NoKey => n <= seq
      BY DEF Base, Numbers
    <3> QED BY <2>0, <2>1, <3>1, <1>a, Elements DEF EntryOwned, Places
  <2>2. CASE d # c
    <3>1. pc[d] = "store" /\ EntryOwned(d)
      BY <2>2 DEF EntriesOwned
    <3> QED BY <2>2, <3>1 DEF EntryOwned
  <2> QED BY <2>1, <2>2
<1>6. ASSUME NEW c \in Callers, EntryStored(c) PROVE EntriesOwned'
  BY <1>6, <1>a, <1>b, Elements DEF EntryStored, Written, Others, GoesOn, Ends,
        NumbersOwned, NumberOwned, EntriesOwned, EntryOwned
<1>7. ASSUME NEW c \in Callers, EntryCompacted(c) PROVE EntriesOwned'
  BY <1>7, <1>b, Elements DEF EntryCompacted, Gone, Written, Others, GoesOn, Ends,
        EntriesOwned, EntryOwned
<1>8. ASSUME NEW c \in Callers, RemoteCleared(c) PROVE EntriesOwned'
  BY <1>8, <1>b, Elements DEF RemoteCleared, Others, GoesOn, Ends, EntriesOwned,
        EntryOwned
<1>9. CASE FlushStarts
  BY <1>9, <1>b, Elements DEF FlushStarts, NoCallMoves, EntriesOwned, EntryOwned,
        Pending
<1>10. CASE EntryTaken
  BY <1>10, <1>b, Elements DEF EntryTaken, NoCallMoves, EntriesOwned, EntryOwned
<1>11. CASE EntrySent
  BY <1>11, <1>b, Elements DEF EntrySent, NoCallMoves, EntriesOwned, EntryOwned
<1>12. CASE EntryFlushed
  BY <1>12, <1>b, Elements DEF EntryFlushed, Gone, Written, NoCallMoves, EntriesOwned,
        EntryOwned
<1>13. CASE IndexCleared
  BY <1>13, <1>b, Elements DEF IndexCleared, NoCallMoves, EntriesOwned, EntryOwned
<1>14. CASE DiskWritten
  BY <1>14 DEF DiskWritten, NoCallMoves, EntriesOwned, EntryOwned
<1> QED BY <1>1, <1>2, <1>3, <1>4, <1>5, <1>6, <1>7, <1>8, <1>9, <1>10, <1>11, <1>12,
      <1>13, <1>14 DEF Lives

\* A call of k has a number it has not stored yet.
Storing(k) == \E c \in Callers : pc[c] = "store" /\ key[c] = k

\* While the store is open the index, unless its entry is still to be stored, and a call's
\* superseded entry are about the key they say, and what a call supersedes is older than
\* what it has stored.
IndexTrue ==
  \/ closed
  \/ /\ \A k \in Keys : byKey[k] # 0 /\ ~Storing(k) => jkey[byKey[k]] \in {k, NoKey}
     /\ \A c \in Callers : stale[c] # 0 => jkey[stale[c]] \in {key[c], NoKey}
     /\ \A c \in Callers :
          pc[c] = "compact" /\ stale[c] # 0 /\ jkey[stale[c]] # NoKey => jval[stale[c]] < val[c]

\* Of two entries of a key the later holds the later value.
JournalOrdered ==
  \A n, m \in Entry :
    n < m /\ jkey[n] = jkey[m] /\ jkey[n] # NoKey => jval[n] < jval[m]

\* The value of a Put whose entry is not stored yet is newer than all there is of its key.
ValueFresh(c) ==
  /\ acked[key[c]] < val[c] /\ dAcked[key[c]] < val[c] /\ remote[key[c]] <= val[c]
  /\ \A n \in Entry : jkey[n] = key[c] => jval[n] < val[c]
  /\ fpc \in {"put", "drop"} /\ fkey = key[c] => fval < val[c]

ValuesFresh == \A c \in Callers : pc[c] \in Putting \union {"store"} => ValueFresh(c)

\* The flusher holds the oldest entry of its key; what it has dropped is gone.
InHand ==
  /\ fpc \in {"put", "drop", "index"} => fkey \in Keys /\ fcur \in Entry
  /\ fpc \in {"put", "drop"} =>
       /\ jkey[fcur] # NoKey => jkey[fcur] = fkey /\ jval[fcur] = fval
       /\ \A m \in Entry : jkey[m] = fkey => m >= fcur /\ (m > fcur => jval[m] > fval)
  /\ fpc = "index" /\ ~closed => jkey[fcur] = NoKey

\* With an entry the flusher has all the older ones of its key to do.
OlderToo ==
  closed \/ \A n \in fkeys, m \in Entry :
    m < n /\ jkey[n] # NoKey /\ jkey[m] = jkey[n] =>
      m \in fkeys \/ (fpc \in {"put", "drop"} /\ m = fcur)

\* A key being deleted has no acknowledged value.
DeletedUnclaimed ==
  \A c \in Callers : pc[c] \in Deleting => acked[key[c]] = 0 /\ dAcked[key[c]] = 0

\* The index stays true.
LEMMA IndexTrueStep ==
  OneUser /\ Base /\ Places /\ NumbersOwned /\ ValuesFresh /\ IndexTrue /\ Step => IndexTrue'
<1> SUFFICES ASSUME OneUser, Base, Places, NumbersOwned, ValuesFresh, IndexTrue,
      Step PROVE IndexTrue'
  OBVIOUS
<1> USE DEF setup, journalVars, indexVars, flushVars, diskJournal, countVars, Putting,
      Numbered, Getting, Deleting, Storing
<1>a. \A c, d \in Callers : key[c] = key[d] /\ key[c] \in Keys => c = d
  BY Alone
<1>b. \A c \in Callers : pc[c] \in Numbered => jk[c] \in Entry
  BY DEF Base, CallsOwned
<1>s. \A c \in Callers : stale[c] = 0 \/ stale[c] \in Entry
  BY DEF Base, TypeOK, Entry
<1>t. \A k \in Keys : byKey[k] = 0 \/ byKey[k] \in Entry
  BY DEF Base, TypeOK, Entry
<1>u. \A c \in Callers : pc[c] \notin Numbered => stale[c] = 0
  BY DEF Base, CallsOwned
<1>1. CASE Quiet
  BY <1>1, <1>a, <1>b, <1>s, <1>t, <1>u, Elements DEF Quiet, GoesOn, IndexTrue
<1>2. ASSUME NEW c \in Callers, NEW k \in Keys, PutStarts(c, k) PROVE IndexTrue'
  BY <1>2, <1>a, <1>b, <1>s, <1>t, <1>u, Elements DEF PutStarts, Others, GoesOn,
        IndexTrue
<1>3. ASSUME NEW c \in Callers, NEW k \in Keys, DeleteStarts(c, k) PROVE IndexTrue'
  BY <1>3, <1>a, <1>b, <1>s, <1>t, <1>u, Elements DEF DeleteStarts, Written, Others,
        GoesOn, IndexTrue
<1>4. ASSUME NEW c \in Callers, RemoteWritten(c) PROVE IndexTrue'
  BY <1>4, <1>a, <1>b, <1>s, <1>t, <1>u, Elements DEF RemoteWritten, Written, Others,
        GoesOn, Ends, IndexTrue
<1>5. ASSUME NEW c \in Callers, EntryNumbered(c) PROVE IndexTrue'
  BY <1>5, <1>a, <1>b, <1>s, <1>t, <1>u, Elements, NumberLeft DEF EntryNumbered,
        Written, Others, GoesOn, IndexTrue, Base, Numbers, Entry
<1>6. ASSUME NEW c \in Callers, EntryStored(c) PROVE IndexTrue'
  BY <1>6, <1>a, <1>b, <1>s, <1>t, <1>u, Elements DEF EntryStored, Written, Others,
        GoesOn, Ends, IndexTrue, NumbersOwned, NumberOwned, ValuesFresh, ValueFresh
<1>7. ASSUME NEW c \in Callers, EntryCompacted(c) PROVE IndexTrue'
  BY <1>7, <1>a, <1>b, <1>s, <1>t, <1>u, Elements DEF EntryCompacted, Gone, Written,
        Others, GoesOn, Ends, IndexTrue
<1>8. ASSUME NEW c \in Callers, RemoteCleared(c) PROVE IndexTrue'
  BY <1>8, <1>a, <1>b, <1>s, <1>t, <1>u, Elements DEF RemoteCleared, Written, Others,
        GoesOn, Ends, IndexTrue
<1>9. CASE FlushStarts
  BY <1>9, <1>a, <1>b, <1>s, <1>t, <1>u, Elements DEF FlushStarts, NoCallMoves,
        IndexTrue
<1>10. CASE EntryTaken
  BY <1>10, <1>a, <1>b, <1>s, <1>t, <1>u, Elements DEF EntryTaken, NoCallMoves,
        IndexTrue
<1>11. CASE EntrySent
  BY <1>11, <1>a, <1>b, <1>s, <1>t, <1>u, Elements DEF EntrySent, NoCallMoves,
        Written, IndexTrue
<1>12. CASE EntryFlushed
  BY <1>12, <1>a, <1>b, <1>s, <1>t, <1>u, Elements DEF EntryFlushed, Gone, Written,
        NoCallMoves, IndexTrue
<1>13. CASE IndexCleared
  BY <1>13, <1>a, <1>b, <1>s, <1>t, <1>u, Elements DEF IndexCleared, Written,
        NoCallMoves, IndexTrue
<1>14. CASE DiskWritten
  BY <1>14, <1>a, <1>b, <1>s, <1>t, <1>u, Elements DEF DiskWritten, NoCallMoves,
        IndexTrue
<1>15. CASE Restarts
  BY <1>15, Elements DEF Restarts, Ends, IndexTrue
<1> QED BY <1>1, <1>2, <1>3, <1>4, <1>5, <1>6, <1>7, <1>8, <1>9, <1>10, <1>11, <1>12,
      <1>13, <1>14, <1>15 DEF Step, Lives

\* The journal stays ordered.
LEMMA OrderedStep ==
  OneUser /\ Base /\ EntriesOwned /\ ValuesFresh /\ JournalOrdered /\ Lives => JournalOrdered'
<1> SUFFICES ASSUME OneUser, Base, EntriesOwned, ValuesFresh, JournalOrdered, Lives PROVE JournalOrdered'
  OBVIOUS
<1> USE DEF setup, journalVars, indexVars, flushVars, diskJournal, countVars, Putting,
      Numbered, Getting, Deleting
<1>a. \A c, d \in Callers : key[c] = key[d] /\ key[c] \in Keys => c = d
  BY Alone
<1>b. \A c \in Callers : pc[c] \in Numbered => jk[c] \in Entry
  BY DEF Base, CallsOwned
<1>1. CASE Quiet
  BY <1>1, Elements DEF Quiet, GoesOn, JournalOrdered
<1>2. ASSUME NEW c \in Callers, NEW k \in Keys, PutStarts(c, k) PROVE JournalOrdered'
  BY <1>2, Elements DEF PutStarts, Others, GoesOn, JournalOrdered
<1>3. ASSUME NEW c \in Callers, NEW k \in Keys, DeleteStarts(c, k) PROVE JournalOrdered'
  BY <1>3, Elements DEF DeleteStarts, Written, Others, GoesOn, JournalOrdered
<1>4. ASSUME NEW c \in Callers, RemoteWritten(c) PROVE JournalOrdered'
  BY <1>4, Elements DEF RemoteWritten, Written, Others, GoesOn, Ends, JournalOrdered
<1>5. ASSUME NEW c \in Callers, EntryNumbered(c) PROVE JournalOrdered'
  BY <1>5, Elements DEF EntryNumbered, Written, Others, GoesOn, JournalOrdered
<1>6. ASSUME NEW c \in Callers, EntryStored(c) PROVE JournalOrdered'
  BY <1>6, <1>a, <1>b, Elements DEF EntryStored, Written, Others, GoesOn, Ends,
        JournalOrdered, EntriesOwned, EntryOwned, ValuesFresh, ValueFresh
<1>7. ASSUME NEW c \in Callers, EntryCompacted(c) PROVE JournalOrdered'
  BY <1>7, Elements DEF EntryCompacted, Gone, Written, Others, GoesOn, Ends,
        JournalOrdered
<1>8. ASSUME NEW c \in Callers, RemoteCleared(c) PROVE JournalOrdered'
  BY <1>8, Elements DEF RemoteCleared, Written, Others, GoesOn, Ends, JournalOrdered
<1>9. CASE FlushStarts
  BY <1>9, Elements DEF FlushStarts, NoCallMoves, JournalOrdered
<1>10. CASE EntryTaken
  BY <1>10, Elements DEF EntryTaken, NoCallMoves, JournalOrdered
<1>11. CASE EntrySent
  BY <1>11, Elements DEF EntrySent, NoCallMoves, Written, JournalOrdered
<1>12. CASE EntryFlushed
  BY <1>12, Elements DEF EntryFlushed, Gone, Written, NoCallMoves, JournalOrdered
<1>13. CASE IndexCleared
  BY <1>13, Elements DEF IndexCleared, Written, NoCallMoves, JournalOrdered
<1>14. CASE DiskWritten
  BY <1>14, Elements DEF DiskWritten, NoCallMoves, JournalOrdered
<1> QED BY <1>1, <1>2, <1>3, <1>4, <1>5, <1>6, <1>7, <1>8, <1>9, <1>10, <1>11, <1>12,
      <1>13, <1>14 DEF Lives

\* A new value stays the newest.
LEMMA ValuesFreshStep ==
  OneUser /\ Base /\ Values /\ ValuesFresh /\ Step => ValuesFresh'
<1> SUFFICES ASSUME OneUser, Base, Values, ValuesFresh, Step PROVE ValuesFresh'
  OBVIOUS
<1> USE DEF setup, journalVars, indexVars, flushVars, diskJournal, countVars, Putting,
      Numbered, Getting, Deleting
<1>a. \A c, d \in Callers : key[c] = key[d] /\ key[c] \in Keys => c = d
  BY Alone
<1>b. \A c \in Callers : pc[c] \in Numbered => jk[c] \in Entry
  BY DEF Base, CallsOwned
<1>f. \A k \in Keys : \A c \in Users[k] : pc[c] = "idle" => \A d \in Callers : key[d] # k
  BY Alone
<1>1. CASE Quiet
  BY <1>1, <1>a, Elements DEF Quiet, GoesOn, ValuesFresh, ValueFresh
<1>2. ASSUME NEW c \in Callers, NEW k \in Keys, PutStarts(c, k) PROVE ValuesFresh'
  BY <1>2, <1>a, <1>f, Elements DEF PutStarts, Others, GoesOn, ValuesFresh,
        ValueFresh, Values
<1>3. ASSUME NEW c \in Callers, NEW k \in Keys, DeleteStarts(c, k) PROVE ValuesFresh'
  BY <1>3, <1>a, <1>f, Elements DEF DeleteStarts, Written, Others, GoesOn,
        ValuesFresh, ValueFresh, Values
<1>4. ASSUME NEW c \in Callers, RemoteWritten(c) PROVE ValuesFresh'
  BY <1>4, <1>a, Elements DEF RemoteWritten, Written, Others, GoesOn, Ends,
        ValuesFresh, ValueFresh
<1>5. ASSUME NEW c \in Callers, EntryNumbered(c) PROVE ValuesFresh'
  BY <1>5, <1>a, Elements DEF EntryNumbered, Written, Others, GoesOn, ValuesFresh,
        ValueFresh
<1>6. ASSUME NEW c \in Callers, EntryStored(c) PROVE ValuesFresh'
  BY <1>6, <1>a, Elements DEF EntryStored, Written, Others, GoesOn, Ends, ValuesFresh,
        ValueFresh
<1>7. ASSUME NEW c \in Callers, EntryCompacted(c) PROVE ValuesFresh'
  BY <1>7, <1>a, Elements DEF EntryCompacted, Gone, Written, Others, GoesOn, Ends,
        ValuesFresh, ValueFresh
<1>8. ASSUME NEW c \in Callers, RemoteCleared(c) PROVE ValuesFresh'
  BY <1>8, <1>a, Elements DEF RemoteCleared, Written, Others, GoesOn, Ends,
        ValuesFresh, ValueFresh
<1>9. CASE FlushStarts
  BY <1>9, <1>a, Elements DEF FlushStarts, NoCallMoves, ValuesFresh, ValueFresh
<1>10. CASE EntryTaken
  BY <1>10, <1>a, Elements DEF EntryTaken, NoCallMoves, ValuesFresh, ValueFresh
<1>11. CASE EntrySent
  BY <1>11, <1>a, Elements DEF EntrySent, NoCallMoves, Written, ValuesFresh, ValueFresh
<1>12. CASE EntryFlushed
  BY <1>12, <1>a, Elements DEF EntryFlushed, Gone, Written, NoCallMoves, ValuesFresh,
        ValueFresh
<1>13. CASE IndexCleared
  BY <1>13, <1>a, Elements DEF IndexCleared, Written, NoCallMoves, ValuesFresh,
        ValueFresh
<1>14. CASE DiskWritten
  BY <1>14, <1>a, Elements DEF DiskWritten, NoCallMoves, ValuesFresh, ValueFresh
<1>15. CASE Restarts
  BY <1>15, <1>a, Elements DEF Restarts, Ends, ValuesFresh, ValueFresh
<1> QED BY <1>1, <1>2, <1>3, <1>4, <1>5, <1>6, <1>7, <1>8, <1>9, <1>10, <1>11, <1>12,
      <1>13, <1>14, <1>15 DEF Step, Lives

\* The flusher keeps the oldest entry in hand.
LEMMA InHandStep ==
  OneUser /\ Base /\ EntriesOwned /\ ValuesFresh /\ JournalOrdered /\ OlderToo /\ InHand /\ Lives => InHand'
<1> SUFFICES ASSUME OneUser, Base, EntriesOwned, ValuesFresh, JournalOrdered,
      OlderToo, InHand, Lives PROVE InHand'
  OBVIOUS
<1> USE DEF setup, journalVars, indexVars, flushVars, diskJournal, countVars, Putting,
      Numbered, Getting, Deleting
<1>a. \A c, d \in Callers : key[c] = key[d] /\ key[c] \in Keys => c = d
  BY Alone
<1>b. \A c \in Callers : pc[c] \in Numbered => jk[c] \in Entry
  BY DEF Base, CallsOwned
<1>1. CASE Quiet
  BY <1>1, Elements DEF Quiet, GoesOn, InHand
<1>2. ASSUME NEW c \in Callers, NEW k \in Keys, PutStarts(c, k) PROVE InHand'
  BY <1>2, Elements DEF PutStarts, Others, GoesOn, InHand
<1>3. ASSUME NEW c \in Callers, NEW k \in Keys, DeleteStarts(c, k) PROVE InHand'
  BY <1>3, Elements DEF DeleteStarts, Written, Others, GoesOn, InHand
<1>4. ASSUME NEW c \in Callers, RemoteWritten(c) PROVE InHand'
  BY <1>4, Elements DEF RemoteWritten, Written, Others, GoesOn, Ends, InHand
<1>5. ASSUME NEW c \in Callers, EntryNumbered(c) PROVE InHand'
  BY <1>5, Elements DEF EntryNumbered, Written, Others, GoesOn, InHand
<1>6. ASSUME NEW c \in Callers, EntryStored(c) PROVE InHand'
  BY <1>6, <1>a, <1>b, Elements DEF EntryStored, Written, Others, GoesOn, Ends,
        InHand, EntriesOwned, EntryOwned, ValuesFresh, ValueFresh
<1>7. ASSUME NEW c \in Callers, EntryCompacted(c) PROVE InHand'
  BY <1>7, Elements DEF EntryCompacted, Gone, Written, Others, GoesOn, Ends, InHand
<1>8. ASSUME NEW c \in Callers, RemoteCleared(c) PROVE InHand'
  BY <1>8, Elements DEF RemoteCleared, Written, Others, GoesOn, Ends, InHand
<1>9. CASE FlushStarts
  BY <1>9, Elements DEF FlushStarts, NoCallMoves, InHand
<1>10. CASE EntryTaken
  BY <1>10, Elements DEF EntryTaken, NoCallMoves, InHand, OlderToo, JournalOrdered, Base, TypeOK
<1>11. CASE EntrySent
  BY <1>11, Elements DEF EntrySent, NoCallMoves, Written, InHand
<1>12. CASE EntryFlushed
  BY <1>12, Elements DEF EntryFlushed, Gone, Written, NoCallMoves, InHand
<1>13. CASE IndexCleared
  BY <1>13, Elements DEF IndexCleared, Written, NoCallMoves, InHand
<1>14. CASE DiskWritten
  BY <1>14, Elements DEF DiskWritten, NoCallMoves, InHand
<1> QED BY <1>1, <1>2, <1>3, <1>4, <1>5, <1>6, <1>7, <1>8, <1>9, <1>10, <1>11, <1>12,
      <1>13, <1>14 DEF Lives

\* The flusher keeps all the older entries to do.
LEMMA OlderTooStep ==
  OneUser /\ Base /\ EntriesOwned /\ OlderToo /\ Lives => OlderToo'
<1> SUFFICES ASSUME OneUser, Base, EntriesOwned, OlderToo, Lives PROVE OlderToo'
  OBVIOUS
<1> USE DEF setup, journalVars, indexVars, flushVars, diskJournal, countVars, Putting,
      Numbered, Getting, Deleting
<1>a. \A c, d \in Callers : key[c] = key[d] /\ key[c] \in Keys => c = d
  BY Alone
<1>b. \A c \in Callers : pc[c] \in Numbered => jk[c] \in Entry
  BY DEF Base, CallsOwned
<1>1. CASE Quiet
  BY <1>1, Elements DEF Quiet, GoesOn, OlderToo
<1>2. ASSUME NEW c \in Callers, NEW k \in Keys, PutStarts(c, k) PROVE OlderToo'
  BY <1>2, Elements DEF PutStarts, Others, GoesOn, OlderToo
<1>3. ASSUME NEW c \in Callers, NEW k \in Keys, DeleteStarts(c, k) PROVE OlderToo'
  BY <1>3, Elements DEF DeleteStarts, Written, Others, GoesOn, OlderToo
<1>4. ASSUME NEW c \in Callers, RemoteWritten(c) PROVE OlderToo'
  BY <1>4, Elements DEF RemoteWritten, Written, Others, GoesOn, Ends, OlderToo
<1>5. ASSUME NEW c \in Callers, EntryNumbered(c) PROVE OlderToo'
  BY <1>5, Elements DEF EntryNumbered, Written, Others, GoesOn, OlderToo
<1>6. ASSUME NEW c \in Callers, EntryStored(c) PROVE OlderToo'
  BY <1>6, <1>a, <1>b, Elements DEF EntryStored, Written, Others, GoesOn, Ends,
        OlderToo, EntriesOwned, EntryOwned
<1>7. ASSUME NEW c \in Callers, EntryCompacted(c) PROVE OlderToo'
  BY <1>7, Elements DEF EntryCompacted, Gone, Written, Others, GoesOn, Ends, OlderToo
<1>8. ASSUME NEW c \in Callers, RemoteCleared(c) PROVE OlderToo'
  BY <1>8, Elements DEF RemoteCleared, Written, Others, GoesOn, Ends, OlderToo
<1>9. CASE FlushStarts
  BY <1>9, Elements DEF FlushStarts, NoCallMoves, OlderToo, Pending
<1>10. CASE EntryTaken
  BY <1>10, Elements DEF EntryTaken, NoCallMoves, OlderToo
<1>11. CASE EntrySent
  BY <1>11, Elements DEF EntrySent, NoCallMoves, Written, OlderToo
<1>12. CASE EntryFlushed
  BY <1>12, Elements DEF EntryFlushed, Gone, Written, NoCallMoves, OlderToo
<1>13. CASE IndexCleared
  BY <1>13, Elements DEF IndexCleared, Written, NoCallMoves, OlderToo
<1>14. CASE DiskWritten
  BY <1>14, Elements DEF DiskWritten, NoCallMoves, OlderToo
<1> QED BY <1>1, <1>2, <1>3, <1>4, <1>5, <1>6, <1>7, <1>8, <1>9, <1>10, <1>11, <1>12,
      <1>13, <1>14 DEF Lives

\* A key being deleted stays unclaimed.
LEMMA DeletedStep ==
  OneUser /\ Base /\ DeletedUnclaimed /\ Step => DeletedUnclaimed'
<1> SUFFICES ASSUME OneUser, Base, DeletedUnclaimed, Step PROVE DeletedUnclaimed'
  OBVIOUS
<1> USE DEF setup, journalVars, indexVars, flushVars, diskJournal, countVars, Putting,
      Numbered, Getting, Deleting
<1>a. \A c, d \in Callers : key[c] = key[d] /\ key[c] \in Keys => c = d
  BY Alone
<1>b. \A c \in Callers : pc[c] \in Numbered => jk[c] \in Entry
  BY DEF Base, CallsOwned
<1>f. \A k \in Keys : \A c \in Users[k] : pc[c] = "idle" => \A d \in Callers : key[d] # k
  BY Alone
<1>1. CASE Quiet
  BY <1>1, <1>a, Elements DEF Quiet, GoesOn, DeletedUnclaimed
<1>2. ASSUME NEW c \in Callers, NEW k \in Keys, PutStarts(c, k) PROVE DeletedUnclaimed'
  BY <1>2, <1>a, Elements DEF PutStarts, Others, GoesOn, DeletedUnclaimed
<1>3. ASSUME NEW c \in Callers, NEW k \in Keys, DeleteStarts(c,
      k) PROVE DeletedUnclaimed'
  BY <1>3, <1>a, <1>f, Elements DEF DeleteStarts, Written, Others, GoesOn,
        DeletedUnclaimed
<1>4. ASSUME NEW c \in Callers, RemoteWritten(c) PROVE DeletedUnclaimed'
  BY <1>4, <1>a, Elements DEF RemoteWritten, Written, Others, GoesOn, Ends,
        DeletedUnclaimed
<1>5. ASSUME NEW c \in Callers, EntryNumbered(c) PROVE DeletedUnclaimed'
  BY <1>5, <1>a, Elements DEF EntryNumbered, Written, Others, GoesOn, DeletedUnclaimed
<1>6. ASSUME NEW c \in Callers, EntryStored(c) PROVE DeletedUnclaimed'
  BY <1>6, <1>a, Elements DEF EntryStored, Written, Others, GoesOn, Ends,
        DeletedUnclaimed
<1>7. ASSUME NEW c \in Callers, EntryCompacted(c) PROVE DeletedUnclaimed'
  BY <1>7, <1>a, Elements DEF EntryCompacted, Gone, Written, Others, GoesOn, Ends,
        DeletedUnclaimed
<1>8. ASSUME NEW c \in Callers, RemoteCleared(c) PROVE DeletedUnclaimed'
  BY <1>8, <1>a, Elements DEF RemoteCleared, Written, Others, GoesOn, Ends,
        DeletedUnclaimed
<1>9. CASE FlushStarts
  BY <1>9, <1>a, Elements DEF FlushStarts, NoCallMoves, DeletedUnclaimed
<1>10. CASE EntryTaken
  BY <1>10, <1>a, Elements DEF EntryTaken, NoCallMoves, DeletedUnclaimed
<1>11. CASE EntrySent
  BY <1>11, <1>a, Elements DEF EntrySent, NoCallMoves, Written, DeletedUnclaimed
<1>12. CASE EntryFlushed
  BY <1>12, <1>a, Elements DEF EntryFlushed, Gone, Written, NoCallMoves,
        DeletedUnclaimed
<1>13. CASE IndexCleared
  BY <1>13, <1>a, Elements DEF IndexCleared, Written, NoCallMoves, DeletedUnclaimed
<1>14. CASE DiskWritten
  BY <1>14, <1>a, Elements DEF DiskWritten, NoCallMoves, DeletedUnclaimed
<1>15. CASE Restarts
  BY <1>15, <1>a, Elements DEF Restarts, Ends, DeletedUnclaimed
<1> QED BY <1>1, <1>2, <1>3, <1>4, <1>5, <1>6, <1>7, <1>8, <1>9, <1>10, <1>11, <1>12,
      <1>13, <1>14, <1>15 DEF Step, Lives

-----------------------------------------------------------------------------
(* Safety of what was acknowledged.                                            *)

Back(k) == WriteMode(k) = "back"

\* The remote has v or later, and nothing under way would take it back.
RemoteHolds(k, v) ==
  /\ remote[k] >= v
  /\ \A n \in Entry : jkey[n] = k => jval[n] >= v
  /\ fpc = "put" /\ fkey = k => fval >= v

Safe(k, v) == (\E n \in Entry : jkey[n] = k /\ jval[n] >= v) \/ RemoteHolds(k, v)

\* v has been acknowledged, or will be once the entry it supersedes is dropped.
Claimed(k, v) ==
  acked[k] = v \/ \E c \in Callers : pc[c] = "compact" /\ key[c] = k /\ val[c] = v

ClaimsSafe ==
  \A k \in Keys : Back(k) => \A v \in Nat \ {0} : Claimed(k, v) => Safe(k, v)

\* What the flusher is about to drop has reached the remote, unless it was deleted since.
Landed ==
  fpc = "drop" /\ fkey \in Keys /\ Back(fkey) =>
    \A v \in Nat \ {0} : Claimed(fkey, v) /\ v <= fval => remote[fkey] >= v

\* The remote is never ahead of the journal.
RemoteBehind ==
  \A k \in Keys : Back(k) =>
    /\ \A n \in Entry : jkey[n] = k => jval[n] >= remote[k]
    /\ fpc = "put" /\ fkey = k => fval >= remote[k]

\* Acknowledged writes stay safe.
LEMMA ClaimsStep ==
  OneUser /\ Base /\ ModesKept /\ EntriesOwned /\ IndexTrue /\ ValuesFresh /\ InHand /\ DeletedUnclaimed /\ Landed /\ ClaimsSafe /\ Lives => ClaimsSafe'
<1> SUFFICES ASSUME OneUser, Base, ModesKept, EntriesOwned, IndexTrue, ValuesFresh,
      InHand, DeletedUnclaimed, Landed, ClaimsSafe, Lives PROVE ClaimsSafe'
  OBVIOUS
<1> USE DEF setup, journalVars, indexVars, flushVars, diskJournal, countVars, Putting,
      Numbered, Getting, Deleting, Back, WriteMode
<1>a. \A c, d \in Callers : key[c] = key[d] /\ key[c] \in Keys => c = d
  BY Alone
<1>f. \A k \in Keys : \A c \in Users[k] : pc[c] = "idle" => \A d \in Callers : key[d] # k
  BY Alone
<1>m. \A c \in Callers : pc[c] = "putRemote" => ~Back(key[c])
  BY DEF ModesKept, Putting, Back
<1>1. CASE Quiet
  BY <1>1, <1>a, Elements DEF Quiet, GoesOn, ClaimsSafe, Claimed, Safe, RemoteHolds
<1>2. ASSUME NEW c \in Callers, NEW k \in Keys, PutStarts(c, k) PROVE ClaimsSafe'
  BY <1>2, <1>a, Elements DEF PutStarts, Others, GoesOn, ClaimsSafe, Claimed, Safe,
        RemoteHolds
<1>3. ASSUME NEW c \in Callers, NEW k \in Keys, DeleteStarts(c, k) PROVE ClaimsSafe'
  BY <1>3, <1>a, <1>f, Elements DEF DeleteStarts, Written, Others, GoesOn, ClaimsSafe,
        Claimed, Safe, RemoteHolds
<1>4. ASSUME NEW c \in Callers, RemoteWritten(c) PROVE ClaimsSafe'
  BY <1>4, <1>a, <1>m, Elements DEF RemoteWritten, Written, Others, GoesOn, Ends,
        ClaimsSafe, Claimed, Safe, RemoteHolds
<1>5. ASSUME NEW c \in Callers, EntryNumbered(c) PROVE ClaimsSafe'
  BY <1>5, <1>a, Elements DEF EntryNumbered, Written, Others, GoesOn, ClaimsSafe,
        Claimed, Safe, RemoteHolds
<1>6. ASSUME NEW c \in Callers, EntryStored(c) PROVE ClaimsSafe'
  BY <1>6, <1>a, Elements DEF EntryStored, Written, Others, GoesOn, Ends, ClaimsSafe,
        Claimed, Safe, RemoteHolds, EntriesOwned, EntryOwned, ValuesFresh,
        ValueFresh, Base, CallsOwned
<1>7. ASSUME NEW c \in Callers, EntryCompacted(c) PROVE ClaimsSafe'
  BY <1>7, <1>a, Elements DEF EntryCompacted, Gone, Written, Others, GoesOn, Ends,
        ClaimsSafe, Claimed, Safe, RemoteHolds, IndexTrue
<1>8. ASSUME NEW c \in Callers, RemoteCleared(c) PROVE ClaimsSafe'
  BY <1>8, <1>a, Elements DEF RemoteCleared, Written, Others, GoesOn, Ends,
        ClaimsSafe, Claimed, Safe, RemoteHolds, DeletedUnclaimed
<1>9. CASE FlushStarts
  BY <1>9, <1>a, Elements DEF FlushStarts, NoCallMoves, ClaimsSafe, Claimed, Safe,
        RemoteHolds
<1>10. CASE EntryTaken
  BY <1>10, <1>a, Elements DEF EntryTaken, NoCallMoves, ClaimsSafe, Claimed, Safe,
        RemoteHolds
<1>11. CASE EntrySent
  BY <1>11, <1>a, Elements DEF EntrySent, NoCallMoves, Written, ClaimsSafe, Claimed,
        Safe, RemoteHolds
<1>12. CASE EntryFlushed
  BY <1>12, <1>a, Elements DEF EntryFlushed, Gone, Written, NoCallMoves, ClaimsSafe,
        Claimed, Safe, RemoteHolds, InHand, Landed
<1>13. CASE IndexCleared
  BY <1>13, <1>a, Elements DEF IndexCleared, Written, NoCallMoves, ClaimsSafe,
        Claimed, Safe, RemoteHolds
<1>14. CASE DiskWritten
  BY <1>14, <1>a, Elements DEF DiskWritten, NoCallMoves, ClaimsSafe, Claimed, Safe,
        RemoteHolds
<1> QED BY <1>1, <1>2, <1>3, <1>4, <1>5, <1>6, <1>7, <1>8, <1>9, <1>10, <1>11, <1>12,
      <1>13, <1>14 DEF Lives

\* What is about to be dropped has landed.
LEMMA LandedStep ==
  OneUser /\ Base /\ ModesKept /\ ValuesFresh /\ InHand /\ DeletedUnclaimed /\ Landed /\ Lives => Landed'
<1> SUFFICES ASSUME OneUser, Base, ModesKept, ValuesFresh, InHand, DeletedUnclaimed,
      Landed, Lives PROVE Landed'
  OBVIOUS
<1> USE DEF setup, journalVars, indexVars, flushVars, diskJournal, countVars, Putting,
      Numbered, Getting, Deleting, Back, WriteMode
<1>a. \A c, d \in Callers : key[c] = key[d] /\ key[c] \in Keys => c = d
  BY Alone
<1>f. \A k \in Keys : \A c \in Users[k] : pc[c] = "idle" => \A d \in Callers : key[d] # k
  BY Alone
<1>m. \A c \in Callers : pc[c] = "putRemote" => ~Back(key[c])
  BY DEF ModesKept, Putting, Back
<1>1. CASE Quiet
  BY <1>1, <1>a, Elements DEF Quiet, GoesOn, Landed, Claimed
<1>2. ASSUME NEW c \in Callers, NEW k \in Keys, PutStarts(c, k) PROVE Landed'
  BY <1>2, <1>a, Elements DEF PutStarts, Others, GoesOn, Landed, Claimed
<1>3. ASSUME NEW c \in Callers, NEW k \in Keys, DeleteStarts(c, k) PROVE Landed'
  BY <1>3, <1>a, <1>f, Elements DEF DeleteStarts, Written, Others, GoesOn, Landed,
        Claimed
<1>4. ASSUME NEW c \in Callers, RemoteWritten(c) PROVE Landed'
  BY <1>4, <1>a, <1>m, Elements DEF RemoteWritten, Written, Others, GoesOn, Ends,
        Landed, Claimed
<1>5. ASSUME NEW c \in Callers, EntryNumbered(c) PROVE Landed'
  BY <1>5, <1>a, Elements DEF EntryNumbered, Written, Others, GoesOn, Landed, Claimed
<1>6. ASSUME NEW c \in Callers, EntryStored(c) PROVE Landed'
  BY <1>6, <1>a, Elements DEF EntryStored, Written, Others, GoesOn, Ends, Landed,
        Claimed, ValuesFresh, ValueFresh
<1>7. ASSUME NEW c \in Callers, EntryCompacted(c) PROVE Landed'
  BY <1>7, <1>a, Elements DEF EntryCompacted, Gone, Written, Others, GoesOn, Ends,
        Landed, Claimed
<1>8. ASSUME NEW c \in Callers, RemoteCleared(c) PROVE Landed'
  BY <1>8, <1>a, Elements DEF RemoteCleared, Written, Others, GoesOn, Ends, Landed,
        Claimed, DeletedUnclaimed
<1>9. CASE FlushStarts
  BY <1>9, <1>a, Elements DEF FlushStarts, NoCallMoves, Landed, Claimed
<1>10. CASE EntryTaken
  BY <1>10, <1>a, Elements DEF EntryTaken, NoCallMoves, Landed, Claimed
<1>11. CASE EntrySent
  BY <1>11, <1>a, Elements DEF EntrySent, NoCallMoves, Written, Landed, Claimed
<1>12. CASE EntryFlushed
  BY <1>12, <1>a, Elements DEF EntryFlushed, Gone, Written, NoCallMoves, Landed, Claimed
<1>13. CASE IndexCleared
  BY <1>13, <1>a, Elements DEF IndexCleared, Written, NoCallMoves, Landed, Claimed
<1>14. CASE DiskWritten
  BY <1>14, <1>a, Elements DEF DiskWritten, NoCallMoves, Landed, Claimed
<1> QED BY <1>1, <1>2, <1>3, <1>4, <1>5, <1>6, <1>7, <1>8, <1>9, <1>10, <1>11, <1>12,
      <1>13, <1>14 DEF Lives

\* The remote stays behind the journal.
LEMMA BehindStep ==
  OneUser /\ Base /\ ModesKept /\ ValuesFresh /\ InHand /\ RemoteBehind /\ Lives => RemoteBehind'
<1> SUFFICES ASSUME OneUser, Base, ModesKept, ValuesFresh, InHand, RemoteBehind, Lives PROVE RemoteBehind'
  OBVIOUS
<1> USE DEF setup, journalVars, indexVars, flushVars, diskJournal, countVars, Putting,
      Numbered, Getting, Deleting, Back, WriteMode
<1>a. \A c, d \in Callers : key[c] = key[d] /\ key[c] \in Keys => c = d
  BY Alone
<1>m. \A c \in Callers : pc[c] = "putRemote" => ~Back(key[c])
  BY DEF ModesKept, Putting, Back
<1>1. CASE Quiet
  BY <1>1, <1>a, Elements DEF Quiet, GoesOn, RemoteBehind
<1>2. ASSUME NEW c \in Callers, NEW k \in Keys, PutStarts(c, k) PROVE RemoteBehind'
  BY <1>2, <1>a, Elements DEF PutStarts, Others, GoesOn, RemoteBehind
<1>3. ASSUME NEW c \in Callers, NEW k \in Keys, DeleteStarts(c, k) PROVE RemoteBehind'
  BY <1>3, <1>a, Elements DEF DeleteStarts, Written, Others, GoesOn, RemoteBehind
<1>4. ASSUME NEW c \in Callers, RemoteWritten(c) PROVE RemoteBehind'
  BY <1>4, <1>a, <1>m, Elements DEF RemoteWritten, Written, Others, GoesOn, Ends,
        RemoteBehind
<1>5. ASSUME NEW c \in Callers, EntryNumbered(c) PROVE RemoteBehind'
  BY <1>5, <1>a, Elements DEF EntryNumbered, Written, Others, GoesOn, RemoteBehind
<1>6. ASSUME NEW c \in Callers, EntryStored(c) PROVE RemoteBehind'
  BY <1>6, <1>a, Elements DEF EntryStored, Written, Others, GoesOn, Ends,
        RemoteBehind, ValuesFresh, ValueFresh
<1>7. ASSUME NEW c \in Callers, EntryCompacted(c) PROVE RemoteBehind'
  BY <1>7, <1>a, Elements DEF EntryCompacted, Gone, Written, Others, GoesOn, Ends,
        RemoteBehind
<1>8. ASSUME NEW c \in Callers, RemoteCleared(c) PROVE RemoteBehind'
  BY <1>8, <1>a, Elements DEF RemoteCleared, Written, Others, GoesOn, Ends, RemoteBehind
<1>9. CASE FlushStarts
  BY <1>9, <1>a, Elements DEF FlushStarts, NoCallMoves, RemoteBehind
<1>10. CASE EntryTaken
  BY <1>10, <1>a, Elements DEF EntryTaken, NoCallMoves, RemoteBehind
<1>11. CASE EntrySent
  BY <1>11, <1>a, Elements DEF EntrySent, NoCallMoves, Written, RemoteBehind, InHand
<1>12. CASE EntryFlushed
  BY <1>12, <1>a, Elements DEF EntryFlushed, Gone, Written, NoCallMoves, RemoteBehind
<1>13. CASE IndexCleared
  BY <1>13, <1>a, Elements DEF IndexCleared, Written, NoCallMoves, RemoteBehind
<1>14. CASE DiskWritten
  BY <1>14, <1>a, Elements DEF DiskWritten, NoCallMoves, RemoteBehind
<1> QED BY <1>1, <1>2, <1>3, <1>4, <1>5, <1>6, <1>7, <1>8, <1>9, <1>10, <1>11, <1>12,
      <1>13, <1>14 DEF Lives

-----------------------------------------------------------------------------
(* The length of the journal.                                                  *)

\* The entries of a key that neither the index nor a call in progress knows, one that a
\* number given out anew will overwrite among them, and those that are on disk.
LeftOver(k) ==
  {n \in Entry : jkey[n] = k /\ (n = byKey[k] => Storing(k)) /\ \A c \in Callers : stale[c] # n}
DiskOf(k) == {n \in Entry : dJkey[n] = k}

\* Only crashes leave entries that nothing will compact, and each no more than two: one
\* entry is in the index, one more in a call, when the store closes or reaches the disk.
JournalLeft ==
  \A k \in Keys :
    /\ closed \/ Cardinality(LeftOver(k)) <= 2 * crashes
    /\ ~closed \/ Cardinality(PendingOf(k)) <= 2 * crashes + 2
    /\ Cardinality(DiskOf(k)) <= 2 * crashes + 2

\* Sets of entries are finite and a subset is no larger.
LEMMA EntrySets ==
  /\ \A S \in SUBSET Entry : IsFiniteSet(S) /\ Cardinality(S) \in Nat
  /\ \A S, T \in SUBSET Entry : S \subseteq T => Cardinality(S) <= Cardinality(T)
<1>1. IsFiniteSet(Entry)
  BY BoundsAssumption, FS_Interval DEF Entry
<1>2. \A S \in SUBSET Entry : IsFiniteSet(S) /\ Cardinality(S) \in Nat
  BY <1>1, FS_Subset, FS_CardinalityType
<1>3. ASSUME NEW S \in SUBSET Entry, NEW T \in SUBSET Entry, S \subseteq T
      PROVE  Cardinality(S) <= Cardinality(T)
  BY <1>2, <1>3, FS_Subset
<1> QED BY <1>2, <1>3

\* One element adds at most one.
LEMMA OneMore ==
  ASSUME NEW S \in SUBSET Entry, NEW T \in SUBSET Entry, NEW a, S \subseteq T \union {a}
  PROVE  Cardinality(S) <= Cardinality(T) + 1
<1>1. IsFiniteSet(S) /\ IsFiniteSet(T) /\ Cardinality(S) \in Nat /\ Cardinality(T) \in Nat
  BY EntrySets
<1>2. IsFiniteSet(S \ {a}) /\ Cardinality(S \ {a}) = IF a \in S THEN Cardinality(S) - 1 ELSE Cardinality(S)
  BY <1>1, FS_RemoveElement
<1>3. Cardinality(S \ {a}) <= Cardinality(T) /\ Cardinality(S \ {a}) \in Nat
  <2>1. S \ {a} \in SUBSET Entry /\ S \ {a} \subseteq T
    OBVIOUS
  <2> QED BY <2>1, EntrySets
<1> QED BY <1>1, <1>2, <1>3

\* At most one entry more than the left-over ones is pending for a key, and one more still
\* while its caller has an entry to drop.
LEMMA PendingCount ==
  ASSUME OneUser, Base, IndexTrue, JournalLeft, ~closed, NEW k \in Keys
  PROVE  /\ Cardinality(PendingOf(k)) <= 2 * crashes + 2
         /\ (\A c \in Callers : ~(pc[c] = "compact" /\ key[c] = k)) =>
              Cardinality(PendingOf(k)) <= 2 * crashes + 1
<1>0. \A c, d \in Callers : key[c] = key[d] /\ key[c] \in Keys => c = d
  BY Alone
<1>1. Cardinality(LeftOver(k)) <= 2 * crashes /\ crashes \in Nat
  BY Elements DEF JournalLeft
<1>2. LeftOver(k) \in SUBSET Entry /\ PendingOf(k) \in SUBSET Entry
  BY DEF LeftOver, PendingOf
<1>3. \A c \in Callers, n \in PendingOf(k) : n = stale[c] => key[c] = k /\ pc[c] \in Numbered
  BY Elements DEF PendingOf, IndexTrue, Base, CallsOwned, Numbered
<1>4. Cardinality(LeftOver(k)) \in Nat /\ Cardinality(PendingOf(k)) \in Nat
  BY <1>2, EntrySets
<1>5. ASSUME NEW a, PendingOf(k) \subseteq LeftOver(k) \union {a}
      PROVE  Cardinality(PendingOf(k)) <= 2 * crashes + 1
  BY <1>1, <1>2, <1>4, <1>5, OneMore
<1>6. CASE \E c \in Callers : key[c] = k
  <2>1. PICK c \in Callers : key[c] = k
    BY <1>6
  <2>2. PendingOf(k) \subseteq (LeftOver(k) \union {byKey[k]}) \union {stale[c]}
    BY <1>0, <1>3, <2>1 DEF PendingOf, LeftOver
  <2> DEFINE T == PendingOf(k) \ {stale[c]}
  <2>3. /\ T \in SUBSET Entry /\ T \subseteq LeftOver(k) \union {byKey[k]}
        /\ PendingOf(k) \subseteq T \union {stale[c]}
    BY <1>2, <2>2
  <2> HIDE DEF T
  <2>4. Cardinality(T) \in Nat
    BY <2>3, EntrySets
  <2>5. Cardinality(T) <= Cardinality(LeftOver(k)) + 1
    BY <1>2, <2>3, OneMore
  <2>6. Cardinality(PendingOf(k)) <= Cardinality(T) + 1
    BY <1>2, <2>3, OneMore
  <2>7. Cardinality(PendingOf(k)) <= 2 * crashes + 2
    BY <2>4, <2>5, <2>6, <1>1, <1>4
  <2>8. ASSUME pc[c] # "compact" PROVE Cardinality(PendingOf(k)) <= 2 * crashes + 1
    <3>1. CASE pc[c] = "store"
      <4>1. PendingOf(k) \subseteq LeftOver(k) \union {stale[c]}
        BY <1>0, <1>3, <2>1, <3>1 DEF PendingOf, LeftOver, Storing
      <4> QED BY <4>1, <1>5
    <3>2. CASE pc[c] # "store"
      <4>1. PendingOf(k) \subseteq LeftOver(k) \union {byKey[k]}
        BY <1>0, <1>3, <2>1, <2>8, <3>2 DEF PendingOf, LeftOver, Numbered
      <4> QED BY <4>1, <1>5
    <3> QED BY <3>1, <3>2
  <2> QED BY <2>1, <2>7, <2>8
<1>7. CASE \A c \in Callers : key[c] # k
  <2>1. PendingOf(k) \subseteq LeftOver(k) \union {byKey[k]}
    BY <1>3, <1>7 DEF PendingOf, LeftOver
  <2> QED BY <2>1, <1>5, <1>1, <1>4
<1> QED BY <1>6, <1>7

\* A step leaves no more entries over, unless it is a restart or the store closes.
NoMoreLeft ==
  Restarts \/ closed' \/ (crashes' = crashes /\ \A k \in Keys : LeftOver(k)' \subseteq LeftOver(k))

\* Only a crash leaves more entries over.
LEMMA LeftShrinks ==
  OneUser /\ Base /\ Places /\ NumbersOwned /\ (OneLife => InHand) /\ Step => NoMoreLeft
<1> SUFFICES ASSUME OneUser, Base, Places, NumbersOwned, OneLife => InHand,
      Step PROVE NoMoreLeft
  OBVIOUS
<1> USE DEF NoMoreLeft, setup, journalVars, indexVars, flushVars, diskJournal, countVars, Putting,
      Numbered, Getting, Deleting, Storing
<1>a. \A c, d \in Callers : key[c] = key[d] /\ key[c] \in Keys => c = d
  BY Alone
<1>b. \A c \in Callers : pc[c] \notin Numbered => stale[c] = 0
  BY DEF Base, CallsOwned
<1>c. \A c \in Callers : pc[c] \in Numbered => jk[c] \in Entry
  BY DEF Base, CallsOwned
<1>1. CASE Quiet
  BY <1>1, <1>a, <1>b, Elements DEF Quiet, GoesOn, LeftOver
<1>2. ASSUME NEW c \in Callers, NEW k \in Keys, PutStarts(c, k) PROVE NoMoreLeft
  BY <1>2, <1>a, <1>b, Elements DEF PutStarts, Others, GoesOn, LeftOver
<1>3. ASSUME NEW c \in Callers, NEW k \in Keys, DeleteStarts(c, k) PROVE NoMoreLeft
  BY <1>3, <1>a, <1>b, Elements DEF DeleteStarts, Written, Others, GoesOn, LeftOver
<1>4. ASSUME NEW c \in Callers, RemoteWritten(c) PROVE NoMoreLeft
  BY <1>4, <1>a, <1>b, Elements DEF RemoteWritten, Written, Others, GoesOn, Ends,
        LeftOver
<1>5. ASSUME NEW c \in Callers, EntryNumbered(c) PROVE NoMoreLeft
  BY <1>5, <1>a, <1>b, Elements, NumberLeft DEF EntryNumbered, Written, Others, GoesOn,
        LeftOver, Places
<1>6. ASSUME NEW c \in Callers, EntryStored(c) PROVE NoMoreLeft
  BY <1>6, <1>a, <1>c, Elements DEF EntryStored, Written, Others, GoesOn, Ends,
        LeftOver, NumbersOwned, NumberOwned
<1>7. ASSUME NEW c \in Callers, EntryCompacted(c) PROVE NoMoreLeft
  BY <1>7, <1>a, <1>b, Elements DEF EntryCompacted, Gone, Written, Others, GoesOn,
        Ends, LeftOver
<1>8. ASSUME NEW c \in Callers, RemoteCleared(c) PROVE NoMoreLeft
  BY <1>8, <1>a, <1>b, Elements DEF RemoteCleared, Written, Others, GoesOn, Ends,
        LeftOver
<1>9. CASE FlushStarts
  BY <1>9, <1>a, <1>b, Elements DEF FlushStarts, NoCallMoves, LeftOver
<1>10. CASE EntryTaken
  BY <1>10, <1>a, <1>b, Elements DEF EntryTaken, NoCallMoves, LeftOver
<1>11. CASE EntrySent
  BY <1>11, <1>a, <1>b, Elements DEF EntrySent, NoCallMoves, Written, LeftOver
<1>12. CASE EntryFlushed
  BY <1>12, <1>a, <1>b, Elements DEF EntryFlushed, Gone, Written, NoCallMoves, LeftOver
<1>13. CASE IndexCleared
  <2>1. InHand
    BY <1>13 DEF IndexCleared, Base, NothingListed, OneLife
  <2> QED BY <1>13, <2>1, Elements DEF IndexCleared, Written, NoCallMoves, LeftOver,
        InHand
<1>14. CASE DiskWritten
  BY <1>14, <1>a, <1>b, Elements DEF DiskWritten, NoCallMoves, LeftOver
<1>15. CASE Restarts
  BY <1>15
<1> QED BY <1>1, <1>2, <1>3, <1>4, <1>5, <1>6, <1>7, <1>8, <1>9, <1>10, <1>11, <1>12,
      <1>13, <1>14, <1>15 DEF Step, Lives

\* The journal stays as short.
LEMMA JournalLeftStep ==
  OneUser /\ Base /\ Places /\ NumbersOwned /\ IndexTrue /\ (OneLife => InHand) /\ JournalLeft /\ Step => JournalLeft'
<1> SUFFICES ASSUME OneUser, Base, Places, NumbersOwned, IndexTrue, OneLife => InHand,
                    JournalLeft, Step, NEW k \in Keys
             PROVE  /\ closed' \/ Cardinality(LeftOver(k)') <= 2 * crashes'
                    /\ ~closed' \/ Cardinality(PendingOf(k)') <= 2 * crashes' + 2
                    /\ Cardinality(DiskOf(k)') <= 2 * crashes' + 2
  BY DEF JournalLeft
<1>0. /\ LeftOver(k) \in SUBSET Entry /\ PendingOf(k) \in SUBSET Entry /\ DiskOf(k) \in SUBSET Entry
      /\ LeftOver(k)' \in SUBSET Entry /\ PendingOf(k)' \in SUBSET Entry /\ DiskOf(k)' \in SUBSET Entry
      /\ crashes \in Nat
  BY Elements DEF LeftOver, PendingOf, DiskOf
<1>1. /\ Cardinality(LeftOver(k)) \in Nat /\ Cardinality(LeftOver(k)') \in Nat
      /\ Cardinality(DiskOf(k)) \in Nat
  BY <1>0, EntrySets
<1>2. CASE Restarts
  <2>1. crashes' = crashes + 1 /\ ~closed' /\ DiskOf(k)' = DiskOf(k)
    BY <1>2 DEF Restarts, DiskOf, diskJournal
  <2>2. LeftOver(k)' \subseteq DiskOf(k)
    BY <1>2 DEF Restarts, LeftOver, DiskOf
  <2>3. Cardinality(LeftOver(k)') <= Cardinality(DiskOf(k))
    BY <1>0, <2>2, EntrySets
  <2> QED BY <2>1, <2>3, <1>0, <1>1 DEF JournalLeft
<1>3. CASE DiskWritten
  <2>1. /\ ~closed /\ crashes' = crashes /\ PendingOf(k)' = PendingOf(k)
        /\ DiskOf(k)' = PendingOf(k) \/ DiskOf(k)' = DiskOf(k)
        /\ LeftOver(k)' = LeftOver(k)
    BY <1>3 DEF DiskWritten, NoCallMoves, PendingOf, DiskOf, LeftOver, Storing, journalVars,
          indexVars, countVars, diskJournal
  <2>2. Cardinality(PendingOf(k)) <= 2 * crashes + 2
    BY <2>1, PendingCount
  <2> QED BY <2>1, <2>2 DEF JournalLeft
<1>4. ASSUME ~Restarts, ~DiskWritten
      PROVE  closed' = closed /\ crashes' = crashes /\ dJkey' = dJkey /\ (closed => jkey' = jkey)
  BY <1>4 DEF Step, Lives, Quiet, PutStarts, DeleteStarts, RemoteWritten, EntryNumbered,
        EntryStored, EntryCompacted, RemoteCleared, FlushStarts, EntryTaken,
        EntrySent, EntryFlushed, IndexCleared, NoCallMoves, Gone, countVars,
        journalVars, diskJournal
<1>5. CASE ~Restarts /\ ~DiskWritten
  <2>1. DiskOf(k)' = DiskOf(k) /\ (closed => PendingOf(k)' = PendingOf(k))
    BY <1>4, <1>5 DEF DiskOf, PendingOf
  <2>2. closed' \/ Cardinality(LeftOver(k)') <= Cardinality(LeftOver(k))
    BY <1>0, <1>5, LeftShrinks, EntrySets DEF NoMoreLeft
  <2> QED BY <1>0, <1>1, <1>4, <1>5, <2>1, <2>2 DEF JournalLeft
<1> QED BY <1>2, <1>3, <1>5

-----------------------------------------------------------------------------
(* The caches.                                                                 *)

Cached(k) == ReadMode(k) = "cached"

\* A cached key's copies, on disk and, while the store is open, in it and above it, are as
\* new as what was acknowledged.
KeysFresh ==
  \A k \in Keys : Cached(k) =>
    /\ dLocal[k] >= dAcked[k]
    /\ closed \/ (local[k] >= acked[k] /\ (scratch[k] = 0 \/ scratch[k] >= acked[k]))

\* A call about a cached key, while the store is open: it asks the remote only for what was
\* never acknowledged, what it found is as new as what was, and what a Put has
\* behind it is in the tiers it has passed.
CallFresh(c) ==
  /\ pc[c] \in {"getRemote", "install"} => acked[key[c]] = 0
  /\ pc[c] = "promote" => val[c] >= acked[key[c]]
  /\ pc[c] = "got" => val[c] = 0 \/ val[c] >= acked[key[c]]
  /\ pc[c] \in {"putRemote", "enqueue", "store", "compact"} =>
       local[key[c]] >= val[c] /\ (scratch[key[c]] = 0 \/ scratch[key[c]] >= val[c])
  /\ pc[c] = "putScratch" /\ mode[c] \notin {"authoritative",
        "around"} => local[key[c]] >= val[c]
  /\ pc[c] = "putLocal" /\ mode[c] = "authoritative" =>
       scratch[key[c]] = 0 \/ scratch[key[c]] >= val[c]

CallsFresh ==
  closed \/ \A c \in Callers : pc[c] # "idle" /\ Cached(key[c]) => CallFresh(c)

\* What is cached, as numbers.
LEMMA CacheElements ==
  Base => \A k \in Keys : local[k] \in Nat /\ scratch[k] \in Nat /\ dLocal[k] \in Nat
BY BoundsAssumption DEF Base, TypeOK, Value

\* The caches stay fresh.
LEMMA KeysFreshStep ==
  OneUser /\ Base /\ ValuesFresh /\ DeletedUnclaimed /\ CallsFresh /\ KeysFresh /\ [Next]_vars => KeysFresh'
<1> SUFFICES ASSUME OneUser, Base, ValuesFresh, DeletedUnclaimed, CallsFresh,
      KeysFresh, [Next]_vars PROVE KeysFresh'
  OBVIOUS
<1> USE DEF Cached, ReadMode, Putting, setup, cacheVars, localVars, journalVars, remoteVars,
      indexVars, callVars, flushVars, diskVars, countVars
<1>a. \A c, d \in Callers : key[c] = key[d] /\ key[c] \in Keys => c = d
  BY Alone
<1>f. \A k \in Keys : \A c \in Users[k] : pc[c] = "idle" => \A d \in Callers : key[d] # k
  BY Alone
<1>t. CallTypes /\ StoreTypes /\ JournalTypes
  BY Types DEF Base
<1>1. ASSUME NEW c \in Callers, NEW k \in Keys, DeleteBegin(c, k) PROVE KeysFresh'
  BY <1>1, <1>t, Elements, CacheElements DEF DeleteBegin, KeysFresh, CallsFresh,
        CallFresh, CallTypes, StoreTypes, JournalTypes
<1>2. ASSUME NEW c \in Callers, PutLocal(c) PROVE KeysFresh'
  BY <1>2, <1>t, Elements, CacheElements DEF PutLocal, Goto, Carry, Return, KeysFresh,
        ValuesFresh, ValueFresh, StoreTypes
<1>3. ASSUME NEW c \in Callers, PutScratch(c) PROVE KeysFresh'
  BY <1>3, <1>t, Elements, CacheElements DEF PutScratch, ScratchAfterPut, Goto, Carry,
        Return, KeysFresh, ValuesFresh, ValueFresh, StoreTypes
<1>4. ASSUME NEW c \in Callers, PutRemote(c) PROVE KeysFresh'
  <2>1. acked' = acked \/ acked' = [acked EXCEPT ![key[c]] = val[c]]
    BY <1>4 DEF PutRemote
  <2>2. UNCHANGED <<setup, scratch, local, closed, dLocal,
        dAcked>> /\ pc[c] = "putRemote"
    BY <1>4 DEF PutRemote
  <2> QED BY <2>1, <2>2, <1>t, Elements, CacheElements DEF KeysFresh, CallsFresh,
        CallFresh, StoreTypes
<1>5. ASSUME NEW c \in Callers, Compact(c) PROVE KeysFresh'
  BY <1>5, <1>t, Elements, CacheElements DEF Compact, Dropped, Return, KeysFresh,
        CallsFresh, CallFresh, CallTypes, StoreTypes, JournalTypes
<1>6. ASSUME NEW c \in Callers, Install(c) PROVE KeysFresh'
  BY <1>6, <1>t, Elements, CacheElements DEF Install, Goto, Carry, KeysFresh,
        CallsFresh, CallFresh, CallTypes, StoreTypes, JournalTypes
<1>7. ASSUME NEW c \in Callers, Promote(c) PROVE KeysFresh'
  BY <1>7, <1>t, Elements, CacheElements DEF Promote, Answer, Carry, KeysFresh,
        CallsFresh, CallFresh, CallTypes, StoreTypes, JournalTypes
<1>8. ASSUME NEW c \in Callers, DeleteLocal(c) PROVE KeysFresh'
  BY <1>8, <1>t, Elements, CacheElements DEF DeleteLocal, Goto, Carry, KeysFresh,
        DeletedUnclaimed, Deleting, StoreTypes
<1>9. CASE Sync
  BY <1>9 DEF Sync, Synced, KeysFresh
<1>10. CASE Close
  BY <1>10 DEF Close, Synced, KeysFresh
<1>11. CASE Crash
  BY <1>11, <1>t DEF Crash, KeysFresh
<1>12. ASSUME NEW k \in Keys, Expire(k) PROVE KeysFresh'
  BY <1>12, <1>t DEF Expire, KeysFresh, StoreTypes
<1>13. CASE UNCHANGED <<setup, scratch, local, closed, acked, dLocal, dAcked>>
  BY <1>13 DEF KeysFresh
<1> QED
  BY <1>1, <1>2, <1>3, <1>4, <1>5, <1>6, <1>7, <1>8, <1>9, <1>10, <1>11, <1>12, <1>13
  DEF Next, Call, CallStep, FlushStep, vars, PutBegin, GetBegin, GetScratch, GetLocal,
        GetRemote, GetReturns, FlushBegin, FlushTake, FlushPutOK, FlushPutFails,
        FlushDrop, FlushIndex, HealthChanges, Enqueue, StoreEntry, DeleteRemote

\* And so does what the calls hold.
LEMMA CallsFreshStep ==
  OneUser /\ Base /\ ModesKept /\ ValuesFresh /\ DeletedUnclaimed /\ KeysFresh /\ CallsFresh /\ [Next]_vars => CallsFresh'
<1> SUFFICES ASSUME OneUser, Base, ModesKept, ValuesFresh, DeletedUnclaimed,
      KeysFresh, CallsFresh, [Next]_vars PROVE CallsFresh'
  OBVIOUS
<1> USE DEF Cached, ReadMode, Putting, setup, cacheVars, localVars, journalVars, remoteVars,
      indexVars, callVars, flushVars, diskVars, countVars
<1>a. \A c, d \in Callers : key[c] = key[d] /\ key[c] \in Keys => c = d
  BY Alone
<1>f. \A k \in Keys : \A c \in Users[k] : pc[c] = "idle" => \A d \in Callers : key[d] # k
  BY Alone
<1>t. CallTypes /\ StoreTypes /\ JournalTypes
  BY Types DEF Base
<1>1. ASSUME NEW c \in Callers, NEW k \in Keys, PutBegin(c, k) PROVE CallsFresh'
  <2>1. WriteMode(k) \in Writes
    BY <1>t, Modes
  <2>2. CallFresh(c)'
    BY <1>1, <2>1, <1>t DEF PutBegin, CallFresh, CallTypes, Writes
  <2>3. \A d \in Callers : d # c /\ CallFresh(d) => CallFresh(d)'
    BY <1>1, <1>t DEF PutBegin, CallFresh, CallTypes
  <2>4. \A d \in Callers : d # c => pc'[d] = pc[d] /\ key'[d] = key[d]
    BY <1>1, <1>t DEF PutBegin, CallTypes
  <2> QED BY <1>1, <2>2, <2>3, <2>4 DEF PutBegin, CallsFresh
<1>2. ASSUME NEW c \in Callers, NEW k \in Keys, GetBegin(c, k) PROVE CallsFresh'
  BY <1>2, <1>a, <1>t, Elements, CacheElements DEF GetBegin, CallsFresh, CallFresh,
        CallTypes, StoreTypes
<1>3. ASSUME NEW c \in Callers, NEW k \in Keys, DeleteBegin(c, k) PROVE CallsFresh'
  BY <1>3, <1>a, <1>f, <1>t, Elements, CacheElements DEF DeleteBegin, CallsFresh,
        CallFresh, CallTypes, StoreTypes
<1>4. ASSUME NEW c \in Callers, PutLocal(c) PROVE CallsFresh'
  BY <1>4, <1>a, <1>t, Elements, CacheElements DEF PutLocal, Goto, Carry, Return,
        CallsFresh, CallFresh, CallTypes, StoreTypes
<1>5. ASSUME NEW c \in Callers, PutScratch(c) PROVE CallsFresh'
  BY <1>5, <1>a, <1>t, Elements, CacheElements DEF PutScratch, ScratchAfterPut, Goto,
        Carry, Return, CallsFresh, CallFresh, CallTypes, StoreTypes
<1>6. ASSUME NEW c \in Callers, PutRemote(c) PROVE CallsFresh'
  BY <1>6, <1>a, <1>t, Elements, CacheElements DEF PutRemote, Goto, Carry, Return,
        CallsFresh, CallFresh, CallTypes, StoreTypes
<1>7. ASSUME NEW c \in Callers, Enqueue(c) PROVE CallsFresh'
  BY <1>7, <1>a, <1>t, Elements, CacheElements DEF Enqueue, StaleEntry, CallsFresh,
        CallFresh, CallTypes, StoreTypes
<1>8. ASSUME NEW c \in Callers, StoreEntry(c) PROVE CallsFresh'
  BY <1>8, <1>a, <1>t, Elements, CacheElements DEF StoreEntry, Goto, Carry, Return,
        CallsFresh, CallFresh, CallTypes, StoreTypes
<1>9. ASSUME NEW c \in Callers, Compact(c) PROVE CallsFresh'
  BY <1>9, <1>a, <1>t, Elements, CacheElements DEF Compact, Dropped, Return,
        CallsFresh, CallFresh, CallTypes, StoreTypes
<1>10. ASSUME NEW c \in Callers, GetScratch(c) PROVE CallsFresh'
  BY <1>10, <1>a, <1>t, Elements, CacheElements DEF GetScratch, Answer, Goto, Carry,
        CallsFresh, CallFresh, KeysFresh, CallTypes
<1>11. ASSUME NEW c \in Callers, GetLocal(c) PROVE CallsFresh'
  BY <1>11, <1>a, <1>t, Elements, CacheElements DEF GetLocal, Answer, Goto, Carry,
        CallsFresh, CallFresh, KeysFresh, CallTypes
<1>12. ASSUME NEW c \in Callers, GetRemote(c) PROVE CallsFresh'
  BY <1>12, <1>a, <1>t, Elements, CacheElements DEF GetRemote, Unanswered, FallBack,
        Answer, Carry, Return, CallsFresh, CallFresh, CallTypes, StoreTypes
<1>13. ASSUME NEW c \in Callers, Install(c) PROVE CallsFresh'
  BY <1>13, <1>a, <1>t, Elements, CacheElements DEF Install, Goto, Carry, CallsFresh,
        CallFresh, CallTypes, StoreTypes
<1>14. ASSUME NEW c \in Callers, Promote(c) PROVE CallsFresh'
  BY <1>14, <1>a, <1>t, Elements, CacheElements DEF Promote, Answer, Carry,
        CallsFresh, CallFresh, CallTypes, StoreTypes
<1>15. ASSUME NEW c \in Callers, GetReturns(c) PROVE CallsFresh'
  BY <1>15, <1>a, <1>t, Elements, CacheElements DEF GetReturns, Return, CallsFresh,
        CallFresh, CallTypes, StoreTypes
<1>16. ASSUME NEW c \in Callers, DeleteLocal(c) PROVE CallsFresh'
  BY <1>16, <1>a, <1>t, Elements, CacheElements DEF DeleteLocal, Goto, Carry,
        CallsFresh, CallFresh, CallTypes, StoreTypes
<1>17. ASSUME NEW c \in Callers, DeleteRemote(c) PROVE CallsFresh'
  BY <1>17, <1>a, <1>t, Elements, CacheElements DEF DeleteRemote, Return, CallsFresh,
        CallFresh, CallTypes, StoreTypes
<1>18. CASE Close
  BY <1>18 DEF Close, Synced, CallsFresh
<1>19. CASE Crash
  BY <1>19 DEF Crash, CallsFresh
<1>20. ASSUME NEW k \in Keys, Expire(k) PROVE CallsFresh'
  BY <1>20, <1>t, Elements, CacheElements DEF Expire, CallsFresh, CallFresh, StoreTypes
<1>21. CASE UNCHANGED <<setup, scratch, local, closed, acked, callVars>>
  BY <1>21 DEF CallsFresh, CallFresh
<1> QED
  BY <1>1, <1>2, <1>3, <1>4, <1>5, <1>6, <1>7, <1>8, <1>9, <1>10, <1>11, <1>12, <1>13,
        <1>14, <1>15, <1>16, <1>17, <1>18, <1>19, <1>20, <1>21
  DEF Next, Call, CallStep, FlushStep, vars, FlushBegin, FlushTake, FlushPutOK,
        FlushPutFails, FlushDrop, FlushIndex, HealthChanges, Sync

-----------------------------------------------------------------------------
(* The theorems.                                                               *)

\* What holds of the journal that one life of the process wrote.
Life ==
  /\ EntriesOwned /\ JournalOrdered /\ InHand /\ OlderToo
  /\ ClaimsSafe /\ Landed /\ RemoteBehind

\* The inductive invariant.
IInv ==
  /\ Base /\ ModesKept /\ Values /\ Places
  /\ NumbersOwned /\ IndexTrue /\ ValuesFresh /\ DeletedUnclaimed
  /\ JournalLeft
  /\ KeysFresh /\ CallsFresh
  /\ OneLife => Life

\* A process that has nothing: no call, no flush, no entry and no acknowledged write.
Blank ==
  /\ \A c \in Callers : pc[c] = "idle"
  /\ fpc = "idle" /\ fkeys = {}
  /\ \A n \in Entry : jkey[n] = NoKey
  /\ \A k \in Keys : acked[k] = 0

\* A life begins with nothing.
LEMMA LifeBegins == Blank => Life
<1> SUFFICES ASSUME Blank PROVE Life
  OBVIOUS
<1> USE DEF Blank
<1>0. NoKey \notin Keys
  BY KeysAssumption
<1>1. EntriesOwned /\ JournalOrdered /\ InHand /\ OlderToo
  BY DEF EntriesOwned, JournalOrdered, InHand, OlderToo
<1>2. ClaimsSafe
  BY DEF ClaimsSafe, Claimed
<1>3. Landed /\ RemoteBehind
  BY <1>0 DEF Landed, RemoteBehind
<1> QED BY <1>1, <1>2, <1>3 DEF Life

\* It goes on while the process lives, and one that begins with a journal is not the first.
LEMMA LifeStep ==
  OneUser /\ IInv /\ Step => (OneLife' => Life')
<1> SUFFICES ASSUME OneUser, IInv, Step, OneLife' PROVE Life'
  OBVIOUS
<1>1. CASE Restarts
  <2>1. crashes' = crashes + 1 /\ crashes \in Nat /\ onDisk' = onDisk
    BY <1>1, Elements DEF Restarts, setup, IInv
  <2>2. ~onDisk
    BY <2>1 DEF OneLife
  <2>3. Blank'
    BY <1>1, <2>2 DEF Restarts, Ends, Blank, IInv, Base, NothingKept
  <2>4. Blank' => Life'
    BY LifeBegins, PTL
  <2> QED BY <2>3, <2>4
<1>2. CASE Lives
  <2>1. crashes' = crashes /\ onDisk' = onDisk
    BY <1>2 DEF Lives, Quiet, PutStarts, DeleteStarts, RemoteWritten, EntryNumbered,
          EntryStored, EntryCompacted, RemoteCleared, FlushStarts, EntryTaken,
          EntrySent, EntryFlushed, IndexCleared, DiskWritten, NoCallMoves, countVars, setup
  <2>2. OneLife /\ Life
    BY <2>1 DEF OneLife, IInv
  <2>3. EntriesOwned' /\ JournalOrdered' /\ InHand' /\ OlderToo'
    BY <1>2, <2>2, EntriesOwnedStep, OrderedStep, InHandStep, OlderTooStep DEF Life, IInv
  <2>4. ClaimsSafe' /\ Landed' /\ RemoteBehind'
    BY <1>2, <2>2, ClaimsStep, LandedStep, BehindStep DEF Life, IInv
  <2> QED BY <2>3, <2>4 DEF Life
<1> QED BY <1>1, <1>2 DEF Step

\* The invariant holds at the start
LEMMA IInvInit == Init => IInv
<1> SUFFICES ASSUME Init PROVE IInv
  OBVIOUS
<1>1. Base
  BY BaseInit
<1> USE Elements, <1>1 DEF Init, Putting, Numbered, Getting, Deleting
<1>2. ModesKept
  BY DEF ModesKept
<1>3. Values
  BY DEF Values
<1>4. Places
  BY DEF Places
<1>5. NumbersOwned
  BY DEF NumbersOwned
<1>6. IndexTrue
  BY DEF IndexTrue
<1>7. ValuesFresh
  BY DEF ValuesFresh
<1>8. DeletedUnclaimed
  BY DEF DeletedUnclaimed
<1>9. JournalLeft
  <2>1. \A k \in Keys : PendingOf(k) = {} /\ LeftOver(k) = {} /\ DiskOf(k) = {}
    BY DEF PendingOf, LeftOver, DiskOf
  <2> QED BY <2>1, FS_EmptySet DEF JournalLeft
<1>10. KeysFresh
  BY DEF KeysFresh
<1>11. CallsFresh
  BY DEF CallsFresh
<1>12. Life
  BY LifeBegins DEF Blank
<1> QED BY <1>1, <1>2, <1>3, <1>4, <1>5, <1>6, <1>7, <1>8, <1>9, <1>10, <1>11, <1>12
      DEF IInv

\* and every step keeps it.
LEMMA IInvStep == OneUser /\ IInv /\ [Next]_vars => IInv'
<1> SUFFICES ASSUME OneUser, IInv, [Next]_vars PROVE IInv'
  OBVIOUS
<1>1. Step
  BY Steps DEF IInv
<1>2. (OneLife => EntriesOwned) /\ (OneLife => InHand)
  BY DEF IInv, Life
<1>3. Base' /\ ModesKept' /\ Values' /\ Places'
  BY <1>1, BaseStep, ModesStep, ValuesStep, PlacesStep DEF IInv
<1>4. NumbersOwned' /\ IndexTrue' /\ ValuesFresh' /\ DeletedUnclaimed'
  BY <1>1, <1>2, NumbersOwnedStep, IndexTrueStep, ValuesFreshStep, DeletedStep DEF IInv
<1>5. JournalLeft' /\ KeysFresh' /\ CallsFresh'
  BY <1>1, <1>2, JournalLeftStep, KeysFreshStep, CallsFreshStep DEF IInv
<1>6. OneLife' => Life'
  BY <1>1, LifeStep
<1> QED BY <1>3, <1>4, <1>5, <1>6 DEF IInv

\* The inductive invariant holds of every behaviour, for keys with one user.
THEOREM Invariance ==
  ASSUME OneUser PROVE Spec => []IInv
<1>1. Init => IInv
  BY IInvInit
<1>2. IInv /\ [Next]_vars => IInv'
  BY IInvStep
<1> QED BY <1>1, <1>2, PTL DEF Spec

\* A write-back Put that returned nil is not lost on its way up while the process lives,
\* whatever the policies of the other keys, and however many keys, callers and Puts there
\* are; a store in memory makes of every life a first one (manager.go:311-363).
THEOREM AckedWritesAreSafe ==
  ASSUME OneUser PROVE Spec => []AckedWriteSafe
<1>1. IInv => AckedWriteSafe
  <2> SUFFICES ASSUME IInv, NEW k \in Keys, OneLife, WriteMode(k) = "back", acked[k] # 0
               PROVE  remote[k] >= acked[k] \/ \E n \in PendingOf(k) : jval[n] >= acked[k]
    BY DEF AckedWriteSafe
  <2>1. acked[k] \in Nat \ {0}
    BY Elements DEF IInv
  <2>2. Safe(k, acked[k])
    BY <2>1 DEF IInv, Life, ClaimsSafe, Claimed, Back
  <2> QED BY <2>2 DEF Safe, RemoteHolds, PendingOf
<1> QED BY <1>1, Invariance, PTL

\* Compaction keeps the journal from growing, and a crash leaves no more than two entries
\* of a key to what nothing will compact (manager.go:48-52, 86-97, 322-326).
THEOREM JournalIsBounded ==
  ASSUME OneUser PROVE Spec => []JournalBounded
<1>1. IInv => JournalBounded
  <2> SUFFICES ASSUME IInv, NEW k \in Keys
               PROVE  Cardinality(PendingOf(k)) <=
                        1 + 2 * crashes + (IF closed THEN 1 ELSE 0) +
                          Cardinality({c \in Callers : pc[c] = "compact" /\ key[c] = k})
    BY DEF JournalBounded
  <2> DEFINE Compacting == {c \in Callers : pc[c] = "compact" /\ key[c] = k}
  <2>1. IsFiniteSet(Compacting) /\ Cardinality(Compacting) \in Nat
    BY CallersAssumption, FS_Subset, FS_CardinalityType
  <2>2. crashes \in Nat /\ Cardinality(PendingOf(k)) \in Nat
    <3>1. PendingOf(k) \in SUBSET Entry
      BY DEF PendingOf
    <3> QED BY <3>1, Elements, EntrySets DEF IInv
  <2>3. closed => Cardinality(PendingOf(k)) <= 2 * crashes + 2
    BY DEF IInv, JournalLeft
  <2>4. ~closed /\ Compacting = {} => Cardinality(PendingOf(k)) <= 2 * crashes + 1
    BY PendingCount DEF IInv
  <2>5. ~closed => Cardinality(PendingOf(k)) <= 2 * crashes + 2
    BY PendingCount DEF IInv
  <2> HIDE DEF Compacting
  <2>6. Compacting # {} => Cardinality(Compacting) # 0
    BY <2>1, FS_EmptySet
  <2>7. Cardinality(PendingOf(k)) <=
          1 + 2 * crashes + (IF closed THEN 1 ELSE 0) + Cardinality(Compacting)
    BY <2>1, <2>2, <2>3, <2>4, <2>5, <2>6
  <2> QED BY <2>7 DEF Compacting
<1> QED BY <1>1, Invariance, PTL

\* A cached read that finds a value finds the caller's own latest acknowledged write, in
\* whichever tier it looks (manager.go:159-200).
THEOREM CachedReadsAreFresh ==
  ASSUME OneUser PROVE Spec => []CachedReadIsFresh
<1>1. IInv => CachedReadIsFresh
  <2> SUFFICES ASSUME IInv, NEW c \in Callers,
                      pc[c] = "got", mode[c] = "cached", val[c] # 0, ~closed
               PROVE  val[c] >= acked[key[c]]
    BY DEF CachedReadIsFresh
  <2>1. Cached(key[c])
    BY DEF IInv, ModesKept, Getting, Cached
  <2> QED BY <2>1 DEF IInv, CallsFresh, CallFresh
<1> QED BY <1>1, Invariance, PTL

\* A step of the flusher never takes the remote's value of a write-back key back.
LEMMA RemoteAdvances ==
  OneUser /\ IInv /\ [Next]_vars =>
    \A k \in Keys : Back(k) /\ remote'[k] # 0 => remote'[k] >= remote[k]
<1> SUFFICES ASSUME OneUser, IInv, [Next]_vars,
                    NEW k \in Keys, Back(k), remote'[k] # 0
             PROVE  remote'[k] >= remote[k]
  OBVIOUS
<1>1. Step /\ Base /\ ModesKept
  BY Steps DEF IInv
<1>2. remote[k] \in Nat
  BY <1>1, Elements
<1>3. CASE EntrySent
  <2>1. RemoteBehind
    BY <1>1, <1>3 DEF EntrySent, Base, NothingListed, OneLife, IInv, Life
  <2> QED BY <2>1, <1>2, <1>3 DEF EntrySent, Written, RemoteBehind
<1>4. ASSUME NEW c \in Callers, RemoteWritten(c) PROVE remote'[k] >= remote[k]
  <2>1. key[c] # k
    BY <1>1, <1>4 DEF RemoteWritten, ModesKept, Putting, Back
  <2> QED BY <2>1, <1>2, <1>4 DEF RemoteWritten, Written
<1>5. ASSUME NEW c \in Callers, RemoteCleared(c) PROVE remote'[k] >= remote[k]
  BY <1>2, <1>5 DEF RemoteCleared, Written
<1>6. CASE remote' = remote
  BY <1>2, <1>6
<1> QED
  BY <1>1, <1>3, <1>4, <1>5, <1>6
  DEF Step, Lives, Quiet, PutStarts, DeleteStarts, EntryNumbered, EntryStored, EntryCompacted,
      FlushStarts, EntryTaken, EntryFlushed, IndexCleared, DiskWritten, Restarts

\* The remote's value of a write-back key is never replaced by an older one: a flush sends
\* the entries it lists in the order of the Puts (manager.go:331-352), and after a restart
\* on disk, where the order is lost, it lists none.
THEOREM RemoteStaysInOrder ==
  ASSUME OneUser PROVE Spec => RemoteInOrder
<1>1. IInv /\ [Next]_vars =>
        [\A k \in Keys : WriteMode(k) = "back" /\ remote'[k] # 0 => remote'[k] >= remote[k]]_vars
  BY RemoteAdvances DEF Back
<1> QED BY <1>1, Invariance, PTL DEF Spec, RemoteInOrder

=============================================================================
