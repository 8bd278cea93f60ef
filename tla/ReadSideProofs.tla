--------------------------- MODULE ReadSideProofs ---------------------------
(***************************************************************************)
(* The read side of the manager analytics, for any number of processes,    *)
(* reads and workers, any batch size, any stream and any faults: the lock  *)
(* of the cache, the names of what a mutation changes, the worker that     *)
(* forgets no event, and the three together.                               *)
(***************************************************************************)
EXTENDS MCReadSide, SequenceTheorems, TLAPS

----------------------------------------------------------------------------
(* The caches and the lock.                                                *)

\* A read that took the lock is at work until it gave the lock back, and only
\* such a read gives it back.
LockedWork ==
  \A r \in Reads :
    /\ read[r].locked => AtWork(r)
    /\ read[r].pc \in {"unlock", "delete"} => read[r].locked

\* As long as no lock went under its holder, whoever works under the lock is who set it.
HolderLocked ==
  ~lapsed => \A r \in Reads : AtWork(r) => lock = Held(r)

CacheInv == CacheTypeOK /\ LockedWork /\ HolderLocked

----------------------------------------------------------------------------
\* The holder of a lock can be told from its value.
LEMMA LockValues ==
  /\ Free \in Lock /\ Left \in Lock /\ Free # Left
  /\ \A r \in Reads : Held(r) \in Lock /\ Held(r) # Free /\ Held(r) # Left
  /\ \A r, s \in Reads : Held(r) = Held(s) => r = s
<1>1. /\ Free.kind = NoLock /\ Left.kind = Orphan
      /\ \A r \in Reads : Held(r).kind = "held" /\ Held(r).by = r
  BY DEF Free, Left, Held
<1>2. Free \in Lock /\ Left \in Lock /\ \A r \in Reads : Held(r) \in Lock
  BY DEF Free, Left, Held, Lock
<1>3. NoLock # Orphan /\ NoLock # "held" /\ Orphan # "held"
  BY DEF NoLock, Orphan
<1>. QED  BY <1>1, <1>2, <1>3

\* The places of the copies a read uses are places.
LEMMA CopyPlaces ==
  ASSUME CacheAssumption, NEW r \in Reads, NEW tier \in {"model", "cache"}
  PROVE  Mine(r, tier) \in Places /\ Shared(tier) \in Places
BY DEF CacheAssumption, Mine, Shared, Places

\* What a step of a read does to the reads: only its own changes.
LEMMA OneReads ==
  ASSUME CacheTypeOK, NEW r \in Reads, NEW next \in Read,
         read' = [read EXCEPT ![r] = next]
  PROVE  /\ read' \in [Reads -> Read]
         /\ read'[r] = next
         /\ \A s \in Reads \ {r} : read'[s] = read[s]
BY DEF CacheTypeOK

\* Nothing is cached, nobody asks.
LEMMA CacheInitInv == ASSUME CacheAssumption, CacheInit PROVE CacheInv
<1>1. NoRead \in Read
  BY DEF NoRead, Read
<1>2. CacheTypeOK
  <2>1. copy \in [Places -> Versions \cup {NoCopy}]
    BY DEF CacheInit
  <2>2. data \in Versions
    BY DEF CacheInit, CacheAssumption, Versions
  <2>3. read \in [Reads -> Read] /\ lock \in Lock
    BY <1>1, LockValues DEF CacheInit
  <2>4. lapsed \in BOOLEAN
    BY DEF CacheInit
  <2>. QED  BY <2>1, <2>2, <2>3, <2>4 DEF CacheTypeOK
<1>3. HolderLocked
  BY DEF CacheInit, HolderLocked, AtWork, NoRead
<1>4. LockedWork
  BY DEF CacheInit, LockedWork, NoRead
<1>. QED  BY <1>2, <1>3, <1>4 DEF CacheInv

\* Every step of a read leaves caches, lock and reads well-formed.
LEMMA ReadStepTyping ==
  ASSUME CacheAssumption, CacheTypeOK, NEW r \in Reads, ReadStep(r)
  PROVE  CacheTypeOK'
<1>. DEFINE NextRead == read' \in [Reads -> Read]
            NextCopy == copy' \in [Places -> Versions \cup {NoCopy}]
<1>1. /\ Mine(r, "model") \in Places /\ Mine(r, "cache") \in Places
      /\ Shared("model") \in Places /\ Shared("cache") \in Places
  BY CopyPlaces
<1>2. /\ read \in [Reads -> Read] /\ read[r] \in Read /\ NoRead \in Read
      /\ copy \in [Places -> Versions \cup {NoCopy}] /\ data \in Versions
      /\ \A pl \in Places : copy[pl] \in Versions \cup {NoCopy}
      /\ lock \in Lock /\ lapsed \in BOOLEAN
  BY DEF CacheTypeOK, NoRead, Read
<1>3. \A pc \in Awaits : GoTo(r, pc) => NextRead
  <2>1. \A pc \in Awaits : [read[r] EXCEPT !.pc = pc] \in Read
    BY <1>2 DEF Read
  <2>. QED  BY <1>2, <2>1 DEF GoTo
<1>4. (Alone(r) => NextRead) /\ (Answer(r) => NextRead)
  <2>1. [NoRead EXCEPT !.pc = "again"] \in Read
    BY DEF NoRead, Read, Awaits
  <2>. QED  BY <1>2, <2>1 DEF Alone, Answer
<1>5. \A v \in Versions \cup {NoCopy} : read' = Return(r, v) => NextRead
  <2>1. \A v \in Versions \cup {NoCopy} : [NoRead EXCEPT !.pc = "save", !.value = v] \in Read
    BY DEF NoRead, Read, Awaits
  <2>. QED  BY <1>2, <2>1 DEF Return
<1>6. \A v \in Versions \cup {NoCopy}, cs \in [Places -> Versions \cup {NoCopy}] :
        KeepModel(r, v, cs) \in [Places -> Versions \cup {NoCopy}]
  BY <1>1 DEF KeepModel
<1>7. read[r].value \in Versions \cup {NoCopy}
  BY <1>2 DEF Read
<1>8. data' = data /\ lapsed' = lapsed
  BY DEF ReadStep, ModelHit, ModelMiss, CacheHit, CacheMiss, TakeLock, StopWaiting, Compute,
         ComputeFails, Store, Unlock, Delete, RedisFails, ComputeAgain, Keep, Save
<1>9. lock' \in Lock
  BY <1>2, LockValues
  DEF ReadStep, ModelHit, ModelMiss, CacheHit, CacheMiss, TakeLock, StopWaiting, Compute,
      ComputeFails, Store, Unlock, Delete, RedisFails, ComputeAgain, Keep, Save
<1>10. AfterLock(r) => NextRead /\ NextCopy
  <2>. HIDE DEF NextRead
  <2>. QED  BY <1>2, <1>4, <1>5, <1>6, <1>7 DEF AfterLock
<1>11. NextRead /\ NextCopy
  <2>. HIDE DEF NextRead
  <2>1. CASE ModelHit(r) \/ CacheMiss(r) \/ StopWaiting(r)
    BY <2>1, <1>2, <1>3, <1>4 DEF ModelHit, CacheMiss, StopWaiting, Awaits
  <2>2. CASE ModelMiss(r)
    BY <2>2, <1>1, <1>2, <1>3, <1>5, <1>6 DEF ModelMiss, Awaits
  <2>3. CASE CacheHit(r)
    BY <2>3, <1>1, <1>2, <1>5, <1>6 DEF CacheHit
  <2>4. CASE TakeLock(r)
    <3>1. [read EXCEPT ![r].pc = "compute", ![r].locked = TRUE] \in [Reads -> Read]
      BY <1>2 DEF Read, Awaits
    <3>. QED  BY <2>4, <3>1, <1>2, <1>3 DEF TakeLock, Awaits, NextRead
  <2>5. CASE Compute(r) \/ ComputeAgain(r)
    BY <2>5, <1>2 DEF Compute, ComputeAgain, Read, Awaits, NextRead
  <2>6. CASE ComputeFails(r)
    <3>1. [read EXCEPT ![r].pc = "unlock", ![r].failed = TRUE] \in [Reads -> Read]
      BY <1>2 DEF Read, Awaits
    <3>. QED  BY <2>6, <3>1, <1>2, <1>4 DEF ComputeFails, NextRead
  <2>7. CASE Store(r)
    <3>. DEFINE kept == [copy EXCEPT ![Shared("cache")] = read[r].value,
                                     ![Mine(r, "cache")] = read[r].value]
    <3>1. kept \in [Places -> Versions \cup {NoCopy}]
      BY <1>1, <1>2, <1>7
    <3>2. "unlock" \in Awaits
      BY DEF Awaits
    <3>3. \/ GoTo(r, "unlock") /\ copy' = kept
          \/ read' = Return(r, read[r].value) /\ copy' = KeepModel(r, read[r].value, kept)
      BY <2>7 DEF Store
    <3>. HIDE DEF kept
    <3>4. NextRead
      BY <3>2, <3>3, <1>3, <1>5, <1>7
    <3>5. NextCopy
      BY <3>1, <3>3, <1>6, <1>7
    <3>. QED  BY <3>4, <3>5
  <2>8. CASE Unlock(r) \/ Delete(r)
    BY <2>8, <1>2, <1>3, <1>10 DEF Unlock, Delete, Awaits
  <2>9. CASE RedisFails(r)
    <3>1. [read EXCEPT ![r].pc = "unlock", ![r].failed = TRUE] \in [Reads -> Read]
      BY <1>2 DEF Read, Awaits
    <3>. QED  BY <2>9, <3>1, <1>2, <1>4 DEF RedisFails, NextRead
  <2>10. CASE Keep(r)
    BY <2>10, <1>1, <1>2, <1>5, <1>6, <1>7 DEF Keep
  <2>11. CASE Save(r)
    BY <2>11, <1>1, <1>2, <1>4, <1>7 DEF Save
  <2>. QED  BY <2>1, <2>2, <2>3, <2>4, <2>5, <2>6, <2>7, <2>8, <2>9, <2>10, <2>11 DEF ReadStep
<1>. QED  BY <1>2, <1>8, <1>9, <1>11 DEF CacheTypeOK

\* So does every other step.
LEMMA CacheTypingNext ==
  ASSUME CacheAssumption, CacheTypeOK, [CacheNext]_cacheVars
  PROVE  CacheTypeOK'
<1>1. CASE UNCHANGED cacheVars
  BY <1>1 DEF cacheVars, CacheTypeOK
<1>2. CASE Mutate
  BY <1>2 DEF Mutate, CacheTypeOK, Versions, CacheAssumption
<1>3. ASSUME NEW r \in Reads, ReadStep(r) PROVE CacheTypeOK'
  BY <1>3, ReadStepTyping
<1>4. ASSUME NEW r \in Reads, Ask(r) PROVE CacheTypeOK'
  <2>1. [read[r] EXCEPT !.pc = "model"] \in Read
    BY DEF CacheTypeOK, Read, Awaits
  <2>. QED  BY <1>4, <2>1 DEF Ask, GoTo, CacheTypeOK
<1>5. ASSUME NEW pl \in Places, Drop(pl) PROVE CacheTypeOK'
  BY <1>5 DEF Drop, CacheTypeOK
<1>6. CASE LockExpires
  <2>1. lapsed' \in BOOLEAN
    BY <1>6 DEF LockExpires, CacheTypeOK
  <2>2. lock' \in Lock
    BY <1>6, LockValues DEF LockExpires
  <2>. QED  BY <1>6, <2>1, <2>2 DEF LockExpires, CacheTypeOK
<1>7. ASSUME NEW p \in Procs, ProcessStops(p) PROVE CacheTypeOK'
  <2>1. NoRead \in Read
    BY DEF NoRead, Read
  <2>2. copy' \in [Places -> Versions \cup {NoCopy}]
    BY <1>7 DEF ProcessStops, CacheTypeOK
  <2>3. read' \in [Reads -> Read]
    BY <1>7, <2>1 DEF ProcessStops, CacheTypeOK
  <2>4. lock' \in Lock
    BY <1>7, LockValues DEF ProcessStops, CacheTypeOK
  <2>5. data' \in Versions
    BY <1>7 DEF ProcessStops, CacheTypeOK
  <2>6. lapsed' \in BOOLEAN
    BY <1>7 DEF ProcessStops, CacheTypeOK
  <2>. QED  BY <2>2, <2>3, <2>4, <2>5, <2>6 DEF CacheTypeOK
<1>8. ASSUME NEW r \in Reads, LockUnheard(r) \/ DeleteTwice(r) PROVE CacheTypeOK'
  <2>1. [read[r] EXCEPT !.pc = "wait"] \in Read /\ [NoRead EXCEPT !.pc = "again"] \in Read
    BY DEF CacheTypeOK, NoRead, Read, Awaits
  <2>2. read' \in [Reads -> Read]
    BY <1>8, <2>1 DEF LockUnheard, DeleteTwice, GoTo, Alone, CacheTypeOK
  <2>3. lock' \in Lock
    BY <1>8, LockValues DEF LockUnheard, DeleteTwice
  <2>. QED  BY <1>8, <2>2, <2>3 DEF LockUnheard, DeleteTwice, CacheTypeOK
<1>. QED  BY <1>1, <1>2, <1>3, <1>4, <1>5, <1>6, <1>7, <1>8 DEF CacheNext

----------------------------------------------------------------------------
\* A read that leaves the lock alone and does not start work under it keeps
\* the lock with who set it.
LEMMA LockUntouched ==
  ASSUME CacheInv, NEW r \in Reads, NEW next \in Read,
         read' = [read EXCEPT ![r] = next],
         next.locked => read[r].locked /\ next.pc \in {"compute", "store", "unlock", "delete"},
         next.pc \in {"unlock", "delete"} => next.locked,
         lapsed' = lapsed,
         lock' = lock
  PROVE  LockedWork' /\ HolderLocked'
<1>1. /\ read'[r] = next
      /\ \A s \in Reads \ {r} : read'[s] = read[s]
  BY OneReads DEF CacheInv
<1>2. AtWork(r)' => AtWork(r)
  BY <1>1 DEF AtWork, CacheInv, LockedWork
<1>3. \A s \in Reads \ {r} : AtWork(s)' = AtWork(s)
  BY <1>1 DEF AtWork
<1>4. LockedWork'
  BY <1>1, <1>3 DEF AtWork, CacheInv, LockedWork
<1>5. HolderLocked'
  BY <1>2, <1>3 DEF CacheInv, HolderLocked
<1>. QED  BY <1>4, <1>5

\* A read that ends its work may change the lock as it likes: as long as none
\* ran out, it was its own.
LEMMA WorkEnds ==
  ASSUME CacheInv, NEW r \in Reads, NEW next \in Read,
         read[r].locked,
         read' = [read EXCEPT ![r] = next],
         ~next.locked, next.pc \notin {"unlock", "delete"},
         lapsed' = lapsed
  PROVE  LockedWork' /\ HolderLocked'
<1>1. /\ read'[r] = next
      /\ \A s \in Reads \ {r} : read'[s] = read[s]
  BY OneReads DEF CacheInv
<1>2. AtWork(r)
  BY DEF CacheInv, LockedWork
<1>3. ~AtWork(r)'
  BY <1>1 DEF AtWork
<1>4. \A s \in Reads \ {r} : AtWork(s)' = AtWork(s)
  BY <1>1 DEF AtWork
<1>5. LockedWork'
  BY <1>1, <1>4 DEF AtWork, CacheInv, LockedWork
<1>6. ASSUME ~lapsed, NEW s \in Reads \ {r} PROVE ~AtWork(s)
  BY <1>2, <1>6, LockValues DEF CacheInv, HolderLocked
<1>7. HolderLocked'
  BY <1>3, <1>4, <1>6 DEF HolderLocked
<1>. QED  BY <1>5, <1>7

\* The read leaves the lock, or what it did under it: it answers, returns a
\* value or goes on without Redis.
LEMMA ReadLeaves ==
  ASSUME CacheInv, NEW r \in Reads, lapsed' = lapsed,
         lock' = lock \/ read[r].locked,
         \/ Alone(r) \/ Answer(r)
         \/ \E v \in Versions \cup {NoCopy} : read' = Return(r, v)
  PROVE  LockedWork' /\ HolderLocked'
<1>1. PICK next \in Read : /\ read' = [read EXCEPT ![r] = next]
                           /\ ~next.locked
                           /\ next.pc \notin {"unlock", "delete"}
  <2>1. /\ NoRead \in Read /\ ~NoRead.locked /\ NoRead.pc = "idle"
        /\ [NoRead EXCEPT !.pc = "again"] \in Read
        /\ ~[NoRead EXCEPT !.pc = "again"].locked
        /\ [NoRead EXCEPT !.pc = "again"].pc = "again"
    BY DEF NoRead, Read, Awaits
  <2>2. \A v \in Versions \cup {NoCopy} :
          /\ [NoRead EXCEPT !.pc = "save", !.value = v] \in Read
          /\ ~[NoRead EXCEPT !.pc = "save", !.value = v].locked
          /\ [NoRead EXCEPT !.pc = "save", !.value = v].pc = "save"
    BY DEF NoRead, Read, Awaits
  <2>3. CASE Alone(r) \/ Answer(r)
    BY <2>1, <2>3 DEF Alone, Answer
  <2>4. CASE \E v \in Versions \cup {NoCopy} : read' = Return(r, v)
    BY <2>2, <2>4 DEF Return
  <2>. QED  BY <2>3, <2>4
<1>2. CASE lock' = lock
  BY <1>1, <1>2, LockUntouched
<1>3. CASE read[r].locked
  BY <1>1, <1>3, WorkEnds
<1>. QED  BY <1>2, <1>3

\* The read goes on to its next await, and leaves the lock alone.
LEMMA ReadMoves ==
  ASSUME CacheInv, NEW r \in Reads, NEW pc \in Awaits, GoTo(r, pc),
         read[r].locked => pc \in {"compute", "store", "unlock", "delete"},
         pc \in {"unlock", "delete"} => read[r].locked,
         lapsed' = lapsed, lock' = lock
  PROVE  LockedWork' /\ HolderLocked'
<1>1. read[r] \in Read
  BY DEF CacheInv, CacheTypeOK
<1>. DEFINE next == [read[r] EXCEPT !.pc = pc]
<1>2. next \in Read /\ next.locked = read[r].locked /\ next.pc = pc
  BY <1>1 DEF Read
<1>3. read' = [read EXCEPT ![r] = next]
  BY DEF GoTo
<1>. HIDE DEF next
<1>. QED  BY <1>2, <1>3, LockUntouched

\* No step of a read lets two reads work under the lock.
LEMMA ReadStepLocked ==
  ASSUME CacheInv, NEW r \in Reads, ReadStep(r)
  PROVE  LockedWork' /\ HolderLocked'
<1>1. /\ read \in [Reads -> Read] /\ read[r] \in Read
      /\ copy \in [Places -> Versions \cup {NoCopy}] /\ data \in Versions
  BY DEF CacheInv, CacheTypeOK
<1>2. read[r].value \in Versions \cup {NoCopy}
  BY <1>1 DEF Read
<1>3. /\ read[r].locked => read[r].pc \in {"compute", "store", "unlock", "delete"}
      /\ read[r].pc \in {"unlock", "delete"} => read[r].locked
  BY DEF CacheInv, LockedWork, AtWork
<1>4. AfterLock(r) => Alone(r) \/ read' = Return(r, read[r].value)
  BY DEF AfterLock
<1>5. CASE ModelHit(r)
  BY <1>5, ReadLeaves DEF ModelHit
<1>6. CASE ModelMiss(r)
  <2>1. CASE read' = Return(r, copy[Mine(r, "cache")])
    <3>1. copy[Mine(r, "cache")] \in Versions \cup {NoCopy}
      BY <1>1, CopyPlaces, CacheAssumption
    <3>. QED  BY <1>6, <2>1, <3>1, ReadLeaves DEF ModelMiss
  <2>2. CASE GoTo(r, "cache")
    BY <1>3, <1>6, <2>2, ReadMoves DEF ModelMiss, Awaits
  <2>. QED  BY <1>6, <2>1, <2>2 DEF ModelMiss
<1>7. CASE CacheHit(r)
  <2>1. copy[Shared("cache")] \in Versions \cup {NoCopy}
    BY <1>1, CopyPlaces, CacheAssumption
  <2>. QED  BY <1>7, <2>1, ReadLeaves DEF CacheHit
<1>8. CASE CacheMiss(r)
  BY <1>3, <1>8, ReadMoves DEF CacheMiss, Awaits
<1>9. CASE TakeLock(r)
  <2>1. CASE GoTo(r, "wait") /\ lock' = lock
    BY <1>3, <1>9, <2>1, ReadMoves DEF TakeLock, Awaits
  <2>2. CASE /\ lock = Free /\ lock' = Held(r)
             /\ read' = [read EXCEPT ![r].pc = "compute", ![r].locked = TRUE]
    <3>. DEFINE next == [read[r] EXCEPT !.pc = "compute", !.locked = TRUE]
    <3>1. next \in Read /\ next.locked /\ next.pc = "compute"
      BY <1>1 DEF Read, Awaits
    <3>2. read' = [read EXCEPT ![r] = next]
      BY <2>2
    <3>. HIDE DEF next
    <3>3. /\ read'[r] = next
          /\ \A s \in Reads \ {r} : read'[s] = read[s]
      BY <3>1, <3>2, OneReads DEF CacheInv
    <3>4. \A s \in Reads \ {r} : AtWork(s)' = AtWork(s)
      BY <3>3 DEF AtWork
    <3>5. LockedWork'
      BY <3>1, <3>3, <3>4 DEF AtWork, CacheInv, LockedWork
    <3>6. ASSUME ~lapsed, NEW s \in Reads PROVE ~AtWork(s)
      BY <2>2, <3>6, LockValues DEF CacheInv, HolderLocked
    <3>7. lapsed' = lapsed
      BY <1>9 DEF TakeLock
    <3>8. HolderLocked'
      BY <2>2, <3>4, <3>6, <3>7 DEF HolderLocked
    <3>. QED  BY <3>5, <3>8
  <2>. QED  BY <1>9, <2>1, <2>2 DEF TakeLock
<1>10. CASE StopWaiting(r)
  BY <1>3, <1>10, ReadMoves DEF StopWaiting, Awaits
<1>11. CASE Compute(r)
  <2>. DEFINE next == [read[r] EXCEPT !.pc = "store", !.value = data]
  <2>1. next \in Read /\ next.locked = read[r].locked /\ next.pc = "store"
    BY <1>1 DEF Read, Awaits
  <2>2. read' = [read EXCEPT ![r] = next]
    BY <1>11 DEF Compute
  <2>. HIDE DEF next
  <2>. QED  BY <1>11, <2>1, <2>2, LockUntouched DEF Compute
<1>12. ASSUME read[r].locked, lapsed' = lapsed, lock' = lock,
              read' = [read EXCEPT ![r].pc = "unlock", ![r].failed = TRUE]
       PROVE  LockedWork' /\ HolderLocked'
  <2>. DEFINE next == [read[r] EXCEPT !.pc = "unlock", !.failed = TRUE]
  <2>1. next \in Read /\ next.locked = read[r].locked /\ next.pc = "unlock"
    BY <1>1 DEF Read, Awaits
  <2>2. read' = [read EXCEPT ![r] = next]
    BY <1>12
  <2>. HIDE DEF next
  <2>. QED  BY <1>12, <2>1, <2>2, LockUntouched
<1>13. CASE ComputeFails(r)
  BY <1>12, <1>13, ReadLeaves DEF ComputeFails
<1>14. CASE Store(r)
  <2>1. CASE read[r].locked
    BY <1>14, <2>1, ReadMoves DEF Store, Awaits
  <2>2. CASE ~read[r].locked
    BY <1>2, <1>14, <2>2, ReadLeaves DEF Store
  <2>. QED  BY <2>1, <2>2
<1>15. CASE Unlock(r)
  <2>1. CASE lock = Held(r)
    BY <1>3, <1>15, <2>1, ReadMoves DEF Unlock, Awaits
  <2>2. CASE lock # Held(r)
    BY <1>2, <1>4, <1>15, <2>2, ReadLeaves DEF Unlock
  <2>. QED  BY <2>1, <2>2
<1>16. CASE Delete(r)
  BY <1>2, <1>3, <1>4, <1>16, ReadLeaves DEF Delete
<1>17. CASE RedisFails(r)
  BY <1>3, <1>12, <1>17, ReadLeaves DEF RedisFails
<1>18. CASE ComputeAgain(r)
  <2>. DEFINE next == [read[r] EXCEPT !.pc = "keep", !.value = data]
  <2>1. next \in Read /\ next.locked = read[r].locked /\ next.pc = "keep"
    BY <1>1 DEF Read, Awaits
  <2>2. read' = [read EXCEPT ![r] = next]
    BY <1>18 DEF ComputeAgain
  <2>3. ~next.locked
    BY <1>3, <1>18, <2>1 DEF ComputeAgain
  <2>. HIDE DEF next
  <2>. QED  BY <1>18, <2>1, <2>2, <2>3, LockUntouched DEF ComputeAgain
<1>19. CASE Keep(r)
  BY <1>2, <1>19, ReadLeaves DEF Keep
<1>20. CASE Save(r)
  BY <1>20, ReadLeaves DEF Save
<1>. QED  BY <1>5, <1>6, <1>7, <1>8, <1>9, <1>10, <1>11, <1>13, <1>14, <1>15, <1>16, <1>17,
             <1>18, <1>19, <1>20 DEF ReadStep

\* Nor does any other: a lock that goes under its holder is seen to, and a
\* process that stops takes its own reads with it.
LEMMA CacheInvNext ==
  ASSUME CacheAssumption, CacheInv, [CacheNext]_cacheVars
  PROVE  CacheInv'
<1>1. CacheTypeOK'
  BY CacheTypingNext DEF CacheInv
<1>. SUFFICES LockedWork' /\ HolderLocked'
  BY <1>1 DEF CacheInv
<1>2. CASE UNCHANGED <<lock, lapsed, read>>
  BY <1>2 DEF CacheInv, LockedWork, HolderLocked, AtWork
<1>3. ASSUME NEW r \in Reads, ReadStep(r) PROVE LockedWork' /\ HolderLocked'
  BY <1>3, ReadStepLocked
<1>4. ASSUME NEW r \in Reads, Ask(r) PROVE LockedWork' /\ HolderLocked'
  <2>1. ~read[r].locked
    BY <1>4 DEF Ask, CacheInv, LockedWork, AtWork
  <2>. QED  BY <1>4, <2>1, ReadMoves DEF Ask, Awaits
<1>5. CASE LockExpires
  <2>1. LockedWork'
    BY <1>5 DEF LockExpires, CacheInv, LockedWork, AtWork
  <2>2. ASSUME ~lapsed', NEW r \in Reads, AtWork(r) PROVE FALSE
    BY <1>5, <2>2 DEF LockExpires, CacheInv, HolderLocked
  <2>3. \A r \in Reads : AtWork(r)' = AtWork(r)
    BY <1>5 DEF LockExpires, AtWork
  <2>. QED  BY <2>1, <2>2, <2>3 DEF HolderLocked
<1>6. ASSUME NEW p \in Procs, ProcessStops(p) PROVE LockedWork' /\ HolderLocked'
  <2>1. \A r \in Reads : read'[r] = IF Home[r] = p THEN NoRead ELSE read[r]
    BY <1>6 DEF ProcessStops
  <2>2. LockedWork'
    BY <2>1 DEF CacheInv, LockedWork, AtWork, NoRead
  <2>3. ASSUME ~lapsed', NEW r \in Reads, AtWork(r)' PROVE lock' = Held(r)
    <3>1. Home[r] # p /\ AtWork(r)
      BY <2>1, <2>3 DEF AtWork, NoRead
    <3>2. lock = Held(r)
      BY <1>6, <2>3, <3>1 DEF ProcessStops, CacheInv, HolderLocked
    <3>3. \A s \in Reads : lock = Held(s) => s = r
      BY <3>2, LockValues
    <3>. QED  BY <1>6, <3>1, <3>2, <3>3 DEF ProcessStops
  <2>. QED  BY <2>2, <2>3 DEF HolderLocked
<1>7. CASE Mutate \/ \E pl \in Places : Drop(pl)
  BY <1>2, <1>7 DEF Mutate, Drop
<1>8. ASSUME NEW r \in Reads, LockUnheard(r) PROVE LockedWork' /\ HolderLocked'
  <2>1. PICK next \in Read : /\ read' = [read EXCEPT ![r] = next]
                             /\ ~next.locked
                             /\ next.pc \notin {"unlock", "delete"}
    <3>1. read[r] \in Read /\ ~read[r].locked
      BY <1>8 DEF LockUnheard, CacheInv, CacheTypeOK, LockedWork, AtWork
    <3>2. /\ [read[r] EXCEPT !.pc = "wait"] \in Read
          /\ ~[read[r] EXCEPT !.pc = "wait"].locked
          /\ [read[r] EXCEPT !.pc = "wait"].pc = "wait"
      BY <3>1 DEF Read, Awaits
    <3>3. /\ [NoRead EXCEPT !.pc = "again"] \in Read
          /\ ~[NoRead EXCEPT !.pc = "again"].locked
          /\ [NoRead EXCEPT !.pc = "again"].pc = "again"
      BY DEF NoRead, Read, Awaits
    <3>. QED  BY <1>8, <3>2, <3>3 DEF LockUnheard, GoTo, Alone
  <2>2. read'[r] = next /\ \A s \in Reads \ {r} : read'[s] = read[s]
    BY <2>1, OneReads DEF CacheInv
  <2>3. ~AtWork(r)' /\ \A s \in Reads \ {r} : AtWork(s)' = AtWork(s)
    BY <2>1, <2>2 DEF AtWork
  <2>4. LockedWork'
    BY <2>1, <2>2, <2>3 DEF CacheInv, LockedWork
  <2>5. ASSUME ~lapsed, NEW s \in Reads PROVE ~AtWork(s)
    BY <1>8, <2>5, LockValues DEF LockUnheard, CacheInv, HolderLocked
  <2>6. HolderLocked'
    BY <1>8, <2>3, <2>5 DEF LockUnheard, HolderLocked
  <2>. QED  BY <2>4, <2>6
<1>9. ASSUME NEW r \in Reads, DeleteTwice(r) PROVE LockedWork' /\ HolderLocked'
  BY <1>9 DEF DeleteTwice, CacheInv, LockedWork, HolderLocked, AtWork
<1>. QED  BY <1>2, <1>3, <1>4, <1>5, <1>6, <1>7, <1>8, <1>9 DEF CacheNext, cacheVars

----------------------------------------------------------------------------
\* Caches, the lock in Redis and the reads in progress stay well-formed.
THEOREM CacheTyping == CacheSpec => []CacheTypeOK
<1>1. CacheInit => CacheInv
  BY CacheInitInv, CacheAssumption
<1>2. CacheInv /\ [CacheNext]_cacheVars => CacheInv'
  BY CacheInvNext, CacheAssumption
<1>3. CacheInv => CacheTypeOK
  BY DEF CacheInv
<1>. QED  BY <1>1, <1>2, <1>3, PTL DEF CacheSpec

\* As long as no lock of the analytics cache ran out, or was deleted twice,
\* under its holder, one read at a time computes the figures under it.
THEOREM OneHolderAtATime == CacheSpec => []OneHolder
<1>1. CacheInit => CacheInv
  BY CacheInitInv, CacheAssumption
<1>2. CacheInv /\ [CacheNext]_cacheVars => CacheInv'
  BY CacheInvNext, CacheAssumption
<1>3. CacheInv => OneHolder
  BY LockValues DEF CacheInv, HolderLocked, OneHolder
<1>. QED  BY <1>1, <1>2, <1>3, PTL DEF CacheSpec

----------------------------------------------------------------------------
\* The order stays well-formed: a field at a time.
LEMMA FiguresTypingNext ==
  ASSUME FiguresAssumption, FiguresTypeOK, [FiguresNext]_figuresVars
  PROVE  FiguresTypeOK'
<1>1. CASE UNCHANGED figuresVars
  BY <1>1 DEF figuresVars, FiguresTypeOK
<1>2. \A q \in Requests : Announce(q) => named' \subseteq Sections /\ today' = today
  BY DEF Announce, inferEventType, sectionForEventType, EventTypes, Requests
<1>3. \A some \in SUBSET Sections : Unannounced(some) => named' \subseteq Sections /\ today' = today
  BY DEF Unannounced
<1>4. NoOrder \in Db /\ db \in Db /\ today \in 0..Days
  BY DEF NoOrder, Db, FiguresAssumption, FiguresTypeOK
<1>5. CASE CreateOrder
  <2>1. ASSUME NEW due \in {"unknown", "past", "ahead"}, NEW cash \in {"none", "expected"},
               NEW invoice \in {"none", "pending"}, NEW here \in BOOLEAN
        PROVE  [NoOrder EXCEPT !.status = "pending", !.updated = today, !.due = due,
                               !.cash = cash, !.invoice = invoice, !.here = here] \in Db
    BY <1>4 DEF Db, Statuses, ActiveStatuses
  <2>. PICK due \in {"unknown", "past", "ahead"}, cash \in {"none", "expected"},
            invoice \in {"none", "pending"}, here \in BOOLEAN, q \in {"create", "import"} :
         /\ db' = [NoOrder EXCEPT !.status = "pending", !.updated = today, !.due = due,
                                  !.cash = cash, !.invoice = invoice, !.here = here]
         /\ Announce(q)
    BY <1>5 DEF CreateOrder
  <2>2. db' \in Db
    BY <2>1
  <2>3. named' \subseteq Sections /\ today' = today
    BY <1>2 DEF Requests
  <2>. QED  BY <1>4, <2>2, <2>3 DEF FiguresTypeOK
<1>6. CASE ChangeStatus
  BY <1>2, <1>4, <1>6 DEF ChangeStatus, Db, Requests, FiguresTypeOK
<1>7. CASE CollectCash \/ HandOffCash \/ SettleCash
  BY <1>2, <1>4, <1>7 DEF CollectCash, HandOffCash, SettleCash, Db, Requests, FiguresTypeOK
<1>8. CASE PayInvoice
  BY <1>3, <1>4, <1>8 DEF PayInvoice, Db, FiguresTypeOK, Sections
<1>9. CASE BackfillDue \/ ChangePolicy
  BY <1>3, <1>4, <1>9 DEF BackfillDue, ChangePolicy, Db, FiguresTypeOK, Sections
<1>10. CASE MoveDriver
  BY <1>3, <1>4, <1>10 DEF MoveDriver, Db, FiguresTypeOK
<1>11. CASE NextDay
  BY <1>4, <1>11 DEF NextDay, FiguresTypeOK, FiguresAssumption
<1>. QED  BY <1>1, <1>5, <1>6, <1>7, <1>8, <1>9, <1>10, <1>11 DEF FiguresNext

\* The order, its invoice and its cash stay well-formed, and only sections are
\* ever announced.
THEOREM FiguresTyping == FiguresSpec => []FiguresTypeOK
<1>1. FiguresInit => FiguresTypeOK
  BY FiguresAssumption DEF FiguresInit, FiguresTypeOK, FiguresAssumption, NoOrder, Db
<1>2. FiguresTypeOK /\ [FiguresNext]_figuresVars => FiguresTypeOK'
  BY FiguresTypingNext, FiguresAssumption
<1>. QED  BY <1>1, <1>2, PTL DEF FiguresSpec

\* A section that a mutation changes is among those known to change.
LEMMA MutationNamed ==
  ASSUME FiguresTypeOK, [FiguresNext]_figuresVars,
         NEW s \in Sections, NEW scope \in Scopes,
         Figures(s, scope, db') # Figures(s, scope, db)
  PROVE  s \in named'
<1>1. db \in Db
  BY DEF FiguresTypeOK
<1>2. CASE CreateOrder \/ ChangeStatus \/ CollectCash \/ MoveDriver
  <2>1. named' = Sections
    BY <1>2 DEF CreateOrder, ChangeStatus, CollectCash, MoveDriver, Announce, Unannounced,
                inferEventType, sectionForEventType, EventTypes, Requests
  <2>. QED  BY <2>1
<1>3. CASE HandOffCash \/ SettleCash
  <2>1. named' = Sections \ {"trend"}
    BY <1>3 DEF HandOffCash, SettleCash, Announce,
                inferEventType, sectionForEventType, EventTypes, Requests
  <2>2. db'.status = db.status /\ db'.here = db.here /\ db'.updated = db.updated
    BY <1>1, <1>3 DEF HandOffCash, SettleCash, Db
  <2>3. s # "trend"
    BY <2>2 DEF Figures, InScope, TrendFigures
  <2>. QED  BY <2>1, <2>3
<1>4. CASE PayInvoice
  <2>1. named' = {"summary"}
    BY <1>4 DEF PayInvoice, Unannounced
  <2>2. db' = [db EXCEPT !.invoice = "paid"]
    BY <1>4 DEF PayInvoice
  <2>3. \A f \in {"status", "here", "updated", "due", "codPaid", "cash", "holder"} : db'[f] = db[f]
    BY <1>1, <2>2 DEF Db
  <2>4. s = "summary"
    BY <2>3 DEF Figures, InScope, TrendFigures, LateFigures, ExposureFigures, FinanceQueueFigures,
               Open, Unpaid, Sections
  <2>. QED  BY <2>1, <2>4
<1>5. CASE BackfillDue \/ ChangePolicy
  <2>1. named' = {"summary", "warnings"}
    BY <1>5 DEF BackfillDue, ChangePolicy, Unannounced
  <2>2. \A f \in {"status", "here", "codPaid", "cash", "holder"} : db'[f] = db[f]
    BY <1>1, <1>5 DEF BackfillDue, ChangePolicy, Db
  <2>3. db'.updated = db.updated \/ db.status # "delivered"
    BY <1>1, <1>5 DEF BackfillDue, ChangePolicy, Db, Open, ActiveStatuses
  <2>4. s \in {"summary", "warnings"}
    BY <2>2, <2>3 DEF Figures, InScope, TrendFigures, FinanceQueueFigures, Sections
  <2>. QED  BY <2>1, <2>4
<1>6. CASE NextDay \/ UNCHANGED figuresVars
  BY <1>6 DEF NextDay, figuresVars
<1>. QED  BY <1>2, <1>3, <1>4, <1>5, <1>6 DEF FiguresNext

\* No request that publishes an event changes, in any scope, a section of the
\* analytics that its event does not name.
THEOREM EventsNameChanges == FiguresSpec => ChangesAreNamed
<1>1. FiguresInit => FiguresTypeOK
  BY FiguresAssumption DEF FiguresInit, FiguresTypeOK, FiguresAssumption, NoOrder, Db
<1>2. FiguresTypeOK /\ [FiguresNext]_figuresVars => FiguresTypeOK'
  BY FiguresTypingNext, FiguresAssumption
<1>3. FiguresTypeOK /\ [FiguresNext]_figuresVars
        => [\A s \in Sections, scope \in Scopes :
              Figures(s, scope, db') # Figures(s, scope, db) => s \in named']_figuresVars
  BY MutationNamed
<1>. QED  BY <1>1, <1>2, <1>3, PTL DEF FiguresSpec, ChangesAreNamed

----------------------------------------------------------------------------
(* The worker.                                                             *)

\* What a worker x will still rebuild when the events in m are marked.
Will(x, m) ==
  (ToSet(x.batch) \ m) \cup (UNION x.rebuilds)
    \cup IF x.timer \/ x.batch # <<>> THEN x.owed ELSE {}

\* A rebuild has covered the event, a worker will, or a failure made it lost.
Account(e) ==
  \/ e \in rebuilt \cup lost
  \/ \E w \in Workers : e \in Will(worker[w], marked)

\* A worker's pc says whether it is in the middle of a batch.
Fits(x) == x.pc \in {"mark", "ack"} <=> x.batch # <<>>

\* An entry is acknowledged after it was marked.
AckMarked ==
  \A w \in Workers : worker[w].pc = "ack" => Head(worker[w].batch) \in marked

\* The mark that makes workers drop an event is set on events that are seen
\* to: without this a second copy of an event could be dropped for nothing.
MarkedAccounted == \A e \in marked \cap Matters : Account(e)

WorkerInv == WorkerTypeOK /\ AckMarked /\ MarkedAccounted /\ Accounted

----------------------------------------------------------------------------
\* The elements of a sequence are its first and those of the rest.
LEMMA HeadAndTail ==
  ASSUME NEW S, NEW s \in Seq(S), s # <<>>
  PROVE  /\ Head(s) \in S /\ Tail(s) \in Seq(S)
         /\ ToSet(s) = {Head(s)} \cup ToSet(Tail(s))
<1>1. /\ Head(s) = s[1] /\ Head(s) \in S /\ Tail(s) \in Seq(S)
      /\ Len(Tail(s)) = Len(s) - 1 /\ Len(s) \in Nat \ {0}
      /\ \A i \in 1 .. Len(Tail(s)) : Tail(s)[i] = s[i + 1]
  BY HeadTailProperties, EmptySeq
<1>2. DOMAIN s = 1 .. Len(s) /\ DOMAIN Tail(s) = 1 .. Len(s) - 1
  BY <1>1
<1>3. ToSet(s) \subseteq {Head(s)} \cup ToSet(Tail(s))
  <2>1. ASSUME NEW i \in 1 .. Len(s) PROVE s[i] \in {Head(s)} \cup ToSet(Tail(s))
    <3>1. CASE i = 1
      BY <1>1, <3>1
    <3>2. CASE i # 1
      <4>1. i - 1 \in 1 .. Len(s) - 1 /\ Tail(s)[i - 1] = s[i]
        BY <1>1, <3>2
      <4>. QED  BY <1>2, <4>1 DEF ToSet
    <3>. QED  BY <3>1, <3>2
  <2>. QED  BY <1>2, <2>1 DEF ToSet
<1>4. {Head(s)} \cup ToSet(Tail(s)) \subseteq ToSet(s)
  <2>1. 1 \in DOMAIN s /\ \A i \in DOMAIN Tail(s) : i + 1 \in DOMAIN s /\ Tail(s)[i] = s[i + 1]
    BY <1>1, <1>2
  <2>. QED  BY <1>1, <2>1 DEF ToSet
<1>. QED  BY <1>1, <1>3, <1>4

\* The elements of a part of a sequence.
LEMMA SubSeqElements ==
  ASSUME NEW S, NEW s \in Seq(S), NEW m \in Nat, NEW n \in Nat, m + n <= Len(s)
  PROVE  /\ SubSeq(s, m + 1, m + n) \in Seq(S)
         /\ Len(SubSeq(s, m + 1, m + n)) = n
         /\ \A i \in m + 1 .. m + n : s[i] \in ToSet(SubSeq(s, m + 1, m + n))
         /\ ToSet(SubSeq(s, m + 1, m + n)) \subseteq S
<1>. DEFINE part == SubSeq(s, m + 1, m + n)
<1>1. \A i \in m + 1 .. m + n : s[i] \in S
  OBVIOUS
<1>2. /\ part \in Seq(S) /\ Len(part) = n
      /\ \A i \in 1 .. n : part[i] = s[m + i]
  <2>1. /\ part \in Seq(S)
        /\ Len(part) = IF m + 1 <= m + n THEN (m + n) - (m + 1) + 1 ELSE 0
        /\ \A i \in 1 .. (m + n) - (m + 1) + 1 : part[i] = s[(m + 1) + i - 1]
    BY <1>1, SubSeqProperties
  <2>. HIDE DEF part
  <2>. QED  BY <2>1
<1>. HIDE DEF part
<1>3. DOMAIN part = 1 .. n /\ \A i \in 1 .. n : part[i] \in S
  BY <1>2
<1>4. \A i \in m + 1 .. m + n : i - m \in 1 .. n /\ part[i - m] = s[i]
  BY <1>2
<1>5. ToSet(part) \subseteq S /\ \A i \in m + 1 .. m + n : s[i] \in ToSet(part)
  BY <1>3, <1>4 DEF ToSet
<1>. QED  BY <1>2, <1>5 DEF part

\* The memory of a worker, field by field.
LEMMA WorkerFields ==
  ASSUME WorkerTypeOK, NEW w \in Workers
  PROVE  /\ worker[w] \in Worker /\ Fits(worker[w])
         /\ worker[w].pc \in {"lead", "read", "mark", "ack"}
         /\ worker[w].batch \in Seq(Events)
         /\ worker[w].owed \subseteq Matters
         /\ worker[w].timer \in BOOLEAN
         /\ worker[w].rebuilds \subseteq SUBSET Matters
<1>1. worker[w] \in Worker /\ Fits(worker[w])
  BY DEF WorkerTypeOK, Fits
<1>. QED  BY <1>1 DEF Worker

\* What any step of one worker has to see to.
LEMMA WorkerChanges ==
  ASSUME WorkerInv, NEW w \in Workers, NEW next \in Worker,
         worker' = [worker EXCEPT ![w] = next],
         Fits(next),
         next.pc = "ack" => Head(next.batch) \in marked',
         marked \subseteq marked', rebuilt \subseteq rebuilt', lost \subseteq lost',
         Will(worker[w], marked) \cap Matters
           \subseteq rebuilt' \cup lost' \cup Will(next, marked'),
         (marked' \ marked) \cap Matters
           \subseteq rebuilt' \cup lost' \cup Will(next, marked')
  PROVE  /\ worker' \in [Workers -> Worker]
         /\ \A v \in Workers : Fits(worker'[v])
         /\ AckMarked' /\ MarkedAccounted'
         /\ \A e \in Matters : Account(e) => Account(e)'
<1>1. /\ worker' \in [Workers -> Worker] /\ worker'[w] = next
      /\ \A v \in Workers \ {w} : worker'[v] = worker[v]
  BY DEF WorkerInv, WorkerTypeOK
<1>2. \A v \in Workers : Fits(worker'[v])
  BY <1>1, WorkerFields DEF WorkerInv
<1>3. AckMarked'
  BY <1>1 DEF WorkerInv, AckMarked
<1>4. \A e \in (marked' \ marked) \cap Matters : Account(e)'
  BY <1>1 DEF Account
<1>5. ASSUME NEW e \in Matters, Account(e) PROVE Account(e)'
  <2>1. CASE e \in rebuilt \cup lost
    BY <2>1 DEF Account
  <2>2. CASE e \in Will(worker[w], marked)
    BY <1>1, <2>2 DEF Account
  <2>3. ASSUME NEW v \in Workers \ {w}, e \in Will(worker[v], marked) PROVE Account(e)'
    <3>1. CASE e \in marked' \ marked
      BY <1>4, <3>1
    <3>2. CASE e \notin marked' \ marked
      <4>1. e \in Will(worker'[v], marked')
        BY <1>1, <2>3, <3>2 DEF Will
      <4>. QED  BY <4>1 DEF Account
    <3>. QED  BY <3>1, <3>2
  <2>. QED  BY <1>5, <2>1, <2>2, <2>3 DEF Account
<1>6. MarkedAccounted'
  BY <1>4, <1>5 DEF WorkerInv, MarkedAccounted
<1>. QED  BY <1>1, <1>2, <1>3, <1>5, <1>6

\* A step of one worker that sees to all of it keeps the invariant, if the
\* entries it is given are taken care of too.
LEMMA WorkerStep ==
  ASSUME WorkerInv, NEW w \in Workers, NEW next \in Worker,
         worker' = [worker EXCEPT ![w] = next],
         Fits(next),
         next.pc = "ack" => Head(next.batch) \in marked',
         marked \subseteq marked', rebuilt \subseteq rebuilt', lost \subseteq lost',
         Will(worker[w], marked) \cap Matters
           \subseteq rebuilt' \cup lost' \cup Will(next, marked'),
         (marked' \ marked) \cap Matters
           \subseteq rebuilt' \cup lost' \cup Will(next, marked'),
         log' = log, delivered' \in delivered .. Len(log),
         \A i \in delivered + 1 .. delivered' :
           log[i] \in Matters \ marked => log[i] \in rebuilt' \cup lost' \cup Will(next, marked'),
         marked' \subseteq Events, leader' \in Workers \cup {NoWorker, Former},
         rebuilt' \subseteq Matters, lost' \subseteq Matters, faults' \in 0 .. MaxFaults
  PROVE  WorkerInv'
<1>1. /\ worker' \in [Workers -> Worker]
      /\ \A v \in Workers : Fits(worker'[v])
      /\ AckMarked' /\ MarkedAccounted'
      /\ \A e \in Matters : Account(e) => Account(e)'
  BY WorkerChanges
<1>2. delivered \in Nat /\ delivered' \in 0 .. Len(log')
  BY DEF WorkerInv, WorkerTypeOK
<1>3. WorkerTypeOK'
  <2>1. log' \in Seq(Events) /\ Len(log') <= MaxLog
    BY DEF WorkerInv, WorkerTypeOK
  <2>2. \A v \in Workers : worker'[v].pc \in {"mark", "ack"} <=> worker'[v].batch # <<>>
    BY <1>1 DEF Fits
  <2>. QED  BY <1>1, <1>2, <2>1, <2>2 DEF WorkerTypeOK
<1>4. worker'[w] = next
  BY DEF WorkerInv, WorkerTypeOK
<1>5. ASSUME NEW i \in 1 .. delivered', log[i] \in Matters PROVE Account(log[i])'
  <2>1. CASE i \in 1 .. delivered
    <3>1. Account(log[i])
      BY <1>5, <2>1 DEF WorkerInv, Accounted, Account, WillRebuild, Will
    <3>. QED  BY <1>1, <1>5, <3>1
  <2>2. CASE log[i] \in marked
    <3>1. Account(log[i])
      BY <1>5, <2>2 DEF WorkerInv, MarkedAccounted
    <3>. QED  BY <1>1, <1>5, <3>1
  <2>3. CASE i \notin 1 .. delivered /\ log[i] \notin marked
    <3>1. i \in delivered + 1 .. delivered'
      BY <1>2, <2>3
    <3>2. log[i] \in rebuilt' \cup lost' \cup Will(worker'[w], marked')
      BY <1>4, <1>5, <2>3, <3>1
    <3>. QED  BY <3>2 DEF Account
  <2>. QED  BY <2>1, <2>2, <2>3
<1>6. Accounted'
  BY <1>5 DEF Accounted, Account, WillRebuild, Will
<1>. QED  BY <1>1, <1>3, <1>6 DEF WorkerInv

\* The loop: leading, reading, marking, acknowledging.
LEMMA LoopKeeps ==
  ASSUME WorkerAssumption, WorkerInv, NEW w \in Workers, LoopStep(w)
  PROVE  WorkerInv'
<1>1. /\ worker[w] \in Worker /\ Fits(worker[w])
      /\ worker[w].batch \in Seq(Events)
      /\ worker[w].owed \subseteq Matters
      /\ worker[w].timer \in BOOLEAN
  BY WorkerFields DEF WorkerInv
<1>2. /\ log \in Seq(Events) /\ Len(log) \in Nat
      /\ delivered \in 0 .. Len(log) /\ delivered \in Nat
      /\ delivered \in delivered .. Len(log)
      /\ delivered + 1 .. delivered = {}
      /\ marked \subseteq Events /\ leader \in Workers \cup {NoWorker, Former}
      /\ rebuilt \subseteq Matters /\ lost \subseteq Matters /\ faults \in 0 .. MaxFaults
  BY DEF WorkerInv, WorkerTypeOK
<1>3. Matters \subseteq Events
  BY DEF Matters
<1>4. CASE BecomeLeader(w)
  <2>. DEFINE next == [worker[w] EXCEPT !.pc = "read"]
  <2>1. worker' = [worker EXCEPT ![w] = next]
    BY <1>4 DEF BecomeLeader
  <2>2. /\ next \in Worker /\ next.pc = "read" /\ next.batch = worker[w].batch
        /\ next.owed = worker[w].owed /\ next.timer = worker[w].timer
        /\ next.rebuilds = worker[w].rebuilds
    BY <1>1 DEF Worker
  <2>. HIDE DEF next
  <2>3. Fits(next) /\ Will(next, marked) = Will(worker[w], marked)
    BY <1>1, <1>4, <2>2 DEF BecomeLeader, Fits, Will
  <2>. QED  BY <1>2, <1>4, <2>1, <2>2, <2>3, WorkerStep DEF BecomeLeader
<1>5. CASE ReadGroup(w)
  <2>1. CASE delivered = Len(log)
    <3>. DEFINE next == [worker[w] EXCEPT !.pc = "lead"]
    <3>1. worker' = [worker EXCEPT ![w] = next]
      BY <1>5, <2>1 DEF ReadGroup
    <3>2. /\ next \in Worker /\ next.pc = "lead" /\ next.batch = worker[w].batch
          /\ next.owed = worker[w].owed /\ next.timer = worker[w].timer
          /\ next.rebuilds = worker[w].rebuilds
      BY <1>1 DEF Worker
    <3>. HIDE DEF next
    <3>3. Fits(next) /\ Will(next, marked) = Will(worker[w], marked)
      BY <1>1, <1>5, <3>2 DEF ReadGroup, Fits, Will
    <3>. QED  BY <1>2, <1>5, <2>1, <3>1, <3>2, <3>3, WorkerStep DEF ReadGroup
  <2>2. CASE delivered # Len(log)
    <3>. PICK n \in 1 .. MaxBatch :
           /\ delivered + n <= Len(log)
           /\ worker' = [worker EXCEPT ![w].pc = "mark",
                           ![w].batch = SubSeq(log, delivered + 1, delivered + n)]
           /\ delivered' = delivered + n
      BY <1>5, <2>2 DEF ReadGroup
    <3>. DEFINE part == SubSeq(log, delivered + 1, delivered + n)
                next == [worker[w] EXCEPT !.pc = "mark", !.batch = part]
    <3>1. worker' = [worker EXCEPT ![w] = next]
      OBVIOUS
    <3>2. n \in Nat /\ n > 0
      BY DEF WorkerAssumption
    <3>3. /\ part \in Seq(Events) /\ Len(part) = n
          /\ \A i \in delivered + 1 .. delivered + n : log[i] \in ToSet(part)
      BY <1>2, <3>2, SubSeqElements
    <3>. HIDE DEF part
    <3>4. /\ next \in Worker /\ next.pc = "mark" /\ next.batch = part
          /\ next.owed = worker[w].owed /\ next.timer = worker[w].timer
          /\ next.rebuilds = worker[w].rebuilds
      BY <1>1, <3>3 DEF Worker
    <3>. HIDE DEF next
    <3>5. part # <<>>
      BY <3>2, <3>3
    <3>6. worker[w].batch = <<>>
      BY <1>1, <1>5 DEF ReadGroup, Fits
    <3>7. ToSet(worker[w].batch) = {}
      BY <3>6 DEF ToSet
    <3>8. Fits(next)
      BY <3>4, <3>5 DEF Fits
    <3>9. Will(worker[w], marked) \subseteq Will(next, marked)
      BY <3>4, <3>5, <3>7, <3>6 DEF Will
    <3>10. \A i \in delivered + 1 .. delivered' :
             log[i] \in Matters \ marked => log[i] \in Will(next, marked)
      BY <3>3, <3>4 DEF Will
    <3>11. delivered' \in delivered .. Len(log)
      BY <1>2, <3>2
    <3>12. UNCHANGED <<log, marked, leader, rebuilt, lost, faults>>
      BY <1>5 DEF ReadGroup
    <3>. QED  BY <1>2, <3>1, <3>4, <3>8, <3>9, <3>10, <3>11, <3>12, WorkerStep
  <2>. QED  BY <2>1, <2>2
<1>6. CASE MarkEvent(w)
  <2>. DEFINE e == Head(worker[w].batch)
              owes == IF e \in marked THEN worker[w].owed
                      ELSE worker[w].owed \cup ({e} \cap Matters)
              next == [worker[w] EXCEPT !.pc = "ack", !.owed = owes]
  <2>1. worker' = [worker EXCEPT ![w] = next] /\ marked' = marked \cup {e}
    BY <1>6 DEF MarkEvent
  <2>2. worker[w].batch # <<>> /\ e \in Events
    BY <1>1, <1>6, HeadAndTail DEF MarkEvent, Fits
  <2>. HIDE DEF e
  <2>3. owes \subseteq Matters
    BY <1>1
  <2>4. /\ next \in Worker /\ next.pc = "ack" /\ next.batch = worker[w].batch
        /\ next.owed = owes /\ next.timer = worker[w].timer
        /\ next.rebuilds = worker[w].rebuilds
    BY <1>1, <2>3 DEF Worker
  <2>. HIDE DEF next
  <2>5. Fits(next)
    BY <2>2, <2>4 DEF Fits
  <2>6. Will(worker[w], marked) \cap Matters \subseteq Will(next, marked')
    BY <2>1, <2>2, <2>4 DEF Will
  <2>7. (marked' \ marked) \cap Matters \subseteq Will(next, marked')
    BY <2>1, <2>2, <2>4 DEF Will
  <2>8. next.pc = "ack" => Head(next.batch) \in marked'
    BY <2>1, <2>4 DEF e
  <2>9. UNCHANGED <<log, delivered, leader, rebuilt, lost, faults>>
    BY <1>6 DEF MarkEvent
  <2>10. marked' \subseteq Events
    BY <1>2, <2>1, <2>2
  <2>. QED  BY <1>2, <2>1, <2>4, <2>5, <2>6, <2>7, <2>8, <2>9, <2>10, WorkerStep
<1>7. CASE Acknowledge(w)
  <2>. DEFINE left == Tail(worker[w].batch)
              next == [worker[w] EXCEPT !.batch = left,
                                        !.pc = IF left = <<>> THEN "lead" ELSE "mark",
                                        !.timer = worker[w].timer \/ left = <<>>]
  <2>1. worker' = [worker EXCEPT ![w] = next]
    BY <1>7 DEF Acknowledge
  <2>2. worker[w].batch # <<>>
    BY <1>1, <1>7 DEF Acknowledge, Fits
  <2>3. /\ left \in Seq(Events)
        /\ ToSet(worker[w].batch) = {Head(worker[w].batch)} \cup ToSet(left)
    BY <1>1, <2>2, HeadAndTail
  <2>. HIDE DEF left
  <2>4. /\ next \in Worker /\ next.pc = (IF left = <<>> THEN "lead" ELSE "mark")
        /\ next.batch = left /\ next.owed = worker[w].owed
        /\ (next.timer <=> worker[w].timer \/ left = <<>>)
        /\ next.rebuilds = worker[w].rebuilds
    BY <1>1, <2>3 DEF Worker
  <2>. HIDE DEF next
  <2>5. Fits(next)
    BY <2>4 DEF Fits
  <2>6. Head(worker[w].batch) \in marked
    BY <1>7 DEF Acknowledge, WorkerInv, AckMarked
  <2>7. Will(worker[w], marked) \subseteq Will(next, marked)
    BY <2>2, <2>3, <2>4, <2>6 DEF Will
  <2>8. UNCHANGED <<log, delivered, marked, leader, rebuilt, lost, faults>>
    BY <1>7 DEF Acknowledge
  <2>. QED  BY <1>2, <2>1, <2>4, <2>5, <2>7, <2>8, WorkerStep
<1>. QED  BY <1>4, <1>5, <1>6, <1>7 DEF LoopStep

\* The timer and the end of a rebuild.
LEMMA RebuildKeeps ==
  ASSUME WorkerInv, NEW w \in Workers, Flush(w) \/ EndRebuild(w)
  PROVE  WorkerInv'
<1>1. /\ worker[w] \in Worker /\ Fits(worker[w])
      /\ worker[w].owed \subseteq Matters
      /\ worker[w].rebuilds \subseteq SUBSET Matters
  BY WorkerFields DEF WorkerInv
<1>2. /\ delivered \in delivered .. Len(log)
      /\ delivered + 1 .. delivered = {}
      /\ marked \subseteq Events /\ leader \in Workers \cup {NoWorker, Former}
      /\ rebuilt \subseteq Matters /\ lost \subseteq Matters /\ faults \in 0 .. MaxFaults
      /\ worker[w].pc = "ack" => Head(worker[w].batch) \in marked
  BY DEF WorkerInv, WorkerTypeOK, AckMarked
<1>3. CASE Flush(w)
  <2>. DEFINE todo == IF worker[w].owed = {} THEN worker[w].rebuilds
                      ELSE worker[w].rebuilds \cup {worker[w].owed}
              next == [worker[w] EXCEPT !.timer = FALSE, !.owed = {}, !.rebuilds = todo]
  <2>1. worker' = [worker EXCEPT ![w] = next]
    BY <1>3 DEF Flush
  <2>2. todo \subseteq SUBSET Matters
    BY <1>1
  <2>3. (UNION worker[w].rebuilds) \cup worker[w].owed \subseteq UNION todo
    OBVIOUS
  <2>. HIDE DEF todo
  <2>4. /\ next \in Worker /\ next.pc = worker[w].pc /\ next.batch = worker[w].batch
        /\ next.rebuilds = todo
    BY <1>1, <2>2 DEF Worker
  <2>. HIDE DEF next
  <2>5. Fits(next)
    BY <1>1, <2>4 DEF Fits
  <2>6. Will(worker[w], marked) \subseteq Will(next, marked)
    BY <2>3, <2>4 DEF Will
  <2>7. UNCHANGED <<log, delivered, marked, leader, rebuilt, lost, faults>>
    BY <1>3 DEF Flush
  <2>. QED  BY <1>2, <2>1, <2>4, <2>5, <2>6, <2>7, WorkerStep
<1>4. CASE EndRebuild(w)
  <2>. PICK es \in worker[w].rebuilds :
         /\ worker' = [worker EXCEPT ![w].rebuilds = @ \ {es}]
         /\ rebuilt' = rebuilt \cup es
         /\ UNCHANGED <<log, delivered, marked, leader, lost, faults>>
    BY <1>4 DEF EndRebuild
  <2>. DEFINE next == [worker[w] EXCEPT !.rebuilds = worker[w].rebuilds \ {es}]
  <2>1. worker' = [worker EXCEPT ![w] = next]
    OBVIOUS
  <2>2. /\ next \in Worker /\ next.pc = worker[w].pc /\ next.batch = worker[w].batch
        /\ next.owed = worker[w].owed /\ next.timer = worker[w].timer
        /\ next.rebuilds = worker[w].rebuilds \ {es}
    BY <1>1 DEF Worker
  <2>. HIDE DEF next
  <2>3. Fits(next)
    BY <1>1, <2>2 DEF Fits
  <2>4. Will(worker[w], marked) \subseteq rebuilt' \cup Will(next, marked)
    BY <2>2 DEF Will
  <2>5. rebuilt' \subseteq Matters
    BY <1>1, <1>2
  <2>. QED  BY <1>2, <2>1, <2>2, <2>3, <2>4, <2>5, WorkerStep
<1>. QED  BY <1>3, <1>4

\* Failures: what the worker held, or missed the answer of, is lost and counted
\* as lost.
LEMMA FaultKeeps ==
  ASSUME WorkerAssumption, WorkerInv, NEW w \in Workers,
         LoopFails(w) \/ ReadFails(w) \/ AnswerLost(w) \/ RebuildFails(w) \/ WorkerStops(w)
  PROVE  WorkerInv'
<1>1. /\ worker[w] \in Worker /\ Fits(worker[w])
      /\ worker[w].batch \in Seq(Events)
      /\ worker[w].owed \subseteq Matters
      /\ worker[w].rebuilds \subseteq SUBSET Matters
  BY WorkerFields DEF WorkerInv
<1>2. /\ log \in Seq(Events) /\ Len(log) \in Nat
      /\ delivered \in 0 .. Len(log) /\ delivered \in Nat
      /\ delivered \in delivered .. Len(log)
      /\ delivered + 1 .. delivered = {}
      /\ marked \subseteq Events /\ leader \in Workers \cup {NoWorker, Former}
      /\ rebuilt \subseteq Matters /\ lost \subseteq Matters
      /\ worker[w].pc = "ack" => Head(worker[w].batch) \in marked
  BY DEF WorkerInv, WorkerTypeOK, AckMarked
<1>3. faults' \in 0 .. MaxFaults
  BY DEF LoopFails, ReadFails, AnswerLost, RebuildFails, WorkerStops,
         WorkerAssumption, WorkerInv, WorkerTypeOK
<1>4. Matters \subseteq Events
  BY DEF Matters
<1>5. ToSet(<<>>) = {} /\ <<>> \in Seq(Events)
  BY EmptySeq DEF ToSet
<1>6. CASE LoopFails(w)
  <2>. DEFINE next == [worker[w] EXCEPT !.pc = "lead", !.batch = <<>>]
  <2>1. worker' = [worker EXCEPT ![w] = next]
    BY <1>6 DEF LoopFails
  <2>2. /\ next \in Worker /\ next.pc = "lead" /\ next.batch = <<>>
        /\ next.owed = worker[w].owed /\ next.timer = worker[w].timer
        /\ next.rebuilds = worker[w].rebuilds
    BY <1>1, <1>5 DEF Worker
  <2>. HIDE DEF next
  <2>3. Fits(next)
    BY <2>2 DEF Fits
  <2>4. worker[w].batch # <<>> /\ worker[w].pc \in {"mark", "ack"}
    BY <1>1, <1>6 DEF LoopFails, Fits
  <2>5. lost' = lost \cup Abandoned(w)
    BY <1>6 DEF LoopFails
  <2>6. Will(worker[w], marked) \cap Matters \subseteq lost' \cup Will(next, marked')
    BY <2>2, <2>5 DEF Will, Abandoned
  <2>7. /\ Head(worker[w].batch) \in Events
        /\ Head(worker[w].batch) \in ToSet(worker[w].batch)
    BY <1>1, <2>4, HeadAndTail
  <2>8. marked' = marked \/ marked' = marked \cup {Head(worker[w].batch)}
    BY <1>6 DEF LoopFails
  <2>9. (marked' \ marked) \cap Matters \subseteq lost'
    BY <2>5, <2>7, <2>8 DEF Abandoned
  <2>10. Abandoned(w) \subseteq Matters
    BY <1>1 DEF Abandoned
  <2>11. UNCHANGED <<log, delivered, leader, rebuilt>>
    BY <1>6 DEF LoopFails
  <2>. QED  BY <1>2, <1>3, <2>1, <2>2, <2>3, <2>5, <2>6, <2>7, <2>8, <2>9, <2>10, <2>11, WorkerStep
<1>7. CASE ReadFails(w)
  <2>. DEFINE next == [worker[w] EXCEPT !.pc = "lead"]
  <2>1. worker' = [worker EXCEPT ![w] = next]
    BY <1>7 DEF ReadFails
  <2>2. /\ next \in Worker /\ next.pc = "lead" /\ next.batch = worker[w].batch
        /\ next.owed = worker[w].owed /\ next.timer = worker[w].timer
        /\ next.rebuilds = worker[w].rebuilds
    BY <1>1 DEF Worker
  <2>. HIDE DEF next
  <2>3. Fits(next) /\ Will(next, marked) = Will(worker[w], marked)
    BY <1>1, <1>7, <2>2 DEF ReadFails, Fits, Will
  <2>. PICK n \in 0 .. MaxBatch :
         /\ delivered + n <= Len(log)
         /\ delivered' = delivered + n
         /\ lost' = lost \cup
              ((ToSet(SubSeq(log, delivered + 1, delivered + n)) \cap Matters) \ marked)
    BY <1>7 DEF ReadFails
  <2>4. n \in Nat
    BY DEF WorkerAssumption
  <2>5. \A i \in delivered + 1 .. delivered + n :
          log[i] \in ToSet(SubSeq(log, delivered + 1, delivered + n))
    BY <1>2, <2>4, SubSeqElements
  <2>6. delivered' \in delivered .. Len(log)
    BY <1>2, <2>4
  <2>7. \A i \in delivered + 1 .. delivered' : log[i] \in Matters \ marked => log[i] \in lost'
    BY <2>5
  <2>8. UNCHANGED <<log, marked, leader, rebuilt>>
    BY <1>7 DEF ReadFails
  <2>9. lost \subseteq lost' /\ lost' \subseteq Matters
    BY <1>2
  <2>. QED  BY <1>2, <1>3, <2>1, <2>2, <2>3, <2>6, <2>7, <2>8, <2>9, WorkerStep
<1>8. CASE RebuildFails(w)
  <2>. PICK es \in worker[w].rebuilds :
         /\ worker' = [worker EXCEPT ![w].rebuilds = @ \ {es}]
         /\ lost' = lost \cup es
    BY <1>8 DEF RebuildFails
  <2>. DEFINE next == [worker[w] EXCEPT !.rebuilds = worker[w].rebuilds \ {es}]
  <2>1. worker' = [worker EXCEPT ![w] = next]
    OBVIOUS
  <2>2. /\ next \in Worker /\ next.pc = worker[w].pc /\ next.batch = worker[w].batch
        /\ next.owed = worker[w].owed /\ next.timer = worker[w].timer
        /\ next.rebuilds = worker[w].rebuilds \ {es}
    BY <1>1 DEF Worker
  <2>. HIDE DEF next
  <2>3. Fits(next)
    BY <1>1, <2>2 DEF Fits
  <2>4. Will(worker[w], marked) \subseteq lost' \cup Will(next, marked)
    BY <2>2 DEF Will
  <2>5. lost' \subseteq Matters
    BY <1>1, <1>2
  <2>6. UNCHANGED <<log, delivered, marked, leader, rebuilt>>
    BY <1>8 DEF RebuildFails
  <2>. QED  BY <1>2, <1>3, <2>1, <2>2, <2>3, <2>4, <2>5, <2>6, WorkerStep
<1>9. CASE WorkerStops(w)
  <2>1. worker' = [worker EXCEPT ![w] = Rested]
    BY <1>9 DEF WorkerStops
  <2>2. Rested \in Worker /\ Rested.pc = "lead" /\ Rested.batch = <<>>
    BY <1>5 DEF Rested, Worker
  <2>3. Fits(Rested)
    BY <2>2 DEF Fits
  <2>. DEFINE held == ((ToSet(worker[w].batch) \cap Matters) \ marked)
                        \cup worker[w].owed \cup (UNION worker[w].rebuilds)
  <2>4. lost' = lost \cup held
    BY <1>9 DEF WorkerStops
  <2>5. held \subseteq Matters
    BY <1>1
  <2>6. Will(worker[w], marked) \cap Matters \subseteq lost'
    BY <2>4 DEF Will
  <2>7. UNCHANGED <<log, delivered, marked, rebuilt>>
    BY <1>9 DEF WorkerStops
  <2>8. leader' \in Workers \cup {NoWorker, Former}
    BY <1>2, <1>9 DEF WorkerStops
  <2>. HIDE DEF held
  <2>. QED  BY <1>2, <1>3, <2>1, <2>2, <2>3, <2>4, <2>5, <2>6, <2>7, <2>8, WorkerStep
<1>10. CASE AnswerLost(w)
  <2>1. worker' = [worker EXCEPT ![w] = worker[w]] /\ UNCHANGED <<log, leader, worker, rebuilt>>
    BY <1>10 DEF AnswerLost, WorkerInv, WorkerTypeOK
  <2>2. CASE worker[w].pc = "mark"
    <3>. DEFINE e == Head(worker[w].batch)
    <3>1. /\ marked' = marked \cup {e} /\ lost' = lost \cup (({e} \cap Matters) \ marked)
          /\ UNCHANGED delivered
      BY <1>10, <2>2 DEF AnswerLost
    <3>2. e \in Events
      BY <1>1, <2>2, HeadAndTail DEF Fits
    <3>. HIDE DEF e
    <3>3. Will(worker[w], marked) \cap Matters \subseteq lost' \cup Will(worker[w], marked')
      BY <3>1 DEF Will
    <3>. QED  BY <1>1, <1>2, <1>3, <2>1, <2>2, <3>1, <3>2, <3>3, WorkerStep
  <2>3. CASE worker[w].pc = "read"
    <3>. PICK n \in 1..MaxBatch :
           /\ delivered + n <= Len(log)
           /\ delivered' = delivered + n
           /\ lost' = lost \cup
                ((ToSet(SubSeq(log, delivered + 1, delivered + n)) \cap Matters) \ marked)
      BY <1>10, <2>3 DEF AnswerLost
    <3>1. n \in Nat /\ marked' = marked
      BY <1>10, <2>3 DEF AnswerLost, WorkerAssumption
    <3>2. \A i \in delivered + 1 .. delivered + n :
            log[i] \in ToSet(SubSeq(log, delivered + 1, delivered + n))
      BY <1>2, <3>1, SubSeqElements
    <3>3. delivered' \in delivered .. Len(log)
      BY <1>2, <3>1
    <3>4. \A i \in delivered + 1 .. delivered' : log[i] \in Matters \ marked => log[i] \in lost'
      BY <3>2
    <3>5. lost \subseteq lost' /\ lost' \subseteq Matters
      BY <1>2
    <3>. QED  BY <1>1, <1>2, <1>3, <2>1, <2>3, <3>1, <3>3, <3>4, <3>5, WorkerStep
  <2>. QED  BY <1>10, <2>2, <2>3 DEF AnswerLost
<1>. QED  BY <1>6, <1>7, <1>8, <1>9, <1>10

\* Nothing is published, nobody works.
LEMMA WorkerInitInv == ASSUME WorkerAssumption, WorkerInit PROVE WorkerInv
<1>1. Rested \in Worker /\ Rested.pc = "lead" /\ Rested.batch = <<>>
  BY EmptySeq DEF Rested, Worker
<1>2. log = <<>> /\ log \in Seq(Events) /\ Len(log) = 0 /\ delivered = 0
  BY EmptySeq DEF WorkerInit
<1>3. WorkerTypeOK
  BY <1>1, <1>2 DEF WorkerInit, WorkerTypeOK, WorkerAssumption
<1>4. AckMarked /\ MarkedAccounted
  BY <1>1 DEF WorkerInit, AckMarked, MarkedAccounted
<1>5. Accounted
  BY <1>2 DEF Accounted
<1>. QED  BY <1>3, <1>4, <1>5 DEF WorkerInv

\* Every step keeps the invariant; those of no worker do not touch it.
LEMMA WorkerInvNext ==
  ASSUME WorkerAssumption, WorkerInv, [WorkerNext]_workerVars
  PROVE  WorkerInv'
<1>1. ASSUME NEW e \in Events, Publish(e) \/ PublishAgain(e) PROVE WorkerInv'
  <2>1. /\ log' = Append(log, e) /\ Len(log) < MaxLog
        /\ UNCHANGED <<delivered, marked, leader, worker, rebuilt, lost, faults>>
    BY <1>1 DEF Publish, PublishAgain
  <2>2. /\ log \in Seq(Events) /\ Len(log) \in Nat /\ delivered \in 0 .. Len(log)
    BY DEF WorkerInv, WorkerTypeOK
  <2>3. /\ log' \in Seq(Events) /\ Len(log') = Len(log) + 1
        /\ \A i \in 1 .. Len(log) : log'[i] = log[i]
    BY <2>1, <2>2
  <2>4. WorkerTypeOK'
    BY <2>1, <2>2, <2>3, WorkerAssumption DEF WorkerInv, WorkerTypeOK, WorkerAssumption
  <2>5. \A i \in 1 .. delivered' : i \in 1 .. delivered /\ log'[i] = log[i]
    BY <2>1, <2>2, <2>3
  <2>6. Accounted'
    BY <2>1, <2>5 DEF WorkerInv, Accounted, WillRebuild
  <2>7. AckMarked' /\ MarkedAccounted'
    BY <2>1 DEF WorkerInv, AckMarked, MarkedAccounted, Account, Will
  <2>. QED  BY <2>4, <2>6, <2>7 DEF WorkerInv
<1>2. CASE LeaderLockExpires
  <2>1. leader' = NoWorker /\ UNCHANGED <<log, delivered, marked, worker, rebuilt, lost, faults>>
    BY <1>2 DEF LeaderLockExpires
  <2>2. WorkerTypeOK'
    BY <2>1 DEF WorkerInv, WorkerTypeOK
  <2>3. Accounted' /\ AckMarked' /\ MarkedAccounted'
    BY <2>1 DEF WorkerInv, Accounted, WillRebuild, AckMarked, MarkedAccounted, Account, Will
  <2>. QED  BY <2>2, <2>3 DEF WorkerInv
<1>3. CASE UNCHANGED workerVars
  BY <1>3 DEF workerVars, WorkerInv, WorkerTypeOK, Accounted, WillRebuild, AckMarked,
              MarkedAccounted, Account, Will
<1>4. ASSUME NEW w \in Workers, LoopStep(w) PROVE WorkerInv'
  BY <1>4, LoopKeeps
<1>5. ASSUME NEW w \in Workers, Flush(w) \/ EndRebuild(w) PROVE WorkerInv'
  BY <1>5, RebuildKeeps
<1>6. ASSUME NEW w \in Workers,
             LoopFails(w) \/ ReadFails(w) \/ AnswerLost(w) \/ RebuildFails(w) \/ WorkerStops(w)
      PROVE  WorkerInv'
  BY <1>6, FaultKeeps
<1>. QED  BY <1>1, <1>2, <1>3, <1>4, <1>5, <1>6 DEF WorkerNext

----------------------------------------------------------------------------
\* The stream, the marks and the memories of the workers stay well-formed.
THEOREM WorkerTyping == WorkerSpec => []WorkerTypeOK
<1>1. WorkerInit => WorkerInv
  BY WorkerInitInv, WorkerAssumption
<1>2. WorkerInv /\ [WorkerNext]_workerVars => WorkerInv'
  BY WorkerInvNext, WorkerAssumption
<1>3. WorkerInv => WorkerTypeOK
  BY DEF WorkerInv
<1>. QED  BY <1>1, <1>2, <1>3, PTL DEF WorkerSpec

\* An event the group was given is covered by a rebuild, will be, was in the
\* hands of a worker that failed, or in an answer of Redis that was lost.
THEOREM NothingForgotten == WorkerSpec => []Accounted
<1>1. WorkerInit => WorkerInv
  BY WorkerInitInv, WorkerAssumption
<1>2. WorkerInv /\ [WorkerNext]_workerVars => WorkerInv'
  BY WorkerInvNext, WorkerAssumption
<1>3. WorkerInv => Accounted
  BY DEF WorkerInv
<1>. QED  BY <1>1, <1>2, <1>3, PTL DEF WorkerSpec

----------------------------------------------------------------------------
(* The three together.                                                     *)

\* Each step of the read side is a step of one of its parts, and the others rest.
LEMMA ReadSideParts == ReadSideSpec => CacheSpec /\ WorkerSpec /\ FiguresSpec
<1>1. ReadSideInit => CacheInit /\ WorkerInit /\ FiguresInit
  BY DEF ReadSideInit
<1>2. [ReadSideNext]_readSideVars
        => [CacheNext]_cacheVars /\ [WorkerNext]_workerVars /\ [FiguresNext]_figuresVars
  BY DEF ReadSideNext, readSideVars
<1>. QED  BY <1>1, <1>2, PTL DEF ReadSideSpec, CacheSpec, WorkerSpec, FiguresSpec

\* Whichever part moves, the caches, the worker and the figures stay
\* well-formed.
THEOREM ReadSideTyping == ReadSideSpec => []TypeOK
BY ReadSideParts, CacheTyping, WorkerTyping, FiguresTyping, PTL DEF TypeOK
=============================================================================
