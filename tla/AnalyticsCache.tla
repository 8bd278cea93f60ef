--------------------------- MODULE AnalyticsCache ---------------------------
(***************************************************************************)
(* How the manager analytics are read: one section of them, for one key.   *)
(*                                                                         *)
(* A read goes through two caches, the read model and behind it the cache  *)
(* of computed results, each kept in every process and in Redis; only when *)
(* both miss are the figures computed, by one caller at a time as long as  *)
(* the lock in Redis lasts.  A copy is the version of the data it was      *)
(* computed from.                                                          *)
(*                                                                         *)
(* Copies disappear when they expire, when a worker invalidates the cache  *)
(* or clears the read model, and when a process stops: all of these drop   *)
(* one copy at a time, and nothing ties the drops of one section together. *)
(***************************************************************************)
EXTENDS Integers

CONSTANTS
  Procs,        \* the API and worker processes
  Redis,        \* where the shared copies are
  Reads,        \* reads that may be in progress at once, warm-ups included
  Home,         \* the process each of them runs in
  MaxVersion    \* bound on the changes of the data

ASSUME CacheAssumption ==
  /\ MaxVersion \in Nat
  /\ Redis \notin Procs
  /\ Home \in [Reads -> Procs]

VARIABLES
  data,     \* the version of the data in the database
  copy,     \* the version each cache holds in each place, NoCopy if none
  lock,     \* who set the lock in Redis
  lapsed,   \* whether a lock went, by time or by a DEL sent twice, under its holder
  read      \* the reads in progress

cacheVars == <<data, copy, lock, lapsed, read>>

----------------------------------------------------------------------------
NoCopy   == -1
Versions == 0..MaxVersion
Places   == {"model", "cache"} \X (Procs \cup {Redis})

NoLock  == "free"
Orphan  == "orphan"     \* a lock whose holder is gone: only time removes it
Lock    == [kind : {NoLock, Orphan}] \cup [kind : {"held"}, by : Reads]
Free    == [kind |-> NoLock]
Left    == [kind |-> Orphan]
Held(r) == [kind |-> "held", by |-> r]

\* The awaits of a read, in the order of the code.
Awaits == {"model", "cache", "lock", "wait", "compute", "store", "unlock", "delete",
           "again", "keep", "save"}

Read == [pc     : {"idle"} \cup Awaits,
         value  : Versions \cup {NoCopy},
         locked : BOOLEAN,      \* the read took the lock
         failed : BOOLEAN]      \* and computes without Redis once it is given back
NoRead == [pc |-> "idle", value |-> NoCopy, locked |-> FALSE, failed |-> FALSE]

CacheInit ==
  /\ data = 0
  /\ copy = [pl \in Places |-> NoCopy]
  /\ lock = Free
  /\ lapsed = FALSE
  /\ read = [r \in Reads |-> NoRead]

Mine(r, tier)   == <<tier, Home[r]>>
Shared(tier)    == <<tier, Redis>>
GoTo(r, pc)     == read' = [read EXCEPT ![r].pc = pc]
Alone(r)        == read' = [read EXCEPT ![r] = [NoRead EXCEPT !.pc = "again"]]
Answer(r)       == read' = [read EXCEPT ![r] = NoRead]
AtWork(r)       == read[r].locked /\ read[r].pc \in {"compute", "store", "unlock", "delete"}

\* The result of the inner cache is kept in the read model of the process,
\* then written to Redis.
Return(r, v) ==
  [read EXCEPT ![r] = [NoRead EXCEPT !.pc = "save", !.value = v]]
KeepModel(r, v, copies) == [copies EXCEPT ![Mine(r, "model")] = v]

----------------------------------------------------------------------------
(* The data.                                                               *)

Mutate ==
  /\ data < MaxVersion
  /\ data' = data + 1
  /\ UNCHANGED <<copy, lock, lapsed, read>>

----------------------------------------------------------------------------
(* A read.                                                                 *)

\* A hit in the memory of the read model answers at once and changes nothing.
Ask(r) ==
  /\ read[r].pc = "idle"
  /\ copy[Mine(r, "model")] = NoCopy
  /\ GoTo(r, "model")
  /\ UNCHANGED <<data, copy, lock, lapsed>>

\* Redis has it: answered, and the memory is not filled.
ModelHit(r) ==
  /\ read[r].pc = "model"
  /\ copy[Shared("model")] # NoCopy
  /\ Answer(r)
  /\ UNCHANGED <<data, copy, lock, lapsed>>

\* It does not, or cannot say: then the memory of the inner cache is looked up.
ModelMiss(r) ==
  /\ read[r].pc = "model"
  /\ LET v == copy[Mine(r, "cache")]
     IN  IF v # NoCopy
         THEN /\ copy' = KeepModel(r, v, copy)
              /\ read' = Return(r, v)
         ELSE /\ GoTo(r, "cache")
              /\ UNCHANGED copy
  /\ UNCHANGED <<data, lock, lapsed>>

\* Mutant of CacheHit: a hit writes the value to Redis anew.
CacheHitRefreshes(r) ==
  /\ read[r].pc \in {"cache", "wait"}
  /\ copy[Shared("cache")] # NoCopy
  /\ LET v == copy[Shared("cache")]
     IN  /\ copy' = KeepModel(r, v, [copy EXCEPT ![Mine(r, "cache")] = v])
         /\ read' = [Return(r, v) EXCEPT ![r].pc = "store"]
  /\ UNCHANGED <<data, lock, lapsed>>

\* The shared copy, found at once or while waiting for the holder of the lock.
CacheHit(r) ==
  /\ read[r].pc \in {"cache", "wait"}
  /\ copy[Shared("cache")] # NoCopy
  /\ LET v == copy[Shared("cache")]
     IN  /\ copy' = KeepModel(r, v, [copy EXCEPT ![Mine(r, "cache")] = v])
         /\ read' = Return(r, v)
  /\ UNCHANGED <<data, lock, lapsed>>

CacheMiss(r) ==
  /\ read[r].pc = "cache"
  /\ copy[Shared("cache")] = NoCopy
  /\ GoTo(r, "lock")
  /\ UNCHANGED <<data, copy, lock, lapsed>>

\* Mutant of TakeLock: the lock is set without NX.
TakeLockAnyway(r) ==
  /\ read[r].pc = "lock"
  /\ lock' = Held(r)
  /\ read' = [read EXCEPT ![r].pc = "compute", ![r].locked = TRUE]
  /\ UNCHANGED <<data, copy, lapsed>>

\* SET NX with a lifetime.
TakeLock(r) ==
  /\ read[r].pc = "lock"
  /\ IF lock = Free
     THEN /\ lock' = Held(r)
          /\ read' = [read EXCEPT ![r].pc = "compute", ![r].locked = TRUE]
     ELSE /\ GoTo(r, "wait")
          /\ UNCHANGED lock
  /\ UNCHANGED <<data, copy, lapsed>>

\* Nothing came within the configured wait: compute all the same.
StopWaiting(r) ==
  /\ read[r].pc = "wait"
  /\ copy[Shared("cache")] = NoCopy
  /\ GoTo(r, "compute")
  /\ UNCHANGED <<data, copy, lock, lapsed>>

Compute(r) ==
  /\ read[r].pc = "compute"
  /\ read' = [read EXCEPT ![r].pc = "store", ![r].value = data]
  /\ UNCHANGED <<data, copy, lock, lapsed>>

\* The database fails: the error is taken for one of Redis, and the figures
\* are computed again; when that fails too the request does.
ComputeFails(r) ==
  /\ \/ /\ read[r].pc = "compute" /\ read[r].locked
        /\ read' = [read EXCEPT ![r].pc = "unlock", ![r].failed = TRUE]
     \/ /\ read[r].pc = "compute" /\ ~read[r].locked
        /\ Alone(r)
     \/ /\ read[r].pc = "again"
        /\ Answer(r)
  /\ UNCHANGED <<data, copy, lock, lapsed>>

\* Redis, then the memory of the process.
Store(r) ==
  /\ read[r].pc = "store"
  /\ LET v    == read[r].value
         kept == [copy EXCEPT ![Shared("cache")] = v, ![Mine(r, "cache")] = v]
     IN  IF read[r].locked
         THEN GoTo(r, "unlock") /\ copy' = kept
         ELSE read' = Return(r, v) /\ copy' = KeepModel(r, v, kept)
  /\ UNCHANGED <<data, lock, lapsed>>

\* What follows the finally block that gives the lock back.
AfterLock(r) ==
  IF read[r].failed
  THEN Alone(r) /\ UNCHANGED copy
  ELSE /\ read' = Return(r, read[r].value)
       /\ copy' = KeepModel(r, read[r].value, copy)

\* Compared in one call ...
Unlock(r) ==
  /\ read[r].pc = "unlock"
  /\ IF lock = Held(r)
     THEN GoTo(r, "delete") /\ UNCHANGED copy
     ELSE AfterLock(r)
  /\ UNCHANGED <<data, lock, lapsed>>

\* ... and deleted in another, whoever holds it by then.
Delete(r) ==
  /\ read[r].pc = "delete"
  /\ lock' = Free
  /\ AfterLock(r)
  /\ UNCHANGED <<data, lapsed>>

\* A call to Redis throws.  The holder of the lock still tries to give it
\* back; when that throws too, the lock is left to its lifetime.
RedisFails(r) ==
  /\ \/ /\ \/ read[r].pc \in {"cache", "lock", "wait"}
           \/ read[r].pc = "store" /\ ~read[r].locked
        /\ Alone(r)
        /\ UNCHANGED lock
     \/ /\ read[r].pc = "store" /\ read[r].locked
        /\ read' = [read EXCEPT ![r].pc = "unlock", ![r].failed = TRUE]
        /\ UNCHANGED lock
     \/ /\ read[r].pc \in {"unlock", "delete"}
        /\ Alone(r)
        /\ lock' = IF lock = Held(r) THEN Left ELSE lock
  /\ UNCHANGED <<data, copy, lapsed>>

\* The connection breaks after a call took effect.  A SET NX that is sent again
\* finds the lock it has set itself: the read waits, or goes on alone when the
\* call throws, and the lock is left to its lifetime.
LockUnheard(r) ==
  /\ read[r].pc = "lock" /\ lock = Free
  /\ lock' = Left
  /\ GoTo(r, "wait") \/ Alone(r)
  /\ UNCHANGED <<data, copy, lapsed>>

\* A DEL that is sent again deletes whatever lock was set since.
DeleteTwice(r) ==
  /\ read[r].pc = "delete"
  /\ lock' = Free
  /\ lapsed' = TRUE
  /\ UNCHANGED <<data, copy, read>>

\* Computed without Redis, kept in memory only.
ComputeAgain(r) ==
  /\ read[r].pc = "again"
  /\ read' = [read EXCEPT ![r].pc = "keep", ![r].value = data]
  /\ UNCHANGED <<data, copy, lock, lapsed>>

Keep(r) ==
  /\ read[r].pc = "keep"
  /\ LET v == read[r].value
     IN  /\ copy' = KeepModel(r, v, [copy EXCEPT ![Mine(r, "cache")] = v])
         /\ read' = Return(r, v)
  /\ UNCHANGED <<data, lock, lapsed>>

\* The read model in Redis; a failure is logged and the answer sent.
Save(r) ==
  /\ read[r].pc = "save"
  /\ \/ copy' = [copy EXCEPT ![Shared("model")] = read[r].value]
     \/ UNCHANGED copy
  /\ Answer(r)
  /\ UNCHANGED <<data, lock, lapsed>>

ReadStep(r) ==
  \/ ModelHit(r) \/ ModelMiss(r) \/ CacheHit(r) \/ CacheMiss(r)
  \/ TakeLock(r) \/ StopWaiting(r) \/ Compute(r) \/ ComputeFails(r) \/ Store(r)
  \/ Unlock(r) \/ Delete(r) \/ RedisFails(r)
  \/ ComputeAgain(r) \/ Keep(r) \/ Save(r)

----------------------------------------------------------------------------
(* Time, invalidation and crashes.                                         *)

\* A copy expires, is invalidated or is cleared.
Drop(pl) ==
  /\ copy[pl] # NoCopy
  /\ copy' = [copy EXCEPT ![pl] = NoCopy]
  /\ UNCHANGED <<data, lock, lapsed, read>>

LockExpires ==
  /\ lock # Free
  /\ lock' = Free
  /\ lapsed' = (lapsed \/ \E r \in Reads : lock = Held(r) /\ AtWork(r))
  /\ UNCHANGED <<data, copy, read>>

\* A process stops: its memory and its reads are gone, Redis is not.
ProcessStops(p) ==
  /\ copy' = [pl \in Places |-> IF pl[2] = p THEN NoCopy ELSE copy[pl]]
  /\ read' = [r \in Reads |-> IF Home[r] = p THEN NoRead ELSE read[r]]
  /\ lock' = IF \E r \in Reads : lock = Held(r) /\ Home[r] = p THEN Left ELSE lock
  /\ UNCHANGED <<data, lapsed>>

----------------------------------------------------------------------------
CacheNext ==
  \/ Mutate
  \/ \E r \in Reads : ReadStep(r) \/ Ask(r) \/ LockUnheard(r) \/ DeleteTwice(r)
  \/ \E pl \in Places : Drop(pl)
  \/ LockExpires
  \/ \E p \in Procs : ProcessStops(p)

CacheSpec == CacheInit /\ [][CacheNext]_cacheVars

----------------------------------------------------------------------------
\* Caches, the lock and the reads are well-formed.
CacheTypeOK ==
  /\ data \in Versions
  /\ copy \in [Places -> Versions \cup {NoCopy}]
  /\ lock \in Lock
  /\ lapsed \in BOOLEAN
  /\ read \in [Reads -> Read]

\* As long as no lock ran out, and none was deleted a second time, under its
\* holder, the figures are computed under the lock by one read at a time,
\* whatever else fails.
OneHolder ==
  ~lapsed => \A r, s \in Reads : AtWork(r) /\ AtWork(s) => r = s

\* When the data stops changing, every copy is current in the end: no copy
\* outlives its source by feeding another one, whichever invalidations are
\* lost and whichever process reads, stops or stalls.
EventuallyCurrent ==
  <>[](\A pl \in Places : copy[pl] \in {NoCopy, data})
=============================================================================
