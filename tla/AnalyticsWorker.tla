-------------------------- MODULE AnalyticsWorker --------------------------
(***************************************************************************)
(* The analytics worker: from a mutation's domain event to the rebuild of  *)
(* the sections it touches.                                                *)
(*                                                                         *)
(* Events are appended to a stream in Redis, once or, when the client      *)
(* sends a command again, twice.  Workers of one consumer group take what  *)
(* nobody was given yet, drop what was seen before, remember the sections  *)
(* to rebuild and rebuild them a while later, on a timer that outlives the *)
(* batch.  An entry given to a worker is never given again, not even when  *)
(* it was not acknowledged: what a worker holds when it fails is lost, so  *)
(* is what it was told in an answer that never came, and `lost' says       *)
(* exactly what that is.                                                   *)
(***************************************************************************)
EXTENDS AnalyticsEvents, Integers, Sequences, SequencesExt

CONSTANTS
  Workers,     \* the processes that run the worker
  Events,      \* the events that may be published
  Type,        \* the type of each of them
  NoWorker,    \* nobody holds the leader lock
  Former,      \* it is held under the name of a process that is gone
  MaxLog,      \* bound on the entries of the stream
  MaxBatch,    \* entries a worker reads at once, 100 in the code
  MaxFaults    \* bound on failures and crashes

ASSUME WorkerAssumption ==
  /\ Type \in [Events -> EventTypes]
  /\ NoWorker \notin Workers /\ Former \notin Workers /\ NoWorker # Former
  /\ MaxLog \in Nat
  /\ MaxBatch \in Nat \ {0}
  /\ MaxFaults \in Nat

VARIABLES
  log,         \* the entries of the stream
  delivered,   \* how many the group was given
  marked,      \* the events with a mark against processing them twice
  leader,      \* who holds the leader lock
  worker,      \* what each worker is doing
  rebuilt,     \* events taken up by a rebuild that ended
  lost,        \* events a worker held when it failed, or whose answer it missed
  faults       \* failures so far

workerVars == <<log, delivered, marked, leader, worker, rebuilt, lost, faults>>

----------------------------------------------------------------------------
\* The events that call for a rebuild.
Matters == {e \in Events : sectionForEventType[Type[e]] # {}}

\* dirtySections is kept as the events that made the sections dirty.
Worker == [pc      : {"lead", "read", "mark", "ack"},
           batch   : Seq(Events),               \* entries not yet acknowledged
           owed    : SUBSET Matters,            \* dirtySections
           timer   : BOOLEAN,                   \* flushTimer
           rebuilds : SUBSET (SUBSET Matters)]  \* rebuilds that are running
Rested == [pc |-> "lead", batch |-> <<>>, owed |-> {}, timer |-> FALSE, rebuilds |-> {}]

WorkerInit ==
  /\ log = <<>>
  /\ delivered = 0
  /\ marked = {}
  /\ leader = NoWorker
  /\ worker = [w \in Workers |-> Rested]
  /\ rebuilt = {}
  /\ lost = {}
  /\ faults = 0

----------------------------------------------------------------------------
(* The stream.                                                             *)

Publish(e) ==
  /\ e \notin ToSet(log)
  /\ Len(log) < MaxLog
  /\ log' = Append(log, e)
  /\ UNCHANGED <<delivered, marked, leader, worker, rebuilt, lost, faults>>

\* The connection broke before the answer came, and the client sends XADD again.
PublishAgain(e) ==
  /\ e \in ToSet(log)
  /\ Len(log) < MaxLog
  /\ log' = Append(log, e)
  /\ UNCHANGED <<delivered, marked, leader, worker, rebuilt, lost, faults>>

----------------------------------------------------------------------------
(* The worker's loop.                                                      *)

\* SET NX, or the lock is one's own and is renewed; otherwise sleep.
BecomeLeader(w) ==
  /\ worker[w].pc = "lead"
  /\ leader \in {NoWorker, w}
  /\ leader' = w
  /\ worker' = [worker EXCEPT ![w].pc = "read"]
  /\ UNCHANGED <<log, delivered, marked, rebuilt, lost, faults>>

\* XREADGROUP with ">".
ReadGroup(w) ==
  /\ worker[w].pc = "read"
  /\ IF delivered = Len(log)
     THEN /\ worker' = [worker EXCEPT ![w].pc = "lead"]
          /\ UNCHANGED delivered
     ELSE \E n \in 1..MaxBatch :
            /\ delivered + n <= Len(log)
            /\ n = MaxBatch \/ delivered + n = Len(log)
            /\ worker' = [worker EXCEPT ![w].pc = "mark",
                                        ![w].batch = SubSeq(log, delivered + 1, delivered + n)]
            /\ delivered' = delivered + n
  /\ UNCHANGED <<log, marked, leader, rebuilt, lost, faults>>

\* SET NX on the event's identity; the sections are added before the next await.
MarkEvent(w) ==
  /\ worker[w].pc = "mark"
  /\ LET e == Head(worker[w].batch)
     IN  /\ worker' = [worker EXCEPT ![w].pc = "ack",
                         ![w].owed = IF e \in marked THEN @ ELSE @ \cup ({e} \cap Matters)]
         /\ marked' = marked \cup {e}
  /\ UNCHANGED <<log, delivered, leader, rebuilt, lost, faults>>

\* Mutant of Acknowledge: the flush is scheduled only if the last entry asked for it.
AcknowledgeLastOnly(w) ==
  /\ worker[w].pc = "ack"
  /\ LET left == Tail(worker[w].batch)
     IN  worker' = [worker EXCEPT
           ![w].batch = left,
           ![w].pc    = IF left = <<>> THEN "lead" ELSE "mark",
           ![w].timer = @ \/ (left = <<>> /\ Head(worker[w].batch) \in worker[w].owed)]
  /\ UNCHANGED <<log, delivered, marked, leader, rebuilt, lost, faults>>

\* Mutant of Acknowledge: the end of the batch is not noticed.
AcknowledgeAndGoOn(w) ==
  /\ worker[w].pc = "ack"
  /\ worker' = [worker EXCEPT ![w].batch = Tail(@), ![w].pc = "mark"]
  /\ UNCHANGED <<log, delivered, marked, leader, rebuilt, lost, faults>>

\* XACK; after the last entry the flush is scheduled, unless it is already.
Acknowledge(w) ==
  /\ worker[w].pc = "ack"
  /\ LET left == Tail(worker[w].batch)
     IN  worker' = [worker EXCEPT
           ![w].batch = left,
           ![w].pc    = IF left = <<>> THEN "lead" ELSE "mark",
           ![w].timer = @ \/ left = <<>>]
  /\ UNCHANGED <<log, delivered, marked, leader, rebuilt, lost, faults>>

\* The timer: the dirty sections are taken and forgotten.
Flush(w) ==
  /\ worker[w].timer
  /\ worker' = [worker EXCEPT
       ![w].timer    = FALSE,
       ![w].owed     = {},
       ![w].rebuilds = IF worker[w].owed = {} THEN @ ELSE @ \cup {worker[w].owed}]
  /\ UNCHANGED <<log, delivered, marked, leader, rebuilt, lost, faults>>

\* Mutant of EndRebuild: the sections are forgotten when the rebuild is over.
EndRebuildThenClear(w) ==
  \E es \in worker[w].rebuilds :
    /\ worker' = [worker EXCEPT ![w].rebuilds = @ \ {es}, ![w].owed = {}]
    /\ rebuilt' = rebuilt \cup es
    /\ UNCHANGED <<log, delivered, marked, leader, lost, faults>>

EndRebuild(w) ==
  \E es \in worker[w].rebuilds :
    /\ worker' = [worker EXCEPT ![w].rebuilds = @ \ {es}]
    /\ rebuilt' = rebuilt \cup es
    /\ UNCHANGED <<log, delivered, marked, leader, lost, faults>>

----------------------------------------------------------------------------
(* Failures.                                                               *)

\* What an error in the loop leaves to nobody: the entries of the batch that
\* were not marked, and the sections for which no flush is scheduled.
Abandoned(w) ==
  ((ToSet(worker[w].batch) \cap Matters) \ marked)
    \cup IF worker[w].timer THEN {} ELSE worker[w].owed

\* A call to Redis throws: the rest of the batch is dropped.  The call may
\* have taken effect.
LoopFails(w) ==
  /\ faults < MaxFaults
  /\ faults' = faults + 1
  /\ worker[w].pc \in {"mark", "ack"}
  /\ worker' = [worker EXCEPT ![w].pc = "lead", ![w].batch = <<>>]
  /\ lost' = lost \cup Abandoned(w)
  /\ marked' \in {marked} \cup
       (IF worker[w].pc = "mark" THEN {marked \cup {Head(worker[w].batch)}} ELSE {})
  /\ UNCHANGED <<log, delivered, leader, rebuilt>>

\* XREADGROUP was served, but its answer is lost.
ReadFails(w) ==
  /\ faults < MaxFaults
  /\ faults' = faults + 1
  /\ worker[w].pc = "read"
  /\ \E n \in 0..MaxBatch :
       /\ delivered + n <= Len(log)
       /\ delivered' = delivered + n
       /\ lost' = lost \cup
            ((ToSet(SubSeq(log, delivered + 1, delivered + n)) \cap Matters) \ marked)
  /\ worker' = [worker EXCEPT ![w].pc = "lead"]
  /\ UNCHANGED <<log, marked, leader, rebuilt>>

\* The connection breaks after a call took effect, and the client sends it
\* again: SET NX finds the mark it has set itself, so that the event passes for
\* a duplicate, and XREADGROUP gives out the entries that follow.  No error
\* reaches the worker.
AnswerLost(w) ==
  /\ faults < MaxFaults
  /\ faults' = faults + 1
  /\ \/ /\ worker[w].pc = "mark"
        /\ LET e == Head(worker[w].batch)
           IN  /\ marked' = marked \cup {e}
               /\ lost' = lost \cup (({e} \cap Matters) \ marked)
        /\ UNCHANGED delivered
     \/ /\ worker[w].pc = "read"
        /\ \E n \in 1..MaxBatch :
             /\ delivered + n <= Len(log)
             /\ delivered' = delivered + n
             /\ lost' = lost \cup
                  ((ToSet(SubSeq(log, delivered + 1, delivered + n)) \cap Matters) \ marked)
        /\ UNCHANGED marked
  /\ UNCHANGED <<log, leader, worker, rebuilt>>

\* A rebuild throws: logged, and its sections are not dirty any more.
RebuildFails(w) ==
  /\ faults < MaxFaults
  /\ faults' = faults + 1
  /\ \E es \in worker[w].rebuilds :
       /\ worker' = [worker EXCEPT ![w].rebuilds = @ \ {es}]
       /\ lost' = lost \cup es
  /\ UNCHANGED <<log, delivered, marked, leader, rebuilt>>

\* The process stops and starts again, under the same name or, as by
\* default, another: its lock is then in the way for as long as it lasts.
WorkerStops(w) ==
  /\ faults < MaxFaults
  /\ faults' = faults + 1
  /\ lost' = lost \cup ((ToSet(worker[w].batch) \cap Matters) \ marked)
                  \cup worker[w].owed \cup (UNION worker[w].rebuilds)
  /\ worker' = [worker EXCEPT ![w] = Rested]
  /\ \/ UNCHANGED leader
     \/ leader = w /\ leader' = Former
  /\ UNCHANGED <<log, delivered, marked, rebuilt>>

\* The lock runs out, its holder perhaps still in the middle of a batch.
LeaderLockExpires ==
  /\ leader # NoWorker
  /\ leader' = NoWorker
  /\ UNCHANGED <<log, delivered, marked, worker, rebuilt, lost, faults>>

----------------------------------------------------------------------------
LoopStep(w) == BecomeLeader(w) \/ ReadGroup(w) \/ MarkEvent(w) \/ Acknowledge(w)

WorkerNext ==
  \/ \E e \in Events : Publish(e) \/ PublishAgain(e)
  \/ \E w \in Workers :
       \/ LoopStep(w) \/ Flush(w) \/ EndRebuild(w)
       \/ LoopFails(w) \/ ReadFails(w) \/ AnswerLost(w) \/ RebuildFails(w) \/ WorkerStops(w)
  \/ LeaderLockExpires

WorkerSpec == WorkerInit /\ [][WorkerNext]_workerVars

----------------------------------------------------------------------------
\* Stream, marks and workers are well-formed; a worker has entries exactly
\* while it works through a batch.
WorkerTypeOK ==
  /\ log \in Seq(Events) /\ Len(log) <= MaxLog
  /\ delivered \in 0..Len(log)
  /\ marked \in SUBSET Events
  /\ leader \in Workers \cup {NoWorker, Former}
  /\ worker \in [Workers -> Worker]
  /\ \A w \in Workers : worker[w].pc \in {"mark", "ack"} <=> worker[w].batch # <<>>
  /\ rebuilt \in SUBSET Matters
  /\ lost \in SUBSET Matters
  /\ faults \in 0..MaxFaults

\* What a worker will still see to, if it does not fail.
WillRebuild(w) ==
  (ToSet(worker[w].batch) \ marked)
    \cup (UNION worker[w].rebuilds)
    \cup IF worker[w].timer \/ worker[w].batch # <<>> THEN worker[w].owed ELSE {}

\* An event the group was given is forgotten only by a failure: a rebuild has
\* covered it, a worker will see to it, one failed while it held it, or the
\* answer that gave or marked it was lost.  It is so although two leaders
\* overlap, entries come twice and rebuilds overtake each other.
Accounted ==
  \A i \in 1..delivered : log[i] \in Matters =>
    \/ log[i] \in rebuilt \cup lost
    \/ \E w \in Workers : log[i] \in WillRebuild(w)

\* Every event of the stream that calls for a rebuild gets one, unless the
\* worker that held it failed or an answer about it was lost: leadership passes
\* on, timers are armed, no entry is skipped.
EventRebuilt ==
  \A e \in Matters : e \in ToSet(log) ~> e \in rebuilt \cup lost
=============================================================================
