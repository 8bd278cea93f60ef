---------------------------- MODULE MCReadSide ----------------------------
(***************************************************************************)
(* The read side of the manager analytics: the caches, the worker and what *)
(* a mutation changes.  They share no variable: what the worker does to    *)
(* the caches is a Drop, which needs no cause, a rebuild reads through     *)
(* them like any Read, and which sections an event names does not depend   *)
(* on how it travels.  So one run explores each while the others rest.     *)
(***************************************************************************)
EXTENDS AnalyticsCache, AnalyticsWorker, AnalyticsFigures

CONSTANTS p1, p2, r1, r2, w1, w2, created, handedOff

VARIABLE side     \* the one that moves

MCHome == [r \in Reads |-> IF r = r1 THEN p1 ELSE p2]
MCType == [e \in Events |-> IF e = created THEN "order_created" ELSE "cash_handoff"]

readSideVars == <<cacheVars, workerVars, figuresVars, side>>

ReadSideInit ==
  /\ CacheInit /\ WorkerInit /\ FiguresInit
  /\ side \in {"cache", "worker", "figures"}

ReadSideNext ==
  /\ \/ side = "cache" /\ CacheNext /\ UNCHANGED <<workerVars, figuresVars>>
     \/ side = "worker" /\ WorkerNext /\ UNCHANGED <<cacheVars, figuresVars>>
     \/ side = "figures" /\ FiguresNext /\ UNCHANGED <<cacheVars, workerVars>>
  /\ UNCHANGED side

\* A read in progress ends and copies expire; nobody has to ask.  Workers go
\* on, timers fire and rebuilds end.  A lock that is renewed need never run
\* out; one whose holder is gone does.
ReadSideFairness ==
  /\ \A r \in Reads   : WF_cacheVars(side = "cache" /\ ReadStep(r))
  /\ \A pl \in Places : WF_cacheVars(side = "cache" /\ Drop(pl))
  /\ WF_cacheVars(side = "cache" /\ LockExpires)
  /\ \A w \in Workers : /\ WF_workerVars(side = "worker" /\ LoopStep(w))
                        /\ WF_workerVars(side = "worker" /\ Flush(w))
                        /\ WF_workerVars(side = "worker" /\ EndRebuild(w))
  /\ WF_workerVars(side = "worker" /\ leader = Former /\ LeaderLockExpires)

ReadSideSpec ==
  ReadSideInit /\ [][ReadSideNext]_readSideVars /\ ReadSideFairness

\* The components' types.
TypeOK == CacheTypeOK /\ WorkerTypeOK /\ FiguresTypeOK
=============================================================================
