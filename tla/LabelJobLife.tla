---------------------------- MODULE LabelJobLife ----------------------------
(***************************************************************************)
(* What the label queue promises of each job, with no window, no batch and *)
(* no line: a job waits, is tried by one worker at a time and at most      *)
(* MaxAttempts times, and ends completed, or given up after every attempt. *)
(*                                                                         *)
(*   absent --Arrive--> pending --Take--> processing --Complete--> completed *)
(*                      pending <--Fail-- processing --Fail------> failed  *)
(*                                                                         *)
(* Only the worker that has a job decides what becomes of it.  A worker    *)
(* may forget all it has, which ends the life of those jobs.               *)
(***************************************************************************)
EXTENDS Integers

CONSTANTS Jobs, Workers, MaxAttempts

VARIABLES
  job,        \* status and attempts made
  labelled,   \* jobs whose labels are written
  hands,      \* which workers have the job: nobody or one
  outages     \* how often a worker forgot what it had

Arrive(j) ==
  /\ job[j].status = "absent"
  /\ job' = [job EXCEPT ![j].status = "pending"]
  /\ UNCHANGED <<labelled, hands, outages>>

Take(j, w) ==
  /\ job[j].status = "pending"
  /\ hands[j] = {}
  /\ job[j].attempts < MaxAttempts
  /\ job' = [job EXCEPT ![j] = [status |-> "processing", attempts |-> @.attempts + 1]]
  /\ hands' = [hands EXCEPT ![j] = {w}]
  /\ UNCHANGED <<labelled, outages>>

Label(j, w) ==
  /\ hands[j] = {w}
  /\ labelled' = labelled \cup {j}
  /\ UNCHANGED <<job, hands, outages>>

\* The worker that has the job lets go of it, and of no other.
Leaves(j, w, status) ==
  /\ job[j].status = "processing"
  /\ hands[j] = {w}
  /\ job' = [job EXCEPT ![j].status = status]
  /\ hands' = [hands EXCEPT ![j] = {}]
  /\ UNCHANGED <<labelled, outages>>

Complete(j, w) == j \in labelled /\ Leaves(j, w, "completed")

Fail(j, w) == Leaves(j, w, IF job[j].attempts = MaxAttempts THEN "failed" ELSE "pending")

\* What it had is in nobody's hands and still being processed: for ever.
Forget(w) ==
  /\ hands' = [j \in Jobs |-> hands[j] \ {w}]
  /\ outages' = outages + 1
  /\ UNCHANGED <<job, labelled>>

LifeInit ==
  /\ job = [j \in Jobs |-> [status |-> "absent", attempts |-> 0]]
  /\ labelled = {}
  /\ hands = [j \in Jobs |-> {}]
  /\ outages = 0

LifeNext ==
  \/ \E j \in Jobs : Arrive(j)
  \/ \E j \in Jobs, w \in Workers :
       Take(j, w) \/ Label(j, w) \/ Complete(j, w) \/ Fail(j, w)
  \/ \E w \in Workers : Forget(w)

LifeSpec == LifeInit /\ [][LifeNext]_<<job, labelled, hands, outages>>
=============================================================================
