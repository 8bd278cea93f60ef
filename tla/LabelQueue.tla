----------------------------- MODULE LabelQueue -----------------------------
(***************************************************************************)
(* The durable queue of label jobs: enqueueOrderLabelJob and any number of *)
(* order-label workers, each of which polls, claims a batch by conditional *)
(* updates, and then generates and marks its jobs one by one.              *)
(*                                                                         *)
(* Time is the order of "line": the jobs whose availableAt has passed, by  *)
(* availableAt.  A job is appended when its availableAt comes, so a claim  *)
(* that repeats the condition availableAt <= now repeats that the job is   *)
(* in line.                                                                *)
(***************************************************************************)
EXTENDS Integers, Sequences, SequencesExt

CONSTANTS
  Jobs,         \* one per order: the job table is unique by order
  Workers,
  BatchSize,
  MaxAttempts,
  MaxOutages    \* bound on the ticks that are cut short

ASSUME QueueAssumption ==
  /\ BatchSize \in Nat \ {0}
  /\ MaxAttempts \in Nat \ {0}
  /\ MaxOutages \in Nat

VARIABLES
  job,        \* the OrderLabelJob row of each order
  line,       \* the candidates for a claim, oldest availableAt first
  labelled,   \* jobs whose order's parcels carry a label key
  worker,     \* what each worker's current tick holds in memory
  outages     \* ticks cut short so far

queueVars == <<job, line, labelled, worker, outages>>

----------------------------------------------------------------------------
Open == {"pending", "failed"}     \* statuses a claim accepts

JobRow == [status   : Open \cup {"absent", "processing", "completed"},
           attempts : 0..MaxAttempts]

\* A row as a worker remembers it.
Ticket == [job : Jobs, attempts : 0..MaxAttempts]

\* "claiming": the candidates still to be tried; "working": the claimed jobs,
\* the first of which is being generated, marked completed or marked failed.
Worker == [pc         : {"idle", "claiming", "generate", "complete", "fail"},
           candidates : Seq(Ticket),
           claimed    : Seq(Ticket)]

Resting == [pc |-> "idle", candidates |-> <<>>, claimed |-> <<>>]

InLine(j) == \E i \in DOMAIN line : line[i] = j

QueueInit ==
  /\ job = [j \in Jobs |-> [status |-> "absent", attempts |-> 0]]
  /\ line = <<>>
  /\ labelled = {}
  /\ worker = [w \in Workers |-> Resting]
  /\ outages = 0

\* An order is created: both callers enqueue an order they have just
\* inserted, so the upsert never finds a row.
Enqueue(j) ==
  /\ job[j].status = "absent"
  /\ job' = [job EXCEPT ![j].status = "pending"]
  /\ line' = Append(line, j)
  /\ UNCHANGED <<labelled, worker, outages>>

\* The retry delay of a failed attempt has passed.
Mature(j) ==
  /\ job[j].status = "pending"
  /\ ~InLine(j)
  /\ line' = Append(line, j)
  /\ UNCHANGED <<job, labelled, worker, outages>>

----------------------------------------------------------------------------
(* One tick of a worker.                                                   *)

\* The window of a tick: twice the batch, from the front of the line.  Jobs
\* out of attempts are in it, as any other that is in line.
Candidates ==
  LET window == SubSeq(line, 1, IF Len(line) < 2 * BatchSize THEN Len(line)
                                                             ELSE 2 * BatchSize)
  IN  [i \in DOMAIN window |-> [job |-> window[i], attempts |-> job[window[i]].attempts]]

\* A tick that finds no candidate ends at once and changes nothing.
Poll(w) ==
  /\ worker[w].pc = "idle"
  /\ Candidates # <<>>
  /\ worker' = [worker EXCEPT ![w] =
                  [pc |-> "claiming", candidates |-> Candidates, claimed |-> <<>>]]
  /\ UNCHANGED <<job, line, labelled, outages>>

\* After a candidate was tried: stop at a full batch or the last candidate.
AfterTry(w, claimed) ==
  LET rest == Tail(worker[w].candidates) IN
  worker' = [worker EXCEPT ![w] =
    IF rest # <<>> /\ Len(claimed) < BatchSize
    THEN [pc |-> "claiming", candidates |-> rest, claimed |-> claimed]
    ELSE IF claimed # <<>>
    THEN [pc |-> "generate", candidates |-> <<>>, claimed |-> claimed]
    ELSE Resting]

\* Mutants of Claimable: the attempts are not compared; jobs out of attempts
\* are claimed again; and the last attempt is not made.
ClaimableIfOpen(t) ==
  /\ t.attempts < MaxAttempts
  /\ job[t.job].status \in Open
  /\ InLine(t.job)

ClaimableForEver(t) ==
  /\ job[t.job].attempts = t.attempts
  /\ job[t.job].status \in Open
  /\ InLine(t.job)

ClaimableButLast(t) ==
  /\ t.attempts + 1 < MaxAttempts
  /\ job[t.job].attempts = t.attempts
  /\ job[t.job].status \in Open
  /\ InLine(t.job)

\* A candidate out of attempts is skipped; the conditional update of any
\* other matches if nobody has claimed the job since.
Claimable(t) ==
  /\ t.attempts < MaxAttempts
  /\ job[t.job].attempts = t.attempts
  /\ job[t.job].status \in Open
  /\ InLine(t.job)

Claim(w) ==
  LET t == Head(worker[w].candidates) IN
  /\ worker[w].pc = "claiming"
  /\ Claimable(t)
  /\ job' = [job EXCEPT ![t.job] =
               [status |-> "processing", attempts |-> @.attempts + 1]]
  /\ \E i \in DOMAIN line : line[i] = t.job /\ line' = RemoveAt(line, i)
  /\ AfterTry(w, Append(worker[w].claimed, [job |-> t.job, attempts |-> t.attempts + 1]))
  /\ UNCHANGED <<labelled, outages>>

Miss(w) ==
  /\ worker[w].pc = "claiming"
  /\ ~Claimable(Head(worker[w].candidates))
  /\ AfterTry(w, worker[w].claimed)
  /\ UNCHANGED <<job, line, labelled, outages>>

GoTo(w, pc) == worker' = [worker EXCEPT ![w].pc = pc]

\* The label keys of all the order's parcels are written in one transaction.
Generate(w) ==
  /\ worker[w].pc = "generate"
  /\ labelled' = labelled \cup {Head(worker[w].claimed).job}
  /\ GoTo(w, "complete")
  /\ UNCHANGED <<job, line, outages>>

\* Rendering, upload or the write of the keys fails; or the keys are written
\* and marking the job completed fails.
GenerateFails(w) ==
  /\ worker[w].pc \in {"generate", "complete"}
  /\ GoTo(w, "fail")
  /\ UNCHANGED <<job, line, labelled, outages>>

\* Mutant of NextJob: the batch ends with its first job.
NextJobOnly(w) == worker' = [worker EXCEPT ![w] = Resting]

NextJob(w) ==
  LET rest == Tail(worker[w].claimed) IN
  worker' = [worker EXCEPT ![w] =
    IF rest = <<>> THEN Resting
    ELSE [pc |-> "generate", candidates |-> <<>>, claimed |-> rest]]

MarkJobCompleted(w) ==
  /\ worker[w].pc = "complete"
  /\ job' = [job EXCEPT ![Head(worker[w].claimed).job].status = "completed"]
  /\ NextJob(w)
  /\ UNCHANGED <<line, labelled, outages>>

\* Out of attempts, by the worker's own count, the job is failed and
\* available at once; otherwise it is pending and available after a delay.
MarkJobFailure(w) ==
  LET t         == Head(worker[w].claimed)
      exhausted == t.attempts >= MaxAttempts
  IN  /\ worker[w].pc = "fail"
      /\ job' = [job EXCEPT ![t.job].status = IF exhausted THEN "failed" ELSE "pending"]
      /\ line' = IF exhausted THEN Append(line, t.job) ELSE line
      /\ NextJob(w)
      /\ UNCHANGED <<labelled, outages>>

\* The worker dies, a claim throws, or marking a failure throws: the tick
\* ends, and nobody remembers the jobs it had claimed.
Outage(w) ==
  /\ worker[w].pc # "idle"
  /\ outages < MaxOutages
  /\ worker' = [worker EXCEPT ![w] = Resting]
  /\ outages' = outages + 1
  /\ UNCHANGED <<job, line, labelled>>

WorkerStep(w) ==
  \/ Poll(w) \/ Claim(w) \/ Miss(w)
  \/ Generate(w) \/ GenerateFails(w)
  \/ MarkJobCompleted(w) \/ MarkJobFailure(w)

QueueNext ==
  \/ \E j \in Jobs : Enqueue(j) \/ Mature(j)
  \/ \E w \in Workers : WorkerStep(w) \/ Outage(w)

QueueSpec == QueueInit /\ [][QueueNext]_queueVars

\* Every worker polls on a timer for ever and finishes what it awaits, and
\* retry delays pass.  Nothing obliges orders to be created, generation to
\* succeed or outages to happen.
FairQueueSpec ==
  /\ QueueSpec
  /\ \A w \in Workers : WF_queueVars(WorkerStep(w))
  /\ \A j \in Jobs : WF_queueVars(Mature(j))

----------------------------------------------------------------------------
\* The rows, the line and the workers' memories have their types.
QueueTypeOK ==
  /\ job \in [Jobs -> JobRow]
  /\ line \in Seq(Jobs)
  /\ labelled \subseteq Jobs
  /\ worker \in [Workers -> Worker]
  /\ outages \in 0..MaxOutages

\* Workers poll the same rows and claim them in overlapping loops, yet no
\* job is in the hands of two workers, nor twice in the hands of one; and a
\* worker's count of its attempts is the row's.
ClaimExclusive ==
  /\ \A w \in Workers : \A i \in DOMAIN worker[w].claimed :
       LET t == worker[w].claimed[i] IN
       job[t.job] = [status |-> "processing", attempts |-> t.attempts]
  /\ \A w, v \in Workers :
       \A i \in DOMAIN worker[w].claimed, k \in DOMAIN worker[v].claimed :
         worker[w].claimed[i].job = worker[v].claimed[k].job => w = v /\ i = k

\* markJobCompleted and markJobFailure write by id: still, a job that is
\* completed or given up never changes again, whatever workers remember of it.
Finished(j) == job[j].status \in {"completed", "failed"}

FinishedStays ==
  [][\A j \in Jobs : Finished(j) => job'[j] = job[j]]_queueVars

\* A job is completed only with its labels written, and given up only when
\* every attempt was made.
OutcomeEarned ==
  \A j \in Jobs :
    /\ job[j].status = "completed" => j \in labelled
    /\ job[j].status = "failed" => job[j].attempts = MaxAttempts

\* No worker has the job that a row says is being processed.
Stranded(j) ==
  /\ job[j].status = "processing"
  /\ \A w \in Workers : \A i \in DOMAIN worker[w].claimed : worker[w].claimed[i].job # j

\* Nothing else than a tick cut short strands a job: no claim, miss or mark
\* loses sight of one that it holds.
StrandedByOutage == \A j \in Jobs : Stranded(j) => outages > 0

\* The workers that have a job in their batch.
Hands == [j \in Jobs |->
            {w \in Workers : \E i \in DOMAIN worker[w].claimed : worker[w].claimed[i].job = j}]

Life == INSTANCE LabelJobLife WITH hands <- Hands

\* Windows that overlap, candidates read long before they are claimed, marks
\* by id and batches worked off one by one come to what LabelJobLife says of
\* each job: one worker at a time takes it and alone decides what becomes of
\* it, and nothing but an outage lets it drop.
JobLifeKept == Life!LifeSpec

\* While no more jobs are out of attempts than a window holds, every job is
\* finished in the end, unless a tick that held it was cut short.
FinishedOrStranded ==
  \A j \in Jobs : job[j].status = "pending" ~> Finished(j) \/ Stranded(j)

\* A durable queue gets round to every job: with more jobs than a window, it
\* does not, as those out of attempts stay at the front of the line for ever.
EveryJobTried ==
  \A j \in Jobs : job[j].status = "pending" ~> job[j].attempts > 0

\* A durable queue loses no job: one whose worker dies is never claimed again.
EveryJobFinished ==
  \A j \in Jobs : job[j].status = "pending" ~> Finished(j)
=============================================================================
