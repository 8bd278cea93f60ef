-------------------------- MODULE LabelQueueProofs --------------------------
(***************************************************************************)
(* The safety of the label queue for any number of jobs and workers, any   *)
(* batch size and number of attempts, and any outages.                     *)
(***************************************************************************)
EXTENDS LabelQueue, SequenceTheorems, TLAPS

\* A worker's memory fits the stage of its tick.
WorkerFits ==
  \A w \in Workers :
    /\ worker[w].pc = "claiming" => worker[w].candidates # <<>>
    /\ worker[w].pc \in {"generate", "complete", "fail"} => worker[w].claimed # <<>>
    /\ worker[w].pc = "complete" => worker[w].claimed[1].job \in labelled

\* Held tickets are those of rows being processed, each held once; and
\* outcomes are earned, which needs the stage of a tick to fit its memory.
QueueInv ==
  /\ QueueTypeOK
  /\ WorkerFits
  /\ ClaimExclusive
  /\ OutcomeEarned

\* An element of a sequence without its i-th element is one of the sequence,
\* so such a sequence has the same type.
LEMMA RemoveAtTyped ==
  ASSUME NEW S, NEW s \in Seq(S), NEW i \in DOMAIN s
  PROVE  RemoveAt(s, i) \in Seq(S)
<1>1. SubSeq(s, 1, i - 1) \in Seq(S)
  BY SubSeqProperties
<1>2. SubSeq(s, i + 1, Len(s)) \in Seq(S)
  BY SubSeqProperties
<1>. QED  BY <1>1, <1>2 DEF RemoveAt

\* A sequence with one more element at its end.
LEMMA AppendTyped ==
  ASSUME NEW S, NEW s \in Seq(S), NEW e \in S
  PROVE  /\ Append(s, e) \in Seq(S)
         /\ Len(Append(s, e)) = Len(s) + 1
         /\ Append(s, e)[Len(s) + 1] = e
         /\ \A i \in 1 .. Len(s) : Append(s, e)[i] = s[i]
         /\ Append(s, e) # <<>>
OBVIOUS

\* A sequence without its first element.
LEMMA TailTyped ==
  ASSUME NEW S, NEW s \in Seq(S), s # <<>>
  PROVE  /\ Head(s) = s[1] /\ s[1] \in S
         /\ 1 \in DOMAIN s
         /\ Tail(s) \in Seq(S)
         /\ \A i \in DOMAIN Tail(s) : i + 1 \in DOMAIN s /\ Tail(s)[i] = s[i + 1]
<1>1. Head(s) = s[1] /\ s[1] \in S /\ 1 \in DOMAIN s
  BY EmptySeq
<1>. QED  BY <1>1, HeadTailProperties

\* The window of a tick holds tickets of jobs.
LEMMA CandidatesTyped ==
  ASSUME QueueTypeOK PROVE Candidates \in Seq(Ticket)
<1>. DEFINE n == IF Len(line) < 2 * BatchSize THEN Len(line) ELSE 2 * BatchSize
            window == SubSeq(line, 1, n)
            tickets == [i \in DOMAIN window |->
                          [job |-> window[i], attempts |-> job[window[i]].attempts]]
<1>1. n \in Nat /\ n <= Len(line)
  BY QueueAssumption DEF QueueTypeOK
<1>2. window \in Seq(Jobs)
  <2>. \A i \in 1 .. n : line[i] \in Jobs
    BY <1>1 DEF QueueTypeOK
  <2>. HIDE DEF n
  <2>. QED  BY <1>1, SubSeqProperties
<1>3. DOMAIN window = 1 .. Len(window) /\ Len(window) \in Nat
  <2>. HIDE DEF window
  <2>. QED  BY <1>2
<1>4. \A i \in DOMAIN window : window[i] \in Jobs
  <2>. HIDE DEF window
  <2>. QED  BY <1>2
<1>5. \A j \in Jobs : [job |-> j, attempts |-> job[j].attempts] \in Ticket
  BY DEF QueueTypeOK, JobRow, Ticket
<1>6. tickets \in Seq(Ticket)
  <2>. HIDE DEF window
  <2>. tickets \in [1 .. Len(window) -> Ticket]
    BY <1>3, <1>4, <1>5
  <2>. HIDE DEF tickets
  <2>. QED  BY <1>3, SeqDef
<1>7. Candidates = tickets
  BY DEF Candidates
<1>. QED  BY <1>6, <1>7

\* What ClaimExclusive says of one held ticket.
LEMMA Held ==
  ASSUME QueueTypeOK, ClaimExclusive, NEW w \in Workers, NEW i \in DOMAIN worker[w].claimed
  PROVE  /\ worker[w].claimed[i].job \in Jobs
         /\ worker[w].claimed[i].attempts \in 0..MaxAttempts
         /\ job[worker[w].claimed[i].job]
              = [status |-> "processing", attempts |-> worker[w].claimed[i].attempts]
         /\ job[worker[w].claimed[i].job].status = "processing"
         /\ job[worker[w].claimed[i].job].attempts = worker[w].claimed[i].attempts
<1>1. job[worker[w].claimed[i].job]
        = [status |-> "processing", attempts |-> worker[w].claimed[i].attempts]
  BY DEF ClaimExclusive
<1>2. worker[w].claimed \in Seq(Ticket)
  BY DEF QueueTypeOK, Worker
<1>3. worker[w].claimed[i] \in Ticket
  BY <1>2
<1>. QED  BY <1>1, <1>3 DEF Ticket

\* What ClaimExclusive says of two tickets of one job.
LEMMA HeldOnce ==
  ASSUME ClaimExclusive, NEW w \in Workers, NEW i \in DOMAIN worker[w].claimed,
         NEW v \in Workers, NEW k \in DOMAIN worker[v].claimed,
         worker[w].claimed[i].job = worker[v].claimed[k].job
  PROVE  w = v /\ i = k
BY DEF ClaimExclusive

----------------------------------------------------------------------------
(* A worker's step changes that worker's memory alone.                     *)

\* Worker w now remembers m; its claimed jobs are the old ones without the
\* first "done", or none, and the rows of those still held are untouched.
LEMMA Released ==
  ASSUME QueueTypeOK, ClaimExclusive, NEW w \in Workers, NEW m \in Worker,
         worker' = [worker EXCEPT ![w] = m], NEW done \in {0, 1},
         \A i \in DOMAIN m.claimed :
           i + done \in DOMAIN worker[w].claimed /\ m.claimed[i] = worker[w].claimed[i + done],
         \A v \in Workers : \A i \in DOMAIN worker[v].claimed :
           \/ v = w /\ (i = done \/ m.claimed = <<>>)
           \/ job'[worker[v].claimed[i].job] = job[worker[v].claimed[i].job]
  PROVE  ClaimExclusive'
<1>. DEFINE shift(v) == IF v = w THEN done ELSE 0
<1>1. \A v \in Workers : worker'[v] = IF v = w THEN m ELSE worker[v]
  BY DEF QueueTypeOK
<1>2. \A v \in Workers : worker[v].claimed \in Seq(Ticket) /\ worker'[v].claimed \in Seq(Ticket)
  BY <1>1 DEF QueueTypeOK, Worker
<1>3. ASSUME NEW v \in Workers, NEW i \in DOMAIN worker'[v].claimed
      PROVE  /\ i \in Nat \ {0}
             /\ i + shift(v) \in DOMAIN worker[v].claimed
             /\ worker'[v].claimed[i] = worker[v].claimed[i + shift(v)]
             /\ job'[worker'[v].claimed[i].job] = job[worker'[v].claimed[i].job]
  <2>1. i \in Nat \ {0}
    BY <1>2, <1>3
  <2>2. CASE v # w
    BY <1>1, <1>3, <2>1, <2>2
  <2>3. CASE v = w
    <3>1. worker'[v] = m /\ m.claimed # <<>>
      BY <1>1, <1>3, <2>3
    <3>. QED  BY <1>3, <2>1, <2>3, <3>1
  <2>. QED  BY <2>2, <2>3
<1>4. ASSUME NEW v \in Workers, NEW i \in DOMAIN worker'[v].claimed
      PROVE  job'[worker'[v].claimed[i].job]
               = [status |-> "processing", attempts |-> worker'[v].claimed[i].attempts]
  <2>. HIDE DEF shift
  <2>. i + shift(v) \in DOMAIN worker[v].claimed
    BY <1>3, <1>4
  <2>1. job[worker[v].claimed[i + shift(v)].job]
          = [status |-> "processing", attempts |-> worker[v].claimed[i + shift(v)].attempts]
    BY Held
  <2>. QED  BY <1>3, <1>4, <2>1
<1>5. ASSUME NEW u \in Workers, NEW v \in Workers, NEW i \in DOMAIN worker'[u].claimed,
             NEW k \in DOMAIN worker'[v].claimed,
             worker'[u].claimed[i].job = worker'[v].claimed[k].job
      PROVE  u = v /\ i = k
  <2>1. u = v /\ i + shift(u) = k + shift(v)
    <3>. HIDE DEF shift
    <3>1. i + shift(u) \in DOMAIN worker[u].claimed /\ k + shift(v) \in DOMAIN worker[v].claimed
      BY <1>3, <1>5
    <3>2. worker[u].claimed[i + shift(u)].job = worker[v].claimed[k + shift(v)].job
      BY <1>3, <1>5
    <3>. QED  BY <3>1, <3>2, HeldOnce
  <2>2. i \in Nat /\ k \in Nat
    BY <1>3, <1>5
  <2>. QED  BY <2>1, <2>2
<1>. QED  BY <1>4, <1>5 DEF ClaimExclusive

\* A tick that starts holds nothing, and nothing is in a row yet.
LEMMA QueueInitInv == ASSUME QueueInit PROVE QueueInv
<1>1. QueueTypeOK
  BY QueueAssumption DEF QueueInit, QueueTypeOK, JobRow, Open, Worker, Resting
<1>2. \A w \in Workers : worker[w].pc = "idle" /\ worker[w].claimed = <<>>
  BY DEF QueueInit, Resting
<1>3. WorkerFits /\ ClaimExclusive
  BY <1>2 DEF WorkerFits, ClaimExclusive
<1>4. OutcomeEarned
  BY DEF QueueInit, OutcomeEarned
<1>. QED  BY <1>1, <1>3, <1>4 DEF QueueInv

\* Jobs that come into being or mature are in nobody's hands.
LEMMA JobArrives ==
  ASSUME QueueInv, NEW j \in Jobs, Enqueue(j) \/ Mature(j) PROVE QueueInv'
<1>. QueueTypeOK /\ WorkerFits /\ ClaimExclusive /\ OutcomeEarned
  BY DEF QueueInv
<1>1. UNCHANGED <<worker, labelled, outages>> /\ line' = Append(line, j)
  BY DEF Enqueue, Mature
<1>2. \/ job' = job
      \/ job[j].status = "absent" /\ job' = [job EXCEPT ![j].status = "pending"]
  BY DEF Enqueue, Mature
<1>3. QueueTypeOK'
  <2>1. line' \in Seq(Jobs)
    BY <1>1, AppendTyped DEF QueueTypeOK
  <2>2. job' \in [Jobs -> JobRow]
    BY <1>2 DEF QueueTypeOK, JobRow, Open
  <2>. QED  BY <1>1, <2>1, <2>2 DEF QueueTypeOK
<1>4. WorkerFits'
  BY <1>1 DEF WorkerFits
<1>5. ASSUME NEW w \in Workers, NEW i \in DOMAIN worker[w].claimed
      PROVE  job'[worker[w].claimed[i].job] = job[worker[w].claimed[i].job]
  <2>. /\ worker[w].claimed[i].job \in Jobs
       /\ job[worker[w].claimed[i].job].status = "processing"
    BY Held
  <2>. QED  BY <1>2 DEF QueueTypeOK
<1>6. ClaimExclusive'
  BY <1>1, <1>5 DEF ClaimExclusive
<1>7. OutcomeEarned'
  BY <1>1, <1>2 DEF OutcomeEarned, QueueTypeOK, JobRow
<1>. QED  BY <1>3, <1>4, <1>6, <1>7 DEF QueueInv

\* The memory of a worker that has tried its first candidate.
LEMMA AfterTryTyped ==
  ASSUME QueueTypeOK, NEW w \in Workers, worker[w].candidates # <<>>,
         NEW held \in Seq(Ticket), AfterTry(w, held)
  PROVE  \E m \in Worker :
           /\ worker' = [worker EXCEPT ![w] = m]
           /\ m.claimed = held
           /\ m.pc \in {"idle", "claiming", "generate"}
           /\ m.pc = "claiming" => m.candidates # <<>>
           /\ m.pc = "generate" => held # <<>>
<1>. DEFINE rest == Tail(worker[w].candidates)
            m == IF rest # <<>> /\ Len(held) < BatchSize
                 THEN [pc |-> "claiming", candidates |-> rest, claimed |-> held]
                 ELSE IF held # <<>>
                 THEN [pc |-> "generate", candidates |-> <<>>, claimed |-> held]
                 ELSE Resting
<1>1. rest \in Seq(Ticket)
  <2>. worker[w].candidates \in Seq(Ticket)
    BY DEF QueueTypeOK, Worker
  <2>. QED  BY TailTyped
<1>2. m \in Worker /\ m.claimed = held
  <2>. HIDE DEF rest
  <2>. QED  BY <1>1 DEF Worker, Resting
<1>3. worker' = [worker EXCEPT ![w] = m]
  BY DEF AfterTry
<1>4. /\ m.pc \in {"idle", "claiming", "generate"}
      /\ m.pc = "claiming" => m.candidates # <<>>
      /\ m.pc = "generate" => held # <<>>
  <2>. HIDE DEF rest
  <2>. QED  BY DEF Resting
<1>. HIDE DEF m
<1>. QED  BY <1>2, <1>3, <1>4

\* The memory of a worker that is done with its first job.
LEMMA NextJobTyped ==
  ASSUME QueueTypeOK, NEW w \in Workers, worker[w].claimed # <<>>, NextJob(w)
  PROVE  \E m \in Worker :
           /\ worker' = [worker EXCEPT ![w] = m]
           /\ m.claimed = Tail(worker[w].claimed)
           /\ m.pc \in {"idle", "generate"}
           /\ m.pc = "generate" => m.claimed # <<>>
<1>. DEFINE rest == Tail(worker[w].claimed)
            m == IF rest = <<>> THEN Resting
                 ELSE [pc |-> "generate", candidates |-> <<>>, claimed |-> rest]
<1>1. rest \in Seq(Ticket)
  <2>. worker[w].claimed \in Seq(Ticket)
    BY DEF QueueTypeOK, Worker
  <2>. QED  BY TailTyped
<1>2. m \in Worker /\ m.claimed = rest
  <2>. HIDE DEF rest
  <2>. QED  BY <1>1 DEF Worker, Resting
<1>3. worker' = [worker EXCEPT ![w] = m]
  BY DEF NextJob
<1>4. m.pc \in {"idle", "generate"} /\ (m.pc = "generate" => m.claimed # <<>>)
  <2>. HIDE DEF rest
  <2>. QED  BY DEF Resting
<1>. HIDE DEF m
<1>. QED  BY <1>2, <1>3, <1>4

\* The memory of worker w is replaced: what QueueInv asks of the others'
\* stays, as labels are only added.
LEMMA OthersFit ==
  ASSUME QueueTypeOK, WorkerFits, NEW w \in Workers, NEW m \in Worker,
         worker' = [worker EXCEPT ![w] = m], labelled \subseteq labelled',
         m.pc = "claiming" => m.candidates # <<>>,
         m.pc \in {"generate", "complete", "fail"} => m.claimed # <<>>,
         m.pc = "complete" => m.claimed[1].job \in labelled'
  PROVE  WorkerFits' /\ worker' \in [Workers -> Worker] /\ worker'[w] = m
<1>. \A v \in Workers : worker'[v] = IF v = w THEN m ELSE worker[v]
  BY DEF QueueTypeOK
<1>. QED  BY DEF WorkerFits, QueueTypeOK

\* Polling, a miss and an outage change no row.
LEMMA TickMoves ==
  ASSUME QueueInv, NEW w \in Workers, Poll(w) \/ Miss(w) \/ Outage(w) PROVE QueueInv'
<1>. QueueTypeOK /\ WorkerFits /\ ClaimExclusive /\ OutcomeEarned
  BY DEF QueueInv
<1>. UNCHANGED <<job, line, labelled>>
  BY DEF Poll, Miss, Outage
<1>. worker[w].claimed \in Seq(Ticket) /\ worker[w] \in Worker
  BY DEF QueueTypeOK, Worker
<1>1. ASSUME NEW m \in Worker, worker' = [worker EXCEPT ![w] = m],
             m.claimed \in {worker[w].claimed, <<>>},
             m.pc \in {"idle", "claiming", "generate"},
             m.pc = "claiming" => m.candidates # <<>>,
             m.pc = "generate" => m.claimed # <<>>,
             outages' \in 0..MaxOutages
      PROVE  QueueInv'
  <2>1. WorkerFits' /\ worker' \in [Workers -> Worker]
    BY <1>1, OthersFit
  <2>2. ClaimExclusive'
    <3>1. \A i \in DOMAIN m.claimed :
            i + 0 \in DOMAIN worker[w].claimed /\ m.claimed[i] = worker[w].claimed[i + 0]
      <4>. \A i \in DOMAIN m.claimed : i \in Nat /\ m.claimed = worker[w].claimed
        BY <1>1
      <4>. QED  OBVIOUS
    <3>2. 0 \in {0, 1}
      OBVIOUS
    <3>. QED  BY <1>1, <3>1, <3>2, Released
  <2>. QED  BY <1>1, <2>1, <2>2 DEF QueueInv, QueueTypeOK, OutcomeEarned
<1>2. CASE Poll(w)
  <2>. DEFINE m == [pc |-> "claiming", candidates |-> Candidates, claimed |-> <<>>]
  <2>1. m \in Worker
    BY CandidatesTyped DEF Worker
  <2>2. worker' = [worker EXCEPT ![w] = m] /\ Candidates # <<>> /\ outages' = outages
    BY <1>2 DEF Poll
  <2>3. outages' \in 0..MaxOutages
    BY <2>2 DEF QueueTypeOK
  <2>. QED  BY <1>1, <2>1, <2>2, <2>3
<1>3. CASE Miss(w)
  <2>1. /\ worker[w].candidates # <<>>
        /\ AfterTry(w, worker[w].claimed)
        /\ outages' \in 0..MaxOutages
    BY <1>3 DEF Miss, WorkerFits, QueueTypeOK
  <2>. PICK m \in Worker : /\ worker' = [worker EXCEPT ![w] = m]
                           /\ m.claimed = worker[w].claimed
                           /\ m.pc \in {"idle", "claiming", "generate"}
                           /\ m.pc = "claiming" => m.candidates # <<>>
                           /\ m.pc = "generate" => worker[w].claimed # <<>>
    BY <2>1, AfterTryTyped
  <2>. QED  BY <1>1, <2>1
<1>4. CASE Outage(w)
  <2>1. Resting \in Worker
    BY DEF Resting, Worker
  <2>2. worker' = [worker EXCEPT ![w] = Resting] /\ outages' \in 0..MaxOutages
    BY <1>4, QueueAssumption DEF Outage, QueueTypeOK
  <2>3. Resting.pc = "idle" /\ Resting.claimed = <<>>
    BY DEF Resting
  <2>. QED  BY <1>1, <2>1, <2>2, <2>3
<1>. QED  BY <1>2, <1>3, <1>4

\* Generating a label, or failing to, moves a worker on with its jobs.
LEMMA GenerationMoves ==
  ASSUME QueueInv, NEW w \in Workers, Generate(w) \/ GenerateFails(w) PROVE QueueInv'
<1>. QueueTypeOK /\ WorkerFits /\ ClaimExclusive /\ OutcomeEarned
  BY DEF QueueInv
<1>. UNCHANGED <<job, line, outages>>
  BY DEF Generate, GenerateFails
<1>1. worker[w].claimed \in Seq(Ticket) /\ worker[w].claimed # <<>> /\ worker[w] \in Worker
  BY DEF Generate, GenerateFails, WorkerFits, QueueTypeOK, Worker
<1>2. Head(worker[w].claimed) = worker[w].claimed[1] /\ worker[w].claimed[1].job \in Jobs
  <2>. 1 \in DOMAIN worker[w].claimed /\ Head(worker[w].claimed) = worker[w].claimed[1]
    BY <1>1, TailTyped
  <2>. QED  BY Held
<1>. PICK pc \in {"complete", "fail"} :
       /\ GoTo(w, pc)
       /\ pc = "complete" => labelled' = labelled \cup {worker[w].claimed[1].job}
       /\ pc = "fail" => labelled' = labelled
  BY <1>2 DEF Generate, GenerateFails
<1>. DEFINE m == [worker[w] EXCEPT !.pc = pc]
<1>3. m \in Worker /\ m.claimed = worker[w].claimed /\ m.pc = pc
  BY <1>1 DEF Worker
<1>4. worker' = [worker EXCEPT ![w] = m]
  BY DEF GoTo
<1>5. labelled \subseteq labelled' /\ labelled' \subseteq Jobs
  BY <1>2 DEF QueueTypeOK
<1>. HIDE DEF m
<1>6. WorkerFits' /\ worker' \in [Workers -> Worker]
  BY <1>1, <1>3, <1>4, <1>5, OthersFit
<1>7. ClaimExclusive'
  <2>1. \A i \in DOMAIN m.claimed :
          i + 0 \in DOMAIN worker[w].claimed /\ m.claimed[i] = worker[w].claimed[i + 0]
    BY <1>1, <1>3
  <2>2. 0 \in {0, 1}
    OBVIOUS
  <2>. QED  BY <1>3, <1>4, <2>1, <2>2, Released
<1>. QED  BY <1>5, <1>6, <1>7 DEF QueueInv, QueueTypeOK, OutcomeEarned

\* A claim takes a job out of nobody's hands, and counts the attempt in the
\* row and in the ticket alike.
LEMMA ClaimTakes ==
  ASSUME QueueInv, NEW w \in Workers, Claim(w) PROVE QueueInv'
<1>. QueueTypeOK /\ WorkerFits /\ ClaimExclusive /\ OutcomeEarned
  BY DEF QueueInv
<1>. DEFINE t    == Head(worker[w].candidates)
            new  == [job |-> t.job, attempts |-> t.attempts + 1]
            old  == worker[w].claimed
            held == Append(old, new)
<1>1. worker[w].candidates # <<>> /\ worker[w].candidates \in Seq(Ticket) /\ old \in Seq(Ticket)
  BY DEF Claim, WorkerFits, QueueTypeOK, Worker
<1>2. t.job \in Jobs /\ t.attempts \in 0..MaxAttempts
  <2>. t \in Ticket
    BY <1>1, TailTyped
  <2>. QED  BY DEF Ticket
<1>3. /\ t.attempts < MaxAttempts /\ job[t.job].attempts = t.attempts
      /\ job[t.job].status \in Open
      /\ job' = [job EXCEPT ![t.job] = [status |-> "processing", attempts |-> t.attempts + 1]]
      /\ UNCHANGED <<labelled, outages>>
      /\ AfterTry(w, held)
  BY DEF Claim, Claimable
<1>4. \E i \in DOMAIN line : line' = RemoveAt(line, i)
  BY DEF Claim
<1>. HIDE DEF t
<1>5. t.attempts + 1 \in 0..MaxAttempts /\ new \in Ticket
  BY <1>2, <1>3, QueueAssumption DEF Ticket
<1>6. /\ held \in Seq(Ticket) /\ Len(held) = Len(old) + 1 /\ held # <<>>
      /\ held[Len(old) + 1] = new
      /\ \A i \in 1 .. Len(old) : held[i] = old[i]
  BY <1>1, <1>5, AppendTyped
<1>7. /\ DOMAIN held = 1 .. (Len(old) + 1) /\ DOMAIN old = 1 .. Len(old) /\ Len(old) \in Nat
      /\ new.job = t.job /\ new.attempts = t.attempts + 1
  BY <1>1, <1>6
<1>. HIDE DEF new, held
<1>. PICK m \in Worker : /\ worker' = [worker EXCEPT ![w] = m]
                         /\ m.claimed = held
                         /\ m.pc \in {"idle", "claiming", "generate"}
                         /\ m.pc = "claiming" => m.candidates # <<>>
                         /\ m.pc = "generate" => held # <<>>
  BY <1>1, <1>3, <1>6, AfterTryTyped
<1>8. WorkerFits' /\ worker' \in [Workers -> Worker]
  BY <1>3, OthersFit
<1>9. job' \in [Jobs -> JobRow] /\ line' \in Seq(Jobs)
  BY <1>2, <1>3, <1>4, <1>5, RemoveAtTyped DEF QueueTypeOK, JobRow
<1>10. \A v \in Workers : worker'[v].claimed = IF v = w THEN held ELSE worker[v].claimed
  BY DEF QueueTypeOK
<1>11. ASSUME NEW v \in Workers, NEW i \in DOMAIN worker[v].claimed
       PROVE  /\ worker[v].claimed[i].job # t.job
              /\ job'[worker[v].claimed[i].job] = job[worker[v].claimed[i].job]
  <2>1. /\ worker[v].claimed[i].job \in Jobs
        /\ job[worker[v].claimed[i].job].status = "processing"
    BY Held
  <2>2. worker[v].claimed[i].job # t.job
    BY <2>1, <1>3 DEF Open
  <2>. QED  BY <1>3, <2>1, <2>2 DEF QueueTypeOK
<1>12. ASSUME NEW v \in Workers, NEW i \in DOMAIN worker'[v].claimed
       PROVE  \/ /\ v = w /\ i = Len(old) + 1
                 /\ worker'[v].claimed[i] = new
              \/ /\ i \in DOMAIN worker[v].claimed
                 /\ worker'[v].claimed[i] = worker[v].claimed[i]
                 /\ worker'[v].claimed[i].job # t.job
  <2>1. CASE v # w
    BY <1>10, <1>11, <1>12, <2>1
  <2>2. CASE v = w
    BY <1>6, <1>7, <1>10, <1>11, <1>12, <2>2
  <2>. QED  BY <2>1, <2>2
<1>13. ASSUME NEW v \in Workers, NEW i \in DOMAIN worker'[v].claimed
       PROVE  job'[worker'[v].claimed[i].job]
                = [status |-> "processing", attempts |-> worker'[v].claimed[i].attempts]
  <2>1. CASE worker'[v].claimed[i] = new
    BY <1>2, <1>3, <1>7, <2>1 DEF QueueTypeOK
  <2>2. CASE i \in DOMAIN worker[v].claimed /\ worker'[v].claimed[i] = worker[v].claimed[i]
    <3>1. job[worker[v].claimed[i].job]
            = [status |-> "processing", attempts |-> worker[v].claimed[i].attempts]
      BY <2>2, Held
    <3>. QED  BY <1>11, <2>2, <3>1
  <2>. QED  BY <1>12, <2>1, <2>2
<1>14. ASSUME NEW u \in Workers, NEW v \in Workers, NEW i \in DOMAIN worker'[u].claimed,
              NEW k \in DOMAIN worker'[v].claimed,
              worker'[u].claimed[i].job = worker'[v].claimed[k].job
       PROVE  u = v /\ i = k
  <2>1. CASE worker'[u].claimed[i].job = t.job
    BY <1>12, <1>14, <2>1
  <2>2. CASE worker'[u].claimed[i].job # t.job
    <3>1. /\ i \in DOMAIN worker[u].claimed /\ k \in DOMAIN worker[v].claimed
          /\ worker[u].claimed[i].job = worker[v].claimed[k].job
      BY <1>7, <1>12, <1>14, <2>2
    <3>. QED  BY <3>1, HeldOnce
  <2>. QED  BY <2>1, <2>2
<1>15. ClaimExclusive'
  BY <1>13, <1>14 DEF ClaimExclusive
<1>16. OutcomeEarned'
  BY <1>3 DEF OutcomeEarned, QueueTypeOK
<1>. QED  BY <1>3, <1>8, <1>9, <1>15, <1>16 DEF QueueInv, QueueTypeOK

\* Marking a job ends the worker's hold of it, and is earned.
LEMMA MarkEarned ==
  ASSUME QueueInv, NEW w \in Workers, MarkJobCompleted(w) \/ MarkJobFailure(w) PROVE QueueInv'
<1>. QueueTypeOK /\ WorkerFits /\ ClaimExclusive /\ OutcomeEarned
  BY DEF QueueInv
<1>. DEFINE old == worker[w].claimed
            t   == old[1]
<1>1. old \in Seq(Ticket) /\ old # <<>>
  BY DEF MarkJobCompleted, MarkJobFailure, WorkerFits, QueueTypeOK, Worker
<1>2. /\ Head(old) = t /\ 1 \in DOMAIN old
      /\ \A i \in DOMAIN Tail(old) : i + 1 \in DOMAIN old /\ Tail(old)[i] = old[i + 1]
  BY <1>1, TailTyped
<1>3. /\ t.job \in Jobs /\ t.attempts \in 0..MaxAttempts
      /\ job[t.job] = [status |-> "processing", attempts |-> t.attempts]
  BY <1>2, Held
<1>. PICK s \in {"pending", "failed", "completed"} :
       /\ job' = [job EXCEPT ![t.job].status = s]
       /\ s = "completed" => t.job \in labelled
       /\ s = "failed" => t.attempts >= MaxAttempts
       /\ line' \in {line, Append(line, t.job)}
       /\ UNCHANGED <<labelled, outages>>
       /\ NextJob(w)
  <2>1. CASE MarkJobCompleted(w)
    BY <1>2, <2>1 DEF MarkJobCompleted, WorkerFits
  <2>2. CASE MarkJobFailure(w)
    BY <1>2, <2>2 DEF MarkJobFailure
  <2>. QED  BY <2>1, <2>2
<1>. HIDE DEF t
<1>4. line' \in Seq(Jobs)
  BY <1>3, AppendTyped DEF QueueTypeOK
<1>5. job' \in [Jobs -> JobRow]
  BY <1>3 DEF QueueTypeOK, JobRow, Open
<1>. PICK m \in Worker : /\ worker' = [worker EXCEPT ![w] = m]
                         /\ m.claimed = Tail(old)
                         /\ m.pc \in {"idle", "generate"}
                         /\ m.pc = "generate" => m.claimed # <<>>
  BY <1>1, NextJobTyped
<1>6. WorkerFits' /\ worker' \in [Workers -> Worker]
  BY OthersFit
<1>7. ASSUME NEW v \in Workers, NEW i \in DOMAIN worker[v].claimed, ~(v = w /\ i = 1)
      PROVE  job'[worker[v].claimed[i].job] = job[worker[v].claimed[i].job]
  <2>1. worker[v].claimed[i].job # t.job
    BY <1>2, <1>7, HeldOnce DEF t
  <2>2. worker[v].claimed[i].job \in Jobs
    BY Held
  <2>. QED  BY <2>1, <2>2 DEF QueueTypeOK
<1>8. ClaimExclusive'
  <2>1. 1 \in {0, 1}
    OBVIOUS
  <2>2. \A i \in DOMAIN m.claimed : i + 1 \in DOMAIN old /\ m.claimed[i] = old[i + 1]
    BY <1>2
  <2>3. \A v \in Workers : \A i \in DOMAIN worker[v].claimed :
          \/ v = w /\ (i = 1 \/ m.claimed = <<>>)
          \/ job'[worker[v].claimed[i].job] = job[worker[v].claimed[i].job]
    BY <1>7
  <2>. QED  BY <2>1, <2>2, <2>3, Released
<1>9. OutcomeEarned'
  <2>. SUFFICES ASSUME NEW j \in Jobs
                PROVE  /\ job'[j].status = "completed" => j \in labelled
                       /\ job'[j].status = "failed" => job'[j].attempts = MaxAttempts
    BY DEF OutcomeEarned
  <2>1. CASE j = t.job
    BY <1>3, <2>1, QueueAssumption DEF QueueTypeOK, JobRow
  <2>2. CASE j # t.job
    BY <2>2 DEF OutcomeEarned, QueueTypeOK
  <2>. QED  BY <2>1, <2>2
<1>. QED  BY <1>4, <1>5, <1>6, <1>8, <1>9 DEF QueueInv, QueueTypeOK

\* Every step keeps the invariant.
LEMMA QueueInvStep == ASSUME QueueInv, [QueueNext]_queueVars PROVE QueueInv'
<1>1. ASSUME NEW j \in Jobs, Enqueue(j) \/ Mature(j) PROVE QueueInv'
  BY <1>1, JobArrives
<1>2. ASSUME NEW w \in Workers, WorkerStep(w) \/ Outage(w) PROVE QueueInv'
  BY <1>2, TickMoves, GenerationMoves, ClaimTakes, MarkEarned DEF WorkerStep
<1>3. CASE UNCHANGED queueVars
  BY <1>3 DEF queueVars, QueueInv, QueueTypeOK, WorkerFits, ClaimExclusive, OutcomeEarned
<1>. QED  BY <1>1, <1>2, <1>3 DEF QueueNext

----------------------------------------------------------------------------
\* Whatever overlaps and whatever is cut short: rows, tickets and outcomes
\* agree.
THEOREM QueueInvariant == QueueSpec => []QueueInv
<1>1. QueueInit => QueueInv
  BY QueueInitInv
<1>2. QueueInv /\ [QueueNext]_queueVars => QueueInv'
  BY QueueInvStep
<1>. QED  BY <1>1, <1>2, PTL DEF QueueSpec

\* The rows, the line and the workers' memories have their types.
THEOREM QueueTyping == QueueSpec => []QueueTypeOK
<1>1. QueueInv => QueueTypeOK
  BY DEF QueueInv
<1>. QED  BY <1>1, QueueInvariant, PTL

\* A job is in the hands of one worker at most, once, with the row's count of
\* its attempts.
THEOREM ClaimsExclusive == QueueSpec => []ClaimExclusive
<1>1. QueueInv => ClaimExclusive
  BY DEF QueueInv
<1>. QED  BY <1>1, QueueInvariant, PTL

\* Completed jobs have labels; those given up had every attempt.
THEOREM OutcomesEarned == QueueSpec => []OutcomeEarned
<1>1. QueueInv => OutcomeEarned
  BY DEF QueueInv
<1>. QED  BY <1>1, QueueInvariant, PTL

\* A finished job is neither held, so no mark reaches it, nor claimable.
LEMMA FinishedStep ==
  ASSUME QueueInv, [QueueNext]_queueVars, NEW j \in Jobs, Finished(j) PROVE job'[j] = job[j]
<1>. QueueTypeOK /\ WorkerFits /\ ClaimExclusive /\ OutcomeEarned
  BY DEF QueueInv
<1>1. job[j].status \in {"completed", "failed"} /\ job[j].status # "processing"
  BY DEF Finished
<1>2. ASSUME NEW w \in Workers, Claim(w) PROVE job'[j] = job[j]
  <2>. DEFINE t == Head(worker[w].candidates)
  <2>1. /\ t.attempts < MaxAttempts /\ job[t.job].attempts = t.attempts
        /\ job[t.job].status \in Open
        /\ job' = [job EXCEPT ![t.job] = [status |-> "processing", attempts |-> t.attempts + 1]]
    BY <1>2 DEF Claim, Claimable
  <2>. HIDE DEF t
  <2>2. j # t.job
    BY <1>1, <2>1, QueueAssumption DEF Open, OutcomeEarned
  <2>. QED  BY <2>1, <2>2 DEF QueueTypeOK
<1>3. ASSUME NEW w \in Workers, MarkJobCompleted(w) \/ MarkJobFailure(w) PROVE job'[j] = job[j]
  <2>1. worker[w].claimed \in Seq(Ticket) /\ worker[w].claimed # <<>>
    BY <1>3 DEF MarkJobCompleted, MarkJobFailure, WorkerFits, QueueTypeOK, Worker
  <2>2. Head(worker[w].claimed) = worker[w].claimed[1] /\ 1 \in DOMAIN worker[w].claimed
    BY <2>1, TailTyped
  <2>3. job[Head(worker[w].claimed).job].status = "processing"
    BY <2>2, Held
  <2>. QED  BY <1>1, <1>3, <2>3 DEF MarkJobCompleted, MarkJobFailure, QueueTypeOK
<1>4. ASSUME NEW i \in Jobs, Enqueue(i) \/ Mature(i) PROVE job'[j] = job[j]
  BY <1>1, <1>4 DEF Enqueue, Mature, QueueTypeOK
<1>5. CASE UNCHANGED job
  BY <1>5
<1>. QED  BY <1>2, <1>3, <1>4, <1>5
          DEF QueueNext, WorkerStep, Poll, Miss, Generate, GenerateFails, Outage, queueVars

\* A job that is completed or given up never changes again.
THEOREM FinishedForGood == QueueSpec => FinishedStays
<1>. DEFINE Stays == \A j \in Jobs : Finished(j) => job'[j] = job[j]
<1>1. QueueInv /\ [QueueNext]_queueVars => [Stays]_queueVars
  BY FinishedStep
<1>. QED  BY <1>1, QueueInvariant, PTL DEF QueueSpec, FinishedStays

----------------------------------------------------------------------------
(* Jobs that nobody will finish.                                           *)

\* Job j is in the hands of a worker.
HeldJob(j) == \E w \in Workers : \E i \in DOMAIN worker[w].claimed : worker[w].claimed[i].job = j

\* A worker between two ticks holds nothing.
RestingEmpty == \A w \in Workers : worker[w].pc = "idle" => worker[w].claimed = <<>>

\* What a step may do to the tickets in hand: worker w goes on with m; a job
\* newly held was open, and one no longer held is marked, or the tick ended.
LEMMA HandsChange ==
  ASSUME QueueInv, RestingEmpty, NEW w \in Workers, WorkerStep(w) \/ Outage(w)
  PROVE  \E m \in Worker :
           /\ worker' = [worker EXCEPT ![w] = m]
           /\ m.pc = "idle" => m.claimed = <<>>
           /\ \A i \in DOMAIN m.claimed :
                \/ job[m.claimed[i].job].status \in Open
                \/ \E k \in DOMAIN worker[w].claimed : worker[w].claimed[k].job = m.claimed[i].job
           /\ outages' = outages =>
                \A k \in DOMAIN worker[w].claimed :
                  \/ job'[worker[w].claimed[k].job].status # "processing"
                  \/ \E i \in DOMAIN m.claimed : worker[w].claimed[k].job = m.claimed[i].job
           /\ \A j \in Jobs : job'[j].status = "processing" /\ job[j].status # "processing" =>
                \E i \in DOMAIN m.claimed : m.claimed[i].job = j
<1>. QueueTypeOK /\ WorkerFits /\ ClaimExclusive /\ OutcomeEarned
  BY DEF QueueInv
<1>. DEFINE old == worker[w].claimed
<1>1. old \in Seq(Ticket) /\ worker[w] \in Worker /\ worker[w].candidates \in Seq(Ticket)
  BY DEF QueueTypeOK, Worker
<1>2. CASE Poll(w)
  <2>. DEFINE m == [pc |-> "claiming", candidates |-> Candidates, claimed |-> <<>>]
  <2>1. m \in Worker
    BY CandidatesTyped DEF Worker
  <2>2. worker' = [worker EXCEPT ![w] = m] /\ job' = job /\ old = <<>>
    BY <1>2 DEF Poll, RestingEmpty
  <2>3. m.pc # "idle" /\ m.claimed = <<>>
    OBVIOUS
  <2>. HIDE DEF m
  <2>. QED  BY <2>1, <2>2, <2>3
<1>3. CASE Miss(w)
  <2>1. worker[w].candidates # <<>> /\ AfterTry(w, old) /\ job' = job
    BY <1>3 DEF Miss, WorkerFits
  <2>. DEFINE rest == Tail(worker[w].candidates)
              m == IF rest # <<>> /\ Len(old) < BatchSize
                   THEN [pc |-> "claiming", candidates |-> rest, claimed |-> old]
                   ELSE IF old # <<>>
                   THEN [pc |-> "generate", candidates |-> <<>>, claimed |-> old]
                   ELSE Resting
  <2>2. worker' = [worker EXCEPT ![w] = m]
    BY <2>1 DEF AfterTry
  <2>3. rest \in Seq(Ticket)
    BY <1>1, <2>1, TailTyped
  <2>4. m \in Worker /\ m.claimed = old /\ (m.pc = "idle" => old = <<>>)
    <3>. HIDE DEF rest
    <3>. QED  BY <1>1, <2>3 DEF Worker, Resting
  <2>. HIDE DEF m
  <2>. QED  BY <2>1, <2>2, <2>4
<1>4. CASE Claim(w)
  <2>. DEFINE t    == Head(worker[w].candidates)
              new  == [job |-> t.job, attempts |-> t.attempts + 1]
              held == Append(old, new)
              rest == Tail(worker[w].candidates)
              m == IF rest # <<>> /\ Len(held) < BatchSize
                   THEN [pc |-> "claiming", candidates |-> rest, claimed |-> held]
                   ELSE IF held # <<>>
                   THEN [pc |-> "generate", candidates |-> <<>>, claimed |-> held]
                   ELSE Resting
  <2>1. /\ worker[w].candidates # <<>> /\ AfterTry(w, held)
        /\ job[t.job].status \in Open /\ t.attempts < MaxAttempts
        /\ job' = [job EXCEPT ![t.job] = [status |-> "processing", attempts |-> t.attempts + 1]]
    BY <1>4 DEF Claim, Claimable, WorkerFits
  <2>2. worker' = [worker EXCEPT ![w] = m]
    BY <2>1 DEF AfterTry
  <2>3. rest \in Seq(Ticket) /\ t \in Ticket
    BY <1>1, <2>1, TailTyped
  <2>. HIDE DEF t, rest
  <2>4. new \in Ticket /\ new.job = t.job /\ t.job \in Jobs
    BY <2>1, <2>3, QueueAssumption DEF Ticket
  <2>. HIDE DEF new
  <2>5. /\ held \in Seq(Ticket) /\ held # <<>> /\ held[Len(old) + 1] = new
        /\ DOMAIN held = 1 .. (Len(old) + 1) /\ DOMAIN old = 1 .. Len(old) /\ Len(old) \in Nat
        /\ \A i \in 1 .. Len(old) : held[i] = old[i]
    BY <1>1, <2>4, AppendTyped
  <2>. HIDE DEF held
  <2>6. m \in Worker /\ m.claimed = held /\ m.pc # "idle"
    BY <2>3, <2>5 DEF Worker
  <2>. HIDE DEF m
  <2>7. \A i \in DOMAIN m.claimed :
          \/ job[m.claimed[i].job].status \in Open
          \/ \E k \in DOMAIN old : old[k].job = m.claimed[i].job
    <3>. TAKE i \in DOMAIN m.claimed
    <3>1. CASE i = Len(old) + 1
      BY <2>1, <2>4, <2>5, <2>6, <3>1
    <3>2. CASE i # Len(old) + 1
      <4>. i \in DOMAIN old /\ m.claimed[i] = old[i]
        BY <2>5, <2>6, <3>2
      <4>. QED  OBVIOUS
    <3>. QED  BY <3>1, <3>2
  <2>8. \A k \in DOMAIN old : k \in DOMAIN m.claimed /\ m.claimed[k] = old[k]
    BY <2>5, <2>6
  <2>9. \A j \in Jobs : job'[j].status = "processing" /\ job[j].status # "processing" =>
          \E i \in DOMAIN m.claimed : m.claimed[i].job = j
    <3>. TAKE j \in Jobs
    <3>. HAVE job'[j].status = "processing" /\ job[j].status # "processing"
    <3>1. j = t.job
      BY <2>1 DEF QueueTypeOK
    <3>2. Len(old) + 1 \in DOMAIN m.claimed
      BY <2>5, <2>6
    <3>. QED  BY <2>4, <2>5, <2>6, <3>1, <3>2
  <2>. QED  BY <2>2, <2>6, <2>7, <2>8, <2>9
<1>5. CASE Generate(w) \/ GenerateFails(w)
  <2>. PICK pc \in {"complete", "fail"} : GoTo(w, pc)
    BY <1>5 DEF Generate, GenerateFails
  <2>. DEFINE m == [worker[w] EXCEPT !.pc = pc]
  <2>1. m \in Worker /\ m.claimed = old /\ m.pc # "idle"
    BY <1>1 DEF Worker
  <2>2. worker' = [worker EXCEPT ![w] = m] /\ job' = job
    BY <1>5 DEF GoTo, Generate, GenerateFails
  <2>. HIDE DEF m
  <2>. QED  BY <2>1, <2>2
<1>6. CASE MarkJobCompleted(w) \/ MarkJobFailure(w)
  <2>1. old # <<>> /\ NextJob(w)
    BY <1>6 DEF MarkJobCompleted, MarkJobFailure, WorkerFits
  <2>. DEFINE rest == Tail(old)
              m == IF rest = <<>> THEN Resting
                   ELSE [pc |-> "generate", candidates |-> <<>>, claimed |-> rest]
  <2>2. worker' = [worker EXCEPT ![w] = m]
    BY <2>1 DEF NextJob
  <2>3. /\ Head(old) = old[1] /\ rest \in Seq(Ticket)
        /\ \A i \in DOMAIN rest : i + 1 \in DOMAIN old /\ rest[i] = old[i + 1]
    BY <1>1, <2>1, TailTyped
  <2>4. \A k \in DOMAIN old : k = 1 \/ (k - 1 \in DOMAIN rest /\ rest[k - 1] = old[k])
    <3>1. Len(rest) = Len(old) - 1 /\ Len(old) \in Nat /\ DOMAIN old = 1 .. Len(old)
      BY <1>1, <2>1, HeadTailProperties
    <3>2. \A k \in DOMAIN old : k # 1 => k - 1 \in DOMAIN rest /\ (k - 1) + 1 = k
      <4>. HIDE DEF rest
      <4>. QED  BY <2>3, <3>1
    <3>. QED  BY <2>3, <3>2
  <2>5. \E s \in {"pending", "failed", "completed"} : job' = [job EXCEPT ![old[1].job].status = s]
    BY <1>6, <2>3 DEF MarkJobCompleted, MarkJobFailure
  <2>6. 1 \in DOMAIN old /\ old[1].job \in Jobs
    BY <1>1, <2>1, TailTyped, Held
  <2>. HIDE DEF rest
  <2>7. m \in Worker /\ m.claimed = rest /\ (m.pc = "idle" => rest = <<>>)
    BY <2>3 DEF Worker, Resting
  <2>. HIDE DEF m
  <2>8. job'[old[1].job].status # "processing"
    BY <2>5, <2>6 DEF QueueTypeOK, JobRow
  <2>9. \A k \in DOMAIN old : \/ job'[old[k].job].status # "processing"
                              \/ \E i \in DOMAIN m.claimed : old[k].job = m.claimed[i].job
    BY <2>4, <2>7, <2>8
  <2>10. \A j \in Jobs : job'[j].status = "processing" => job[j].status = "processing"
    BY <2>5 DEF QueueTypeOK, JobRow
  <2>. QED  BY <2>2, <2>3, <2>7, <2>9, <2>10
<1>7. CASE Outage(w)
  <2>. DEFINE m == Resting
  <2>1. worker' = [worker EXCEPT ![w] = m] /\ job' = job /\ outages' # outages
    BY <1>7 DEF Outage, QueueTypeOK
  <2>2. m \in Worker /\ m.claimed = <<>>
    BY DEF Worker, Resting
  <2>3. DOMAIN m.claimed = {}
    BY <2>2
  <2>. HIDE DEF m
  <2>. QED  BY <2>1, <2>2, <2>3
<1>. QED  BY <1>2, <1>3, <1>4, <1>5, <1>6, <1>7 DEF WorkerStep


\* A worker that rests has nothing in hand, and a job is lost sight of only
\* after an outage.
StrandedInv == RestingEmpty /\ StrandedByOutage

\* No job is being processed at first.
LEMMA StrandedInit == ASSUME QueueInit PROVE StrandedInv
BY DEF QueueInit, Resting, StrandedInv, RestingEmpty, StrandedByOutage, Stranded

\* Every step keeps sight of the jobs in hand, unless it is an outage.
LEMMA StrandedNext ==
  ASSUME QueueInv, StrandedInv, [QueueNext]_queueVars PROVE StrandedInv'
<1>. QueueTypeOK /\ RestingEmpty /\ StrandedByOutage
  BY DEF QueueInv, StrandedInv
<1>1. \A j \in Jobs : job[j].status = "processing" => outages > 0 \/ HeldJob(j)
  BY DEF StrandedByOutage, Stranded, HeldJob
<1>2. CASE worker' = worker /\ outages' = outages
            /\ \A j \in Jobs : job'[j].status = "processing" => job[j].status = "processing"
  <2>1. RestingEmpty'
    BY <1>2 DEF RestingEmpty
  <2>2. StrandedByOutage'
    BY <1>2 DEF StrandedByOutage, Stranded
  <2>. QED  BY <2>1, <2>2 DEF StrandedInv
<1>3. ASSUME NEW w \in Workers, WorkerStep(w) \/ Outage(w) PROVE StrandedInv'
  <2>. PICK m \in Worker :
         /\ worker' = [worker EXCEPT ![w] = m]
         /\ m.pc = "idle" => m.claimed = <<>>
         /\ outages' = outages =>
              \A k \in DOMAIN worker[w].claimed :
                \/ job'[worker[w].claimed[k].job].status # "processing"
                \/ \E i \in DOMAIN m.claimed : worker[w].claimed[k].job = m.claimed[i].job
         /\ \A j \in Jobs : job'[j].status = "processing" /\ job[j].status # "processing" =>
              \E i \in DOMAIN m.claimed : m.claimed[i].job = j
    BY <1>3, HandsChange
  <2>1. \A v \in Workers : worker'[v] = IF v = w THEN m ELSE worker[v]
    BY DEF QueueTypeOK
  <2>2. RestingEmpty'
    BY <2>1 DEF RestingEmpty
  <2>3. ASSUME NEW j \in Jobs, Stranded(j)' PROVE outages' > 0
    <3>1. job'[j].status = "processing" /\ ~ HeldJob(j)'
      BY <2>3 DEF Stranded, HeldJob
    <3>2. \A v \in Workers : \A i \in DOMAIN worker'[v].claimed : worker'[v].claimed[i].job # j
      BY <3>1 DEF HeldJob
    <3>3. job[j].status = "processing"
      BY <2>1, <3>1, <3>2
    <3>4. CASE outages' = outages
      <4>1. ASSUME HeldJob(j) PROVE FALSE
        <5>. PICK v \in Workers : \E i \in DOMAIN worker[v].claimed : worker[v].claimed[i].job = j
          BY <4>1 DEF HeldJob
        <5>1. v = w
          BY <2>1, <3>2
        <5>. QED  BY <2>1, <3>1, <3>2, <3>4, <5>1
      <4>. QED  BY <1>1, <3>3, <3>4, <4>1
    <3>5. CASE outages' # outages
      <4>. outages \in Nat /\ outages' = outages + 1
        BY <1>3, <3>5, QueueAssumption
        DEF WorkerStep, Poll, Claim, Miss, Generate, GenerateFails, MarkJobCompleted,
            MarkJobFailure, Outage, QueueTypeOK
      <4>. QED  OBVIOUS
    <3>. QED  BY <3>4, <3>5
  <2>. QED  BY <2>2, <2>3 DEF StrandedInv, StrandedByOutage
<1>4. ASSUME NEW j \in Jobs, Enqueue(j) \/ Mature(j) PROVE StrandedInv'
  BY <1>2, <1>4 DEF Enqueue, Mature, QueueTypeOK, JobRow
<1>5. CASE UNCHANGED queueVars
  BY <1>2, <1>5 DEF queueVars
<1>. QED  BY <1>3, <1>4, <1>5 DEF QueueNext

\* The invariant, beside that of the tickets.
LEMMA StrandedInvariant == QueueSpec => [](QueueInv /\ StrandedInv)
<1>1. QueueInit => StrandedInv
  BY StrandedInit
<1>2. QueueInv /\ StrandedInv /\ [QueueNext]_queueVars => StrandedInv'
  BY StrandedNext
<1>. QED  BY <1>1, <1>2, QueueInvariant, PTL DEF QueueSpec

\* No claim, miss or mark loses sight of a job: only a tick cut short does.
THEOREM OnlyOutagesStrand == QueueSpec => []StrandedByOutage
<1>1. StrandedInv => StrandedByOutage
  BY DEF StrandedInv
<1>. QED  BY <1>1, StrandedInvariant, PTL

\* A job that nobody has and no claim accepts is so after the next step.
LEMMA StrandedStep ==
  ASSUME QueueInv, RestingEmpty, [QueueNext]_queueVars, NEW j \in Jobs, Stranded(j)
  PROVE  Stranded(j)'
<1>. QueueTypeOK /\ ClaimExclusive /\ WorkerFits
  BY DEF QueueInv
<1>. job[j].status = "processing" /\ ~ HeldJob(j)
  BY DEF Stranded, HeldJob
<1>1. ASSUME NEW w \in Workers, WorkerStep(w) \/ Outage(w) PROVE Stranded(j)'
  <2>. PICK m \in Worker :
         /\ worker' = [worker EXCEPT ![w] = m]
         /\ \A i \in DOMAIN m.claimed :
              \/ job[m.claimed[i].job].status \in Open
              \/ \E k \in DOMAIN worker[w].claimed : worker[w].claimed[k].job = m.claimed[i].job
    BY <1>1, HandsChange
  <2>1. \A v \in Workers : worker'[v] = IF v = w THEN m ELSE worker[v]
    BY DEF QueueTypeOK
  <2>2. \A i \in DOMAIN m.claimed : m.claimed[i].job # j
    BY DEF HeldJob, Open
  <2>3. \A v \in Workers : \A i \in DOMAIN worker'[v].claimed : worker'[v].claimed[i].job # j
    BY <2>1, <2>2 DEF HeldJob
  <2>4. job'[j].status = "processing"
    <3>1. CASE Claim(w)
      BY <3>1 DEF Claim, QueueTypeOK
    <3>2. CASE MarkJobCompleted(w) \/ MarkJobFailure(w)
      <4>1. worker[w].claimed \in Seq(Ticket) /\ worker[w].claimed # <<>>
        BY <3>2 DEF MarkJobCompleted, MarkJobFailure, WorkerFits, QueueTypeOK, Worker
      <4>2. Head(worker[w].claimed) = worker[w].claimed[1] /\ 1 \in DOMAIN worker[w].claimed
        BY <4>1, TailTyped
      <4>3. Head(worker[w].claimed).job # j
        BY <4>2 DEF HeldJob
      <4>. QED  BY <3>2, <4>3 DEF MarkJobCompleted, MarkJobFailure, QueueTypeOK
    <3>3. CASE job' = job
      BY <3>3
    <3>. QED  BY <1>1, <3>1, <3>2, <3>3
              DEF WorkerStep, Poll, Miss, Generate, GenerateFails, Outage
  <2>. QED  BY <2>3, <2>4 DEF Stranded
<1>2. ASSUME NEW i \in Jobs, Enqueue(i) \/ Mature(i) PROVE Stranded(j)'
  <2>. worker' = worker /\ job'[j] = job[j]
    BY <1>2 DEF Enqueue, Mature, QueueTypeOK
  <2>. QED  BY DEF Stranded
<1>3. CASE UNCHANGED queueVars
  BY <1>3 DEF queueVars, Stranded
<1>. QED  BY <1>1, <1>2, <1>3 DEF QueueNext

\* A stranded job is stranded for ever, whatever the number of workers that
\* poll and however they are restarted: what label_stranded shows of one job.
THEOREM StrandedForGood ==
  QueueSpec => [][\A j \in Jobs : Stranded(j) => Stranded(j)']_queueVars
<1>. DEFINE Stays == \A j \in Jobs : Stranded(j) => Stranded(j)'
<1>1. QueueInv /\ StrandedInv /\ [QueueNext]_queueVars => [Stays]_queueVars
  BY StrandedStep DEF StrandedInv
<1>. QED  BY <1>1, StrandedInvariant, PTL DEF QueueSpec


----------------------------------------------------------------------------
(* A line that no worker gets past.                                        *)

\* The first jobs in line, as many as a window shows, are out of attempts,
\* and so is every job that a worker still has to try.
Jammed ==
  /\ 2 * BatchSize <= Len(line)
  /\ \A i \in 1 .. 2 * BatchSize : job[line[i]].status = "failed"
  /\ \A w \in Workers : \A i \in DOMAIN worker[w].candidates :
       job[worker[w].candidates[i].job].status = "failed"

\* What a poll finds is in the window.
LEMMA CandidateInWindow ==
  ASSUME QueueTypeOK, NEW i \in DOMAIN Candidates
  PROVE  \E k \in 1 .. 2 * BatchSize : k <= Len(line) /\ Candidates[i].job = line[k]
<1>. DEFINE n == IF Len(line) < 2 * BatchSize THEN Len(line) ELSE 2 * BatchSize
            window == SubSeq(line, 1, n)
<1>1. n \in Nat /\ n <= Len(line) /\ n <= 2 * BatchSize
  BY QueueAssumption DEF QueueTypeOK
<1>2. DOMAIN window = 1 .. n /\ \A k \in 1 .. n : window[k] = line[k]
  <2>. \A k \in 1 .. n : line[k] \in Jobs
    BY <1>1 DEF QueueTypeOK
  <2>. HIDE DEF n
  <2>. QED  BY <1>1, SubSeqProperties DEF QueueTypeOK
<1>3. Candidates = [k \in DOMAIN window |-> [job |-> window[k], attempts |-> job[window[k]].attempts]]
  BY DEF Candidates
<1>. HIDE DEF window, n
<1>4. i \in 1 .. n /\ Candidates[i].job = line[i]
  BY <1>2, <1>3
<1>. QED  BY <1>1, <1>4, QueueAssumption

\* The candidates that remain after one was tried are among those before.
LEMMA RestOfCandidates ==
  ASSUME QueueTypeOK, NEW w \in Workers, worker[w].candidates # <<>>, NEW held,
         AfterTry(w, held)
  PROVE  \A v \in Workers : \A i \in DOMAIN worker'[v].candidates :
           \E k \in DOMAIN worker[v].candidates : worker'[v].candidates[i] = worker[v].candidates[k]
<1>. DEFINE rest == Tail(worker[w].candidates)
            m == IF rest # <<>> /\ Len(held) < BatchSize
                 THEN [pc |-> "claiming", candidates |-> rest, claimed |-> held]
                 ELSE IF held # <<>>
                 THEN [pc |-> "generate", candidates |-> <<>>, claimed |-> held]
                 ELSE Resting
<1>1. worker' = [worker EXCEPT ![w] = m]
  BY DEF AfterTry
<1>2. \A i \in DOMAIN rest : i + 1 \in DOMAIN worker[w].candidates
                             /\ rest[i] = worker[w].candidates[i + 1]
  <2>. worker[w].candidates \in Seq(Ticket)
    BY DEF QueueTypeOK, Worker
  <2>. QED  BY TailTyped
<1>. HIDE DEF rest
<1>3. m.candidates = rest \/ m.candidates = <<>>
  BY DEF Resting
<1>4. DOMAIN <<>> = {}
  OBVIOUS
<1>. HIDE DEF m
<1>5. \A v \in Workers : worker'[v] = IF v = w THEN m ELSE worker[v]
  BY <1>1 DEF QueueTypeOK
<1>6. \A i \in DOMAIN m.candidates :
        \E k \in DOMAIN worker[w].candidates : m.candidates[i] = worker[w].candidates[k]
  BY <1>2, <1>3, <1>4
<1>. QED  BY <1>5, <1>6

\* In a jam, a step that leaves the line or adds to its end, and adds no
\* candidate but from the window, stays in it.
LEMMA JamHolds ==
  ASSUME QueueTypeOK, Jammed,
         \A j \in Jobs : job[j].status = "failed" => job'[j] = job[j],
         line' = line \/ \E j \in Jobs : line' = Append(line, j),
         \A v \in Workers : \A i \in DOMAIN worker'[v].candidates :
           \/ \E k \in DOMAIN worker[v].candidates :
                worker'[v].candidates[i].job = worker[v].candidates[k].job
           \/ \E k \in 1 .. 2 * BatchSize : worker'[v].candidates[i].job = line[k]
  PROVE  Jammed'
<1>1. /\ 2 * BatchSize <= Len(line') /\ \A i \in 1 .. 2 * BatchSize : line'[i] = line[i]
  <2>1. Len(line) \in Nat /\ line \in Seq(Jobs) /\ 2 * BatchSize <= Len(line)
        /\ BatchSize \in Nat
    BY QueueAssumption DEF QueueTypeOK, Jammed
  <2>2. ASSUME NEW j \in Jobs, line' = Append(line, j)
        PROVE  Len(line') = Len(line) + 1 /\ \A i \in 1 .. Len(line) : line'[i] = line[i]
    BY <2>1, <2>2, AppendTyped
  <2>. QED  BY <2>1, <2>2
<1>2. ASSUME NEW i \in 1 .. 2 * BatchSize
      PROVE  line[i] \in Jobs /\ job[line[i]].status = "failed"
  BY QueueAssumption DEF QueueTypeOK, Jammed
<1>3. ASSUME NEW v \in Workers, NEW k \in DOMAIN worker[v].candidates
      PROVE  worker[v].candidates[k].job \in Jobs /\ job[worker[v].candidates[k].job].status = "failed"
  <2>. worker[v].candidates \in Seq(Ticket)
    BY DEF QueueTypeOK, Worker
  <2>1. worker[v].candidates[k] \in Ticket
    OBVIOUS
  <2>. QED  BY <2>1 DEF Ticket, Jammed
<1>4. ASSUME NEW v \in Workers, NEW i \in DOMAIN worker'[v].candidates
      PROVE  job'[worker'[v].candidates[i].job].status = "failed"
  BY <1>2, <1>3, <1>4
<1>. QED  BY <1>1, <1>2, <1>4 DEF Jammed

\* Nothing in a jam is claimed.
LEMMA NoClaimInJam ==
  ASSUME QueueInv, Jammed, NEW w \in Workers PROVE ~ Claim(w)
<1>. QueueTypeOK /\ WorkerFits /\ OutcomeEarned
  BY DEF QueueInv
<1>. SUFFICES ASSUME Claim(w) PROVE FALSE
  OBVIOUS
<1>. DEFINE t == Head(worker[w].candidates)
<1>1. worker[w].candidates # <<>> /\ worker[w].candidates \in Seq(Ticket)
  BY DEF Claim, WorkerFits, QueueTypeOK, Worker
<1>2. t = worker[w].candidates[1] /\ 1 \in DOMAIN worker[w].candidates /\ t \in Ticket
  BY <1>1, TailTyped
<1>3. t.job \in Jobs /\ t.attempts < MaxAttempts /\ job[t.job].attempts = t.attempts
  BY <1>2 DEF Claim, Claimable, Ticket
<1>4. job[t.job].attempts = MaxAttempts
  <2>. HIDE DEF t
  <2>. job[t.job].status = "failed"
    BY <1>2 DEF Jammed
  <2>. QED  BY <1>3 DEF OutcomeEarned
<1>. HIDE DEF t
<1>. QED  BY <1>3, <1>4, QueueAssumption

\* A jam lasts, and no job's attempts are counted up in it.
LEMMA JamStep ==
  ASSUME QueueInv, Jammed, [QueueNext]_queueVars
  PROVE  Jammed' /\ \A j \in Jobs : job'[j].attempts = job[j].attempts
<1>. QueueTypeOK /\ WorkerFits /\ ClaimExclusive /\ OutcomeEarned
  BY DEF QueueInv
<1>1. \A j \in Jobs : job[j].status = "failed" => job'[j] = job[j]
  BY FinishedStep DEF Finished
<1>2. ASSUME NEW j \in Jobs, Enqueue(j) \/ Mature(j)
      PROVE  Jammed' /\ \A i \in Jobs : job'[i].attempts = job[i].attempts
  <2>1. line' = Append(line, j) /\ worker' = worker
    BY <1>2 DEF Enqueue, Mature
  <2>2. \A i \in Jobs : job'[i].attempts = job[i].attempts
    BY <1>2 DEF Enqueue, Mature, QueueTypeOK, JobRow
  <2>. QED  BY <1>1, <2>1, <2>2, JamHolds
<1>3. ASSUME NEW w \in Workers, Poll(w)
      PROVE  Jammed' /\ \A i \in Jobs : job'[i].attempts = job[i].attempts
  <2>1. \A v \in Workers : worker'[v].candidates =
                             IF v = w THEN Candidates ELSE worker[v].candidates
    BY <1>3 DEF Poll, QueueTypeOK
  <2>2. \A v \in Workers : \A i \in DOMAIN worker'[v].candidates :
          \/ \E k \in DOMAIN worker[v].candidates :
               worker'[v].candidates[i].job = worker[v].candidates[k].job
          \/ \E k \in 1 .. 2 * BatchSize : worker'[v].candidates[i].job = line[k]
    BY <2>1, CandidateInWindow
  <2>3. line' = line /\ job' = job
    BY <1>3 DEF Poll
  <2>. QED  BY <1>1, <2>2, <2>3, JamHolds
<1>4. ASSUME NEW w \in Workers, Miss(w)
      PROVE  Jammed' /\ \A i \in Jobs : job'[i].attempts = job[i].attempts
  <2>1. worker[w].candidates # <<>> /\ AfterTry(w, worker[w].claimed) /\ line' = line /\ job' = job
    BY <1>4 DEF Miss, WorkerFits
  <2>2. \A v \in Workers : \A i \in DOMAIN worker'[v].candidates :
          \E k \in DOMAIN worker[v].candidates :
            worker'[v].candidates[i] = worker[v].candidates[k]
    BY <2>1, RestOfCandidates
  <2>. QED  BY <1>1, <2>1, <2>2, JamHolds
<1>5. ASSUME NEW w \in Workers, NEW m \in Worker, worker' = [worker EXCEPT ![w] = m],
             m.candidates \in {<<>>, worker[w].candidates},
             line' = line \/ \E j \in Jobs : line' = Append(line, j)
      PROVE  Jammed'
  <2>1. DOMAIN <<>> = {}
    OBVIOUS
  <2>2. \A v \in Workers : worker'[v] = IF v = w THEN m ELSE worker[v]
    BY <1>5 DEF QueueTypeOK
  <2>3. \A v \in Workers : \A i \in DOMAIN worker'[v].candidates :
          \E k \in DOMAIN worker[v].candidates :
            worker'[v].candidates[i] = worker[v].candidates[k]
    BY <1>5, <2>1, <2>2
  <2>. QED  BY <1>1, <1>5, <2>3, JamHolds
<1>6. ASSUME NEW w \in Workers, Generate(w) \/ GenerateFails(w) \/ Outage(w)
      PROVE  Jammed' /\ \A i \in Jobs : job'[i].attempts = job[i].attempts
  <2>1. line' = line /\ job' = job
    BY <1>6 DEF Generate, GenerateFails, Outage
  <2>2. \E m \in Worker : worker' = [worker EXCEPT ![w] = m]
                          /\ m.candidates \in {<<>>, worker[w].candidates}
    <3>. worker[w] \in Worker
      BY DEF QueueTypeOK
    <3>1. CASE Outage(w)
      <4>1. Resting \in Worker /\ Resting.candidates = <<>>
        BY DEF Resting, Worker
      <4>2. worker' = [worker EXCEPT ![w] = Resting]
        BY <3>1 DEF Outage
      <4>. QED  BY <4>1, <4>2
    <3>2. ASSUME NEW pc \in {"complete", "fail"}, GoTo(w, pc)
          PROVE \E m \in Worker : worker' = [worker EXCEPT ![w] = m]
                                  /\ m.candidates \in {<<>>, worker[w].candidates}
      <4>. DEFINE m == [worker[w] EXCEPT !.pc = pc]
      <4>1. m \in Worker /\ m.candidates = worker[w].candidates
        BY DEF Worker
      <4>2. worker' = [worker EXCEPT ![w] = m]
        BY <3>2 DEF GoTo
      <4>. HIDE DEF m
      <4>. QED  BY <4>1, <4>2
    <3>. QED  BY <1>6, <3>1, <3>2 DEF Generate, GenerateFails
  <2>. QED  BY <1>5, <2>1, <2>2
<1>7. ASSUME NEW w \in Workers, MarkJobCompleted(w) \/ MarkJobFailure(w)
      PROVE  Jammed' /\ \A i \in Jobs : job'[i].attempts = job[i].attempts
  <2>. DEFINE rest == Tail(worker[w].claimed)
              m == IF rest = <<>> THEN Resting
                   ELSE [pc |-> "generate", candidates |-> <<>>, claimed |-> rest]
              j == Head(worker[w].claimed).job
  <2>1. worker[w].claimed \in Seq(Ticket) /\ worker[w].claimed # <<>>
    BY <1>7 DEF MarkJobCompleted, MarkJobFailure, WorkerFits, QueueTypeOK, Worker
  <2>2. rest \in Seq(Ticket) /\ j \in Jobs
    <3>1. rest \in Seq(Ticket) /\ Head(worker[w].claimed) = worker[w].claimed[1]
          /\ 1 \in DOMAIN worker[w].claimed
      BY <2>1, TailTyped
    <3>2. worker[w].claimed[1].job \in Jobs
      BY <3>1, Held
    <3>. QED  BY <3>1, <3>2
  <2>3. worker' = [worker EXCEPT ![w] = m]
    BY <1>7 DEF MarkJobCompleted, MarkJobFailure, NextJob
  <2>4. \E s \in {"completed", "pending", "failed"} : job' = [job EXCEPT ![j].status = s]
    BY <1>7 DEF MarkJobCompleted, MarkJobFailure
  <2>5. line' = line \/ line' = Append(line, j)
    BY <1>7 DEF MarkJobCompleted, MarkJobFailure
  <2>. HIDE DEF rest, j
  <2>6. m \in Worker /\ m.candidates = <<>>
    BY <2>2 DEF Worker, Resting
  <2>. HIDE DEF m
  <2>7. \A i \in Jobs : job'[i].attempts = job[i].attempts
    BY <2>2, <2>4 DEF QueueTypeOK, JobRow
  <2>. QED  BY <1>5, <2>2, <2>3, <2>5, <2>6, <2>7
<1>8. CASE UNCHANGED queueVars
  BY <1>8 DEF queueVars, Jammed
<1>. QED  BY <1>2, <1>3, <1>4, <1>6, <1>7, <1>8, NoClaimInJam DEF QueueNext, WorkerStep

\* Once a window's worth of jobs is given up at the front of the line, and no
\* worker remembers a better candidate, no job is ever attempted again, whoever
\* enqueues and whoever polls: what label_starved shows of three jobs.
THEOREM JammedForGood ==
  QueueSpec =>
    [][Jammed => Jammed' /\ \A j \in Jobs : job'[j].attempts = job[j].attempts]_queueVars
<1>. DEFINE Stays == Jammed => Jammed' /\ \A j \in Jobs : job'[j].attempts = job[j].attempts
<1>1. QueueInv /\ [QueueNext]_queueVars => [Stays]_queueVars
  BY JamStep
<1>. QED  BY <1>1, QueueInvariant, PTL DEF QueueSpec

----------------------------------------------------------------------------
(* The queue implements the life of a job.                                 *)

\* Hands are workers, and a job in hand is being processed, by one worker.
LEMMA HandsAre ==
  ASSUME QueueTypeOK, ClaimExclusive, NEW j \in Jobs, NEW w \in Workers
  PROVE  /\ w \in Hands[j] <=> \E i \in DOMAIN worker[w].claimed : worker[w].claimed[i].job = j
         /\ w \in Hands[j] => job[j].status = "processing" /\ Hands[j] = {w}
<1>1. \A v \in Workers :
        v \in Hands[j] <=> \E i \in DOMAIN worker[v].claimed : worker[v].claimed[i].job = j
  BY DEF Hands
<1>2. ASSUME w \in Hands[j] PROVE job[j].status = "processing"
  <2>. PICK i \in DOMAIN worker[w].claimed : worker[w].claimed[i].job = j
    BY <1>1, <1>2
  <2>1. job[worker[w].claimed[i].job].status = "processing"
    BY Held
  <2>. QED  BY <2>1
<1>3. ASSUME w \in Hands[j] PROVE Hands[j] = {w}
  <2>1. ASSUME NEW v \in Hands[j] PROVE v = w
    <3>1. v \in Workers
      BY DEF Hands
    <3>. QED  BY <1>1, <1>3, <3>1, HeldOnce
  <2>. QED  BY <1>3, <2>1
<1>. QED  BY <1>1, <1>2, <1>3

\* A worker that goes on takes the jobs that now are being processed, and
\* keeps those of its jobs that still are; the hands of others stay.
LEMMA HandsAfter ==
  ASSUME QueueInv, QueueInv', RestingEmpty, NEW w \in Workers, WorkerStep(w), NEW j \in Jobs
  PROVE  Hands'[j] =
           IF job'[j].status = "processing" /\ job[j].status # "processing"
           THEN Hands[j] \cup {w}
           ELSE IF job'[j].status # "processing" THEN Hands[j] \ {w} ELSE Hands[j]
<1>. QueueTypeOK /\ QueueTypeOK' /\ ClaimExclusive /\ ClaimExclusive'
  BY DEF QueueInv
<1>. PICK m \in Worker :
       /\ worker' = [worker EXCEPT ![w] = m]
       /\ \A i \in DOMAIN m.claimed :
            \/ job[m.claimed[i].job].status \in Open
            \/ \E k \in DOMAIN worker[w].claimed : worker[w].claimed[k].job = m.claimed[i].job
       /\ outages' = outages =>
            \A k \in DOMAIN worker[w].claimed :
              \/ job'[worker[w].claimed[k].job].status # "processing"
              \/ \E i \in DOMAIN m.claimed : worker[w].claimed[k].job = m.claimed[i].job
       /\ \A i \in Jobs : job'[i].status = "processing" /\ job[i].status # "processing" =>
            \E k \in DOMAIN m.claimed : m.claimed[k].job = i
  BY HandsChange
<1>1. outages' = outages
  BY DEF WorkerStep, Poll, Claim, Miss, Generate, GenerateFails, MarkJobCompleted, MarkJobFailure
<1>2. \A v \in Workers : worker'[v] = IF v = w THEN m ELSE worker[v]
  BY DEF QueueTypeOK
<1>. DEFINE In(v) == \E i \in DOMAIN worker[v].claimed : worker[v].claimed[i].job = j
            New   == \E i \in DOMAIN m.claimed : m.claimed[i].job = j
<1>3. \A v \in Workers : v \in Hands[j] <=> In(v)
  BY DEF Hands
<1>4. \A v \in Workers : v \in Hands'[j] <=> IF v = w THEN New ELSE In(v)
  BY <1>2 DEF Hands
<1>5. Hands[j] \subseteq Workers /\ Hands'[j] \subseteq Workers
  BY DEF Hands
<1>6. New => job'[j].status = "processing"
  <2>. SUFFICES ASSUME New PROVE job'[j].status = "processing"
    OBVIOUS
  <2>. PICK i \in DOMAIN m.claimed : m.claimed[i].job = j
    OBVIOUS
  <2>1. i \in DOMAIN worker'[w].claimed /\ worker'[w].claimed[i].job = j
    BY <1>2
  <2>2. job'[worker'[w].claimed[i].job]
          = [status |-> "processing", attempts |-> worker'[w].claimed[i].attempts]
    BY <2>1 DEF ClaimExclusive
  <2>. QED  BY <2>1, <2>2
<1>7. New /\ job[j].status = "processing" => In(w)
  BY DEF Open
<1>8. In(w) => New \/ job'[j].status # "processing"
  BY <1>1
<1>9. job'[j].status = "processing" /\ job[j].status # "processing" => New
  OBVIOUS
<1>10. \A v \in Workers : In(v) => job[j].status = "processing"
  BY <1>3, HandsAre
<1>11. job'[j].status # "processing" /\ job[j].status # "processing" => ~ In(w)
  BY <1>10
<1>. HIDE DEF In, New
<1>. QED  BY <1>3, <1>4, <1>5, <1>6, <1>7, <1>8, <1>9

\* Where no row changes, no job changes hands.
LEMMA HandsStay ==
  ASSUME QueueInv, QueueInv', RestingEmpty, NEW w \in Workers, WorkerStep(w), job' = job
  PROVE  Hands' = Hands
<1>. QueueTypeOK /\ ClaimExclusive
  BY DEF QueueInv
<1>1. ASSUME NEW j \in Jobs PROVE Hands'[j] = Hands[j]
  <2>1. job[j].status # "processing" => Hands[j] \ {w} = Hands[j]
    BY HandsAre
  <2>. QED  BY <2>1, HandsAfter
<1>2. Hands' = [j \in Jobs |-> Hands'[j]] /\ Hands = [j \in Jobs |-> Hands[j]]
  BY DEF Hands
<1>. QED  BY <1>1, <1>2

\* A claim is a Take.
LEMMA ClaimIsTake ==
  ASSUME QueueInv, QueueInv', RestingEmpty, NEW w \in Workers, Claim(w)
  PROVE  \E j \in Jobs : Life!Take(j, w)
<1>. QueueTypeOK /\ ClaimExclusive /\ OutcomeEarned /\ WorkerFits
  BY DEF QueueInv
<1>. WorkerStep(w)
  BY DEF WorkerStep
<1>. DEFINE t == Head(worker[w].candidates)
            j == t.job
<1>1. worker[w].candidates # <<>> /\ worker[w].candidates \in Seq(Ticket)
  BY DEF Claim, WorkerFits, QueueTypeOK, Worker
<1>2. t \in Ticket /\ j \in Jobs
  <2>. t \in Ticket
    BY <1>1, TailTyped
  <2>. QED  BY DEF Ticket
<1>3. /\ t.attempts < MaxAttempts /\ job[j].attempts = t.attempts
      /\ job[j].status \in Open
      /\ job' = [job EXCEPT ![j] = [status |-> "processing", attempts |-> @.attempts + 1]]
      /\ UNCHANGED <<labelled, outages>>
  BY DEF Claim, Claimable
<1>. HIDE DEF t, j
<1>4. job[j].status = "pending"
  BY <1>2, <1>3, QueueAssumption DEF Open, OutcomeEarned
<1>5. Hands[j] = {}
  <2>. \A v \in Workers : v \notin Hands[j]
    BY <1>2, <1>4, HandsAre
  <2>. Hands[j] \subseteq Workers
    BY <1>2 DEF Hands
  <2>. QED  OBVIOUS
<1>6. ASSUME NEW i \in Jobs PROVE Hands'[i] = IF i = j THEN {w} ELSE Hands[i]
  <2>1. job'[i] = IF i = j THEN [status |-> "processing", attempts |-> job[j].attempts + 1]
                           ELSE job[i]
    BY <1>2, <1>3 DEF QueueTypeOK
  <2>2. job[i].status # "processing" => Hands[i] \ {w} = Hands[i]
    BY HandsAre
  <2>3. Hands'[i] =
          IF job'[i].status = "processing" /\ job[i].status # "processing"
          THEN Hands[i] \cup {w}
          ELSE IF job'[i].status # "processing" THEN Hands[i] \ {w} ELSE Hands[i]
    BY HandsAfter
  <2>4. CASE i = j
    <3>. job'[i].status = "processing" /\ job[i].status # "processing"
      BY <1>4, <2>1, <2>4
    <3>. QED  BY <1>5, <2>3, <2>4
  <2>. QED  BY <2>1, <2>2, <2>3, <2>4
<1>7. Hands' = [Hands EXCEPT ![j] = {w}]
  <2>. Hands' = [i \in Jobs |-> Hands'[i]] /\ Hands = [i \in Jobs |-> Hands[i]]
    BY DEF Hands
  <2>. QED  BY <1>2, <1>6
<1>. QED  BY <1>2, <1>3, <1>4, <1>5, <1>7 DEF Life!Take

\* A mark is a Complete or a Fail of the worker that has the job.
LEMMA MarkIsLeaving ==
  ASSUME QueueInv, QueueInv', RestingEmpty, NEW w \in Workers,
         MarkJobCompleted(w) \/ MarkJobFailure(w)
  PROVE  \E j \in Jobs : Life!Complete(j, w) \/ Life!Fail(j, w)
<1>. QueueTypeOK /\ ClaimExclusive /\ WorkerFits
  BY DEF QueueInv
<1>. WorkerStep(w)
  BY DEF WorkerStep
<1>. DEFINE t == Head(worker[w].claimed)
            j == t.job
<1>1. worker[w].claimed \in Seq(Ticket) /\ worker[w].claimed # <<>>
  BY DEF MarkJobCompleted, MarkJobFailure, WorkerFits, QueueTypeOK, Worker
<1>2. t = worker[w].claimed[1] /\ 1 \in DOMAIN worker[w].claimed
  BY <1>1, TailTyped
<1>3. /\ j \in Jobs /\ t.attempts \in 0..MaxAttempts
      /\ job[j].status = "processing" /\ job[j].attempts = t.attempts
  BY <1>2, Held
<1>4. UNCHANGED <<labelled, outages>>
  BY DEF MarkJobCompleted, MarkJobFailure
<1>5. \E s \in {"completed", "failed", "pending"} :
        /\ job' = [job EXCEPT ![j].status = s]
        /\ IF s = "completed" THEN j \in labelled
           ELSE s = IF job[j].attempts = MaxAttempts THEN "failed" ELSE "pending"
  <2>1. CASE MarkJobCompleted(w)
    BY <1>2, <2>1 DEF MarkJobCompleted, WorkerFits
  <2>2. CASE MarkJobFailure(w)
    <3>1. t.attempts >= MaxAttempts <=> job[j].attempts = MaxAttempts
      <4>. HIDE DEF t
      <4>. QED  BY <1>3, QueueAssumption
    <3>2. job' = [job EXCEPT ![j].status = IF t.attempts >= MaxAttempts THEN "failed" ELSE "pending"]
      BY <2>2 DEF MarkJobFailure
    <3>. HIDE DEF t, j
    <3>. QED  BY <3>1, <3>2
  <2>. QED  BY <2>1, <2>2
<1>6. Hands[j] = {w}
  BY <1>2, <1>3, HandsAre
<1>. HIDE DEF t, j
<1>7. ASSUME NEW s \in {"completed", "failed", "pending"}, job' = [job EXCEPT ![j].status = s],
             NEW i \in Jobs
      PROVE  Hands'[i] = IF i = j THEN {} ELSE Hands[i]
  <2>1. CASE i = j
    <3>. job'[j].status = s
      BY <1>3, <1>7 DEF QueueTypeOK, JobRow
    <3>. QED  BY <1>6, <2>1, HandsAfter
  <2>2. CASE i # j
    <3>1. job'[i] = job[i]
      BY <1>3, <1>7, <2>2 DEF QueueTypeOK
    <3>2. job[i].status # "processing" => Hands[i] \ {w} = Hands[i]
      BY HandsAre
    <3>. QED  BY <2>2, <3>1, <3>2, HandsAfter
  <2>. QED  BY <2>1, <2>2
<1>8. Hands' = [Hands EXCEPT ![j] = {}]
  <2>. Hands' = [i \in Jobs |-> Hands'[i]] /\ Hands = [i \in Jobs |-> Hands[i]]
    BY DEF Hands
  <2>. QED  BY <1>3, <1>5, <1>7
<1>. QED  BY <1>3, <1>4, <1>5, <1>6, <1>8 DEF Life!Complete, Life!Fail, Life!Leaves

\* Every step of the queue is one of a job's life, or is not seen there.
LEMMA QueueStepIsLife ==
  ASSUME QueueInv, QueueInv', RestingEmpty, [QueueNext]_queueVars
  PROVE  [Life!LifeNext]_<<job, labelled, Hands, outages>>
<1>. QueueTypeOK /\ ClaimExclusive /\ WorkerFits
  BY DEF QueueInv
<1>1. ASSUME NEW j \in Jobs, Enqueue(j)
      PROVE  Life!LifeNext
  <2>. Hands' = Hands
    BY <1>1 DEF Enqueue, Hands
  <2>. QED  BY <1>1 DEF Enqueue, Life!LifeNext, Life!Arrive
<1>2. ASSUME NEW j \in Jobs, Mature(j)
      PROVE  UNCHANGED <<job, labelled, Hands, outages>>
  BY <1>2 DEF Mature, Hands
<1>3. ASSUME NEW w \in Workers, Poll(w) \/ Miss(w) \/ GenerateFails(w)
      PROVE  UNCHANGED <<job, labelled, Hands, outages>>
  <2>1. WorkerStep(w)
    BY <1>3 DEF WorkerStep
  <2>2. UNCHANGED <<job, labelled, outages>>
    BY <1>3 DEF Poll, Miss, GenerateFails
  <2>. QED  BY <2>1, <2>2, HandsStay
<1>4. ASSUME NEW w \in Workers, Claim(w) PROVE Life!LifeNext
  BY <1>4, ClaimIsTake DEF Life!LifeNext
<1>5. ASSUME NEW w \in Workers, Generate(w) PROVE Life!LifeNext
  <2>. DEFINE j == Head(worker[w].claimed).job
  <2>1. worker[w].claimed \in Seq(Ticket) /\ worker[w].claimed # <<>>
    BY <1>5 DEF Generate, WorkerFits, QueueTypeOK, Worker
  <2>2. j = worker[w].claimed[1].job /\ 1 \in DOMAIN worker[w].claimed
    BY <2>1, TailTyped
  <2>3. j \in Jobs
    BY <2>2, Held
  <2>4. Hands[j] = {w}
    BY <2>2, <2>3, HandsAre
  <2>5. labelled' = labelled \cup {j} /\ job' = job /\ outages' = outages
    BY <1>5 DEF Generate
  <2>6. Hands' = Hands
    BY <1>5, <2>5, HandsStay DEF WorkerStep
  <2>. HIDE DEF j
  <2>7. Life!Label(j, w)
    BY <2>4, <2>5, <2>6 DEF Life!Label
  <2>. QED  BY <2>3, <2>7 DEF Life!LifeNext
<1>6. ASSUME NEW w \in Workers, MarkJobCompleted(w) \/ MarkJobFailure(w) PROVE Life!LifeNext
  BY <1>6, MarkIsLeaving DEF Life!LifeNext
<1>7. ASSUME NEW w \in Workers, Outage(w) PROVE Life!LifeNext
  <2>1. \A v \in Workers : worker'[v] = IF v = w THEN Resting ELSE worker[v]
    BY <1>7 DEF Outage, QueueTypeOK
  <2>2. DOMAIN Resting.claimed = {}
    BY DEF Resting
  <2>3. \A j \in Jobs : Hands'[j] = Hands[j] \ {w}
    BY <2>1, <2>2 DEF Hands
  <2>4. Hands' = [j \in Jobs |-> Hands[j] \ {w}]
    <3>. Hands' = [j \in Jobs |-> Hands'[j]]
      BY DEF Hands
    <3>. QED  BY <2>3
  <2>5. Life!Forget(w)
    BY <1>7, <2>4 DEF Outage, Life!Forget
  <2>. QED  BY <2>5 DEF Life!LifeNext
<1>8. CASE UNCHANGED queueVars
  BY <1>8 DEF queueVars, Hands
<1>. QED  BY <1>1, <1>2, <1>3, <1>4, <1>5, <1>6, <1>7, <1>8 DEF QueueNext, WorkerStep

\* The queue implements the life of a job: for any number of jobs and
\* workers, any batch and attempts, and wherever ticks are cut short.
THEOREM JobLifeRefined == QueueSpec => JobLifeKept
<1>1. QueueInit => Life!LifeInit
  BY DEF QueueInit, Life!LifeInit, Hands, Resting
<1>2. QueueInv /\ QueueInv' /\ StrandedInv /\ [QueueNext]_queueVars
        => [Life!LifeNext]_<<job, labelled, Hands, outages>>
  BY QueueStepIsLife DEF StrandedInv
<1>. QED  BY <1>1, <1>2, StrandedInvariant, PTL DEF QueueSpec, JobLifeKept, Life!LifeSpec
=============================================================================
