--------------------------- MODULE LiveMapProofs ----------------------------
(***************************************************************************)
(* The live map, for any number of processes, watchers and requests, any   *)
(* stream, and any failures and restarts: no process that follows the      *)
(* event stream skips an entry, and what is on its way to Redis about a    *)
(* driver is always on or off.                                             *)
(***************************************************************************)
EXTENDS MCLiveMap, SequenceTheorems, TLAPS

----------------------------------------------------------------------------
(* The feed.                                                               *)

\* A call that is pending reads from the last entry received, if there was
\* one, and nobody has received what is not there.
InPlace ==
  \A p \in Procs :
    LET k == consumer[p]
    IN  /\ k.call <= Len(stream) /\ k.last <= Len(stream)
        /\ k.call # NoCall /\ k.last # End => k.call = k.last
        /\ \A i \in k.heard : i <= k.last

FeedInv == FeedTypeOK /\ InPlace /\ NoGap

\* What InPlace and NoGap say of one process.
Placed(k, n) ==
  /\ k.call <= n /\ k.last <= n
  /\ k.call # NoCall /\ k.last # End => k.call = k.last
  /\ \A i \in k.heard : i <= k.last
  /\ k.heard = {} <=> k.last = End
  /\ \A i \in k.heard : \A j \in i .. k.last : j \in k.heard

----------------------------------------------------------------------------
\* The invariant of all processes is that of each.
LEMMA PlacedAll == (InPlace /\ NoGap) <=> \A p \in Procs : Placed(consumer[p], Len(stream))
BY DEF InPlace, NoGap, Placed

\* What a process knows, field by field.
LEMMA ConsumerFields ==
  ASSUME NEW k \in Consumer
  PROVE  /\ k.running \in BOOLEAN
         /\ k.last \in Nat \cup {-1}
         /\ k.call \in Nat \cup {-1}
         /\ k.heard \subseteq Nat
BY DEF Consumer, End, NoCall

\* Nothing is published, nobody listens.
LEMMA FeedInitInv == ASSUME FeedAssumption, FeedInit PROVE FeedInv
<1>1. Stopped \in Consumer /\ Placed(Stopped, 0)
  BY DEF Stopped, Consumer, Placed, End, NoCall
<1>2. stream = <<>> /\ stream \in Seq(Events) /\ Len(stream) = 0
  BY EmptySeq DEF FeedInit
<1>3. FeedTypeOK
  BY <1>1, <1>2 DEF FeedInit, FeedTypeOK, FeedAssumption
<1>4. InPlace /\ NoGap
  BY <1>1, <1>2, PlacedAll DEF FeedInit
<1>. QED  BY <1>3, <1>4 DEF FeedInv

\* A step of one process after which that process is in its place.
LEMMA ConsumerStep ==
  ASSUME FeedInv, NEW p \in Procs, NEW next \in Consumer,
         consumer' = [consumer EXCEPT ![p] = next],
         stream' = stream,
         Placed(next, Len(stream))
  PROVE  consumer' \in [Procs -> Consumer] /\ InPlace' /\ NoGap'
<1>1. /\ consumer' \in [Procs -> Consumer] /\ consumer'[p] = next
      /\ \A q \in Procs \ {p} : consumer'[q] = consumer[q]
  BY DEF FeedInv, FeedTypeOK
<1>2. \A q \in Procs : Placed(consumer[q], Len(stream))
  BY PlacedAll DEF FeedInv
<1>3. \A q \in Procs : Placed(consumer'[q], Len(stream'))
  BY <1>1, <1>2
<1>4. InPlace' /\ NoGap'
  BY <1>3 DEF InPlace, NoGap, Placed
<1>. QED  BY <1>1, <1>4

\* The loop of the consumer, its failures and the restart of its process.
LEMMA ConsumerKeeps ==
  ASSUME FeedAssumption, FeedInv, NEW p \in Procs,
         \/ ensureConsumer(p) /\ stream' = stream
         \/ CallXread(p) \/ Receive(p) \/ BlockEnds(p) \/ XreadFails(p) \/ Restart(p)
  PROVE  consumer' \in [Procs -> Consumer] /\ InPlace' /\ NoGap'
<1>. DEFINE k == consumer[p]
<1>1. /\ k \in Consumer /\ Placed(k, Len(stream))
      /\ stream \in Seq(Events) /\ Len(stream) \in Nat
  BY PlacedAll DEF FeedInv, FeedTypeOK
<1>2. /\ k.running \in BOOLEAN /\ k.last \in Nat \cup {-1} /\ k.call \in Nat \cup {-1}
      /\ k.heard \subseteq Nat
  BY <1>1, ConsumerFields
<1>3. CASE ensureConsumer(p) /\ stream' = stream
  <2>. DEFINE next == [k EXCEPT !.running = TRUE]
  <2>1. consumer' = [consumer EXCEPT ![p] = next]
    BY <1>3 DEF ensureConsumer
  <2>2. next \in Consumer /\ Placed(next, Len(stream))
    BY <1>1 DEF Consumer, Placed
  <2>. HIDE DEF next
  <2>. QED  BY <1>3, <2>1, <2>2, ConsumerStep
<1>4. CASE CallXread(p)
  <2>. DEFINE from == IF k.last = End THEN Len(stream) ELSE k.last
              next == [k EXCEPT !.call = from]
  <2>1. consumer' = [consumer EXCEPT ![p] = next] /\ stream' = stream
    BY <1>4 DEF CallXread
  <2>2. from \in Nat /\ from <= Len(stream) /\ (k.last # End => from = k.last)
    BY <1>1, <1>2 DEF Placed, End
  <2>. HIDE DEF from
  <2>3. /\ next \in Consumer /\ next.call = from /\ next.last = k.last
        /\ next.heard = k.heard
    BY <1>1, <2>2 DEF Consumer
  <2>. HIDE DEF next, k
  <2>4. Placed(next, Len(stream))
    BY <1>1, <2>2, <2>3 DEF Placed
  <2>. QED  BY <2>1, <2>3, <2>4, ConsumerStep
<1>5. CASE Receive(p)
  <2>. PICK n \in 1 .. MaxBatch :
         /\ k.call + n <= Len(stream)
         /\ consumer' = [consumer EXCEPT ![p].call = NoCall, ![p].last = k.call + n,
                                         ![p].heard = @ \cup (k.call + 1 .. k.call + n)]
    BY <1>5 DEF Receive
  <2>. DEFINE upTo == k.call + n
              part == k.call + 1 .. upTo
              next == [k EXCEPT !.call = NoCall, !.last = upTo, !.heard = k.heard \cup part]
  <2>1. consumer' = [consumer EXCEPT ![p] = next]
    OBVIOUS
  <2>2. /\ k.call \in Nat /\ n \in Nat \ {0} /\ k.call # NoCall
    <3>1. k.call # NoCall
      BY <1>5 DEF Receive
    <3>2. MaxBatch \in Nat \ {0}
      BY DEF FeedAssumption
    <3>. HIDE DEF k
    <3>3. k.call \in Nat
      BY <1>2, <3>1 DEF NoCall
    <3>. QED  BY <3>1, <3>2, <3>3
  <2>3. /\ upTo \in Nat /\ upTo <= Len(stream) /\ part \subseteq Nat /\ upTo \in part
    BY <2>2
  <2>4. /\ next \in Consumer /\ next.call = NoCall /\ next.last = upTo
        /\ next.heard = k.heard \cup part
    BY <1>1, <2>3 DEF Consumer
  <2>. HIDE DEF next, k
  <2>5. ASSUME NEW i \in k.heard \cup part, NEW j \in i .. upTo PROVE j \in k.heard \cup part
    <3>1. CASE i \in part \/ j \in part
      BY <2>2, <3>1
    <3>2. CASE i \in k.heard /\ j \notin part
      <4>1. k.last = k.call
        BY <1>1, <2>2, <3>2 DEF Placed
      <4>2. j \in i .. k.last
        BY <1>2, <2>2, <3>2, <4>1
      <4>. QED  BY <1>1, <3>2, <4>2 DEF Placed
    <3>. QED  BY <2>5, <3>1, <3>2
  <2>6. ASSUME NEW i \in k.heard \cup part PROVE i <= upTo
    <3>1. CASE i \in part
      BY <2>2, <3>1
    <3>2. CASE i \in k.heard
      BY <1>1, <1>2, <2>2, <3>2 DEF Placed
    <3>. QED  BY <2>6, <3>1, <3>2
  <2>7. Placed(next, Len(stream))
    <3>. HIDE DEF part, upTo
    <3>. QED  BY <1>1, <2>3, <2>4, <2>5, <2>6 DEF Placed, NoCall, End
  <2>8. stream' = stream
    BY <1>5 DEF Receive
  <2>. QED  BY <2>1, <2>4, <2>7, <2>8, ConsumerStep
<1>6. CASE BlockEnds(p) \/ XreadFails(p)
  <2>. DEFINE next == [k EXCEPT !.call = NoCall]
  <2>1. consumer' = [consumer EXCEPT ![p] = next] /\ stream' = stream
    BY <1>6 DEF BlockEnds, XreadFails
  <2>2. /\ next \in Consumer /\ next.call = NoCall /\ next.last = k.last
        /\ next.heard = k.heard
    BY <1>1 DEF Consumer
  <2>. HIDE DEF next, k
  <2>3. Placed(next, Len(stream))
    BY <1>1, <2>2 DEF Placed, NoCall
  <2>. QED  BY <2>1, <2>2, <2>3, ConsumerStep
<1>7. CASE Restart(p)
  <2>1. Stopped \in Consumer /\ Placed(Stopped, Len(stream))
    BY <1>1 DEF Stopped, Consumer, Placed, End, NoCall
  <2>. QED  BY <1>7, <2>1, ConsumerStep DEF Restart
<1>. QED  BY <1>3, <1>4, <1>5, <1>6, <1>7

\* An entry more in the stream puts nobody out of place.
LEMMA StreamGrows ==
  ASSUME FeedInv, NEW e \in Events, stream' = Append(stream, e), consumer' = consumer
  PROVE  /\ stream' \in Seq(Events) /\ consumer' \in [Procs -> Consumer]
         /\ InPlace' /\ NoGap'
<1>1. stream \in Seq(Events) /\ Len(stream) \in Nat /\ consumer \in [Procs -> Consumer]
  BY DEF FeedInv, FeedTypeOK
<1>2. stream' \in Seq(Events) /\ Len(stream') = Len(stream) + 1
  BY <1>1
<1>3. ASSUME NEW p \in Procs PROVE Placed(consumer'[p], Len(stream'))
  <2>1. Placed(consumer[p], Len(stream)) /\ consumer[p] \in Consumer
    BY <1>1, PlacedAll DEF FeedInv
  <2>2. consumer[p].call \in Nat \cup {-1} /\ consumer[p].last \in Nat \cup {-1}
    BY <2>1, ConsumerFields
  <2>. QED  BY <1>1, <1>2, <2>1, <2>2 DEF Placed
<1>4. InPlace' /\ NoGap'
  BY <1>3 DEF InPlace, NoGap, Placed
<1>. QED  BY <1>1, <1>2, <1>4

\* Every step leaves stream, consumers and watchers well-formed.
LEMMA FeedTypingNext ==
  ASSUME FeedAssumption, FeedInv, [FeedNext]_feedVars, consumer' \in [Procs -> Consumer]
  PROVE  FeedTypeOK'
<1>1. /\ stream \in Seq(Events) /\ sending \in [Procs -> SUBSET Events]
      /\ watching \in SUBSET Watchers /\ owed \in [Watchers -> SUBSET Events]
      /\ faults \in 0 .. MaxFaults
  BY DEF FeedInv, FeedTypeOK
<1>2. ASSUME NEW c \in Watchers, Watch(c) \/ Leave(c) PROVE FeedTypeOK'
  BY <1>1, <1>2 DEF Watch, Leave, FeedTypeOK
<1>3. ASSUME NEW p \in Procs, ServerStarts(p) \/ CallXread(p) \/ BlockEnds(p)
      PROVE  FeedTypeOK'
  BY <1>1, <1>3 DEF ServerStarts, CallXread, BlockEnds, FeedTypeOK
<1>4. faults < MaxFaults /\ faults' = faults + 1 => faults' \in 0 .. MaxFaults
  BY <1>1 DEF FeedAssumption
<1>5. ASSUME NEW p \in Procs, XreadFails(p) PROVE FeedTypeOK'
  BY <1>1, <1>4, <1>5 DEF XreadFails, FeedTypeOK
<1>6. ASSUME NEW p \in Procs, Receive(p) PROVE FeedTypeOK'
  <2>1. owed' \in [Watchers -> SUBSET Events]
    BY <1>1, <1>6 DEF Receive
  <2>. QED  BY <1>1, <1>6, <2>1 DEF Receive, FeedTypeOK
<1>7. ASSUME NEW p \in Procs, Restart(p) PROVE FeedTypeOK'
  <2>1. owed' \in [Watchers -> SUBSET Events]
    BY <1>1, <1>7 DEF Restart
  <2>2. watching' \in SUBSET Watchers /\ stream' = stream
    BY <1>1, <1>7 DEF Restart
  <2>3. sending' \in [Procs -> SUBSET Events]
    BY <1>1, <1>7 DEF Restart
  <2>4. faults' \in 0 .. MaxFaults
    BY <1>4, <1>7 DEF Restart
  <2>. QED  BY <1>1, <2>1, <2>2, <2>3, <2>4 DEF FeedTypeOK
<1>8. ASSUME NEW p \in Procs, NEW e \in Events, AppendEntry(p, e) \/ AppendUnheard(p, e)
      PROVE  FeedTypeOK'
  <2>1. owed' \in [Watchers -> SUBSET Events]
    <3>1. owed' = OwedWith(e)
      BY <1>8 DEF AppendEntry, AppendUnheard
    <3>. QED  BY <1>1, <3>1 DEF OwedWith
  <2>2. stream' \in Seq(Events)
    <3>1. stream' = Append(stream, e)
      BY <1>8 DEF AppendEntry, AppendUnheard
    <3>. QED  BY <1>1, <3>1
  <2>3. sending' \in [Procs -> SUBSET Events]
    BY <1>1, <1>8 DEF AppendEntry, AppendUnheard
  <2>4. faults' \in 0 .. MaxFaults
    BY <1>1, <1>4, <1>8 DEF AppendEntry, AppendUnheard
  <2>. QED  BY <1>1, <1>8, <2>1, <2>2, <2>3, <2>4 DEF AppendEntry, AppendUnheard, FeedTypeOK
<1>9. ASSUME NEW p \in Procs, NEW e \in Events, Emit(p, e) PROVE FeedTypeOK'
  BY <1>1, <1>9 DEF Emit, FeedTypeOK
<1>10. ASSUME NEW p \in Procs, NEW e \in Events, AppendFails(p, e) PROVE FeedTypeOK'
  BY <1>1, <1>4, <1>10 DEF AppendFails, FeedTypeOK
<1>11. CASE UNCHANGED feedVars
  BY <1>1, <1>11 DEF feedVars, FeedTypeOK
<1>. QED  BY <1>2, <1>3, <1>5, <1>6, <1>7, <1>8, <1>9, <1>10, <1>11 DEF FeedNext

\* Every step keeps the invariant.
LEMMA FeedInvNext ==
  ASSUME FeedAssumption, FeedInv, [FeedNext]_feedVars
  PROVE  FeedInv'
<1>1. consumer' \in [Procs -> Consumer] /\ InPlace' /\ NoGap'
  <2>1. CASE UNCHANGED <<consumer, stream>>
    BY <2>1 DEF FeedInv, FeedTypeOK, InPlace, NoGap
  <2>2. ASSUME NEW p \in Procs,
               \/ ServerStarts(p) \/ CallXread(p) \/ Receive(p) \/ BlockEnds(p)
               \/ XreadFails(p) \/ Restart(p)
        PROVE  consumer' \in [Procs -> Consumer] /\ InPlace' /\ NoGap'
    BY <2>2, ConsumerKeeps DEF ServerStarts
  <2>3. ASSUME NEW c \in Watchers, Watch(c)
        PROVE  consumer' \in [Procs -> Consumer] /\ InPlace' /\ NoGap'
    BY <2>3, ConsumerKeeps DEF Watch, FeedAssumption
  <2>4. ASSUME NEW p \in Procs, NEW e \in Events, AppendEntry(p, e) \/ AppendUnheard(p, e)
        PROVE  consumer' \in [Procs -> Consumer] /\ InPlace' /\ NoGap'
    BY <2>4, StreamGrows DEF AppendEntry, AppendUnheard
  <2>. QED  BY <2>1, <2>2, <2>3, <2>4 DEF FeedNext, feedVars, Leave, Emit, AppendFails
<1>2. FeedTypeOK'
  BY <1>1, FeedTypingNext
<1>. QED  BY <1>1, <1>2 DEF FeedInv

----------------------------------------------------------------------------
\* The stream, the consumers and what the watchers are owed stay well-formed.
THEOREM FeedTyping == FeedSpec => []FeedTypeOK
<1>1. FeedInit => FeedInv
  BY FeedInitInv, FeedAssumption
<1>2. FeedInv /\ [FeedNext]_feedVars => FeedInv'
  BY FeedInvNext, FeedAssumption
<1>3. FeedInv => FeedTypeOK
  BY DEF FeedInv
<1>. QED  BY <1>1, <1>2, <1>3, PTL DEF FeedSpec

\* From the first entry it receives to the last, a process passes on every
\* one.
THEOREM NothingSkipped == FeedSpec => []NoGap
<1>1. FeedInit => FeedInv
  BY FeedInitInv, FeedAssumption
<1>2. FeedInv /\ [FeedNext]_feedVars => FeedInv'
  BY FeedInvNext, FeedAssumption
<1>3. FeedInv => NoGap
  BY DEF FeedInv
<1>. QED  BY <1>1, <1>2, <1>3, PTL DEF FeedSpec

\* A step after which whoever is owed something was owed it before, still
\* watches, and has a process at the place it was.
LEMMA OwedKept ==
  ASSUME OwedAhead, stream' = stream,
         \A c \in Watchers : \A e \in owed'[c] :
           /\ e \in owed[c] /\ c \in watching'
           /\ consumer'[At[c]].last = consumer[At[c]].last
  PROVE  OwedAhead'
BY DEF OwedAhead

\* What is received is no longer owed; what stays owed comes after it.
LEMMA ReceiveOwes ==
  ASSUME FeedAssumption, FeedInv, OwedAhead, NEW p \in Procs, Receive(p)
  PROVE  OwedAhead'
<1>. DEFINE k == consumer[p]
<1>. PICK n \in 1 .. MaxBatch :
       /\ k.call + n <= Len(stream)
       /\ consumer' = [consumer EXCEPT ![p].call = NoCall, ![p].last = k.call + n,
                                       ![p].heard = @ \cup (k.call + 1 .. k.call + n)]
       /\ owed' = [c \in Watchers |->
            IF At[c] = p THEN owed[c] \ ToSet(SubSeq(stream, k.call + 1, k.call + n)) ELSE owed[c]]
  BY DEF Receive
<1>1. /\ k \in Consumer /\ Placed(k, Len(stream)) /\ consumer \in [Procs -> Consumer]
      /\ stream \in Seq(Events) /\ Len(stream) \in Nat /\ At \in [Watchers -> Procs]
  BY PlacedAll DEF FeedInv, FeedTypeOK, FeedAssumption
<1>2. k.call # NoCall /\ UNCHANGED <<stream, watching>>
  BY DEF Receive
<1>3. k.call \in Nat /\ n \in Nat \ {0}
  <2>. MaxBatch \in Nat \ {0}
    BY DEF FeedAssumption
  <2>. k.call \in Nat \cup {-1}
    BY <1>1, ConsumerFields
  <2>. QED  BY <1>2 DEF NoCall
<1>4. /\ consumer'[p].last = k.call + n
      /\ \A q \in Procs \ {p} : consumer'[q] = consumer[q]
  BY <1>1 DEF Consumer
<1>5. ASSUME NEW i \in (k.call + 1) .. (k.call + n)
      PROVE  stream[i] \in ToSet(SubSeq(stream, k.call + 1, k.call + n))
  <2>. DEFINE a == k.call + 1
              b == k.call + n
              part == SubSeq(stream, a, b)
  <2>1. a \in Int /\ b \in Int /\ 1 <= a /\ b <= Len(stream) /\ a <= b /\ i \in a .. b
    BY <1>1, <1>3
  <2>. HIDE DEF a, b
  <2>2. \A j \in a .. b : stream[j] \in Events
    BY <1>1, <2>1
  <2>3. part \in Seq(Events) /\ Len(part) = b - a + 1
        /\ \A j \in 1 .. b - a + 1 : part[j] = stream[a + j - 1]
    BY <2>1, <2>2, SubSeqProperties
  <2>4. i - a + 1 \in 1 .. b - a + 1 /\ a + (i - a + 1) - 1 = i
    BY <2>1
  <2>. HIDE DEF part
  <2>5. i - a + 1 \in DOMAIN part /\ part[i - a + 1] = stream[i]
    BY <2>1, <2>3, <2>4
  <2>6. stream[i] \in ToSet(part)
    BY <2>5 DEF ToSet
  <2>. QED  BY <2>6 DEF part, a, b
<1>. SUFFICES ASSUME NEW c \in Watchers, NEW e \in owed'[c]
              PROVE  /\ c \in watching' /\ consumer'[At[c]].last # End
                     /\ \E i \in DOMAIN stream' : i > consumer'[At[c]].last /\ stream'[i] = e
  BY DEF OwedAhead
<1>6. e \in owed[c] /\ c \in watching /\ consumer[At[c]].last # End
  BY DEF OwedAhead
<1>7. CASE At[c] # p
  <2>. consumer'[At[c]] = consumer[At[c]]
    BY <1>1, <1>4, <1>7
  <2>. QED  BY <1>2, <1>6 DEF OwedAhead
<1>8. CASE At[c] = p
  <2>. PICK i \in DOMAIN stream : i > k.last /\ stream[i] = e
    BY <1>6, <1>8 DEF OwedAhead
  <2>1. k.call = k.last
    BY <1>1, <1>2, <1>6, <1>8 DEF Placed
  <2>2. e \notin ToSet(SubSeq(stream, k.call + 1, k.call + n))
    BY <1>8
  <2>3. i \in Nat /\ i > k.call /\ i \notin (k.call + 1) .. (k.call + n)
    <3>. i \in Nat
      BY <1>1
    <3>. QED  BY <1>5, <2>1, <2>2
  <2>4. i > k.call + n
    BY <1>3, <2>3
  <2>5. consumer'[At[c]].last = k.call + n /\ k.call + n # End
    BY <1>3, <1>4, <1>8 DEF End
  <2>. QED  BY <1>2, <1>6, <2>4, <2>5
<1>. QED  BY <1>7, <1>8

\* Every step leaves what is owed ahead.
LEMMA OwedNext ==
  ASSUME FeedAssumption, FeedInv, OwedAhead, [FeedNext]_feedVars PROVE OwedAhead'
<1>1. /\ stream \in Seq(Events) /\ Len(stream) \in Nat /\ consumer \in [Procs -> Consumer]
      /\ At \in [Watchers -> Procs] /\ owed \in [Watchers -> SUBSET Events]
  BY DEF FeedInv, FeedTypeOK, FeedAssumption
<1>2. ASSUME NEW p \in Procs, ensureConsumer(p), stream' = stream, owed' = owed,
             watching \subseteq watching'
      PROVE  OwedAhead'
  <2>1. \A q \in Procs : consumer'[q].last = consumer[q].last
    BY <1>1, <1>2 DEF ensureConsumer, Consumer
  <2>2. \A c \in Watchers : \A e \in owed'[c] :
          /\ e \in owed[c] /\ c \in watching'
          /\ consumer'[At[c]].last = consumer[At[c]].last
    BY <1>1, <1>2, <2>1 DEF OwedAhead
  <2>. QED  BY <1>2, <2>2, OwedKept
<1>3. ASSUME NEW c \in Watchers, Watch(c) PROVE OwedAhead'
  BY <1>1, <1>2, <1>3 DEF Watch
<1>4. ASSUME NEW c \in Watchers, Leave(c) PROVE OwedAhead'
  <2>1. /\ stream' = stream /\ consumer' = consumer /\ watching' = watching \ {c}
        /\ owed' = [owed EXCEPT ![c] = {}]
    BY <1>4 DEF Leave
  <2>2. \A d \in Watchers : \A e \in owed'[d] : e \in owed[d] /\ d \in watching'
    BY <1>1, <2>1 DEF OwedAhead
  <2>. QED  BY <2>1, <2>2, OwedKept
<1>5. ASSUME NEW p \in Procs, ServerStarts(p) PROVE OwedAhead'
  BY <1>2, <1>5 DEF ServerStarts
<1>6. ASSUME NEW p \in Procs, CallXread(p) \/ BlockEnds(p) \/ XreadFails(p) PROVE OwedAhead'
  <2>1. UNCHANGED <<stream, owed, watching>>
    BY <1>6 DEF CallXread, BlockEnds, XreadFails
  <2>2. \A q \in Procs : consumer'[q].last = consumer[q].last
    <3>1. \E n : consumer' = [consumer EXCEPT ![p].call = n]
      BY <1>6 DEF CallXread, BlockEnds, XreadFails
    <3>2. consumer[p] \in Consumer
      BY <1>1
    <3>. QED  BY <1>1, <3>1, <3>2 DEF Consumer
  <2>3. \A c \in Watchers : \A e \in owed'[c] :
          /\ e \in owed[c] /\ c \in watching'
          /\ consumer'[At[c]].last = consumer[At[c]].last
    BY <1>1, <2>1, <2>2 DEF OwedAhead
  <2>. QED  BY <2>1, <2>3, OwedKept
<1>7. ASSUME NEW p \in Procs, Restart(p) PROVE OwedAhead'
  <2>1. /\ stream' = stream /\ consumer' = [consumer EXCEPT ![p] = Stopped]
        /\ watching' = {c \in watching : At[c] # p}
        /\ owed' = [c \in Watchers |-> IF At[c] = p THEN {} ELSE owed[c]]
    BY <1>7 DEF Restart
  <2>2. \A c \in Watchers : \A e \in owed'[c] :
          /\ e \in owed[c] /\ c \in watching'
          /\ consumer'[At[c]].last = consumer[At[c]].last
    BY <1>1, <2>1 DEF OwedAhead
  <2>. QED  BY <2>1, <2>2, OwedKept
<1>8. ASSUME NEW p \in Procs, NEW e \in Events, AppendEntry(p, e) \/ AppendUnheard(p, e)
      PROVE  OwedAhead'
  <2>1. /\ stream' = Append(stream, e) /\ UNCHANGED <<consumer, watching>>
        /\ owed' = [c \in Watchers |->
             IF c \in watching /\ e \in Wants[c] /\ consumer[At[c]].last # End
             THEN owed[c] \cup {e} ELSE owed[c]]
    BY <1>8 DEF AppendEntry, AppendUnheard, OwedWith
  <2>2. /\ DOMAIN stream' = 1 .. (Len(stream) + 1) /\ stream'[Len(stream) + 1] = e
        /\ \A i \in DOMAIN stream : i \in DOMAIN stream' /\ stream'[i] = stream[i]
    BY <1>1, <2>1
  <2>. SUFFICES ASSUME NEW c \in Watchers, NEW d \in owed'[c]
                PROVE  /\ c \in watching' /\ consumer'[At[c]].last # End
                       /\ \E i \in DOMAIN stream' : i > consumer'[At[c]].last /\ stream'[i] = d
    BY DEF OwedAhead
  <2>3. CASE d \in owed[c]
    BY <2>1, <2>2, <2>3 DEF OwedAhead
  <2>4. CASE d \notin owed[c]
    <3>1. d = e /\ c \in watching /\ consumer[At[c]].last # End
      BY <2>1, <2>4
    <3>2. Len(stream) + 1 > consumer[At[c]].last /\ Len(stream) + 1 \in DOMAIN stream'
      <4>1. consumer[At[c]] \in Consumer /\ Placed(consumer[At[c]], Len(stream))
        BY <1>1, PlacedAll DEF FeedInv
      <4>2. consumer[At[c]].last \in Nat \cup {-1} /\ consumer[At[c]].last <= Len(stream)
        BY <4>1, ConsumerFields DEF Placed
      <4>. QED  BY <1>1, <2>2, <4>2
    <3>. QED  BY <2>1, <2>2, <3>1, <3>2
  <2>. QED  BY <2>3, <2>4
<1>9. CASE UNCHANGED <<stream, consumer, watching, owed>>
  BY <1>9 DEF OwedAhead
<1>. QED  BY <1>3, <1>4, <1>5, <1>6, <1>7, <1>8, <1>9, ReceiveOwes
          DEF FeedNext, feedVars, Emit, AppendFails

\* What a watcher is owed is still to come for its process.
THEOREM OwedLiesAhead == FeedSpec => []OwedAhead
<1>1. FeedInit => FeedInv /\ OwedAhead
  <2>. FeedInit => OwedAhead
    BY DEF FeedInit, OwedAhead
  <2>. QED  BY FeedInitInv, FeedAssumption
<1>2. FeedInv /\ OwedAhead /\ [FeedNext]_feedVars => FeedInv' /\ OwedAhead'
  BY FeedInvNext, OwedNext, FeedAssumption
<1>. QED  BY <1>1, <1>2, PTL DEF FeedSpec

----------------------------------------------------------------------------
(* The presence.                                                           *)

\* A request in progress is one of the three, only a position is placed, and
\* where the profile's flag or the one to set is used next, it is known:
\* without this a heartbeat or a switch could send an unknown flag to Redis.
Carries(c) ==
  /\ c.pc # "idle" => c.op \in Ops
  /\ c.pc = "place" => c.op = "ingest"
  /\ c.pc = "touch" /\ c.op # "ingest" => c.flag # Unknown
  /\ c.pc = "update" \/ c.op = "set" => c.flag # Unknown
  /\ c.pc \in {"cache", "touch", "upsert"} => c.next # Unknown

PresenceInv == PresenceTypeOK /\ \A r \in Calls : Carries(call[r])

\* A flag that is not unknown is on or off.
LEMMA FlagValues == /\ Unknown \notin Flags /\ Flags \subseteq MaybeFlag
                    /\ Unknown \in MaybeFlag /\ \A f \in MaybeFlag \ {Unknown} : f \in Flags
                    /\ "on" \in Flags
BY DEF Unknown, Flags, MaybeFlag

\* An idle place carries nothing.
LEMMA IdleCarries == NoRequest \in Call /\ Carries(NoRequest)
BY DEF NoRequest, Call, Carries, Unknown, MaybeFlag, Ops

\* A step of one request.
LEMMA RequestMoves ==
  ASSUME PresenceInv, NEW r \in Calls, NEW next \in Call, Carries(next),
         call' = [call EXCEPT ![r] = next],
         enabled' \in Flags,
         profile' \in [Processes -> MaybeFlag], hash' \in MaybeFlag,
         memory' \in [Processes -> MaybeFlag],
         changes' \in 0..MaxChanges, silent' \in 0..MaxSilent
  PROVE  PresenceInv'
<1>1. call' \in [Calls -> Call] /\ \A s \in Calls : Carries(call'[s])
  BY DEF PresenceInv, PresenceTypeOK
<1>. QED  BY <1>1 DEF PresenceInv, PresenceTypeOK, Carries

\* What a step finds.
LEMMA Found ==
  ASSUME PresenceInv, PresenceAssumption, NEW r \in Calls
  PROVE  /\ call[r] \in Call /\ Carries(call[r])
         /\ call \in [Calls -> Call] /\ Home[r] \in Processes
         /\ profile[Home[r]] \in MaybeFlag
         /\ Touched(r) \in Flags
         /\ enabled \in Flags /\ hash \in MaybeFlag
         /\ profile \in [Processes -> MaybeFlag] /\ memory \in [Processes -> MaybeFlag]
         /\ changes \in 0..MaxChanges /\ silent \in 0..MaxSilent
BY FlagValues DEF PresenceInv, PresenceTypeOK, PresenceAssumption, Touched

\* Going on with a known profile.
LEMMA ProceedKeeps ==
  ASSUME PresenceInv, PresenceAssumption, NEW r \in Calls, NEW flag \in Flags,
         call[r].pc # "idle", Proceed(r, flag),
         profile' \in [Processes -> MaybeFlag], UNCHANGED <<enabled, hash, changes, silent>>
  PROVE  PresenceInv'
<1>. /\ call[r] \in Call /\ Carries(call[r]) /\ call \in [Calls -> Call]
     /\ Touched(r) \in Flags /\ Home[r] \in Processes
     /\ memory \in [Processes -> MaybeFlag] /\ hash \in MaybeFlag /\ enabled \in Flags
     /\ changes \in 0..MaxChanges /\ silent \in 0..MaxSilent
  BY Found
<1>1. call[r].op \in Ops
  BY DEF Carries
<1>2. CASE call[r].op = "ingest"
  <2>. DEFINE next == [call[r] EXCEPT !.pc = "place", !.flag = flag]
  <2>1. call' = [call EXCEPT ![r] = next] /\ memory' = memory
    BY <1>2 DEF Proceed
  <2>2. next \in Call /\ Carries(next)
    BY <1>2, FlagValues DEF Call, Carries, Ops
  <2>. HIDE DEF next
  <2>. QED  BY <2>1, <2>2, RequestMoves
<1>3. CASE call[r].op = "heartbeat"
  <2>. DEFINE next == [call[r] EXCEPT !.pc = "touch", !.flag = flag, !.next = Touched(r)]
  <2>1. call' = [call EXCEPT ![r] = next] /\ memory' = [memory EXCEPT ![Home[r]] = Touched(r)]
    BY <1>3 DEF Proceed, Remember
  <2>2. next \in Call /\ Carries(next)
    BY <1>3, FlagValues DEF Call, Carries, Ops
  <2>3. memory' \in [Processes -> MaybeFlag]
    BY <2>1, FlagValues
  <2>. HIDE DEF next
  <2>. QED  BY <2>1, <2>2, <2>3, RequestMoves
<1>4. CASE call[r].op = "set"
  <2>. DEFINE next == [call[r] EXCEPT !.pc = "update"]
  <2>1. call' = [call EXCEPT ![r] = next] /\ memory' = memory
    BY <1>4 DEF Proceed
  <2>2. next \in Call /\ Carries(next)
    BY <1>4, FlagValues DEF Call, Carries, Ops
  <2>. HIDE DEF next
  <2>. QED  BY <2>1, <2>2, RequestMoves
<1>. QED  BY <1>1, <1>2, <1>3, <1>4 DEF Ops

\* A request begins.
LEMMA BeginKeeps ==
  ASSUME PresenceInv, PresenceAssumption, NEW r \in Calls,
         IngestLocation(r) \/ Heartbeat(r) \/ SetPresence(r)
  PROVE  PresenceInv'
<1>. PICK op \in Ops, flag \in MaybeFlag :
       Begin(r, op, flag) /\ (op = "set" => flag # Unknown) /\ changes' \in 0..MaxChanges
  BY Found, FlagValues DEF IngestLocation, Heartbeat, SetPresence, Ops, PresenceAssumption
<1>. DEFINE next == [NoRequest EXCEPT !.op = op, !.pc = "load", !.flag = flag]
<1>1. next \in Call /\ Carries(next)
  BY FlagValues DEF NoRequest, Call, Carries, Ops
<1>2. call' = [call EXCEPT ![r] = next] /\ UNCHANGED <<enabled, profile, hash, memory, silent>>
  BY DEF Begin
<1>. HIDE DEF next
<1>. QED  BY <1>1, <1>2, Found, RequestMoves

\* A request goes on.
LEMMA CallKeeps ==
  ASSUME PresenceInv, PresenceAssumption, NEW r \in Calls,
         CallStep(r) \/ WriteUnheard(r) \/ RedisSilent(r)
  PROVE  PresenceInv'
<1>. /\ call[r] \in Call /\ Carries(call[r]) /\ call \in [Calls -> Call]
     /\ Touched(r) \in Flags /\ Home[r] \in Processes
     /\ profile[Home[r]] \in MaybeFlag
     /\ enabled \in Flags /\ hash \in MaybeFlag
     /\ profile \in [Processes -> MaybeFlag] /\ memory \in [Processes -> MaybeFlag]
     /\ changes \in 0..MaxChanges /\ silent \in 0..MaxSilent
  BY Found
<1>0. call[r].next \in MaybeFlag /\ call[r].flag \in MaybeFlag
  BY DEF Call
<1>1. CASE UseCachedProfile(r)
  <2>1. profile[Home[r]] \in Flags
    BY <1>1, FlagValues DEF UseCachedProfile
  <2>. QED  BY <1>1, <2>1, ProceedKeeps DEF UseCachedProfile
<1>2. CASE ReadProfile(r)
  <2>. DEFINE next == [call[r] EXCEPT !.pc = "cache", !.next = enabled]
  <2>1. next \in Call /\ Carries(next)
    BY <1>2, FlagValues DEF ReadProfile, Call, Carries
  <2>2. call' = [call EXCEPT ![r] = next]
        /\ UNCHANGED <<enabled, profile, hash, memory, changes, silent>>
    BY <1>2 DEF ReadProfile
  <2>. HIDE DEF next
  <2>. QED  BY <2>1, <2>2, RequestMoves
<1>3. CASE CacheProfile(r)
  <2>1. call[r].next \in Flags
    BY <1>0, <1>3, FlagValues DEF CacheProfile, Carries
  <2>2. profile' \in [Processes -> MaybeFlag]
    BY <1>0, <1>3 DEF CacheProfile
  <2>. QED  BY <1>3, <2>1, <2>2, ProceedKeeps DEF CacheProfile
<1>4. CASE PlaceDriver(r)
  <2>. DEFINE next == [call[r] EXCEPT !.pc = "touch", !.next = Touched(r)]
  <2>1. next \in Call /\ Carries(next)
    BY <1>4, FlagValues DEF PlaceDriver, Call, Carries
  <2>2. call' = [call EXCEPT ![r] = next] /\ UNCHANGED <<enabled, profile, hash, changes, silent>>
    BY <1>4 DEF PlaceDriver
  <2>3. memory' \in [Processes -> MaybeFlag]
    BY <1>4, FlagValues DEF PlaceDriver, Remember
  <2>. HIDE DEF next
  <2>. QED  BY <2>1, <2>2, <2>3, RequestMoves
<1>5. CASE \/ TouchHash(r) /\ call[r].op = "ingest"
           \/ UpsertHash(r)
           \/ RedisSilent(r) /\ ~(call[r].op = "heartbeat" /\ call[r].pc = "touch")
  <2>1. call' = [call EXCEPT ![r] = NoRequest] /\ UNCHANGED <<enabled, profile, memory, changes>>
    BY <1>5 DEF TouchHash, UpsertHash, RedisSilent
  <2>2. hash' \in MaybeFlag /\ silent' \in 0..MaxSilent
    BY <1>0, <1>5 DEF TouchHash, UpsertHash, RedisSilent, PresenceAssumption
  <2>. QED  BY <2>1, <2>2, IdleCarries, RequestMoves
<1>6. CASE \/ TouchHash(r) /\ call[r].op # "ingest"
           \/ RedisSilent(r) /\ call[r].op = "heartbeat" /\ call[r].pc = "touch"
           \/ UpdateDriver(r)
  <2>. DEFINE next == [call[r] EXCEPT !.pc = "upsert", !.next = call[r].flag]
  <2>1. call[r].flag \in Flags
    BY <1>0, <1>6, FlagValues DEF TouchHash, RedisSilent, UpdateDriver, Carries
  <2>2. next \in Call /\ Carries(next)
    BY <1>6, <2>1, FlagValues DEF TouchHash, RedisSilent, UpdateDriver, Call, Carries
  <2>3. call' = [call EXCEPT ![r] = next] /\ memory' = [memory EXCEPT ![Home[r]] = call[r].flag]
        /\ changes' = changes
    BY <1>6 DEF TouchHash, RedisSilent, UpdateDriver, Remember
  <2>4. enabled' \in Flags /\ hash' \in MaybeFlag /\ silent' \in 0..MaxSilent
        /\ profile' \in [Processes -> MaybeFlag] /\ memory' \in [Processes -> MaybeFlag]
    BY <1>0, <1>6, <2>1, <2>3, FlagValues
       DEF TouchHash, RedisSilent, UpdateDriver, PresenceAssumption
  <2>. HIDE DEF next
  <2>. QED  BY <2>2, <2>3, <2>4, RequestMoves
<1>7. CASE WriteUnheard(r)
  <2>1. call' = [call EXCEPT ![r] = call[r]]
        /\ UNCHANGED <<enabled, profile, memory, changes>>
    BY <1>7 DEF WriteUnheard
  <2>2. hash' \in MaybeFlag /\ silent' \in 0..MaxSilent
    BY <1>0, <1>7 DEF WriteUnheard, PresenceAssumption
  <2>. QED  BY <2>1, <2>2, RequestMoves
<1>. QED  BY <1>1, <1>2, <1>3, <1>4, <1>5, <1>6, <1>7 DEF CallStep

\* What happens to a process: reads, lifetimes and restarts.
LEMMA ProcessKeeps ==
  ASSUME PresenceInv, PresenceAssumption, NEW p \in Processes,
         \/ ReadPresence(p) \/ ProfileExpires(p) \/ MemoryExpires(p) \/ ProcessRestarts(p)
  PROVE  PresenceInv'
<1>1. CASE ReadPresence(p) \/ ProfileExpires(p) \/ MemoryExpires(p)
  BY <1>1, FlagValues
     DEF ReadPresence, ProfileExpires, MemoryExpires, PresenceInv, PresenceTypeOK, Carries
<1>2. CASE ProcessRestarts(p)
  <2>1. call' \in [Calls -> Call] /\ \A r \in Calls : Carries(call'[r])
    BY <1>2, IdleCarries DEF ProcessRestarts, PresenceInv, PresenceTypeOK
  <2>2. /\ profile' \in [Processes -> MaybeFlag] /\ memory' \in [Processes -> MaybeFlag]
        /\ silent' \in 0..MaxSilent /\ UNCHANGED <<enabled, hash, changes>>
    BY <1>2, FlagValues DEF ProcessRestarts, PresenceInv, PresenceTypeOK, PresenceAssumption
  <2>. QED  BY <2>1, <2>2 DEF PresenceInv, PresenceTypeOK, Carries
<1>. QED  BY <1>1, <1>2

\* Flags and requests about a driver stay well-formed, and what is on its way
\* to Redis is on or off: no cached profile, forgotten presence or restart
\* has a request write a flag nobody set.
THEOREM PresenceTyping == PresenceSpec => []PresenceTypeOK
<1>1. PresenceInit => PresenceInv
  BY IdleCarries, FlagValues, PresenceAssumption
     DEF PresenceInit, PresenceInv, PresenceTypeOK, PresenceAssumption, Carries
<1>2. PresenceInv /\ [PresenceNext]_presenceVars => PresenceInv'
  <2>. SUFFICES ASSUME PresenceInv, [PresenceNext]_presenceVars PROVE PresenceInv'
    OBVIOUS
  <2>1. CASE UNCHANGED presenceVars
    BY <2>1 DEF presenceVars, PresenceInv, PresenceTypeOK, Carries
  <2>2. CASE HashExpires
    BY <2>2, FlagValues DEF HashExpires, PresenceInv, PresenceTypeOK, Carries
  <2>. QED  BY <2>1, <2>2, BeginKeeps, CallKeeps, ProcessKeeps, PresenceAssumption DEF PresenceNext
<1>3. PresenceInv => PresenceTypeOK
  BY DEF PresenceInv
<1>. QED  BY <1>1, <1>2, <1>3, PTL DEF PresenceSpec

----------------------------------------------------------------------------
(* The two together.                                                       *)

\* Each step of the live map is a step of one of its parts, and the other rests.
LEMMA LiveMapParts == LiveMapSpec => FeedSpec /\ PresenceSpec
<1>1. LiveMapInit => FeedInit /\ PresenceInit
  BY DEF LiveMapInit
<1>2. [LiveMapNext]_liveMapVars => [FeedNext]_feedVars /\ [PresenceNext]_presenceVars
  BY DEF LiveMapNext, liveMapVars
<1>. QED  BY <1>1, <1>2, PTL DEF LiveMapSpec, FeedSpec, PresenceSpec

\* Whichever part moves, the feed and the presence stay well-formed.
THEOREM LiveMapTyping == LiveMapSpec => []TypeOK
BY LiveMapParts, FeedTyping, PresenceTyping, PTL DEF TypeOK
=============================================================================
