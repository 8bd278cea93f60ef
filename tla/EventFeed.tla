----------------------------- MODULE EventFeed -----------------------------
(***************************************************************************)
(* How an event reaches the browsers that watch: the live map's feed and   *)
(* the feed of analytics invalidations, which are built alike.             *)
(*                                                                         *)
(* A process that publishes tells its own watchers at once and appends the *)
(* event to a stream in Redis; every process follows the stream from where *)
(* it last stood and tells its watchers.  A process that has not received  *)
(* anything yet asks for what comes after its call, again and again, and   *)
(* misses what is appended between two calls.                              *)
(***************************************************************************)
EXTENDS Integers, Sequences, SequencesExt

CONSTANTS
  Procs,       \* the API processes
  Watchers,    \* browsers with an event stream open, or not
  At,          \* the process each of them is connected to
  Events,      \* the events that may be published
  Wants,       \* the events each watcher is let to see: role, warehouse, viewport
  MaxBatch,    \* entries an XREAD returns at most, 100 in the code
  MaxFaults    \* bound on failed calls and restarts

ASSUME FeedAssumption ==
  /\ At \in [Watchers -> Procs]
  /\ Wants \in [Watchers -> SUBSET Events]
  /\ MaxBatch \in Nat \ {0}
  /\ MaxFaults \in Nat

VARIABLES
  stream,     \* the entries of the stream, the number of an entry is its id
  sending,    \* events told locally and not yet appended, by process
  consumer,   \* what each process knows of the stream
  watching,   \* the watchers connected
  owed,       \* events a watcher is to be sent from the stream
  faults

feedVars == <<stream, sending, consumer, watching, owed, faults>>

----------------------------------------------------------------------------
\* streamLastId: "$" until the first entry comes.
End    == -1
NoCall == -1

Consumer == [running : BOOLEAN,
             last    : Nat \cup {End},
             call    : Nat \cup {NoCall},  \* where the pending XREAD reads from
             heard   : SUBSET Nat]         \* entries passed on since the process started
Stopped == [running |-> FALSE, last |-> End, call |-> NoCall, heard |-> {}]

FeedInit ==
  /\ stream = <<>>
  /\ sending = [p \in Procs |-> {}]
  /\ consumer = [p \in Procs |-> Stopped]
  /\ watching = {}
  /\ owed = [c \in Watchers |-> {}]
  /\ faults = 0

Published == ToSet(stream) \cup UNION {sending[p] : p \in Procs}

----------------------------------------------------------------------------
(* Watchers.                                                               *)

\* The live map starts its consumer with the first watcher, analytics with
\* the server.
ensureConsumer(p) ==
  consumer' = [consumer EXCEPT ![p].running = TRUE]

ServerStarts(p) ==
  /\ ~consumer[p].running
  /\ ensureConsumer(p)
  /\ UNCHANGED <<stream, sending, watching, owed, faults>>

Watch(c) ==
  /\ c \notin watching
  /\ watching' = watching \cup {c}
  /\ ensureConsumer(At[c])
  /\ UNCHANGED <<stream, sending, owed, faults>>

Leave(c) ==
  /\ c \in watching
  /\ watching' = watching \ {c}
  /\ owed' = [owed EXCEPT ![c] = {}]
  /\ UNCHANGED <<stream, sending, consumer, faults>>

----------------------------------------------------------------------------
(* Publishing.                                                             *)

\* The watchers of the process are told before anything is awaited.
Emit(p, e) ==
  /\ e \notin Published
  /\ sending' = [sending EXCEPT ![p] = @ \cup {e}]
  /\ UNCHANGED <<stream, consumer, watching, owed, faults>>

\* Whoever watches at a process that knows its place in the stream is owed
\* the entry, the watchers of the publishing process once more.
OwedWith(e) ==
  [c \in Watchers |->
    IF c \in watching /\ e \in Wants[c] /\ consumer[At[c]].last # End
    THEN owed[c] \cup {e} ELSE owed[c]]

AppendEntry(p, e) ==
  /\ e \in sending[p]
  /\ sending' = [sending EXCEPT ![p] = @ \ {e}]
  /\ stream' = Append(stream, e)
  /\ owed' = OwedWith(e)
  /\ UNCHANGED <<consumer, watching, faults>>

\* The connection breaks before the answer of XADD comes: the entry is there,
\* and the client is going to send it again.
AppendUnheard(p, e) ==
  /\ faults < MaxFaults
  /\ faults' = faults + 1
  /\ e \in sending[p]
  /\ stream' = Append(stream, e)
  /\ owed' = OwedWith(e)
  /\ UNCHANGED <<sending, consumer, watching>>

\* The error is logged: the other processes never hear of the event.
AppendFails(p, e) ==
  /\ faults < MaxFaults
  /\ faults' = faults + 1
  /\ e \in sending[p]
  /\ sending' = [sending EXCEPT ![p] = @ \ {e}]
  /\ UNCHANGED <<stream, consumer, watching, owed>>

----------------------------------------------------------------------------
(* The consumer's loop.                                                    *)

\* Mutant of CallXread: the place in the stream is not remembered.
CallXreadFromEnd(p) ==
  /\ consumer[p].running /\ consumer[p].call = NoCall
  /\ consumer' = [consumer EXCEPT ![p].call = Len(stream)]
  /\ UNCHANGED <<stream, sending, watching, owed, faults>>

\* XREAD: after the last id, or after whatever is there when it is called.
CallXread(p) ==
  /\ consumer[p].running /\ consumer[p].call = NoCall
  /\ consumer' = [consumer EXCEPT
       ![p].call = IF consumer[p].last = End THEN Len(stream) ELSE consumer[p].last]
  /\ UNCHANGED <<stream, sending, watching, owed, faults>>

\* Mutant of Receive: the place is the end of the stream, not the last entry.
ReceiveToEnd(p) ==
  /\ consumer[p].call # NoCall /\ consumer[p].call < Len(stream)
  /\ LET i == consumer[p].call + 1
     IN  /\ consumer' = [consumer EXCEPT ![p].call = NoCall, ![p].last = Len(stream),
                                         ![p].heard = @ \cup {i}]
         /\ owed' = [c \in Watchers |->
              IF At[c] = p THEN owed[c] \ {stream[i]} ELSE owed[c]]
  /\ UNCHANGED <<stream, sending, watching, faults>>

\* The entries come, at most so many; each is passed on to the watchers.
Receive(p) ==
  /\ consumer[p].call # NoCall /\ consumer[p].call < Len(stream)
  /\ \E n \in 1..MaxBatch :
       /\ consumer[p].call + n <= Len(stream)
       /\ LET first == consumer[p].call + 1
              upTo  == consumer[p].call + n
          IN  /\ consumer' = [consumer EXCEPT ![p].call = NoCall, ![p].last = upTo,
                                              ![p].heard = @ \cup first..upTo]
              /\ owed' = [c \in Watchers |->
                   IF At[c] = p THEN owed[c] \ ToSet(SubSeq(stream, first, upTo)) ELSE owed[c]]
  /\ UNCHANGED <<stream, sending, watching, faults>>

\* Nothing came within two seconds.
BlockEnds(p) ==
  /\ consumer[p].call = Len(stream)
  /\ consumer' = [consumer EXCEPT ![p].call = NoCall]
  /\ UNCHANGED <<stream, sending, watching, owed, faults>>

\* The call fails, its answer with it; the loop goes on after a while.
XreadFails(p) ==
  /\ faults < MaxFaults
  /\ faults' = faults + 1
  /\ consumer[p].call # NoCall
  /\ consumer' = [consumer EXCEPT ![p].call = NoCall]
  /\ UNCHANGED <<stream, sending, watching, owed>>

\* The process restarts: its watchers are gone, and its place in the stream.
Restart(p) ==
  /\ faults < MaxFaults
  /\ faults' = faults + 1
  /\ consumer' = [consumer EXCEPT ![p] = Stopped]
  /\ sending' = [sending EXCEPT ![p] = {}]
  /\ watching' = {c \in watching : At[c] # p}
  /\ owed' = [c \in Watchers |-> IF At[c] = p THEN {} ELSE owed[c]]
  /\ UNCHANGED stream

----------------------------------------------------------------------------
FeedNext ==
  \/ \E c \in Watchers : Watch(c) \/ Leave(c)
  \/ \E p \in Procs :
       \/ ServerStarts(p)
       \/ \E e \in Events : \/ Emit(p, e) \/ AppendEntry(p, e)
                            \/ AppendUnheard(p, e) \/ AppendFails(p, e)
       \/ CallXread(p) \/ Receive(p) \/ BlockEnds(p) \/ XreadFails(p) \/ Restart(p)

FeedSpec == FeedInit /\ [][FeedNext]_feedVars

----------------------------------------------------------------------------
\* The stream and what each process and watcher is waiting for are well-formed.
FeedTypeOK ==
  /\ stream \in Seq(Events)
  /\ sending \in [Procs -> SUBSET Events]
  /\ consumer \in [Procs -> Consumer]
  /\ watching \in SUBSET Watchers
  /\ owed \in [Watchers -> SUBSET Events]
  /\ faults \in 0..MaxFaults

\* From the first entry a process receives to the last it passes on every
\* one, whichever calls fail or come back empty in between.
NoGap ==
  \A p \in Procs :
    LET h == consumer[p].heard
    IN  /\ h = {} <=> consumer[p].last = End
        /\ \A i \in h : \A j \in i..consumer[p].last : j \in h

\* What a watcher is owed lies ahead of its process's place in the stream: no
\* answer, however many entries it brings, moves the place past one unsent.
OwedAhead ==
  \A c \in Watchers : \A e \in owed[c] :
    /\ c \in watching
    /\ consumer[At[c]].last # End
    /\ \E i \in DOMAIN stream : i > consumer[At[c]].last /\ stream[i] = e

\* An entry that a watcher is owed is sent to it, as long as it stays and its
\* process runs: no place in the stream is skipped, no call waits for ever.
OwedIsSent ==
  \A c \in Watchers, e \in Events : e \in owed[c] ~> e \notin owed[c]
=============================================================================
