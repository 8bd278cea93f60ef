----------------------------- MODULE MCLiveMap -----------------------------
(***************************************************************************)
(* The live map: the feed of its events and the presence of a driver.      *)
(* They share no variable, since what the map shows of a driver is read    *)
(* from Redis and an event only says that something changed: one run       *)
(* explores each of them while the other rests.                            *)
(***************************************************************************)
EXTENDS EventFeed, DriverPresence

CONSTANTS p1, p2, c1, c2, e1, e2, h1, h2

VARIABLE side     \* the one that moves

MCAt    == [c \in Watchers |-> IF c = c1 THEN p1 ELSE p2]
MCWants == [c \in Watchers |-> IF c = c1 THEN Events ELSE Events \ {e2}]
MCHome  == [r \in Calls |-> IF r = h1 THEN p1 ELSE p2]

liveMapVars == <<feedVars, presenceVars, side>>

LiveMapInit ==
  /\ FeedInit /\ PresenceInit
  /\ side \in {"feed", "presence"}

LiveMapNext ==
  /\ \/ side = "feed" /\ FeedNext /\ UNCHANGED presenceVars
     \/ side = "presence" /\ PresenceNext /\ UNCHANGED feedVars
  /\ UNCHANGED side

\* The consumers' loops go on, requests are served and cached profiles expire.
LiveMapFairness ==
  /\ \A p \in Procs : WF_feedVars(side = "feed" /\ (CallXread(p) \/ Receive(p) \/ BlockEnds(p)))
  /\ \A r \in Calls : WF_presenceVars(side = "presence" /\ CallStep(r))
  /\ \A p \in Processes : WF_presenceVars(side = "presence" /\ ProfileExpires(p))

LiveMapSpec == LiveMapInit /\ [][LiveMapNext]_liveMapVars /\ LiveMapFairness

\* The components' types.
TypeOK == FeedTypeOK /\ PresenceTypeOK
=============================================================================
