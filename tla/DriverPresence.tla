--------------------------- MODULE DriverPresence ---------------------------
(***************************************************************************)
(* Whether a driver shares his position, in the four places that say so:   *)
(* his row in the database, the profile each process caches for a minute,  *)
(* the presence hash in Redis, which the map shows, and the presence each  *)
(* process remembers for a day.                                            *)
(*                                                                         *)
(* A position or a heartbeat writes to Redis what the process remembers,   *)
(* and `on' when it remembers nothing; only a heartbeat then goes on to    *)
(* write what the profile says.  So the flag in Redis may be wrong for a   *)
(* while, and what keeps it right in the end is the heartbeats.            *)
(***************************************************************************)
EXTENDS Integers

CONSTANTS
  Processes,   \* the API processes
  Calls,       \* requests about the driver that may be in progress at once
  Home,        \* the process each of them runs in
  MaxChanges,  \* bound on the times the driver is switched
  MaxSilent    \* bound on calls Redis does not answer, and on restarts

ASSUME PresenceAssumption ==
  /\ Home \in [Calls -> Processes]
  /\ MaxChanges \in Nat
  /\ MaxSilent \in Nat

VARIABLES
  enabled,    \* User.liveLocationEnabled
  profile,    \* the flag of the cached profile, by process
  hash,       \* the flag in Redis
  memory,     \* the flag each process remembers
  call,       \* the requests in progress
  changes,    \* switches so far
  silent      \* faults so far

presenceVars == <<enabled, profile, hash, memory, call, changes, silent>>

----------------------------------------------------------------------------
Flags    == {"on", "off"}
Unknown  == "unknown"
MaybeFlag == Flags \cup {Unknown}

Ops == {"ingest", "heartbeat", "set"}

Call == [op   : Ops \cup {"none"},
         pc   : {"idle", "load", "cache", "place", "touch", "update", "upsert"},
         flag : MaybeFlag,    \* the profile's, or the one to set
         next : MaybeFlag]    \* the presence on its way to Redis
NoRequest == [op |-> "none", pc |-> "idle", flag |-> Unknown, next |-> Unknown]

\* A driver shares his position when his account is made.
PresenceInit ==
  /\ enabled = "on"
  /\ profile = [p \in Processes |-> Unknown]
  /\ hash = Unknown
  /\ memory = [p \in Processes |-> Unknown]
  /\ call = [r \in Calls |-> NoRequest]
  /\ changes = 0
  /\ silent = 0

----------------------------------------------------------------------------
(* What each request does once it has the driver's profile.                *)

\* Mutant of Touched: a process that remembers nothing leaves the flag open.
TouchedAsIs(r) == memory[Home[r]]

\* touchDriverPresenceHeartbeat: memory now, Redis in the next step.
Touched(r) == IF memory[Home[r]] = Unknown THEN "on" ELSE memory[Home[r]]
Remember(r, flag) == memory' = [memory EXCEPT ![Home[r]] = flag]

\* With the profile at hand a position is stored, a heartbeat touches the
\* presence, a switch goes to the database.
Proceed(r, flag) ==
  CASE call[r].op = "ingest" ->
         /\ call' = [call EXCEPT ![r].pc = "place", ![r].flag = flag]
         /\ UNCHANGED memory
    [] call[r].op = "heartbeat" ->
         /\ Remember(r, Touched(r))
         /\ call' = [call EXCEPT ![r].pc = "touch", ![r].flag = flag, ![r].next = Touched(r)]
    [] call[r].op = "set" ->
         /\ call' = [call EXCEPT ![r].pc = "update"]
         /\ UNCHANGED memory

\* getDriverProfile.
Begin(r, op, flag) ==
  /\ call[r].pc = "idle"
  /\ call' = [call EXCEPT ![r] = [NoRequest EXCEPT !.op = op, !.pc = "load", !.flag = flag]]
  /\ UNCHANGED <<enabled, profile, hash, memory, silent>>

IngestLocation(r) == Begin(r, "ingest", Unknown) /\ UNCHANGED changes
Heartbeat(r)      == Begin(r, "heartbeat", Unknown) /\ UNCHANGED changes

SetPresence(r) ==
  /\ changes < MaxChanges
  /\ changes' = changes + 1
  /\ \E flag \in Flags : Begin(r, "set", flag)

UseCachedProfile(r) ==
  /\ call[r].pc = "load"
  /\ profile[Home[r]] # Unknown
  /\ Proceed(r, profile[Home[r]])
  /\ UNCHANGED <<enabled, profile, hash, changes, silent>>

\* The row is read ...
ReadProfile(r) ==
  /\ call[r].pc = "load"
  /\ profile[Home[r]] = Unknown
  /\ call' = [call EXCEPT ![r].pc = "cache", ![r].next = enabled]
  /\ UNCHANGED <<enabled, profile, hash, memory, changes, silent>>

\* ... and cached when the answer is there.
CacheProfile(r) ==
  /\ call[r].pc = "cache"
  /\ profile' = [profile EXCEPT ![Home[r]] = call[r].next]
  /\ Proceed(r, call[r].next)
  /\ UNCHANGED <<enabled, hash, changes, silent>>

\* The position is stored (where the driver is does not matter here), then the
\* presence is touched.
PlaceDriver(r) ==
  /\ call[r].pc = "place"
  /\ Remember(r, Touched(r))
  /\ call' = [call EXCEPT ![r].pc = "touch", ![r].next = Touched(r)]
  /\ UNCHANGED <<enabled, profile, hash, changes, silent>>

\* Mutant of TouchHash: the heartbeat keeps the flag it touched.
TouchHashOnly(r) ==
  /\ call[r].pc = "touch"
  /\ hash' = call[r].next
  /\ call' = [call EXCEPT ![r] = NoRequest]
  /\ UNCHANGED <<enabled, profile, memory, changes, silent>>

\* The touched presence reaches Redis.  A position is done, a heartbeat goes
\* on to the flag of the profile.
TouchHash(r) ==
  /\ call[r].pc = "touch"
  /\ hash' = call[r].next
  /\ IF call[r].op = "ingest"
     THEN /\ call' = [call EXCEPT ![r] = NoRequest]
          /\ UNCHANGED memory
     ELSE /\ Remember(r, call[r].flag)
          /\ call' = [call EXCEPT ![r].pc = "upsert", ![r].next = call[r].flag]
  /\ UNCHANGED <<enabled, profile, changes, silent>>

\* The switch: the row, then the profile cached here, then the presence
\* (what is read from Redis before it is written leaves no trace).
UpdateDriver(r) ==
  /\ call[r].pc = "update"
  /\ enabled' = call[r].flag
  /\ profile' = [profile EXCEPT ![Home[r]] = call[r].flag]
  /\ Remember(r, call[r].flag)
  /\ call' = [call EXCEPT ![r].pc = "upsert", ![r].next = call[r].flag]
  /\ UNCHANGED <<hash, changes, silent>>

UpsertHash(r) ==
  /\ call[r].pc = "upsert"
  /\ hash' = call[r].next
  /\ call' = [call EXCEPT ![r] = NoRequest]
  /\ UNCHANGED <<enabled, profile, memory, changes, silent>>

\* Redis wrote the flag and the connection broke: the client is going to send
\* the same again, over what was written since.
WriteUnheard(r) ==
  /\ silent < MaxSilent
  /\ silent' = silent + 1
  /\ call[r].pc \in {"touch", "upsert"}
  /\ hash' = call[r].next
  /\ UNCHANGED <<enabled, profile, memory, call, changes>>

\* Redis does not answer: logged, and the request goes on.
RedisSilent(r) ==
  /\ silent < MaxSilent
  /\ silent' = silent + 1
  /\ call[r].pc \in {"touch", "upsert"}
  /\ IF call[r].op = "heartbeat" /\ call[r].pc = "touch"
     THEN /\ Remember(r, call[r].flag)
          /\ call' = [call EXCEPT ![r].pc = "upsert", ![r].next = call[r].flag]
     ELSE /\ call' = [call EXCEPT ![r] = NoRequest]
          /\ UNCHANGED memory
  /\ UNCHANGED <<enabled, profile, hash, changes>>

\* Whoever asks for a presence, or for the map, has the process remember
\* what Redis says.
ReadPresence(p) ==
  /\ hash # Unknown
  /\ memory' = [memory EXCEPT ![p] = hash]
  /\ UNCHANGED <<enabled, profile, hash, call, changes, silent>>

----------------------------------------------------------------------------
(* Lifetimes and restarts.                                                 *)

ProfileExpires(p) ==
  /\ profile[p] # Unknown
  /\ profile' = [profile EXCEPT ![p] = Unknown]
  /\ UNCHANGED <<enabled, hash, memory, call, changes, silent>>

MemoryExpires(p) ==
  /\ memory[p] # Unknown
  /\ memory' = [memory EXCEPT ![p] = Unknown]
  /\ UNCHANGED <<enabled, profile, hash, call, changes, silent>>

HashExpires ==
  /\ hash # Unknown
  /\ hash' = Unknown
  /\ UNCHANGED <<enabled, profile, memory, call, changes, silent>>

ProcessRestarts(p) ==
  /\ silent < MaxSilent
  /\ silent' = silent + 1
  /\ profile' = [profile EXCEPT ![p] = Unknown]
  /\ memory' = [memory EXCEPT ![p] = Unknown]
  /\ call' = [r \in Calls |-> IF Home[r] = p THEN NoRequest ELSE call[r]]
  /\ UNCHANGED <<enabled, hash, changes>>

----------------------------------------------------------------------------
CallStep(r) ==
  \/ UseCachedProfile(r) \/ ReadProfile(r) \/ CacheProfile(r)
  \/ PlaceDriver(r) \/ TouchHash(r) \/ UpdateDriver(r) \/ UpsertHash(r)

PresenceNext ==
  \/ \E r \in Calls :
       \/ IngestLocation(r) \/ Heartbeat(r) \/ SetPresence(r)
       \/ CallStep(r) \/ WriteUnheard(r) \/ RedisSilent(r)
  \/ \E p \in Processes :
       \/ ReadPresence(p) \/ ProfileExpires(p) \/ MemoryExpires(p) \/ ProcessRestarts(p)
  \/ HashExpires

PresenceSpec == PresenceInit /\ [][PresenceNext]_presenceVars

----------------------------------------------------------------------------
\* Flags and requests are well-formed; what is on its way to Redis is on or off.
PresenceTypeOK ==
  /\ enabled \in Flags
  /\ profile \in [Processes -> MaybeFlag]
  /\ hash \in MaybeFlag
  /\ memory \in [Processes -> MaybeFlag]
  /\ call \in [Calls -> Call]
  /\ \A r \in Calls : call[r].pc \in {"cache", "touch", "upsert"} => call[r].next # Unknown
  /\ changes \in 0..MaxChanges
  /\ silent \in 0..MaxSilent

\* As long as heartbeats come, Redis says again and again what the row says:
\* no cached profile, remembered presence or late request makes a wrong flag
\* last.  (It need not stay right: a position sent to a process with an old
\* memory makes it wrong until the next heartbeat.)
PresenceSettles ==
  []<>(\E r \in Calls : call[r].op = "heartbeat") => []<>(hash = enabled)
=============================================================================
