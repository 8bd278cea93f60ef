------------------------------ MODULE Accounts ------------------------------
(***************************************************************************)
(* Accounts, sessions and what a request is allowed as.                    *)
(*                                                                         *)
(* Every operation reads, awaits a hash or another query, and writes: an   *)
(* account found may be gone when its session is inserted, and an account  *)
(* loaded for a request may be gone when it is cached.  The access token   *)
(* carries the account's warehouse; auth() believes the token, the cache   *)
(* or the row, by AUTH_DB_LOOKUP_MODE.  One API process is modelled, with  *)
(* its cache.  The manager who acts is not among Ids: nobody deletes his   *)
(* own account.                                                            *)
(***************************************************************************)
EXTENDS Integers, FiniteSets

CONSTANTS
  Ids,           \* the ids accounts may get; none is used twice
  Emails,
  Passwords,
  Warehouses,
  Sessions,      \* the ids refresh sessions may get
  Requests,      \* requests in progress at once
  None,          \* null
  MaxChanges     \* bound on new passwords, new warehouses and failing queries

ASSUME AccountsAssumption ==
  /\ MaxChanges \in Nat
  /\ None \notin Ids \cup Emails \cup Passwords \cup Warehouses \cup Sessions

VARIABLES
  mode,       \* AUTH_DB_LOOKUP_MODE
  account,    \* the User rows
  used,       \* the ids given out
  owned,      \* what refers to the account: orders as customer, or as driver
  session,    \* the UserRefreshSession rows: account and state
  tokens,     \* the access tokens people hold that have not expired
  cache,      \* authUserCache: what it says and whether its time is up
  request,    \* the requests in progress
  changed     \* how often the bounded steps happened

accountsVars == <<mode, account, used, owned, session, tokens, cache, request, changed>>

----------------------------------------------------------------------------
Modes  == {"always", "cache_first", "token_or_cache"}
Roles  == {"customer", "driver"}
Places == Warehouses \cup {None}
References == {"customer", "driver"}

Row    == [email : Emails, password : Passwords, role : Roles, warehouse : Places]
ASSUME NullAssumption == None \notin Row

Claims == [id : Ids, warehouse : Places]
ClaimsOf(u) == [id |-> u, warehouse |-> account[u].warehouse]

Session == [id : Ids, state : {"good", "revoked", "expired"}]
Entry   == [who : Claims, old : BOOLEAN]

Request ==
  [at : {"idle"}]
    \cup [at : {"hashing"}, row : Row, login : BOOLEAN]
    \cup [at : {"granting"}, who : Claims]
    \cup [at : {"rotating"}, session : Sessions]
    \cup [at : {"rehashing"}, id : Ids, password : Passwords]
    \cup [at : {"deleting"}, id : Ids]
    \cup [at : {"loading"}, id : Ids]
    \cup [at : {"loaded", "acting"}, who : Claims]
Idle == [at |-> "idle"]

Live   == {u \in Ids : account[u] # None}
EmailTaken(e) == \E u \in Live : account[u].email = e

AccountsInit ==
  /\ mode \in Modes
  /\ account = [u \in Ids |-> None]
  /\ used = {}
  /\ owned = [u \in Ids |-> {}]
  /\ session = [s \in Sessions |-> None]
  /\ tokens = {}
  /\ cache = [u \in Ids |-> None]
  /\ request = [r \in Requests |-> Idle]
  /\ changed = 0

Become(r, next) == request' = [request EXCEPT ![r] = next]
Begin(r, next)  == request[r] = Idle /\ Become(r, next)
Change == changed < MaxChanges /\ changed' = changed + 1

----------------------------------------------------------------------------
(* Registration and login.                                                 *)

\* registerUser makes customers and logs them in; createUserAsManager makes
\* anyone, with a warehouse for drivers.  Both look for the email first and
\* then hash the password.
Register(r) ==
  /\ \E e \in Emails, p \in Passwords :
       /\ ~EmailTaken(e)
       /\ Begin(r, [at |-> "hashing", login |-> TRUE,
                    row |-> [email |-> e, password |-> p, role |-> "customer", warehouse |-> None]])
  /\ UNCHANGED <<mode, account, used, owned, session, tokens, cache, changed>>

CreateAsManager(r) ==
  /\ \E row \in Row :
       /\ row.role = "customer" => row.warehouse = None
       /\ ~EmailTaken(row.email)
       /\ Begin(r, [at |-> "hashing", login |-> FALSE, row |-> row])
  /\ UNCHANGED <<mode, account, used, owned, session, tokens, cache, changed>>

\* The insert: the unique email refuses whoever comes second.
InsertAccount(r) ==
  /\ request[r].at = "hashing"
  /\ IF EmailTaken(request[r].row.email)
     THEN Become(r, Idle) /\ UNCHANGED <<account, used>>
     ELSE \E u \in Ids \ used :
            /\ account' = [account EXCEPT ![u] = request[r].row]
            /\ used' = used \cup {u}
            /\ IF request[r].login
               THEN Become(r, [at |-> "granting",
                               who |-> [id |-> u, warehouse |-> request[r].row.warehouse]])
               ELSE Become(r, Idle)
  /\ UNCHANGED <<mode, owned, session, tokens, cache, changed>>

\* loginUser reads the account and compares the password; the claims of the
\* token are those read here.
Login(r) ==
  /\ \E u \in Live, p \in Passwords :
       /\ account[u].password = p
       /\ Begin(r, [at |-> "granting", who |-> ClaimsOf(u)])
  /\ UNCHANGED <<mode, account, used, owned, session, tokens, cache, changed>>

\* Mutant of Grant: the token is handed out whether its session is inserted or not.
GrantAnyway(r) ==
  /\ request[r].at = "granting"
  /\ IF request[r].who.id \in Live
     THEN \E s \in Sessions :
            /\ session[s] # None => session[s].state # "good"
            /\ session' = [session EXCEPT ![s] = [id |-> request[r].who.id, state |-> "good"]]
     ELSE UNCHANGED session
  /\ tokens' = tokens \cup {request[r].who}
  /\ Become(r, Idle)
  /\ UNCHANGED <<mode, account, used, owned, cache, changed>>

\* issueAuthSession: the token is signed, and handed out once its refresh
\* session is inserted, which the foreign key refuses for a deleted account.
\* (A row that is no longer good stays so: the model uses it for the next.)
Grant(r) ==
  /\ request[r].at = "granting"
  /\ IF request[r].who.id \in Live
     THEN \E s \in Sessions :
            /\ session[s] # None => session[s].state # "good"
            /\ session' = [session EXCEPT ![s] = [id |-> request[r].who.id, state |-> "good"]]
            /\ tokens' = tokens \cup {request[r].who}
     ELSE UNCHANGED <<session, tokens>>
  /\ Become(r, Idle)
  /\ UNCHANGED <<mode, account, used, owned, cache, changed>>

----------------------------------------------------------------------------
(* Refresh, logout, password.                                              *)

\* refreshUserSession finds the session good ...
Refresh(r) ==
  /\ \E s \in Sessions :
       /\ session[s] # None /\ session[s].state = "good"
       /\ Begin(r, [at |-> "rotating", session |-> s])
  /\ UNCHANGED <<mode, account, used, owned, session, tokens, cache, changed>>

\* ... and first names the session that replaces it, which is inserted only
\* by the next statement.  The foreign key is checked at once: the
\* transaction aborts, or finds no session to update, and nothing is granted.
Rotate(r) ==
  /\ request[r].at = "rotating"
  /\ Become(r, Idle)
  /\ UNCHANGED <<mode, account, used, owned, session, tokens, cache, changed>>

\* revokeRefreshSession.
Logout(s) ==
  /\ session[s] # None /\ session[s].state # "revoked"
  /\ session' = [session EXCEPT ![s].state = "revoked"]
  /\ UNCHANGED <<mode, account, used, owned, tokens, cache, request, changed>>

\* changeUserPassword, asked with a token: the old password is compared, the
\* new one hashed, then written if the account is still there.  The sessions
\* and tokens stay.
ChangePassword(r) ==
  /\ \E t \in tokens, p \in Passwords :
       /\ t.id \in Live /\ account[t.id].password # p
       /\ Begin(r, [at |-> "rehashing", id |-> t.id, password |-> p])
  /\ Change
  /\ UNCHANGED <<mode, account, used, owned, session, tokens, cache>>

WritePassword(r) ==
  /\ request[r].at = "rehashing"
  /\ account' = [u \in Ids |-> IF u = request[r].id /\ u \in Live
                               THEN [account[u] EXCEPT !.password = request[r].password]
                               ELSE account[u]]
  /\ Become(r, Idle)
  /\ UNCHANGED <<mode, used, owned, session, tokens, cache, changed>>

----------------------------------------------------------------------------
(* Deletion, and what refers to an account.                                *)

\* deleteUserAsManager counts what refers to the account ...
CountReferences(r) ==
  /\ \E u \in Live : owned[u] = {} /\ Begin(r, [at |-> "deleting", id |-> u])
  /\ UNCHANGED <<mode, account, used, owned, session, tokens, cache, changed>>

\* Mutant of DeleteAccount: the sessions are left behind.
DeleteAccountOnly(r) ==
  /\ request[r].at = "deleting"
  /\ LET u == request[r].id
     IN IF u \in Live /\ "customer" \notin owned[u]
        THEN /\ account' = [account EXCEPT ![u] = None]
             /\ owned' = [owned EXCEPT ![u] = {}]
        ELSE UNCHANGED <<account, owned>>
  /\ Become(r, Idle)
  /\ UNCHANGED <<mode, used, session, tokens, cache, changed>>

\* ... and deletes it.  An order placed since refuses (RESTRICT), one assigned
\* since loses its driver (SET NULL); the sessions go with the account
\* (CASCADE).  Tokens and cached entries stay.
DeleteAccount(r) ==
  /\ request[r].at = "deleting"
  /\ LET u == request[r].id
     IN IF u \in Live /\ "customer" \notin owned[u]
        THEN /\ account' = [account EXCEPT ![u] = None]
             /\ owned' = [owned EXCEPT ![u] = {}]
             /\ session' = [s \in Sessions |->
                              IF session[s] # None /\ session[s].id = u THEN None ELSE session[s]]
        ELSE UNCHANGED <<account, owned, session>>
  /\ Become(r, Idle)
  /\ UNCHANGED <<mode, used, tokens, cache, changed>>

\* An order of the account, or assigned to it (the orders' side).
ReferTo(u) ==
  /\ u \in Live
  /\ owned[u] = {}
  /\ owned' = [owned EXCEPT ![u] = {account[u].role}]
  /\ Change
  /\ UNCHANGED <<mode, account, used, session, tokens, cache, request>>

\* A manager gives a driver another warehouse.  No cache is told.
MoveDriver(u, w) ==
  /\ u \in Live /\ account[u].role = "driver" /\ account[u].warehouse # w
  /\ account' = [account EXCEPT ![u].warehouse = w]
  /\ Change
  /\ UNCHANGED <<mode, used, owned, session, tokens, cache, request>>

----------------------------------------------------------------------------
(* auth(): as whom a request with a token is served.                       *)

Remember(who) == cache' = [cache EXCEPT ![who.id] = [who |-> who, old |-> FALSE]]

\* token_or_cache: the tokens the code signs carry all that is asked for, so
\* the token is believed, and cached.
BelieveToken(r) ==
  /\ mode = "token_or_cache"
  /\ \E t \in tokens : Begin(r, [at |-> "acting", who |-> t]) /\ Remember(t)
  /\ UNCHANGED <<mode, account, used, owned, session, tokens, changed>>

\* Mutant of BelieveCache: whoever is asked for stays in the cache.
BelieveCacheAndRenew(r) ==
  /\ mode = "cache_first"
  /\ \E t \in tokens :
       /\ cache[t.id] # None
       /\ Begin(r, [at |-> "acting", who |-> cache[t.id].who])
       /\ Remember(cache[t.id].who)
  /\ UNCHANGED <<mode, account, used, owned, session, tokens, changed>>

\* cache_first: the entry, as long as its time is not up.
BelieveCache(r) ==
  /\ mode = "cache_first"
  /\ \E t \in tokens :
       /\ cache[t.id] # None
       /\ Begin(r, [at |-> "acting", who |-> cache[t.id].who])
  /\ UNCHANGED <<mode, account, used, owned, session, tokens, cache, changed>>

\* Without an entry, or always, the row is asked for.
AskRow(r) ==
  /\ \E t \in tokens :
       /\ \/ mode = "always"
          \/ mode = "cache_first" /\ cache[t.id] = None
       /\ Begin(r, [at |-> "loading", id |-> t.id])
  /\ UNCHANGED <<mode, account, used, owned, session, tokens, cache, changed>>

\* The row is read: a deleted account is refused ...
LoadRow(r) ==
  /\ request[r].at = "loading"
  /\ IF request[r].id \in Live
     THEN Become(r, [at |-> "loaded", who |-> ClaimsOf(request[r].id)])
     ELSE Become(r, Idle)
  /\ UNCHANGED <<mode, account, used, owned, session, tokens, cache, changed>>

\* ... any other is cached when the answer is there, and the request goes on.
CacheRow(r) ==
  /\ request[r].at = "loaded"
  /\ Remember(request[r].who)
  /\ Become(r, [request[r] EXCEPT !.at = "acting"])
  /\ UNCHANGED <<mode, account, used, owned, session, tokens, changed>>

Answered(r) ==
  /\ request[r].at = "acting"
  /\ Become(r, Idle)
  /\ UNCHANGED <<mode, account, used, owned, session, tokens, cache, changed>>

----------------------------------------------------------------------------
(* Time and failures.                                                      *)

\* AUTH_USER_CACHE_TTL_MS: time passes, then the entry is dropped, by the
\* cleanup or when it is asked for.
CacheAges(u) ==
  /\ cache[u] # None /\ ~cache[u].old
  /\ cache' = [cache EXCEPT ![u].old = TRUE]
  /\ UNCHANGED <<mode, account, used, owned, session, tokens, request, changed>>

CacheExpires(u) ==
  /\ cache[u] # None /\ cache[u].old
  /\ cache' = [cache EXCEPT ![u] = None]
  /\ UNCHANGED <<mode, account, used, owned, session, tokens, request, changed>>

TokenExpires(t) ==
  /\ t \in tokens
  /\ tokens' = tokens \ {t}
  /\ UNCHANGED <<mode, account, used, owned, session, cache, request, changed>>

SessionExpires(s) ==
  /\ session[s] # None /\ session[s].state = "good"
  /\ session' = [session EXCEPT ![s].state = "expired"]
  /\ UNCHANGED <<mode, account, used, owned, tokens, cache, request, changed>>

\* A query fails: what was written before stays (a registered account without
\* its session), the rest is not done.
QueryFails(r) ==
  /\ request[r].at \notin {"idle", "acting"}
  /\ Change
  /\ Become(r, Idle)
  /\ UNCHANGED <<mode, account, used, owned, session, tokens, cache>>

----------------------------------------------------------------------------
RequestStep(r) ==
  \/ InsertAccount(r) \/ Grant(r) \/ Rotate(r) \/ WritePassword(r)
  \/ DeleteAccount(r) \/ LoadRow(r) \/ CacheRow(r) \/ Answered(r)

AccountsNext ==
  \/ \E r \in Requests :
       \/ Register(r) \/ CreateAsManager(r) \/ Login(r) \/ Refresh(r)
       \/ ChangePassword(r) \/ CountReferences(r)
       \/ BelieveToken(r) \/ BelieveCache(r) \/ AskRow(r)
       \/ RequestStep(r) \/ QueryFails(r)
  \/ \E s \in Sessions : Logout(s) \/ SessionExpires(s)
  \/ \E u \in Ids :
       \/ ReferTo(u) \/ CacheAges(u) \/ CacheExpires(u)
       \/ \E w \in Places : MoveDriver(u, w)
  \/ \E t \in Claims : TokenExpires(t)

AccountsSpec == AccountsInit /\ [][AccountsNext]_accountsVars

----------------------------------------------------------------------------
\* Rows, requests and entries are well-formed, ids are given once, emails are
\* unique, and a session belongs to an account.
AccountsTypeOK ==
  /\ mode \in Modes
  /\ account \in [Ids -> Row \cup {None}]
  /\ used \subseteq Ids /\ Live \subseteq used
  /\ owned \in [Ids -> SUBSET References]
  /\ session \in [Sessions -> Session \cup {None}]
  /\ tokens \subseteq Claims
  /\ cache \in [Ids -> Entry \cup {None}]
  /\ request \in [Requests -> Request]
  /\ changed \in 0..MaxChanges
  /\ \A s \in Sessions : session[s] # None => session[s].id \in Live
  /\ \A u, v \in Live : account[u].email = account[v].email => u = v

\* As whom the account's requests are served now.
ServedAs(u) == {request[r].who : r \in {q \in Requests :
                  request[q].at = "acting" /\ request[q].who.id = u}}

\* What an account was stops counting: once it keeps its warehouse its
\* requests are served with it, and once it is deleted none is served, for all
\* that tokens, cached entries and answers under way say otherwise at first.
\* (With cache_first and always this does not wait for the tokens to expire.)
AccessSettles ==
  \A u \in Ids :
    /\ \A w \in Places :
         <>[](u \in Live /\ account[u].warehouse = w)
           => <>[](\A who \in ServedAs(u) : who.warehouse = w)
    /\ <>[](u \in used /\ u \notin Live) => <>[](ServedAs(u) = {})

\* The claims are those of the account as it is now.
Agrees(who) == who.id \in Live /\ account[who.id].warehouse = who.warehouse

\* What a request believes of account u; a token about to be granted counts
\* where tokens are believed, and is not granted for a deleted account.
RequestCurrent(q, u) ==
  /\ q.at \in {"loaded", "acting"} /\ q.who.id = u => Agrees(q.who)
  /\ mode = "token_or_cache" /\ q.at = "granting" /\ q.who.id = u /\ u \in Live => Agrees(q.who)

\* Nothing that auth() may still believe of account u contradicts its row.
UpToDate(u) ==
  /\ \A r \in Requests : RequestCurrent(request[r], u)
  /\ mode = "cache_first" /\ cache[u] # None => Agrees(cache[u].who)
  /\ mode = "token_or_cache" => \A t \in tokens : t.id = u => Agrees(t)

\* A step leaves what is claimed of account u as it is.
Unmoved(u) ==
  /\ u \in Live <=> u \in Live'
  /\ u \in Live => account'[u].warehouse = account[u].warehouse

\* Once all that may be believed of an account says what its row says, it goes
\* on to, until the account is moved or deleted: no refill of the cache, no
\* token and no late answer brings back what the account was.
AccessStays ==
  [][\A u \in Ids : Unmoved(u) /\ UpToDate(u) => UpToDate(u)']_accountsVars
=============================================================================
