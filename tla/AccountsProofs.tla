-------------------------- MODULE AccountsProofs --------------------------
(***************************************************************************)
(* Accounts and sessions stay in order for any number of accounts,         *)
(* sessions and requests in progress.                                      *)
(***************************************************************************)
EXTENDS Accounts, TLAPS

----------------------------------------------------------------------------
\* What a request in progress carries.
LEMMA RequestFields ==
  ASSUME AccountsTypeOK, NEW r \in Requests
  PROVE  /\ request[r].at = "hashing" => request[r].row \in Row /\ request[r].login \in BOOLEAN
         /\ request[r].at = "granting" => request[r].who \in Claims
         /\ request[r].at = "rehashing" =>
              request[r].id \in Ids /\ request[r].password \in Passwords
         /\ request[r].at \in {"deleting", "loading"} => request[r].id \in Ids
         /\ request[r].at = "loaded" =>
              /\ request[r].who \in Claims
              /\ [request[r] EXCEPT !.at = "acting"] \in Request
<1>1. request[r] \in Request
  BY DEF AccountsTypeOK
<1>. QED  BY <1>1 DEF Request

\* The requests that operations begin.
LEMMA RequestKinds ==
  /\ Idle \in Request
  /\ \A row \in Row : \A login \in BOOLEAN :
       [at |-> "hashing", login |-> login, row |-> row] \in Request
  /\ \A who \in Claims : /\ [at |-> "granting", who |-> who] \in Request
                         /\ [at |-> "loaded", who |-> who] \in Request
                         /\ [at |-> "acting", who |-> who] \in Request
  /\ \A s \in Sessions : [at |-> "rotating", session |-> s] \in Request
  /\ \A u \in Ids : /\ [at |-> "deleting", id |-> u] \in Request
                    /\ [at |-> "loading", id |-> u] \in Request
  /\ \A u \in Ids, p \in Passwords : [at |-> "rehashing", id |-> u, password |-> p] \in Request
BY DEF Request, Idle

\* An account's claims.
LEMMA ClaimsTyped ==
  ASSUME AccountsTypeOK, NEW u \in Live
  PROVE  /\ u \in Ids /\ account[u] \in Row
         /\ ClaimsOf(u) \in Claims
BY DEF AccountsTypeOK, Live, ClaimsOf, Claims, Row

\* A step that moves one request and changes no row.
LEMMA RequestMoves ==
  ASSUME AccountsTypeOK, NEW r \in Requests, NEW next \in Request, Become(r, next),
         changed' \in 0 .. MaxChanges,
         UNCHANGED <<mode, account, used, owned, session, tokens, cache>>
  PROVE  AccountsTypeOK'
<1>1. request' \in [Requests -> Request]
  BY DEF Become, AccountsTypeOK
<1>. QED  BY <1>1 DEF AccountsTypeOK, Live

\* A bounded step counts.
LEMMA ChangeCounts == ASSUME AccountsAssumption, AccountsTypeOK, Change PROVE changed' \in 0 .. MaxChanges
BY DEF AccountsAssumption, AccountsTypeOK, Change

\* The operations that only begin, end or go on; they read what is there.
LEMMA ReadingKeeps ==
  ASSUME AccountsAssumption, AccountsTypeOK, NEW r \in Requests,
         \/ Register(r) \/ CreateAsManager(r) \/ Login(r) \/ Refresh(r) \/ Rotate(r)
         \/ ChangePassword(r) \/ CountReferences(r) \/ BelieveCache(r) \/ AskRow(r)
         \/ LoadRow(r) \/ Answered(r) \/ QueryFails(r)
  PROVE  AccountsTypeOK'
<1>1. changed \in 0 .. MaxChanges
  BY DEF AccountsTypeOK
<1>2. tokens \subseteq Claims
  BY DEF AccountsTypeOK
<1>3. CASE Register(r)
  <2>. PICK e \in Emails, p \in Passwords :
         Become(r, [at |-> "hashing", login |-> TRUE,
                    row |-> [email |-> e, password |-> p, role |-> "customer", warehouse |-> None]])
    BY <1>3 DEF Register, Begin
  <2>1. [email |-> e, password |-> p, role |-> "customer", warehouse |-> None] \in Row
    BY DEF Row, Roles, Places
  <2>2. [at |-> "hashing", login |-> TRUE,
         row |-> [email |-> e, password |-> p, role |-> "customer", warehouse |-> None]] \in Request
    BY <2>1, RequestKinds
  <2>3. UNCHANGED <<mode, account, used, owned, session, tokens, cache, changed>>
    BY <1>3 DEF Register
  <2>. QED  BY <1>1, <2>2, <2>3, RequestMoves
<1>4. CASE CreateAsManager(r)
  <2>. PICK row \in Row : Become(r, [at |-> "hashing", login |-> FALSE, row |-> row])
    BY <1>4 DEF CreateAsManager, Begin
  <2>1. [at |-> "hashing", login |-> FALSE, row |-> row] \in Request
    BY RequestKinds
  <2>2. UNCHANGED <<mode, account, used, owned, session, tokens, cache, changed>>
    BY <1>4 DEF CreateAsManager
  <2>. QED  BY <1>1, <2>1, <2>2, RequestMoves
<1>5. CASE Login(r)
  <2>. PICK u \in Live : Become(r, [at |-> "granting", who |-> ClaimsOf(u)])
    BY <1>5 DEF Login, Begin
  <2>1. [at |-> "granting", who |-> ClaimsOf(u)] \in Request
    BY RequestKinds, ClaimsTyped
  <2>2. UNCHANGED <<mode, account, used, owned, session, tokens, cache, changed>>
    BY <1>5 DEF Login
  <2>. QED  BY <1>1, <2>1, <2>2, RequestMoves
<1>6. CASE Refresh(r)
  <2>. PICK s \in Sessions : Become(r, [at |-> "rotating", session |-> s])
    BY <1>6 DEF Refresh, Begin
  <2>1. UNCHANGED <<mode, account, used, owned, session, tokens, cache, changed>>
    BY <1>6 DEF Refresh
  <2>2. [at |-> "rotating", session |-> s] \in Request
    BY RequestKinds
  <2>. QED  BY <1>1, <2>1, <2>2, RequestMoves
<1>7. CASE Rotate(r) \/ Answered(r)
  <2>1. Become(r, Idle) /\ UNCHANGED <<mode, account, used, owned, session, tokens, cache, changed>>
    BY <1>7 DEF Rotate, Answered
  <2>. QED  BY <1>1, <2>1, RequestKinds, RequestMoves
<1>8. CASE ChangePassword(r)
  <2>. PICK t \in tokens, p \in Passwords :
         Become(r, [at |-> "rehashing", id |-> t.id, password |-> p])
    BY <1>8 DEF ChangePassword, Begin
  <2>1. t.id \in Ids
    BY <1>2 DEF Claims
  <2>2. [at |-> "rehashing", id |-> t.id, password |-> p] \in Request
    BY <2>1, RequestKinds
  <2>3. Change /\ UNCHANGED <<mode, account, used, owned, session, tokens, cache>>
    BY <1>8 DEF ChangePassword
  <2>. QED  BY <2>2, <2>3, ChangeCounts, RequestMoves
<1>9. CASE CountReferences(r)
  <2>. PICK u \in Live : Become(r, [at |-> "deleting", id |-> u])
    BY <1>9 DEF CountReferences, Begin
  <2>1. UNCHANGED <<mode, account, used, owned, session, tokens, cache, changed>>
    BY <1>9 DEF CountReferences
  <2>2. [at |-> "deleting", id |-> u] \in Request
    BY RequestKinds DEF Live
  <2>. QED  BY <1>1, <2>1, <2>2, RequestMoves
<1>10. CASE BelieveCache(r)
  <2>. PICK t \in tokens : /\ cache[t.id] # None
                           /\ Become(r, [at |-> "acting", who |-> cache[t.id].who])
    BY <1>10 DEF BelieveCache, Begin
  <2>1. cache[t.id] \in Entry
    BY <1>2 DEF Claims, AccountsTypeOK
  <2>2. [at |-> "acting", who |-> cache[t.id].who] \in Request
    BY <2>1, RequestKinds DEF Entry
  <2>3. UNCHANGED <<mode, account, used, owned, session, tokens, cache, changed>>
    BY <1>10 DEF BelieveCache
  <2>. QED  BY <1>1, <2>2, <2>3, RequestMoves
<1>11. CASE AskRow(r)
  <2>. PICK t \in tokens : Become(r, [at |-> "loading", id |-> t.id])
    BY <1>11 DEF AskRow, Begin
  <2>1. [at |-> "loading", id |-> t.id] \in Request
    BY <1>2, RequestKinds DEF Claims
  <2>2. UNCHANGED <<mode, account, used, owned, session, tokens, cache, changed>>
    BY <1>11 DEF AskRow
  <2>. QED  BY <1>1, <2>1, <2>2, RequestMoves
<1>12. CASE LoadRow(r)
  <2>1. UNCHANGED <<mode, account, used, owned, session, tokens, cache, changed>>
    BY <1>12 DEF LoadRow
  <2>2. CASE request[r].id \in Live
    <3>1. Become(r, [at |-> "loaded", who |-> ClaimsOf(request[r].id)])
      BY <1>12, <2>2 DEF LoadRow
    <3>2. [at |-> "loaded", who |-> ClaimsOf(request[r].id)] \in Request
      BY <2>2, ClaimsTyped, RequestKinds
    <3>. QED  BY <1>1, <2>1, <3>1, <3>2, RequestMoves
  <2>3. CASE request[r].id \notin Live
    <3>1. Become(r, Idle)
      BY <1>12, <2>3 DEF LoadRow
    <3>. QED  BY <1>1, <2>1, <3>1, RequestKinds, RequestMoves
  <2>. QED  BY <2>2, <2>3
<1>13. CASE QueryFails(r)
  <2>1. Become(r, Idle) /\ Change /\ UNCHANGED <<mode, account, used, owned, session, tokens, cache>>
    BY <1>13 DEF QueryFails
  <2>. QED  BY <2>1, ChangeCounts, RequestKinds, RequestMoves
<1>. QED  BY <1>3, <1>4, <1>5, <1>6, <1>7, <1>8, <1>9, <1>10, <1>11, <1>12, <1>13

\* What a request ends with, and what it is remembered as.
LEMMA Ending ==
  ASSUME AccountsTypeOK, NEW r \in Requests, NEW next \in Request, Become(r, next)
  PROVE  request' \in [Requests -> Request]
BY DEF Become, AccountsTypeOK

\* The inserts: an id no account had, an email none has.
LEMMA InsertKeeps ==
  ASSUME AccountsAssumption, NullAssumption, AccountsTypeOK, NEW r \in Requests, InsertAccount(r)
  PROVE  AccountsTypeOK'
<1>1. /\ request[r].row \in Row /\ request[r].login \in BOOLEAN
      /\ request[r].at = "hashing"
  BY RequestFields DEF InsertAccount
<1>2. UNCHANGED <<mode, owned, session, tokens, cache, changed>>
  BY DEF InsertAccount
<1>3. CASE EmailTaken(request[r].row.email)
  <2>1. Become(r, Idle) /\ UNCHANGED <<account, used>>
    BY <1>3 DEF InsertAccount
  <2>2. changed' \in 0 .. MaxChanges
    BY <1>2 DEF AccountsTypeOK
  <2>. QED  BY <1>2, <2>1, <2>2, RequestKinds, RequestMoves
<1>4. CASE ~EmailTaken(request[r].row.email)
  <2>. DEFINE row == request[r].row
  <2>. PICK u \in Ids \ used :
         /\ account' = [account EXCEPT ![u] = row]
         /\ used' = used \cup {u}
         /\ IF request[r].login
            THEN Become(r, [at |-> "granting", who |-> [id |-> u, warehouse |-> row.warehouse]])
            ELSE Become(r, Idle)
    BY <1>4 DEF InsertAccount
  <2>1. row \in Row /\ row # None /\ ~EmailTaken(row.email)
    BY <1>1, <1>4 DEF NullAssumption
  <2>2. [id |-> u, warehouse |-> row.warehouse] \in Claims
    BY <2>1 DEF Claims, Row
  <2>3. request' \in [Requests -> Request]
    <3>1. CASE Become(r, [at |-> "granting", who |-> [id |-> u, warehouse |-> row.warehouse]])
      BY <2>2, <3>1, RequestKinds, Ending
    <3>2. CASE Become(r, Idle)
      BY <3>2, RequestKinds, Ending
    <3>. QED  BY <3>1, <3>2
  <2>. HIDE DEF row
  <2>4. /\ account \in [Ids -> Row \cup {None}] /\ used \subseteq Ids /\ Live \subseteq used
    BY DEF AccountsTypeOK
  <2>5. account' \in [Ids -> Row \cup {None}]
    BY <2>1, <2>4
  <2>6. Live' = Live \cup {u} /\ \A v \in Live : v # u /\ account'[v] = account[v]
    BY <2>1, <2>4 DEF Live
  <2>7. account'[u] = row
    BY <2>4
  <2>8. used' \subseteq Ids /\ Live' \subseteq used'
    BY <2>4, <2>6
  <2>9. \A s \in Sessions : session'[s] # None => session'[s].id \in Live'
    BY <1>2, <2>6 DEF AccountsTypeOK
  <2>10. \A v, w \in Live' : account'[v].email = account'[w].email => v = w
    BY <2>1, <2>6, <2>7 DEF AccountsTypeOK, EmailTaken
  <2>. QED  BY <1>2, <2>3, <2>5, <2>8, <2>9, <2>10 DEF AccountsTypeOK
<1>. QED  BY <1>3, <1>4

\* A session is granted to an account that is there.
LEMMA GrantKeeps ==
  ASSUME AccountsTypeOK, NEW r \in Requests, Grant(r)
  PROVE  AccountsTypeOK'
<1>1. request[r].who \in Claims /\ request[r].who.id \in Ids
  BY RequestFields DEF Grant, Claims
<1>2. Become(r, Idle) /\ UNCHANGED <<mode, account, used, owned, cache, changed>>
  BY DEF Grant
<1>3. request' \in [Requests -> Request]
  BY <1>2, RequestKinds, Ending
<1>4. /\ session' \in [Sessions -> Session \cup {None}]
      /\ tokens' \subseteq Claims
      /\ \A s \in Sessions : session'[s] # None => session'[s].id \in Live
  <2>1. CASE request[r].who.id \in Live
    <3>. PICK s \in Sessions :
           /\ session' = [session EXCEPT ![s] = [id |-> request[r].who.id, state |-> "good"]]
           /\ tokens' = tokens \cup {request[r].who}
      BY <2>1 DEF Grant
    <3>1. [id |-> request[r].who.id, state |-> "good"] \in Session
      BY <1>1 DEF Session
    <3>. QED  BY <1>1, <2>1, <3>1 DEF AccountsTypeOK
  <2>2. CASE request[r].who.id \notin Live
    BY <2>2 DEF Grant, AccountsTypeOK
  <2>. QED  BY <2>1, <2>2
<1>. QED  BY <1>2, <1>3, <1>4 DEF AccountsTypeOK, Live

\* A row that is changed stays a row, and nobody's email is another's.
LEMMA RowChanges ==
  ASSUME NullAssumption, AccountsTypeOK, NEW u \in Live, NEW row \in Row,
         row.email = account[u].email,
         account' = [account EXCEPT ![u] = row],
         request' \in [Requests -> Request],
         changed' \in 0 .. MaxChanges,
         UNCHANGED <<mode, used, owned, session, tokens, cache>>
  PROVE  AccountsTypeOK'
<1>1. account \in [Ids -> Row \cup {None}] /\ u \in Ids /\ row # None
  BY DEF AccountsTypeOK, Live, NullAssumption
<1>2. /\ account' \in [Ids -> Row \cup {None}]
      /\ \A v \in Ids \ {u} : account'[v] = account[v]
      /\ account'[u] = row
  BY <1>1
<1>3. Live' = Live
  BY <1>1, <1>2 DEF Live
<1>4. \A v \in Live : account'[v].email = account[v].email
  BY <1>2 DEF Live
<1>5. \A v, w \in Live' : account'[v].email = account'[w].email => v = w
  BY <1>3, <1>4 DEF AccountsTypeOK
<1>. QED  BY <1>2, <1>3, <1>5 DEF AccountsTypeOK

\* The new password of an account that is still there.
LEMMA PasswordKeeps ==
  ASSUME NullAssumption, AccountsTypeOK, NEW r \in Requests, WritePassword(r)
  PROVE  AccountsTypeOK'
<1>1. /\ request[r].id \in Ids /\ request[r].password \in Passwords
  BY RequestFields DEF WritePassword
<1>2. /\ Become(r, Idle) /\ UNCHANGED <<mode, used, owned, session, tokens, cache, changed>>
      /\ account' = [u \in Ids |-> IF u = request[r].id /\ u \in Live
                                   THEN [account[u] EXCEPT !.password = request[r].password]
                                   ELSE account[u]]
  BY DEF WritePassword
<1>3. account \in [Ids -> Row \cup {None}] /\ changed' \in 0 .. MaxChanges
  BY <1>2 DEF AccountsTypeOK
<1>4. CASE request[r].id \in Live
  <2>. DEFINE u == request[r].id
              row == [account[u] EXCEPT !.password = request[r].password]
  <2>1. row \in Row /\ row.email = account[u].email
    BY <1>1, <1>4, ClaimsTyped DEF Row
  <2>2. account' = [account EXCEPT ![u] = row]
    BY <1>2, <1>3, <1>4
  <2>3. request' \in [Requests -> Request]
    BY <1>2, RequestKinds, Ending
  <2>. HIDE DEF row
  <2>. QED  BY <1>2, <1>3, <1>4, <2>1, <2>2, <2>3, RowChanges
<1>5. CASE request[r].id \notin Live
  <2>1. account' = account
    BY <1>2, <1>3, <1>5
  <2>. QED  BY <1>2, <1>3, <2>1, RequestKinds, RequestMoves
<1>. QED  BY <1>4, <1>5

\* The account and its sessions go together.
LEMMA DeleteKeeps ==
  ASSUME AccountsTypeOK, NEW r \in Requests, DeleteAccount(r)
  PROVE  AccountsTypeOK'
<1>. DEFINE u == request[r].id
<1>1. u \in Ids
  BY RequestFields DEF DeleteAccount
<1>2. Become(r, Idle) /\ UNCHANGED <<mode, used, tokens, cache, changed>>
  BY DEF DeleteAccount
<1>3. request' \in [Requests -> Request] /\ changed' \in 0 .. MaxChanges
  BY <1>2, RequestKinds, Ending DEF AccountsTypeOK
<1>4. CASE ~(u \in Live /\ "customer" \notin owned[u])
  <2>1. UNCHANGED <<account, owned, session>>
    BY <1>4 DEF DeleteAccount
  <2>. QED  BY <1>2, <1>3, <2>1, RequestKinds, RequestMoves
<1>5. CASE u \in Live /\ "customer" \notin owned[u]
  <2>1. /\ account' = [account EXCEPT ![u] = None]
        /\ owned' = [owned EXCEPT ![u] = {}]
        /\ session' = [s \in Sessions |->
                         IF session[s] # None /\ session[s].id = u THEN None ELSE session[s]]
    BY <1>5 DEF DeleteAccount
  <2>. HIDE DEF u
  <2>2. /\ account \in [Ids -> Row \cup {None}] /\ owned \in [Ids -> SUBSET References]
        /\ session \in [Sessions -> Session \cup {None}]
    BY DEF AccountsTypeOK
  <2>3. /\ account' \in [Ids -> Row \cup {None}] /\ owned' \in [Ids -> SUBSET References]
        /\ session' \in [Sessions -> Session \cup {None}]
    BY <1>1, <2>1, <2>2
  <2>4. Live' = Live \ {u} /\ \A v \in Live' : account'[v] = account[v]
    BY <1>1, <2>1, <2>2 DEF Live
  <2>5. \A s \in Sessions : session'[s] # None => session'[s].id \in Live'
    BY <2>1, <2>4 DEF AccountsTypeOK
  <2>6. \A v, w \in Live' : account'[v].email = account'[w].email => v = w
    BY <2>4 DEF AccountsTypeOK
  <2>7. used' \subseteq Ids /\ Live' \subseteq used'
    BY <1>2, <2>4 DEF AccountsTypeOK
  <2>. QED  BY <1>2, <1>3, <2>3, <2>5, <2>6, <2>7 DEF AccountsTypeOK
<1>. QED  BY <1>4, <1>5

\* What is remembered of an account.
LEMMA RememberKeeps ==
  ASSUME AccountsTypeOK, NEW r \in Requests, BelieveToken(r) \/ CacheRow(r)
  PROVE  AccountsTypeOK'
<1>1. PICK who \in Claims : Remember(who) /\ request' \in [Requests -> Request]
  <2>1. CASE BelieveToken(r)
    <3>. PICK t \in tokens : Become(r, [at |-> "acting", who |-> t]) /\ Remember(t)
      BY <2>1 DEF BelieveToken, Begin
    <3>1. t \in Claims
      BY DEF AccountsTypeOK
    <3>. QED  BY <3>1, RequestKinds, Ending
  <2>2. CASE CacheRow(r)
    BY <2>2, RequestFields, Ending DEF CacheRow
  <2>. QED  BY <2>1, <2>2
<1>2. [who |-> who, old |-> FALSE] \in Entry
  BY DEF Entry
<1>3. cache' \in [Ids -> Entry \cup {None}]
  BY <1>1, <1>2 DEF Remember, AccountsTypeOK, Claims
<1>4. UNCHANGED <<mode, account, used, owned, session, tokens, changed>>
  BY DEF BelieveToken, CacheRow
<1>. QED  BY <1>1, <1>3, <1>4 DEF AccountsTypeOK, Live

\* Sessions, entries and tokens end.
LEMMA EndingKeeps ==
  ASSUME AccountsTypeOK,
         \/ \E s \in Sessions : Logout(s) \/ SessionExpires(s)
         \/ \E u \in Ids : CacheAges(u) \/ CacheExpires(u)
         \/ \E t \in Claims : TokenExpires(t)
  PROVE  AccountsTypeOK'
<1>1. ASSUME NEW s \in Sessions, Logout(s) \/ SessionExpires(s) PROVE AccountsTypeOK'
  <2>. PICK st \in {"revoked", "expired"} : session' = [session EXCEPT ![s].state = st]
    BY <1>1 DEF Logout, SessionExpires
  <2>. DEFINE row == [session[s] EXCEPT !.state = st]
  <2>1. session[s] \in Session /\ session[s] # None
    BY <1>1 DEF Logout, SessionExpires, AccountsTypeOK
  <2>2. row \in Session /\ row.id = session[s].id
    BY <2>1 DEF Session
  <2>3. session' = [session EXCEPT ![s] = row]
    OBVIOUS
  <2>. HIDE DEF row
  <2>4. session' \in [Sessions -> Session \cup {None}]
    BY <2>2, <2>3 DEF AccountsTypeOK
  <2>5. UNCHANGED <<mode, account, used, owned, tokens, cache, request, changed>>
    BY <1>1 DEF Logout, SessionExpires
  <2>6. \A x \in Sessions : session'[x] # None => session'[x].id \in Live
    BY <2>1, <2>2, <2>3 DEF AccountsTypeOK
  <2>. QED  BY <2>4, <2>5, <2>6 DEF AccountsTypeOK, Live
<1>2. ASSUME NEW u \in Ids, CacheAges(u) \/ CacheExpires(u) PROVE AccountsTypeOK'
  <2>1. cache[u] # None /\ cache[u] \in Entry
    BY <1>2 DEF CacheAges, CacheExpires, AccountsTypeOK
  <2>2. [cache[u] EXCEPT !.old = TRUE] \in Entry
    BY <2>1 DEF Entry
  <2>3. cache' = [cache EXCEPT ![u] = [cache[u] EXCEPT !.old = TRUE]] \/ cache' = [cache EXCEPT ![u] = None]
    BY <1>2 DEF CacheAges, CacheExpires
  <2>4. cache' \in [Ids -> Entry \cup {None}]
    BY <2>2, <2>3 DEF AccountsTypeOK
  <2>5. UNCHANGED <<mode, account, used, owned, session, tokens, request, changed>>
    BY <1>2 DEF CacheAges, CacheExpires
  <2>. QED  BY <2>4, <2>5 DEF AccountsTypeOK, Live
<1>3. ASSUME NEW t \in Claims, TokenExpires(t) PROVE AccountsTypeOK'
  BY <1>3 DEF TokenExpires, AccountsTypeOK, Live
<1>. QED  BY <1>1, <1>2, <1>3

\* A driver's new warehouse, and what comes to refer to an account.
LEMMA ManagerKeeps ==
  ASSUME AccountsAssumption, NullAssumption, AccountsTypeOK, NEW u \in Ids,
         ReferTo(u) \/ \E w \in Places : MoveDriver(u, w)
  PROVE  AccountsTypeOK'
<1>1. u \in Live /\ account[u] \in Row
  BY ClaimsTyped DEF ReferTo, MoveDriver
<1>2. changed' \in 0 .. MaxChanges
  BY ChangeCounts DEF ReferTo, MoveDriver
<1>3. CASE ReferTo(u)
  <2>1. {account[u].role} \in SUBSET References
    BY <1>1 DEF Row, Roles, References
  <2>2. owned' \in [Ids -> SUBSET References]
    BY <1>3, <2>1 DEF ReferTo, AccountsTypeOK
  <2>3. UNCHANGED <<mode, account, used, session, tokens, cache, request>>
    BY <1>3 DEF ReferTo
  <2>. QED  BY <1>2, <2>2, <2>3 DEF AccountsTypeOK, Live
<1>4. ASSUME NEW w \in Places, MoveDriver(u, w) PROVE AccountsTypeOK'
  <2>. DEFINE row == [account[u] EXCEPT !.warehouse = w]
  <2>1. row \in Row /\ row.email = account[u].email
    BY <1>1 DEF Row
  <2>2. /\ account' = [account EXCEPT ![u] = row]
        /\ UNCHANGED <<mode, used, owned, session, tokens, cache, request>>
    BY <1>4 DEF MoveDriver
  <2>3. request' \in [Requests -> Request]
    BY <2>2 DEF AccountsTypeOK
  <2>. HIDE DEF row
  <2>. QED  BY <1>1, <1>2, <2>1, <2>2, <2>3, RowChanges
<1>. QED  BY <1>3, <1>4

----------------------------------------------------------------------------
\* No account, nobody logged in.
LEMMA AccountsInitTyping == ASSUME AccountsAssumption, AccountsInit PROVE AccountsTypeOK
<1>1. Live = {}
  BY DEF AccountsInit, Live
<1>2. changed \in 0 .. MaxChanges
  BY DEF AccountsInit, AccountsAssumption
<1>. QED  BY <1>1, <1>2, RequestKinds DEF AccountsInit, AccountsTypeOK

\* Every step keeps accounts and sessions in order.
LEMMA AccountsTypingNext ==
  ASSUME AccountsAssumption, NullAssumption, AccountsTypeOK, [AccountsNext]_accountsVars
  PROVE  AccountsTypeOK'
<1>1. CASE UNCHANGED accountsVars
  BY <1>1 DEF accountsVars, AccountsTypeOK, Live
<1>2. ASSUME NEW r \in Requests,
             \/ Register(r) \/ CreateAsManager(r) \/ Login(r) \/ Refresh(r) \/ Rotate(r)
             \/ ChangePassword(r) \/ CountReferences(r) \/ BelieveCache(r) \/ AskRow(r)
             \/ LoadRow(r) \/ Answered(r) \/ QueryFails(r)
      PROVE  AccountsTypeOK'
  BY <1>2, ReadingKeeps
<1>3. ASSUME NEW r \in Requests,
             \/ InsertAccount(r) \/ Grant(r) \/ WritePassword(r) \/ DeleteAccount(r)
             \/ BelieveToken(r) \/ CacheRow(r)
      PROVE  AccountsTypeOK'
  BY <1>3, InsertKeeps, GrantKeeps, PasswordKeeps, DeleteKeeps, RememberKeeps
<1>4. ASSUME \/ \E s \in Sessions : Logout(s) \/ SessionExpires(s)
             \/ \E u \in Ids : CacheAges(u) \/ CacheExpires(u)
             \/ \E t \in Claims : TokenExpires(t)
      PROVE  AccountsTypeOK'
  BY <1>4, EndingKeeps
<1>5. ASSUME NEW u \in Ids, ReferTo(u) \/ \E w \in Places : MoveDriver(u, w)
      PROVE  AccountsTypeOK'
  BY <1>5, ManagerKeeps
<1>. QED  BY <1>1, <1>2, <1>3, <1>4, <1>5 DEF AccountsNext, RequestStep

\* Rows, requests and cached entries stay well-formed; ids are given once,
\* emails are unique, and no session outlives its account.
THEOREM AccountsTyping == AccountsSpec => []AccountsTypeOK
<1>1. AccountsInit => AccountsTypeOK
  BY AccountsInitTyping, AccountsAssumption
<1>2. AccountsTypeOK /\ [AccountsNext]_accountsVars => AccountsTypeOK'
  BY AccountsTypingNext, AccountsAssumption, NullAssumption
<1>. QED  BY <1>1, <1>2, PTL DEF AccountsSpec

----------------------------------------------------------------------------
(* Whoever is served as what the account is stays so.                      *)

\* The cache is asked by the id of the account it describes.
CacheById == \A u \in Ids : cache[u] # None => cache[u].who.id = u

\* Claims agree with an account that did not move when they did before.
LEMMA AgreesStill ==
  ASSUME NEW u \in Ids, Unmoved(u), NEW who, who.id = u
  PROVE  /\ Agrees(who) => who.id \in Live' /\ account'[who.id].warehouse = who.warehouse
BY DEF Agrees, Unmoved

\* A step that keeps the cache and the tokens, or drops some of them, and
\* whose request believes what is so.
LEMMA CurrentMoves ==
  ASSUME AccountsTypeOK, NEW u \in Ids, Unmoved(u), UpToDate(u), mode' = mode,
         \A r \in Requests :
           \/ request'[r] = request[r]
           \/ RequestCurrent(request'[r], u),
         \/ cache'[u] = cache[u]
         \/ cache'[u] = None
         \/ cache'[u].who.id = u /\ (mode = "cache_first" => Agrees(cache'[u].who))
         \/ cache[u] # None /\ cache'[u].who = cache[u].who,
         CacheById,
         \A t \in tokens' : \/ t \in tokens
                            \/ t.id = u /\ mode = "token_or_cache" => Agrees(t)
  PROVE  UpToDate(u)'
<1>1. \A who : who.id = u /\ Agrees(who) => who.id \in Live' /\ account'[who.id].warehouse = who.warehouse
  BY AgreesStill
<1>2. ASSUME NEW r \in Requests PROVE RequestCurrent(request'[r], u)
  BY DEF UpToDate
<1>3. ASSUME NEW r \in Requests PROVE RequestCurrent(request[r], u)'
  BY <1>1, <1>2 DEF RequestCurrent, Agrees, Unmoved
<1>4. (mode = "cache_first" /\ cache[u] # None => Agrees(cache[u].who))'
  <2>. SUFFICES ASSUME mode = "cache_first", cache'[u] # None
                PROVE  cache'[u].who.id \in Live' /\ account'[cache'[u].who.id].warehouse = cache'[u].who.warehouse
    BY DEF Agrees
  <2>1. cache'[u].who.id = u /\ Agrees(cache'[u].who)
    BY DEF UpToDate, CacheById
  <2>. QED  BY <1>1, <2>1
<1>5. (mode = "token_or_cache" => \A t \in tokens : t.id = u => Agrees(t))'
  <2>. SUFFICES ASSUME mode = "token_or_cache", NEW t \in tokens', t.id = u
                PROVE  t.id \in Live' /\ account'[t.id].warehouse = t.warehouse
    BY DEF Agrees
  <2>1. Agrees(t)
    BY DEF UpToDate
  <2>. QED  BY <1>1, <2>1
<1>. QED  BY <1>3, <1>4, <1>5 DEF UpToDate


\* A request that ends, or goes on without believing anything, is current.
LEMMA BelievesNothing ==
  ASSUME NEW q, NEW u, q.at \notin {"loaded", "acting", "granting"} PROVE RequestCurrent(q, u)
BY DEF RequestCurrent

\* One that believes what is so is current.
LEMMA BelievesRow ==
  ASSUME NEW q, NEW u, q.who.id = u => Agrees(q.who) PROVE RequestCurrent(q, u)
BY DEF RequestCurrent

\* What the row says agrees with it.
LEMMA RowAgrees == ASSUME NEW v \in Live PROVE Agrees(ClaimsOf(v)) /\ ClaimsOf(v).id = v
BY DEF Agrees, ClaimsOf

\* A step of one request, the others going on as they are.
LEMMA CurrentOne ==
  ASSUME AccountsTypeOK, CacheById, NEW u \in Ids, Unmoved(u), UpToDate(u), mode' = mode,
         NEW r \in Requests, NEW q, Become(r, q), RequestCurrent(q, u), tokens' = tokens,
         cache' = cache
  PROVE  UpToDate(u)'
<1>1. \A p \in Requests : request'[p] = IF p = r THEN q ELSE request[p]
  BY DEF Become, AccountsTypeOK
<1>2. \A p \in Requests : request'[p] = request[p] \/ RequestCurrent(request'[p], u)
  BY <1>1
<1>. QED  BY <1>2, CurrentMoves

\* Operations that believe nothing new.
LEMMA CurrentBegun ==
  ASSUME AccountsTypeOK, CacheById, NEW u \in Ids, Unmoved(u), UpToDate(u), NEW r \in Requests,
         \/ Register(r) \/ CreateAsManager(r) \/ Refresh(r) \/ Rotate(r) \/ ChangePassword(r)
         \/ CountReferences(r) \/ AskRow(r) \/ Answered(r) \/ QueryFails(r)
         \/ WritePassword(r) \/ DeleteAccount(r)
  PROVE  UpToDate(u)'
<1>1. mode' = mode /\ tokens' = tokens /\ cache' = cache
  BY DEF Register, CreateAsManager, Refresh, Rotate, ChangePassword, CountReferences, AskRow,
         Answered, QueryFails, WritePassword, DeleteAccount
<1>2. \E q : Become(r, q) /\ q.at \notin {"loaded", "acting", "granting"}
  <2>1. CASE Register(r)
    BY <2>1 DEF Register, Begin
  <2>2. CASE CreateAsManager(r)
    BY <2>2 DEF CreateAsManager, Begin
  <2>3. CASE Refresh(r)
    BY <2>3 DEF Refresh, Begin
  <2>4. CASE ChangePassword(r)
    BY <2>4 DEF ChangePassword, Begin
  <2>5. CASE CountReferences(r)
    BY <2>5 DEF CountReferences, Begin
  <2>6. CASE AskRow(r)
    BY <2>6 DEF AskRow, Begin
  <2>7. CASE Rotate(r) \/ Answered(r) \/ QueryFails(r) \/ WritePassword(r) \/ DeleteAccount(r)
    BY <2>7 DEF Rotate, Answered, QueryFails, WritePassword, DeleteAccount, Idle
  <2>. QED  BY <2>1, <2>2, <2>3, <2>4, <2>5, <2>6, <2>7
<1>. PICK q : Become(r, q) /\ q.at \notin {"loaded", "acting", "granting"}
  BY <1>2
<1>. QED  BY <1>1, BelievesNothing, CurrentOne

\* Operations that believe the row, the token or the cache.
LEMMA CurrentBelieved ==
  ASSUME AccountsTypeOK, CacheById, NEW u \in Ids, Unmoved(u), UpToDate(u), NEW r \in Requests,
         InsertAccount(r) \/ Login(r) \/ LoadRow(r) \/ BelieveCache(r)
  PROVE  UpToDate(u)'
<1>1. mode' = mode /\ tokens' = tokens /\ cache' = cache
  BY DEF InsertAccount, Login, LoadRow, BelieveCache
<1>2. \E q : Become(r, q) /\ RequestCurrent(q, u)
  <2>1. CASE Login(r)
    <3>. PICK v \in Live : Become(r, [at |-> "granting", who |-> ClaimsOf(v)])
      BY <2>1 DEF Login, Begin
    <3>. QED  BY RowAgrees, BelievesRow
  <2>2. CASE LoadRow(r)
    <3>1. CASE request[r].id \in Live
      <4>1. Become(r, [at |-> "loaded", who |-> ClaimsOf(request[r].id)])
        BY <2>2, <3>1 DEF LoadRow
      <4>. QED  BY <3>1, <4>1, RowAgrees, BelievesRow
    <3>2. CASE request[r].id \notin Live
      BY <2>2, <3>2, BelievesNothing DEF LoadRow, Idle
    <3>. QED  BY <3>1, <3>2
  <2>3. CASE BelieveCache(r)
    <3>. PICK t \in tokens : cache[t.id] # None /\ Become(r, [at |-> "acting", who |-> cache[t.id].who])
      BY <2>3 DEF BelieveCache, Begin
    <3>1. t.id \in Ids /\ cache[t.id].who.id = t.id
      BY DEF AccountsTypeOK, Claims, CacheById
    <3>2. cache[t.id].who.id = u => Agrees(cache[t.id].who)
      BY <2>3, <3>1 DEF BelieveCache, UpToDate
    <3>. QED  BY <3>2, BelievesRow
  <2>4. CASE InsertAccount(r)
    <3>1. CASE Become(r, Idle)
      BY <3>1, BelievesNothing DEF Idle
    <3>2. CASE ~Become(r, Idle)
      <4>. PICK v \in Ids \ used :
             /\ account' = [account EXCEPT ![v] = request[r].row]
             /\ Become(r, [at |-> "granting",
                           who |-> [id |-> v, warehouse |-> request[r].row.warehouse]])
        BY <2>4, <3>2 DEF InsertAccount
      <4>1. v \notin Live /\ v \in Live'
        <5>1. request[r].row \in Row /\ request[r].row # None
          BY <2>4, RequestFields, NullAssumption DEF InsertAccount
        <5>. QED  BY <5>1 DEF AccountsTypeOK, Live
      <4>2. v # u
        BY <4>1 DEF Unmoved
      <4>. QED  BY <4>2, BelievesRow
    <3>. QED  BY <3>1, <3>2
  <2>. QED  BY <2>1, <2>2, <2>3, <2>4
<1>. PICK q : Become(r, q) /\ RequestCurrent(q, u)
  BY <1>2
<1>. QED  BY <1>1, CurrentOne

\* Operations that hand out a token or write the cache.
LEMMA CurrentHanded ==
  ASSUME AccountsTypeOK, CacheById, NEW u \in Ids, Unmoved(u), UpToDate(u), NEW r \in Requests,
         Grant(r) \/ BelieveToken(r) \/ CacheRow(r)
  PROVE  UpToDate(u)'
<1>1. CASE Grant(r)
  <2>1. mode' = mode /\ cache' = cache /\ Become(r, Idle)
    BY <1>1 DEF Grant
  <2>2. \A p \in Requests : request'[p] = request[p] \/ RequestCurrent(request'[p], u)
    <3>. \A p \in Requests : request'[p] = IF p = r THEN Idle ELSE request[p]
      BY <2>1 DEF Become, AccountsTypeOK
    <3>. QED  BY BelievesNothing DEF Idle
  <2>3. \/ tokens' = tokens
        \/ request[r].who.id \in Live /\ tokens' = tokens \cup {request[r].who}
    BY <1>1 DEF Grant
  <2>4. mode = "token_or_cache" /\ request[r].who.id = u /\ u \in Live => Agrees(request[r].who)
    BY <1>1 DEF Grant, UpToDate, RequestCurrent
  <2>5. \A t \in tokens' : t \in tokens \/ (t.id = u /\ mode = "token_or_cache" => Agrees(t))
    BY <2>3, <2>4
  <2>. QED  BY <2>1, <2>2, <2>5, CurrentMoves
<1>2. ASSUME NEW who \in Claims, Become(r, [at |-> "acting", who |-> who]), Remember(who),
             mode' = mode, tokens' = tokens, who.id = u => Agrees(who)
      PROVE  UpToDate(u)'
  <2>1. \A p \in Requests : request'[p] = request[p] \/ RequestCurrent(request'[p], u)
    <3>. \A p \in Requests :
           request'[p] = IF p = r THEN [at |-> "acting", who |-> who] ELSE request[p]
      BY <1>2 DEF Become, AccountsTypeOK
    <3>. QED  BY <1>2, BelievesRow
  <2>2. cache'[u] = IF u = who.id THEN [who |-> who, old |-> FALSE] ELSE cache[u]
    BY <1>2 DEF Remember, AccountsTypeOK
  <2>3. \/ cache'[u] = cache[u]
        \/ cache'[u].who.id = u /\ (mode = "cache_first" => Agrees(cache'[u].who))
    BY <1>2, <2>2
  <2>. QED  BY <1>2, <2>1, <2>3, CurrentMoves
<1>3. CASE BelieveToken(r)
  <2>. PICK t \in tokens : Become(r, [at |-> "acting", who |-> t]) /\ Remember(t)
    BY <1>3 DEF BelieveToken, Begin
  <2>1. t.id = u => Agrees(t)
    BY <1>3 DEF BelieveToken, UpToDate
  <2>2. t \in Claims /\ mode' = mode /\ tokens' = tokens
    BY <1>3 DEF BelieveToken, AccountsTypeOK
  <2>. QED  BY <1>2, <2>1, <2>2
<1>4. CASE CacheRow(r)
  <2>1. request[r].who \in Claims /\ request[r] \in Request /\ request[r].at = "loaded"
    BY <1>4, RequestFields DEF CacheRow, AccountsTypeOK
  <2>2. request[r].who.id = u => Agrees(request[r].who)
    BY <2>1 DEF UpToDate, RequestCurrent
  <2>3. [request[r] EXCEPT !.at = "acting"] = [at |-> "acting", who |-> request[r].who]
    BY <2>1 DEF Request
  <2>. QED  BY <1>2, <1>4, <2>1, <2>2, <2>3 DEF CacheRow
<1>. QED  BY <1>1, <1>3, <1>4


\* Steps outside the requests: what may be believed is only dropped, or ages.
LEMMA CurrentOutside ==
  ASSUME AccountsTypeOK, CacheById, NEW u \in Ids, Unmoved(u), UpToDate(u),
         \/ \E s \in Sessions : Logout(s) \/ SessionExpires(s)
         \/ \E v \in Ids :
              \/ ReferTo(v) \/ CacheAges(v) \/ CacheExpires(v)
              \/ \E w \in Places : MoveDriver(v, w)
         \/ \E t \in Claims : TokenExpires(t)
         \/ UNCHANGED accountsVars
  PROVE  UpToDate(u)'
<1>1. /\ mode' = mode /\ request' = request
      /\ \A t \in tokens' : t \in tokens
  BY DEF Logout, SessionExpires, ReferTo, CacheAges, CacheExpires, MoveDriver, TokenExpires,
         accountsVars
<1>2. \/ cache'[u] = cache[u]
      \/ cache'[u] = None
      \/ cache[u] # None /\ cache'[u].who = cache[u].who
  <2>1. ASSUME NEW v \in Ids, CacheAges(v)
        PROVE  cache'[u] = cache[u] \/ (cache[u] # None /\ cache'[u].who = cache[u].who)
    <3>. cache[v] \in Entry
      BY <2>1 DEF CacheAges, AccountsTypeOK
    <3>. QED  BY <2>1 DEF CacheAges, AccountsTypeOK, Entry
  <2>2. ASSUME NEW v \in Ids, CacheExpires(v) PROVE cache'[u] = cache[u] \/ cache'[u] = None
    BY <2>2 DEF CacheExpires, AccountsTypeOK
  <2>. QED  BY <2>1, <2>2 DEF Logout, SessionExpires, ReferTo, MoveDriver, TokenExpires, accountsVars
<1>. QED  BY <1>1, <1>2, CurrentMoves

\* Entries are written under the id they describe.
LEMMA CacheByIdStep ==
  ASSUME AccountsTypeOK, CacheById, [AccountsNext]_accountsVars PROVE CacheById'
<1>1. ASSUME NEW who \in Claims, Remember(who) PROVE CacheById'
  BY <1>1 DEF Remember, CacheById, AccountsTypeOK
<1>2. CASE cache' = cache
  BY <1>2 DEF CacheById
<1>3. ASSUME NEW r \in Requests, BelieveToken(r) PROVE CacheById'
  BY <1>1, <1>3 DEF BelieveToken, AccountsTypeOK
<1>4. ASSUME NEW r \in Requests, CacheRow(r) PROVE CacheById'
  BY <1>1, <1>4, RequestFields DEF CacheRow
<1>5. ASSUME NEW v \in Ids, CacheAges(v) PROVE CacheById'
  <2>1. cache[v] \in Entry /\ cache' = [cache EXCEPT ![v].old = TRUE]
    BY <1>5 DEF CacheAges, AccountsTypeOK
  <2>2. \A u \in Ids : cache'[u] # None => cache[u] # None /\ cache'[u].who = cache[u].who
    BY <1>5, <2>1 DEF CacheAges, AccountsTypeOK, Entry
  <2>. QED  BY <2>2 DEF CacheById
<1>6. ASSUME NEW v \in Ids, CacheExpires(v) PROVE CacheById'
  BY <1>6 DEF CacheExpires, CacheById, AccountsTypeOK
<1>. QED
  BY <1>2, <1>3, <1>4, <1>5, <1>6
  DEF AccountsNext, RequestStep, accountsVars, Register, CreateAsManager, InsertAccount, Login, Grant,
      Refresh, Rotate, Logout, ChangePassword, WritePassword, CountReferences, DeleteAccount,
      ReferTo, MoveDriver, BelieveCache, AskRow, LoadRow, Answered, TokenExpires,
      SessionExpires, QueryFails

\* The step of the theorem below.
LEMMA CurrentStep ==
  ASSUME AccountsTypeOK, CacheById, [AccountsNext]_accountsVars,
         NEW u \in Ids, Unmoved(u), UpToDate(u)
  PROVE  UpToDate(u)'
<1>1. ASSUME NEW r \in Requests,
             \/ Register(r) \/ CreateAsManager(r) \/ Refresh(r) \/ Rotate(r) \/ ChangePassword(r)
             \/ CountReferences(r) \/ AskRow(r) \/ Answered(r) \/ QueryFails(r)
             \/ WritePassword(r) \/ DeleteAccount(r)
      PROVE  UpToDate(u)'
  BY <1>1, CurrentBegun
<1>2. ASSUME NEW r \in Requests, InsertAccount(r) \/ Login(r) \/ LoadRow(r) \/ BelieveCache(r)
      PROVE  UpToDate(u)'
  BY <1>2, CurrentBelieved
<1>3. ASSUME NEW r \in Requests, Grant(r) \/ BelieveToken(r) \/ CacheRow(r) PROVE UpToDate(u)'
  BY <1>3, CurrentHanded
<1>4. ASSUME \/ \E s \in Sessions : Logout(s) \/ SessionExpires(s)
             \/ \E v \in Ids :
                  \/ ReferTo(v) \/ CacheAges(v) \/ CacheExpires(v)
                  \/ \E w \in Places : MoveDriver(v, w)
             \/ \E t \in Claims : TokenExpires(t)
             \/ UNCHANGED accountsVars
      PROVE  UpToDate(u)'
  BY <1>4, CurrentOutside
<1>. QED  BY <1>1, <1>2, <1>3, <1>4 DEF AccountsNext, RequestStep

\* Where the last entry, token and answer under way of an account say what its
\* row says, they go on to, until it is moved or deleted: no refill of the
\* cache, no token and no late answer brings back what the account was.
THEOREM AccessStaysSettled == AccountsSpec => AccessStays
<1>. DEFINE Stays == \A u \in Ids : Unmoved(u) /\ UpToDate(u) => UpToDate(u)'
<1>1. AccountsInit => CacheById
  BY DEF AccountsInit, CacheById
<1>2. CacheById /\ AccountsTypeOK /\ [AccountsNext]_accountsVars => CacheById'
  BY CacheByIdStep
<1>3. AccountsTypeOK /\ CacheById /\ [AccountsNext]_accountsVars => [Stays]_accountsVars
  BY CurrentStep
<1>. QED  BY <1>1, <1>2, <1>3, AccountsTyping, PTL DEF AccountsSpec, AccessStays

\* An account that exists is then served as it is, and one that does not, not
\* at all.
LEMMA CurrentIsServed ==
  ASSUME NEW u \in Ids, UpToDate(u)
  PROVE  /\ u \in Live => \A who \in ServedAs(u) : who.warehouse = account[u].warehouse
         /\ u \notin Live => ServedAs(u) = {}
<1>. ASSUME NEW who \in ServedAs(u) PROVE u \in Live /\ who.warehouse = account[u].warehouse
  <2>. PICK r \in Requests : request[r].at = "acting" /\ request[r].who.id = u /\ who = request[r].who
    BY DEF ServedAs
  <2>. QED  BY DEF UpToDate, RequestCurrent, Agrees
<1>. QED  OBVIOUS

=============================================================================
