--------------------------- MODULE CashDeskProofs ---------------------------
(***************************************************************************)
(* The cash desk is correct for any number of orders, holders and          *)
(* overlapping requests, and for any terms.                                *)
(***************************************************************************)
EXTENDS CashDesk, TLAPS

\* Amounts of an order's terms are natural numbers.
LEMMA DueIsNat ==
  ASSUME BaseTypeOK, NEW o \in Orders, NEW k \in Kinds
  PROVE  Due(o, k) \in Nat
BY BillsAssumption DEF BaseTypeOK, Bill, Due

\* The two rows nobody holds cash in, and the two events that say so.
LEMMA ConstantRows ==
  /\ NoRow \in Row /\ ExpectedRow \in Row
  /\ NoEvent \in Event
  /\ \A n \in Nat : ExpectedEvent(n) \in Event
BY DEF NoRow, ExpectedRow, NoEvent, ExpectedEvent, Row, RowStates, Event, EventTypes

\* What a request's record is, by its program counter.
LEMMA RequestKinds ==
  ASSUME CashTypeOK, NEW r \in Requests
  PROVE  /\ creq[r].pc = "begun" => creq[r] \in Operation
         /\ creq[r].pc = "decided" => creq[r] \in Update
         /\ creq[r] = Idle => creq[r].pc = "idle"
BY DEF CashTypeOK, Idle, Operation, Update

\* Whatever a collect, hand-off or settle decides is a well-formed update.
LEMMA DecideTyped ==
  ASSUME CashTypeOK, NEW r \in Requests, creq[r] \in Operation,
         NEW row \in Row, NEW s \in {"held", "settled"},
         NEW h \in Holders \cup {Finance}, NEW amount \in Nat,
         NEW p \in PaidStates \cup {None}, NEW type \in EventTypes, NEW counted \in Nat,
         Decide(r, row, s, h, amount, p, type, counted)
  PROVE  /\ creq'[r] \in Update
         /\ creq' \in [Requests -> {Idle} \cup Operation \cup Update]
<1>1. creq'[r] = [pc |-> "decided", order |-> creq[r].order, kind |-> creq[r].kind,
                  creates |-> cash[creq[r].order][creq[r].kind].status = "absent",
                  status |-> s, holder |-> h, amount |-> amount, paid |-> p,
                  event |-> [type |-> type, amount |-> counted, from |-> row.holder,
                             to |-> h, actor |-> creq[r].actor]]
  BY DEF CashTypeOK, Decide
<1>2. [type |-> type, amount |-> counted, from |-> row.holder,
       to |-> h, actor |-> creq[r].actor] \in Event
  BY DEF Event, Operation, Row
<1>3. creq'[r] \in Update
  BY <1>1, <1>2 DEF Update, Operation
<1>. QED  BY <1>3 DEF Decide, CashTypeOK

\* The columns and the requests in flight always have their types.
THEOREM CashTyping == CashSpec => []CashTypeOK
<1>1. ASSUME CashInit PROVE CashTypeOK
  <2>1. BaseTypeOK
    BY <1>1, ConstantRows, BillsAssumption
    DEF CashInit, BaseInit, BaseTypeOK, Bill
  <2>2. event \in [Orders -> [Kinds -> Event]]
    BY <1>1, <2>1, ConstantRows, DueIsNat DEF CashInit, CashDeskInit
  <2>. QED  BY <1>1, <2>1, <2>2 DEF CashInit, CashDeskInit, CashTypeOK
<1>2. ASSUME CashTypeOK, [CashNext]_cashVars PROVE CashTypeOK'
  <2>. USE <1>2
  <2>1. CASE CashStep
    <3>. PICK r \in Requests :
           \/ BeginCollect(r) \/ BeginHandoff(r) \/ BeginSettle(r)
           \/ ReadForCollect(r) \/ ReadForHandoff(r) \/ ReadForSettle(r)
           \/ Commit(r) \/ Abort(r)
      BY <2>1 DEF CashStep
    <3>1. ASSUME NEW op \in {"collect", "handoff", "settle"}, NEW a \in Actors,
                 NEW o \in Orders, NEW k \in Kinds, NEW amount \in Amounts \cup {NoAmount},
                 NEW t \in Holders \cup {None}, op = "handoff" <=> t # None,
                 Begin(r, op, a, o, k, amount, t)
          PROVE  CashTypeOK'
      BY <3>1 DEF Begin, CashTypeOK, BaseTypeOK, baseVars, Operation
    <3>2. CASE BeginCollect(r)
      BY <3>1, <3>2 DEF BeginCollect
    <3>3. CASE BeginHandoff(r)
      BY <3>1, <3>3, NamesAssumption DEF BeginHandoff, NoAmount
    <3>4. CASE BeginSettle(r)
      BY <3>1, <3>4 DEF BeginSettle, Actors
    <3>. DEFINE q == creq[r]
                row == cash[q.order][q.kind]
    <3>5. CASE ReadForCollect(r)
      <4>1. q \in Operation /\ row \in Row
        BY <3>5, RequestKinds DEF ReadForCollect, Operation, CashTypeOK, BaseTypeOK
      <4>2. Due(q.order, q.kind) \in Nat
        BY <4>1, DueIsNat DEF Operation, CashTypeOK
      <4>3. RowToCollect(q.order, q.kind) \in Row
        BY <4>1, ConstantRows DEF RowToCollect
      <4>. DEFINE wanted == RowToCollect(q.order, q.kind)
                  amount == IF q.amount # NoAmount THEN q.amount
                            ELSE IF wanted.collected # 0 THEN wanted.collected
                            ELSE Due(q.order, q.kind)
      <4>4. q.actor \in Holders
        BY <3>5 DEF ReadForCollect, MayCollect
      <4>5. amount \in Nat /\ PaidFor(Due(q.order, q.kind), amount) \in PaidStates
        BY <4>1, <4>2, <4>3, AmountsAssumption
        DEF Operation, NoAmount, Row, PaidFor, PaidStates
      <4>6. creq' \in [Requests -> {Idle} \cup Operation \cup Update]
        <5>. HIDE DEF wanted, amount
        <5>1. Decide(r, wanted, "held", q.actor, amount, PaidFor(Due(q.order, q.kind), amount),
                     IF wanted.status = "expected" THEN "collected" ELSE "handoff", amount)
          BY <3>5 DEF ReadForCollect, wanted, amount
        <5>2. (IF wanted.status = "expected" THEN "collected" ELSE "handoff") \in EventTypes
          BY DEF EventTypes
        <5>3. wanted \in Row
          BY <4>3 DEF wanted
        <5>. QED  BY <5>1, <5>2, <5>3, <4>1, <4>4, <4>5, DecideTyped
      <4>. QED  BY <4>6, <3>5 DEF ReadForCollect, CashTypeOK, BaseTypeOK, baseVars
    <3>6. CASE ReadForHandoff(r)
      <4>1. q \in Operation /\ row \in Row
        BY <3>6, RequestKinds DEF ReadForHandoff, Operation, CashTypeOK, BaseTypeOK
      <4>2. Decide(r, row, "held", q.target, NoAmount, None, "handoff", row.collected)
        BY <3>6 DEF ReadForHandoff
      <4>3. q.target \in Holders
        BY <3>6, <4>1 DEF ReadForHandoff, Operation
      <4>4. NoAmount \in Nat /\ "handoff" \in EventTypes /\ row.collected \in Nat
        BY <4>1 DEF NoAmount, EventTypes, Row
      <4>5. creq' \in [Requests -> {Idle} \cup Operation \cup Update]
        BY <4>1, <4>2, <4>3, <4>4, DecideTyped
      <4>. QED  BY <4>5, <3>6 DEF ReadForHandoff, CashTypeOK, BaseTypeOK, baseVars
    <3>7. CASE ReadForSettle(r)
      <4>1. q \in Operation /\ row \in Row
        BY <3>7, RequestKinds DEF ReadForSettle, Operation, CashTypeOK, BaseTypeOK
      <4>2. Decide(r, row, "settled", Finance, NoAmount, None, "settled", row.collected)
        BY <3>7 DEF ReadForSettle
      <4>3. NoAmount \in Nat /\ "settled" \in EventTypes /\ row.collected \in Nat
        BY <4>1 DEF NoAmount, EventTypes, Row
      <4>4. creq' \in [Requests -> {Idle} \cup Operation \cup Update]
        BY <4>1, <4>2, <4>3, DecideTyped
      <4>. QED  BY <4>4, <3>7 DEF ReadForSettle, CashTypeOK, BaseTypeOK, baseVars
    <3>8. CASE Commit(r)
      <4>. DEFINE u == creq[r]
      <4>1. u \in Update /\ cash[u.order][u.kind] \in Row
        BY <3>8, RequestKinds DEF Commit, Update, CashTypeOK, BaseTypeOK
      <4>2. Written(cash[u.order][u.kind], u) \in Row
        BY <4>1 DEF Written, Row, RowStates, Update
      <4>3. cash' \in [Orders -> [Kinds -> Row]]
        BY <3>8, <4>1, <4>2 DEF Commit, Update, CashTypeOK, BaseTypeOK
      <4>4. paid' \in [Orders -> [Kinds -> PaidStates]]
        BY <3>8, <4>1 DEF Commit, Update, CashTypeOK, BaseTypeOK
      <4>5. event' \in [Orders -> [Kinds -> Event]]
        BY <3>8, <4>1 DEF Commit, Update, CashTypeOK
      <4>. QED  BY <3>8, <4>3, <4>4, <4>5 DEF Commit, CashTypeOK, BaseTypeOK
    <3>9. CASE Abort(r)
      BY <3>9 DEF Abort, CashTypeOK, BaseTypeOK, baseVars
    <3>. QED  BY <3>2, <3>3, <3>4, <3>5, <3>6, <3>7, <3>8, <3>9
  <2>2. CASE Dispatch
    BY <2>2 DEF Dispatch, AssignDriver, Receive, CashTypeOK, BaseTypeOK, Row
  <2>3. CASE UNCHANGED cashVars
    BY <2>3 DEF cashVars, baseVars, CashTypeOK, BaseTypeOK
  <2>. QED  BY <2>1, <2>2, <2>3 DEF CashNext
<1>. QED  BY <1>1, <1>2, PTL DEF CashSpec

----------------------------------------------------------------------------
(* The inductive invariant.  A row that was taken cannot be untaken, so    *)
(* what a request has decided stays justified however late it commits: it  *)
(* either sets an amount together with the paid status that goes with it,  *)
(* for a kind that is owed, or it leaves both alone on a row that has one. *)

RowInv(o, k) ==
  /\ cash[o][k].status = "absent" => paid[o][k] = bill[o].paid[k]
  /\ cash[o][k].status = "expected" => Collectible(o, k) /\ bill[o].paid[k] # "PAID"
  /\ Taken(o, k) =>
       /\ cash[o][k].collected > 0
       /\ paid[o][k] = PaidFor(Due(o, k), cash[o][k].collected)
       /\ Collectible(o, k)
       /\ bill[o].paid[k] # "PAID"
       /\ event[o][k].to = cash[o][k].holder
       /\ event[o][k].type = "settled" <=> cash[o][k].status = "settled"

UpdateInv(u) ==
  /\ u.event.to = u.holder
  /\ u.event.type = "settled" <=> u.status = "settled"
  /\ ~u.creates => cash[u.order][u.kind].status # "absent"
  /\ IF u.amount = NoAmount
     THEN u.paid = None /\ ~u.creates /\ Taken(u.order, u.kind)
     ELSE /\ u.paid = PaidFor(Due(u.order, u.kind), u.amount)
          /\ Collectible(u.order, u.kind)
          /\ bill[u.order].paid[u.kind] # "PAID"

CashInv ==
  /\ CashTypeOK
  /\ \A o \in Orders, k \in Kinds : RowInv(o, k)
  /\ \A r \in Requests : creq[r].pc = "decided" => UpdateInv(creq[r])

\* A new order's rows are those of the amounts that are owed.
LEMMA InvInit == ASSUME CashInit, CashTypeOK PROVE CashInv
<1>. DEFINE expects(o, k) == cash[o][k] = ExpectedRow /\ Expects(o, k)
<1>1. \A o \in Orders, k \in Kinds : cash[o][k] = NoRow \/ expects(o, k)
  BY DEF CashInit, BaseInit
<1>2. \A o \in Orders, k \in Kinds : paid[o][k] = bill[o].paid[k]
  BY DEF CashInit, BaseInit
<1>3. ASSUME NEW o \in Orders, NEW k \in Kinds PROVE RowInv(o, k)
  BY <1>1, <1>2 DEF RowInv, Taken, Expects, NoRow, ExpectedRow
<1>4. \A r \in Requests : creq[r].pc # "decided"
  BY DEF CashInit, CashDeskInit, Idle
<1>. QED  BY <1>3, <1>4 DEF CashInv

\* A step that only moves one request on keeps the invariant, if what the
\* request decides is justified by the rows.
LEMMA RequestMoves ==
  ASSUME CashInv, CashTypeOK', UNCHANGED <<bill, paid, cash, event>>,
         NEW r \in Requests, \A s \in Requests \ {r} : creq'[s] = creq[s],
         creq'[r].pc = "decided" => UpdateInv(creq'[r])
  PROVE  CashInv'
<1>1. ASSUME NEW o \in Orders, NEW k \in Kinds PROVE RowInv(o, k)'
  <2>. RowInv(o, k)  BY DEF CashInv
  <2>. QED  BY DEF RowInv, Taken, Collectible, Due
<1>2. ASSUME NEW s \in Requests, creq'[s].pc = "decided" PROVE UpdateInv(creq[s])'
  <2>. UpdateInv(creq'[s])  BY <1>2 DEF CashInv
  <2>. QED  BY DEF UpdateInv, Taken, Collectible, Due
<1>. QED  BY <1>1, <1>2 DEF CashInv

\* The update a request has decided, in the terms of its decision.
LEMMA Decided ==
  ASSUME CashTypeOK, NEW r \in Requests, NEW row, NEW s, NEW h, NEW amount, NEW p,
         NEW type, NEW counted, Decide(r, row, s, h, amount, p, type, counted)
  PROVE  /\ creq'[r].order = creq[r].order
         /\ creq'[r].kind = creq[r].kind
         /\ creq'[r].creates <=> cash[creq[r].order][creq[r].kind].status = "absent"
         /\ creq'[r].status = s
         /\ creq'[r].holder = h
         /\ creq'[r].amount = amount
         /\ creq'[r].paid = p
         /\ creq'[r].event.type = type
         /\ creq'[r].event.to = h
         /\ creq'[r].event.amount = counted
         /\ creq'[r].event.from = row.holder
         /\ creq'[r].event.actor = creq[r].actor
         /\ \A other \in Requests \ {r} : creq'[other] = creq[other]
BY DEF Decide, CashTypeOK

\* A collection decides an amount that is owed, and the paid status of it.
LEMMA CollectKeepsInv ==
  ASSUME CashInv, CashTypeOK', NEW r \in Requests, ReadForCollect(r) PROVE CashInv'
<1>. DEFINE o == creq[r].order
            k == creq[r].kind
            wanted == RowToCollect(o, k)
            amount == IF creq[r].amount # NoAmount THEN creq[r].amount
                      ELSE IF wanted.collected # 0 THEN wanted.collected ELSE Due(o, k)
            type == IF wanted.status = "expected" THEN "collected" ELSE "handoff"
<1>1. o \in Orders /\ k \in Kinds /\ CashTypeOK
  BY RequestKinds DEF CashInv, ReadForCollect, Operation
<1>2. /\ wanted.status \in {"expected", "held"}
      /\ amount > 0
      /\ Decide(r, wanted, "held", creq[r].actor, amount, PaidFor(Due(o, k), amount),
                type, amount)
      /\ UNCHANGED <<bill, paid, cash, event>>
  BY DEF ReadForCollect, MayCollect, baseVars
<1>3. Collectible(o, k) /\ bill[o].paid[k] # "PAID"
  <2>. RowInv(o, k)  BY <1>1 DEF CashInv
  <2>1. CASE cash[o][k].status = "absent" /\ Expects(o, k)
    BY <2>1 DEF RowInv, Expects
  <2>2. CASE ~(cash[o][k].status = "absent" /\ Expects(o, k))
    BY <2>2, <1>2 DEF RowInv, RowToCollect, Taken
  <2>. QED  BY <2>1, <2>2
<1>. HIDE DEF wanted, amount, o, k
<1>4. UpdateInv(creq'[r])
  <2>1. type # "settled"
    OBVIOUS
  <2>2. creq'[r].order = o /\ creq'[r].kind = k
    BY <1>1, <1>2, Decided DEF o, k
  <2>. HIDE DEF type
  <2>. QED  BY <1>1, <1>2, <1>3, <2>1, <2>2, Decided DEF UpdateInv, NoAmount
<1>. QED  BY <1>1, <1>2, <1>4, Decided, RequestMoves

\* Hand-offs and settlements change no amount, of a row that has one.
LEMMA PassKeepsInv ==
  ASSUME CashInv, CashTypeOK', NEW r \in Requests, ReadForHandoff(r) \/ ReadForSettle(r)
  PROVE  CashInv'
<1>. DEFINE o == creq[r].order
            k == creq[r].kind
<1>1. o \in Orders /\ k \in Kinds /\ CashTypeOK
  BY RequestKinds DEF CashInv, ReadForHandoff, ReadForSettle, Operation
<1>2. cash[o][k].status = "held" /\ UNCHANGED <<bill, paid, cash, event>>
  BY DEF ReadForHandoff, ReadForSettle, baseVars
<1>3. UpdateInv(creq'[r])
  <2>1. CASE ReadForHandoff(r)
    <3>. Decide(r, cash[o][k], "held", creq[r].target, NoAmount, None, "handoff",
                cash[o][k].collected)
      BY <2>1 DEF ReadForHandoff
    <3>. QED  BY <1>1, <1>2, Decided DEF UpdateInv, Taken
  <2>2. CASE ReadForSettle(r)
    <3>. Decide(r, cash[o][k], "settled", Finance, NoAmount, None, "settled",
                cash[o][k].collected)
      BY <2>2 DEF ReadForSettle
    <3>. QED  BY <1>1, <1>2, Decided DEF UpdateInv, Taken
  <2>. QED  BY <2>1, <2>2
<1>4. \A s \in Requests \ {r} : creq'[s] = creq[s]
  BY <1>1, Decided DEF ReadForHandoff, ReadForSettle
<1>. QED  BY <1>2, <1>3, <1>4, RequestMoves

\* What a commit writes: one row, which is taken from then on, with the paid
\* status and the event that go with it.
LEMMA Committed ==
  ASSUME CashTypeOK, NEW r \in Requests, Commit(r)
  PROVE  LET u == creq[r] IN
         /\ u \in Update
         /\ cash'[u.order][u.kind] = Written(cash[u.order][u.kind], u)
         /\ event'[u.order][u.kind] = u.event
         /\ paid'[u.order][u.kind] = IF u.paid = None THEN paid[u.order][u.kind] ELSE u.paid
         /\ \A o \in Orders, k \in Kinds :
              o # u.order \/ k # u.kind =>
                /\ cash'[o][k] = cash[o][k]
                /\ event'[o][k] = event[o][k]
                /\ paid'[o][k] = paid[o][k]
         /\ \A o \in Orders, k \in Kinds :
              Taken(o, k)' <=> Taken(o, k) \/ (o = u.order /\ k = u.kind)
         /\ bill' = bill
<1>. DEFINE u == creq[r]
<1>1. u \in Update
  BY RequestKinds DEF Commit
<1>2. u.order \in Orders /\ u.kind \in Kinds /\ u.status \in {"held", "settled"}
  BY <1>1 DEF Update
<1>3. /\ cash'[u.order][u.kind] = Written(cash[u.order][u.kind], u)
      /\ event'[u.order][u.kind] = u.event
      /\ paid'[u.order][u.kind] = IF u.paid = None THEN paid[u.order][u.kind] ELSE u.paid
  BY <1>2 DEF Commit, CashTypeOK, BaseTypeOK
<1>4. ASSUME NEW o \in Orders, NEW k \in Kinds, o # u.order \/ k # u.kind
      PROVE  /\ cash'[o][k] = cash[o][k]
             /\ event'[o][k] = event[o][k]
             /\ paid'[o][k] = paid[o][k]
  BY <1>2, <1>4 DEF Commit, CashTypeOK, BaseTypeOK
<1>5. cash'[u.order][u.kind].status \in {"held", "settled"}
  BY <1>2, <1>3 DEF Written
<1>6. ASSUME NEW o \in Orders, NEW k \in Kinds
      PROVE  Taken(o, k)' <=> Taken(o, k) \/ (o = u.order /\ k = u.kind)
  BY <1>4, <1>5 DEF Taken
<1>. QED  BY <1>1, <1>3, <1>4, <1>6 DEF Commit

\* A committed update leaves its row as the invariant asks, and makes none of
\* the other pending updates unjustified: the row stays taken.
LEMMA CommitKeepsInv ==
  ASSUME CashInv, CashTypeOK', NEW r \in Requests, Commit(r) PROVE CashInv'
<1>. DEFINE u == creq[r]
<1>0. CashTypeOK /\ UpdateInv(u) /\ u \in Update
  BY Committed DEF CashInv, Commit
<1>1. ASSUME NEW o \in Orders, NEW k \in Kinds PROVE RowInv(o, k)'
  <2>0. RowInv(o, k)
    BY DEF CashInv
  <2>1. CASE o # u.order \/ k # u.kind
    BY <1>0, <2>0, <2>1, Committed DEF RowInv, Taken, Collectible, Due
  <2>2. CASE o = u.order /\ k = u.kind
    <3>1. /\ cash'[o][k].status = u.status
          /\ cash'[o][k].holder = u.holder
          /\ cash'[o][k].collected = IF u.amount = NoAmount THEN cash[o][k].collected
                                                            ELSE u.amount
          /\ event'[o][k] = u.event
          /\ paid'[o][k] = IF u.paid = None THEN paid[o][k] ELSE u.paid
          /\ u.status \in {"held", "settled"} /\ u.amount \in Nat
      <4>1. u \in Update /\ cash'[o][k] = Written(cash[o][k], u) /\ event'[o][k] = u.event
            /\ paid'[o][k] = IF u.paid = None THEN paid[o][k] ELSE u.paid
        BY <1>0, <2>2, Committed
      <4>. QED  BY <4>1 DEF Written, Update
    <3>2. /\ Collectible(o, k) /\ bill[o].paid[k] # "PAID"
          /\ cash'[o][k].collected > 0
          /\ paid'[o][k] = PaidFor(Due(o, k), cash'[o][k].collected)
      <4>1. CASE u.amount = NoAmount
        BY <1>0, <2>0, <2>2, <3>1, <4>1 DEF UpdateInv, RowInv
      <4>2. CASE u.amount # NoAmount
        <5>. u.paid # None
          BY <1>0, <4>2, NamesAssumption DEF UpdateInv, PaidFor, PaidStates
        <5>. QED  BY <1>0, <2>2, <3>1, <4>2 DEF UpdateInv, NoAmount
      <4>. QED  BY <4>1, <4>2
    <3>3. (Collectible(o, k) <=> Collectible(o, k)') /\ Due(o, k)' = Due(o, k) /\ bill' = bill
      BY DEF Commit, Collectible, Due
    <3>4. u.event.to = u.holder /\ (u.event.type = "settled" <=> u.status = "settled")
      BY <1>0 DEF UpdateInv
    <3>. QED  BY <3>1, <3>2, <3>3, <3>4 DEF RowInv
  <2>. QED  BY <2>1, <2>2
<1>2. ASSUME NEW s \in Requests, creq'[s].pc = "decided" PROVE UpdateInv(creq[s])'
  <2>. DEFINE v == creq[s]
  <2>1. s # r /\ creq'[s] = v
    BY <1>0, <1>2 DEF Commit, Idle, CashTypeOK
  <2>2. UpdateInv(v) /\ v.order \in Orders /\ v.kind \in Kinds
    BY <1>0, <1>2, <2>1, RequestKinds DEF CashInv, Update
  <2>3. \A o \in Orders, k \in Kinds :
          /\ Taken(o, k) => Taken(o, k)'
          /\ cash[o][k].status # "absent" => cash'[o][k].status # "absent"
    BY <1>0, Committed DEF Taken
  <2>4. /\ \A o, k : (Collectible(o, k) <=> Collectible(o, k)') /\ Due(o, k)' = Due(o, k)
        /\ bill' = bill
    BY DEF Commit, Collectible, Due
  <2>. QED  BY <2>1, <2>2, <2>3, <2>4 DEF UpdateInv
<1>. QED  BY <1>1, <1>2 DEF CashInv

\* However requests overlap: rows, paid states, events and pending updates
\* agree.
THEOREM CashInvariant == CashSpec => []CashInv
<1>1. ASSUME CashInv, CashTypeOK', [CashNext]_cashVars PROVE CashInv'
  <2>1. ASSUME NEW r \in Requests, NEW op, NEW a, NEW o, NEW k, NEW amount, NEW t,
               Begin(r, op, a, o, k, amount, t)
        PROVE  CashInv'
    <3>. creq'[r].pc = "begun" /\ \A s \in Requests \ {r} : creq'[s] = creq[s]
      BY <1>1, <2>1 DEF Begin, CashInv, CashTypeOK
    <3>. QED  BY <1>1, <2>1, RequestMoves DEF Begin, baseVars
  <2>2. ASSUME NEW r \in Requests, Abort(r) PROVE CashInv'
    <3>. creq'[r].pc = "idle" /\ \A s \in Requests \ {r} : creq'[s] = creq[s]
      BY <1>1, <2>2 DEF Abort, CashInv, CashTypeOK, Idle
    <3>. QED  BY <1>1, <2>2, RequestMoves DEF Abort, baseVars
  <2>3. CASE CashStep
    <3>. PICK r \in Requests :
           \/ BeginCollect(r) \/ BeginHandoff(r) \/ BeginSettle(r)
           \/ ReadForCollect(r) \/ ReadForHandoff(r) \/ ReadForSettle(r)
           \/ Commit(r) \/ Abort(r)
      BY <2>3 DEF CashStep
    <3>1. CASE BeginCollect(r) \/ BeginHandoff(r) \/ BeginSettle(r)
      BY <2>1, <3>1 DEF BeginCollect, BeginHandoff, BeginSettle
    <3>2. CASE ReadForCollect(r)
      BY <1>1, <3>2, CollectKeepsInv
    <3>3. CASE ReadForHandoff(r) \/ ReadForSettle(r)
      BY <1>1, <3>3, PassKeepsInv
    <3>4. CASE Commit(r)
      BY <1>1, <3>4, CommitKeepsInv
    <3>5. CASE Abort(r)
      BY <2>2, <3>5
    <3>. QED  BY <3>1, <3>2, <3>3, <3>4, <3>5
  <2>4. CASE UNCHANGED <<bill, paid, cash, creq, event>>
    <3>1. ASSUME NEW o \in Orders, NEW k \in Kinds PROVE RowInv(o, k)'
      <4>. RowInv(o, k)  BY <1>1 DEF CashInv
      <4>. QED  BY <2>4 DEF RowInv, Taken, Collectible, Due
    <3>2. ASSUME NEW r \in Requests, creq'[r].pc = "decided" PROVE UpdateInv(creq[r])'
      <4>. UpdateInv(creq[r])  BY <1>1, <2>4, <3>2 DEF CashInv
      <4>. QED  BY <2>4 DEF UpdateInv, Taken, Collectible, Due
    <3>. QED  BY <1>1, <3>1, <3>2 DEF CashInv
  <2>. QED  BY <1>1, <2>3, <2>4 DEF CashNext, Dispatch, cashVars, baseVars
<1>. QED  BY <1>1, InvInit, CashTyping, PTL DEF CashSpec

\* However requests overlap: paid status and collected amount agree.
THEOREM PaidStatusCorrect == CashSpec => []PaidAgreesWithCash
<1>. CashInv => PaidAgreesWithCash
  BY DEF CashInv, RowInv, PaidAgreesWithCash
<1>. QED  BY CashInvariant, PTL

\* However requests overlap: the ledger's last event names the holder.
THEOREM LedgerCorrect == CashSpec => []LedgerNamesHolder
<1>. CashInv => LedgerNamesHolder
  BY DEF CashInv, RowInv, LedgerNamesHolder
<1>. QED  BY CashInvariant, PTL

\* However requests overlap: only cash that was owed is taken.
THEOREM OnlyOwedTaken == CashSpec => []OnlyOwedCashTaken
<1>. CashInv => OnlyOwedCashTaken
  BY DEF CashInv, RowInv, OnlyOwedCashTaken
<1>. QED  BY CashInvariant, PTL

\* A step changes no term, and either no row, paid status and event at all, or
\* those of one kind, which is taken afterwards.
LEMMA RowChange ==
  ASSUME CashTypeOK, [CashNext]_cashVars
  PROVE  \/ UNCHANGED <<bill, paid, cash, event>>
         \/ \E r \in Requests : Commit(r)
BY DEF CashNext, CashStep, Dispatch, BeginCollect, BeginHandoff, BeginSettle, Begin,
       ReadForCollect, ReadForHandoff, ReadForSettle, Abort, cashVars, baseVars

\* Taken cash stays taken, so no step makes an amount due again.
LEMMA DueStep ==
  ASSUME CashTypeOK, [CashNext]_cashVars
  PROVE  \A o \in Orders, k \in Kinds : ~Outstanding(o, k) => ~Outstanding(o, k)'
<1>1. CASE UNCHANGED <<bill, paid, cash>>
  BY <1>1 DEF Outstanding, Due
<1>2. ASSUME NEW r \in Requests, Commit(r), NEW o \in Orders, NEW k \in Kinds,
             ~Outstanding(o, k)
      PROVE  ~Outstanding(o, k)'
  BY <1>2, Committed DEF Outstanding, Due, Taken
<1>. QED  BY <1>1, <1>2, RowChange

\* However requests overlap: what no longer blocks an order never does again.
THEOREM DueStaysSettled == CashSpec => DueNeverReturns
<1>. DEFINE Stays == \A o \in Orders, k \in Kinds : ~Outstanding(o, k) => ~Outstanding(o, k)'
<1>1. CashTypeOK /\ [CashNext]_cashVars => [Stays]_cashVars
  BY DueStep
<1>. QED  BY <1>1, CashTyping, PTL DEF CashSpec, DueNeverReturns

----------------------------------------------------------------------------
(* One update of a row at a time.  What a request has decided is then      *)
(* still a step of the custody chain when it commits.                      *)

Counts == Amounts \cup {b.amount[k] : b \in Bills, k \in Kinds}

\* No two requests have decided on updates of one row, which is what a lock
\* taken by the read of the row would see to.
UpdatesApart ==
  \A r, s \in Requests :
    (r # s /\ creq[r].pc = "decided" /\ creq[s].pc = "decided") =>
      (creq[r].order # creq[s].order \/ creq[r].kind # creq[s].kind)

\* So it is, in particular, where there is one request at a time.
LEMMA OneAtATime == (\A r, s \in Requests : r = s) => (CashSpec => []UpdatesApart)
<1>. SUFFICES ASSUME \A r, s \in Requests : r = s PROVE CashSpec => []UpdatesApart
  OBVIOUS
<1>1. UpdatesApart
  BY DEF UpdatesApart
<1>. QED  BY <1>1, PTL

\* The update is a Take, a Recount, a Pass or a Settle of the row.
InChain(u) ==
  LET row == cash[u.order][u.kind] IN
  \/ /\ u.status = "held" /\ u.amount \in Counts \ {NoAmount} /\ u.holder \in Holders
     /\ u.paid = PaidFor(Due(u.order, u.kind), u.amount)
     /\ \/ row.status \in {"absent", "expected"} /\ Collectible(u.order, u.kind)
        \/ /\ row.status = "held"
           /\ \/ u.holder \in Drivers   /\ row.holder = u.holder
              \/ u.holder \in Locations /\ row.holder \in Locations
  \/ /\ u.status = "held" /\ u.amount = NoAmount /\ u.paid = None
     /\ row.status = "held" /\ u.holder \in Holders
  \/ /\ u.status = "settled" /\ u.amount = NoAmount /\ u.paid = None
     /\ row.status = "held" /\ u.holder = Finance

ChainInv ==
  /\ \A o \in Orders, k \in Kinds : cash[o][k].collected \in Counts \cup {0}
  /\ \A r \in Requests : creq[r].pc = "decided" => InChain(creq[r])

\* A commit of an update in the chain is a step of the custody chain.
LEMMA CommitIsCustodyStep ==
  ASSUME CashInv, NEW r \in Requests, Commit(r), InChain(creq[r])
  PROVE  Custody!CustodyNext
<1>. DEFINE u == creq[r]
            o == u.order
            k == u.kind
            row == cash[o][k]
<1>1. /\ CashTypeOK /\ u \in Update /\ o \in Orders /\ k \in Kinds
      /\ row \in Row /\ paid[o][k] \in PaidStates
  BY Committed DEF CashInv, Update, CashTypeOK, BaseTypeOK
<1>2. /\ cash' = [cash EXCEPT ![o][k] = Written(row, u)]
      /\ paid' = [paid EXCEPT ![o][k] = IF u.paid = None THEN paid[o][k] ELSE u.paid]
      /\ bill' = bill
  BY DEF Commit
<1>. HIDE DEF u, o, k
<1>3. ASSUME u.paid = None PROVE UNCHANGED paid
  BY <1>1, <1>2, <1>3 DEF CashTypeOK, BaseTypeOK
<1>4. CASE u.status = "held" /\ u.amount # NoAmount
  <2>1. /\ u.amount \in Counts /\ u.amount > 0 /\ u.holder \in Holders
        /\ u.paid = PaidFor(Due(o, k), u.amount) /\ u.paid # None
    BY <1>1, <1>4, NamesAssumption
    DEF InChain, Update, NoAmount, PaidFor, PaidStates, u, o, k
  <2>2. Custody!Hold(o, k, u.holder, u.amount)
    BY <1>2, <1>4, <2>1 DEF Custody!Hold, Written, Custody!PaidFor, PaidFor, Custody!Due, Due
  <2>3. \/ Custody!Take(o, k, u.holder, u.amount)
        \/ Custody!Recount(o, k, u.holder, u.amount)
    BY <1>4, <2>1, <2>2
    DEF InChain, Custody!Take, Custody!Recount, Collectible, Custody!Collectible,
        Due, Custody!Due, u, o, k
  <2>. QED  BY <1>1, <1>2, <2>1, <2>3 DEF Custody!CustodyNext, Custody!Kinds, Kinds,
                                        Custody!Holders, Holders, Counts
<1>5. CASE u.status = "held" /\ u.amount = NoAmount
  <2>1. row.status = "held" /\ u.holder \in Holders /\ u.paid = None
    BY <1>5 DEF InChain, u, o, k
  <2>2. Written(row, u) = [row EXCEPT !.holder = u.holder]
    BY <1>1, <1>5, <2>1 DEF Written, Row
  <2>3. Custody!Pass(o, k, u.holder)
    BY <1>1, <1>2, <1>3, <2>1, <2>2 DEF Custody!Pass, CashTypeOK, BaseTypeOK
  <2>. QED  BY <1>1, <1>2, <2>1, <2>3 DEF Custody!CustodyNext, Custody!Kinds, Kinds,
                                        Custody!Holders, Holders
<1>6. CASE u.status = "settled"
  <2>1. row.status = "held" /\ u.holder = Finance /\ u.paid = None /\ u.amount = NoAmount
    BY <1>6 DEF InChain, u, o, k
  <2>2. Written(row, u)
          = [status |-> "settled", collected |-> row.collected, holder |-> Finance]
    BY <1>6, <2>1 DEF Written
  <2>3. Custody!Settle(o, k)
    BY <1>1, <1>2, <1>3, <2>1, <2>2 DEF Custody!Settle, CashTypeOK, BaseTypeOK
  <2>. QED  BY <1>1, <1>2, <2>3 DEF Custody!CustodyNext, Custody!Kinds, Kinds
<1>. QED  BY <1>1, <1>4, <1>5, <1>6 DEF Update

\* An order's amounts are among those the custody chain counts.
LEMMA DueIsCounted ==
  ASSUME BaseTypeOK, NEW o \in Orders, NEW k \in Kinds PROVE Due(o, k) \in Counts
BY DEF BaseTypeOK, Due, Counts

\* Nothing is decided, and nothing is counted, at first.
LEMMA ChainInit == ASSUME CashInit PROVE ChainInv
BY DEF CashInit, BaseInit, CashDeskInit, ChainInv, NoRow, ExpectedRow, Idle

\* A decision is in the chain when it is taken, ...
LEMMA CollectInChain ==
  ASSUME CashInv, ChainInv, NEW r \in Requests, ReadForCollect(r)
  PROVE  InChain(creq'[r])
<1>. DEFINE o == creq[r].order
            k == creq[r].kind
            row == cash[o][k]
            wanted == RowToCollect(o, k)
            amount == IF creq[r].amount # NoAmount THEN creq[r].amount
                      ELSE IF wanted.collected # 0 THEN wanted.collected ELSE Due(o, k)
            type == IF wanted.status = "expected" THEN "collected" ELSE "handoff"
<1>1. o \in Orders /\ k \in Kinds /\ CashTypeOK /\ creq[r].amount \in Amounts \cup {NoAmount}
  BY RequestKinds DEF CashInv, ReadForCollect, Operation
<1>2. /\ MayCollect(creq[r].actor, wanted)
      /\ amount > 0
      /\ Decide(r, wanted, "held", creq[r].actor, amount, PaidFor(Due(o, k), amount),
                type, amount)
      /\ UNCHANGED <<bill, paid, cash>>
  BY DEF ReadForCollect, baseVars
<1>3. CASE row.status = "absent" /\ Expects(o, k)
  <2>1. wanted = ExpectedRow /\ Collectible(o, k)
    BY <1>3 DEF RowToCollect, Expects
  <2>. QED  BY <1>1, <1>2, <1>3, <2>1, Decided, DueIsCounted
            DEF InChain, MayCollect, Counts, NoAmount, ExpectedRow, CashTypeOK
<1>4. CASE ~(row.status = "absent" /\ Expects(o, k))
  <2>1. wanted = row
    BY <1>4 DEF RowToCollect
  <2>2. row.collected \in Counts \cup {0} /\ Due(o, k) \in Counts
    BY <1>1, DueIsCounted DEF ChainInv, CashTypeOK
  <2>3. amount \in Counts \ {NoAmount}
    <3>1. Amounts \subseteq Counts
      BY DEF Counts
    <3>2. amount \in Counts \cup {0}
      BY <1>1, <2>1, <2>2, <3>1
    <3>. QED  BY <1>2, <3>2 DEF NoAmount
  <2>4. row.status = "expected" => Collectible(o, k)
    BY <1>1 DEF CashInv, RowInv
  <2>. HIDE DEF amount, type
  <2>. QED  BY <1>1, <1>2, <2>1, <2>3, <2>4, Decided DEF InChain, MayCollect
<1>. QED  BY <1>3, <1>4

\* ... also a hand-off or a settlement, whose row is held, ...
LEMMA PassInChain ==
  ASSUME CashInv, NEW r \in Requests, ReadForHandoff(r) \/ ReadForSettle(r)
  PROVE  InChain(creq'[r])
<1>. DEFINE o == creq[r].order
            k == creq[r].kind
<1>1. CashTypeOK /\ creq[r] \in Operation /\ cash[o][k].status = "held"
  BY RequestKinds DEF CashInv, ReadForHandoff, ReadForSettle
<1>2. CASE ReadForHandoff(r)
  <2>1. creq[r].target \in Holders
    BY <1>1, <1>2 DEF ReadForHandoff, Operation
  <2>2. Decide(r, cash[o][k], "held", creq[r].target, NoAmount, None, "handoff",
               cash[o][k].collected)
    BY <1>2 DEF ReadForHandoff
  <2>. QED  BY <1>1, <2>1, <2>2, Decided DEF InChain
<1>3. CASE ReadForSettle(r)
  <2>. Decide(r, cash[o][k], "settled", Finance, NoAmount, None, "settled",
              cash[o][k].collected)
    BY <1>3 DEF ReadForSettle
  <2>. QED  BY <1>1, Decided DEF InChain
<1>. QED  BY <1>2, <1>3

\* What a request can have come to in a step that writes nothing.
LEMMA QuietMoves ==
  ASSUME CashTypeOK, [CashNext]_cashVars, UNCHANGED <<bill, paid, cash>>,
         NEW r \in Requests
  PROVE  \/ creq'[r] = creq[r]
         \/ /\ creq'[r].pc = "begun"
            /\ creq'[r].op = "settle" => creq'[r].actor = Manager
         \/ creq'[r].pc = "idle"
         \/ ReadForCollect(r)
         \/ ReadForHandoff(r) \/ ReadForSettle(r)
<1>1. CASE UNCHANGED creq
  BY <1>1
<1>2. ASSUME NEW s \in Requests, Commit(s) \/ Abort(s)
      PROVE  creq'[r] = creq[r] \/ creq'[r].pc = "idle"
  BY <1>2 DEF Commit, Abort, CashTypeOK, Idle
<1>3. ASSUME NEW s \in Requests, NEW op, NEW a, NEW o, NEW k, NEW amount, NEW t,
             Begin(s, op, a, o, k, amount, t)
      PROVE  \/ creq'[r] = creq[r]
             \/ creq'[r].pc = "begun" /\ creq'[r].op = op /\ creq'[r].actor = a
  BY <1>3 DEF Begin, CashTypeOK
<1>4. ASSUME NEW s \in Requests, BeginCollect(s) \/ BeginHandoff(s) \/ BeginSettle(s)
      PROVE  \/ creq'[r] = creq[r]
             \/ /\ creq'[r].pc = "begun"
                /\ creq'[r].op = "settle" => creq'[r].actor = Manager
  BY <1>3, <1>4 DEF BeginCollect, BeginHandoff, BeginSettle
<1>5. ASSUME NEW s \in Requests, s # r,
             ReadForCollect(s) \/ ReadForHandoff(s) \/ ReadForSettle(s)
      PROVE  creq'[r] = creq[r]
  BY <1>5 DEF ReadForCollect, ReadForHandoff, ReadForSettle, Decide, CashTypeOK
<1>6. CASE CashStep
  <2>. PICK s \in Requests :
         \/ BeginCollect(s) \/ BeginHandoff(s) \/ BeginSettle(s)
         \/ ReadForCollect(s) \/ ReadForHandoff(s) \/ ReadForSettle(s)
         \/ Commit(s) \/ Abort(s)
    BY <1>6 DEF CashStep
  <2>1. CASE ReadForCollect(s) \/ ReadForHandoff(s) \/ ReadForSettle(s)
    <3>1. CASE s = r
      BY <2>1, <3>1
    <3>. QED  BY <1>5, <2>1, <3>1
  <2>. QED  BY <1>2, <1>4, <2>1
<1>. QED  BY <1>1, <1>6 DEF CashNext, Dispatch, cashVars

\* The updates of other rows that are pending when one commits.
LEMMA OtherUpdates ==
  ASSUME UpdatesApart, CashTypeOK, NEW r \in Requests, Commit(r),
         NEW s \in Requests, creq'[s].pc # "idle"
  PROVE  /\ creq'[s] = creq[s] /\ bill' = bill
         /\ creq[s].pc = "decided" =>
              cash'[creq[s].order][creq[s].kind] = cash[creq[s].order][creq[s].kind]
<1>1. s # r /\ creq'[s] = creq[s] /\ bill' = bill /\ creq[r].pc = "decided"
  BY DEF Commit, CashTypeOK, Idle
<1>2. ASSUME creq[s].pc = "decided"
      PROVE  cash'[creq[s].order][creq[s].kind] = cash[creq[s].order][creq[s].kind]
  <2>1. creq[s].order # creq[r].order \/ creq[s].kind # creq[r].kind
    BY <1>1, <1>2 DEF UpdatesApart
  <2>2. creq[s].order \in Orders /\ creq[s].kind \in Kinds
    BY <1>2, RequestKinds DEF Update
  <2>. QED  BY <2>1, <2>2, Committed
<1>. QED  BY <1>1, <1>2

\* ... and stays in it, as nobody else writes the row before it commits.
LEMMA ChainStep ==
  ASSUME UpdatesApart, CashInv, ChainInv, [CashNext]_cashVars PROVE ChainInv'
<1>. CashTypeOK
  BY DEF CashInv
<1>1. CASE UNCHANGED <<bill, paid, cash>>
  <2>1. \A o \in Orders, k \in Kinds : cash'[o][k].collected \in Counts \cup {0}
    BY <1>1 DEF ChainInv
  <2>2. ASSUME NEW r \in Requests, creq'[r].pc = "decided" PROVE InChain(creq'[r])
    <3>1. \/ creq'[r] = creq[r]
          \/ ReadForCollect(r)
          \/ ReadForHandoff(r) \/ ReadForSettle(r)
      BY <1>1, <2>2, QuietMoves
    <3>2. ASSUME creq'[r] = creq[r] PROVE InChain(creq'[r])
      BY <2>2, <3>2 DEF ChainInv
    <3>. QED  BY <2>2, <3>1, <3>2, CollectInChain, PassInChain
  <2>3. \A r \in Requests : InChain(creq'[r]) => InChain(creq[r])'
    BY <1>1 DEF InChain, Collectible, Due
  <2>. QED  BY <2>1, <2>2, <2>3 DEF ChainInv
<1>2. ASSUME NEW r \in Requests, Commit(r) PROVE ChainInv'
  <2>1. creq[r].pc = "decided" /\ InChain(creq[r])
    BY <1>2 DEF Commit, ChainInv
  <2>2. ASSUME NEW s \in Requests, creq'[s].pc = "decided" PROVE InChain(creq[s])'
    <3>1. /\ creq'[s] = creq[s] /\ bill' = bill /\ InChain(creq[s])
          /\ cash'[creq[s].order][creq[s].kind] = cash[creq[s].order][creq[s].kind]
      BY <1>2, <2>2, OtherUpdates DEF ChainInv
    <3>. QED  BY <3>1 DEF InChain, Collectible, Due
  <2>3. ASSUME NEW o \in Orders, NEW k \in Kinds
        PROVE  cash'[o][k].collected \in Counts \cup {0}
    <3>1. CASE o # creq[r].order \/ k # creq[r].kind
      BY <1>2, <3>1, Committed DEF ChainInv
    <3>2. CASE o = creq[r].order /\ k = creq[r].kind
      <4>1. cash'[o][k] = Written(cash[o][k], creq[r])
        BY <1>2, <3>2, Committed
      <4>2. cash'[o][k].collected \in {cash[o][k].collected, creq[r].amount}
            /\ (creq[r].amount = NoAmount => cash'[o][k].collected = cash[o][k].collected)
        BY <4>1 DEF Written
      <4>3. creq[r].amount \in Counts \cup {NoAmount}
        BY <2>1 DEF InChain
      <4>. QED  BY <4>2, <4>3 DEF ChainInv
    <3>. QED  BY <3>1, <3>2
  <2>. QED  BY <2>2, <2>3 DEF ChainInv
<1>. QED  BY <1>1, <1>2, RowChange

\* As long as updates of one row do not overlap, what was decided stays in
\* the chain.
LEMMA ChainInvariant == CashSpec /\ []UpdatesApart => [](CashInv /\ ChainInv)
<1>1. CashInit => ChainInv
  BY ChainInit
<1>2. UpdatesApart /\ CashInv /\ ChainInv /\ [CashNext]_cashVars => ChainInv'
  BY ChainStep
<1>. QED  BY <1>1, <1>2, CashInvariant, PTL DEF CashSpec

\* As long as updates of one row do not overlap, every operation is one step
\* of the custody chain: CashDesk implements CashCustody.
THEOREM CustodyRefined == CashSpec /\ []UpdatesApart => CustodyKept
<1>1. CashInit => Custody!CustodyInit
  BY DEF CashInit, BaseInit, Custody!CustodyInit, Custody!BaseInit, Custody!Expects, Expects,
         Custody!Collectible, Collectible, Custody!Due, Due, Custody!Kinds, Kinds,
         Custody!ExpectedRow, ExpectedRow, Custody!NoRow, NoRow
<1>2. CashInv /\ ChainInv /\ [CashNext]_cashVars => [Custody!CustodyNext]_<<bill, paid, cash>>
  <2>1. ASSUME CashInv, ChainInv, NEW r \in Requests, Commit(r) PROVE Custody!CustodyNext
    BY <2>1, CommitIsCustodyStep DEF ChainInv, Commit
  <2>. QED  BY <2>1, RowChange DEF CashInv
<1>. QED  BY <1>1, <1>2, ChainInvariant, PTL
         DEF CashSpec, CustodyKept, Custody!CustodySpec

\* As long as updates of one row do not overlap, settled cash is final: the
\* check of assertCollectionMutable fails for no other reason than a race.
THEOREM SettledForGood == CashSpec /\ []UpdatesApart => SettledUnchanged
<1>. DEFINE Final == \A o \in Orders, k \in Kinds :
              cash[o][k].status = "settled" => cash'[o][k] = cash[o][k]
<1>1. CashInv /\ ChainInv /\ [CashNext]_cashVars => [Final]_cashVars
  <2>1. ASSUME CashInv, ChainInv, NEW r \in Requests, Commit(r) PROVE Final
    <3>1. InChain(creq[r]) /\ CashTypeOK
      BY <2>1 DEF Commit, ChainInv, CashInv
    <3>. QED  BY <2>1, <3>1, Committed DEF InChain
  <2>. QED  BY <2>1, RowChange DEF CashInv
<1>. QED  BY <1>1, ChainInvariant, PTL DEF CashSpec, SettledUnchanged

----------------------------------------------------------------------------
(* The ledger, one update of a row at a time: the event a request is going *)
(* to write still fits the row it is going to write.                       *)

\* A row nobody holds cash in says so, and otherwise its event counts it.
Counted(o, k) ==
  IF Taken(o, k) THEN event[o][k].amount = cash[o][k].collected
                 ELSE cash[o][k].holder = None /\ cash[o][k].collected = 0

\* The event continues the row, counts what will be on it, and names a driver
\* who parts with money, or a manager, as the actor.
Continues(u) ==
  LET row == cash[u.order][u.kind] IN
  /\ u.event.from = row.holder
  /\ u.event.amount = IF u.amount = NoAmount THEN row.collected ELSE u.amount
  /\ (row.holder \in Drivers /\ u.holder # row.holder) =>
       u.event.actor \in {row.holder, Manager}

LedgerInv ==
  /\ \A o \in Orders, k \in Kinds : Counted(o, k)
  /\ \A r \in Requests :
       /\ (creq[r].pc = "begun" /\ creq[r].op = "settle") => creq[r].actor = Manager
       /\ creq[r].pc = "decided" => Continues(creq[r])

\* No cash is taken, and nothing is decided, at first.
LEMMA LedgerInit == ASSUME CashInit PROVE LedgerInv
BY DEF CashInit, BaseInit, CashDeskInit, LedgerInv, Counted, Taken, NoRow, ExpectedRow, Idle

\* A collection counts what it sets; drivers collect again what is theirs, and
\* locations what is at a location.
LEMMA CollectContinues ==
  ASSUME CashInv, LedgerInv, NEW r \in Requests, ReadForCollect(r)
  PROVE  Continues(creq'[r])
<1>. DEFINE o == creq[r].order
            k == creq[r].kind
            row == cash[o][k]
            wanted == RowToCollect(o, k)
            amount == IF creq[r].amount # NoAmount THEN creq[r].amount
                      ELSE IF wanted.collected # 0 THEN wanted.collected ELSE Due(o, k)
            type == IF wanted.status = "expected" THEN "collected" ELSE "handoff"
<1>1. o \in Orders /\ k \in Kinds /\ CashTypeOK /\ row.status \in RowStates
  BY RequestKinds DEF CashInv, ReadForCollect, Operation, CashTypeOK, BaseTypeOK, Row
<1>2. /\ MayCollect(creq[r].actor, wanted)
      /\ amount > 0
      /\ Decide(r, wanted, "held", creq[r].actor, amount, PaidFor(Due(o, k), amount),
                type, amount)
      /\ UNCHANGED cash
  BY DEF ReadForCollect, baseVars
<1>3. wanted.holder = row.holder
  BY <1>1 DEF RowToCollect, ExpectedRow, LedgerInv, Counted, Taken
<1>4. row.holder \in Drivers => creq[r].actor = row.holder
  <2>1. row.holder \in Drivers => Taken(o, k)
    BY <1>1, NamesAssumption DEF LedgerInv, Counted, Holders
  <2>. QED  BY <1>1, <1>2, <2>1, NamesAssumption
            DEF MayCollect, RowToCollect, Taken, ExpectedRow
<1>. HIDE DEF amount, type, wanted
<1>5. amount # NoAmount
  BY <1>2 DEF NoAmount
<1>. QED  BY <1>1, <1>2, <1>3, <1>4, <1>5, Decided DEF Continues

\* Drivers hand off what is theirs; whatever else takes money from them is
\* a manager's hand-off or a settlement, which are managers' doing.
LEMMA PassContinues ==
  ASSUME CashInv, LedgerInv, NEW r \in Requests, ReadForHandoff(r) \/ ReadForSettle(r)
  PROVE  Continues(creq'[r])
<1>. DEFINE o == creq[r].order
            k == creq[r].kind
            row == cash[o][k]
<1>1. CashTypeOK /\ creq[r] \in Operation /\ UNCHANGED cash
  BY RequestKinds DEF CashInv, ReadForHandoff, ReadForSettle, baseVars
<1>2. CASE ReadForHandoff(r)
  <2>1. Decide(r, row, "held", creq[r].target, NoAmount, None, "handoff", row.collected)
    BY <1>2 DEF ReadForHandoff
  <2>2. creq[r].actor \in {row.holder, Manager}
    BY <1>2 DEF ReadForHandoff
  <2>. QED  BY <1>1, <2>1, <2>2, Decided DEF Continues
<1>3. CASE ReadForSettle(r)
  <2>1. Decide(r, row, "settled", Finance, NoAmount, None, "settled", row.collected)
    BY <1>3 DEF ReadForSettle
  <2>2. creq[r].actor = Manager
    BY <1>3 DEF ReadForSettle, LedgerInv
  <2>. QED  BY <1>1, <2>1, <2>2, Decided DEF Continues
<1>. QED  BY <1>2, <1>3

\* Nobody else writes a row between a request's decision and its commit.
LEMMA LedgerStep ==
  ASSUME UpdatesApart, CashInv, LedgerInv, [CashNext]_cashVars PROVE LedgerInv'
<1>. CashTypeOK
  BY DEF CashInv
<1>1. CASE UNCHANGED <<bill, paid, cash, event>>
  <2>1. ASSUME NEW o \in Orders, NEW k \in Kinds PROVE Counted(o, k)'
    BY <1>1 DEF LedgerInv, Counted, Taken
  <2>2. ASSUME NEW r \in Requests
        PROVE  /\ (creq'[r].pc = "begun" /\ creq'[r].op = "settle") => creq'[r].actor = Manager
               /\ creq'[r].pc = "decided" => Continues(creq[r])'
    <3>1. CASE creq'[r] = creq[r]
      BY <1>1, <3>1 DEF LedgerInv, Continues
    <3>2. CASE creq'[r].pc = "begun" /\ (creq'[r].op = "settle" => creq'[r].actor = Manager)
      BY <3>2
    <3>3. CASE creq'[r].pc = "idle"
      BY <3>3
    <3>4. CASE ReadForCollect(r) \/ ReadForHandoff(r) \/ ReadForSettle(r)
      <4>1. Continues(creq'[r])
        BY <3>4, CollectContinues, PassContinues
      <4>2. creq'[r].pc = "decided"
        BY <3>4 DEF ReadForCollect, ReadForHandoff, ReadForSettle, Decide, CashTypeOK
      <4>. QED  BY <1>1, <4>1, <4>2 DEF Continues
    <3>. QED  BY <1>1, <3>1, <3>2, <3>3, <3>4, QuietMoves
  <2>. QED  BY <2>1, <2>2 DEF LedgerInv
<1>2. ASSUME NEW r \in Requests, Commit(r) PROVE LedgerInv'
  <2>1. ASSUME NEW s \in Requests
        PROVE  /\ (creq'[s].pc = "begun" /\ creq'[s].op = "settle") => creq'[s].actor = Manager
               /\ creq'[s].pc = "decided" => Continues(creq[s])'
    <3>1. CASE creq'[s].pc = "idle"
      BY <3>1
    <3>2. CASE creq'[s].pc # "idle"
      <4>1. /\ creq'[s] = creq[s]
            /\ creq[s].pc = "decided" =>
                 cash'[creq[s].order][creq[s].kind] = cash[creq[s].order][creq[s].kind]
        BY <1>2, <3>2, OtherUpdates
      <4>. QED  BY <4>1 DEF LedgerInv, Continues
    <3>. QED  BY <3>1, <3>2
  <2>2. ASSUME NEW o \in Orders, NEW k \in Kinds PROVE Counted(o, k)'
    <3>1. CASE o # creq[r].order \/ k # creq[r].kind
      BY <1>2, <3>1, Committed DEF LedgerInv, Counted, Taken
    <3>2. CASE o = creq[r].order /\ k = creq[r].kind
      <4>1. /\ cash'[o][k] = Written(cash[o][k], creq[r])
            /\ event'[o][k] = creq[r].event
            /\ Taken(o, k)'
        BY <1>2, <3>2, Committed
      <4>2. Continues(creq[r])
        BY <1>2 DEF Commit, LedgerInv
      <4>. QED  BY <3>2, <4>1, <4>2 DEF Counted, Continues, Written
    <3>. QED  BY <3>1, <3>2
  <2>. QED  BY <2>1, <2>2 DEF LedgerInv
<1>. QED  BY <1>1, <1>2, RowChange

\* As long as updates of one row do not overlap, the ledger's invariant holds.
LEMMA LedgerInvariant == CashSpec /\ []UpdatesApart => [](CashInv /\ LedgerInv)
<1>1. CashInit => LedgerInv
  BY LedgerInit
<1>2. UpdatesApart /\ CashInv /\ LedgerInv /\ [CashNext]_cashVars => LedgerInv'
  BY LedgerStep
<1>. QED  BY <1>1, <1>2, CashInvariant, PTL DEF CashSpec

\* As long as updates of one row do not overlap, the latest event counts what
\* the row says.
THEOREM LedgerCounts == CashSpec /\ []UpdatesApart => []LedgerCountsCash
<1>1. LedgerInv => LedgerCountsCash
  BY DEF LedgerInv, Counted, LedgerCountsCash
<1>. QED  BY <1>1, LedgerInvariant, PTL

\* As long as updates of one row do not overlap, each event takes the money
\* from the holder the row named before it: the ledger is one chain of hands.
THEOREM LedgerChained == CashSpec /\ []UpdatesApart => LedgerContinues
<1>. DEFINE Chained == \A o \in Orders, k \in Kinds :
              event'[o][k] # event[o][k] => event'[o][k].from = cash[o][k].holder
<1>1. CashInv /\ LedgerInv /\ [CashNext]_cashVars => [Chained]_cashVars
  <2>1. ASSUME CashInv, LedgerInv, NEW r \in Requests, Commit(r) PROVE Chained
    <3>1. Continues(creq[r]) /\ CashTypeOK
      BY <2>1 DEF Commit, LedgerInv, CashInv
    <3>. QED  BY <2>1, <3>1, Committed DEF Continues
  <2>. QED  BY <2>1, RowChange DEF CashInv
<1>. QED  BY <1>1, LedgerInvariant, PTL DEF CashSpec, LedgerContinues

\* As long as updates of one row do not overlap, money leaves a driver's hands
\* only by the driver's or a manager's doing.
THEOREM DriversPart == CashSpec /\ []UpdatesApart => DriverParts
<1>. DEFINE Parts == \A o \in Orders, k \in Kinds :
              /\ cash[o][k].holder \in Drivers
              /\ cash'[o][k].holder # cash[o][k].holder
              => event'[o][k].actor \in {cash[o][k].holder, Manager}
<1>1. CashInv /\ LedgerInv /\ [CashNext]_cashVars => [Parts]_cashVars
  <2>1. ASSUME CashInv, LedgerInv, NEW r \in Requests, Commit(r) PROVE Parts
    <3>1. Continues(creq[r]) /\ CashTypeOK
      BY <2>1 DEF Commit, LedgerInv, CashInv
    <3>2. ASSUME NEW o \in Orders, NEW k \in Kinds, cash[o][k].holder \in Drivers,
                 cash'[o][k].holder # cash[o][k].holder
          PROVE  event'[o][k].actor \in {cash[o][k].holder, Manager}
      <4>1. o = creq[r].order /\ k = creq[r].kind
        BY <2>1, <3>1, <3>2, Committed
      <4>2. cash'[o][k] = Written(cash[o][k], creq[r]) /\ event'[o][k] = creq[r].event
        BY <2>1, <3>1, <4>1, Committed
      <4>3. cash'[o][k].holder = creq[r].holder
        BY <4>2 DEF Written
      <4>. QED  BY <3>1, <3>2, <4>1, <4>2, <4>3 DEF Continues
    <3>. QED  BY <3>2
  <2>. QED  BY <2>1, RowChange DEF CashInv
<1>. QED  BY <1>1, LedgerInvariant, PTL DEF CashSpec, DriverParts

=============================================================================
