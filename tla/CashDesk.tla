------------------------------ MODULE CashDesk ------------------------------
(***************************************************************************)
(* The three operations on a cash collection row: collectOrderCash,        *)
(* handoffOrderCash and settleOrderCash.                                   *)
(*                                                                         *)
(* Each runs in one database transaction at READ COMMITTED that reads the  *)
(* order, then reads the row, decides, and then updates the row by its id  *)
(* with no condition on what it read.  A request is therefore three steps: *)
(* Begin (the order is read and access is checked), Read (the row is read  *)
(* and the write is decided) and Commit.  Nothing of a transaction is seen *)
(* by the others before it commits, and the row locks its updates take     *)
(* make commits to one row happen one after the other.  A request that is  *)
(* refused, times out or dies with the server is rolled back (Abort).      *)
(***************************************************************************)
EXTENDS OrderBase

CONSTANTS
  Requests,     \* requests that can be in flight at the same time
  Amounts       \* amounts a caller may pass to collect

ASSUME AmountsAssumption == Amounts \subseteq Nat \ {0}

VARIABLES
  creq,         \* what each request has read and decided so far
  event         \* the latest CashCollectionEvent of each row

cashVars == <<baseVars, creq, event>>

----------------------------------------------------------------------------
NoAmount == 0    \* the caller gave no amount; also: the update leaves it alone

\* A request past Begin; a hand-off has a target.
Operation ==
  {q \in [pc     : {"begun"},
          op     : {"collect", "handoff", "settle"},
          actor  : Actors,
          order  : Orders,
          kind   : Kinds,
          amount : Amounts \cup {NoAmount},
          target : Holders \cup {None}] : q.op = "handoff" <=> q.target # None}

EventTypes == {"expected", "collected", "handoff", "settled"}

Event == [type   : EventTypes \cup {None},
          amount : Nat,
          from   : Holders \cup {Finance, None},
          to     : Holders \cup {Finance, None},
          actor  : Actors \cup {None}]

\* A request past Read: the update it is going to commit.
Update == [pc      : {"decided"},
           order   : Orders,
           kind    : Kinds,
           creates : BOOLEAN,              \* inserts the row it updates
           status  : {"held", "settled"},
           holder  : Holders \cup {Finance},
           amount  : Nat,                  \* NoAmount keeps collectedAmount
           paid    : PaidStates \cup {None},
           event   : Event]

ExpectedEvent(amount) ==
  [type |-> "expected", amount |-> amount, from |-> None, to |-> None, actor |-> None]
NoEvent ==
  [type |-> None, amount |-> 0, from |-> None, to |-> None, actor |-> None]

CashDeskInit ==
  /\ creq = [r \in Requests |-> Idle]
  /\ event = [o \in Orders |-> [k \in Kinds |->
                IF cash[o][k] = ExpectedRow THEN ExpectedEvent(Due(o, k)) ELSE NoEvent]]

----------------------------------------------------------------------------
(* Begin: load the order, check that the actor may touch its cash.         *)

MayAccess(a, o) ==
  \/ a = Manager
  \/ a \in Drivers   /\ driver[o] = a
  \/ a \in Locations /\ location[o] = a

Begin(r, op, a, o, k, amount, target) ==
  /\ creq[r] = Idle
  /\ MayAccess(a, o)
  /\ creq' = [creq EXCEPT ![r] =
                [pc |-> "begun", op |-> op, actor |-> a, order |-> o,
                 kind |-> k, amount |-> amount, target |-> target]]
  /\ UNCHANGED <<baseVars, event>>

BeginCollect(r) ==
  \E a \in Actors, o \in Orders, k \in Kinds, amount \in Amounts \cup {NoAmount} :
    Begin(r, "collect", a, o, k, amount, None)

\* To an existing driver, or to an existing location.
BeginHandoff(r) ==
  \E a \in Actors, o \in Orders, k \in Kinds, t \in Holders :
    Begin(r, "handoff", a, o, k, NoAmount, t)

BeginSettle(r) ==
  \E o \in Orders, k \in Kinds :
    Begin(r, "settle", Manager, o, k, NoAmount, None)

----------------------------------------------------------------------------
(* Read: the row is read, and the update decided from what it says.        *)

\* Mutant of Decide: the event names the actor as the one who parts with
\* the money.
DecideFromActor(r, row, status, holder, amount, paidAs, type, counted) ==
  LET q == creq[r] IN
  creq' = [creq EXCEPT ![r] =
             [pc      |-> "decided",
              order   |-> q.order,
              kind    |-> q.kind,
              creates |-> cash[q.order][q.kind].status = "absent",
              status  |-> status,
              holder  |-> holder,
              amount  |-> amount,
              paid    |-> paidAs,
              event   |-> [type |-> type, amount |-> counted, from |-> q.actor,
                           to |-> holder, actor |-> q.actor]]]

Decide(r, row, status, holder, amount, paidAs, type, counted) ==
  LET q == creq[r] IN
  creq' = [creq EXCEPT ![r] =
             [pc      |-> "decided",
              order   |-> q.order,
              kind    |-> q.kind,
              creates |-> cash[q.order][q.kind].status = "absent",
              status  |-> status,
              holder  |-> holder,
              amount  |-> amount,
              paid    |-> paidAs,
              event   |-> [type |-> type, amount |-> counted, from |-> row.holder,
                           to |-> holder, actor |-> q.actor]]]

\* Mutant of RowToCollect: a missing row is created whatever the terms say.
RowToCollectAnyway(o, k) ==
  IF cash[o][k].status = "absent" THEN ExpectedRow ELSE cash[o][k]

\* The row a collect works on: a missing one is first created as expected,
\* if the order's terms make the kind collectible (ensureCollectionForCollect).
RowToCollect(o, k) ==
  IF cash[o][k].status = "absent" /\ Expects(o, k) THEN ExpectedRow ELSE cash[o][k]

\* Mutant of MayCollect: a location takes over cash a driver holds.
LocationMayTakeOver(a, row) ==
  /\ a \in Holders
  /\ \/ row.status = "expected"
     \/ row.status = "held" /\ (a \in Drivers => row.holder = a)

\* A manager collects nothing: the cash would have no holder.
MayCollect(a, row) ==
  /\ a \in Holders
  /\ \/ row.status = "expected"
     \/ /\ row.status = "held"
        /\ \/ a \in Drivers   /\ row.holder = a
           \/ a \in Locations /\ row.holder \in Locations

ReadForCollect(r) ==
  LET q      == creq[r]
      row    == RowToCollect(q.order, q.kind)
      amount == IF q.amount # NoAmount THEN q.amount
                ELSE IF row.collected # 0 THEN row.collected
                ELSE Due(q.order, q.kind)
  IN  /\ q.pc = "begun" /\ q.op = "collect"
      /\ MayCollect(q.actor, row)
      /\ amount > 0
      /\ Decide(r, row, "held", q.actor, amount,
                PaidFor(Due(q.order, q.kind), amount),
                IF row.status = "expected" THEN "collected" ELSE "handoff", amount)
      /\ UNCHANGED <<baseVars, event>>

\* Mutant of ReadForHandoff: the event counts what was expected.
HandoffOfExpected(r) ==
  LET q   == creq[r]
      row == cash[q.order][q.kind]
  IN  /\ q.pc = "begun" /\ q.op = "handoff"
      /\ row.status = "held"
      /\ q.actor # Manager => row.holder = q.actor
      /\ Decide(r, row, "held", q.target, NoAmount, None, "handoff", Due(q.order, q.kind))
      /\ UNCHANGED <<baseVars, event>>

\* Drivers and locations hand off only what they hold; a manager, anything.
ReadForHandoff(r) ==
  LET q   == creq[r]
      row == cash[q.order][q.kind]
  IN  /\ q.pc = "begun" /\ q.op = "handoff"
      /\ row.status = "held"
      /\ q.actor # Manager => row.holder = q.actor
      /\ Decide(r, row, "held", q.target, NoAmount, None, "handoff", row.collected)
      /\ UNCHANGED <<baseVars, event>>

\* Mutant of ReadForSettle: only settled cash is refused.
SettleUnheld(r) ==
  LET q   == creq[r]
      row == cash[q.order][q.kind]
  IN  /\ q.pc = "begun" /\ q.op = "settle"
      /\ row.status \in {"expected", "held"}
      /\ Decide(r, row, "settled", Finance, NoAmount, None, "settled", row.collected)
      /\ UNCHANGED <<baseVars, event>>

ReadForSettle(r) ==
  LET q   == creq[r]
      row == cash[q.order][q.kind]
  IN  /\ q.pc = "begun" /\ q.op = "settle"
      /\ row.status = "held"
      /\ Decide(r, row, "settled", Finance, NoAmount, None, "settled", row.collected)
      /\ UNCHANGED <<baseVars, event>>

----------------------------------------------------------------------------
(* Commit: the row is written by its id, whatever it holds by now, with    *)
(* its event and the order's paid status.  The unique index on (order,     *)
(* kind) refuses the insertion of a row that another request has added.    *)

\* Mutants of Written: cash held already stays where it is; and cash that
\* was collected in part is still expected.
WrittenInPlace(row, u) ==
  [status    |-> u.status,
   collected |-> IF u.amount = NoAmount THEN row.collected ELSE u.amount,
   holder    |-> IF row.status = "held" /\ u.status = "held" THEN row.holder ELSE u.holder]

WrittenInPart(row, u) ==
  [status    |-> IF u.paid = "PARTIAL" THEN "expected" ELSE u.status,
   collected |-> IF u.amount = NoAmount THEN row.collected ELSE u.amount,
   holder    |-> u.holder]

Written(row, u) ==
  [status    |-> u.status,
   collected |-> IF u.amount = NoAmount THEN row.collected ELSE u.amount,
   holder    |-> u.holder]

\* Mutant of Commit: the paid status is set by the first collection only.
CommitPaidOnce(r) ==
  LET u == creq[r] IN
  /\ u.pc = "decided"
  /\ u.creates => cash[u.order][u.kind].status = "absent"
  /\ cash' = [cash EXCEPT ![u.order][u.kind] = Written(@, u)]
  /\ event' = [event EXCEPT ![u.order][u.kind] = u.event]
  /\ paid' = [paid EXCEPT ![u.order][u.kind] =
                IF u.paid = None \/ cash[u.order][u.kind].status = "held" THEN @ ELSE u.paid]
  /\ creq' = [creq EXCEPT ![r] = Idle]
  /\ UNCHANGED <<bill, driver, location>>

Commit(r) ==
  LET u == creq[r] IN
  /\ u.pc = "decided"
  /\ u.creates => cash[u.order][u.kind].status = "absent"
  /\ cash' = [cash EXCEPT ![u.order][u.kind] = Written(@, u)]
  /\ event' = [event EXCEPT ![u.order][u.kind] = u.event]
  /\ paid' = [paid EXCEPT ![u.order][u.kind] = IF u.paid = None THEN @ ELSE u.paid]
  /\ creq' = [creq EXCEPT ![r] = Idle]
  /\ UNCHANGED <<bill, driver, location>>

Abort(r) ==
  /\ creq[r] # Idle
  /\ creq' = [creq EXCEPT ![r] = Idle]
  /\ UNCHANGED <<baseVars, event>>

CashStep ==
  \E r \in Requests :
    \/ BeginCollect(r) \/ BeginHandoff(r) \/ BeginSettle(r)
    \/ ReadForCollect(r) \/ ReadForHandoff(r) \/ ReadForSettle(r)
    \/ Commit(r) \/ Abort(r)

----------------------------------------------------------------------------
(* What the task workflow does to the columns the access check reads.      *)
(* OrderDesk replaces this by the workflow itself.                         *)

Dispatch ==
  /\ \E os \in SUBSET Orders :
       \/ \E d \in Drivers : AssignDriver(os, d)
       \/ \E l \in Locations : Receive(os, l)
  /\ UNCHANGED <<bill, paid, cash, creq, event>>

CashInit == BaseInit /\ CashDeskInit

CashNext == CashStep \/ Dispatch

CashSpec == CashInit /\ [][CashNext]_cashVars

----------------------------------------------------------------------------
(* Properties that hold however requests overlap.                          *)

\* The columns and the requests in flight have their types.
CashTypeOK ==
  /\ BaseTypeOK
  /\ creq \in [Requests -> {Idle} \cup Operation \cup Update]
  /\ event \in [Orders -> [Kinds -> Event]]

Taken(o, k) == cash[o][k].status \in {"held", "settled"}

\* The order's paid status is the one its collected amount calls for: the
\* row and the order are written by different statements, and hand-offs of
\* the same cash may commit between two collections of it.
PaidAgreesWithCash ==
  \A o \in Orders, k \in Kinds :
    Taken(o, k) =>
      /\ cash[o][k].collected > 0
      /\ paid[o][k] = PaidFor(Due(o, k), cash[o][k].collected)

\* The last event of the ledger names whoever the row says has the money.
LedgerNamesHolder ==
  \A o \in Orders, k \in Kinds :
    Taken(o, k) =>
      /\ event[o][k].to = cash[o][k].holder
      /\ event[o][k].type = "settled" <=> cash[o][k].status = "settled"

\* Cash is only ever taken for an amount the order's terms make payable at
\* the door and that was not paid already, also where the row was missing.
OnlyOwedCashTaken ==
  \A o \in Orders, k \in Kinds :
    Taken(o, k) => Collectible(o, k) /\ bill[o].paid[k] # "PAID"

\* What no longer blocks an order never blocks it again: the workflow's
\* check of hasCashDueForStage does not go stale while it is acted on.
DueNeverReturns ==
  [][\A o \in Orders, k \in Kinds : ~Outstanding(o, k) => ~Outstanding(o, k)']_cashVars

----------------------------------------------------------------------------
(* Properties that hold when requests do not overlap.                      *)

\* Every operation is one step of the custody chain.
Custody == INSTANCE CashCustody
  WITH Counts <- Amounts \cup {b.amount[k] : b \in Bills, k \in Kinds}

CustodyKept == Custody!CustodySpec

\* The latest event counts the amount on the row.
LedgerCountsCash ==
  \A o \in Orders, k \in Kinds :
    Taken(o, k) => event[o][k].amount = cash[o][k].collected

\* Each event takes the money from the holder the row named before it.
LedgerContinues ==
  [][\A o \in Orders, k \in Kinds :
       event'[o][k] # event[o][k] => event'[o][k].from = cash[o][k].holder]_cashVars

\* Money in a driver's hands leaves them by the driver's or a manager's doing.
DriverParts ==
  [][\A o \in Orders, k \in Kinds :
       /\ cash[o][k].holder \in Drivers
       /\ cash'[o][k].holder # cash[o][k].holder
       => event'[o][k].actor \in {cash[o][k].holder, Manager}]_cashVars

\* "Settled cash collection cannot be changed" (assertCollectionMutable).
SettledUnchanged ==
  [][\A o \in Orders, k \in Kinds :
       cash[o][k].status = "settled" => cash'[o][k] = cash[o][k]]_cashVars
=============================================================================
