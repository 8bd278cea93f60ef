----------------------------- MODULE OrderBase -----------------------------
(***************************************************************************)
(* The database rows of a delivery order that its cash custody             *)
(* (CashDesk) and its task workflow (OrderTasks) share, and the pure       *)
(* decisions both take on them.                                            *)
(*                                                                         *)
(* A holder of cash is named by its id alone: a driver's user id, or the   *)
(* id of a location (a warehouse or a pickup point, which the custody code *)
(* treats alike).  Users of one location are indistinguishable to the      *)
(* code, so a location also stands for its users as an actor.              *)
(***************************************************************************)
EXTENDS Integers, FiniteSets

CONSTANTS
  Orders,       \* order ids
  Drivers,      \* ids of users with the driver role
  Locations,    \* ids of warehouses and pickup points
  Manager,      \* any user with the manager role
  Finance,      \* the holder of settled cash
  None,         \* null
  Bills         \* the payment terms an order may be created with

Kinds      == {"cod", "service_charge"}
PaidStates == {"NOT_PAID", "PARTIAL", "PAID"}
Payers     == {"SENDER", "RECIPIENT", "COMPANY", None}

\* A null paid status and NOT_PAID are never told apart by the code.
Bill == [amount : [Kinds -> Nat], payer : Payers, paid : [Kinds -> PaidStates]]

Holders == Drivers \cup Locations
Actors  == Holders \cup {Manager}

ASSUME BillsAssumption == Bills \subseteq Bill
ASSUME NamesAssumption ==
  /\ Drivers \cap Locations = {}
  /\ Manager \notin Holders
  /\ Finance \notin Holders
  /\ None \notin Holders \cup {Manager, Finance, "SENDER", "RECIPIENT", "COMPANY"}
  /\ None \notin PaidStates

VARIABLES
  bill,       \* the order's amounts, payer and paid states at creation; never changes
  driver,     \* Order.assignedDriverId
  location,   \* Order.currentWarehouseId
  paid,       \* Order.codPaidStatus and Order.serviceChargePaidStatus
  cash        \* the CashCollection row of each order and kind

baseVars == <<bill, driver, location, paid, cash>>

----------------------------------------------------------------------------
(* The cash collection row.  "collected" is 0 where the column is null.    *)

RowStates == {"absent", "expected", "held", "settled"}

Row == [status    : RowStates,
        collected : Nat,
        holder    : Holders \cup {Finance, None}]

NoRow       == [status |-> "absent",   collected |-> 0, holder |-> None]
ExpectedRow == [status |-> "expected", collected |-> 0, holder |-> None]

Due(o, k) == bill[o].amount[k]

\* Amount payable in cash for the kind: a service charge only when somebody
\* at the door pays it.
Collectible(o, k) ==
  /\ Due(o, k) > 0
  /\ k = "service_charge" => bill[o].payer \in {"SENDER", "RECIPIENT"}

\* A collection row is created only for an amount that is still to be paid.
Expects(o, k) == Collectible(o, k) /\ paid[o][k] # "PAID"

\* What a collected amount makes of the order's paid status.
PaidFor(expected, collected) ==
  IF collected >= expected THEN "PAID" ELSE "PARTIAL"

----------------------------------------------------------------------------
(* hasCashDueForStage: what still blocks a pickup and a delivery.  The     *)
(* order's paid status counts only while the kind has no row.              *)

\* Mutant of Outstanding: an order without the row owes nothing.
OutstandingInLedger(o, k) == cash[o][k].status = "expected"

Outstanding(o, k) ==
  \/ cash[o][k].status = "expected"
  \/ /\ cash[o][k].status = "absent"
     /\ Due(o, k) > 0
     /\ paid[o][k] # "PAID"

PickupDue(o) ==
  Outstanding(o, "service_charge") /\ bill[o].payer = "SENDER"

\* Mutant of DeliveryDue: a payer that was never said does not pay at the door.
DeliveryDueOfRecipient(o) ==
  \/ Outstanding(o, "cod")
  \/ Outstanding(o, "service_charge") /\ bill[o].payer = "RECIPIENT"

DeliveryDue(o) ==
  \/ Outstanding(o, "cod")
  \/ Outstanding(o, "service_charge") /\ bill[o].payer \in {"RECIPIENT", None}

----------------------------------------------------------------------------
(* The columns the task workflow writes and custody checks access by: a    *)
(* driver is assigned to orders, or the orders are received at a location, *)
(* which ends the assignment.                                              *)

AssignDriver(os, d) ==
  /\ driver' = [o \in Orders |-> IF o \in os THEN d ELSE driver[o]]
  /\ UNCHANGED location

Receive(os, l) ==
  /\ driver' = [o \in Orders |-> IF o \in os THEN None ELSE driver[o]]
  /\ location' = [o \in Orders |-> IF o \in os THEN l ELSE location[o]]

\* A request slot nobody uses.
Idle == [pc |-> "idle"]

----------------------------------------------------------------------------
(* An order starts unassigned, nowhere, with the rows of its expected      *)
(* amounts; or with none, when it was written before the cash ledger was   *)
(* added to the schema, which filled in no rows.                           *)

BaseInit ==
  /\ bill \in [Orders -> Bills]
  /\ driver = [o \in Orders |-> None]
  /\ location = [o \in Orders |-> None]
  /\ paid = [o \in Orders |-> bill[o].paid]
  /\ \E legacy \in SUBSET Orders :
       cash = [o \in Orders |-> [k \in Kinds |->
                 IF o \notin legacy /\ Expects(o, k) THEN ExpectedRow ELSE NoRow]]

BaseTypeOK ==
  /\ bill \in [Orders -> Bills]
  /\ driver \in [Orders -> Drivers \cup {None}]
  /\ location \in [Orders -> Locations \cup {None}]
  /\ paid \in [Orders -> [Kinds -> PaidStates]]
  /\ cash \in [Orders -> [Kinds -> Row]]
============================================================================
