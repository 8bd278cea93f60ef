----------------------------- MODULE OrderTasks -----------------------------
(***************************************************************************)
(* The task workflow of an order: assignDriversBulk, updateOrdersStatusBulk *)
(* and updateDriverOrderStatus.                                            *)
(*                                                                         *)
(* Each validates what it read outside any transaction and then writes the *)
(* orders by their ids and the tracking rows in one transaction, whatever  *)
(* has happened in between: a request is a validating step and a           *)
(* committing step.  A bulk request is refused as a whole or written as a  *)
(* whole.                                                                  *)
(***************************************************************************)
EXTENDS OrderBase

CONSTANTS
  TaskSlots,      \* task requests that can be in flight at the same time
  PickupPoints,   \* the locations that are pickup points, not warehouses
  PickupReasons,  \* reason codes of a failed pickup
  OtherReasons    \* all the others

Reasons == PickupReasons \cup OtherReasons

ASSUME TasksAssumption ==
  /\ PickupPoints \subseteq Locations
  /\ PickupReasons \cap OtherReasons = {}
  /\ None \notin Reasons

VARIABLES
  status,     \* Order.status
  reason,     \* Order.lastExceptionReason
  timeline,   \* status of the order's latest Tracking row that has one
  treq        \* what each request is going to write

taskVars == <<status, reason, timeline, treq>>

----------------------------------------------------------------------------
Statuses ==
  {"pending", "assigned", "pickup_in_progress", "picked_up", "at_warehouse",
   "in_transit", "out_for_delivery", "delivered", "exception",
   "return_in_progress", "returned", "cancelled"}

Final == {"delivered", "returned", "cancelled"}

NeedsReason   == {"exception", "return_in_progress", "cancelled"}
\* Mutant of NeedsLocation: orders are received nowhere.
NeedsLocationOnTheWay == {"in_transit", "out_for_delivery"}

NeedsLocation == {"at_warehouse", "in_transit", "out_for_delivery"}

\* Statuses the users of a location may set.
SettableAt(l) ==
  {"at_warehouse", "in_transit", "out_for_delivery", "exception"} \cup
  (IF l \in PickupPoints THEN {"delivered", "return_in_progress"} ELSE {})

AssignmentTypes == {"pickup", "delivery", "linehaul"}

Assignable(type) ==
  CASE type = "pickup"   -> {"pending", "assigned", "exception"}
    [] type = "delivery" -> {"at_warehouse", "out_for_delivery", "exception"}
    [] type = "linehaul" -> {"at_warehouse", "in_transit", "exception"}

\* Where the assigned driver may take an order from its present status; the
\* way out of an exception depends on why it was raised.
DriverNext(o) ==
  CASE status[o] = "assigned"           -> {"pickup_in_progress"}
    [] status[o] = "pickup_in_progress" -> {"picked_up", "exception"}
    [] status[o] = "at_warehouse"       -> {"out_for_delivery"}
    [] status[o] = "out_for_delivery"   -> {"delivered", "exception", "return_in_progress"}
    [] status[o] = "exception"          -> IF reason[o] \in PickupReasons
                                           THEN {"pickup_in_progress"}
                                           ELSE {"out_for_delivery", "return_in_progress"}
    [] OTHER                            -> {}

\* Pickup and delivery are not completed while cash is due for that stage.
CashAllows(o, to) ==
  /\ to = "picked_up" => ~PickupDue(o)
  /\ to = "delivered" => ~DeliveryDue(o)

\* A location's users touch the orders at their location and those nowhere.
InScope(a, os) == a \in Locations => \A o \in os : location[o] \in {a, None}

----------------------------------------------------------------------------
Assignment == [pc     : {"assign"},
               orders : SUBSET Orders,
               driver : Drivers,
               pickup : BOOLEAN]

\* Orders received at a location have one.
Transition ==
  {q \in [pc       : {"status"},
          orders   : SUBSET Orders,
          to       : Statuses,
          location : Locations \cup {None},
          reason   : Reasons \cup {None}] : q.to = "at_warehouse" => q.location # None}

TasksInit ==
  /\ status = [o \in Orders |-> "pending"]
  /\ reason = [o \in Orders |-> None]
  /\ timeline = [o \in Orders |-> "pending"]
  /\ treq = [r \in TaskSlots |-> Idle]

\* A manager or a location's user assigns a driver to some orders.
AssignDriversBulk(r) ==
  \E a \in Locations \cup {Manager}, os \in (SUBSET Orders) \ {{}},
     d \in Drivers, type \in AssignmentTypes :
    /\ treq[r] = Idle
    /\ \A o \in os : status[o] \in Assignable(type) \ Final
    /\ InScope(a, os)
    /\ treq' = [treq EXCEPT ![r] =
                  [pc |-> "assign", orders |-> os, driver |-> d,
                   pickup |-> type = "pickup"]]
    /\ UNCHANGED <<baseVars, status, reason, timeline>>

TransitionTo(r, os, to, l, why) ==
  treq' = [treq EXCEPT ![r] =
             [pc       |-> "status",
              orders   |-> os,
              to       |-> to,
              location |-> IF to = "at_warehouse" THEN l ELSE None,
              reason   |-> IF to = "exception" THEN why ELSE None]]

\* A manager sets any status; a location's user, those of its kind of place.
UpdateOrdersStatusBulk(r) ==
  \E a \in Locations \cup {Manager}, os \in (SUBSET Orders) \ {{}},
     to \in Statuses, why \in Reasons \cup {None}, l \in Locations \cup {None} :
    /\ treq[r] = Idle
    /\ a \in Locations => to \in SettableAt(a) /\ l = a
    /\ to \in NeedsReason => why # None
    /\ InScope(a, os)
    /\ to \in NeedsLocation => l # None
    /\ \A o \in os : CashAllows(o, to)
    /\ TransitionTo(r, os, to, l, why)
    /\ UNCHANGED <<baseVars, status, reason, timeline>>

UpdateDriverOrderStatus(r) ==
  \E d \in Drivers, o \in Orders, to \in Statuses, why \in Reasons \cup {None} :
    /\ treq[r] = Idle
    /\ driver[o] = d
    /\ status[o] \notin Final
    /\ to \in DriverNext(o)
    /\ to \in NeedsReason => why # None
    /\ CashAllows(o, to)
    /\ TransitionTo(r, {o}, to, None, why)
    /\ UNCHANGED <<baseVars, status, reason, timeline>>

\* Mutant of CommitAssignment: every assignment is put in the tracking
\* history, also of those that leave the status alone.
CommitAssignmentTracked(r) ==
  LET q == treq[r] IN
  /\ q.pc = "assign"
  /\ AssignDriver(q.orders, q.driver)
  /\ status' = [o \in Orders |->
                  IF o \in q.orders /\ q.pickup /\ status[o] \in {"pending", "exception"}
                  THEN "assigned" ELSE status[o]]
  /\ timeline' = [o \in Orders |-> IF o \in q.orders THEN "assigned" ELSE timeline[o]]
  /\ treq' = [treq EXCEPT ![r] = Idle]
  /\ UNCHANGED <<bill, paid, cash, reason>>

\* Only the move to "assigned" looks at the status the order has by now.
CommitAssignment(r) ==
  LET q == treq[r] IN
  /\ q.pc = "assign"
  /\ AssignDriver(q.orders, q.driver)
  /\ status' = [o \in Orders |->
                  IF o \in q.orders /\ q.pickup /\ status[o] \in {"pending", "exception"}
                  THEN "assigned" ELSE status[o]]
  /\ timeline' = [o \in Orders |->
                    IF o \in q.orders /\ q.pickup THEN "assigned" ELSE timeline[o]]
  /\ treq' = [treq EXCEPT ![r] = Idle]
  /\ UNCHANGED <<bill, paid, cash, reason>>

\* Mutant of CommitTransition: a delivered order is marked as paid.
CommitTransitionPaid(r) ==
  LET q == treq[r] IN
  /\ q.pc = "status"
  /\ status' = [o \in Orders |-> IF o \in q.orders THEN q.to ELSE status[o]]
  /\ timeline' = [o \in Orders |-> IF o \in q.orders THEN q.to ELSE timeline[o]]
  /\ reason' = [o \in Orders |->
                  IF o \in q.orders /\ q.to = "exception" THEN q.reason ELSE reason[o]]
  /\ IF q.to = "at_warehouse" THEN Receive(q.orders, q.location)
                              ELSE UNCHANGED <<driver, location>>
  /\ treq' = [treq EXCEPT ![r] = Idle]
  /\ paid' = [o \in Orders |->
                IF o \in q.orders /\ q.to = "delivered" THEN [k \in Kinds |-> "PAID"]
                                                       ELSE paid[o]]
  /\ UNCHANGED <<bill, cash>>

CommitTransition(r) ==
  LET q == treq[r] IN
  /\ q.pc = "status"
  /\ status' = [o \in Orders |-> IF o \in q.orders THEN q.to ELSE status[o]]
  /\ timeline' = [o \in Orders |-> IF o \in q.orders THEN q.to ELSE timeline[o]]
  /\ reason' = [o \in Orders |->
                  IF o \in q.orders /\ q.to = "exception" THEN q.reason ELSE reason[o]]
  /\ IF q.to = "at_warehouse" THEN Receive(q.orders, q.location)
                              ELSE UNCHANGED <<driver, location>>
  /\ treq' = [treq EXCEPT ![r] = Idle]
  /\ UNCHANGED <<bill, paid, cash>>

\* The server dies, or the transaction fails, before anything is written.
AbortTask(r) ==
  /\ treq[r] # Idle
  /\ treq' = [treq EXCEPT ![r] = Idle]
  /\ UNCHANGED <<baseVars, status, reason, timeline>>

TaskStep ==
  \E r \in TaskSlots :
    \/ AssignDriversBulk(r) \/ UpdateOrdersStatusBulk(r) \/ UpdateDriverOrderStatus(r)
    \/ CommitAssignment(r) \/ CommitTransition(r) \/ AbortTask(r)

TasksTypeOK ==
  /\ status \in [Orders -> Statuses]
  /\ reason \in [Orders -> Reasons \cup {None}]
  /\ timeline \in [Orders -> Statuses]
  /\ treq \in [TaskSlots -> {Idle} \cup Assignment \cup Transition]
=============================================================================
