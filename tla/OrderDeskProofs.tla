-------------------------- MODULE OrderDeskProofs --------------------------
(***************************************************************************)
(* The gate between the task workflow and the cash desk holds for any      *)
(* number of orders and of requests of either kind in flight.              *)
(***************************************************************************)
EXTENDS OrderDesk, CashDeskProofs

\* Orders start pending, with no task request in flight.
LEMMA TasksInitTyped == ASSUME TasksInit PROVE TasksTypeOK
BY DEF TasksInit, TasksTypeOK, Statuses

\* The steps of a request that validate and do not write.
Validates(r) == AssignDriversBulk(r) \/ UpdateOrdersStatusBulk(r) \/ UpdateDriverOrderStatus(r)

\* A validated status change is well-formed, and for every order allowed by
\* its cash.
LEMMA ValidatedTransition ==
  ASSUME TasksTypeOK, NEW r \in TaskSlots,
         UpdateOrdersStatusBulk(r) \/ UpdateDriverOrderStatus(r)
  PROVE  /\ treq'[r] \in Transition
         /\ treq' = [treq EXCEPT ![r] = treq'[r]]
         /\ \A o \in treq'[r].orders : CashAllows(o, treq'[r].to)
<1>1. ASSUME NEW os \in SUBSET Orders, NEW to \in Statuses, NEW l \in Locations \cup {None},
             NEW why \in Reasons \cup {None}, TransitionTo(r, os, to, l, why),
             to = "at_warehouse" => l # None, \A o \in os : CashAllows(o, to)
      PROVE  /\ treq'[r] \in Transition
             /\ treq' = [treq EXCEPT ![r] = treq'[r]]
             /\ \A o \in treq'[r].orders : CashAllows(o, treq'[r].to)
  <2>. DEFINE t == [pc |-> "status", orders |-> os, to |-> to,
                    location |-> IF to = "at_warehouse" THEN l ELSE None,
                    reason |-> IF to = "exception" THEN why ELSE None]
  <2>1. treq'[r] = t /\ treq' = [treq EXCEPT ![r] = t]
    BY <1>1 DEF TransitionTo, TasksTypeOK
  <2>2. t \in Transition
    BY <1>1 DEF Transition
  <2>. QED  BY <1>1, <2>1, <2>2
<1>2. CASE UpdateOrdersStatusBulk(r)
  BY <1>1, <1>2 DEF UpdateOrdersStatusBulk, NeedsLocation
<1>3. CASE UpdateDriverOrderStatus(r)
  <2>. PICK d \in Drivers, o \in Orders, to \in Statuses, why \in Reasons \cup {None} :
         to \in DriverNext(o) /\ CashAllows(o, to) /\ TransitionTo(r, {o}, to, None, why)
    BY <1>3 DEF UpdateDriverOrderStatus
  <2>. to # "at_warehouse"
    BY DEF DriverNext
  <2>. {o} \in SUBSET Orders /\ None \in Locations \cup {None}
    OBVIOUS
  <2>. QED  BY <1>1
<1>. QED  BY <1>2, <1>3

\* A validated assignment is well-formed.
LEMMA ValidatedAssignment ==
  ASSUME TasksTypeOK, NEW r \in TaskSlots, AssignDriversBulk(r)
  PROVE  treq'[r] \in Assignment /\ treq' = [treq EXCEPT ![r] = treq'[r]]
<1>. PICK a \in Locations \cup {Manager}, os \in (SUBSET Orders) \ {{}}, d \in Drivers,
          type \in AssignmentTypes :
       treq' = [treq EXCEPT ![r] = [pc |-> "assign", orders |-> os, driver |-> d,
                                    pickup |-> type = "pickup"]]
  BY Zenon DEF AssignDriversBulk
<1>. [pc |-> "assign", orders |-> os, driver |-> d, pickup |-> type = "pickup"] \in Assignment
  BY DEF Assignment
<1>. QED  BY DEF TasksTypeOK

\* What a task request's record is, by its program counter.
LEMMA TaskKinds ==
  ASSUME TasksTypeOK, NEW r \in TaskSlots
  PROVE  /\ treq[r].pc = "assign" => treq[r] \in Assignment
         /\ treq[r].pc = "status" => treq[r] \in Transition
         /\ treq[r] \in Assignment => treq[r].pc = "assign"
BY DEF TasksTypeOK, Idle, Assignment, Transition

\* Every step of the composition keeps the task columns and requests typed.
LEMMA TasksTyping ==
  ASSUME TasksTypeOK, [DeskNext]_deskVars PROVE TasksTypeOK'
<1>1. CASE UNCHANGED taskVars
  BY <1>1 DEF taskVars, TasksTypeOK
<1>2. ASSUME NEW r \in TaskSlots, Validates(r) PROVE TasksTypeOK'
  <2>1. treq'[r] \in Assignment \cup Transition /\ treq' = [treq EXCEPT ![r] = treq'[r]]
    BY <1>2, ValidatedTransition, ValidatedAssignment DEF Validates
  <2>. QED  BY <1>2, <2>1 DEF Validates, AssignDriversBulk, UpdateOrdersStatusBulk,
                            UpdateDriverOrderStatus, TasksTypeOK
<1>3. ASSUME NEW r \in TaskSlots, CommitAssignment(r) PROVE TasksTypeOK'
  BY <1>3 DEF CommitAssignment, TasksTypeOK, Statuses
<1>4. ASSUME NEW r \in TaskSlots, CommitTransition(r) PROVE TasksTypeOK'
  <2>. treq[r].to \in Statuses /\ treq[r].reason \in Reasons \cup {None}
    BY <1>4, TaskKinds DEF CommitTransition, Transition
  <2>. QED  BY <1>4 DEF CommitTransition, TasksTypeOK
<1>5. ASSUME NEW r \in TaskSlots, AbortTask(r) PROVE TasksTypeOK'
  BY <1>5 DEF AbortTask, TasksTypeOK
<1>. QED  BY <1>1, <1>2, <1>3, <1>4, <1>5 DEF DeskNext, TaskStep, Validates, deskVars
----------------------------------------------------------------------------
(* Seen from the cash desk, a task step is a Dispatch or no step at all.   *)

\* A task step assigns a driver, receives orders at a location, or leaves
\* both columns alone.
LEMMA TaskIsDispatch ==
  ASSUME TasksTypeOK, TaskStep, UNCHANGED <<creq, event>>
  PROVE  Dispatch \/ UNCHANGED cashVars
<1>1. CASE UNCHANGED baseVars
  BY <1>1 DEF cashVars
<1>2. ASSUME NEW r \in TaskSlots, CommitAssignment(r) PROVE Dispatch
  <2>. treq[r].orders \in SUBSET Orders /\ treq[r].driver \in Drivers
    BY <1>2, TaskKinds DEF CommitAssignment, Assignment
  <2>. QED  BY <1>2 DEF CommitAssignment, Dispatch
<1>3. ASSUME NEW r \in TaskSlots, CommitTransition(r) PROVE Dispatch \/ UNCHANGED baseVars
  <2>1. treq[r] \in Transition
    BY <1>3, TaskKinds DEF CommitTransition
  <2>2. CASE treq[r].to = "at_warehouse"
    <3>. treq[r].orders \in SUBSET Orders /\ treq[r].location \in Locations
      BY <2>1, <2>2 DEF Transition
    <3>. QED  BY <1>3, <2>2 DEF CommitTransition, Dispatch
  <2>3. CASE treq[r].to # "at_warehouse"
    BY <1>3, <2>3 DEF CommitTransition, baseVars
  <2>. QED  BY <2>2, <2>3
<1>. QED  BY <1>1, <1>2, <1>3 DEF TaskStep, AssignDriversBulk, UpdateOrdersStatusBulk,
                                UpdateDriverOrderStatus, AbortTask, cashVars

\* Every step of the composition is one of the cash desk, or none to it.
LEMMA DeskStepIsCashStep ==
  ASSUME TasksTypeOK, [DeskNext]_deskVars PROVE [CashNext]_cashVars
BY TaskIsDispatch DEF DeskNext, CashNext, deskVars

\* The rows, the requests of both kinds and the orders have their types.
THEOREM DeskTyping == DeskSpec => []DeskTypeOK
<1>1. DeskSpec => []TasksTypeOK
  <2>1. DeskInit => TasksTypeOK
    BY TasksInitTyped DEF DeskInit
  <2>2. TasksTypeOK /\ [DeskNext]_deskVars => TasksTypeOK'
    BY TasksTyping
  <2>. QED  BY <2>1, <2>2, PTL DEF DeskSpec
<1>2. DeskSpec => []CashTypeOK
  <2>1. DeskInit => CashInit
    BY DEF DeskInit
  <2>2. TasksTypeOK /\ [DeskNext]_deskVars => [CashNext]_cashVars
    BY DeskStepIsCashStep
  <2>. QED  BY <1>1, <2>1, <2>2, CashTyping, PTL DEF DeskSpec, CashSpec
<1>. QED  BY <1>1, <1>2, PTL DEF DeskTypeOK

\* The workflow does nothing to cash that the cash desk's own model does not
\* allow for: every theorem about CashSpec is one about DeskSpec.
THEOREM WorkflowKeepsCash == DeskSpec => CashKept
<1>1. DeskInit => CashInit
  BY DEF DeskInit
<1>2. DeskTypeOK /\ [DeskNext]_deskVars => [CashNext]_cashVars
  BY DeskStepIsCashStep DEF DeskTypeOK
<1>. QED  BY <1>1, <1>2, DeskTyping, PTL DEF DeskSpec, CashSpec, CashKept

----------------------------------------------------------------------------
(* The gate.  Nothing due ever comes back (DueStep), so an order a request *)
(* was validated for is still allowed by its cash when it is written.      *)

GateInv ==
  /\ \A o \in Orders : CashAllows(o, status[o])
  /\ \A r \in TaskSlots :
       treq[r].pc = "status" => \A o \in treq[r].orders : CashAllows(o, treq[r].to)

\* What an order's cash allows now, it allows after any step.
LEMMA AllowanceStays ==
  ASSUME CashTypeOK, [CashNext]_cashVars, NEW o \in Orders, NEW to, CashAllows(o, to)
  PROVE  CashAllows(o, to)'
<1>1. bill' = bill
  BY RowChange DEF Commit
<1>2. /\ "cod" \in Kinds /\ "service_charge" \in Kinds
      /\ \A k \in Kinds : ~Outstanding(o, k) => ~Outstanding(o, k)'
  BY DueStep DEF Kinds
<1>. QED  BY <1>1, <1>2 DEF CashAllows, PickupDue, DeliveryDue

\* Statuses written, and statuses about to be, stay allowed by the cash.
LEMMA GateStep ==
  ASSUME DeskTypeOK, GateInv, [DeskNext]_deskVars PROVE GateInv'
<1>1. ASSUME NEW o \in Orders, NEW to, CashAllows(o, to) PROVE CashAllows(o, to)'
  BY <1>1, AllowanceStays, DeskStepIsCashStep DEF DeskTypeOK
<1>. TasksTypeOK
  BY DEF DeskTypeOK
<1>2. ASSUME UNCHANGED status PROVE \A o \in Orders : CashAllows(o, status[o])'
  <2>. \A o \in Orders : CashAllows(o, status[o])
    BY DEF GateInv
  <2>. QED  BY <1>1, <1>2
<1>3. ASSUME NEW r \in TaskSlots, treq'[r].pc = "status", treq'[r] = treq[r]
      PROVE  \A o \in treq'[r].orders : CashAllows(o, treq[r].to)'
  <2>1. \A o \in treq[r].orders : o \in Orders /\ CashAllows(o, treq[r].to)
    BY <1>3, TaskKinds DEF GateInv, Transition
  <2>. QED  BY <1>1, <1>3, <2>1
<1>4. CASE UNCHANGED <<status, treq>>
  BY <1>2, <1>3, <1>4 DEF GateInv
<1>5. ASSUME NEW r \in TaskSlots, UNCHANGED status,
             \A s \in TaskSlots \ {r} : treq'[s] = treq[s],
             treq'[r].pc # "status"
      PROVE  GateInv'
  BY <1>2, <1>3, <1>5 DEF GateInv
<1>6. ASSUME NEW r \in TaskSlots, AssignDriversBulk(r) PROVE GateInv'
  <2>. treq'[r].pc = "assign" /\ \A s \in TaskSlots \ {r} : treq'[s] = treq[s]
    BY <1>6, ValidatedAssignment DEF Assignment, TasksTypeOK
  <2>. QED  BY <1>5, <1>6 DEF AssignDriversBulk
<1>7. ASSUME NEW r \in TaskSlots, UpdateOrdersStatusBulk(r) \/ UpdateDriverOrderStatus(r)
      PROVE  GateInv'
  <2>1. /\ treq'[r] \in Transition
        /\ \A s \in TaskSlots \ {r} : treq'[s] = treq[s]
        /\ \A o \in treq'[r].orders : CashAllows(o, treq'[r].to)
    BY <1>7, ValidatedTransition DEF TasksTypeOK
  <2>2. \A o \in treq'[r].orders : CashAllows(o, treq[r].to)'
    BY <1>1, <2>1 DEF Transition
  <2>3. UNCHANGED status
    BY <1>7 DEF UpdateOrdersStatusBulk, UpdateDriverOrderStatus
  <2>. QED  BY <1>2, <1>3, <2>1, <2>2, <2>3 DEF GateInv
<1>8. ASSUME NEW r \in TaskSlots, CommitAssignment(r) PROVE GateInv'
  <2>1. treq'[r].pc = "idle" /\ \A s \in TaskSlots \ {r} : treq'[s] = treq[s]
    BY <1>8 DEF CommitAssignment, Idle, TasksTypeOK
  <2>2. \A o \in Orders : status'[o] \in {status[o], "assigned"}
    BY <1>8 DEF CommitAssignment
  <2>3. \A o \in Orders : CashAllows(o, status[o])'
    <3>. \A o \in Orders : CashAllows(o, status[o])
      BY DEF GateInv
    <3>. \A o \in Orders : CashAllows(o, status'[o])
      BY <2>2 DEF CashAllows
    <3>. QED  BY <1>1
  <2>. QED  BY <1>3, <2>1, <2>3 DEF GateInv
<1>9. ASSUME NEW r \in TaskSlots, CommitTransition(r) PROVE GateInv'
  <2>1. treq'[r].pc = "idle" /\ \A s \in TaskSlots \ {r} : treq'[s] = treq[s]
    BY <1>9 DEF CommitTransition, Idle, TasksTypeOK
  <2>2. \A o \in Orders : CashAllows(o, status'[o])
    <3>. \A o \in Orders : status'[o] = IF o \in treq[r].orders THEN treq[r].to ELSE status[o]
      BY <1>9 DEF CommitTransition
    <3>. QED  BY <1>9 DEF CommitTransition, GateInv
  <2>3. \A o \in Orders : CashAllows(o, status[o])'
    BY <1>1, <2>2
  <2>. QED  BY <1>3, <2>1, <2>3 DEF GateInv
<1>10. ASSUME NEW r \in TaskSlots, AbortTask(r) PROVE GateInv'
  <2>. treq'[r].pc = "idle" /\ \A s \in TaskSlots \ {r} : treq'[s] = treq[s]
    BY <1>10 DEF AbortTask, Idle, TasksTypeOK
  <2>. QED  BY <1>5, <1>10 DEF AbortTask
<1>. QED  BY <1>4, <1>6, <1>7, <1>8, <1>9, <1>10
          DEF DeskNext, TaskStep, deskVars, taskVars

\* Whatever is in flight, the cash of an order allows the status it has.
LEMMA GateInvariant == DeskSpec => [](DeskTypeOK /\ GateInv /\ CashInv)
<1>1. DeskInit => GateInv
  BY DEF DeskInit, TasksInit, GateInv, CashAllows, Idle
<1>2. DeskTypeOK /\ GateInv /\ [DeskNext]_deskVars => GateInv'
  BY GateStep
<1>3. DeskSpec => []CashInv
  BY WorkflowKeepsCash, CashInvariant, PTL DEF CashKept
<1>. QED  BY <1>1, <1>2, <1>3, DeskTyping, PTL DEF DeskSpec

\* Money that was owed and blocks nothing was taken.
LEMMA PaidInMeansTaken ==
  ASSUME CashInv, NEW o \in Orders, NEW k \in Kinds, Paying(o, k), ~Outstanding(o, k)
  PROVE  Taken(o, k)
<1>. RowInv(o, k) /\ cash[o][k].status \in RowStates
  BY DEF CashInv, CashTypeOK, BaseTypeOK, Row
<1>. QED  BY DEF RowInv, Paying, Outstanding, Taken, RowStates

\* An order shown as delivered had everything owed at the door collected.
THEOREM DeliveredCollected == DeskSpec => []DeliveredMeansCollected
<1>1. ASSUME CashInv, GateInv, NEW o \in Orders, status[o] = "delivered",
             NEW k \in OwedAtDelivery(o), Paying(o, k)
      PROVE  Taken(o, k)
  <2>. k \in Kinds /\ ~Outstanding(o, k)
    BY <1>1 DEF GateInv, CashAllows, DeliveryDue, OwedAtDelivery, Kinds
  <2>. QED  BY <1>1, PaidInMeansTaken
<1>2. CashInv /\ GateInv => DeliveredMeansCollected
  BY <1>1 DEF DeliveredMeansCollected
<1>. QED  BY <1>2, GateInvariant, PTL

\* An order shown as picked up had the sender's service charge collected.
THEOREM PickedUpCharged == DeskSpec => []PickedUpMeansCharged
<1>1. ASSUME CashInv, GateInv, NEW o \in Orders, status[o] = "picked_up",
             NEW k \in OwedAtPickup(o), Paying(o, k)
      PROVE  Taken(o, k)
  <2>. k \in Kinds /\ ~Outstanding(o, k)
    BY <1>1 DEF GateInv, CashAllows, PickupDue, OwedAtPickup, Kinds
  <2>. QED  BY <1>1, PaidInMeansTaken
<1>2. CashInv /\ GateInv => PickedUpMeansCharged
  BY <1>1 DEF PickedUpMeansCharged
<1>. QED  BY <1>2, GateInvariant, PTL

----------------------------------------------------------------------------
(* The tracking history.  An assignment writes "assigned" into the history *)
(* of every order, and into the status only of those that wait for one;    *)
(* both agree as long as the request was validated against a status the    *)
(* order still has, or one that another assignment gave it since.          *)

\* No order is about to be assigned for pickup by one request and to be moved
\* by another.
AssignmentsApart ==
  \A r, s \in TaskSlots :
    (treq[r].pc = "assign" /\ treq[r].pickup /\ treq[s].pc = "status") =>
      treq[r].orders \cap treq[s].orders = {}

\* So it is, in particular, where there is one task request at a time.
LEMMA OneTaskAtATime ==
  (\A r, s \in TaskSlots : r = s) => (DeskSpec => []AssignmentsApart)
<1>. SUFFICES ASSUME \A r, s \in TaskSlots : r = s PROVE DeskSpec => []AssignmentsApart
  OBVIOUS
<1>1. AssignmentsApart
  BY DEF AssignmentsApart
<1>. QED  BY <1>1, PTL

TimelineInv ==
  /\ timeline = status
  /\ \A r \in TaskSlots :
       (treq[r].pc = "assign" /\ treq[r].pickup) =>
         \A o \in treq[r].orders : status[o] \in {"pending", "assigned", "exception"}

\* An assignment for pickup is validated for orders that can be assigned.
LEMMA PickupValidated ==
  ASSUME TasksTypeOK, NEW r \in TaskSlots, AssignDriversBulk(r), treq'[r].pickup
  PROVE  \A o \in treq'[r].orders : status[o] \in {"pending", "assigned", "exception"}
<1>. PICK a \in Locations \cup {Manager}, os \in (SUBSET Orders) \ {{}}, d \in Drivers,
          type \in AssignmentTypes :
       /\ \A o \in os : status[o] \in Assignable(type) \ Final
       /\ treq' = [treq EXCEPT ![r] = [pc |-> "assign", orders |-> os, driver |-> d,
                                       pickup |-> type = "pickup"]]
  BY Zenon DEF AssignDriversBulk
<1>1. treq'[r].orders = os
  BY DEF TasksTypeOK
<1>2. CASE type # "pickup"
  <2>1. (type = "pickup") = FALSE
    BY <1>2
  <2>2. treq' = [treq EXCEPT ![r] = [pc |-> "assign", orders |-> os, driver |-> d,
                                     pickup |-> FALSE]]
    BY <2>1, Zenon
  <2>. QED  BY <2>2 DEF TasksTypeOK
<1>. QED  BY <1>1, <1>2 DEF Assignable

\* What is validated is still so when it is written.
LEMMA TimelineStep ==
  ASSUME AssignmentsApart, TasksTypeOK, TimelineInv, [DeskNext]_deskVars
  PROVE  TimelineInv'
<1>. DEFINE Waits(o) == status[o] \in {"pending", "assigned", "exception"}
<1>. status \in [Orders -> Statuses] /\ treq \in [TaskSlots -> {Idle} \cup Assignment \cup Transition]
  BY DEF TasksTypeOK
<1>1. CASE UNCHANGED taskVars
  BY <1>1 DEF taskVars, TimelineInv
<1>2. ASSUME NEW r \in TaskSlots, Validates(r) PROVE TimelineInv'
  <2>1. UNCHANGED <<status, timeline>>
    BY <1>2 DEF Validates, AssignDriversBulk, UpdateOrdersStatusBulk, UpdateDriverOrderStatus
  <2>2. ASSUME NEW s \in TaskSlots, s # r PROVE treq'[s] = treq[s]
    BY <1>2, <2>2
    DEF Validates, AssignDriversBulk, UpdateOrdersStatusBulk, UpdateDriverOrderStatus, TransitionTo
  <2>3. CASE AssignDriversBulk(r)
    BY <2>1, <2>2, <2>3, PickupValidated DEF TimelineInv
  <2>4. CASE UpdateOrdersStatusBulk(r) \/ UpdateDriverOrderStatus(r)
    <3>. treq'[r].pc = "status"
      BY <2>4, ValidatedTransition DEF Transition
    <3>. QED  BY <2>1, <2>2 DEF TimelineInv
  <2>. QED  BY <1>2, <2>3, <2>4 DEF Validates
<1>3. ASSUME NEW r \in TaskSlots, CommitAssignment(r) \/ CommitTransition(r) \/ AbortTask(r),
             NEW s \in TaskSlots, treq'[s].pc = "assign"
      PROVE  treq'[s] = treq[s]
  BY <1>3 DEF CommitAssignment, CommitTransition, AbortTask, Idle
<1>4. ASSUME NEW r \in TaskSlots, CommitAssignment(r) PROVE TimelineInv'
  <2>1. \A o \in treq[r].orders : treq[r].pickup => Waits(o)
    BY <1>4 DEF CommitAssignment, TimelineInv
  <2>2. timeline' = status'
    BY <1>4, <2>1 DEF CommitAssignment, TimelineInv
  <2>3. \A o \in Orders : Waits(o) => Waits(o)'
    BY <1>4 DEF CommitAssignment
  <2>4. ASSUME NEW s \in TaskSlots, treq'[s].pc = "assign", treq'[s].pickup,
               NEW o \in treq'[s].orders
        PROVE  Waits(o)'
    <3>1. treq'[s] = treq[s]
      BY <1>3, <1>4, <2>4
    <3>2. treq[s].orders \subseteq Orders
      BY <2>4, <3>1 DEF Assignment, Transition, Idle
    <3>. QED  BY <2>3, <2>4, <3>1, <3>2 DEF TimelineInv
  <2>. QED  BY <2>2, <2>4 DEF TimelineInv
<1>5. ASSUME NEW r \in TaskSlots, CommitTransition(r) PROVE TimelineInv'
  <2>1. timeline' = status'
    BY <1>5 DEF CommitTransition, TimelineInv
  <2>2. ASSUME NEW s \in TaskSlots, treq'[s].pc = "assign", treq'[s].pickup,
               NEW o \in treq'[s].orders
        PROVE  Waits(o)'
    <3>1. treq'[s] = treq[s]
      BY <1>3, <1>5, <2>2
    <3>2. o \notin treq[r].orders
      BY <1>5, <2>2, <3>1 DEF AssignmentsApart, CommitTransition
    <3>3. o \in Orders
      BY <2>2, <3>1 DEF Assignment, Transition, Idle
    <3>4. status'[o] = status[o]
      BY <1>5, <3>2, <3>3 DEF CommitTransition
    <3>. QED  BY <2>2, <3>1, <3>4 DEF TimelineInv
  <2>. QED  BY <2>1, <2>2 DEF TimelineInv
<1>6. ASSUME NEW r \in TaskSlots, AbortTask(r) PROVE TimelineInv'
  <2>. UNCHANGED <<status, timeline>>
    BY <1>6 DEF AbortTask
  <2>. QED  BY <1>3, <1>6 DEF TimelineInv
<1>. QED  BY <1>1, <1>2, <1>4, <1>5, <1>6 DEF DeskNext, TaskStep, Validates, deskVars

\* As long as no order is moved between an assignment's check and its write,
\* the tracking history ends in the order's status, whatever else overlaps.
THEOREM TimelineKept == DeskSpec /\ []AssignmentsApart => []TimelineAgrees
<1>1. DeskInit => TimelineInv
  BY DEF DeskInit, TasksInit, TimelineInv, Idle
<1>2. AssignmentsApart /\ DeskTypeOK /\ TimelineInv /\ [DeskNext]_deskVars => TimelineInv'
  BY TimelineStep DEF DeskTypeOK
<1>3. TimelineInv => TimelineAgrees
  BY DEF TimelineInv, TimelineAgrees
<1>. QED  BY <1>1, <1>2, <1>3, DeskTyping, PTL DEF DeskSpec

----------------------------------------------------------------------------
(* What the cash desk promises, it keeps beside the workflow.              *)

\* As long as updates of one row do not overlap, beside any number of task
\* requests, every step on the rows is one of the custody chain.
THEOREM CustodyBesideTasks == DeskSpec /\ []UpdatesApart => CustodyKept
BY WorkflowKeepsCash, CustodyRefined, PTL DEF CashKept

\* However requests of both kinds overlap, what no longer blocks an order
\* never blocks it again.
THEOREM DueStaysBesideTasks == DeskSpec => DueNeverReturns
BY WorkflowKeepsCash, DueStaysSettled, PTL DEF CashKept
=============================================================================
