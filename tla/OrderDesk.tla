------------------------------ MODULE OrderDesk ------------------------------
(***************************************************************************)
(* The cash desk and the task workflow over the same orders.  The workflow *)
(* checks the cash rows and the paid states before it completes a pickup   *)
(* or a delivery; custody checks the driver and the location the workflow  *)
(* has set.  Requests of both kinds interleave.                            *)
(***************************************************************************)
EXTENDS CashDesk, OrderTasks

deskVars == <<cashVars, taskVars>>

DeskInit == CashInit /\ TasksInit

DeskNext ==
  \/ CashStep /\ UNCHANGED taskVars
  \/ TaskStep /\ UNCHANGED <<creq, event>>

DeskSpec == DeskInit /\ [][DeskNext]_deskVars

----------------------------------------------------------------------------
\* The columns and the requests in flight have their types.
DeskTypeOK == CashTypeOK /\ TasksTypeOK

\* The kinds whose unpaid amount has to be in before the order leaves the
\* sender's hands, and before it reaches the recipient's.
OwedAtPickup(o) ==
  {k \in {"service_charge"} : bill[o].payer = "SENDER"}

OwedAtDelivery(o) ==
  {k \in Kinds : k = "cod" \/ bill[o].payer \in {"RECIPIENT", None}}

Paying(o, k) == Due(o, k) > 0 /\ bill[o].paid[k] # "PAID"

\* "Cannot complete delivery while COD/service charge is still expected":
\* an order shown as delivered had every amount owed at the door taken into
\* custody, though the check reads the rows long before the status is written
\* and collections, hand-offs and aborts go on in between.
DeliveredMeansCollected ==
  \A o \in Orders :
    status[o] = "delivered" =>
      \A k \in OwedAtDelivery(o) : Paying(o, k) => Taken(o, k)

\* "Cannot complete pickup while sender-side service charge is still
\* expected", likewise.
PickedUpMeansCharged ==
  \A o \in Orders :
    status[o] = "picked_up" =>
      \A k \in OwedAtPickup(o) : Paying(o, k) => Taken(o, k)

\* The tracking history ends in the order's status, when task requests do
\* not overlap.
TimelineAgrees == timeline = status

\* Seen from the cash desk alone, the workflow only assigns drivers and
\* receives orders at locations: what is shown of CashDesk holds here.
CashKept == CashSpec

\* "Collect cash first" (updateDriverOrderStatus): an order that is out for
\* delivery and blocked by cash can have that cash collected.
BlockedCashCanBeCollected ==
  \A o \in Orders :
    status[o] = "out_for_delivery" =>
      \A k \in OwedAtDelivery(o) :
        Outstanding(o, k) => cash[o][k].status = "expected" \/ Expects(o, k)
==============================================================================
