---------------------------- MODULE CashCustody ----------------------------
(***************************************************************************)
(* What the cash ledger promises, operation by operation, with every       *)
(* operation a single step on the current row: one chain of custody from   *)
(* whoever took the money at the door to finance.                          *)
(*                                                                         *)
(*   absent, expected --Take--> held --Pass--> held --Settle--> settled    *)
(*                              held --Recount--> held                     *)
(*                                                                         *)
(* CashDesk is the code; it is shown to implement this module when its     *)
(* requests do not overlap.                                                *)
(***************************************************************************)
EXTENDS OrderBase

CONSTANT Counts     \* the amounts that can be counted at a collection

Hold(o, k, h, amount) ==
  /\ cash' = [cash EXCEPT ![o][k] =
                [status |-> "held", collected |-> amount, holder |-> h]]
  /\ paid' = [paid EXCEPT ![o][k] = PaidFor(Due(o, k), amount)]

\* The first collection: only of an amount that is payable in cash.
Take(o, k, h, amount) ==
  /\ cash[o][k].status \in {"absent", "expected"}
  /\ Collectible(o, k)
  /\ amount > 0
  /\ Hold(o, k, h, amount)

\* The amount is corrected by the driver who holds the cash, or at a
\* location for cash that is held at a location.
Recount(o, k, h, amount) ==
  /\ cash[o][k].status = "held"
  /\ \/ h \in Drivers   /\ cash[o][k].holder = h
     \/ h \in Locations /\ cash[o][k].holder \in Locations
  /\ amount > 0
  /\ Hold(o, k, h, amount)

\* The money changes hands; how much it is does not.
Pass(o, k, h) ==
  /\ cash[o][k].status = "held"
  /\ cash' = [cash EXCEPT ![o][k].holder = h]
  /\ UNCHANGED paid

\* Finance takes what is held, for good: no step leaves "settled".
Settle(o, k) ==
  /\ cash[o][k].status = "held"
  /\ cash' = [cash EXCEPT ![o][k] =
                [status |-> "settled", collected |-> @.collected, holder |-> Finance]]
  /\ UNCHANGED paid

CustodyNext ==
  \E o \in Orders, k \in Kinds :
    /\ UNCHANGED bill
    /\ \/ \E h \in Holders, amount \in Counts : Take(o, k, h, amount)
       \/ \E h \in Holders, amount \in Counts : Recount(o, k, h, amount)
       \/ \E h \in Holders : Pass(o, k, h)
       \/ Settle(o, k)

CustodyInit == BaseInit

CustodySpec == CustodyInit /\ [][CustodyNext]_<<bill, paid, cash>>
============================================================================
