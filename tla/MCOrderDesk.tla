---------------------------- MODULE MCOrderDesk ----------------------------
(* Instances of OrderDesk: one order, a driver, a pickup point (which may   *)
(* do all a warehouse may, and more), one reason of each kind.              *)
EXTENDS OrderDesk, TLC

CONSTANTS o1, d1, p1, c1, t1, noAnswer, damaged

Terms(cod, charge, payer, codPaid, chargePaid) ==
  [amount |-> [k \in Kinds |-> IF k = "cod" THEN cod ELSE charge],
   payer  |-> payer,
   paid   |-> [k \in Kinds |-> IF k = "cod" THEN codPaid ELSE chargePaid]]

\* Cash on delivery; a service charge due at the sender's door; and one due
\* at the recipient's because its payer was never said.
DeskBills ==
  { Terms(1, 0, "RECIPIENT", "NOT_PAID", "NOT_PAID"),
    Terms(0, 1, "SENDER", "NOT_PAID", "NOT_PAID"),
    Terms(0, 1, None, "NOT_PAID", "NOT_PAID") }

UnsaidPayerBills == { Terms(0, 1, None, "NOT_PAID", "NOT_PAID") }
============================================================================
