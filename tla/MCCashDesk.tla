----------------------------- MODULE MCCashDesk -----------------------------
(* Instances of CashDesk: one order, two drivers, two locations. *)
EXTENDS CashDesk, TLC

CONSTANTS o1, d1, d2, l1, l2, r1, r2

Terms(cod, charge, payer, codPaid, chargePaid) ==
  [amount |-> [k \in Kinds |-> IF k = "cod" THEN cod ELSE charge],
   payer  |-> payer,
   paid   |-> [k \in Kinds |-> IF k = "cod" THEN codPaid ELSE chargePaid]]

\* Two amounts that can both be owed, one that nobody pays in cash, and one
\* that was paid in advance.
SerialBills ==
  { Terms(2, 1, "RECIPIENT", "NOT_PAID", "NOT_PAID"),
    Terms(2, 1, "COMPANY", "PARTIAL", "NOT_PAID"),
    Terms(0, 2, "SENDER", "NOT_PAID", "NOT_PAID"),
    Terms(2, 0, None, "PAID", "NOT_PAID") }

\* One amount is enough for requests to race on.
RacingBills ==
  { Terms(2, 0, None, "NOT_PAID", "NOT_PAID"),
    Terms(0, 2, "COMPANY", "NOT_PAID", "NOT_PAID") }

SerialSymmetry == Permutations({d1, d2})

Symmetry ==
  Permutations({d1, d2}) \cup Permutations({l1, l2}) \cup Permutations({r1, r2})
=============================================================================
