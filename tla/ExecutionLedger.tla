-------------------------- MODULE ExecutionLedger --------------------------
(***************************************************************************)
(* The order path as an implementation of OrderLedger.  What is known of   *)
(* an order is the status of its row; what was traded is the broker's own  *)
(* count; the mapping needs no memory of the past.                         *)
(***************************************************************************)
EXTENDS Execution

Standing(k) ==
  CASE orders[k].status = "ABSENT" -> "none"
    [] orders[k].status = "SUBMITTING" -> "intended"
    [] Terminal(k) -> IF orders[k].brokerId = "none" THEN "settled" ELSE "sold"

Named(k) == IF Terminal(k) THEN orders[k].filled ELSE 0

Book == [k \in OrderKeys |-> Standing(k)]
Traded == [k \in OrderKeys |-> brokerOrders[k].filled]
Recorded == [k \in OrderKeys |-> Named(k)]

Ledger == INSTANCE OrderLedger WITH
  Keys <- OrderKeys, book <- Book, traded <- Traded, recorded <- Recorded

(* Every step of the order path, the broker's late fills and cancels, lost *)
(* replies, failed writes and the second task among them, is a step of the *)
(* ledger or none: no late fill reaches a row already settled, and no row  *)
(* is settled on less than what was traded.                                *)
ImplementsLedger == Ledger!LedgerSpec
=============================================================================
