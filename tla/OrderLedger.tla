---------------------------- MODULE OrderLedger ----------------------------
(***************************************************************************)
(* What the order path promises of every order, whatever is lost, delayed  *)
(* or refused on the way (specs/technical-spec.md, "Order execution"):     *)
(* nothing trades that was not written down first, nothing trades after    *)
(* its row is settled, and a settled row says what was traded.             *)
(*                                                                         *)
(* A sale the exchange made by itself, an executed stop, is written down   *)
(* as an order that was never sent.                                        *)
(***************************************************************************)
EXTENDS Naturals

CONSTANT Keys   \* the orders there may ever be

VARIABLES
  book,         \* what is known of each order here
  traded,       \* the lots the broker has moved for it
  recorded      \* the lots its settled row names

ledgerVars == <<book, traded, recorded>>

LedgerInit ==
  /\ book = [k \in Keys |-> "none"]
  /\ traded = [k \in Keys |-> 0]
  /\ recorded = [k \in Keys |-> 0]

Becomes(k, before, after) ==
  /\ book[k] = before
  /\ book' = [book EXCEPT ![k] = after]

Intend(k) ==
  /\ Becomes(k, "none", "intended")
  /\ UNCHANGED <<traded, recorded>>

Trade(k) ==
  /\ book[k] = "intended"
  /\ traded'[k] > traded[k]
  /\ traded' = [traded EXCEPT ![k] = traded'[k]]
  /\ UNCHANGED <<book, recorded>>

Settle(k) ==
  /\ Becomes(k, "intended", "settled")
  /\ recorded' = [recorded EXCEPT ![k] = traded[k]]
  /\ UNCHANGED traded

RecordSale(k) ==
  /\ Becomes(k, "intended", "sold")
  /\ traded[k] = 0
  /\ recorded' = [recorded EXCEPT ![k] = recorded'[k]]
  /\ UNCHANGED traded

LedgerNext == \E k \in Keys : Intend(k) \/ Trade(k) \/ Settle(k) \/ RecordSale(k)

LedgerSpec == LedgerInit /\ [][LedgerNext]_ledgerVars
=============================================================================
