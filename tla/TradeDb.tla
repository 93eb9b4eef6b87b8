------------------------------ MODULE TradeDb ------------------------------
(***************************************************************************)
(* The three tables the order path writes: orders, positions, stop_orders. *)
(* A table is a function from every key it may ever hold to a row; a key   *)
(* that was never inserted maps to the table's empty row.  Keys are        *)
(* numbered in the order of insertion, which is the order of created_at.   *)
(*                                                                         *)
(* Each write of zarabot/db is one operator from the table before to the   *)
(* table after, with the condition under which the code raises instead as  *)
(* an operator of its own.  One such write is one committed transaction.   *)
(*                                                                         *)
(* Prices, commissions and timestamps are left out.  The broker layer      *)
(* reports a price exactly when it reports filled lots, so "has a fill     *)
(* price" is "filled > 0".                                                 *)
(***************************************************************************)
EXTENDS Naturals, FiniteSets

CONSTANTS
  Tickers,        \* the watchlist
  NoTicker,       \* the ticker of an empty row
  MaxOrders,      \* bound: order rows ever inserted
  MaxPositions,   \* bound: position rows ever inserted
  MaxStops,       \* bound: stop-order rows ever inserted
  MaxLots         \* bound: lots of one order

ASSUME TableAssumption ==
  /\ NoTicker \notin Tickers
  /\ MaxOrders \in Nat /\ MaxPositions \in Nat /\ MaxStops \in Nat
  /\ MaxLots \in Nat \ {0}

OrderKeys == 1..MaxOrders
PositionIds == 1..MaxPositions
StopKeys == 1..MaxStops

Intents == {"ENTRY", "EXIT"}
Triggers == {"STOP_LOSS", "TAKE_PROFIT", "MAX_AGE"}

(***************************************************************************)
(* Rows.  "ABSENT" stands for a key with no row; a row whose status is     *)
(* SUBMITTED exists in the schema, but no statement of the code writes it. *)
(***************************************************************************)
OrderStatus == {"ABSENT", "SUBMITTING", "FILLED", "REJECTED", "CANCELLED"}
TerminalOrder == {"FILLED", "REJECTED", "CANCELLED"}

(* The broker's own identifier is kept for one kind of fill only, that of  *)
(* a stop the exchange executed; an order is otherwise known by its key.   *)
BrokerIds == {"none", "exchange"}

OrderRow == [status : OrderStatus, ticker : Tickers \cup {NoTicker},
             intent : Intents, trigger : Triggers \cup {"none"},
             lots : Nat, filled : Nat, brokerId : BrokerIds]

NoOrder == [status |-> "ABSENT", ticker |-> NoTicker, intent |-> "ENTRY",
            trigger |-> "none", lots |-> 0, filled |-> 0, brokerId |-> "none"]

PositionStatus == {"ABSENT", "OPEN", "CLOSED"}
Protections == {"LOCAL", "EXCHANGE"}

PositionRow == [status : PositionStatus, ticker : Tickers \cup {NoTicker},
                lots : Nat, protection : Protections,
                stopKey : StopKeys \cup {0},
                openKey : OrderKeys \cup {0}, closeKey : OrderKeys \cup {0},
                trigger : Triggers \cup {"none", "EXTERNAL"}]

NoPosition == [status |-> "ABSENT", ticker |-> NoTicker, lots |-> 0,
               protection |-> "LOCAL", stopKey |-> 0, openKey |-> 0,
               closeKey |-> 0, trigger |-> "none"]

StopStatus == {"ABSENT", "PLACING", "ACTIVE",
               "CANCELLED", "EXECUTED", "ORPHANED", "FAILED"}
TerminalStop == {"CANCELLED", "EXECUTED", "ORPHANED", "FAILED"}
StandingStop == {"PLACING", "ACTIVE"}

StopRow == [status : StopStatus, position : PositionIds \cup {0}, lots : Nat]

NoStop == [status |-> "ABSENT", position |-> 0, lots |-> 0]

-----------------------------------------------------------------------------
(***************************************************************************)
(* Keys not used yet.  uuid4 keys and rowids never repeat; numbering them  *)
(* in order loses nothing but the identity of the key.                     *)
(***************************************************************************)
Unused(table) == {k \in DOMAIN table : table[k].status = "ABSENT"}
IsFresh(table, k) == /\ k \in Unused(table)
                     /\ \A j \in Unused(table) : k <= j

-----------------------------------------------------------------------------
(* zarabot/db/orders.py *)

RecordSubmitting(orders, k, t, intent, trigger, n) ==
  [orders EXCEPT ![k] = [status |-> "SUBMITTING", ticker |-> t,
                         intent |-> intent, trigger |-> trigger,
                         lots |-> n, filled |-> 0, brokerId |-> "none"]]

(* Mutant: a settled row is settled again. *)
CanSettleAgain(orders, k) == orders[k].status # "ABSENT"

CanSettle(orders, k) == orders[k].status = "SUBMITTING"

Settle(orders, k, status, filled, brokerId) ==
  [orders EXCEPT ![k] = [@ EXCEPT !.status = status, !.filled = filled,
                                  !.brokerId = brokerId]]

(* Mutant: entries only; an exit is never looked up again. *)
UnresolvedEntries(orders) ==
  {k \in DOMAIN orders : /\ orders[k].status = "SUBMITTING"
                         /\ orders[k].intent = "ENTRY"}

Unresolved(orders) == {k \in DOMAIN orders : orders[k].status = "SUBMITTING"}

-----------------------------------------------------------------------------
(* zarabot/db/positions.py *)

OpenOn(positions, t) ==
  {p \in DOMAIN positions : /\ positions[p].status = "OPEN"
                            /\ positions[p].ticker = t}

OpenRow(positions, p, t, n, k) ==
  [positions EXCEPT ![p] = [status |-> "OPEN", ticker |-> t, lots |-> n,
                            protection |-> "LOCAL", stopKey |-> 0,
                            openKey |-> k, closeKey |-> 0,
                            trigger |-> "none"]]

SetStopProtection(positions, p, protection, s) ==
  [positions EXCEPT ![p] = [@ EXCEPT !.protection = protection,
                                     !.stopKey = s]]

CanClose(positions, p) == positions[p].status = "OPEN"

CloseRow(positions, p, trigger, k) ==
  [positions EXCEPT ![p] = [@ EXCEPT !.status = "CLOSED",
                                     !.trigger = trigger, !.closeKey = k,
                                     !.protection = "LOCAL", !.stopKey = 0]]

CanUpdateLots(positions, p, n) == positions[p].status = "OPEN" /\ n > 0

UpdateLots(positions, p, n) == [positions EXCEPT ![p] = [@ EXCEPT !.lots = n]]

-----------------------------------------------------------------------------
(* zarabot/db/stop_orders.py *)

ActiveForPosition(stops, p) ==
  {s \in DOMAIN stops : /\ stops[s].position = p
                        /\ stops[s].status \in StandingStop}

(* The unique index of migrations: one standing stop to a position. *)
CanRecordPlacing(stops, s, p) == /\ stops[s].status = "ABSENT"
                                 /\ ActiveForPosition(stops, p) = {}

RecordPlacing(stops, s, p, n) ==
  [stops EXCEPT ![s] = [status |-> "PLACING", position |-> p, lots |-> n]]

CanSettleStop(stops, s) == stops[s].status \in StandingStop

Activate(stops, s) == [stops EXCEPT ![s] = [@ EXCEPT !.status = "ACTIVE"]]

SettleStop(stops, s, status) ==
  IF CanSettleStop(stops, s)
    THEN [stops EXCEPT ![s] = [@ EXCEPT !.status = status]]
    ELSE stops
=============================================================================
