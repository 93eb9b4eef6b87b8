---------------------------- MODULE BooksProofs ----------------------------
(***************************************************************************)
(* The tables of the order path, for every value of the constants of       *)
(* Execution: the orders table implements OrderLedger, under every set of  *)
(* faults; then the positions table against the orders table, and a        *)
(* position against its stop.                                              *)
(*                                                                         *)
(* What an operation is about to write was read several steps before, so   *)
(* the invariants of the second half speak of what the section has in hand *)
(* at each place.                                                          *)
(***************************************************************************)
EXTENDS ExecutionProofs, ExecutionLedger

-----------------------------------------------------------------------------
(* The orders table *)

(* An order that records a sale of the exchange is never sent: it is given *)
(* to no operation that posts, and its row is settled before anyone may    *)
(* look for it at the broker.                                              *)
Asking == {"post", "query", "cancelOrder", "reread"}

NeverAsks == sec.op = "stop" => sec.at \notin Asking

SaleUnsent ==
  /\ sec.op = "stop" /\ sec.at = "settleReply" => brokerOrders[sec.key].st = "NONE"
  /\ \A k \in OrderKeys :
       Terminal(k) /\ orders[k].brokerId # "none" => brokerOrders[k].st = "NONE"

LedgerInv == TypeInv /\ TruthInv /\ NeverAsks /\ SaleUnsent

Silent == sec' = sec \/ sec'.at \notin Asking \cup {"settleReply"}

LEMMA GotoSilent ==
  ASSUME SectionOK, NEW place \in Places \ (Asking \cup {"settleReply"}), Goto(place)
  PROVE  Silent
BY DEF Goto, Silent, SectionOK, Section, Asking

LEMMA LeaveSilent == ASSUME Leave \/ Raise \/ LeaveOpened PROVE Silent
BY DEF Leave, Raise, LeaveOpened, Silent, NoSection, Asking

LEMMA TryAgainSilent == ASSUME SectionOK, TryAgain PROVE Silent
<1>1. CASE LeaveOpened
  BY <1>1, LeaveSilent
<1>2. CASE ~LeaveOpened
  <2>1. sec' = [sec EXCEPT !.tries = @ + 1, !.at = "stopRecord"]
    BY <1>2 DEF TryAgain
  <2>2. sec'.at = "stopRecord"
    BY <2>1 DEF SectionOK, Section
  <2> QED BY <2>2 DEF Silent, Asking
<1> QED BY <1>1, <1>2

(* The steps that ask the broker, or settle on its answer, or begin to.    *)
Asks == Query \/ CancelOrder \/ Post \/ Reread
Records == RecordIntent \/ RecordNoLots \/ RecordExecution

LEMMA SilentHolder ==
  ASSUME TypeInv, Holder, ~Asks, ~Records
  PROVE  Silent
<1>0. SectionOK /\ sec \in Section /\ Located
  BY DEF TypeInv, TypeOK, SectionOK
<1> USE DEF Asks, Records, Asking
<1>1. CASE Leave \/ Raise \/ LeaveOpened
  BY <1>1, LeaveSilent
<1>2. CASE TryAgain
  BY <1>0, <1>2, TryAgainSilent
<1>3. CASE \E place \in Places \ (Asking \cup {"settleReply"}) : Goto(place)
  BY <1>0, <1>3, GotoSilent
<1>4. CASE OpenFromFill /\ ~Raise
  BY <1>0, <1>4 DEF OpenFromFill, Silent, Section
<1>5. CASE StopRecord
  BY <1>0, <1>5 DEF StopRecord, Silent, Section
<1>6. CASE CancelStop /\ ~Goto("demote")
  BY <1>0, <1>6 DEF CancelStop, Silent, Section
<1>7. CASE SettleReply
  <2>1. \/ Leave \/ Goto("openRow") \/ Goto("closeRow") \/ Goto("lookup")
        \/ \E p \in PositionIds, place \in {"cancelStop", "shrink"} :
             sec' = [sec EXCEPT !.pos = p, !.at = place]
    BY <1>7 DEF SettleReply, AfterOpen, AfterClose, AfterResolve
  <2>2. ASSUME NEW p \in PositionIds, NEW place \in {"cancelStop", "shrink"},
               sec' = [sec EXCEPT !.pos = p, !.at = place]
        PROVE  sec'.at = place
    BY <1>0, <2>2 DEF Section
  <2>3. {"openRow", "closeRow", "lookup"} \subseteq Places
    BY DEF Places
  <2> QED BY <1>1, <1>3, <2>1, <2>2, <2>3 DEF Silent
<1>8. CASE Lookup \/ StopPost \/ StopPostLost \/ StopActivate \/ CancelSettle \/ ExecSettle
  BY <1>3, <1>8 DEF Lookup, StopPost, StopPostLost, StopActivate, CancelSettle,
                    ExecSettle, Places
<1>9. CASE ExecLocal \/ FinishClose \/ CancelStop
  BY <1>1, <1>3, <1>6, <1>9 DEF ExecLocal, FinishClose, CancelStop, Places
<1>10. CASE Demote
  <2>1. sec.op \in {"close", "resolve", "replace"}
    BY <1>0, <1>10 DEF Demote, At, Located
  <2> QED BY <1>3, <1>10, <2>1 DEF Demote, Places
<1>11. CASE QueryLost \/ CancelOrderLost \/ RereadLost \/ SettleTwice \/ LookupFails
            \/ StopRecordRefused \/ StopProtect \/ CancelStopLost \/ StartCooldown \/ Shrink
  BY <1>1, <1>11 DEF QueryLost, CancelOrderLost, RereadLost, NoAnswer, SettleTwice,
     LookupFails, StopRecordRefused, StopProtect, CancelStopLost, StartCooldown, Shrink
<1>12. CASE OpenFromFill \/ StopFail
  BY <1>1, <1>2, <1>4, <1>12 DEF StopFail
<1> QED BY <1>5, <1>7, <1>8, <1>9, <1>10, <1>11, <1>12 DEF Holder

(* Asking goes on with the same operation and the same order.              *)
LEMMA AsksOn ==
  ASSUME TypeInv, Asks
  PROVE  sec'.at # "none" => sec'.op = sec.op /\ sec'.key = sec.key /\ sec.at \in Asking
<1>0. sec \in Section
  BY DEF TypeInv, TypeOK, SectionOK
<1>1. sec.at \in Asking
  BY DEF Asks, Asking, At, Query, CancelOrder, Post, PostFilled, PostRefused, PostLost,
         PostPending, PostPartial, PostCancelled, Reread
<1>2. \/ Leave \/ Raise
      \/ \E place : Goto(place)
      \/ \E a, n : Reply(a, n)
  BY DEF Asks, Query, CancelOrder, Post, PostFilled, PostRefused, PostLost, PostPending,
         PostPartial, PostCancelled, OutcomeUnknown, Reread
<1>3. CASE Leave \/ Raise
  BY <1>3 DEF Leave, Raise, NoSection
<1>4. ASSUME NEW place, Goto(place) PROVE sec'.op = sec.op /\ sec'.key = sec.key
  BY <1>0, <1>4 DEF Goto, Section
<1>5. ASSUME NEW a, NEW n, Reply(a, n) PROVE sec'.op = sec.op /\ sec'.key = sec.key
  BY <1>0, <1>5 DEF Reply, Section
<1> QED BY <1>1, <1>2, <1>3, <1>4, <1>5

LEMMA OthersSection ==
  ASSUME TypeInv, DbFails \/ Trading \/ Drain \/ Environment \/ UNCHANGED vars
  PROVE  Silent \/ sec'.op # "stop"
<1>0. SectionOK
  BY DEF TypeInv, TypeOK
<1>1. CASE DbFails
  <2>1. Leave \/ Raise \/ TryAgain
    BY <1>1 DEF DbFails, WriteFails, StopSettleFails, StopFailUnwritten, CooldownUnwritten
  <2> QED BY <1>0, <2>1, LeaveSilent, TryAgainSilent
<1>2. CASE Trading \/ Drain
  <2>1. ASSUME NEW task, BeginResolve(task) PROVE sec'.op = "resolve"
    BY <2>1 DEF BeginResolve, Enter, NoSection
  <2>2. ASSUME NEW r, BeginCloseExecuted(r) PROVE sec'.at = "execSettle"
    BY <2>2 DEF BeginCloseExecuted, Enter, NoSection
  <2>3. ASSUME NEW r, NEW trigger, BeginClose(r, trigger) PROVE sec'.op = "close"
    BY <2>3 DEF BeginClose, Enter, NoSection
  <2>4. ASSUME NEW t, BeginOpen(t) PROVE sec'.op = "open"
    BY <2>4 DEF BeginOpen, Enter, NoSection
  <2> QED BY <1>2, <2>1, <2>2, <2>3, <2>4
          DEF Trading, StartCycle, ReadBook, ToExits, ToEntries, EndCycle, Drain, Signal,
              DrainPoll, DrainPolled, Silent, Asking
<1>3. CASE Environment \/ UNCHANGED vars
  <2>1. sec' = sec
    BY <1>3 DEF vars, Environment, Halt, Resume, CooldownEnds, Broker, BrokerFill,
                BrokerCancel, StopFires, StopRefused, StopSellsOn
  <2> QED BY <2>1 DEF Silent
<1> QED BY <1>1, <1>2, <1>3

LEMMA RecordsSection ==
  ASSUME TypeInv, Records
  PROVE  /\ sec'.op = sec.op
         /\ sec'.at \in {"post", "settleReply"}
         /\ sec'.at = "post" => sec.op # "stop"
BY DEF Records, RecordIntent, RecordNoLots, RecordExecution, TypeInv, TypeOK, SectionOK,
       Section

LEMMA NeverAsksStep ==
  ASSUME LedgerInv, [Next]_vars
  PROVE  NeverAsks'
<1>0. TypeInv /\ NeverAsks
  BY DEF LedgerInv
<1>1. CASE Holder /\ ~Asks /\ ~Records
  BY <1>0, <1>1, SilentHolder DEF Silent, NeverAsks
<1>2. CASE Asks
  BY <1>0, <1>2, AsksOn DEF NeverAsks, Asking
<1>3. CASE Records
  BY <1>0, <1>3, RecordsSection DEF NeverAsks, Asking
<1>4. CASE DbFails \/ Trading \/ Drain \/ Environment \/ UNCHANGED vars
  BY <1>0, <1>4, OthersSection DEF Silent, NeverAsks
<1> QED BY <1>1, <1>2, <1>3, <1>4 DEF Next, Process

-----------------------------------------------------------------------------
(* What a step may do to the rows, and to the broker's counts.             *)

(* A row is written in one of three ways, each to one order.               *)
Inserted(k) ==
  /\ orders[k].status = "ABSENT"
  /\ orders'[k].status = "SUBMITTING" /\ orders'[k].brokerId = "none"

SettledNow(k) ==
  /\ At("settleReply") /\ k = sec.key
  /\ orders[k].status = "SUBMITTING"
  /\ orders'[k].status \in TerminalOrder
  /\ orders'[k].filled = sec.got
  /\ orders'[k].brokerId = IF sec.op = "stop" THEN "exchange" ELSE "none"

RowWritten(k) ==
  /\ Inserted(k) \/ SettledNow(k)
  /\ \A j \in OrderKeys : j # k => orders'[j] = orders[j]
  /\ UNCHANGED brokerOrders

LEMMA RowsStep ==
  ASSUME TypeInv, [Next]_vars
  PROVE  UNCHANGED orders \/ \E k \in OrderKeys : RowWritten(k)
<1>0. orders \in [OrderKeys -> OrderRow] /\ Located
  BY DEF TypeInv, TypeOK, TablesOK
<1>1. CASE Records
  <2>1. PICK k \in OrderKeys, n \in {1, sec.lots} : NewRow(k, n)
    BY <1>1 DEF Records, RecordIntent, RecordNoLots, RecordExecution
  <2>2. orders[k].status = "ABSENT"
    BY <2>1 DEF NewRow, IsFresh, Unused
  <2>3. /\ orders'[k] = [status |-> "SUBMITTING", ticker |-> sec.ticker,
                         intent |-> IntentOf(sec.op), trigger |-> sec.trigger,
                         lots |-> n, filled |-> 0, brokerId |-> "none"]
        /\ \A j \in OrderKeys : j # k => orders'[j] = orders[j]
        /\ UNCHANGED brokerOrders
    BY <1>0, <2>1 DEF NewRow, RecordSubmitting, brokerVars
  <2> QED BY <2>2, <2>3 DEF RowWritten, Inserted
<1>2. CASE SettleReply
  <2>1. /\ At("settleReply") /\ sec.key \in OrderKeys /\ sec.ans \in TerminalOrder
        /\ orders[sec.key].status = "SUBMITTING" /\ UNCHANGED brokerOrders
    BY <1>0, <1>2 DEF SettleReply, CanSettle, At, Located, KeyPlaces, brokerVars
  <2>2. PICK id : /\ id = IF sec.op = "stop" THEN "exchange" ELSE "none"
                  /\ orders' = Settle(orders, sec.key, sec.ans, sec.got, id)
    BY <1>2 DEF SettleReply
  <2>3. /\ orders'[sec.key] =
             [orders[sec.key] EXCEPT !.status = sec.ans, !.filled = sec.got, !.brokerId = id]
        /\ \A j \in OrderKeys : j # sec.key => orders'[j] = orders[j]
    BY <1>0, <2>1, <2>2 DEF Settle
  <2>4. /\ orders'[sec.key].status = sec.ans /\ orders'[sec.key].filled = sec.got
        /\ orders'[sec.key].brokerId = id
    BY <1>0, <2>1, <2>3 DEF OrderRow
  <2> QED BY <2>1, <2>2, <2>3, <2>4 DEF RowWritten, SettledNow
<1> QED BY <1>1, <1>2, OrdersStep DEF Records

(* The broker moves an order whose row is there and unsettled, never back. *)
Moves(k) ==
  /\ orders[k].status = "SUBMITTING"
  /\ sec.op # "stop" \/ sec.at # "settleReply" \/ k # sec.key
  /\ brokerOrders'[k].filled >= brokerOrders[k].filled
  /\ \A j \in OrderKeys : j # k => brokerOrders'[j] = brokerOrders[j]
  /\ UNCHANGED orders

LEMMA LiveIsUnsettled ==
  ASSUME LedgerInv, NEW k \in OrderKeys, brokerOrders[k].st = "LIVE"
  PROVE  orders[k].status = "SUBMITTING"
<1>1. orders[k].status \in OrderStatus /\ orders[k].brokerId \in BrokerIds
  BY DEF LedgerInv, TypeInv, TypeOK, TablesOK, OrderRow
<1>2. orders[k].status # "ABSENT"
  BY DEF LedgerInv, TruthInv, WriteAhead
<1>3. ~Terminal(k)
  BY <1>1 DEF LedgerInv, TruthInv, SettledTruth, SaleUnsent, BrokerIds
<1> QED BY <1>1, <1>2, <1>3 DEF OrderStatus, Terminal, TerminalOrder

LEMMA LiveIsSent ==
  ASSUME LedgerInv, NEW k \in OrderKeys, brokerOrders[k].st = "LIVE"
  PROVE  sec.op # "stop" \/ sec.at # "settleReply" \/ k # sec.key
BY DEF LedgerInv, SaleUnsent

(* As BrokerOrdersStep, with the step that posts named.                    *)
LEMMA BrokersOwnStep ==
  ASSUME [Next]_vars
  PROVE  \/ Post \/ UNCHANGED brokerOrders \/ brokerOrders' = CancelledAtBroker
         \/ \E k \in OrderKeys : BrokerFill(k) \/ BrokerCancel(k)
<1>1. CASE Holder /\ ~Post
  BY <1>1 DEF Holder, CancelOrder, CancelOrderLost, RecordIntent, RecordNoLots,
     RecordExecution, NewRow, Query, QueryLost, Reread, RereadLost, SettleReply,
     SettleTwice, Lookup, LookupFails, OpenFromFill, StopRecord, StopRecordRefused,
     StopPost, StopPostLost, StopActivate, StopProtect, StopFail, CancelStop,
     CancelStopLost, CancelSettle, Demote, ExecSettle, ExecLocal, FinishClose,
     StartCooldown, Shrink, brokerVars
<1>2. CASE DbFails
  BY <1>2 DEF DbFails, WriteFails, StopSettleFails, StopFailUnwritten,
              CooldownUnwritten, brokerVars
<1>3. CASE Trading \/ Drain
  BY <1>3 DEF Trading, StartCycle, ReadBook, ToExits, ToEntries, EndCycle, BeginResolve,
              BeginCloseExecuted, BeginClose, BeginOpen, Drain, Signal, DrainPoll,
              DrainPolled, brokerVars
<1>4. CASE Environment
  BY <1>4 DEF Environment, Halt, Resume, CooldownEnds, Broker, StopFires, StopRefused,
              StopSellsOn, brokerVars
<1>5. CASE UNCHANGED vars
  BY <1>5 DEF vars, brokerVars
<1> QED BY <1>1, <1>2, <1>3, <1>4, <1>5 DEF Next, Process

LEMMA BrokerStep ==
  ASSUME LedgerInv, [Next]_vars
  PROVE  UNCHANGED brokerOrders \/ \E k \in OrderKeys : Moves(k)
<1>0. /\ brokerOrders \in [OrderKeys -> BrokerOrder] /\ sec \in Section
      /\ Located /\ Posting /\ NothingSent /\ NeverAsks
  BY DEF LedgerInv, TypeInv, TypeOK, BrokerOK, SectionOK, TruthInv
<1>1. ASSUME UNCHANGED orders, At("post"), NEW st, NEW n, Takes(st, n), n \in Nat
      PROVE  Moves(sec.key) /\ sec.key \in OrderKeys
  <2>1. /\ sec.key \in OrderKeys /\ orders[sec.key].status = "SUBMITTING"
        /\ brokerOrders[sec.key].filled = 0 /\ sec.op # "stop"
    BY <1>0, <1>1 DEF At, Located, KeyPlaces, Posting, NothingSent, NeverAsks, Asking
  <2>2. /\ brokerOrders'[sec.key].filled = n
        /\ \A j \in OrderKeys : j # sec.key => brokerOrders'[j] = brokerOrders[j]
    BY <1>0, <1>1, <2>1 DEF Takes, Arrived
  <2> QED BY <1>1, <2>1, <2>2 DEF Moves
<1>2. CASE Post
  <2>1. UNCHANGED orders /\ At("post")
    BY <1>2 DEF Post, PostFilled, PostRefused, PostLost, PostPending, PostPartial,
                PostCancelled, dbVars
  <2>2. UNCHANGED brokerOrders \/ \E st : \E n \in Nat : Takes(st, n)
    <3>1. sec.lots \in Nat
      BY <1>0, SectionFields DEF LedgerInv, TypeInv, TypeOK
    <3> QED BY <1>2, <3>1 DEF Post, PostFilled, PostRefused, PostLost, PostPending,
                              PostPartial, PostCancelled, brokerVars
  <2> QED BY <1>1, <2>1, <2>2
<1>3. CASE brokerOrders' = CancelledAtBroker /\ UNCHANGED orders
  <2>1. CASE sec.key \in OrderKeys /\ brokerOrders[sec.key].st = "LIVE"
    <3>1. /\ brokerOrders'[sec.key] = [brokerOrders[sec.key] EXCEPT !.st = "CANCELLED"]
          /\ \A j \in OrderKeys : j # sec.key => brokerOrders'[j] = brokerOrders[j]
      BY <1>0, <1>3, <2>1 DEF CancelledAtBroker
    <3>2. brokerOrders'[sec.key].filled >= brokerOrders[sec.key].filled
      BY <1>0, <2>1, <3>1 DEF BrokerOrder
    <3> QED BY <1>3, <2>1, <3>1, <3>2, LiveIsUnsettled, LiveIsSent DEF Moves
  <2>2. CASE sec.key \notin OrderKeys \/ brokerOrders[sec.key].st # "LIVE"
    BY <1>0, <1>3, <2>2 DEF CancelledAtBroker
  <2> QED BY <2>1, <2>2
<1>4. ASSUME NEW k \in OrderKeys, BrokerFill(k) PROVE Moves(k)
  <2>0. brokerOrders[k].filled \in Nat
    BY <1>0 DEF BrokerOrder
  <2> DEFINE total(n) == brokerOrders[k].filled + n
             after(n) == IF total(n) = brokerOrders[k].lots THEN "FILLED" ELSE "LIVE"
  <2>1. PICK n \in 1..(brokerOrders[k].lots - brokerOrders[k].filled) :
          brokerOrders' = [brokerOrders EXCEPT ![k] =
            [brokerOrders[k] EXCEPT !.filled = total(n), !.st = after(n)]]
    BY <1>4 DEF BrokerFill
  <2>2. total(n) >= brokerOrders[k].filled
    BY <2>0, <2>1
  <2>3. brokerOrders'[k].filled = total(n)
    <3> HIDE DEF total, after
    <3> QED BY <1>0, <2>1 DEF BrokerOrder
  <2>4. \A j \in OrderKeys : j # k => brokerOrders'[j] = brokerOrders[j]
    <3> HIDE DEF total, after
    <3> QED BY <1>0, <2>1
  <2>5. brokerOrders[k].st = "LIVE" /\ UNCHANGED orders
    BY <1>4 DEF BrokerFill, dbVars
  <2> HIDE DEF total
  <2> QED BY <2>2, <2>3, <2>4, <2>5, LiveIsUnsettled, LiveIsSent DEF Moves
<1>5. ASSUME NEW k \in OrderKeys, BrokerCancel(k) PROVE Moves(k)
  <2>1. PICK st : brokerOrders' = [brokerOrders EXCEPT ![k] =
                    [brokerOrders[k] EXCEPT !.st = st]]
    BY <1>5 DEF BrokerCancel
  <2>2. /\ brokerOrders'[k].filled = brokerOrders[k].filled
        /\ brokerOrders[k].filled \in Nat
        /\ \A j \in OrderKeys : j # k => brokerOrders'[j] = brokerOrders[j]
    BY <1>0, <2>1 DEF BrokerOrder
  <2>3. brokerOrders[k].st = "LIVE" /\ UNCHANGED orders
    BY <1>5 DEF BrokerCancel, dbVars
  <2>4. brokerOrders'[k].filled >= brokerOrders[k].filled
    BY <2>2
  <2> QED BY <2>2, <2>3, <2>4, LiveIsUnsettled, LiveIsSent DEF Moves
<1>6. UNCHANGED brokerOrders \/ UNCHANGED orders
  BY RowsStep DEF LedgerInv, RowWritten
<1>7. Post \/ UNCHANGED brokerOrders \/ brokerOrders' = CancelledAtBroker
      \/ \E k \in OrderKeys : BrokerFill(k) \/ BrokerCancel(k)
  BY BrokersOwnStep
<1> QED BY <1>2, <1>3, <1>4, <1>5, <1>6, <1>7

-----------------------------------------------------------------------------
(* The invariant. *)

(* Whoever comes to settle a sale of the exchange has just written its row.*)
LEMMA SaleSection ==
  ASSUME LedgerInv, [Next]_vars, sec'.op = "stop", sec'.at = "settleReply"
  PROVE  \/ sec' = sec
         \/ /\ sec'.key \in OrderKeys /\ UNCHANGED brokerOrders
            /\ orders[sec'.key].status = "ABSENT"
<1>0. TypeInv /\ NeverAsks
  BY DEF LedgerInv
<1>1. CASE Holder /\ ~Asks /\ ~Records
  BY <1>0, <1>1, SilentHolder DEF Silent
<1>2. CASE Asks
  BY <1>0, <1>2, AsksOn DEF NeverAsks
<1>3. CASE Records
  <2>1. PICK k \in OrderKeys, n \in {1, sec.lots} :
          /\ NewRow(k, n)
          /\ \/ sec' = [sec EXCEPT !.key = k, !.at = "post"]
             \/ sec' = [sec EXCEPT !.key = k, !.at = "settleReply", !.ans = "REJECTED",
                                   !.got = 0]
             \/ sec' = [sec EXCEPT !.key = k, !.at = "settleReply", !.ans = "FILLED"]
    BY <1>3 DEF Records, RecordIntent, RecordNoLots, RecordExecution
  <2>2. sec'.key = k
    BY <1>0, <2>1 DEF TypeInv, TypeOK, SectionOK, Section
  <2> QED BY <2>1, <2>2 DEF NewRow, IsFresh, Unused, brokerVars
<1>4. CASE DbFails \/ Trading \/ Drain \/ Environment \/ UNCHANGED vars
  BY <1>0, <1>4, OthersSection DEF Silent
<1> QED BY <1>1, <1>2, <1>3, <1>4 DEF Next, Process

LEMMA SaleUnsentStep ==
  ASSUME LedgerInv, [Next]_vars
  PROVE  SaleUnsent'
<1>0. TypeInv /\ Located /\ SaleUnsent /\ WriteAhead /\ brokerOrders \in [OrderKeys -> BrokerOrder]
  BY DEF LedgerInv, TypeInv, TypeOK, BrokerOK, TruthInv
<1>1. ASSUME sec'.op = "stop", sec'.at = "settleReply" PROVE brokerOrders'[sec'.key].st = "NONE"
  <2>1. CASE sec' = sec
    <3>1. sec.key \in OrderKeys /\ brokerOrders[sec.key].st = "NONE"
      BY <1>0, <1>1, <2>1 DEF Located, KeyPlaces, SaleUnsent
    <3> QED BY <1>1, <2>1, <3>1, BrokerStep DEF Moves
  <2>2. CASE sec' # sec
    BY <1>0, <1>1, <2>2, SaleSection DEF WriteAhead
  <2> QED BY <2>1, <2>2
<1>2. ASSUME NEW k \in OrderKeys, orders'[k].status \in TerminalOrder,
             orders'[k].brokerId # "none"
      PROVE  brokerOrders'[k].st = "NONE"
  <2>1. CASE UNCHANGED orders
    <3>1. brokerOrders[k].st = "NONE" /\ orders[k].status # "SUBMITTING"
      BY <1>0, <1>2, <2>1 DEF SaleUnsent, Terminal, TerminalOrder
    <3> QED BY <3>1, BrokerStep DEF Moves
  <2>2. ASSUME NEW j \in OrderKeys, RowWritten(j) PROVE brokerOrders'[k].st = "NONE"
    <3>1. CASE j = k
      BY <1>0, <1>2, <2>2, <3>1 DEF RowWritten, Inserted, SettledNow, SaleUnsent, At
    <3>2. CASE j # k
      BY <1>0, <1>2, <2>2, <3>2 DEF RowWritten, SaleUnsent, Terminal
    <3> QED BY <3>1, <3>2
  <2> QED BY <1>0, <2>1, <2>2, RowsStep
<1> QED BY <1>1, <1>2 DEF SaleUnsent, Terminal

LEMMA LedgerInvInit == Init => LedgerInv
BY TypeInit, TruthInit
   DEF LedgerInv, Init, NeverAsks, SaleUnsent, NoSection, Terminal, TerminalOrder, NoOrder

LEMMA LedgerInvStep == LedgerInv /\ [Next]_vars => LedgerInv'
BY TypeStep, TruthStep, NeverAsksStep, SaleUnsentStep DEF LedgerInv

-----------------------------------------------------------------------------
(* The refinement. *)

(* What is known of one order, from its row.                               *)
LEMMA RowStanding ==
  ASSUME NEW k \in OrderKeys
  PROVE  /\ orders[k].status = "ABSENT" => Standing(k) = "none" /\ Named(k) = 0
         /\ orders[k].status = "SUBMITTING" => Standing(k) = "intended" /\ Named(k) = 0
         /\ Terminal(k) /\ orders[k].brokerId = "none" =>
              Standing(k) = "settled" /\ Named(k) = orders[k].filled
         /\ Terminal(k) /\ orders[k].brokerId # "none" => Standing(k) = "sold"
BY DEF Standing, Named, Terminal, TerminalOrder

LEMMA RowStandingAfter ==
  ASSUME NEW k \in OrderKeys
  PROVE  /\ orders'[k].status = "SUBMITTING" => Standing(k)' = "intended" /\ Named(k)' = 0
         /\ orders'[k].status \in TerminalOrder /\ orders'[k].brokerId = "none" =>
              Standing(k)' = "settled" /\ Named(k)' = orders'[k].filled
         /\ orders'[k].status \in TerminalOrder /\ orders'[k].brokerId # "none" =>
              Standing(k)' = "sold"
BY DEF Standing, Named, Terminal, TerminalOrder

LEMMA OthersAsBefore ==
  ASSUME NEW j \in OrderKeys, orders'[j] = orders[j]
  PROVE  Standing(j)' = Standing(j) /\ Named(j)' = Named(j)
BY DEF Standing, Named, Terminal

LEMMA LedgerStarts == Init => Ledger!LedgerInit
<1> SUFFICES ASSUME Init PROVE Ledger!LedgerInit
  OBVIOUS
<1>1. ASSUME NEW k \in OrderKeys
      PROVE  Standing(k) = "none" /\ Named(k) = 0 /\ brokerOrders[k].filled = 0
  BY RowStanding DEF Init, NoOrder, NoBrokerOrder
<1> QED BY <1>1 DEF Ledger!LedgerInit, Book, Traded, Recorded

LEMMA InsertedIntends ==
  ASSUME NEW k \in OrderKeys, RowWritten(k), Inserted(k)
  PROVE  Ledger!Intend(k)
<1>1. /\ Standing(k) = "none" /\ Named(k) = 0
      /\ Standing(k)' = "intended" /\ Named(k)' = 0
  BY RowStanding, RowStandingAfter DEF Inserted
<1>2. \A j \in OrderKeys : j # k => Standing(j)' = Standing(j) /\ Named(j)' = Named(j)
  BY OthersAsBefore DEF RowWritten
<1>3. Book[k] = "none" /\ Book' = [Book EXCEPT ![k] = "intended"]
  BY <1>1, <1>2 DEF Book
<1>4. Recorded' = Recorded
  BY <1>1, <1>2 DEF Recorded
<1>5. Traded' = Traded
  BY DEF RowWritten, Traded
<1> QED BY <1>3, <1>4, <1>5 DEF Ledger!Intend, Ledger!Becomes

(* The row is settled on the broker's last word, or on the exchange's sale.*)
LEMMA SettledSettles ==
  ASSUME LedgerInv, NEW k \in OrderKeys, RowWritten(k), SettledNow(k)
  PROVE  Ledger!Settle(k) \/ Ledger!RecordSale(k)
<1>0. Answered /\ NothingSent /\ SaleUnsent
  BY DEF LedgerInv, TruthInv
<1>1. Standing(k) = "intended"
  BY RowStanding DEF SettledNow
<1>2. \A j \in OrderKeys : j # k => Standing(j)' = Standing(j) /\ Named(j)' = Named(j)
  BY OthersAsBefore DEF RowWritten
<1>3. Traded' = Traded /\ Traded[k] = brokerOrders[k].filled
  BY DEF RowWritten, Traded
<1>4. CASE sec.op # "stop"
  <2>1. Standing(k)' = "settled" /\ Named(k)' = orders'[k].filled
    BY <1>4, RowStandingAfter DEF SettledNow
  <2>2. orders'[k].filled = brokerOrders[k].filled
    BY <1>0, <1>4 DEF SettledNow, Answered, At
  <2>3. Book[k] = "intended" /\ Book' = [Book EXCEPT ![k] = "settled"]
    BY <1>1, <1>2, <2>1 DEF Book
  <2>4. Recorded' = [Recorded EXCEPT ![k] = Traded[k]]
    BY <1>2, <1>3, <2>1, <2>2 DEF Recorded
  <2> QED BY <1>3, <2>3, <2>4 DEF Ledger!Settle, Ledger!Becomes
<1>5. CASE sec.op = "stop"
  <2>1. Standing(k)' = "sold"
    BY <1>5, RowStandingAfter DEF SettledNow
  <2>2. Book[k] = "intended" /\ Book' = [Book EXCEPT ![k] = "sold"]
    BY <1>1, <1>2, <2>1 DEF Book
  <2>3. Recorded' = [Recorded EXCEPT ![k] = Recorded'[k]]
    BY <1>2 DEF Recorded
  <2>4. Traded[k] = 0
    BY <1>0, <1>3, <1>5 DEF SettledNow, At, SaleUnsent, NothingSent
  <2> QED BY <1>3, <2>2, <2>3, <2>4 DEF Ledger!RecordSale, Ledger!Becomes
<1> QED BY <1>4, <1>5

LEMMA MoveTrades ==
  ASSUME LedgerInv, TypeInv', NEW k \in OrderKeys, Moves(k)
  PROVE  Ledger!Trade(k) \/ UNCHANGED Ledger!ledgerVars
<1>0. brokerOrders \in [OrderKeys -> BrokerOrder]
  BY DEF LedgerInv, TypeInv, TypeOK, BrokerOK
<1>1. Standing(k) = "intended"
  BY RowStanding DEF Moves
<1>2. Book' = Book /\ Recorded' = Recorded
  BY OthersAsBefore DEF Moves, Book, Recorded
<1>3. Book[k] = "intended"
  BY <1>1 DEF Book
<1>4. Traded' = [Traded EXCEPT ![k] = Traded'[k]]
  BY DEF Moves, Traded
<1>5. Traded'[k] >= Traded[k] /\ Traded[k] \in Nat
  BY <1>0 DEF Moves, Traded, BrokerOrder
<1>6. CASE Traded'[k] > Traded[k]
  BY <1>2, <1>3, <1>4, <1>6 DEF Ledger!Trade
<1>7. CASE Traded'[k] = Traded[k]
  <2>1. Traded' = Traded
    BY <1>4, <1>7 DEF Traded
  <2> QED BY <1>2, <2>1 DEF Ledger!ledgerVars
<1>8. Traded'[k] > Traded[k] \/ Traded'[k] = Traded[k]
  <2>1. Traded'[k] \in Nat
    BY DEF Traded, TypeInv, TypeOK, BrokerOK, BrokerOrder
  <2> QED BY <1>5, <2>1
<1> QED BY <1>6, <1>7, <1>8

LEMMA LedgerStep ==
  LedgerInv /\ [Next]_vars => [Ledger!LedgerNext]_(Ledger!ledgerVars)
<1> SUFFICES ASSUME LedgerInv, [Next]_vars
             PROVE  [Ledger!LedgerNext]_(Ledger!ledgerVars)
  OBVIOUS
<1>1. ASSUME NEW k \in OrderKeys, RowWritten(k) PROVE Ledger!LedgerNext
  BY <1>1, InsertedIntends, SettledSettles DEF RowWritten, Ledger!LedgerNext
<1>2. ASSUME NEW k \in OrderKeys, Moves(k) PROVE [Ledger!LedgerNext]_(Ledger!ledgerVars)
  BY <1>2, MoveTrades, TypeStep DEF LedgerInv, Ledger!LedgerNext
<1>3. CASE UNCHANGED orders /\ UNCHANGED brokerOrders
  <2>1. Book' = Book /\ Recorded' = Recorded
    BY <1>3, OthersAsBefore DEF Book, Recorded
  <2>2. Traded' = Traded
    BY <1>3 DEF Traded
  <2> QED BY <2>1, <2>2 DEF Ledger!ledgerVars
<1>4. UNCHANGED orders \/ \E k \in OrderKeys : RowWritten(k)
  BY RowsStep DEF LedgerInv
<1> QED BY <1>1, <1>2, <1>3, <1>4, BrokerStep

(* Whatever the broker, the database and the second task do, an order is   *)
(* written down before it trades, its row is settled once, on exactly what *)
(* was traded, and nothing trades on it afterwards: the guard of settle,   *)
(* the write before post_market_order and the cancel before a partial fill *)
(* is settled carry it together (orders.py).                               *)
THEOREM ImplementsOrderLedger == Spec => ImplementsLedger
<1>1. Spec => []LedgerInv
  BY LedgerInvInit, LedgerInvStep, PTL DEF Spec
<1> QED BY <1>1, LedgerStarts, LedgerStep, PTL DEF Spec, ImplementsLedger, Ledger!LedgerSpec

-----------------------------------------------------------------------------
(* Where an operation may go from each place, in the same operation on the *)
(* same ticker.                                                            *)

Turnings == {
  <<"post", "cancelOrder">>, <<"post", "settleReply">>,
  <<"query", "cancelOrder">>, <<"query", "settleReply">>,
  <<"cancelOrder", "reread">>, <<"reread", "settleReply">>,
  <<"lookup", "openRow">>,
  <<"stopRecord", "stopPost">>, <<"stopPost", "stopActivate">>,
  <<"stopPost", "stopFail">>, <<"stopActivate", "stopProtect">>,
  <<"stopFail", "stopRecord">>,
  <<"cancelStop", "cancelSettle">>, <<"cancelStop", "demote">>,
  <<"cancelSettle", "demote">>,
  <<"demote", "recordIntent">>, <<"demote", "closeRow">>, <<"demote", "stopRecord">>,
  <<"execSettle", "execLocal">>, <<"execLocal", "recordIntent">>,
  <<"closeRow", "cooldown">>}

Onward(from, to) ==
  /\ sec.at = from /\ sec'.at = to
  /\ sec'.op = sec.op /\ sec'.ticker = sec.ticker /\ sec'.trigger = sec.trigger
  /\ sec'.key = sec.key /\ sec'.pos = sec.pos /\ sec'.lots = sec.lots
  /\ to # "settleReply" => sec'.got = sec.got
  /\ to \notin {"stopPost", "cancelSettle"} => sec'.skey = sec.skey

Turns ==
  \E turning \in Turnings :
    /\ Onward(turning[1], turning[2])
    /\ turning[2] = "closeRow" => sec.op = "resolve"
    /\ turning = <<"demote", "recordIntent">> => sec.op = "close"
    /\ turning = <<"demote", "stopRecord">> => sec.op = "replace"

(* An operation begins; what it takes along it reads in the same step.     *)
ReadPosition(p) ==
  /\ p \in PositionIds
  /\ positions[p].status # "ABSENT" /\ positions[p].ticker = sec'.ticker
  /\ sec'.lots = positions[p].lots

Begins ==
  /\ lock = NoOne /\ UNCHANGED <<dbVars, brokerVars>>
  /\ \/ /\ sec'.at = "query" /\ sec'.op = "resolve"
        /\ sec'.key \in OrderKeys /\ orders[sec'.key].status # "ABSENT"
        /\ orders[sec'.key].ticker = sec'.ticker
        /\ orders[sec'.key].trigger = sec'.trigger
     \/ /\ sec'.at = "execSettle" /\ sec'.op = "stop"
        /\ ReadPosition(sec'.pos)
        /\ \E s \in StopKeys : /\ stops[s].status = "ACTIVE" /\ stops[s].position = sec'.pos
                               /\ brokerStops[s].st = "FIRED"
                               /\ sec'.got = brokerStops[s].sold
     \/ /\ sec'.at = IF positions[sec'.pos].protection = "EXCHANGE"
                        THEN "cancelStop" ELSE "recordIntent"
        /\ sec'.op = "close"
        /\ ReadPosition(sec'.pos)
     \/ \E t \in Tickers : /\ BeginOpen(t)
                           /\ sec'.at = "recordIntent" /\ sec'.op = "open"
                           /\ sec'.ticker = t

LEMMA GotoOnward ==
  ASSUME SectionOK, NEW place, Goto(place), place # "settleReply"
  PROVE  Onward(sec.at, place)
BY DEF Goto, Onward, SectionOK, Section

LEMMA ReplyOnward ==
  ASSUME SectionOK, NEW a, NEW n, Reply(a, n)
  PROVE  Onward(sec.at, "settleReply") /\ sec'.ans = a /\ sec'.got = n
BY DEF Reply, Onward, SectionOK, Section

LEMMA TryAgainOnward ==
  ASSUME SectionOK, sec.at = "stopFail", TryAgain
  PROVE  sec' = NoSection \/ Onward("stopFail", "stopRecord")
<1>1. \/ LeaveOpened
      \/ sec' = [sec EXCEPT !.tries = @ + 1, !.at = "stopRecord"]
  BY DEF TryAgain
<1>2. CASE sec' = [sec EXCEPT !.tries = @ + 1, !.at = "stopRecord"]
  BY <1>2 DEF Onward, SectionOK, Section
<1> QED BY <1>1, <1>2 DEF LeaveOpened

LEMMA TurnsBy ==
  ASSUME NEW from, NEW to, <<from, to>> \in Turnings, Onward(from, to),
         to = "closeRow" => sec.op = "resolve",
         <<from, to>> = <<"demote", "recordIntent">> => sec.op = "close",
         <<from, to>> = <<"demote", "stopRecord">> => sec.op = "replace"
  PROVE  Turns
<1> DEFINE turning == <<from, to>>
<1>1. turning \in Turnings /\ turning[1] = from /\ turning[2] = to
  OBVIOUS
<1> HIDE DEF turning
<1> QED BY <1>1 DEF Turns

LEMMA AsksTurn ==
  ASSUME TypeInv, Post \/ Query \/ QueryLost \/ CancelOrder \/ CancelOrderLost
                  \/ Reread \/ RereadLost
  PROVE  sec' = NoSection \/ Turns
<1>0. SectionOK
  BY DEF TypeInv, TypeOK
<1>1. CASE Post
  <2>1. sec.at = "post"
    BY <1>1 DEF Post, PostFilled, PostRefused, PostLost, PostPending,
                PostPartial, PostCancelled, At
  <2>2. Leave \/ Raise \/ Goto("cancelOrder") \/ \E a, n : Reply(a, n)
    BY <1>1 DEF Post, PostFilled, PostRefused, PostLost, PostPending,
                PostPartial, PostCancelled, OutcomeUnknown
  <2>3. CASE Goto("cancelOrder")
    BY <1>0, <2>1, <2>3, GotoOnward, TurnsBy DEF Turnings
  <2>4. CASE \E a, n : Reply(a, n)
    BY <1>0, <2>1, <2>4, ReplyOnward, TurnsBy DEF Turnings
  <2> QED BY <2>2, <2>3, <2>4 DEF Leave, Raise
<1>2. CASE Query \/ QueryLost
  <2>1. sec.at = "query"
    BY <1>2 DEF Query, QueryLost, At
  <2>2. Leave \/ Goto("cancelOrder") \/ \E a, n : Reply(a, n)
    BY <1>2 DEF Query, QueryLost
  <2>3. CASE Goto("cancelOrder")
    BY <1>0, <2>1, <2>3, GotoOnward, TurnsBy DEF Turnings
  <2>4. CASE \E a, n : Reply(a, n)
    BY <1>0, <2>1, <2>4, ReplyOnward, TurnsBy DEF Turnings
  <2> QED BY <2>2, <2>3, <2>4 DEF Leave, Raise
<1>3. CASE CancelOrder \/ CancelOrderLost
  <2>1. sec.at = "cancelOrder"
    BY <1>3 DEF CancelOrder, CancelOrderLost, At
  <2>2. Leave \/ Raise \/ Goto("reread")
    BY <1>3 DEF CancelOrder, CancelOrderLost, NoAnswer
  <2>3. CASE Goto("reread")
    BY <1>0, <2>1, <2>3, GotoOnward, TurnsBy DEF Turnings
  <2> QED BY <2>2, <2>3 DEF Leave, Raise
<1>4. CASE Reread \/ RereadLost
  <2>1. sec.at = "reread"
    BY <1>4 DEF Reread, RereadLost, At
  <2>2. Leave \/ Raise \/ \E a, n : Reply(a, n)
    BY <1>4 DEF Reread, RereadLost, NoAnswer
  <2>3. CASE \E a, n : Reply(a, n)
    BY <1>0, <2>1, <2>3, ReplyOnward, TurnsBy DEF Turnings
  <2> QED BY <2>2, <2>3 DEF Leave, Raise
<1> QED BY <1>1, <1>2, <1>3, <1>4

LEMMA StopsTurn ==
  ASSUME TypeInv, StopRecord \/ StopRecordRefused \/ StopPost \/ StopPostLost
                  \/ StopActivate \/ StopProtect \/ StopFail
  PROVE  sec' = NoSection \/ Turns
<1>0. SectionOK
  BY DEF TypeInv, TypeOK
<1>1. CASE StopRecord
  <2>1. Onward("stopRecord", "stopPost")
    BY <1>0, <1>1 DEF StopRecord, At, Onward, SectionOK, Section
  <2> QED BY <2>1, TurnsBy DEF Turnings
<1>2. CASE StopPost \/ StopPostLost
  <2>1. sec.at = "stopPost" /\ (Goto("stopActivate") \/ Goto("stopFail"))
    BY <1>2 DEF StopPost, StopPostLost, At
  <2> QED BY <1>0, <2>1, GotoOnward, TurnsBy DEF Turnings
<1>3. CASE StopActivate
  <2>1. sec.at = "stopActivate" /\ Goto("stopProtect")
    BY <1>3 DEF StopActivate, At
  <2> QED BY <1>0, <2>1, GotoOnward, TurnsBy DEF Turnings
<1>4. CASE StopFail
  <2>1. sec.at = "stopFail" /\ TryAgain
    BY <1>4 DEF StopFail, At
  <2> QED BY <1>0, <2>1, TryAgainOnward, TurnsBy DEF Turnings
<1> QED BY <1>1, <1>2, <1>3, <1>4 DEF StopRecordRefused, StopProtect, Raise, LeaveOpened

LEMMA ClosesTurn ==
  ASSUME TypeInv, Lookup \/ LookupFails \/ SettleTwice \/ CancelStop \/ CancelStopLost
                  \/ CancelSettle \/ Demote \/ ExecSettle \/ ExecLocal \/ FinishClose
                  \/ StartCooldown \/ Shrink
  PROVE  sec' = NoSection \/ Turns
<1>0. SectionOK /\ Located
  BY DEF TypeInv, TypeOK
<1>1. CASE Lookup
  <2>1. sec.at = "lookup" /\ Goto("openRow")
    BY <1>1 DEF Lookup, At
  <2> QED BY <1>0, <2>1, GotoOnward, TurnsBy DEF Turnings
<1>2. CASE CancelStop
  <2>1. CASE Goto("demote")
    <3>1. sec.at = "cancelStop"
      BY <1>2 DEF CancelStop, At
    <3> QED BY <1>0, <2>1, <3>1, GotoOnward, TurnsBy DEF Turnings
  <2>2. CASE ~Goto("demote")
    <3>1. Onward("cancelStop", "cancelSettle")
      BY <1>0, <1>2, <2>2 DEF CancelStop, At, Onward, SectionOK, Section
    <3> QED BY <3>1, TurnsBy DEF Turnings
  <2> QED BY <2>1, <2>2
<1>3. CASE CancelSettle
  <2>1. sec.at = "cancelSettle" /\ Goto("demote")
    BY <1>3 DEF CancelSettle, At
  <2> QED BY <1>0, <2>1, GotoOnward, TurnsBy DEF Turnings
<1>4. CASE Demote
  <2>1. sec.at = "demote" /\ sec.op \in {"close", "resolve", "replace"}
    BY <1>0, <1>4 DEF Demote, At, Located
  <2>2. CASE sec.op = "close"
    <3>1. Goto("recordIntent")
      BY <1>4, <2>2 DEF Demote
    <3> QED BY <1>0, <2>1, <2>2, <3>1, GotoOnward, TurnsBy DEF Turnings
  <2>3. CASE sec.op = "resolve"
    <3>1. Goto("closeRow")
      BY <1>4, <2>3 DEF Demote
    <3> QED BY <1>0, <2>1, <2>3, <3>1, GotoOnward, TurnsBy DEF Turnings
  <2>4. CASE sec.op = "replace"
    <3>1. Goto("stopRecord")
      BY <1>4, <2>4 DEF Demote
    <3> QED BY <1>0, <2>1, <2>4, <3>1, GotoOnward, TurnsBy DEF Turnings
  <2> QED BY <2>1, <2>2, <2>3, <2>4
<1>5. CASE ExecSettle
  <2>1. sec.at = "execSettle" /\ Goto("execLocal")
    BY <1>5 DEF ExecSettle, At
  <2> QED BY <1>0, <2>1, GotoOnward, TurnsBy DEF Turnings
<1>6. CASE ExecLocal
  <2>1. sec.at = "execLocal" /\ Goto("recordIntent")
    BY <1>6 DEF ExecLocal, At
  <2> QED BY <1>0, <2>1, GotoOnward, TurnsBy DEF Turnings
<1>7. CASE FinishClose
  <2>1. sec.at = "closeRow" /\ (Goto("cooldown") \/ Raise)
    BY <1>7 DEF FinishClose, At
  <2> QED BY <1>0, <2>1, GotoOnward, TurnsBy DEF Turnings, Raise
<1> QED BY <1>1, <1>2, <1>3, <1>4, <1>5, <1>6, <1>7
        DEF LookupFails, SettleTwice, CancelStopLost, StartCooldown, Shrink, Leave, Raise

LEMMA QuietEnvironment ==
  ASSUME Environment
  PROVE  sec' = sec
BY DEF Environment, Halt, Resume, CooldownEnds, Broker, BrokerFill, BrokerCancel, StopFires,
       StopRefused, StopSellsOn

LEMMA HolderTurns ==
  ASSUME TypeInv, Holder
  PROVE  sec' = NoSection \/ Turns \/ Records \/ SettleReply \/ OpenFromFill
BY AsksTurn, StopsTurn, ClosesTurn DEF Holder, Records

LEMMA OthersBegin ==
  ASSUME TypeInv, Trading \/ Drain \/ Environment \/ UNCHANGED vars
  PROVE  sec' = sec \/ Begins
<1>0. SectionOK /\ TablesOK /\ TasksOK /\ Known
  BY DEF TypeInv, TypeOK
<1>2. ASSUME NEW task \in Tasks, BeginResolve(task) PROVE Begins
  <2>1. PICK k \in todo[task] :
          sec' = [NoSection EXCEPT !.at = "query", !.op = "resolve",
                    !.ticker = orders[k].ticker, !.key = k, !.trigger = orders[k].trigger]
    BY <1>2 DEF BeginResolve, Enter
  <2>2. k \in OrderKeys /\ orders[k].status # "ABSENT"
    BY <1>0 DEF TasksOK, Known
  <2>3. lock = NoOne /\ UNCHANGED <<dbVars, brokerVars>>
    BY <1>2 DEF BeginResolve, Enter
  <2> QED BY <2>1, <2>2, <2>3 DEF Begins, NoSection
<1>3. ASSUME NEW r \in cycle.book, BeginCloseExecuted(r) PROVE Begins
  <2>1. r.pos \in PositionIds /\ positions[r.pos].status # "ABSENT"
    BY <1>0 DEF TasksOK, Cycle, Known
  <2>2. PICK s \in StopKeys :
          /\ stops[s].status = "ACTIVE" /\ stops[s].position = r.pos
          /\ brokerStops[s].st = "FIRED"
          /\ sec' = [NoSection EXCEPT !.at = "execSettle", !.op = "stop",
               !.ticker = positions[r.pos].ticker, !.pos = r.pos,
               !.lots = positions[r.pos].lots, !.trigger = "STOP_LOSS",
               !.got = brokerStops[s].sold]
    BY <1>0, <1>3 DEF BeginCloseExecuted, Enter, ActiveForPosition, TablesOK
  <2>3. lock = NoOne /\ UNCHANGED <<dbVars, brokerVars>>
    BY <1>3 DEF BeginCloseExecuted, Enter
  <2>4. /\ sec'.at = "execSettle" /\ sec'.op = "stop" /\ sec'.pos = r.pos
        /\ sec'.ticker = positions[r.pos].ticker /\ sec'.lots = positions[r.pos].lots
        /\ sec'.got = brokerStops[s].sold
    BY <2>2 DEF NoSection
  <2> QED BY <2>1, <2>2, <2>3, <2>4 DEF Begins, ReadPosition
<1>4. ASSUME NEW r \in cycle.book, NEW trigger \in Triggers, BeginClose(r, trigger)
      PROVE  Begins
  <2>1. r.pos \in PositionIds /\ positions[r.pos].status # "ABSENT"
    BY <1>0 DEF TasksOK, Cycle, Known
  <2>2. /\ lock = NoOne /\ UNCHANGED <<dbVars, brokerVars>>
        /\ sec' = [NoSection EXCEPT
                     !.at = IF positions[r.pos].protection = "EXCHANGE"
                              THEN "cancelStop" ELSE "recordIntent",
                     !.op = "close", !.ticker = positions[r.pos].ticker, !.pos = r.pos,
                     !.lots = positions[r.pos].lots, !.trigger = trigger]
    BY <1>4 DEF BeginClose, Enter
  <2>3. /\ sec'.at = IF positions[r.pos].protection = "EXCHANGE"
                       THEN "cancelStop" ELSE "recordIntent"
        /\ sec'.op = "close" /\ sec'.pos = r.pos
        /\ sec'.ticker = positions[r.pos].ticker /\ sec'.lots = positions[r.pos].lots
    BY <2>2 DEF NoSection
  <2> QED BY <2>1, <2>2, <2>3 DEF Begins, ReadPosition
<1>5. ASSUME NEW t \in Tickers, BeginOpen(t) PROVE Begins
  <2>1. lock = NoOne /\ UNCHANGED <<dbVars, brokerVars>>
    BY <1>5 DEF BeginOpen, Enter
  <2>2. sec'.at = "recordIntent" /\ sec'.op = "open" /\ sec'.ticker = t
    BY <1>5 DEF BeginOpen, Enter, NoSection
  <2> QED BY <1>5, <2>1, <2>2 DEF Begins
<1>6. CASE Trading \/ Drain
  BY <1>2, <1>3, <1>4, <1>5, <1>6
     DEF Trading, StartCycle, ReadBook, ToExits, ToEntries, EndCycle, Drain, Signal,
         DrainPoll, DrainPolled, Tasks
<1>7. CASE Environment \/ UNCHANGED vars
  BY <1>7 DEF vars, Environment, Halt, Resume, CooldownEnds, Broker, BrokerFill,
              BrokerCancel, StopFires, StopRefused, StopSellsOn
<1> QED BY <1>6, <1>7

LEMMA OthersTurn ==
  ASSUME TypeInv, DbFails \/ Trading \/ Drain \/ Environment \/ UNCHANGED vars
  PROVE  sec' = sec \/ sec' = NoSection \/ Turns \/ Begins
<1>0. SectionOK
  BY DEF TypeInv, TypeOK
<1>1. CASE DbFails
  <2>1. Leave \/ Raise \/ (sec.at = "stopFail" /\ TryAgain)
    BY <1>1 DEF DbFails, WriteFails, StopSettleFails, StopFailUnwritten, CooldownUnwritten, At
  <2>2. CASE sec.at = "stopFail" /\ TryAgain
    BY <1>0, <2>2, TryAgainOnward, TurnsBy DEF Turnings
  <2> QED BY <2>1, <2>2 DEF Leave, Raise
<1> QED BY <1>1, OthersBegin

LEMMA SectionStep ==
  ASSUME TypeInv, [Next]_vars
  PROVE  \/ sec' = sec \/ sec' = NoSection
         \/ Turns \/ Begins \/ Records \/ SettleReply \/ OpenFromFill
BY HolderTurns, OthersTurn DEF Next, Process

-----------------------------------------------------------------------------
(* What the section has in hand. *)

OrderPlaces == {"post", "query", "cancelOrder", "reread", "settleReply"}

(* The order asked about or settled is the one the operation goes by.      *)
OrderInHand ==
  sec.at \in OrderPlaces =>
    /\ orders[sec.key].status # "ABSENT"
    /\ orders[sec.key].ticker = sec.ticker
    /\ orders[sec.key].trigger = sec.trigger
    /\ sec.op # "resolve" => orders[sec.key].intent = IntentOf(sec.op)

(* The position worked on is one of the section's ticker.                  *)
PositionInHand ==
  sec.at \in PositionPlaces \/ sec.op \in {"close", "stop"} =>
    /\ positions[sec.pos].status # "ABSENT"
    /\ positions[sec.pos].ticker = sec.ticker

(* Nothing is filled without lots, at the broker or in an answer.          *)
LotsInHand ==
  /\ sec.at = "post" => sec.lots > 0
  /\ sec.op = "stop" /\ sec.at \in {"execSettle", "execLocal", "recordIntent"} => sec.got > 0
  /\ sec.at = "settleReply" /\ sec.ans = "FILLED" => sec.got > 0

FilledHasLots ==
  /\ \A k \in OrderKeys : brokerOrders[k].st = "FILLED" => brokerOrders[k].filled > 0
  /\ \A s \in StopKeys : brokerStops[s].st = "FIRED" => brokerStops[s].sold > 0

(* A fill on its way to a position row is settled and not yet booked.      *)
Unbooked(k) ==
  \A p \in PositionIds : positions[p].openKey # k /\ positions[p].closeKey # k

Opening == sec.at \in {"lookup", "openRow"}
Closing == \/ sec.at = "closeRow"
           \/ sec.op = "resolve" /\ sec.at \in {"cancelStop", "cancelSettle", "demote"}

FillInHand ==
  Opening \/ Closing =>
    /\ sec.key \in OrderKeys
    /\ Unbooked(sec.key) /\ Terminal(sec.key)
    /\ orders[sec.key].ticker = sec.ticker
    /\ orders[sec.key].filled > 0
    /\ Opening => orders[sec.key].intent = "ENTRY" /\ orders[sec.key].status = "FILLED"
    /\ Closing => /\ orders[sec.key].intent = "EXIT"
                  /\ orders[sec.key].trigger = sec.trigger

(* Only a closed position has the key of an exit.                          *)
RowsWhole ==
  \A p \in PositionIds :
    /\ positions[p].status = "ABSENT" => positions[p].openKey = 0
    /\ positions[p].status # "CLOSED" => positions[p].closeKey = 0

InHand == OrderInHand /\ PositionInHand /\ LotsInHand /\ FilledHasLots /\ FillInHand

BooksInv == TypeInv /\ InHand /\ RowsWhole /\ BookedFromFills /\ OneFillOneBooking

LEMMA TurnsKeep ==
  ASSUME Turns
  PROVE  /\ sec'.at \in OrderPlaces => sec.at \in OrderPlaces
         /\ sec'.at \in PositionPlaces => sec.at \in PositionPlaces
         /\ sec'.at \in {"lookup", "openRow"} => sec.at \in {"lookup", "openRow"}
         /\ sec'.at # "post"
         /\ sec'.at \in {"execSettle", "execLocal", "recordIntent"} =>
              sec.at \in {"execSettle", "execLocal"} \/ sec.op = "close"
         /\ sec'.at \in {"cancelStop", "cancelSettle", "demote"} =>
              sec.at \in {"cancelStop", "cancelSettle", "demote"}
         /\ sec'.at = "closeRow" => sec.at = "demote" /\ sec.op = "resolve"
         /\ sec'.op = sec.op /\ sec'.ticker = sec.ticker /\ sec'.trigger = sec.trigger
         /\ sec'.key = sec.key /\ sec'.pos = sec.pos /\ sec'.lots = sec.lots
         /\ sec'.at # "settleReply" => sec'.got = sec.got
<1>1. PICK turning \in Turnings :
        /\ Onward(turning[1], turning[2])
        /\ turning[2] = "closeRow" => sec.op = "resolve"
        /\ turning = <<"demote", "recordIntent">> => sec.op = "close"
  BY DEF Turns
<1>2. PICK from, to : turning = <<from, to>> /\ <<from, to>> \in Turnings
  BY <1>1 DEF Turnings
<1>3. /\ Onward(from, to)
      /\ to = "closeRow" => sec.op = "resolve"
      /\ <<from, to>> = <<"demote", "recordIntent">> => sec.op = "close"
  BY <1>1, <1>2
<1>4. sec.at = from /\ sec'.at = to
  BY <1>3 DEF Onward
<1>5. /\ to \in OrderPlaces => from \in OrderPlaces
      /\ to \in PositionPlaces => from \in PositionPlaces
      /\ to \in {"lookup", "openRow"} => from \in {"lookup", "openRow"}
      /\ to # "post"
  BY <1>2 DEF Turnings, OrderPlaces, PositionPlaces, StopPlaces
<1>6. /\ to \in {"execSettle", "execLocal", "recordIntent"} =>
           from \in {"execSettle", "execLocal"} \/ sec.op = "close"
      /\ to \in {"cancelStop", "cancelSettle", "demote"} =>
           from \in {"cancelStop", "cancelSettle", "demote"}
      /\ to = "closeRow" => from = "demote" /\ sec.op = "resolve"
  BY <1>2, <1>3 DEF Turnings
<1> QED BY <1>3, <1>4, <1>5, <1>6 DEF Onward

(* The row of a new order is the section's.                                *)
LEMMA RecordedRow ==
  ASSUME TypeInv, Records
  PROVE  /\ sec.at = "recordIntent" /\ sec'.at \in {"post", "settleReply"}
         /\ sec'.key \in OrderKeys /\ orders[sec'.key].status = "ABSENT"
         /\ orders'[sec'.key].status = "SUBMITTING"
         /\ orders'[sec'.key].ticker = sec'.ticker
         /\ orders'[sec'.key].trigger = sec'.trigger
         /\ orders'[sec'.key].intent = IntentOf(sec'.op)
         /\ sec'.op = sec.op /\ sec'.ticker = sec.ticker /\ sec'.pos = sec.pos
         /\ sec'.lots = sec.lots
         /\ sec'.at = "post" => sec.lots > 0
         /\ sec'.at = "settleReply" /\ sec'.ans = "FILLED" =>
              sec.op = "stop" /\ sec'.got = sec.got
<1>0. orders \in [OrderKeys -> OrderRow] /\ sec \in Section
  BY DEF TypeInv, TypeOK, TablesOK, SectionOK
<1>1. PICK k \in OrderKeys, n \in {1, sec.lots} :
        /\ NewRow(k, n)
        /\ \/ sec' = [sec EXCEPT !.key = k, !.at = "post"] /\ sec.lots > 0
           \/ sec' = [sec EXCEPT !.key = k, !.at = "settleReply", !.ans = "REJECTED", !.got = 0]
           \/ /\ sec' = [sec EXCEPT !.key = k, !.at = "settleReply", !.ans = "FILLED"]
              /\ sec.op = "stop"
  BY DEF Records, RecordIntent, RecordNoLots, RecordExecution
<1>2. sec.at = "recordIntent"
  BY DEF Records, RecordIntent, RecordNoLots, RecordExecution, At
<1>3. /\ sec'.key = k /\ sec'.op = sec.op /\ sec'.ticker = sec.ticker /\ sec'.pos = sec.pos
      /\ sec'.trigger = sec.trigger /\ sec'.lots = sec.lots
      /\ sec'.at \in {"post", "settleReply"}
      /\ sec'.at = "post" => sec.lots > 0
      /\ sec'.at = "settleReply" /\ sec'.ans = "FILLED" =>
           sec.op = "stop" /\ sec'.got = sec.got
  BY <1>0, <1>1 DEF Section
<1>4. orders[k].status = "ABSENT"
  BY <1>1 DEF NewRow, IsFresh, Unused
<1>5. orders'[k] = [status |-> "SUBMITTING", ticker |-> sec.ticker,
                    intent |-> IntentOf(sec.op), trigger |-> sec.trigger,
                    lots |-> n, filled |-> 0, brokerId |-> "none"]
  BY <1>0, <1>1 DEF NewRow, RecordSubmitting
<1> QED BY <1>2, <1>3, <1>4, <1>5

(* An answer that is settled leads on in one of six ways.                  *)
LEMMA SettledSection ==
  ASSUME TypeInv, SettleReply
  PROVE  /\ sec.at = "settleReply"
         /\ \/ sec' = NoSection
            \/ /\ sec'.at = "openRow" /\ sec.op = "open" /\ sec.ans = "FILLED"
               /\ sec' = [sec EXCEPT !.at = "openRow"]
            \/ /\ sec'.at = "lookup" /\ sec.op = "resolve" /\ sec.ans = "FILLED"
               /\ orders[sec.key].intent = "ENTRY"
               /\ sec' = [sec EXCEPT !.at = "lookup"]
            \/ /\ sec'.at = "closeRow" /\ sec.op \in {"close", "stop"} /\ sec.ans = "FILLED"
               /\ sec' = [sec EXCEPT !.at = "closeRow"]
            \/ /\ sec'.at \in {"cancelStop", "shrink"} /\ sec.op = "resolve" /\ sec.got > 0
               /\ orders[sec.key].intent = "EXIT"
               /\ sec'.pos \in OpenOn(positions, sec.ticker)
               /\ sec' = [sec EXCEPT !.pos = sec'.pos, !.at = sec'.at]
<1>0. sec \in Section
  BY DEF TypeInv, TypeOK, SectionOK
<1>1. sec.at = "settleReply"
  BY DEF SettleReply, At
<1>2. CASE Leave
  BY <1>1, <1>2 DEF Leave
<1>3. CASE Goto("openRow") /\ sec.op = "open" /\ sec.ans = "FILLED"
  BY <1>0, <1>1, <1>3 DEF Goto, Section
<1>4. CASE Goto("closeRow") /\ sec.op \in {"close", "stop"} /\ sec.ans = "FILLED"
  BY <1>0, <1>1, <1>4 DEF Goto, Section
<1>5. CASE Goto("lookup") /\ sec.op = "resolve" /\ sec.ans = "FILLED"
           /\ orders[sec.key].intent = "ENTRY"
  BY <1>0, <1>1, <1>5 DEF Goto, Section
<1>6. ASSUME NEW p \in PositionIds, NEW place \in {"cancelStop", "shrink"}, IsOpenHere(p),
             sec' = [sec EXCEPT !.pos = p, !.at = place], sec.op = "resolve", sec.got > 0,
             orders[sec.key].intent = "EXIT"
      PROVE  /\ sec'.at \in {"cancelStop", "shrink"} /\ sec.op = "resolve" /\ sec.got > 0
             /\ orders[sec.key].intent = "EXIT"
             /\ sec'.pos \in OpenOn(positions, sec.ticker)
             /\ sec' = [sec EXCEPT !.pos = sec'.pos, !.at = sec'.at]
  <2>1. sec'.pos = p /\ sec'.at = place
    BY <1>0, <1>6 DEF Section
  <2> QED BY <1>6, <2>1 DEF IsOpenHere
<1>7. \/ Leave
      \/ Goto("openRow") /\ sec.op = "open" /\ sec.ans = "FILLED"
      \/ Goto("closeRow") /\ sec.op \in {"close", "stop"} /\ sec.ans = "FILLED"
      \/ Goto("lookup") /\ sec.op = "resolve" /\ sec.ans = "FILLED"
           /\ orders[sec.key].intent = "ENTRY"
      \/ /\ sec.op = "resolve" /\ sec.got > 0 /\ orders[sec.key].intent = "EXIT"
         /\ \E p \in PositionIds, place \in {"cancelStop", "shrink"} :
              IsOpenHere(p) /\ sec' = [sec EXCEPT !.pos = p, !.at = place]
  BY DEF SettleReply, AfterOpen, AfterClose, AfterResolve
<1> QED BY <1>1, <1>2, <1>3, <1>4, <1>5, <1>6, <1>7

LEMMA OpenedSection ==
  ASSUME TypeInv, OpenFromFill
  PROVE  /\ sec.at = "openRow" /\ sec.key \in OrderKeys
         /\ \/ sec' = NoSection /\ UNCHANGED positions
            \/ /\ sec'.pos \in PositionIds /\ positions[sec'.pos].status = "ABSENT"
               /\ OpenOn(positions, sec.ticker) = {}
               /\ positions' = OpenRow(positions, sec'.pos, sec.ticker,
                                       orders[sec.key].filled, sec.key)
               /\ sec' = [sec EXCEPT !.pos = sec'.pos, !.at = "stopRecord"]
               /\ sec'.at = "stopRecord" /\ sec'.op = sec.op /\ sec'.ticker = sec.ticker
<1>0. sec \in Section
  BY DEF TypeInv, TypeOK, SectionOK
<1>1. sec.at = "openRow" /\ sec.key \in OrderKeys
  BY DEF OpenFromFill, At, TypeInv, Located, KeyPlaces
<1>2. CASE OpenOn(positions, sec.ticker) # {}
  BY <1>1, <1>2 DEF OpenFromFill, Raise
<1>3. CASE OpenOn(positions, sec.ticker) = {}
  <2>1. PICK p \in PositionIds :
          /\ IsFresh(positions, p)
          /\ positions' = OpenRow(positions, p, sec.ticker, orders[sec.key].filled, sec.key)
          /\ sec' = [sec EXCEPT !.pos = p, !.at = "stopRecord"]
    BY <1>3 DEF OpenFromFill
  <2>2. sec'.pos = p /\ sec'.at = "stopRecord" /\ sec'.op = sec.op /\ sec'.ticker = sec.ticker
    BY <1>0, <2>1 DEF Section
  <2> QED BY <1>1, <1>3, <2>1, <2>2 DEF IsFresh, Unused
<1> QED BY <1>2, <1>3

LEMMA OrderInHandStep ==
  ASSUME TypeInv, OrderInHand, [Next]_vars
  PROVE  OrderInHand'
<1> SUFFICES ASSUME sec'.at \in OrderPlaces
             PROVE  /\ orders'[sec'.key].status # "ABSENT"
                    /\ orders'[sec'.key].ticker = sec'.ticker
                    /\ orders'[sec'.key].trigger = sec'.trigger
                    /\ sec'.op # "resolve" => orders'[sec'.key].intent = IntentOf(sec'.op)
  BY DEF OrderInHand, IntentOf
<1>0. Located /\ OrderPlaces \subseteq KeyPlaces
  BY DEF TypeInv, OrderPlaces, KeyPlaces
<1>1. CASE sec' = sec \/ Turns
  <2>1. /\ sec.at \in OrderPlaces
        /\ sec'.key = sec.key /\ sec'.op = sec.op
        /\ sec'.ticker = sec.ticker /\ sec'.trigger = sec.trigger
    BY <1>1, TurnsKeep
  <2>2. sec.key \in OrderKeys
    BY <1>0, <2>1 DEF Located
  <2>3. /\ orders[sec.key].status # "ABSENT"
        /\ orders[sec.key].ticker = sec.ticker
        /\ orders[sec.key].trigger = sec.trigger
        /\ sec.op # "resolve" => orders[sec.key].intent = IntentOf(sec.op)
    BY <2>1 DEF OrderInHand
  <2> QED BY <2>1, <2>2, <2>3, OrderRowsStay
<1>2. CASE Begins
  <2>1. /\ sec'.op = "resolve" /\ sec'.key \in OrderKeys
        /\ orders[sec'.key].status # "ABSENT"
        /\ orders[sec'.key].ticker = sec'.ticker
        /\ orders[sec'.key].trigger = sec'.trigger
    BY <1>2 DEF Begins, OrderPlaces
  <2> QED BY <2>1, OrderRowsStay
<1>3. CASE Records
  BY <1>3, RecordedRow
<1>4. CASE sec' = NoSection \/ SettleReply \/ OpenFromFill
  BY <1>4, SettledSection, OpenedSection DEF OrderPlaces, NoSection
<1> QED BY <1>1, <1>2, <1>3, <1>4, SectionStep

LEMMA PositionInHandStep ==
  ASSUME TypeInv, PositionInHand, [Next]_vars
  PROVE  PositionInHand'
<1> SUFFICES ASSUME sec'.at \in PositionPlaces \/ sec'.op \in {"close", "stop"}
             PROVE  /\ positions'[sec'.pos].status # "ABSENT"
                    /\ positions'[sec'.pos].ticker = sec'.ticker
  BY DEF PositionInHand
<1>0. Located
  BY DEF TypeInv
<1>1. ASSUME sec.at \in PositionPlaces \/ sec.op \in {"close", "stop"},
             sec'.pos = sec.pos, sec'.ticker = sec.ticker
      PROVE  /\ positions'[sec'.pos].status # "ABSENT"
             /\ positions'[sec'.pos].ticker = sec'.ticker
  <2>1. sec.pos \in PositionIds
    BY <1>0, <1>1 DEF Located
  <2> QED BY <1>1, <2>1, PositionRowsStay DEF PositionInHand
<1>2. CASE sec' = sec \/ Turns
  BY <1>1, <1>2, TurnsKeep
<1>3. CASE Begins
  <2>1. ReadPosition(sec'.pos)
    BY <1>3 DEF Begins, PositionPlaces, StopPlaces
  <2> QED BY <2>1, PositionRowsStay DEF ReadPosition
<1>4. CASE Records
  BY <1>1, <1>4, RecordedRow DEF PositionPlaces, StopPlaces
<1>5. CASE SettleReply
  <2>0. sec \in Section
    BY DEF TypeInv, TypeOK, SectionOK
  <2>1. CASE sec'.at = "closeRow" /\ sec.op \in {"close", "stop"}
    BY <1>1, <1>5, <2>0, <2>1, SettledSection DEF Section, NoSection
  <2>2. CASE sec'.at \in {"cancelStop", "shrink"} /\ sec'.pos \in OpenOn(positions, sec.ticker)
             /\ sec' = [sec EXCEPT !.pos = sec'.pos, !.at = sec'.at]
    <3>1. /\ sec'.pos \in PositionIds /\ positions[sec'.pos].status # "ABSENT"
          /\ positions[sec'.pos].ticker = sec.ticker
      BY <2>2 DEF OpenOn, TypeInv, TypeOK, TablesOK
    <3>2. sec'.ticker = sec.ticker
      BY <2>0, <2>2 DEF Section
    <3> QED BY <3>1, <3>2, PositionRowsStay
  <2>3. CASE sec' = NoSection \/ (sec' = [sec EXCEPT !.at = "openRow"] /\ sec.op = "open")
             \/ (sec' = [sec EXCEPT !.at = "lookup"] /\ sec.op = "resolve")
    BY <2>0, <2>3 DEF NoSection, Section, PositionPlaces, StopPlaces
  <2> QED BY <1>5, <2>1, <2>2, <2>3, SettledSection
<1>6. CASE OpenFromFill
  <2>1. CASE sec' = NoSection
    BY <2>1 DEF NoSection, PositionPlaces, StopPlaces
  <2>2. CASE sec' # NoSection
    BY <1>6, <2>2, OpenedSection DEF OpenRow, TypeInv, TypeOK, TablesOK
  <2> QED BY <2>1, <2>2
<1>7. CASE sec' = NoSection
  BY <1>7 DEF NoSection, PositionPlaces, StopPlaces
<1> QED BY <1>2, <1>3, <1>4, <1>5, <1>6, <1>7, SectionStep

(* The answers that come back. *)
LEMMA AnswerHasLots ==
  ASSUME TypeInv, LotsInHand, FilledHasLots, Post \/ Query \/ Reread,
         sec'.at = "settleReply", sec'.ans = "FILLED"
  PROVE  sec'.got > 0
<1>0. SectionOK /\ sec \in Section /\ Located /\ brokerOrders \in [OrderKeys -> BrokerOrder]
  BY DEF TypeInv, TypeOK, SectionOK, BrokerOK
<1>1. CASE Post
  <2>1. sec.lots > 0
    BY <1>1 DEF Post, PostFilled, PostRefused, PostLost, PostPending, PostPartial,
                PostCancelled, At, LotsInHand
  <2>2. \/ Reply("FILLED", sec.lots) \/ Reply("REJECTED", 0)
        \/ Leave \/ Raise \/ Goto("cancelOrder")
    BY <1>1 DEF Post, PostFilled, PostRefused, PostLost, PostPending,
                PostPartial, PostCancelled, OutcomeUnknown
  <2>3. CASE Goto("cancelOrder")
    BY <1>0, <2>3 DEF Goto, Section
  <2> QED BY <1>0, <2>1, <2>2, <2>3, ReplyOnward DEF Leave, Raise, NoSection
<1>2. CASE Query
  <2>1. sec.key \in OrderKeys
    BY <1>0, <1>2 DEF Query, At, Located, KeyPlaces
  <2>2. \/ Reply("REJECTED", 0)
        \/ Reply(brokerOrders[sec.key].st, brokerOrders[sec.key].filled)
        \/ Leave \/ Goto("cancelOrder")
    BY <1>2 DEF Query
  <2>3. CASE Goto("cancelOrder")
    BY <1>0, <2>3 DEF Goto, Section
  <2> QED BY <1>0, <2>1, <2>2, <2>3, ReplyOnward DEF Leave, NoSection, FilledHasLots
<1>3. CASE Reread
  <2>1. sec.key \in OrderKeys
    BY <1>0, <1>3 DEF Reread, At, Located, KeyPlaces
  <2>2. brokerOrders[sec.key].filled \in Nat
    BY <1>0, <2>1 DEF BrokerOrder
  <2>3. /\ sec'.got = brokerOrders[sec.key].filled
        /\ sec'.ans = IF brokerOrders[sec.key].filled = 0 THEN "CANCELLED" ELSE "FILLED"
    BY <1>0, <1>3, ReplyOnward DEF Reread
  <2> QED BY <2>2, <2>3
<1> QED BY <1>1, <1>2, <1>3

LEMMA LotsInHandStep ==
  ASSUME TypeInv, LotsInHand, FilledHasLots, [Next]_vars
  PROVE  LotsInHand'
<1>0. sec \in Section
  BY DEF TypeInv, TypeOK, SectionOK
<1>1. CASE sec' = sec \/ sec' = NoSection
  BY <1>1 DEF LotsInHand, NoSection
<1>2. CASE Turns
  <2>1. /\ sec'.at # "post"
        /\ sec'.op = "stop" /\ sec'.at \in {"execSettle", "execLocal", "recordIntent"} =>
             sec.op = "stop" /\ sec.at \in {"execSettle", "execLocal"} /\ sec'.got = sec.got
    BY <1>2, TurnsKeep
  <2>2. ASSUME sec'.at = "settleReply", sec'.ans = "FILLED" PROVE sec'.got > 0
    <3>1. Post \/ Query \/ Reread
      <4>1. sec.at \in {"post", "query", "reread"}
        <5>1. PICK turning \in Turnings : Onward(turning[1], turning[2])
          BY <1>2 DEF Turns
        <5>2. PICK from, to : turning = <<from, to>> /\ <<from, to>> \in Turnings
          BY <5>1 DEF Turnings
        <5>3. sec.at = from /\ to = "settleReply"
          BY <2>2, <5>1, <5>2 DEF Onward
        <5> QED BY <5>2, <5>3 DEF Turnings
      <4>2. ~(QueryLost \/ RereadLost)
        BY <2>2 DEF QueryLost, RereadLost, NoAnswer, Leave, Raise, NoSection
      <4>3. CASE Holder
        BY <4>1, <4>2, <4>3 DEF Holder, At, RecordIntent, RecordNoLots, RecordExecution,
           CancelOrder, CancelOrderLost, SettleReply, SettleTwice, Lookup, LookupFails,
           OpenFromFill, StopRecord, StopRecordRefused, StopPost, StopPostLost,
           StopActivate, StopProtect, StopFail, CancelStop, CancelStopLost, CancelSettle,
           Demote, ExecSettle, ExecLocal, FinishClose, StartCooldown, Shrink
      <4>4. CASE DbFails \/ Trading \/ Drain \/ Environment \/ UNCHANGED vars
        BY <2>2, <4>1, <4>4, QuietOthers, QuietEnvironment DEF Quiet
      <4> QED BY <4>3, <4>4 DEF Next, Process
    <3> QED BY <2>2, <3>1, AnswerHasLots
  <2> QED BY <2>1, <2>2 DEF LotsInHand
<1>3. CASE Begins
  <2>1. sec'.at \notin {"post", "settleReply"}
    BY <1>3 DEF Begins
  <2>2. ASSUME sec'.op = "stop" PROVE sec'.got > 0
    BY <1>3, <2>2 DEF Begins, FilledHasLots
  <2> QED BY <2>1, <2>2 DEF LotsInHand
<1>4. CASE Records
  BY <1>4, RecordedRow DEF LotsInHand
<1>5. CASE SettleReply
  <2>1. sec'.at \notin {"post", "execSettle", "execLocal", "recordIntent", "settleReply"}
    BY <1>5, SettledSection DEF NoSection
  <2> QED BY <2>1 DEF LotsInHand
<1>6. CASE OpenFromFill
  <2>1. sec'.at \in {"none", "stopRecord"}
    BY <1>6, OpenedSection DEF NoSection
  <2> QED BY <2>1 DEF LotsInHand
<1> QED BY <1>1, <1>2, <1>3, <1>4, <1>5, <1>6, SectionStep

LEMMA FilledHasLotsStep ==
  ASSUME TypeInv, LotsInHand, FilledHasLots, [Next]_vars
  PROVE  FilledHasLots'
<1>0. /\ brokerOrders \in [OrderKeys -> BrokerOrder]
      /\ brokerStops \in [StopKeys -> BrokerStop]
      /\ SectionOK /\ Located
  BY DEF TypeInv, TypeOK, BrokerOK
<1>1. ASSUME NEW k \in OrderKeys, brokerOrders'[k].st = "FILLED"
      PROVE  brokerOrders'[k].filled > 0
  <2>1. CASE UNCHANGED brokerOrders
    BY <1>1, <2>1 DEF FilledHasLots
  <2>2. CASE brokerOrders' = CancelledAtBroker
    <3>1. brokerOrders'[k] = brokerOrders[k]
      BY <1>0, <1>1, <2>2 DEF CancelledAtBroker, BrokerOrder
    <3> QED BY <1>1, <3>1 DEF FilledHasLots
  <2>3. ASSUME NEW j \in OrderKeys, BrokerCancel(j) PROVE brokerOrders'[k].filled > 0
    <3>1. brokerOrders'[k] = brokerOrders[k]
      BY <1>0, <1>1, <2>3 DEF BrokerCancel, BrokerOrder
    <3> QED BY <1>1, <3>1 DEF FilledHasLots
  <2>4. ASSUME NEW j \in OrderKeys, BrokerFill(j) PROVE brokerOrders'[k].filled > 0
    <3>1. PICK n \in 1..(brokerOrders[j].lots - brokerOrders[j].filled), st \in {"FILLED", "LIVE"} :
            brokerOrders' = [brokerOrders EXCEPT ![j] =
              [brokerOrders[j] EXCEPT !.filled = brokerOrders[j].filled + n, !.st = st]]
      BY <2>4 DEF BrokerFill
    <3>2. CASE j = k
      <4>1. brokerOrders'[k].filled = brokerOrders[k].filled + n
        BY <1>0, <3>1, <3>2 DEF BrokerOrder
      <4>2. brokerOrders[k].filled \in Nat /\ brokerOrders[k].lots \in Nat
        BY <1>0 DEF BrokerOrder
      <4> QED BY <3>1, <3>2, <4>1, <4>2
    <3>3. CASE j # k
      <4>1. brokerOrders'[k] = brokerOrders[k]
        BY <1>0, <3>1, <3>3
      <4> QED BY <1>1, <4>1 DEF FilledHasLots
    <3> QED BY <3>2, <3>3
  <2>5. CASE Post /\ ~UNCHANGED brokerOrders
    <3>1. sec.key \in OrderKeys /\ sec.lots > 0
      BY <1>0, <2>5 DEF Post, PostFilled, PostRefused, PostLost, PostPending, PostPartial,
             PostCancelled, At, LotsInHand, Located, KeyPlaces
    <3>2. PICK st, n : /\ Takes(st, n)
                       /\ st = "FILLED" => n = sec.lots
      BY <2>5 DEF Post, PostFilled, PostRefused, PostLost, PostPending, PostPartial,
             PostCancelled, brokerVars
    <3>3. brokerOrders' = [brokerOrders EXCEPT ![sec.key] = Arrived(st, n)]
      BY <3>2 DEF Takes
    <3>4. CASE k = sec.key
      <4>1. brokerOrders'[k] = Arrived(st, n)
        BY <1>0, <3>3, <3>4
      <4> QED BY <1>1, <3>1, <3>2, <4>1 DEF Arrived
    <3>5. CASE k # sec.key
      <4>1. brokerOrders'[k] = brokerOrders[k]
        BY <1>0, <3>3, <3>5
      <4> QED BY <1>1, <4>1 DEF FilledHasLots
    <3> QED BY <3>4, <3>5
  <2> QED BY <2>1, <2>2, <2>3, <2>4, <2>5, BrokersOwnStep
<1>2. ASSUME NEW s \in StopKeys, brokerStops'[s].st = "FIRED"
      PROVE  brokerStops'[s].sold > 0
  <2>1. CASE UNCHANGED brokerStops
    BY <1>2, <2>1 DEF FilledHasLots
  <2>2. CASE StopStands
    <3>1. brokerStops'[s] = brokerStops[s]
      BY <1>0, <1>2, <2>2 DEF StopStands
    <3> QED BY <1>2, <3>1 DEF FilledHasLots
  <2>3. ASSUME NEW r, brokerStops' = StopCancelled(r)
        PROVE  brokerStops'[s].sold > 0
    <3>1. brokerStops'[s] = brokerStops[s]
      BY <1>0, <1>2, <2>3 DEF StopCancelled, BrokerStop
    <3> QED BY <1>2, <3>1 DEF FilledHasLots
  <2>4. ASSUME NEW r \in StopKeys, StopFires(r) PROVE brokerStops'[s].sold > 0
    <3>1. PICK n \in 1..brokerStops[r].lots :
            brokerStops' = [brokerStops EXCEPT ![r] =
                              [brokerStops[r] EXCEPT !.st = "FIRED", !.sold = n]]
      BY <2>4 DEF StopFires
    <3>2. CASE r = s
      <4>1. brokerStops'[s].sold = n /\ brokerStops[s].lots \in Nat
        BY <1>0, <3>1, <3>2 DEF BrokerStop
      <4> QED BY <3>1, <3>2, <4>1
    <3>3. CASE r # s
      <4>1. brokerStops'[s] = brokerStops[s]
        BY <1>0, <3>1, <3>3
      <4> QED BY <1>2, <4>1 DEF FilledHasLots
    <3> QED BY <3>2, <3>3
  <2>5. ASSUME NEW r \in StopKeys, StopRefused(r) PROVE brokerStops'[s].sold > 0
    <3>1. brokerStops'[s] = brokerStops[s]
      BY <1>0, <1>2, <2>5 DEF StopRefused, BrokerStop
    <3> QED BY <1>2, <3>1 DEF FilledHasLots
  <2>6. ASSUME NEW r \in StopKeys, StopSellsOn(r) PROVE brokerStops'[s].sold > 0
    <3>1. brokerStops' = [brokerStops EXCEPT ![r].sold = brokerStops[r].sold + 1]
      BY <2>6 DEF StopSellsOn
    <3>2. CASE r = s
      <4>1. brokerStops[s].sold \in Nat
        BY <1>0 DEF BrokerStop
      <4>2. brokerStops'[s].sold = brokerStops[s].sold + 1
        BY <1>0, <3>1, <3>2 DEF BrokerStop
      <4> QED BY <4>1, <4>2
    <3>3. CASE r # s
      <4>1. brokerStops'[s] = brokerStops[s]
        BY <1>0, <3>1, <3>3
      <4> QED BY <1>2, <4>1 DEF FilledHasLots
    <3> QED BY <3>2, <3>3
  <2> QED BY <2>1, <2>2, <2>3, <2>4, <2>5, <2>6, BrokerStopsStep
<1> QED BY <1>1, <1>2 DEF FilledHasLots

-----------------------------------------------------------------------------
(* Which keys the positions hold. *)

LEMMA KeysStay ==
  ASSUME TypeInv, [Next]_vars, ~OpenFromFill, ~FinishClose, NEW p \in PositionIds
  PROVE  /\ positions'[p].status = positions[p].status
         /\ positions'[p].ticker = positions[p].ticker
         /\ positions'[p].openKey = positions[p].openKey
         /\ positions'[p].closeKey = positions[p].closeKey
         /\ positions'[p].trigger = positions[p].trigger
         /\ positions'[p].lots = positions[p].lots \/ Shrink
<1>0. positions \in [PositionIds -> PositionRow]
  BY DEF TypeInv, TypeOK, TablesOK
<1>1. CASE StopProtect \/ Demote \/ ExecLocal
  BY <1>0, <1>1, ProtectionStep
<1>2. CASE Shrink
  BY <1>0, <1>2 DEF Shrink, UpdateLots, PositionRow
<1> QED BY <1>1, <1>2, PositionsStep

LEMMA ClosedSection ==
  ASSUME TypeInv, FinishClose
  PROVE  /\ sec.at = "closeRow" /\ sec.pos \in PositionIds
         /\ \/ sec' = NoSection /\ UNCHANGED positions
            \/ /\ positions[sec.pos].status = "OPEN"
               /\ positions' = CloseRow(positions, sec.pos, sec.trigger, sec.key)
               /\ sec'.at = "cooldown"
<1>0. sec \in Section
  BY DEF TypeInv, TypeOK, SectionOK
<1>1. sec.at = "closeRow" /\ sec.pos \in PositionIds
  BY DEF FinishClose, At, TypeInv, Located, PositionPlaces
<1> QED BY <1>0, <1>1 DEF FinishClose, CanClose, Goto, Raise, Section

LEMMA BookingEnds ==
  ASSUME TypeInv, OpenFromFill \/ FinishClose
  PROVE  ~Opening' /\ ~Closing'
<1>1. sec'.at \in {"none", "stopRecord", "cooldown"}
  BY OpenedSection, ClosedSection DEF NoSection
<1> QED BY <1>1 DEF Opening, Closing

LEMMA FillInHandStep ==
  ASSUME TypeInv, InHand, RowsWhole, BookedFromFills, [Next]_vars
  PROVE  FillInHand'
<1> SUFFICES ASSUME Opening' \/ Closing' PROVE FillInHand'
  BY DEF FillInHand
<1>0. /\ orders \in [OrderKeys -> OrderRow] /\ positions \in [PositionIds -> PositionRow]
      /\ sec \in Section /\ Located
  BY DEF TypeInv, TypeOK, TablesOK, SectionOK
<1>1. ~OpenFromFill /\ ~FinishClose
  BY BookingEnds
<1>2. ASSUME NEW k \in OrderKeys, Unbooked(k) PROVE Unbooked(k)'
  BY <1>1, <1>2, KeysStay DEF Unbooked
<1>3. CASE sec' = sec \/ Turns
  <2>1. /\ sec'.key = sec.key /\ sec'.ticker = sec.ticker /\ sec'.trigger = sec.trigger
        /\ Opening' => Opening
        /\ Closing' => Closing
    BY <1>3, TurnsKeep DEF Opening, Closing
  <2>2. FillInHand
    BY DEF InHand
  <2>3. sec.key \in OrderKeys /\ orders'[sec.key] = orders[sec.key]
    BY <2>1, <2>2, SettledStays DEF FillInHand
  <2> QED BY <1>2, <2>1, <2>2, <2>3 DEF FillInHand, Terminal
<1>4. CASE SettleReply
  <2>1. /\ sec.key \in OrderKeys /\ orders[sec.key].status = "SUBMITTING"
        /\ sec.ans \in TerminalOrder
    BY <1>0, <1>4 DEF SettleReply, CanSettle, At, Located, KeyPlaces
  <2>2. Unbooked(sec.key)
    <3>1. ASSUME NEW p \in PositionIds
          PROVE  positions[p].openKey # sec.key /\ positions[p].closeKey # sec.key
      <4>1. positions[p].openKey # sec.key
        BY <2>1 DEF RowsWhole, BookedFromFills, OpenedFromFill, OrderKeys
      <4>2. positions[p].closeKey # sec.key
        BY <2>1 DEF RowsWhole, BookedFromFills, ClosedFromFill, OrderKeys, TerminalOrder
      <4> QED BY <4>1, <4>2
    <3> QED BY <3>1 DEF Unbooked
  <2>3. PICK id : orders' = [orders EXCEPT ![sec.key] =
          [orders[sec.key] EXCEPT !.status = sec.ans, !.filled = sec.got, !.brokerId = id]]
    BY <1>4 DEF SettleReply, Settle
  <2>4. /\ orders'[sec.key].status = sec.ans /\ orders'[sec.key].filled = sec.got
        /\ orders'[sec.key].ticker = orders[sec.key].ticker
        /\ orders'[sec.key].intent = orders[sec.key].intent
        /\ orders'[sec.key].trigger = orders[sec.key].trigger
    BY <1>0, <2>1, <2>3 DEF OrderRow
  <2>5. /\ orders[sec.key].ticker = sec.ticker /\ orders[sec.key].trigger = sec.trigger
        /\ sec.op # "resolve" => orders[sec.key].intent = IntentOf(sec.op)
    BY <1>4, SettledSection DEF InHand, OrderInHand, OrderPlaces
  <2>6. /\ sec'.key = sec.key /\ sec'.ticker = sec.ticker /\ sec'.trigger = sec.trigger
        /\ sec'.op = sec.op /\ sec.got > 0
        /\ Opening' => orders[sec.key].intent = "ENTRY" /\ sec.ans = "FILLED"
        /\ Closing' => orders[sec.key].intent = "EXIT"
    <3>1. sec.at = "settleReply" /\ (sec.ans = "FILLED" => sec.got > 0)
      BY <1>4, SettledSection DEF InHand, LotsInHand
    <3>2. CASE sec' = [sec EXCEPT !.at = "openRow"] /\ sec.op = "open" /\ sec.ans = "FILLED"
      BY <1>0, <2>5, <3>1, <3>2 DEF Section, Closing, IntentOf
    <3>3. CASE sec' = [sec EXCEPT !.at = "lookup"] /\ sec.op = "resolve" /\ sec.ans = "FILLED"
               /\ orders[sec.key].intent = "ENTRY"
      BY <1>0, <3>1, <3>3 DEF Section, Closing
    <3>4. CASE sec' = [sec EXCEPT !.at = "closeRow"] /\ sec.op \in {"close", "stop"}
               /\ sec.ans = "FILLED"
      BY <1>0, <2>5, <3>1, <3>4 DEF Section, Opening, IntentOf
    <3>5. CASE /\ sec' = [sec EXCEPT !.pos = sec'.pos, !.at = sec'.at]
               /\ sec'.at \in {"cancelStop", "shrink"} /\ sec.got > 0
               /\ orders[sec.key].intent = "EXIT"
      BY <1>0, <3>5 DEF Section, Opening
    <3>6. CASE sec' = NoSection
      BY <3>6 DEF NoSection, Opening, Closing
    <3> QED BY <1>4, <3>2, <3>3, <3>4, <3>5, <3>6, SettledSection
  <2> QED BY <1>2, <2>1, <2>2, <2>4, <2>5, <2>6 DEF FillInHand, Terminal
<1>5. CASE Begins
  BY <1>5 DEF Begins, Opening, Closing
<1>6. CASE Records
  BY <1>6, RecordedRow DEF Opening, Closing
<1>7. CASE sec' = NoSection
  BY <1>7 DEF NoSection, Opening, Closing
<1> QED BY <1>1, <1>3, <1>4, <1>5, <1>6, <1>7, SectionStep

LEMMA InHandStep == BooksInv /\ [Next]_vars => InHand'
BY OrderInHandStep, PositionInHandStep, LotsInHandStep, FilledHasLotsStep, FillInHandStep
   DEF BooksInv, InHand

-----------------------------------------------------------------------------
(* The positions stand on their fills. *)

LEMMA RowsWholeStep ==
  ASSUME TypeInv, RowsWhole, [Next]_vars
  PROVE  RowsWhole'
<1>0. positions \in [PositionIds -> PositionRow]
  BY DEF TypeInv, TypeOK, TablesOK
<1> SUFFICES ASSUME NEW p \in PositionIds
             PROVE  /\ positions'[p].status = "ABSENT" => positions'[p].openKey = 0
                    /\ positions'[p].status # "CLOSED" => positions'[p].closeKey = 0
  BY DEF RowsWhole
<1>1. CASE ~OpenFromFill /\ ~FinishClose
  BY <1>1, KeysStay DEF RowsWhole
<1>2. CASE OpenFromFill
  <2>1. CASE UNCHANGED positions
    BY <2>1 DEF RowsWhole
  <2>2. CASE ~UNCHANGED positions
    <3>1. sec'.pos \in PositionIds
          /\ positions' = OpenRow(positions, sec'.pos, sec.ticker, orders[sec.key].filled, sec.key)
      BY <1>2, <2>2, OpenedSection
    <3> QED BY <1>0, <3>1 DEF OpenRow, RowsWhole
  <2> QED BY <2>1, <2>2
<1>3. CASE FinishClose
  <2>1. CASE UNCHANGED positions
    BY <2>1 DEF RowsWhole
  <2>2. CASE ~UNCHANGED positions
    <3>1. sec.pos \in PositionIds
          /\ positions' = CloseRow(positions, sec.pos, sec.trigger, sec.key)
      BY <1>3, <2>2, ClosedSection
    <3>2. p # sec.pos => positions'[p] = positions[p]
      BY <1>0, <3>1 DEF CloseRow
    <3>3. p = sec.pos => positions'[p].status = "CLOSED"
      BY <1>0, <3>1 DEF CloseRow, PositionRow
    <3> QED BY <3>2, <3>3 DEF RowsWhole
  <2> QED BY <2>1, <2>2
<1> QED BY <1>1, <1>2, <1>3

(* A booked fill stays what it was, and so does what stands on it. *)
LEMMA OpenedStays ==
  ASSUME TypeInv, [Next]_vars, NEW p \in PositionIds, OpenedFromFill(p),
         positions'[p].openKey = positions[p].openKey,
         positions'[p].ticker = positions[p].ticker,
         positions'[p].lots \in 1..positions[p].lots
  PROVE  OpenedFromFill(p)'
<1>1. /\ positions[p].openKey \in OrderKeys /\ Terminal(positions[p].openKey)
      /\ positions[p].lots \in 1..orders[positions[p].openKey].filled
  BY DEF OpenedFromFill, Terminal, TerminalOrder, TypeInv, TypeOK, TablesOK, PositionRow
<1>2. orders'[positions[p].openKey] = orders[positions[p].openKey]
  BY <1>1, SettledStays
<1>3. orders[positions[p].openKey].filled \in Nat
  BY <1>1 DEF TypeInv, TypeOK, TablesOK, OrderRow
<1>4. positions'[p].lots \in 1..orders[positions[p].openKey].filled
  BY <1>1, <1>3
<1> QED BY <1>2, <1>4 DEF OpenedFromFill

LEMMA ClosedStays ==
  ASSUME TypeInv, [Next]_vars, NEW p \in PositionIds, ClosedFromFill(p),
         positions'[p].closeKey = positions[p].closeKey,
         positions'[p].ticker = positions[p].ticker,
         positions'[p].trigger = positions[p].trigger
  PROVE  ClosedFromFill(p)'
<1>1. positions[p].closeKey \in OrderKeys /\ Terminal(positions[p].closeKey)
  BY DEF ClosedFromFill, Terminal, TypeInv, TypeOK, TablesOK, PositionRow
<1>2. orders'[positions[p].closeKey] = orders[positions[p].closeKey]
  BY <1>1, SettledStays
<1> QED BY <1>2 DEF ClosedFromFill

LEMMA BookedStep ==
  ASSUME BooksInv, [Next]_vars
  PROVE  BookedFromFills'
<1>0. /\ positions \in [PositionIds -> PositionRow] /\ orders \in [OrderKeys -> OrderRow]
      /\ TypeInv /\ FillInHand /\ PositionInHand /\ BookedFromFills
  BY DEF BooksInv, TypeInv, TypeOK, TablesOK, InHand
<1> SUFFICES ASSUME NEW p \in PositionIds
             PROVE  /\ positions'[p].status # "ABSENT" => OpenedFromFill(p)'
                    /\ positions'[p].status = "CLOSED" => ClosedFromFill(p)'
  BY DEF BookedFromFills
<1>1. positions[p].status # "ABSENT" => positions[p].lots \in 1..positions[p].lots
  <2>1. ASSUME positions[p].status # "ABSENT" PROVE positions[p].lots \in 1..positions[p].lots
    <3>1. positions[p].lots \in Nat /\ positions[p].lots > 0
      BY <1>0, <2>1 DEF BookedFromFills, OpenedFromFill, PositionRow
    <3> QED BY <3>1
  <2> QED BY <2>1
<1>2. CASE ~OpenFromFill /\ ~FinishClose
  <2>1. /\ positions'[p].status = positions[p].status
        /\ positions'[p].ticker = positions[p].ticker
        /\ positions'[p].openKey = positions[p].openKey
        /\ positions'[p].closeKey = positions[p].closeKey
        /\ positions'[p].trigger = positions[p].trigger
        /\ positions'[p].lots = positions[p].lots \/ Shrink
    BY <1>0, <1>2, KeysStay
  <2>2. ASSUME positions[p].status # "ABSENT" PROVE positions'[p].lots \in 1..positions[p].lots
    <3>1. CASE positions'[p].lots = positions[p].lots
      BY <1>1, <2>2, <3>1
    <3>2. CASE Shrink
      <4>1. /\ sec.pos \in PositionIds /\ sec.got \in Nat
            /\ positions[sec.pos].lots - sec.got > 0
            /\ positions' = [positions EXCEPT ![sec.pos] =
                 [positions[sec.pos] EXCEPT !.lots = positions[sec.pos].lots - sec.got]]
        BY <1>0, <3>2, SectionFields
           DEF Shrink, CanUpdateLots, UpdateLots, At, TypeInv, TypeOK, Located, PositionPlaces
      <4>2. CASE sec.pos = p
        <5>1. positions'[p].lots = positions[p].lots - sec.got /\ positions[p].lots \in Nat
          BY <1>0, <4>1, <4>2 DEF PositionRow
        <5> QED BY <4>1, <4>2, <5>1
      <4>3. CASE sec.pos # p
        <5>1. positions'[p].lots = positions[p].lots
          BY <1>0, <4>1, <4>3
        <5> QED BY <1>1, <2>2, <5>1
      <4> QED BY <4>2, <4>3
    <3> QED BY <2>1, <3>1, <3>2
  <2> QED BY <1>0, <2>1, <2>2, OpenedStays, ClosedStays DEF BookedFromFills
<1>3. CASE UNCHANGED positions
  BY <1>0, <1>1, <1>3, OpenedStays, ClosedStays DEF BookedFromFills
<1>4. CASE OpenFromFill /\ ~UNCHANGED positions
  <2>1. /\ sec.at = "openRow" /\ sec.key \in OrderKeys
        /\ sec'.pos \in PositionIds
        /\ positions' = OpenRow(positions, sec'.pos, sec.ticker, orders[sec.key].filled, sec.key)
    BY <1>0, <1>4, OpenedSection
  <2>2. CASE p = sec'.pos
    <3>1. /\ orders[sec.key].ticker = sec.ticker /\ orders[sec.key].filled > 0
          /\ orders[sec.key].intent = "ENTRY" /\ orders[sec.key].status = "FILLED"
      BY <1>0, <2>1 DEF FillInHand, Opening
    <3>2. UNCHANGED orders /\ orders[sec.key].filled \in Nat
      BY <1>0, <1>4, <2>1 DEF OpenFromFill, OrderRow
    <3>3. /\ positions'[p].status = "OPEN" /\ positions'[p].ticker = sec.ticker
          /\ positions'[p].openKey = sec.key /\ positions'[p].lots = orders[sec.key].filled
      BY <1>0, <2>1, <2>2 DEF OpenRow
    <3>4. orders[sec.key].filled \in 1..orders[sec.key].filled
      BY <3>1, <3>2
    <3> QED BY <2>1, <3>1, <3>2, <3>3, <3>4 DEF OpenedFromFill, OrderKeys
  <2>3. CASE p # sec'.pos
    <3>1. positions'[p] = positions[p]
      BY <1>0, <2>1, <2>3 DEF OpenRow
    <3> QED BY <1>0, <1>1, <3>1, OpenedStays, ClosedStays DEF BookedFromFills
  <2> QED BY <2>2, <2>3
<1>5. CASE FinishClose /\ ~UNCHANGED positions
  <2>1. /\ sec.at = "closeRow" /\ sec.pos \in PositionIds
        /\ positions[sec.pos].status = "OPEN"
        /\ positions' = CloseRow(positions, sec.pos, sec.trigger, sec.key)
    BY <1>0, <1>5, ClosedSection
  <2>2. CASE p = sec.pos
    <3>1. /\ sec.key \in OrderKeys /\ Terminal(sec.key)
          /\ orders[sec.key].ticker = sec.ticker /\ orders[sec.key].filled > 0
          /\ orders[sec.key].intent = "EXIT" /\ orders[sec.key].trigger = sec.trigger
      BY <1>0, <2>1 DEF FillInHand, Closing
    <3>2. positions[p].ticker = sec.ticker
      BY <1>0, <2>1, <2>2 DEF PositionInHand, PositionPlaces
    <3>3. UNCHANGED orders
      BY <1>5 DEF FinishClose
    <3>4. positions'[p] = [positions[p] EXCEPT !.status = "CLOSED", !.trigger = sec.trigger,
                             !.closeKey = sec.key, !.protection = "LOCAL", !.stopKey = 0]
      BY <1>0, <2>1, <2>2 DEF CloseRow
    <3>5. /\ positions'[p].openKey = positions[p].openKey
          /\ positions'[p].ticker = positions[p].ticker
          /\ positions'[p].lots = positions[p].lots
          /\ positions'[p].closeKey = sec.key
          /\ positions'[p].trigger = sec.trigger
      BY <1>0, <3>4 DEF PositionRow
    <3>6. OpenedFromFill(p)'
      BY <1>0, <1>1, <2>1, <2>2, <3>5, OpenedStays DEF BookedFromFills
    <3>7. ClosedFromFill(p)'
      BY <3>1, <3>2, <3>3, <3>5 DEF ClosedFromFill, Terminal, OrderKeys
    <3> QED BY <3>6, <3>7
  <2>3. CASE p # sec.pos
    <3>1. positions'[p] = positions[p]
      BY <1>0, <2>1, <2>3 DEF CloseRow
    <3> QED BY <1>0, <1>1, <3>1, OpenedStays, ClosedStays DEF BookedFromFills
  <2> QED BY <2>2, <2>3
<1> QED BY <1>2, <1>3, <1>4, <1>5

LEMMA OneBookingStep ==
  ASSUME BooksInv, [Next]_vars
  PROVE  OneFillOneBooking'
<1>0. /\ positions \in [PositionIds -> PositionRow]
      /\ TypeInv /\ FillInHand /\ OneFillOneBooking
  BY DEF BooksInv, TypeInv, TypeOK, TablesOK, InHand
<1>1. CASE ~OpenFromFill /\ ~FinishClose
  BY <1>0, <1>1, KeysStay DEF OneFillOneBooking
<1>2. CASE UNCHANGED positions
  BY <1>0, <1>2 DEF OneFillOneBooking
<1>3. CASE OpenFromFill /\ ~UNCHANGED positions
  <2>1. /\ sec.at = "openRow" /\ sec'.pos \in PositionIds
        /\ positions' = OpenRow(positions, sec'.pos, sec.ticker, orders[sec.key].filled, sec.key)
    BY <1>0, <1>3, OpenedSection
  <2>2. Unbooked(sec.key)
    BY <1>0, <2>1 DEF FillInHand, Opening
  <2>3. /\ positions'[sec'.pos].openKey = sec.key /\ positions'[sec'.pos].closeKey = 0
        /\ \A p \in PositionIds : p # sec'.pos => positions'[p] = positions[p]
    BY <1>0, <2>1 DEF OpenRow
  <2>4. \A p \in PositionIds : p # sec'.pos =>
          /\ positions'[p].openKey = positions[p].openKey /\ positions[p].openKey # sec.key
          /\ positions'[p].closeKey = positions[p].closeKey
    BY <2>2, <2>3 DEF Unbooked
  <2> QED BY <1>0, <2>3, <2>4 DEF OneFillOneBooking
<1>4. CASE FinishClose /\ ~UNCHANGED positions
  <2>1. /\ sec.at = "closeRow" /\ sec.pos \in PositionIds
        /\ positions' = CloseRow(positions, sec.pos, sec.trigger, sec.key)
    BY <1>0, <1>4, ClosedSection
  <2>2. Unbooked(sec.key)
    BY <1>0, <2>1 DEF FillInHand, Closing
  <2>3. /\ positions'[sec.pos].closeKey = sec.key
        /\ positions'[sec.pos].openKey = positions[sec.pos].openKey
        /\ \A p \in PositionIds : p # sec.pos => positions'[p] = positions[p]
    BY <1>0, <2>1 DEF CloseRow, PositionRow
  <2> QED BY <1>0, <2>1, <2>2, <2>3 DEF OneFillOneBooking, Unbooked
<1> QED BY <1>1, <1>2, <1>3, <1>4

LEMMA BooksInit == Init => BooksInv
<1> SUFFICES ASSUME Init PROVE BooksInv
  OBVIOUS
<1>1. TypeInv
  BY TypeInit
<1>2. InHand
  BY DEF Init, InHand, OrderInHand, PositionInHand, LotsInHand, FilledHasLots, FillInHand,
         OrderPlaces, PositionPlaces, StopPlaces, Opening, Closing, NoSection,
         NoBrokerOrder, NoBrokerStop
<1>3. RowsWhole /\ BookedFromFills /\ OneFillOneBooking
  BY DEF Init, RowsWhole, BookedFromFills, OneFillOneBooking, NoPosition
<1> QED BY <1>1, <1>2, <1>3 DEF BooksInv

LEMMA BooksStep == BooksInv /\ [Next]_vars => BooksInv'
<1> SUFFICES ASSUME BooksInv, [Next]_vars PROVE BooksInv'
  OBVIOUS
<1>1. TypeInv' /\ RowsWhole'
  BY TypeStep, RowsWholeStep DEF BooksInv
<1> QED BY <1>1, InHandStep, BookedStep, OneBookingStep DEF BooksInv

LEMMA BooksInvariant == Spec => []BooksInv
BY BooksInit, BooksStep, PTL DEF Spec

(* Every position row stands on a fill of its own kind, and a closed one   *)
(* on the exit that sold it, for that exit's reason: what open_position,   *)
(* close_position, close_executed_stop and resolve_unfinished write into   *)
(* positions is always what they settled in orders.                        *)
THEOREM PositionsStandOnFills == Spec => []BookedFromFills
<1>1. BooksInv => BookedFromFills
  BY DEF BooksInv
<1> QED BY <1>1, BooksInvariant, PTL

(* No fill is booked twice, however the loop and the drain interleave: an  *)
(* operation books only what it has itself moved from SUBMITTING.          *)
THEOREM FillsAreBookedOnce == Spec => []OneFillOneBooking
<1>1. BooksInv => OneFillOneBooking
  BY DEF BooksInv
<1> QED BY <1>1, BooksInvariant, PTL
=============================================================================
