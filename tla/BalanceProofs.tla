--------------------------- MODULE BalanceProofs ---------------------------
(***************************************************************************)
(* The account against the books, for every value of the constants of      *)
(* Execution.                                                              *)
(*                                                                         *)
(* A ticker's lots are in one of four states: none are held; an entry has  *)
(* filled that no position has been opened for; a position is open and     *)
(* they are its lots; or a position is open and they have been sold.  The  *)
(* invariant says of each what the rows, the broker and the operation in   *)
(* progress have to show for it.  Four steps move a ticker from one to the *)
(* next: a post that trades, a stop that fires, and the two that write a   *)
(* position's opening and its closing.                                     *)
(*                                                                         *)
(* Excluded are the faults after which the books do not balance: a lookup  *)
(* that fails, an order that fills late, and a stop posted without an      *)
(* answer.  After a write that fails they do not balance either: the       *)
(* theorems exclude it, or say what holds until it halts trading.          *)
(***************************************************************************)
EXTENDS StopsProofs

(* What the broker has filled and no position's row shows yet.             *)
BoughtOn(t, k) ==
  /\ brokerOrders[k].st = "FILLED" /\ brokerOrders[k].intent = "ENTRY"
  /\ brokerOrders[k].ticker = t
  /\ \A p \in PositionIds : positions[p].openKey # k

SoldOn(t, k) ==
  /\ brokerOrders[k].st = "FILLED" /\ brokerOrders[k].intent = "EXIT"
  /\ brokerOrders[k].ticker = t
  /\ \A p \in PositionIds : positions[p].closeKey # k

IsOpen(t, p) == positions[p].status = "OPEN" /\ positions[p].ticker = t

NoneOpen(t) == \A p \in PositionIds : ~IsOpen(t, p)
NoneBought(t) == \A k \in OrderKeys : ~BoughtOn(t, k)
NoneSold(t) == \A k \in OrderKeys : ~SoldOn(t, k)

(* The four states of a ticker's lots. *)
Flat(t) == NoneOpen(t) /\ NoneBought(t) => held[t] = 0

Bought(t) ==
  \A k \in OrderKeys :
    BoughtOn(t, k) => /\ NoneOpen(t) /\ held[t] = brokerOrders[k].filled
                      /\ \A j \in OrderKeys : BoughtOn(t, j) => j = k

Opened(t) ==
  \A p \in PositionIds :
    IsOpen(t, p) => /\ held[t] \in {0, positions[p].lots}
                    /\ \A q \in PositionIds : IsOpen(t, q) => q = p

Sold(t) ==
  \A k \in OrderKeys :
    SoldOn(t, k) => /\ ~NoneOpen(t) /\ held[t] = 0
                    /\ \A j \in OrderKeys : SoldOn(t, j) => j = k

Account == \A t \in Tickers : Flat(t) /\ Bought(t) /\ Opened(t) /\ Sold(t)

(* The broker's stop is for a position's ticker and for the row's lots,    *)
(* all of which it has sold once it fired; and one about to be posted is   *)
(* not there yet.                                                          *)
StopMirrors ==
  /\ \A s \in StopKeys :
       brokerStops[s].st # "NONE" =>
         /\ stops[s].status # "ABSENT" /\ stops[s].position \in PositionIds
         /\ positions[stops[s].position].status # "ABSENT"
         /\ positions[stops[s].position].ticker = brokerStops[s].ticker
         /\ brokerStops[s].lots = stops[s].lots
         /\ brokerStops[s].st = "FIRED" => brokerStops[s].sold = brokerStops[s].lots
  /\ sec.at = "stopPost" => brokerStops[sec.skey].st = "NONE"

(* Where each operation may stand.                                         *)
Works(op) ==
  CASE op = "none"    -> {"none"}
    [] op = "open"    -> {"recordIntent", "post", "settleReply", "openRow", "stopRecord"}
                           \cup Placing
    [] op = "close"   -> {"cancelStop", "cancelSettle", "demote", "recordIntent", "post",
                          "settleReply", "closeRow", "cooldown"}
    [] op = "stop"    -> {"execSettle", "execLocal", "recordIntent", "settleReply",
                          "closeRow", "cooldown"}
    [] op = "resolve" -> {"query", "settleReply", "lookup", "openRow", "stopRecord",
                          "cancelStop", "cancelSettle", "demote", "closeRow", "cooldown"}
                           \cup Placing

Working == sec.op \in {"none", "open", "close", "stop", "resolve"} /\ sec.at \in Works(sec.op)

(* Why an open position's lots are gone: an exit sold them, a stop did, or *)
(* a stop's sale is being written down.                                    *)
StopSelling(p) == sec.op = "stop" /\ sec.at # "cooldown" /\ sec.pos = p

SaleExplained ==
  \A t \in Tickers, p \in PositionIds :
    IsOpen(t, p) /\ held[t] # positions[p].lots =>
      ~NoneSold(t) \/ SoldByStop(t) \/ StopSelling(p)

(* After a sale nothing stands at the broker that would sell again.        *)
SoldBare ==
  \A t \in Tickers, k \in OrderKeys, p \in PositionIds :
    SoldOn(t, k) /\ IsOpen(t, p) => Bare(p)

FiredHeld ==
  \A s \in StopKeys :
    Stands(s) /\ brokerStops[s].st = "FIRED" => held[brokerStops[s].ticker] = 0

(* A fill that no position shows is one somebody will book: its order is   *)
(* unresolved, or the section has it in hand.                              *)
Followed ==
  \A t \in Tickers, k \in OrderKeys :
    /\ BoughtOn(t, k) => orders[k].status = "SUBMITTING" \/ (Opening /\ sec.key = k)
    /\ SoldOn(t, k) => \/ orders[k].status = "SUBMITTING"
                       \/ Closing /\ sec.op # "stop" /\ sec.key = k
                       \/ "db" \in Faults

-----------------------------------------------------------------------------
(* What the section knows of the account at each place. *)

OpeningHand ==
  sec.op = "open" =>
    /\ lock = "trading" /\ phase["trading"] = "entries"
    /\ sec.at \in {"recordIntent", "post", "settleReply"} => NoneOpen(sec.ticker)
    /\ sec.at \in {"recordIntent", "post"} => NoneBought(sec.ticker)
    /\ sec.at = "settleReply" => \A k \in OrderKeys : BoughtOn(sec.ticker, k) => k = sec.key

Leading == {"cancelStop", "cancelSettle", "demote", "recordIntent", "post"}

ClosingHand ==
  sec.op = "close" /\ sec.at \in Leading =>
    /\ sec.lots = positions[sec.pos].lots
    /\ positions[sec.pos].status = "OPEN" \/ held[sec.ticker] = 0

SettlingHand ==
  \/ sec.op = "close" /\ sec.at = "settleReply" /\ sec.ans = "FILLED"
  \/ sec.op = "stop" /\ sec.at # "cooldown"
  \/ Closing
  => positions[sec.pos].status = "OPEN"

StopHand ==
  sec.op = "stop" /\ sec.at # "cooldown" =>
    /\ held[sec.ticker] = 0 /\ NoneSold(sec.ticker)
    /\ sec.at = "settleReply" => sec.ans = "FILLED"

FillHand ==
  /\ Opening => /\ BoughtOn(sec.ticker, sec.key)
                /\ orders[sec.key].filled = brokerOrders[sec.key].filled
  /\ Closing /\ sec.op # "stop" => SoldOn(sec.ticker, sec.key)

PlaceHand == sec.at \in Placing \cup {"stopRecord"} => NoneSold(sec.ticker)

SubmitHand ==
  sec.at = "settleReply" /\ sec.op # "resolve" => orders[sec.key].status = "SUBMITTING"

Hands == /\ OpeningHand /\ ClosingHand /\ SettlingHand /\ StopHand
         /\ FillHand /\ PlaceHand /\ SubmitHand

(* What the cycle has read: a position it goes by is open or its lots are  *)
(* gone, and a ticker with lots is in the portfolio of the entry pass.     *)
BookHeld ==
  \A r \in cycle.book :
    /\ phase["trading"] \in {"stops", "exits"}
    /\ positions[r.pos].status = "OPEN" \/ held[positions[r.pos].ticker] = 0

EntriesHeld ==
  phase["trading"] = "entries" =>
    \A t \in Tickers :
      held[t] > 0 => \/ t \in cycle.port \cup cycle.opened
                     \/ sec.op = "open" /\ sec.ticker = t

Base == LiveInv /\ TruthInv /\ Prompt /\ Sized

BalanceInv == /\ Base /\ Account /\ StopMirrors /\ Working
              /\ SaleExplained /\ SoldBare /\ FiredHeld /\ Followed
              /\ Hands /\ BookHeld /\ EntriesHeld

Reliable == Faults \cap {"slow", "lookup", "mutestop"} = {}

(* A step of it in which no write was lost.                                *)
Kept == Reliable /\ NothingLost

LEMMA BaseFacts ==
  ASSUME Base
  PROVE  /\ TypeInv /\ Tables /\ Located /\ Known /\ sec \in Section /\ BrokerOK
         /\ orders \in [OrderKeys -> OrderRow] /\ held \in [Tickers -> Nat]
         /\ brokerOrders \in [OrderKeys -> BrokerOrder]
         /\ brokerStops \in [StopKeys -> BrokerStop]
         /\ BooksInv /\ InHand /\ RowsWhole /\ BookedFromFills
         /\ Idle /\ Ordinary /\ Bound /\ LiveInHand
         /\ WriteAhead /\ SettledTruth /\ Posting /\ NothingSent /\ Answered
<1>1. LiveInv /\ StopsInv /\ BooksInv /\ TypeInv /\ TruthInv
  BY DEF Base, LiveInv, StopsInv, BooksInv
<1>2. Tables
  BY <1>1, TablesType
<1> QED BY <1>1, <1>2 DEF LiveInv, StopsInv, BooksInv, TypeInv, TypeOK, BrokerOK, TablesOK,
                          SectionOK, Bound, TruthInv

LEMMA BaseStep ==
  ASSUME Base, Kept, [Next]_vars
  PROVE  Base'
<1>1. NothingLost /\ "mutestop" \notin Faults /\ "slow" \notin Faults
  BY DEF Kept, Reliable
<1>2. LiveInv'
  BY <1>1, LiveStep DEF Base
<1>3. TruthInv'
  BY BaseFacts, TruthStep DEF Base
<1>4. Prompt' /\ Sized'
  <2>1. SizedInv
    BY DEF SizedInv, Base, LiveInv
  <2> QED BY <1>1, <2>1, SizedInvStep DEF SizedInv
<1> QED BY <1>2, <1>3, <1>4 DEF Base

-----------------------------------------------------------------------------
(* The steps that move lots, and the others. *)

(* Nothing is filled, opened or closed.                                    *)
Calm ==
  /\ UNCHANGED held
  /\ \A k \in OrderKeys :
       \/ brokerOrders'[k] = brokerOrders[k]
       \/ brokerOrders[k].st # "FILLED" /\ brokerOrders'[k].st # "FILLED"
  /\ \A p \in PositionIds : /\ positions'[p].status = positions[p].status
                            /\ positions'[p].ticker = positions[p].ticker
                            /\ positions'[p].lots = positions[p].lots
                            /\ positions'[p].openKey = positions[p].openKey
                            /\ positions'[p].closeKey = positions[p].closeKey

(* The order posted is filled whole.                                       *)
Trades ==
  /\ At("post") /\ CanTrade(sec.lots)
  /\ brokerOrders' = [brokerOrders EXCEPT ![sec.key] = Arrived("FILLED", sec.lots)]
  /\ held' = Moved(Arrived("FILLED", sec.lots), sec.lots)
  /\ UNCHANGED <<dbVars, brokerStops>>
  /\ \/ Reply("FILLED", sec.lots)
     \/ sec.op = "open" /\ Raise
     \/ sec.op # "open" /\ Leave

Opens ==
  /\ OpenFromFill
  /\ sec'.pos \in PositionIds /\ positions[sec'.pos].status = "ABSENT"
  /\ positions' = OpenRow(positions, sec'.pos, sec.ticker, orders[sec.key].filled, sec.key)
  /\ sec'.at = "stopRecord"

Closes ==
  /\ FinishClose
  /\ positions[sec.pos].status = "OPEN"
  /\ positions' = CloseRow(positions, sec.pos, sec.trigger, sec.key)
  /\ sec'.at = "cooldown"

LEMMA HeldStep ==
  ASSUME [Next]_vars
  PROVE  \/ UNCHANGED held
         \/ Post
         \/ \E k \in OrderKeys : BrokerFill(k)
         \/ \E s \in StopKeys : StopFires(s) \/ StopSellsOn(s)
<1>1. CASE Holder
  BY <1>1 DEF Holder, RecordIntent, RecordNoLots, RecordExecution, NewRow,
     Query, QueryLost, CancelOrder, CancelOrderLost, Reread, RereadLost, SettleReply,
     SettleTwice, Lookup, LookupFails, OpenFromFill, StopRecord, StopRecordRefused, StopPost,
     StopPostLost, StopActivate, StopProtect, StopFail, CancelStop, CancelStopLost,
     CancelSettle, Demote, ExecSettle, ExecLocal, FinishClose, StartCooldown, Shrink,
     brokerVars
<1>2. CASE DbFails
  BY <1>2 DEF DbFails, WriteFails, StopSettleFails, StopFailUnwritten,
              CooldownUnwritten, brokerVars
<1>3. CASE Trading \/ Drain
  BY <1>3 DEF Trading, StartCycle, ReadBook, ToExits, ToEntries, EndCycle, BeginResolve,
              BeginCloseExecuted, BeginClose, BeginOpen, Drain, Signal, DrainPoll,
              DrainPolled, brokerVars
<1>4. CASE Environment
  BY <1>4 DEF Environment, Halt, Resume, CooldownEnds, Broker, BrokerCancel, StopRefused,
              brokerVars
<1>5. CASE UNCHANGED vars
  BY <1>5 DEF vars, brokerVars
<1> QED BY <1>1, <1>2, <1>3, <1>4, <1>5 DEF Next, Process

LEMMA PostMoves ==
  ASSUME Base, Reliable, Post
  PROVE  Calm \/ Trades
<1>0. /\ held \in [Tickers -> Nat] /\ brokerOrders \in [OrderKeys -> BrokerOrder]
      /\ Located /\ Posting
  BY BaseFacts
<1>1. At("post") /\ UNCHANGED dbVars /\ (PostFilled \/ PostRefused \/ PostLost)
  BY DEF Reliable, Post, PostFilled, PostRefused, PostLost, PostPending, PostPartial,
         PostCancelled
<1>2. sec.key \in OrderKeys /\ brokerOrders[sec.key].st = "NONE" /\ sec.ticker \in Tickers
  BY <1>0, <1>1 DEF At, Located, KeyPlaces, Posting
<1>3. CASE Takes("FILLED", sec.lots) /\ (Reply("FILLED", sec.lots) \/ OutcomeUnknown)
  BY <1>1, <1>3 DEF Takes, OutcomeUnknown, Trades
<1>4. CASE Takes("REJECTED", 0)
  <2>1. held' = Moved(Arrived("REJECTED", 0), 0)
        /\ brokerOrders' = [brokerOrders EXCEPT ![sec.key] = Arrived("REJECTED", 0)]
    BY <1>4 DEF Takes
  <2>2. held' = held
    BY <1>0, <1>2, <2>1 DEF Moved, Arrived
  <2>3. Arrived("REJECTED", 0).st = "REJECTED"
    BY DEF Arrived
  <2> QED BY <1>0, <1>1, <1>2, <2>1, <2>2, <2>3 DEF Calm, dbVars
<1>5. CASE UNCHANGED brokerVars
  BY <1>1, <1>5 DEF Calm, dbVars, brokerVars
<1>6. ~("slow" \in Faults)
  BY DEF Reliable
<1> QED BY <1>1, <1>3, <1>4, <1>5, <1>6 DEF PostFilled, PostRefused, PostLost

LEMMA LotsMove ==
  ASSUME Base, StopMirrors, Kept, [Next]_vars
  PROVE  \/ Calm \/ Trades \/ Opens \/ Closes
         \/ \E s \in StopKeys : StopFires(s)
<1>0. TypeInv /\ brokerOrders \in [OrderKeys -> BrokerOrder] /\ Tables /\ Prompt
  BY BaseFacts DEF Base
<1>1. ~\E k \in OrderKeys : BrokerFill(k) \/ BrokerCancel(k)
  BY DEF Kept, Reliable, BrokerFill, BrokerCancel
<1>2. ASSUME NEW s \in StopKeys, StopSellsOn(s) PROVE FALSE
  <2>1. brokerStops[s].sold = brokerStops[s].lots /\ brokerStops[s].lots \in Nat
    BY <1>2, BaseFacts DEF StopSellsOn, StopMirrors, BrokerStop
  <2> QED BY <1>2, <2>1 DEF StopSellsOn
<1>3. ASSUME held' = held, ~Post PROVE Calm \/ Opens \/ Closes
  <2>1. ASSUME NEW k \in OrderKeys
        PROVE  \/ brokerOrders'[k] = brokerOrders[k]
               \/ brokerOrders[k].st # "FILLED" /\ brokerOrders'[k].st # "FILLED"
    <3>1. CASE brokerOrders' = CancelledAtBroker
      BY <1>0, <3>1 DEF CancelledAtBroker, BrokerOrder
    <3> QED BY <1>1, <1>3, <3>1, BrokerOrdersStep
  <2>2. CASE OpenFromFill
    BY <1>0, <1>3, <2>1, <2>2, OpenedSection DEF Calm, Opens
  <2>3. CASE FinishClose
    BY <1>0, <1>3, <2>1, <2>3, ClosedSection DEF Calm, Closes
  <2>4. CASE ~OpenFromFill /\ ~FinishClose
    <3>1. ~Shrink
      BY <1>0 DEF Shrink, At, Prompt
    <3> QED BY <1>0, <1>3, <2>1, <2>4, <3>1, KeysStay DEF Calm
  <2> QED BY <2>2, <2>3, <2>4
<1>4. ASSUME Post PROVE Calm \/ Trades
  BY <1>4, PostMoves DEF Kept
<1>5. ASSUME held' # held, ~Post PROVE \E s \in StopKeys : StopFires(s)
  <2>1. \E s \in StopKeys : StopFires(s) \/ StopSellsOn(s)
    BY <1>1, <1>5, HeldStep
  <2> QED BY <1>2, <2>1
<1> QED BY <1>3, <1>4, <1>5

(* A calm step leaves every ticker in its state.                           *)
LEMMA CalmFills ==
  ASSUME Calm, NEW t
  PROVE  /\ \A k \in OrderKeys : /\ BoughtOn(t, k)' <=> BoughtOn(t, k)
                                 /\ SoldOn(t, k)' <=> SoldOn(t, k)
                                 /\ BoughtOn(t, k) => brokerOrders'[k] = brokerOrders[k]
         /\ \A p \in PositionIds : IsOpen(t, p)' <=> IsOpen(t, p)
         /\ NoneOpen(t)' <=> NoneOpen(t)
         /\ NoneBought(t)' <=> NoneBought(t)
         /\ NoneSold(t)' <=> NoneSold(t)
<1>1. ASSUME NEW k \in OrderKeys
      PROVE  /\ BoughtOn(t, k)' <=> BoughtOn(t, k)
             /\ SoldOn(t, k)' <=> SoldOn(t, k)
             /\ BoughtOn(t, k) => brokerOrders'[k] = brokerOrders[k]
  BY DEF Calm, BoughtOn, SoldOn
<1>2. \A p \in PositionIds : IsOpen(t, p)' <=> IsOpen(t, p)
  BY DEF Calm, IsOpen
<1> QED BY <1>1, <1>2 DEF NoneOpen, NoneBought, NoneSold

-----------------------------------------------------------------------------
(* What each move leaves the ticker with. *)

LEMMA StepFacts ==
  ASSUME Base, Kept, [Next]_vars
  PROVE  /\ TypeInv' /\ Prompt' /\ FillInHand'
         /\ DbFails => StopSettleFails \/ StopFailUnwritten
         /\ Begins => sec = NoSection
<1>1. Base'
  BY BaseStep
<1>2. TypeInv' /\ Prompt' /\ FillInHand'
  BY <1>1 DEF Base, LiveInv, StopsInv, BooksInv, InHand
<1>3. NothingLost /\ Idle
  BY BaseFacts DEF Kept
<1>4. DbFails => StopSettleFails \/ StopFailUnwritten
  BY <1>3 DEF NothingLost, DbFails, WriteFails, CooldownUnwritten
<1> QED BY <1>2, <1>3, <1>4, BeginsIdle

(* An order still on its way opens and closes nothing.                     *)
LEMMA SubmittingUnbooked ==
  ASSUME Base, NEW k \in OrderKeys, orders[k].status = "SUBMITTING"
  PROVE  Unbooked(k)
<1> SUFFICES ASSUME NEW p \in PositionIds
             PROVE  positions[p].openKey # k /\ positions[p].closeKey # k
  BY DEF Unbooked
<1>1. k # 0
  BY TableAssumption DEF OrderKeys
<1>2. positions[p].status = "ABSENT" \/ OpenedFromFill(p)
  BY BaseFacts DEF BookedFromFills
<1>3. positions[p].status # "CLOSED" \/ ClosedFromFill(p)
  BY BaseFacts DEF BookedFromFills
<1>4. positions[p].openKey # k
  BY <1>1, <1>2, BaseFacts DEF RowsWhole, OpenedFromFill
<1>5. positions[p].closeKey # k
  BY <1>1, <1>3, BaseFacts DEF RowsWhole, ClosedFromFill, TerminalOrder
<1> QED BY <1>4, <1>5

(* An open position has lots, and a fill has.                              *)
LEMMA OpenHasLots ==
  ASSUME Base, NEW p \in PositionIds, positions[p].status = "OPEN"
  PROVE  positions[p].lots \in Nat /\ positions[p].lots > 0
<1>1. OpenedFromFill(p) /\ orders \in [OrderKeys -> OrderRow] /\ positions \in [PositionIds -> PositionRow]
  BY BaseFacts DEF BookedFromFills, Tables
<1>2. positions[p].lots \in 1..orders[positions[p].openKey].filled
      /\ positions[p].lots \in Nat /\ orders[positions[p].openKey].filled \in Nat
  <2>1. positions[p].openKey \in OrderKeys \cup {0} /\ positions[p].openKey # 0
    BY <1>1 DEF OpenedFromFill, PositionRow
  <2> QED BY <1>1, <2>1 DEF OpenedFromFill, PositionRow, OrderRow
<1> QED BY <1>2

LEMMA TradesFills ==
  ASSUME Base, Working, Trades
  PROVE  /\ sec.key \in OrderKeys /\ sec.ticker \in Tickers
         /\ sec.op \in {"open", "close"} /\ sec.lots \in Nat /\ sec.lots > 0
         /\ \A t \in Tickers \ {sec.ticker} : held'[t] = held[t]
         /\ held'[sec.ticker] = IF sec.op = "open" THEN held[sec.ticker] + sec.lots
                                                   ELSE held[sec.ticker] - sec.lots
         /\ brokerOrders'[sec.key].filled = sec.lots
         /\ \A j \in OrderKeys : j # sec.key => brokerOrders'[j] = brokerOrders[j]
         /\ \A t : \A j \in OrderKeys :
              /\ BoughtOn(t, j)' <=> \/ BoughtOn(t, j)
                                     \/ j = sec.key /\ t = sec.ticker /\ sec.op = "open"
              /\ SoldOn(t, j)' <=> \/ SoldOn(t, j)
                                   \/ j = sec.key /\ t = sec.ticker /\ sec.op = "close"
              /\ j = sec.key => ~BoughtOn(t, j) /\ ~SoldOn(t, j)
         /\ UNCHANGED <<dbVars, brokerStops>>
<1>1. /\ sec.at = "post" /\ sec.key \in OrderKeys /\ sec.ticker \in Tickers
      /\ sec.lots \in Nat /\ sec.lots > 0 /\ brokerOrders[sec.key].st = "NONE"
      /\ orders[sec.key].status = "SUBMITTING"
  BY BaseFacts DEF Trades, At, Located, KeyPlaces, InHand, LotsInHand, Posting, Section
<1>2. sec.op \in {"open", "close"}
  BY <1>1 DEF Working, Works, Placing
<1>3. /\ brokerOrders' = [brokerOrders EXCEPT ![sec.key] = Arrived("FILLED", sec.lots)]
      /\ held' = Moved(Arrived("FILLED", sec.lots), sec.lots)
      /\ UNCHANGED <<dbVars, brokerStops>> /\ positions' = positions
      /\ held \in [Tickers -> Nat] /\ brokerOrders \in [OrderKeys -> BrokerOrder]
  BY BaseFacts DEF Trades, dbVars
<1> DEFINE o == Arrived("FILLED", sec.lots)
<1>4. /\ o.st = "FILLED" /\ o.ticker = sec.ticker /\ o.filled = sec.lots
      /\ o.intent = IF sec.op = "open" THEN "ENTRY" ELSE "EXIT"
  BY DEF Arrived, IntentOf
<1> HIDE DEF o
<1>5. /\ brokerOrders'[sec.key] = o
      /\ \A j \in OrderKeys : j # sec.key => brokerOrders'[j] = brokerOrders[j]
  BY <1>1, <1>3 DEF o
<1>6. held' = Moved(o, sec.lots)
  BY <1>3 DEF o
<1>7. /\ \A t \in Tickers \ {sec.ticker} : held'[t] = held[t]
      /\ held'[sec.ticker] = IF sec.op = "open" THEN held[sec.ticker] + sec.lots
                                                ELSE held[sec.ticker] - sec.lots
  BY <1>1, <1>2, <1>3, <1>4, <1>6 DEF Moved
<1>8. Unbooked(sec.key)
  BY <1>1, SubmittingUnbooked
<1>9. ASSUME NEW t, NEW j \in OrderKeys
      PROVE  /\ BoughtOn(t, j)' <=> \/ BoughtOn(t, j)
                                    \/ j = sec.key /\ t = sec.ticker /\ sec.op = "open"
             /\ SoldOn(t, j)' <=> \/ SoldOn(t, j)
                                  \/ j = sec.key /\ t = sec.ticker /\ sec.op = "close"
             /\ j = sec.key => ~BoughtOn(t, j) /\ ~SoldOn(t, j)
  <2>1. CASE j = sec.key
    BY <1>1, <1>2, <1>3, <1>4, <1>5, <1>8, <2>1 DEF BoughtOn, SoldOn, Unbooked
  <2>2. CASE j # sec.key
    BY <1>3, <1>5, <2>2 DEF BoughtOn, SoldOn
  <2> QED BY <2>1, <2>2
<1> QED BY <1>1, <1>2, <1>3, <1>4, <1>5, <1>7, <1>9

(* An entry fills where nothing was held, an exit all that was held.       *)
LEMMA TradesAccount ==
  ASSUME Base, Working, Account, OpeningHand, ClosingHand, Trades
  PROVE  /\ Account'
         /\ sec.op = "open" => NoneOpen(sec.ticker) /\ held'[sec.ticker] = sec.lots
                               /\ \A j \in OrderKeys : ~BoughtOn(sec.ticker, j)
         /\ sec.op = "close" => /\ positions[sec.pos].status = "OPEN"
                                /\ IsOpen(sec.ticker, sec.pos) /\ held'[sec.ticker] = 0
                                /\ sec.pos \in PositionIds
<1>0. PICK t0 : t0 = sec.ticker
  OBVIOUS
<1>1. /\ sec.key \in OrderKeys /\ t0 \in Tickers
      /\ sec.op \in {"open", "close"} /\ sec.lots \in Nat /\ sec.lots > 0
      /\ \A t \in Tickers \ {t0} : held'[t] = held[t]
      /\ held'[t0] = IF sec.op = "open" THEN held[t0] + sec.lots ELSE held[t0] - sec.lots
      /\ brokerOrders'[sec.key].filled = sec.lots
      /\ \A j \in OrderKeys : j # sec.key => brokerOrders'[j] = brokerOrders[j]
      /\ positions' = positions
  BY <1>0, TradesFills DEF dbVars
<1>2. \A t : \A j \in OrderKeys :
        /\ BoughtOn(t, j)' <=> \/ BoughtOn(t, j)
                               \/ j = sec.key /\ t = t0 /\ sec.op = "open"
        /\ SoldOn(t, j)' <=> \/ SoldOn(t, j)
                             \/ j = sec.key /\ t = t0 /\ sec.op = "close"
        /\ j = sec.key => ~BoughtOn(t, j) /\ ~SoldOn(t, j)
  BY <1>0, TradesFills
<1>3. /\ sec.at = "post" /\ sec.op = "close" => sec.lots <= held[t0]
      /\ held[t0] \in Nat
  BY <1>0, <1>1, BaseFacts DEF Trades, At, CanTrade
<1>3a. sec.at = "post"
  BY DEF Trades, At
<1>4. /\ \A t, p : IsOpen(t, p)' <=> IsOpen(t, p)
      /\ \A t : NoneOpen(t)' <=> NoneOpen(t)
  BY <1>1 DEF IsOpen, NoneOpen
<1>5. \A t \in Tickers : Flat(t) /\ Bought(t) /\ Opened(t) /\ Sold(t)
  BY DEF Account
<1>6. ASSUME NEW t \in Tickers, t # t0
      PROVE  (Flat(t) /\ Bought(t) /\ Opened(t) /\ Sold(t))'
  <2>1. /\ \A j \in OrderKeys : /\ BoughtOn(t, j)' <=> BoughtOn(t, j)
                                /\ SoldOn(t, j)' <=> SoldOn(t, j)
                                /\ BoughtOn(t, j) => brokerOrders'[j] = brokerOrders[j]
        /\ held'[t] = held[t]
    BY <1>1, <1>2, <1>6
  <2>2. Flat(t)'
    BY <1>4, <1>5, <2>1 DEF Flat, NoneBought
  <2>3. Bought(t)'
    BY <1>4, <1>5, <2>1 DEF Bought
  <2>4. Opened(t)'
    BY <1>1, <1>4, <1>5, <2>1 DEF Opened
  <2>5. Sold(t)'
    BY <1>4, <1>5, <2>1 DEF Sold
  <2> QED BY <2>2, <2>3, <2>4, <2>5
<1>7. CASE sec.op = "open"
  <2>1. NoneOpen(t0) /\ (\A j \in OrderKeys : ~BoughtOn(t0, j)) /\ held[t0] = 0
    BY <1>0, <1>1, <1>3a, <1>5, <1>7 DEF OpeningHand, Flat, NoneBought
  <2>2. held'[t0] = sec.lots /\ NoneOpen(t0)'
    BY <1>1, <1>4, <1>7, <2>1
  <2>3. Flat(t0)'
    BY <1>1, <1>2, <1>7 DEF Flat, NoneBought
  <2>4. Bought(t0)'
    BY <1>1, <1>2, <1>7, <2>1, <2>2 DEF Bought
  <2>5. Opened(t0)'
    BY <2>2 DEF Opened, NoneOpen
  <2>6. Sold(t0)'
    BY <1>1, <1>2, <1>5, <1>7, <2>1 DEF Sold
  <2>7. Account'
    BY <1>6, <2>3, <2>4, <2>5, <2>6 DEF Account
  <2> QED BY <1>0, <1>7, <2>1, <2>2, <2>7
<1>8. CASE sec.op = "close"
  <2>1. /\ sec.pos \in PositionIds /\ positions[sec.pos].status = "OPEN"
        /\ sec.lots = positions[sec.pos].lots /\ positions[sec.pos].ticker = t0
    BY <1>0, <1>1, <1>3, <1>3a, <1>8, BaseFacts
       DEF ClosingHand, Leading, Located, InHand, PositionInHand
  <2>2. IsOpen(t0, sec.pos)
    BY <2>1 DEF IsOpen
  <2>3. held[t0] = sec.lots /\ \A q \in PositionIds : IsOpen(t0, q) => q = sec.pos
    BY <1>1, <1>3, <1>3a, <1>5, <1>8, <2>1, <2>2 DEF Opened
  <2>4. held'[t0] = 0
    BY <1>1, <1>8, <2>3
  <2>5. \A j \in OrderKeys : ~SoldOn(t0, j)
    BY <1>1, <1>5, <2>3 DEF Sold
  <2>6. ~NoneOpen(t0) /\ ~NoneOpen(t0)'
    BY <1>4, <2>1, <2>2 DEF NoneOpen
  <2>7. Flat(t0)'
    BY <2>6 DEF Flat
  <2>8. Bought(t0)'
    BY <1>1, <1>2, <1>5, <1>8, <2>6 DEF Bought
  <2>9. Opened(t0)'
    BY <1>1, <1>4, <1>5, <2>4 DEF Opened
  <2>10. Sold(t0)'
    BY <1>2, <2>4, <2>5, <2>6 DEF Sold
  <2>11. Account'
    BY <1>6, <2>7, <2>8, <2>9, <2>10 DEF Account
  <2> QED BY <1>0, <1>8, <2>1, <2>2, <2>4, <2>11
<1> QED BY <1>1, <1>7, <1>8

(* A stop that fires sells the position it stands for.                     *)
LEMMA FiresAccount ==
  ASSUME Base, StopMirrors, Account, Kept, NEW s \in StopKeys, StopFires(s)
  PROVE  /\ Account'
         /\ brokerStops[s].ticker \in Tickers /\ Stands(s)
         /\ held[brokerStops[s].ticker] > 0
         /\ held' = [held EXCEPT ![brokerStops[s].ticker] = 0]
         /\ brokerStops' = [brokerStops EXCEPT ![s] =
                              [@ EXCEPT !.st = "FIRED", !.sold = brokerStops[s].lots]]
         /\ UNCHANGED <<dbVars, brokerOrders, lock, sec, taskVars>>
<1>0. PICK t0, p0 : t0 = brokerStops[s].ticker /\ p0 = stops[s].position
  OBVIOUS
<1>1. /\ brokerStops[s].st = "LIVE" /\ brokerStops[s].lots <= held[t0]
      /\ UNCHANGED <<dbVars, brokerOrders, lock, sec, taskVars>>
      /\ positions' = positions /\ stops' = stops /\ brokerOrders' = brokerOrders
  BY <1>0 DEF StopFires, dbVars
<1>2. /\ held' = [held EXCEPT ![t0] = @ - brokerStops[s].lots]
      /\ brokerStops' = [brokerStops EXCEPT ![s] =
                           [@ EXCEPT !.st = "FIRED", !.sold = brokerStops[s].lots]]
  BY <1>0 DEF StopFires, Kept, Reliable
<1>3. Stands(s)
  BY <1>1, BaseFacts DEF LiveInHand
<1>4. p0 \in PositionIds /\ positions[p0].status = "OPEN" /\ positions[p0].ticker = t0
      /\ brokerStops[s].lots = positions[p0].lots
  BY <1>0, <1>1, <1>3, BaseFacts DEF Bound, StandingFits, StopMirrors, Base, Sized
<1>5. positions[p0].lots \in Nat /\ positions[p0].lots > 0
  BY <1>4, OpenHasLots
<1>6. t0 \in Tickers /\ held \in [Tickers -> Nat]
  BY <1>0, <1>1, BaseFacts DEF Known
<1>7. \A t \in Tickers : Flat(t) /\ Bought(t) /\ Opened(t) /\ Sold(t)
  BY DEF Account
<1>8. IsOpen(t0, p0) /\ ~NoneOpen(t0)
  BY <1>4 DEF IsOpen, NoneOpen
<1>9. held[t0] = positions[p0].lots
  BY <1>1, <1>4, <1>5, <1>6, <1>7, <1>8 DEF Opened
<1>10. held' = [held EXCEPT ![t0] = 0] /\ held'[t0] = 0 /\ held[t0] > 0
       /\ \A t \in Tickers \ {t0} : held'[t] = held[t]
  <2>1. brokerStops[s].lots = held[t0] /\ held[t0] \in Nat
    BY <1>4, <1>6, <1>9
  <2>2. held' = [held EXCEPT ![t0] = held[t0] - brokerStops[s].lots]
    BY <1>2
  <2>3. held[t0] - brokerStops[s].lots = 0 /\ held[t0] > 0
    BY <1>5, <1>9, <2>1
  <2> QED BY <1>6, <2>2, <2>3
<1>11. \A t, j : (BoughtOn(t, j)' <=> BoughtOn(t, j)) /\ (SoldOn(t, j)' <=> SoldOn(t, j))
  BY <1>1 DEF BoughtOn, SoldOn
<1>12. \A t, p : IsOpen(t, p)' <=> IsOpen(t, p)
  BY <1>1 DEF IsOpen
<1>13. \A t : (NoneOpen(t)' <=> NoneOpen(t)) /\ (NoneBought(t)' <=> NoneBought(t))
  BY <1>11, <1>12 DEF NoneOpen, NoneBought
<1>14. ASSUME NEW t \in Tickers PROVE (Flat(t) /\ Bought(t) /\ Opened(t) /\ Sold(t))'
  <2>1. held'[t] = IF t = t0 THEN 0 ELSE held[t]
    BY <1>10
  <2>2. Flat(t)'
    BY <1>7, <1>13, <2>1 DEF Flat
  <2>3. Bought(t)'
    BY <1>1, <1>7, <1>8, <1>11, <1>13, <2>1 DEF Bought
  <2>4. Opened(t)'
    BY <1>1, <1>7, <1>12, <2>1 DEF Opened
  <2>5. Sold(t)'
    BY <1>7, <1>11, <1>13, <2>1 DEF Sold
  <2> QED BY <2>2, <2>3, <2>4, <2>5
<1> QED BY <1>0, <1>1, <1>2, <1>3, <1>6, <1>10, <1>14 DEF Account

LEMMA OpensAccount ==
  ASSUME Base, Account, FillHand, Opens
  PROVE  /\ Account'
         /\ sec.at = "openRow" /\ sec'.at = "stopRecord" /\ sec'.op = sec.op
         /\ sec'.ticker = sec.ticker /\ NoneOpen(sec.ticker) /\ NoneSold(sec.ticker)
         /\ sec'.pos \in PositionIds /\ positions[sec'.pos].status = "ABSENT"
         /\ positions'[sec'.pos].lots = held[sec.ticker]
         /\ \A p \in PositionIds : p # sec'.pos => positions'[p] = positions[p]
         /\ \A t : \A p \in PositionIds :
              IsOpen(t, p)' <=> IsOpen(t, p) \/ (p = sec'.pos /\ t = sec.ticker)
         /\ \A t : \A j \in OrderKeys :
              /\ BoughtOn(t, j)' <=> BoughtOn(t, j) /\ j # sec.key
              /\ SoldOn(t, j)' <=> SoldOn(t, j)
         /\ UNCHANGED <<orders, stops, brokerVars, lock, taskVars>>
<1>0. PICK t0, p0, k0 : t0 = sec.ticker /\ p0 = sec'.pos /\ k0 = sec.key
  OBVIOUS
<1>1. /\ sec.at = "openRow" /\ sec'.at = "stopRecord" /\ sec'.op = sec.op /\ sec'.ticker = t0
      /\ k0 \in OrderKeys /\ p0 \in PositionIds /\ positions[p0].status = "ABSENT"
      /\ positions' = OpenRow(positions, p0, t0, orders[k0].filled, k0)
  <2>1. TypeInv
    BY BaseFacts
  <2>2. sec' # NoSection
    BY DEF Opens, NoSection
  <2> QED BY <1>0, <2>1, <2>2, OpenedSection DEF Opens
<1>2. /\ UNCHANGED <<orders, stops, brokerVars>>
      /\ held' = held /\ brokerOrders' = brokerOrders
      /\ positions \in [PositionIds -> PositionRow] /\ t0 \in Tickers
  BY <1>0, <1>1, BaseFacts DEF Opens, OpenFromFill, brokerVars, Tables, Located
<1>3. UNCHANGED <<lock, taskVars>>
  <2>1. ~Raise
    BY <1>1 DEF Raise, NoSection
  <2> QED BY <2>1 DEF Opens, OpenFromFill
<1>4. BoughtOn(t0, k0) /\ orders[k0].filled = brokerOrders[k0].filled
  BY <1>0, <1>1 DEF FillHand, Opening
<1>5. \A t \in Tickers : Flat(t) /\ Bought(t) /\ Opened(t) /\ Sold(t)
  BY DEF Account
<1>6. NoneOpen(t0) /\ held[t0] = orders[k0].filled
      /\ \A j \in OrderKeys : BoughtOn(t0, j) => j = k0
  BY <1>1, <1>2, <1>4, <1>5 DEF Bought
<1>7. NoneSold(t0)
  BY <1>2, <1>5, <1>6 DEF Sold, NoneSold
<1>8. /\ positions'[p0].status = "OPEN" /\ positions'[p0].ticker = t0
      /\ positions'[p0].lots = held[t0] /\ positions'[p0].openKey = k0
      /\ positions'[p0].closeKey = 0
      /\ \A p \in PositionIds : p # p0 => positions'[p] = positions[p]
  BY <1>1, <1>2, <1>6 DEF OpenRow
<1>9. /\ positions[p0].closeKey = 0 /\ positions[p0].openKey = 0
      /\ \A j \in OrderKeys : j # 0
  BY <1>1, BaseFacts, TableAssumption DEF RowsWhole, OrderKeys
<1>10. ASSUME NEW t, NEW p \in PositionIds
       PROVE  IsOpen(t, p)' <=> IsOpen(t, p) \/ (p = p0 /\ t = t0)
  BY <1>1, <1>8 DEF IsOpen
<1>11. ASSUME NEW t, NEW j \in OrderKeys
       PROVE  /\ BoughtOn(t, j)' <=> BoughtOn(t, j) /\ j # k0
              /\ SoldOn(t, j)' <=> SoldOn(t, j)
  <2>1. BoughtOn(t, j)' <=> BoughtOn(t, j) /\ j # k0
    BY <1>1, <1>2, <1>8, <1>9 DEF BoughtOn
  <2>2. SoldOn(t, j)' <=> SoldOn(t, j)
    BY <1>1, <1>2, <1>8, <1>9 DEF SoldOn
  <2> QED BY <2>1, <2>2
<1>12. ASSUME NEW t \in Tickers PROVE (Flat(t) /\ Bought(t) /\ Opened(t) /\ Sold(t))'
  <2>0. held'[t] = held[t] /\ brokerOrders' = brokerOrders
    BY <1>2
  <2>1. t # t0 => (NoneOpen(t)' <=> NoneOpen(t))
    BY <1>10 DEF NoneOpen
  <2>2. t # t0 => \A j \in OrderKeys : BoughtOn(t, j)' <=> BoughtOn(t, j)
    BY <1>4, <1>11 DEF BoughtOn
  <2>3. t = t0 => ~NoneOpen(t)' /\ \A j \in OrderKeys : ~BoughtOn(t, j)' /\ ~SoldOn(t, j)'
    BY <1>1, <1>6, <1>7, <1>10, <1>11 DEF NoneOpen, NoneSold
  <2>4. Flat(t)'
    BY <1>5, <2>0, <2>1, <2>2, <2>3 DEF Flat, NoneBought
  <2>5. Bought(t)'
    BY <1>5, <2>0, <2>1, <2>2, <2>3 DEF Bought
  <2>6. Opened(t)'
    <3>1. CASE t = t0
      BY <1>2, <1>6, <1>8, <1>10, <3>1 DEF Opened, NoneOpen
    <3>2. CASE t # t0
      <4>1. \A p \in PositionIds : /\ IsOpen(t, p)' <=> IsOpen(t, p)
                                   /\ IsOpen(t, p) => positions'[p] = positions[p]
        BY <1>1, <1>8, <1>10, <3>2 DEF IsOpen
      <4> QED BY <1>5, <2>0, <4>1 DEF Opened
    <3> QED BY <3>1, <3>2
  <2>7. Sold(t)'
    BY <1>5, <1>11, <2>0, <2>1, <2>3 DEF Sold
  <2> QED BY <2>4, <2>5, <2>6, <2>7
<1>13. Account'
  BY <1>12 DEF Account
<1>14. /\ NoneOpen(sec.ticker) /\ NoneSold(sec.ticker) /\ sec'.ticker = sec.ticker
       /\ sec'.pos \in PositionIds /\ positions[sec'.pos].status = "ABSENT"
       /\ positions'[sec'.pos].lots = held[sec.ticker]
       /\ \A p \in PositionIds : p # sec'.pos => positions'[p] = positions[p]
  BY <1>0, <1>1, <1>6, <1>7, <1>8
<1>15. \A t : \A p \in PositionIds :
         IsOpen(t, p)' <=> IsOpen(t, p) \/ (p = sec'.pos /\ t = sec.ticker)
  BY <1>0, <1>10
<1>16. \A t : \A j \in OrderKeys : /\ BoughtOn(t, j)' <=> BoughtOn(t, j) /\ j # sec.key
                                   /\ SoldOn(t, j)' <=> SoldOn(t, j)
  BY <1>0, <1>11
<1> QED BY <1>1, <1>2, <1>3, <1>13, <1>14, <1>15, <1>16

LEMMA ClosesAccount ==
  ASSUME Base, Account, FillHand, StopHand, Working, Closes
  PROVE  /\ Account'
         /\ sec.at = "closeRow" /\ sec'.at = "cooldown" /\ sec'.op = sec.op
         /\ sec'.ticker = sec.ticker /\ sec'.pos = sec.pos /\ sec.pos \in PositionIds
         /\ IsOpen(sec.ticker, sec.pos) /\ held[sec.ticker] = 0
         /\ \A p \in PositionIds : p # sec.pos => positions'[p] = positions[p]
         /\ positions'[sec.pos].status = "CLOSED"
         /\ positions'[sec.pos].ticker = sec.ticker
         /\ \A t : \A p \in PositionIds : IsOpen(t, p)' <=> IsOpen(t, p) /\ p # sec.pos
         /\ \A t : \A j \in OrderKeys :
              /\ BoughtOn(t, j)' <=> BoughtOn(t, j)
              /\ SoldOn(t, j)' <=> SoldOn(t, j) /\ j # sec.key
         /\ UNCHANGED <<orders, stops, brokerVars, lock, taskVars>>
<1>0. PICK t0, p0, k0 : t0 = sec.ticker /\ p0 = sec.pos /\ k0 = sec.key
  OBVIOUS
<1>1. /\ sec.at = "closeRow" /\ sec'.at = "cooldown" /\ p0 \in PositionIds /\ t0 \in Tickers
      /\ positions[p0].status = "OPEN" /\ positions[p0].ticker = t0
      /\ positions' = CloseRow(positions, p0, sec.trigger, k0)
      /\ positions \in [PositionIds -> PositionRow] /\ sec \in Section
  BY <1>0, BaseFacts
     DEF Closes, FinishClose, At, Located, PositionPlaces, InHand, PositionInHand, Tables
<1>2. /\ UNCHANGED <<orders, stops, brokerVars>>
      /\ held' = held /\ brokerOrders' = brokerOrders
  BY DEF Closes, FinishClose, brokerVars
<1>3. /\ sec' = [sec EXCEPT !.at = "cooldown"]
      /\ UNCHANGED <<lock, taskVars>>
  BY <1>1 DEF Closes, FinishClose, Raise, Goto, NoSection
<1>4. sec'.op = sec.op /\ sec'.ticker = t0 /\ sec'.pos = p0
  BY <1>0, <1>1, <1>3 DEF Section
<1>5. \A t \in Tickers : Flat(t) /\ Bought(t) /\ Opened(t) /\ Sold(t)
  BY DEF Account
<1>6. held[t0] = 0 /\ \A j \in OrderKeys : SoldOn(t0, j) => j = k0
  <2>1. CASE sec.op = "stop"
    BY <1>0, <1>1, <2>1 DEF StopHand, NoneSold
  <2>2. CASE sec.op # "stop"
    <3>1. SoldOn(t0, k0)
      BY <1>0, <1>1, <2>2 DEF FillHand, Closing
    <3>2. k0 \in OrderKeys
      BY <1>0, <1>1, BaseFacts DEF InHand, FillInHand, Closing
    <3> QED BY <1>1, <1>5, <3>1, <3>2 DEF Sold
  <2> QED BY <2>1, <2>2
<1>7. IsOpen(t0, p0) /\ \A q \in PositionIds : IsOpen(t0, q) => q = p0
  BY <1>1, <1>5 DEF Opened, IsOpen
<1>8. /\ positions'[p0].status = "CLOSED" /\ positions'[p0].ticker = t0
      /\ positions'[p0].openKey = positions[p0].openKey
      /\ positions'[p0].closeKey = k0
      /\ \A p \in PositionIds : p # p0 => positions'[p] = positions[p]
  BY <1>1 DEF CloseRow, PositionRow
<1>9. /\ positions[p0].closeKey = 0
      /\ \A j \in OrderKeys : j # 0
  BY <1>1, BaseFacts, TableAssumption DEF RowsWhole, OrderKeys
<1>10. ASSUME NEW t, NEW p \in PositionIds
       PROVE  IsOpen(t, p)' <=> IsOpen(t, p) /\ p # p0
  BY <1>1, <1>8 DEF IsOpen
<1>11. ASSUME NEW t, NEW j \in OrderKeys
       PROVE  /\ BoughtOn(t, j)' <=> BoughtOn(t, j)
              /\ SoldOn(t, j)' <=> SoldOn(t, j) /\ j # k0
  <2>1. BoughtOn(t, j)' <=> BoughtOn(t, j)
    BY <1>1, <1>2, <1>8 DEF BoughtOn
  <2>2. SoldOn(t, j)' <=> SoldOn(t, j) /\ j # k0
    BY <1>1, <1>2, <1>8, <1>9 DEF SoldOn
  <2> QED BY <2>1, <2>2
<1>12. ASSUME NEW t \in Tickers PROVE (Flat(t) /\ Bought(t) /\ Opened(t) /\ Sold(t))'
  <2>0. held'[t] = held[t] /\ brokerOrders' = brokerOrders
    BY <1>2
  <2>1. CASE t = t0
    <3>1. /\ \A p \in PositionIds : ~IsOpen(t, p)'
          /\ \A j \in OrderKeys : ~BoughtOn(t, j)' /\ ~SoldOn(t, j)'
      BY <1>1, <1>5, <1>6, <1>7, <1>10, <1>11, <2>1 DEF Bought, NoneOpen
    <3> QED BY <1>6, <2>0, <2>1, <3>1 DEF Flat, Bought, Opened, Sold
  <2>2. CASE t # t0
    <3>1. /\ \A p \in PositionIds : /\ IsOpen(t, p)' <=> IsOpen(t, p)
                                    /\ IsOpen(t, p) => positions'[p] = positions[p]
          /\ \A j \in OrderKeys : /\ BoughtOn(t, j)' <=> BoughtOn(t, j)
                                  /\ SoldOn(t, j)' <=> SoldOn(t, j)
      <4>1. ~IsOpen(t, p0)
        BY <1>1, <2>2 DEF IsOpen
      <4>2. \A p \in PositionIds : /\ IsOpen(t, p)' <=> IsOpen(t, p)
                                   /\ IsOpen(t, p) => positions'[p] = positions[p]
        BY <1>8, <1>10, <4>1
      <4>3. \A j \in OrderKeys : SoldOn(t, j) => j # k0
        <5>1. ASSUME SoldOn(t, k0), k0 \in OrderKeys PROVE FALSE
          <6>1. sec.op = "stop"
            BY <1>0, <1>1, <2>2, <5>1 DEF FillHand, Closing, SoldOn
          <6>2. orders[k0].ticker = t0
            BY <1>0, <1>1, BaseFacts DEF InHand, FillInHand, Closing
          <6>3. orders[k0].ticker = t
            BY <5>1, BaseFacts DEF WriteAhead, SoldOn
          <6> QED BY <2>2, <6>2, <6>3
        <5> QED BY <5>1
      <4> QED BY <1>11, <4>2, <4>3
    <3>2. NoneOpen(t)' <=> NoneOpen(t)
      BY <3>1 DEF NoneOpen
    <3>3. Flat(t)' /\ Bought(t)'
      BY <1>5, <2>0, <3>1, <3>2 DEF Flat, Bought, NoneBought
    <3>4. Opened(t)' /\ Sold(t)'
      BY <1>5, <2>0, <3>1, <3>2 DEF Opened, Sold
    <3> QED BY <3>3, <3>4
  <2> QED BY <2>1, <2>2
<1> QED BY <1>0, <1>1, <1>2, <1>3, <1>4, <1>6, <1>7, <1>8, <1>10, <1>11, <1>12 DEF Account

LEMMA CalmAccount ==
  ASSUME Account, Calm
  PROVE  Account'
<1> SUFFICES ASSUME NEW t \in Tickers PROVE (Flat(t) /\ Bought(t) /\ Opened(t) /\ Sold(t))'
  BY DEF Account
<1>1. /\ Flat(t) /\ Bought(t) /\ Opened(t) /\ Sold(t)
      /\ held' = held /\ \A p \in PositionIds : positions'[p].lots = positions[p].lots
  BY DEF Account, Calm
<1>2. Flat(t)' /\ Bought(t)'
  BY <1>1, CalmFills DEF Flat, Bought
<1>3. Opened(t)' /\ Sold(t)'
  BY <1>1, CalmFills DEF Opened, Sold
<1> QED BY <1>2, <1>3

LEMMA AccountStep ==
  ASSUME Base, Account, StopMirrors, Working, Hands, Kept, [Next]_vars
  PROVE  Account'
BY LotsMove, CalmAccount, TradesAccount, OpensAccount, ClosesAccount, FiresAccount DEF Hands

-----------------------------------------------------------------------------
(* Where the section moves. *)

LEMMA TurnsOn ==
  ASSUME Turns, sec.op # "replace"
  PROVE  /\ sec.at = "post" => sec'.at \in {"cancelOrder", "settleReply"}
         /\ sec.at = "query" => sec'.at \in {"cancelOrder", "settleReply"}
         /\ sec.at = "lookup" => sec'.at = "openRow"
         /\ sec.at = "stopRecord" => sec'.at = "stopPost"
         /\ sec.at = "stopPost" => sec'.at \in {"stopActivate", "stopFail"}
         /\ sec.at = "stopActivate" => sec'.at = "stopProtect"
         /\ sec.at = "stopFail" => sec'.at = "stopRecord"
         /\ sec.at = "cancelStop" => sec'.at \in {"cancelSettle", "demote"}
         /\ sec.at = "cancelSettle" => sec'.at = "demote"
         /\ sec.at = "demote" /\ sec.op = "close" => sec'.at = "recordIntent"
         /\ sec.at = "demote" /\ sec.op = "resolve" => sec'.at = "closeRow"
         /\ sec.at = "execSettle" => sec'.at = "execLocal"
         /\ sec.at = "execLocal" => sec'.at = "recordIntent"
         /\ sec.at = "closeRow" => sec'.at = "cooldown"
         /\ sec.at \notin {"none", "recordIntent", "settleReply", "openRow", "stopProtect",
                           "shrink", "cooldown"}
         /\ sec'.op = sec.op /\ sec'.ticker = sec.ticker /\ sec'.key = sec.key
         /\ sec'.pos = sec.pos /\ sec'.lots = sec.lots
<1>1. PICK turning \in Turnings :
        /\ Onward(turning[1], turning[2])
        /\ turning[2] = "closeRow" => sec.op = "resolve"
        /\ turning = <<"demote", "recordIntent">> => sec.op = "close"
        /\ turning = <<"demote", "stopRecord">> => sec.op = "replace"
  BY DEF Turns
<1>2. PICK from, to : turning = <<from, to>> /\ <<from, to>> \in Turnings
  BY <1>1 DEF Turnings
<1>3. /\ sec.at = from /\ sec'.at = to
      /\ to = "closeRow" => sec.op = "resolve"
      /\ <<from, to>> = <<"demote", "recordIntent">> => sec.op = "close"
      /\ <<from, to>> = <<"demote", "stopRecord">> => sec.op = "replace"
  BY <1>1, <1>2 DEF Onward
<1>4. /\ sec'.op = sec.op /\ sec'.ticker = sec.ticker /\ sec'.key = sec.key
      /\ sec'.pos = sec.pos /\ sec'.lots = sec.lots
  BY TurnsKeep
<1> QED BY <1>2, <1>3, <1>4 DEF Turnings

(* A settled answer: the lots named are the broker's, and what follows.    *)
LEMMA SettledGoes ==
  ASSUME TypeInv, SettleReply
  PROVE  /\ sec.at = "settleReply"
         /\ sec' # NoSection => /\ sec'.op = sec.op /\ sec'.ticker = sec.ticker
                                /\ sec'.key = sec.key
                                /\ sec'.at \in {"openRow", "lookup", "closeRow",
                                                "cancelStop", "shrink"}
                                /\ sec'.at = "openRow" => sec.op = "open" /\ sec.ans = "FILLED"
                                /\ sec'.at = "lookup" =>
                                     /\ sec.op = "resolve" /\ sec.ans = "FILLED"
                                     /\ orders[sec.key].intent = "ENTRY"
                                /\ sec'.at = "closeRow" =>
                                     /\ sec.op \in {"close", "stop"} /\ sec.ans = "FILLED"
                                     /\ sec'.pos = sec.pos
                                /\ sec'.at \in {"cancelStop", "shrink"} =>
                                     /\ sec.op = "resolve" /\ sec.got > 0
                                     /\ orders[sec.key].intent = "EXIT"
                                     /\ sec'.pos \in OpenOn(positions, sec.ticker)
<1>1. sec \in Section
  BY DEF TypeInv, TypeOK, SectionOK
<1>2. ASSUME sec' # NoSection
      PROVE  sec'.op = sec.op /\ sec'.ticker = sec.ticker /\ sec'.key = sec.key
  BY <1>1, <1>2, SettledSection DEF Section
<1>3. CASE sec' = NoSection
  BY <1>3, SettledSection
<1>4. CASE sec' # NoSection
  <2>1. CASE sec'.at = "closeRow"
    <3>1. sec' = [sec EXCEPT !.at = "closeRow"] /\ sec.op \in {"close", "stop"}
          /\ sec.ans = "FILLED" /\ sec.at = "settleReply"
      BY <1>4, <2>1, SettledSection
    <3>2. sec'.pos = sec.pos
      BY <1>1, <3>1 DEF Section
    <3> QED BY <1>2, <1>4, <2>1, <3>1, <3>2
  <2>2. CASE sec'.at # "closeRow"
    BY <1>2, <1>4, <2>2, SettledSection
  <2> QED BY <2>1, <2>2
<1> QED BY <1>3, <1>4

LEMMA BeginsAt ==
  ASSUME Begins
  PROVE  /\ sec'.at \in {"query", "execSettle", "cancelStop", "recordIntent"}
         /\ sec'.at = "query" => sec'.op = "resolve"
         /\ sec'.at = "execSettle" => sec'.op = "stop"
         /\ sec'.at = "cancelStop" => sec'.op = "close"
         /\ sec'.at = "recordIntent" => sec'.op \in {"close", "open"}
BY DEF Begins

LEMMA WorkingStep ==
  ASSUME Base, Working, Kept, [Next]_vars
  PROVE  Working'
<1>1. TypeInv /\ Prompt'
  BY BaseFacts, StepFacts
<1>2. CASE sec' = sec
  BY <1>2 DEF Working, Works
<1>3. CASE sec' = NoSection
  BY <1>3 DEF Working, Works, NoSection
<1>4. CASE Turns
  <2>1. sec.op # "replace"
    BY DEF Working
  <2>2. sec'.at # "cancelOrder"
    BY <1>1 DEF Prompt
  <2>3. sec'.op = sec.op
    BY <1>4, <2>1, TurnsOn
  <2>4. CASE sec.op = "open"
    BY <1>4, <2>1, <2>2, <2>3, <2>4, TurnsOn DEF Working, Works, Placing
  <2>5. CASE sec.op = "close"
    BY <1>4, <2>1, <2>2, <2>3, <2>5, TurnsOn DEF Working, Works, Placing
  <2>6. CASE sec.op = "stop"
    BY <1>4, <2>1, <2>2, <2>3, <2>6, TurnsOn DEF Working, Works, Placing
  <2>7. CASE sec.op = "resolve"
    BY <1>4, <2>1, <2>2, <2>3, <2>7, TurnsOn DEF Working, Works, Placing
  <2>8. CASE sec.op = "none"
    BY <1>4, <2>1, <2>8, TurnsOn DEF Working, Works
  <2> QED BY <2>4, <2>5, <2>6, <2>7, <2>8 DEF Working
<1>5. CASE Begins
  BY <1>5, BeginsAt DEF Working, Works
<1>6. CASE Records
  <2>1. /\ sec.at = "recordIntent" /\ sec'.at \in {"post", "settleReply"} /\ sec'.op = sec.op
        /\ sec'.at = "post" => sec.op # "stop"
    BY <1>1, <1>6, RecordedRow, RecordsSection
  <2> QED BY <2>1 DEF Working, Works, Placing
<1>7. CASE SettleReply
  <2>1. sec' # NoSection =>
          /\ sec'.op = sec.op
          /\ \/ sec'.at = "openRow" /\ sec.op = "open"
             \/ sec'.at = "lookup" /\ sec.op = "resolve"
             \/ sec'.at = "closeRow" /\ sec.op \in {"close", "stop"}
             \/ sec'.at = "cancelStop" /\ sec.op = "resolve"
    <3>1. sec'.at # "shrink"
      BY <1>1 DEF Prompt
    <3> QED BY <1>1, <1>7, <3>1, SettledGoes
  <2> QED BY <1>3, <2>1 DEF Working, Works
<1>8. CASE OpenFromFill
  <2>1. sec' # NoSection => sec.at = "openRow" /\ sec'.at = "stopRecord" /\ sec'.op = sec.op
    BY <1>1, <1>8, OpenedSection
  <2> QED BY <1>3, <2>1 DEF Working, Works, Placing
<1> QED BY <1>1, <1>2, <1>3, <1>4, <1>5, <1>6, <1>7, <1>8, SectionStep

-----------------------------------------------------------------------------
(* The broker's stops and their rows. *)

(* A row keeps its position and its lots, and is given up for good.        *)
LEMMA StopRowsMove ==
  ASSUME Base, Kept, [Next]_vars, NEW s \in StopKeys
  PROVE  \/ stops'[s] = stops[s] /\ (Stands(s)' => Stands(s))
         \/ /\ stops[s].status # "ABSENT" /\ stops'[s].status # "ABSENT"
            /\ stops'[s].position = stops[s].position /\ stops'[s].lots = stops[s].lots
            /\ Stands(s)' => Stands(s) /\ stops'[s].status # "PLACING"
            /\ stops'[s].status = "EXECUTED" =>
                 ExecSettle /\ stops[s].position = sec.pos
         \/ /\ StopRecord /\ stops[s].status = "ABSENT"
            /\ sec'.skey = s /\ sec'.at = "stopPost" /\ stops'[s].position = sec.pos
<1>1. /\ TypeInv /\ Bound /\ stops \in [StopKeys -> StopRow] /\ sec \in Section
      /\ sec.at \in StopPlaces => sec.skey \in StopKeys
  BY BaseFacts DEF Tables, Located
<1>2. ~StopRecord /\ Stands(s)' => Stands(s)
  BY StandsBefore DEF Base, LiveInv, Kept
<1>3. CASE StopRecord
  <2>1. PICK k \in StopKeys :
          /\ stops[k].status = "ABSENT"
          /\ stops' = [stops EXCEPT ![k] = [status |-> "PLACING", position |-> sec.pos,
                                            lots |-> positions[sec.pos].lots]]
          /\ sec' = [sec EXCEPT !.skey = k, !.at = "stopPost"]
    BY <1>3 DEF StopRecord, CanRecordPlacing, RecordPlacing
  <2>2. sec'.skey = k /\ sec'.at = "stopPost"
    BY <1>1, <2>1 DEF Section
  <2>3. CASE s = k
    BY <1>1, <1>3, <2>1, <2>2, <2>3
  <2>4. CASE s # k
    BY <1>1, <2>1, <2>2, <2>4 DEF Stands
  <2> QED BY <2>3, <2>4
<1>4. CASE StopActivate
  <2>1. sec.at = "stopActivate" /\ sec.skey \in StopKeys /\ stops[sec.skey].status = "PLACING"
    BY <1>1, <1>4 DEF StopActivate, At, StopPlaces, Bound, PlacedInHand, Placing
  <2>2. stops' = [stops EXCEPT ![sec.skey] = [@ EXCEPT !.status = "ACTIVE"]]
    BY <1>4 DEF StopActivate, Activate
  <2>3. ~StopRecord
    BY <2>1 DEF StopRecord, At
  <2> QED BY <1>2, <1>1, <2>1, <2>2, <2>3 DEF StopRow
<1>5. CASE StopFail \/ CancelSettle
  <2>1. PICK st \in {"FAILED", "CANCELLED"} : stops' = SettleStop(stops, sec.skey, st)
    BY <1>5 DEF StopFail, CancelSettle
  <2>2. ~StopRecord
    BY <1>5 DEF StopRecord, StopFail, CancelSettle, At
  <2> QED BY <1>2, <1>1, <2>1, <2>2 DEF SettleStop, CanSettleStop, Stands, StandingStop, StopRow
<1>6. CASE ExecSettle
  <2>1. /\ sec.at = "execSettle"
        /\ \/ stops' = stops
           \/ stops' = SettleStop(stops, positions[sec.pos].stopKey, "EXECUTED")
    BY <1>6 DEF ExecSettle, At
  <2>2. stops[positions[sec.pos].stopKey].position = sec.pos
    BY <1>1, <2>1 DEF Bound, TakenInHand
  <2>3. ~StopRecord
    BY <2>1 DEF StopRecord, At
  <2> QED BY <1>2, <1>1, <1>6, <2>1, <2>2, <2>3
           DEF SettleStop, CanSettleStop, Stands, StandingStop, StopRow
<1> QED BY <1>2, <1>3, <1>4, <1>5, <1>6, StopsStep

LEMMA StopMirrorsStep ==
  ASSUME Base, StopMirrors, Working, Kept, [Next]_vars
  PROVE  StopMirrors'
<1>1. /\ TypeInv /\ Bound /\ Tables /\ brokerStops \in [StopKeys -> BrokerStop]
      /\ Located /\ PositionInHand
  BY BaseFacts DEF InHand
<1>2. ASSUME NEW s \in StopKeys,
             /\ stops[s].status # "ABSENT" /\ stops[s].position \in PositionIds
             /\ positions[stops[s].position].status # "ABSENT"
      PROVE  /\ stops'[s].status # "ABSENT"
             /\ stops'[s].position = stops[s].position /\ stops'[s].lots = stops[s].lots
             /\ positions'[stops[s].position].status # "ABSENT"
             /\ positions'[stops[s].position].ticker = positions[stops[s].position].ticker
  <2>1. /\ stops'[s].status # "ABSENT"
        /\ stops'[s].position = stops[s].position /\ stops'[s].lots = stops[s].lots
    BY <1>2, StopRowsMove
  <2>2. /\ positions'[stops[s].position].status # "ABSENT"
        /\ positions'[stops[s].position].ticker = positions[stops[s].position].ticker
    BY <1>1, <1>2, PositionRowsStay
  <2> QED BY <2>1, <2>2
<1>3. ASSUME NEW s \in StopKeys,
             /\ stops[s].status # "ABSENT" /\ stops[s].position \in PositionIds
             /\ positions[stops[s].position].status # "ABSENT"
             /\ positions[stops[s].position].ticker = brokerStops'[s].ticker
             /\ brokerStops'[s].lots = stops[s].lots
             /\ brokerStops'[s].st = "FIRED" => brokerStops'[s].sold = brokerStops'[s].lots
      PROVE  /\ stops'[s].status # "ABSENT" /\ stops'[s].position \in PositionIds
             /\ positions'[stops'[s].position].status # "ABSENT"
             /\ positions'[stops'[s].position].ticker = brokerStops'[s].ticker
             /\ brokerStops'[s].lots = stops'[s].lots
             /\ brokerStops'[s].st = "FIRED" => brokerStops'[s].sold = brokerStops'[s].lots
  BY <1>2, <1>3
<1>4. ASSUME NEW s \in StopKeys, brokerStops'[s].st # "NONE"
      PROVE  /\ stops'[s].status # "ABSENT" /\ stops'[s].position \in PositionIds
             /\ positions'[stops'[s].position].status # "ABSENT"
             /\ positions'[stops'[s].position].ticker = brokerStops'[s].ticker
             /\ brokerStops'[s].lots = stops'[s].lots
             /\ brokerStops'[s].st = "FIRED" => brokerStops'[s].sold = brokerStops'[s].lots
  <2>1. CASE brokerStops'[s] = brokerStops[s]
    BY <1>3, <1>4, <2>1 DEF StopMirrors
  <2>2. CASE At("stopPost") /\ StopStands
    <3>1. /\ sec.skey \in StopKeys /\ sec.pos \in PositionIds
          /\ stops[sec.skey].position = sec.pos /\ stops[sec.skey].status = "PLACING"
          /\ positions[sec.pos].status = "OPEN" /\ positions[sec.pos].ticker = sec.ticker
      BY <1>1, <2>2 DEF At, Located, StopPlaces, PositionPlaces, Bound, PlacedInHand, Placing,
                        PositionInHand
    <3>2. s # sec.skey => brokerStops'[s] = brokerStops[s]
      BY <1>1, <2>2 DEF StopStands
    <3>3. s = sec.skey => /\ brokerStops'[s].st = "LIVE"
                          /\ brokerStops'[s].ticker = sec.ticker
                          /\ brokerStops'[s].lots = stops[s].lots
      BY <1>1, <2>2 DEF StopStands
    <3>4. CASE s = sec.skey
      BY <1>3, <3>1, <3>3, <3>4
    <3> QED BY <2>1, <3>2, <3>4
  <2>3. CASE \E j : brokerStops' = StopCancelled(j)
    <3>1. /\ brokerStops'[s].ticker = brokerStops[s].ticker
          /\ brokerStops'[s].lots = brokerStops[s].lots
          /\ brokerStops[s].st # "NONE"
          /\ brokerStops'[s] # brokerStops[s] => brokerStops'[s].st # "FIRED"
      BY <1>1, <1>4, <2>3 DEF StopCancelled, BrokerStop
    <3> QED BY <1>3, <2>1, <3>1 DEF StopMirrors
  <2>4. CASE \E j \in StopKeys : StopRefused(j)
    <3>1. /\ brokerStops'[s].ticker = brokerStops[s].ticker
          /\ brokerStops'[s].lots = brokerStops[s].lots
          /\ brokerStops[s].st # "NONE"
          /\ brokerStops'[s] # brokerStops[s] => brokerStops'[s].st # "FIRED"
      BY <1>1, <1>4, <2>4 DEF StopRefused, BrokerStop
    <3> QED BY <1>3, <2>1, <3>1 DEF StopMirrors
  <2>5. CASE \E j \in StopKeys : StopFires(j)
    <3>1. PICK j \in StopKeys : /\ brokerStops[j].st = "LIVE"
                                /\ brokerStops' = [brokerStops EXCEPT ![j] =
                                     [@ EXCEPT !.st = "FIRED", !.sold = brokerStops[j].lots]]
      BY <2>5 DEF StopFires, Kept, Reliable
    <3>2. brokerStops'[j] = [[brokerStops[j] EXCEPT !.st = "FIRED"] EXCEPT
                                !.sold = brokerStops[j].lots]
          /\ \A i \in StopKeys : i # j => brokerStops'[i] = brokerStops[i]
      BY <1>1, <3>1
    <3>3. /\ brokerStops'[j].ticker = brokerStops[j].ticker
          /\ brokerStops'[j].lots = brokerStops[j].lots
          /\ brokerStops'[j].sold = brokerStops'[j].lots
      BY <1>1, <3>2 DEF BrokerStop
    <3> QED BY <1>3, <2>1, <3>1, <3>2, <3>3 DEF StopMirrors
  <2>6. ASSUME NEW j \in StopKeys, StopSellsOn(j) PROVE FALSE
    BY <1>1, <2>6 DEF StopSellsOn, StopMirrors, BrokerStop
  <2> QED BY <2>1, <2>2, <2>3, <2>4, <2>5, <2>6, BrokerStopsStep
<1>5. ASSUME sec'.at = "stopPost" PROVE brokerStops'[sec'.skey].st = "NONE"
  <2>1. CASE StopRecord
    <3>1. /\ sec'.skey \in StopKeys /\ stops[sec'.skey].status = "ABSENT"
          /\ brokerStops' = brokerStops
      <4>1. \E k \in StopKeys : stops[k].status = "ABSENT"
                                /\ sec' = [sec EXCEPT !.skey = k, !.at = "stopPost"]
        BY <2>1 DEF StopRecord, CanRecordPlacing
      <4>2. brokerStops' = brokerStops
        BY <2>1 DEF StopRecord, brokerVars
      <4> QED BY <1>1, <4>1, <4>2 DEF Tables, Section
    <3> QED BY <3>1 DEF StopMirrors
  <2>2. CASE sec' = sec
    <3>1. /\ sec.at = "stopPost" /\ brokerStops[sec.skey].st = "NONE" /\ sec.skey \in StopKeys
      BY <1>1, <1>5, <2>2 DEF StopMirrors, Located, StopPlaces
    <3>2. ~(StopPost \/ StopPostLost)
      BY <1>1, <2>2, <3>1 DEF StopPost, StopPostLost, Goto, Tables, Section
    <3>3. CASE \E j : brokerStops' = StopCancelled(j)
      BY <1>1, <2>2, <3>1, <3>3 DEF StopCancelled
    <3>4. CASE \E j \in StopKeys : StopFires(j) \/ StopRefused(j) \/ StopSellsOn(j)
      <4>1. PICK j \in StopKeys : StopFires(j) \/ StopRefused(j) \/ StopSellsOn(j)
        BY <3>4
      <4>2. j # sec.skey
        BY <3>1, <4>1 DEF StopFires, StopRefused, StopSellsOn
      <4>3. brokerStops'[sec.skey] = brokerStops[sec.skey]
        BY <1>1, <3>1, <4>1, <4>2 DEF StopFires, StopRefused, StopSellsOn
      <4> QED BY <2>2, <3>1, <4>3
    <3> QED BY <2>2, <3>1, <3>2, <3>3, <3>4, BrokerStopsStep
  <2>3. CASE ~StopRecord
    <3>1. PICK k : k = sec'.skey
      OBVIOUS
    <3>2. TypeInv' /\ Bound'
      <4>1. Base'
        BY BaseStep
      <4> QED BY <4>1 DEF Base, LiveInv, StopsInv, BooksInv, Bound
    <3>3. k \in StopKeys /\ stops'[k].status = "PLACING"
      BY <1>5, <3>1, <3>2 DEF TypeInv, Located, StopPlaces, Bound, PlacedInHand, Placing
    <3>4. stops[k].status = "PLACING" /\ Stands(k)
      BY <1>5, <2>3, <3>1, <3>3, StopRowsMove DEF Stands, Placing
    <3>5. sec.at \in Placing
      BY <3>4 DEF Stands
    <3>6. sec' = sec
      <4>1. sec' # NoSection /\ sec.at \in {"stopPost", "stopActivate", "stopProtect", "stopFail"}
        BY <1>5, <3>5 DEF NoSection, Placing
      <4>2. sec.op # "replace"
        BY DEF Working
      <4>3. ~Turns
        BY <1>5, <4>1, <4>2, TurnsOn
      <4>4. ~Begins /\ ~Records /\ ~SettleReply /\ ~OpenFromFill
        BY <1>1, <4>1, RecordedRow, SettledGoes, OpenedSection, BeginsAt, <1>5
      <4> QED BY <1>1, <4>1, <4>3, <4>4, SectionStep
    <3> QED BY <2>2, <3>6
  <2> QED BY <2>1, <2>3
<1> QED BY <1>4, <1>5 DEF StopMirrors

-----------------------------------------------------------------------------
(* Which action a section at work takes next. *)

LEMMA ActsAt ==
  ASSUME Base, Kept, [Next]_vars, sec' # sec, sec.at # "none"
  PROVE  /\ sec.at = "recordIntent" => Records
         /\ sec.at = "post" => Post
         /\ sec.at = "settleReply" => SettleReply \/ SettleTwice
         /\ sec.at = "lookup" => Lookup \/ LookupFails
         /\ sec.at = "openRow" => OpenFromFill
         /\ sec.at = "stopRecord" => StopRecord \/ StopRecordRefused
         /\ sec.at = "stopPost" => StopPost \/ StopPostLost
         /\ sec.at = "stopActivate" => StopActivate
         /\ sec.at = "stopProtect" => StopProtect
         /\ sec.at = "stopFail" => StopFail \/ StopFailUnwritten
         /\ sec.at = "cancelStop" => CancelStop \/ CancelStopLost
         /\ sec.at = "cancelSettle" => CancelSettle \/ StopSettleFails
         /\ sec.at = "demote" => Demote
         /\ sec.at = "execSettle" => ExecSettle \/ StopSettleFails
         /\ sec.at = "execLocal" => ExecLocal
         /\ sec.at = "closeRow" => FinishClose
         /\ sec.at = "cooldown" => StartCooldown
<1>1. Holder \/ StopSettleFails \/ StopFailUnwritten
  <2>1. sec # NoSection
    BY DEF NoSection
  <2>2. (DbFails => StopSettleFails \/ StopFailUnwritten) /\ ~Begins
    BY <2>1, StepFacts
  <2> QED BY <2>2, BaseFacts, OthersBegin DEF Next, Process
<1>2. ASSUME RecordIntent \/ RecordNoLots \/ RecordExecution
      PROVE  sec.at = "recordIntent" /\ Records
  BY <1>2 DEF RecordIntent, RecordNoLots, RecordExecution, Records, At
<1>3. Post => sec.at = "post"
  BY DEF Post, PostFilled, PostRefused, PostLost, PostPending, PostPartial, PostCancelled, At
<1>4. /\ Query \/ QueryLost => sec.at = "query"
      /\ CancelOrder \/ CancelOrderLost => sec.at = "cancelOrder"
      /\ Reread \/ RereadLost => sec.at = "reread"
      /\ SettleReply \/ SettleTwice => sec.at = "settleReply"
  BY DEF Query, QueryLost, CancelOrder, CancelOrderLost, Reread, RereadLost, SettleReply,
         SettleTwice, At
<1>5. /\ Lookup \/ LookupFails => sec.at = "lookup"
      /\ OpenFromFill => sec.at = "openRow"
      /\ StopRecord \/ StopRecordRefused => sec.at = "stopRecord"
      /\ StopPost \/ StopPostLost => sec.at = "stopPost"
      /\ StopActivate => sec.at = "stopActivate"
      /\ StopProtect => sec.at = "stopProtect"
      /\ StopFail => sec.at = "stopFail"
  BY DEF Lookup, LookupFails, OpenFromFill, StopRecord, StopRecordRefused, StopPost,
         StopPostLost, StopActivate, StopProtect, StopFail, At
<1>6. /\ CancelStop \/ CancelStopLost => sec.at = "cancelStop"
      /\ CancelSettle => sec.at = "cancelSettle"
      /\ Demote => sec.at = "demote"
      /\ ExecSettle => sec.at = "execSettle"
      /\ ExecLocal => sec.at = "execLocal"
      /\ FinishClose => sec.at = "closeRow"
      /\ StartCooldown => sec.at = "cooldown"
      /\ Shrink => sec.at = "shrink"
  BY DEF CancelStop, CancelStopLost, CancelSettle, Demote, ExecSettle, ExecLocal,
         FinishClose, StartCooldown, Shrink, At
<1>7. /\ StopSettleFails => sec.at \in {"cancelSettle", "execSettle"}
      /\ StopFailUnwritten => sec.at = "stopFail"
  BY DEF StopSettleFails, StopFailUnwritten, At
<1> QED BY <1>1, <1>2, <1>3, <1>4, <1>5, <1>6, <1>7 DEF Holder

(* A stop's sale, once begun, is written down to the end, or not at all.   *)
LEMMA StopGoesOn ==
  ASSUME Base, Working, Hands, Kept, [Next]_vars, ~Closes,
         sec.op = "stop", sec.at # "cooldown", ~StopSettleFails
  PROVE  sec'.op = "stop" /\ sec'.at # "cooldown" /\ sec'.pos = sec.pos
<1>1. /\ sec \in Section /\ TypeInv
      /\ sec.at \in {"execSettle", "execLocal", "recordIntent", "settleReply", "closeRow"}
  BY BaseFacts DEF Working, Works
<1>2. CASE sec' = sec
  BY <1>2
<1>3. CASE sec' # sec /\ sec.at = "execSettle"
  <2>1. Goto("execLocal")
    BY <1>3, ActsAt DEF ExecSettle
  <2> QED BY <1>1, <2>1 DEF Goto, Section
<1>4. CASE sec' # sec /\ sec.at = "execLocal"
  <2>1. Goto("recordIntent")
    BY <1>4, ActsAt DEF ExecLocal
  <2> QED BY <1>1, <2>1 DEF Goto, Section
<1>5. CASE sec' # sec /\ sec.at = "recordIntent"
  <2>1. Records
    BY <1>5, ActsAt
  <2> QED BY <1>1, <2>1, RecordedRow
<1>6. CASE sec' # sec /\ sec.at = "settleReply"
  <2>1. sec.ans = "FILLED" /\ orders[sec.key].status = "SUBMITTING"
    BY <1>6 DEF Hands, StopHand, SubmitHand
  <2>2. SettleReply
    BY <1>6, <2>1, ActsAt DEF SettleTwice, CanSettle
  <2>3. Goto("closeRow")
    BY <2>1, <2>2 DEF SettleReply, AfterClose
  <2> QED BY <1>1, <2>3 DEF Goto, Section
<1>7. CASE sec' # sec /\ sec.at = "closeRow"
  <2>1. FinishClose
    BY <1>7, ActsAt
  <2>2. positions[sec.pos].status = "OPEN"
    BY <1>7 DEF Hands, SettlingHand, Closing
  <2>3. Closes
    BY <1>1, <2>1, <2>2 DEF FinishClose, CanClose, Closes, Goto, Section
  <2> QED BY <2>3
<1> QED BY <1>1, <1>2, <1>3, <1>4, <1>5, <1>6, <1>7

(* What a step can add: a sale or a purchase by the post that trades, an   *)
(* open position by the row written for it.                                *)
LEMMA FillsStep ==
  ASSUME Base, Account, StopMirrors, Working, Hands, Kept, [Next]_vars
  PROVE  /\ \A t \in Tickers : held[t] = 0 =>
              held'[t] = 0 \/ (Trades /\ sec.op = "open" /\ t = sec.ticker)
         /\ \A t : \A j \in OrderKeys : SoldOn(t, j)' =>
              SoldOn(t, j) \/ (Trades /\ sec.op = "close" /\ t = sec.ticker /\ j = sec.key)
         /\ \A t : \A j \in OrderKeys : BoughtOn(t, j)' =>
              BoughtOn(t, j) \/ (Trades /\ sec.op = "open" /\ t = sec.ticker /\ j = sec.key)
         /\ \A t : \A p \in PositionIds : IsOpen(t, p)' =>
              IsOpen(t, p) \/ (Opens /\ t = sec.ticker /\ p = sec'.pos)
         /\ \A t : \A p \in PositionIds : IsOpen(t, p) =>
              IsOpen(t, p)' \/ (Closes /\ t = sec.ticker /\ p = sec.pos)
<1>0. held \in [Tickers -> Nat] /\ OpeningHand /\ ClosingHand /\ FillHand /\ StopHand
  BY BaseFacts DEF Hands
<1>1. CASE Calm
  BY <1>1, CalmFills DEF Calm
<1>2. CASE Trades
  <2>1. positions' = positions
    BY <1>2, TradesFills DEF dbVars
  <2>2. \A t : \A p \in PositionIds : IsOpen(t, p)' <=> IsOpen(t, p)
    BY <2>1 DEF IsOpen
  <2>3. \A t \in Tickers : held[t] = 0 =>
          held'[t] = 0 \/ (Trades /\ sec.op = "open" /\ t = sec.ticker)
    BY <1>0, <1>2, TradesFills, TradesAccount
  <2> QED BY <1>2, <2>2, <2>3, TradesFills
<1>3. CASE Opens
  BY <1>0, <1>3, OpensAccount DEF brokerVars
<1>4. CASE Closes
  <2>1. \A t : \A p \in PositionIds : IsOpen(t, p) =>
          IsOpen(t, p)' \/ (Closes /\ t = sec.ticker /\ p = sec.pos)
    BY <1>0, <1>4, ClosesAccount DEF IsOpen
  <2> QED BY <1>0, <1>4, <2>1, ClosesAccount DEF brokerVars
<1>5. CASE \E s \in StopKeys : StopFires(s)
  <2>1. PICK s \in StopKeys : StopFires(s)
    BY <1>5
  <2>2. /\ held' = [held EXCEPT ![brokerStops[s].ticker] = 0]
        /\ positions' = positions /\ brokerOrders' = brokerOrders
    BY <2>1, FiresAccount DEF dbVars
  <2>3. /\ \A t : \A j \in OrderKeys : /\ BoughtOn(t, j)' <=> BoughtOn(t, j)
                                       /\ SoldOn(t, j)' <=> SoldOn(t, j)
        /\ \A t : \A p \in PositionIds : IsOpen(t, p)' <=> IsOpen(t, p)
    BY <2>2 DEF BoughtOn, SoldOn, IsOpen
  <2> QED BY <1>0, <2>2, <2>3
<1> QED BY <1>1, <1>2, <1>3, <1>4, <1>5, LotsMove

-----------------------------------------------------------------------------
(* A sale is explained, and leaves nothing that would sell again.          *)

LEMMA BrokerStopStays ==
  ASSUME Base, StopMirrors, [Next]_vars, NEW s \in StopKeys
  PROVE  /\ brokerStops[s].st = "FIRED" =>
              brokerStops'[s].st = "FIRED" /\ brokerStops'[s].ticker = brokerStops[s].ticker
         /\ brokerStops'[s].st = "FIRED" => brokerStops[s].st = "FIRED" \/ StopFires(s)
<1>1. brokerStops \in [StopKeys -> BrokerStop]
  BY BaseFacts
<1>2. CASE UNCHANGED brokerStops
  BY <1>2
<1>3. CASE At("stopPost") /\ StopStands
  <2>1. brokerStops[sec.skey].st = "NONE"
    BY <1>3 DEF At, StopMirrors
  <2>2. s = sec.skey \/ brokerStops'[s] = brokerStops[s]
    BY <1>1, <1>3 DEF StopStands
  <2>3. s = sec.skey => brokerStops'[s].st = "LIVE"
    BY <1>1, <1>3 DEF StopStands
  <2> QED BY <2>1, <2>2, <2>3
<1>4. CASE \E j : brokerStops' = StopCancelled(j)
  <2>1. PICK j : brokerStops' = StopCancelled(j)
    BY <1>4
  <2>2. CASE brokerStops'[s] = brokerStops[s]
    BY <2>2
  <2>3. CASE brokerStops'[s] # brokerStops[s]
    <3>1. brokerStops[s].st = "LIVE" /\ brokerStops'[s].st = "CANCELLED"
      BY <1>1, <2>1, <2>3 DEF StopCancelled, BrokerStop
    <3> QED BY <3>1
  <2> QED BY <2>2, <2>3
<1>5. CASE \E j \in StopKeys : StopFires(j) \/ StopRefused(j)
  <2>1. PICK j \in StopKeys : StopFires(j) \/ StopRefused(j)
    BY <1>5
  <2>2. brokerStops[j].st = "LIVE"
    BY <2>1 DEF StopFires, StopRefused
  <2>3. j = s \/ brokerStops'[s] = brokerStops[s]
    BY <1>1, <2>1 DEF StopFires, StopRefused
  <2>4. StopRefused(s) => brokerStops'[s].st = "VOID"
    BY <1>1 DEF StopRefused, BrokerStop
  <2> QED BY <2>1, <2>2, <2>3, <2>4
<1>6. ASSUME NEW j \in StopKeys, StopSellsOn(j) PROVE FALSE
  BY <1>1, <1>6 DEF StopSellsOn, StopMirrors, BrokerStop
<1> QED BY <1>2, <1>3, <1>4, <1>5, <1>6, BrokerStopsStep

(* An open position and its ticker's executed stops.                       *)
LEMMA SoldByStopStays ==
  ASSUME Base, StopMirrors, Account, Working, Hands, Kept, [Next]_vars,
         NEW t \in Tickers, NEW p \in PositionIds, IsOpen(t, p), SoldByStop(t)
  PROVE  SoldByStop(t)' \/ StopSelling(p)'
<1>1. PICK s \in StopKeys : /\ brokerStops[s].ticker = t /\ brokerStops[s].st = "FIRED"
                            /\ stops[s].status # "EXECUTED"
  BY DEF SoldByStop
<1>2. brokerStops'[s].ticker = t /\ brokerStops'[s].st = "FIRED"
  BY <1>1, BrokerStopStays
<1>3. CASE stops'[s].status # "EXECUTED"
  BY <1>2, <1>3 DEF SoldByStop
<1>4. CASE stops'[s].status = "EXECUTED"
  <2>1. ExecSettle /\ stops[s].position = sec.pos
    <3>1. stops[s].status # "ABSENT"
      BY <1>1 DEF StopMirrors
    <3> QED BY <1>1, <1>4, <3>1, StopRowsMove
  <2>2. sec.at = "execSettle" /\ sec.op = "stop"
    BY <2>1 DEF ExecSettle, At, Working, Works, Placing
  <2>3. sec.pos \in PositionIds /\ IsOpen(t, sec.pos)
    <3>1. positions[sec.pos].status = "OPEN"
      BY <2>2 DEF Hands, SettlingHand
    <3> QED BY <1>1, <2>1, <3>1 DEF StopMirrors, IsOpen
  <2>4. p = sec.pos
    BY <2>3 DEF Account, Opened
  <2>5. ~Closes
    BY <2>2 DEF Closes, FinishClose, At
  <2>6. ~StopSettleFails
    BY <1>1, <1>4 DEF StopSettleFails, dbVars
  <2> QED BY <2>2, <2>4, <2>5, <2>6, StopGoesOn DEF StopSelling
<1> QED BY <1>3, <1>4

LEMMA SaleExplainedStep ==
  ASSUME Base, StopMirrors, Account, Working, Hands, SaleExplained, Kept, [Next]_vars
  PROVE  SaleExplained'
<1> SUFFICES ASSUME NEW t \in Tickers, NEW p \in PositionIds,
                    IsOpen(t, p)', held'[t] # positions'[p].lots
             PROVE  (\E j \in OrderKeys : SoldOn(t, j)') \/ SoldByStop(t)' \/ StopSelling(p)'
  BY DEF SaleExplained, NoneSold
<1>0. OpeningHand /\ ClosingHand /\ FillHand /\ StopHand
  BY DEF Hands
<1>1. CASE Opens
  <2>1. t # sec.ticker /\ p # sec'.pos
    <3>1. IsOpen(t, p) => p # sec'.pos
      BY <1>0, <1>1, OpensAccount DEF IsOpen
    <3>2. p # sec'.pos
      BY <1>0, <1>1, <3>1, OpensAccount DEF brokerVars
    <3>3. IsOpen(t, p)
      BY <1>0, <1>1, <3>2, OpensAccount
    <3> QED BY <1>0, <1>1, <3>2, <3>3, OpensAccount DEF NoneOpen
  <2>2. /\ held' = held /\ positions'[p] = positions[p] /\ IsOpen(t, p)
        /\ stops' = stops /\ brokerStops' = brokerStops
        /\ \A j \in OrderKeys : SoldOn(t, j)' <=> SoldOn(t, j)
    BY <1>0, <1>1, <2>1, OpensAccount DEF brokerVars
  <2>3. ~StopSelling(p)
    <3>1. sec.op # "stop"
      BY <1>0, <1>1, OpensAccount DEF Working, Works
    <3> QED BY <3>1 DEF StopSelling
  <2> QED BY <2>2, <2>3 DEF SaleExplained, NoneSold, SoldByStop
<1>2. CASE Closes
  <2>1. IsOpen(t, p) /\ p # sec.pos
    BY <1>0, <1>2, ClosesAccount
  <2>2. t # sec.ticker /\ sec.ticker \in Tickers /\ sec.pos \in PositionIds
    <3>1. IsOpen(sec.ticker, sec.pos) /\ sec.pos \in PositionIds
      BY <1>0, <1>2, ClosesAccount
    <3>2. sec.ticker \in Tickers
      BY <1>0, <1>2, ClosesAccount, BaseFacts DEF Located
    <3> QED BY <2>1, <3>1, <3>2 DEF Account, Opened
  <2>3. /\ held' = held /\ positions'[p] = positions[p]
        /\ stops' = stops /\ brokerStops' = brokerStops
        /\ \A j \in OrderKeys : SoldOn(t, j)' <=> SoldOn(t, j) /\ j # sec.key
    BY <1>0, <1>2, <2>1, ClosesAccount DEF brokerVars
  <2>4. ~StopSelling(p)
    BY <2>1 DEF StopSelling
  <2>5. \A j \in OrderKeys : SoldOn(t, j) => j # sec.key
    <3>1. ASSUME SoldOn(t, sec.key), sec.key \in OrderKeys PROVE FALSE
      <4>1. sec.at = "closeRow"
        BY <1>2, <1>0, ClosesAccount
      <4>2. orders[sec.key].ticker = sec.ticker
        BY <4>1, BaseFacts DEF InHand, FillInHand, Closing
      <4>3. orders[sec.key].ticker = t
        BY <3>1, BaseFacts DEF WriteAhead, SoldOn
      <4> QED BY <2>2, <4>2, <4>3
    <3> QED BY <3>1
  <2> QED BY <2>1, <2>3, <2>4, <2>5 DEF SaleExplained, NoneSold, SoldByStop
<1>3. CASE Trades
  <2>1. /\ positions' = positions /\ stops' = stops /\ brokerStops' = brokerStops
        /\ sec.op \in {"open", "close"} /\ sec.key \in OrderKeys
    BY <1>3, TradesFills DEF dbVars
  <2>2. IsOpen(t, p)
    BY <2>1 DEF IsOpen
  <2>3. CASE t # sec.ticker
    <3>1. held'[t] = held[t] /\ \A j \in OrderKeys : SoldOn(t, j)' <=> SoldOn(t, j)
      BY <1>3, <2>3, TradesFills
    <3> QED BY <2>1, <2>2, <3>1 DEF SaleExplained, NoneSold, SoldByStop, StopSelling
  <2>4. CASE t = sec.ticker /\ sec.op = "open"
    BY <1>0, <1>3, <2>2, <2>4, TradesAccount DEF NoneOpen
  <2>5. CASE t = sec.ticker /\ sec.op = "close"
    BY <1>3, <2>1, <2>5, TradesFills
  <2> QED BY <2>1, <2>3, <2>4, <2>5
<1>4. CASE \E s \in StopKeys : StopFires(s)
  <2>1. PICK s \in StopKeys : StopFires(s)
    BY <1>4
  <2>2. /\ held' = [held EXCEPT ![brokerStops[s].ticker] = 0] /\ Stands(s)
        /\ brokerStops' = [brokerStops EXCEPT ![s] =
                             [@ EXCEPT !.st = "FIRED", !.sold = brokerStops[s].lots]]
        /\ positions' = positions /\ stops' = stops /\ brokerOrders' = brokerOrders
        /\ sec' = sec /\ brokerStops[s].st = "LIVE"
    BY <2>1, FiresAccount DEF dbVars, StopFires
  <2>3. held \in [Tickers -> Nat] /\ brokerStops \in [StopKeys -> BrokerStop]
    BY BaseFacts
  <2>4. /\ brokerStops'[s].st = "FIRED" /\ brokerStops'[s].ticker = brokerStops[s].ticker
        /\ stops'[s].status # "EXECUTED"
        /\ \A j \in StopKeys : j # s => brokerStops'[j] = brokerStops[j]
    <3>1. brokerStops'[s] = [[brokerStops[s] EXCEPT !.st = "FIRED"] EXCEPT
                               !.sold = brokerStops[s].lots]
          /\ \A j \in StopKeys : j # s => brokerStops'[j] = brokerStops[j]
      BY <2>2, <2>3
    <3>2. brokerStops'[s].st = "FIRED" /\ brokerStops'[s].ticker = brokerStops[s].ticker
      BY <2>3, <3>1 DEF BrokerStop
    <3> QED BY <2>2, <3>1, <3>2 DEF Stands, StandingStop
  <2>5. CASE t = brokerStops[s].ticker
    BY <2>4, <2>5 DEF SoldByStop
  <2>6. CASE t # brokerStops[s].ticker
    <3>1. held'[t] = held[t] /\ IsOpen(t, p)
      BY <2>2, <2>3, <2>6 DEF IsOpen
    <3>2. \A j \in OrderKeys : SoldOn(t, j)' <=> SoldOn(t, j)
      BY <2>2 DEF SoldOn
    <3>3. SoldByStop(t) => SoldByStop(t)'
      BY <2>2, <2>4, <2>6 DEF SoldByStop
    <3>4. StopSelling(p) => StopSelling(p)'
      BY <2>2 DEF StopSelling
    <3> QED BY <2>2, <3>1, <3>2, <3>3, <3>4 DEF SaleExplained, NoneSold
  <2> QED BY <2>5, <2>6
<1>5. CASE Calm /\ ~Closes
  <2>1. /\ IsOpen(t, p) /\ held'[t] = held[t] /\ positions'[p].lots = positions[p].lots
        /\ \A j \in OrderKeys : SoldOn(t, j)' <=> SoldOn(t, j)
    BY <1>5, CalmFills DEF Calm
  <2>2. SoldByStop(t) => SoldByStop(t)' \/ StopSelling(p)'
    BY <2>1, SoldByStopStays
  <2>3. ASSUME StopSelling(p), StopSettleFails PROVE SoldByStop(t)'
    <3>1. sec.at = "execSettle" /\ sec.pos = p /\ UNCHANGED stops /\ UNCHANGED brokerVars
      BY <2>3 DEF StopSelling, StopSettleFails, Working, Works, dbVars
    <3>2. PICK s \in StopKeys : s = positions[p].stopKey
      BY <3>1, BaseFacts DEF Bound, TakenInHand
    <3>3. brokerStops[s].st = "FIRED" /\ stops[s].position = p /\ stops[s].status # "EXECUTED"
      BY <2>1, <3>1, <3>2, BaseFacts
         DEF LiveInHand, Bound, TakenInHand, BoundToStop, BeingDemoted
    <3>4. brokerStops[s].ticker = t
      BY <2>1, <3>3 DEF StopMirrors, IsOpen
    <3> QED BY <3>1, <3>3, <3>4 DEF SoldByStop, brokerVars
  <2>4. StopSelling(p) => StopSelling(p)' \/ SoldByStop(t)'
    BY <1>5, <2>3, StopGoesOn DEF StopSelling
  <2> QED BY <2>1, <2>2, <2>4 DEF SaleExplained, NoneSold
<1> QED BY <1>1, <1>2, <1>3, <1>4, <1>5, LotsMove

LEMMA SoldBareStep ==
  ASSUME Base, StopMirrors, Account, Working, Hands, SoldBare, Kept, [Next]_vars
  PROVE  SoldBare'
<1> SUFFICES ASSUME NEW t \in Tickers, NEW k \in OrderKeys, NEW p \in PositionIds,
                    SoldOn(t, k)', IsOpen(t, p)', NEW s \in StopKeys, Stands(s)'
             PROVE  stops'[s].position # p
  BY DEF SoldBare, Bare
<1>0. OpeningHand /\ ClosingHand /\ FillHand /\ StopHand /\ PlaceHand
  BY DEF Hands
<1>1. IsOpen(t, p)
  <2>1. ASSUME Opens, t = sec.ticker PROVE FALSE
    BY <1>0, <2>1, OpensAccount DEF NoneSold
  <2> QED BY <2>1, FillsStep
<1>2. Bare(p)
  <2>1. CASE SoldOn(t, k)
    BY <1>1, <2>1 DEF SoldBare
  <2>2. CASE Trades /\ sec.op = "close" /\ t = sec.ticker
    <3>1. sec.pos \in PositionIds /\ IsOpen(t, sec.pos) /\ sec.at = "post"
      BY <1>0, <2>2, TradesAccount DEF Trades, At
    <3>2. p = sec.pos
      BY <1>1, <3>1 DEF Account, Opened
    <3> QED BY <2>2, <3>1, <3>2, BaseFacts DEF Bound, TakenInHand, Stripped
  <2> QED BY <2>1, <2>2, FillsStep
<1>3. CASE Stands(s) /\ stops'[s] = stops[s]
  BY <1>2, <1>3 DEF Bare
<1>4. CASE Stands(s) /\ stops'[s].position = stops[s].position
  BY <1>2, <1>4 DEF Bare
<1>5. CASE StopRecord /\ stops'[s].position = sec.pos
  <2>1. sec.at = "stopRecord" /\ positions[sec.pos].ticker = sec.ticker
    BY <1>5, BaseFacts DEF StopRecord, At, InHand, PositionInHand, PositionPlaces
  <2>2. ~Trades
    BY <2>1 DEF Trades, At
  <2>3. SoldOn(t, k)
    BY <2>2, FillsStep
  <2>4. t # sec.ticker
    BY <1>0, <2>1, <2>3 DEF PlaceHand, NoneSold
  <2> QED BY <1>1, <1>5, <2>1, <2>4 DEF IsOpen
<1> QED BY <1>3, <1>4, <1>5, StopRowsMove

LEMMA FiredHeldStep ==
  ASSUME Base, StopMirrors, Account, Working, Hands, FiredHeld, Kept, [Next]_vars
  PROVE  FiredHeld'
<1> SUFFICES ASSUME NEW s \in StopKeys, Stands(s)', brokerStops'[s].st = "FIRED"
             PROVE  held'[brokerStops'[s].ticker] = 0
  BY DEF FiredHeld
<1>1. CASE StopFires(s)
  <2>1. /\ held' = [held EXCEPT ![brokerStops[s].ticker] = 0]
        /\ brokerStops[s].ticker \in Tickers
        /\ brokerStops' = [brokerStops EXCEPT ![s] =
                             [@ EXCEPT !.st = "FIRED", !.sold = brokerStops[s].lots]]
    BY <1>1, FiresAccount
  <2>2. held \in [Tickers -> Nat] /\ brokerStops \in [StopKeys -> BrokerStop]
    BY BaseFacts
  <2>3. brokerStops'[s] = [[brokerStops[s] EXCEPT !.st = "FIRED"] EXCEPT
                             !.sold = brokerStops[s].lots]
    BY <2>1, <2>2
  <2>4. brokerStops'[s].ticker = brokerStops[s].ticker
    BY <2>2, <2>3 DEF BrokerStop
  <2> QED BY <2>1, <2>2, <2>4
<1>2. CASE brokerStops[s].st = "FIRED"
  <2>1. brokerStops'[s].ticker = brokerStops[s].ticker
    BY <1>2, BrokerStopStays
  <2>2. Stands(s)
    <3>1. stops[s].status # "ABSENT"
      BY <1>2 DEF StopMirrors
    <3> QED BY <3>1, StopRowsMove
  <2>3. brokerStops[s].ticker \in Tickers /\ held[brokerStops[s].ticker] = 0
    BY <1>2, <2>2, BaseFacts DEF FiredHeld, Known
  <2>4. ASSUME Trades, sec.op = "open", brokerStops[s].ticker = sec.ticker PROVE FALSE
    <3>1. stops[s].position \in PositionIds /\ IsOpen(sec.ticker, stops[s].position)
      BY <1>2, <2>2, <2>4, BaseFacts DEF Bound, StandingFits, StopMirrors, IsOpen
    <3>2. NoneOpen(sec.ticker)
      BY <2>4, TradesAccount DEF Hands
    <3> QED BY <3>1, <3>2 DEF NoneOpen
  <2> QED BY <2>1, <2>3, <2>4, FillsStep
<1> QED BY <1>1, <1>2, BrokerStopStays

-----------------------------------------------------------------------------
(* Every fill is followed to its booking. *)

LEMMA FilledAnswer ==
  ASSUME Base, SubmitHand, NEW k \in OrderKeys, brokerOrders[k].st = "FILLED",
         sec.at = "settleReply", sec.key = k, sec.op # "stop"
  PROVE  sec.ans = "FILLED" /\ sec.got > 0
<1>1. sec.got = brokerOrders[k].filled /\ brokerOrders[k].filled > 0
  BY BaseFacts DEF Answered, InHand, FilledHasLots
<1>2. sec.ans # "FILLED" => sec.got = 0
  BY DEF Base, Prompt
<1> QED BY <1>1, <1>2

(* The order in hand is the broker's.                                      *)
LEMMA OrderAtBroker ==
  ASSUME Base, sec.at \in {"post", "query", "settleReply"}, NEW k \in OrderKeys, sec.key = k,
         brokerOrders[k].st # "NONE"
  PROVE  /\ brokerOrders[k].ticker = sec.ticker
         /\ brokerOrders[k].intent = orders[k].intent
         /\ sec.op # "resolve" => brokerOrders[k].intent = IntentOf(sec.op)
BY BaseFacts DEF InHand, OrderInHand, OrderPlaces, WriteAhead

LEMMA OrdersStay ==
  ASSUME TypeInv, [Next]_vars, NEW k \in OrderKeys, orders[k].status # "ABSENT"
  PROVE  orders'[k] = orders[k] \/ (SettleReply /\ k = sec.key)
<1>1. orders \in [OrderKeys -> OrderRow]
  BY DEF TypeInv, TypeOK, TablesOK
<1>2. CASE RecordIntent \/ RecordNoLots \/ RecordExecution
  <2>1. \E j \in OrderKeys : \E n : NewRow(j, n)
    BY <1>2 DEF RecordIntent, RecordNoLots, RecordExecution
  <2> QED BY <1>1, <2>1 DEF NewRow, IsFresh, Unused, RecordSubmitting
<1>3. CASE SettleReply
  BY <1>1, <1>3 DEF SettleReply, Settle
<1> QED BY <1>2, <1>3, OrdersStep

LEMMA BoughtFollowed ==
  ASSUME Base, StopMirrors, Account, Working, Hands, Followed, Kept, [Next]_vars,
         NEW t \in Tickers, NEW k \in OrderKeys, BoughtOn(t, k)'
  PROVE  orders'[k].status = "SUBMITTING" \/ (Opening /\ sec.key = k)'
<1>0. TypeInv /\ FillHand /\ OpeningHand
  BY BaseFacts DEF Hands
<1>1. CASE Trades /\ k = sec.key
  <2>1. orders' = orders /\ orders[k].status = "SUBMITTING"
    BY <1>1, TradesFills, BaseFacts DEF dbVars, Posting, Trades, At
  <2> QED BY <2>1
<1>2. CASE BoughtOn(t, k) /\ ~(Trades /\ k = sec.key)
  <2>1. brokerOrders[k].st = "FILLED" /\ brokerOrders[k].intent = "ENTRY"
        /\ orders[k].status # "ABSENT" /\ NoneOpen(t) /\ brokerOrders[k].ticker = t
    BY <1>2, BaseFacts DEF BoughtOn, Account, Bought, WriteAhead
  <2>2. CASE orders[k].status = "SUBMITTING"
    <3>1. CASE orders'[k] = orders[k]
      BY <2>2, <3>1
    <3>2. CASE SettleReply /\ k = sec.key
      <4>1. sec.at = "settleReply"
        BY <1>0, <3>2, SettledGoes
      <4>2. /\ sec.ticker = t /\ orders[k].intent = "ENTRY"
            /\ sec.op # "resolve" => IntentOf(sec.op) = "ENTRY"
        BY <2>1, <3>2, <4>1, OrderAtBroker
      <4>3. sec.op \in {"open", "resolve"}
        BY <4>1, <4>2 DEF Working, Works, IntentOf
      <4>4. sec.ans = "FILLED"
        BY <2>1, <3>2, <4>1, <4>3, FilledAnswer DEF Hands
      <4>5. OpenOn(positions, sec.ticker) = {}
        BY <2>1, <4>2, BaseFacts DEF OpenOn, NoneOpen, IsOpen, Tables
      <4>6. Goto("openRow") \/ Goto("lookup")
        BY <3>2, <4>2, <4>3, <4>4, <4>5 DEF SettleReply, AfterOpen, AfterResolve
      <4>7. (sec'.at = "openRow" \/ sec'.at = "lookup") /\ sec'.key = k
        BY <3>2, <4>6, BaseFacts DEF Goto, Section
      <4> QED BY <4>7 DEF Opening
    <3> QED BY <1>0, <2>1, <3>1, <3>2, OrdersStay
  <2>3. CASE Opening /\ sec.key = k
    <3>1. CASE sec' = sec
      BY <2>3, <3>1 DEF Opening
    <3>2. CASE sec' # sec /\ sec.at = "lookup"
      <4>1. Lookup
        BY <3>2, ActsAt DEF LookupFails, Kept, Reliable
      <4>2. sec'.at = "openRow" /\ sec'.key = k
        BY <2>3, <4>1, BaseFacts DEF Lookup, Goto, Section
      <4> QED BY <4>2 DEF Opening
    <3>3. CASE sec' # sec /\ sec.at = "openRow"
      <4>1. OpenFromFill
        BY <3>3, ActsAt
      <4>2. BoughtOn(sec.ticker, k) /\ sec.ticker = t
        BY <2>1, <2>3 DEF Hands, FillHand, BoughtOn
      <4>3. OpenOn(positions, sec.ticker) = {}
        BY <2>1, <4>2, BaseFacts DEF OpenOn, NoneOpen, IsOpen, Tables
      <4>4. ~UNCHANGED positions
        <5>1. PICK p \in PositionIds :
                /\ positions[p].status = "ABSENT"
                /\ positions' = OpenRow(positions, p, sec.ticker, orders[sec.key].filled, sec.key)
          BY <4>1, <4>3 DEF OpenFromFill, IsFresh, Unused, OpenOn
        <5>2. positions'[p].status = "OPEN"
          BY <5>1, BaseFacts DEF OpenRow, Tables
        <5> QED BY <5>1, <5>2
      <4>5. Opens
        BY <1>0, <4>1, <4>4, OpenedSection DEF Opens
      <4>6. ~BoughtOn(t, k)'
        BY <1>0, <2>3, <4>5, OpensAccount
      <4> QED BY <4>6
    <3> QED BY <2>3, <3>1, <3>2, <3>3 DEF Opening
  <2> QED BY <1>2, <2>2, <2>3 DEF Followed
<1> QED BY <1>1, <1>2, FillsStep

LEMMA SoldFollowed ==
  ASSUME Base, StopMirrors, Account, Working, Hands, Followed, SoldBare, Kept, [Next]_vars,
         "db" \notin Faults, NEW t \in Tickers, NEW k \in OrderKeys, SoldOn(t, k)'
  PROVE  orders'[k].status = "SUBMITTING" \/ (Closing /\ sec.op # "stop" /\ sec.key = k)'
<1>0. TypeInv /\ sec \in Section /\ FillHand /\ StopHand /\ SettlingHand
  BY BaseFacts DEF Hands
<1>1. CASE Trades /\ k = sec.key
  <2>1. orders' = orders /\ orders[k].status = "SUBMITTING"
    BY <1>1, TradesFills, BaseFacts DEF dbVars, Posting, Trades, At
  <2> QED BY <2>1
<1>2. CASE SoldOn(t, k) /\ ~(Trades /\ k = sec.key)
  <2>1. brokerOrders[k].st = "FILLED" /\ brokerOrders[k].intent = "EXIT"
        /\ orders[k].status # "ABSENT" /\ ~NoneOpen(t) /\ brokerOrders[k].ticker = t
    BY <1>2, BaseFacts DEF SoldOn, Account, Sold, WriteAhead
  <2>2. CASE orders[k].status = "SUBMITTING"
    <3>1. CASE orders'[k] = orders[k]
      BY <2>2, <3>1
    <3>2. CASE SettleReply /\ k = sec.key
      <4>1. sec.at = "settleReply"
        BY <1>0, <3>2, SettledGoes
      <4>2. /\ sec.ticker = t /\ orders[k].intent = "EXIT"
            /\ sec.op # "resolve" => IntentOf(sec.op) = "EXIT"
        BY <2>1, <3>2, <4>1, OrderAtBroker
      <4>3. sec.op # "stop"
        BY <1>0, <1>2, <4>1, <4>2 DEF StopHand, NoneSold
      <4>4. sec.op \in {"close", "resolve"}
        BY <4>1, <4>2, <4>3 DEF Working, Works, IntentOf
      <4>5. sec.ans = "FILLED" /\ sec.got > 0
        BY <2>1, <3>2, <4>1, <4>3, FilledAnswer DEF Hands
      <4>6. OpenOn(positions, sec.ticker) # {}
        BY <2>1, <4>2, BaseFacts DEF OpenOn, NoneOpen, IsOpen, Tables
      <4>7. CASE sec.op = "close"
        <5>1. Goto("closeRow")
          BY <3>2, <4>5, <4>7 DEF SettleReply, AfterClose
        <5>2. sec'.at = "closeRow" /\ sec'.key = k /\ sec'.op = "close"
          BY <1>0, <3>2, <4>7, <5>1 DEF Goto, Section
        <5> QED BY <5>2 DEF Closing
      <4>8. CASE sec.op = "resolve"
        <5>1. \E p \in PositionIds : sec' = [sec EXCEPT !.pos = p, !.at = "cancelStop"]
          <6>1. AfterResolve /\ sec.got # 0
            BY <1>0, <3>2, <4>5, <4>8 DEF SettleReply
          <6> QED BY <3>2, <4>2, <4>5, <4>6, <6>1 DEF AfterResolve
        <5>2. sec'.at = "cancelStop" /\ sec'.key = k /\ sec'.op = "resolve"
          BY <1>0, <3>2, <4>8, <5>1 DEF Section
        <5> QED BY <5>2 DEF Closing
      <4> QED BY <4>4, <4>7, <4>8
    <3> QED BY <1>0, <2>1, <3>1, <3>2, OrdersStay
  <2>3. CASE Closing /\ sec.op # "stop" /\ sec.key = k
    <3>1. CASE sec' = sec
      BY <2>3, <3>1 DEF Closing
    <3>2. positions[sec.pos].status = "OPEN" /\ SoldOn(sec.ticker, k) /\ sec.ticker = t
      <4>1. SoldOn(sec.ticker, k)
        BY <1>0, <2>3 DEF FillHand
      <4>2. positions[sec.pos].status = "OPEN"
        BY <1>0, <2>3 DEF SettlingHand
      <4> QED BY <2>1, <4>1, <4>2 DEF SoldOn
    <3>3. CASE sec' # sec /\ sec.at = "closeRow"
      <4>1. FinishClose
        BY <3>3, ActsAt
      <4>2. Closes
        BY <1>0, <3>2, <3>3, <4>1 DEF FinishClose, CanClose, Closes, Goto, Section
      <4>3. ~SoldOn(t, k)'
        BY <1>0, <2>3, <4>2, ClosesAccount
      <4> QED BY <4>3
    <3>4. CASE sec' # sec /\ sec.op = "resolve" /\ sec.at = "cancelStop"
      <4>1. /\ sec.pos \in PositionIds /\ positions[sec.pos].ticker = sec.ticker
        BY <3>4, BaseFacts DEF Located, PositionPlaces, InHand, PositionInHand
      <4>2. Bare(sec.pos)
        BY <3>2, <4>1, BaseFacts DEF SoldBare, IsOpen, Located
      <4>3. ~CancelStopLost
        BY <4>2, BaseFacts DEF CancelStopLost, ActiveForPosition, Bare, Stands, Tables
      <4>4. CancelStop
        BY <3>4, <4>3, ActsAt
      <4>5. sec'.at \in {"demote", "cancelSettle"} /\ sec'.key = k /\ sec'.op = "resolve"
        BY <1>0, <2>3, <3>4, <4>4 DEF CancelStop, Goto, Section
      <4> QED BY <4>5 DEF Closing
    <3>5. CASE sec' # sec /\ sec.op = "resolve" /\ sec.at = "cancelSettle"
      <4>1. CancelSettle
        BY <3>5, ActsAt DEF StopSettleFails
      <4>2. sec'.at = "demote" /\ sec'.key = k /\ sec'.op = "resolve"
        BY <1>0, <2>3, <3>5, <4>1 DEF CancelSettle, Goto, Section
      <4> QED BY <4>2 DEF Closing
    <3>6. CASE sec' # sec /\ sec.op = "resolve" /\ sec.at = "demote"
      <4>1. Demote
        BY <3>6, ActsAt
      <4>2. Goto("closeRow")
        BY <3>6, <4>1 DEF Demote
      <4>3. sec'.at = "closeRow" /\ sec'.key = k /\ sec'.op = "resolve"
        BY <1>0, <2>3, <3>6, <4>2 DEF Goto, Section
      <4> QED BY <4>3 DEF Closing
    <3> QED BY <2>3, <3>1, <3>3, <3>4, <3>5, <3>6 DEF Closing
  <2> QED BY <1>2, <2>2, <2>3 DEF Followed
<1> QED BY <1>1, <1>2, FillsStep

LEMMA FollowedStep ==
  ASSUME Base, StopMirrors, Account, Working, Hands, Followed, SoldBare, Kept, [Next]_vars
  PROVE  Followed'
BY BoughtFollowed, SoldFollowed DEF Followed

-----------------------------------------------------------------------------
(* How the section comes to what it has in hand. *)

LEMMA SectionMoves ==
  ASSUME Base, Working, Kept, [Next]_vars
  PROVE  \/ sec' = sec \/ sec' = NoSection
         \/ (Turns /\ sec.op # "replace")
         \/ (Begins /\ sec = NoSection)
         \/ Records \/ SettleReply \/ Opens
<1>1. TypeInv
  BY BaseFacts
<1>2. sec.op # "replace"
  BY DEF Working
<1>3. OpenFromFill => sec' = NoSection \/ Opens
  BY <1>1, OpenedSection DEF Opens
<1> QED BY <1>1, <1>2, <1>3, SectionStep, StepFacts

LEMMA HolderAt ==
  ASSUME Holder
  PROVE  lock \in Tasks /\ sec.at # "none"
<1>1. PICK place \in Places \ {"none"} : At(place)
  <2>1. CASE RecordIntent \/ RecordNoLots \/ RecordExecution
    BY <2>1 DEF RecordIntent, RecordNoLots, RecordExecution, Places
  <2>2. CASE Post
    BY <2>2 DEF Post, PostFilled, PostRefused, PostLost, PostPending, PostPartial,
                PostCancelled, Places
  <2>3. CASE Query \/ QueryLost \/ CancelOrder \/ CancelOrderLost \/ Reread \/ RereadLost
    BY <2>3 DEF Query, QueryLost, CancelOrder, CancelOrderLost, Reread, RereadLost, Places
  <2>4. CASE SettleReply \/ SettleTwice \/ Lookup \/ LookupFails \/ OpenFromFill
    BY <2>4 DEF SettleReply, SettleTwice, Lookup, LookupFails, OpenFromFill, Places
  <2>5. CASE StopRecord \/ StopRecordRefused \/ StopPost \/ StopPostLost \/ StopActivate
             \/ StopProtect \/ StopFail
    BY <2>5 DEF StopRecord, StopRecordRefused, StopPost, StopPostLost, StopActivate,
                StopProtect, StopFail, Places
  <2>6. CASE \/ CancelStop \/ CancelStopLost \/ CancelSettle \/ Demote \/ ExecSettle
             \/ ExecLocal \/ FinishClose \/ StartCooldown \/ Shrink
    BY <2>6 DEF CancelStop, CancelStopLost, CancelSettle, Demote, ExecSettle, ExecLocal,
                FinishClose, StartCooldown, Shrink, Places
  <2> QED BY <2>1, <2>2, <2>3, <2>4, <2>5, <2>6 DEF Holder
<1> QED BY <1>1 DEF At

(* A close begins with a position the cycle has read.                      *)
LEMMA BegunBy ==
  ASSUME Base, Kept, [Next]_vars, Begins
  PROVE  /\ sec = NoSection /\ sec'.at # "none" /\ UNCHANGED <<dbVars, brokerVars>>
         /\ sec'.op = "close" =>
              \E r \in cycle.book : r.pos = sec'.pos /\ ReadPosition(r.pos)
         /\ sec'.op = "stop" =>
              /\ ReadPosition(sec'.pos)
              /\ \E s \in StopKeys : /\ stops[s].status = "ACTIVE"
                                     /\ stops[s].position = sec'.pos
                                     /\ brokerStops[s].st = "FIRED"
         /\ sec'.op = "open" => sec'.ticker \in Tickers /\ BeginOpen(sec'.ticker)
<1>1. sec = NoSection /\ sec'.at # "none" /\ UNCHANGED <<dbVars, brokerVars>> /\ ~DbFails
  <2>1. sec = NoSection
    BY StepFacts
  <2>2. ~StopSettleFails /\ ~StopFailUnwritten
    BY <2>1 DEF NoSection, StopSettleFails, StopFailUnwritten, At
  <2> QED BY <2>1, <2>2, StepFacts, BeginsAt DEF Begins
<1>2. sec' # sec
  BY <1>1 DEF NoSection
<1>3. Trading \/ Drain
  <2>1. ~Holder
    BY <1>1, HolderAt DEF NoSection
  <2> QED BY <1>1, <1>2, <2>1, QuietEnvironment DEF Next, Process, vars
<1>4. sec'.op = "close" => \E r \in cycle.book : r.pos = sec'.pos /\ ReadPosition(r.pos)
  <2> SUFFICES ASSUME sec'.op = "close"
               PROVE  \E r \in cycle.book : r.pos = sec'.pos /\ ReadPosition(r.pos)
    OBVIOUS
  <2>1. ReadPosition(sec'.pos)
    BY DEF Begins
  <2>2. PICK r \in cycle.book, trigger \in Triggers : BeginClose(r, trigger)
    <3>1. sec' # sec /\ sec'.op = "close"
      BY <1>2
    <3>2. ~BeginResolve("trading") /\ ~BeginResolve("drain")
      BY <3>1 DEF BeginResolve, Enter, NoSection
    <3>3. \A r \in cycle.book : ~BeginCloseExecuted(r)
      BY <3>1 DEF BeginCloseExecuted, Enter, NoSection
    <3>4. \A t \in Tickers : ~BeginOpen(t)
      BY <3>1 DEF BeginOpen, Enter, NoSection
    <3>5. ~StartCycle /\ ~ReadBook /\ ~ToExits /\ ~ToEntries /\ ~EndCycle
      BY <3>1 DEF StartCycle, ReadBook, ToExits, ToEntries, EndCycle
    <3>6. ~Signal /\ ~DrainPoll /\ ~DrainPolled
      BY <3>1 DEF Signal, DrainPoll, DrainPolled
    <3> QED BY <1>3, <3>2, <3>3, <3>4, <3>5, <3>6 DEF Trading, Drain
  <2>3. sec'.pos = r.pos
    BY <2>2 DEF BeginClose, Enter, NoSection
  <2> QED BY <2>1, <2>3
<1>5. sec'.op = "stop" =>
        /\ ReadPosition(sec'.pos)
        /\ \E s \in StopKeys : /\ stops[s].status = "ACTIVE"
                               /\ stops[s].position = sec'.pos
                               /\ brokerStops[s].st = "FIRED"
  BY DEF Begins
<1>6. sec'.op = "open" => sec'.ticker \in Tickers /\ BeginOpen(sec'.ticker)
  BY DEF Begins
<1> QED BY <1>1, <1>4, <1>5, <1>6

(* A fill waits until its own position is opened or closed.                *)
LEMMA FillsStay ==
  ASSUME Base, Account, StopMirrors, Working, Hands, Kept, [Next]_vars
  PROVE  \A t : \A k \in OrderKeys :
           /\ BoughtOn(t, k) /\ ~Opens => BoughtOn(t, k)' /\ brokerOrders'[k] = brokerOrders[k]
           /\ SoldOn(t, k) /\ ~Closes => SoldOn(t, k)'
<1> SUFFICES ASSUME NEW t, NEW k \in OrderKeys
             PROVE  /\ BoughtOn(t, k) /\ ~Opens =>
                         BoughtOn(t, k)' /\ brokerOrders'[k] = brokerOrders[k]
                    /\ SoldOn(t, k) /\ ~Closes => SoldOn(t, k)'
  OBVIOUS
<1>1. CASE Calm
  BY <1>1, CalmFills
<1>2. CASE Trades
  <2>1. /\ BoughtOn(t, k)' <=> BoughtOn(t, k) \/ (k = sec.key /\ t = sec.ticker /\ sec.op = "open")
        /\ SoldOn(t, k)' <=> SoldOn(t, k) \/ (k = sec.key /\ t = sec.ticker /\ sec.op = "close")
        /\ k = sec.key => ~BoughtOn(t, k) /\ ~SoldOn(t, k)
        /\ k # sec.key => brokerOrders'[k] = brokerOrders[k]
    BY <1>2, TradesFills
  <2> QED BY <2>1
<1>3. CASE Opens
  <2>1. SoldOn(t, k)' <=> SoldOn(t, k)
    BY <1>3, OpensAccount DEF Hands
  <2> QED BY <1>3, <2>1
<1>4. CASE Closes
  <2>1. (BoughtOn(t, k)' <=> BoughtOn(t, k)) /\ UNCHANGED brokerVars
    BY <1>4, ClosesAccount DEF Hands
  <2> QED BY <1>4, <2>1 DEF brokerVars
<1>5. ASSUME NEW s \in StopKeys, StopFires(s)
      PROVE  /\ BoughtOn(t, k) => BoughtOn(t, k)' /\ brokerOrders'[k] = brokerOrders[k]
             /\ SoldOn(t, k) => SoldOn(t, k)'
  BY <1>5 DEF StopFires, BoughtOn, SoldOn, dbVars
<1> QED BY <1>1, <1>2, <1>3, <1>4, <1>5, LotsMove

LEMMA SubmitHandStep ==
  ASSUME Base, Working, SubmitHand, Kept, [Next]_vars
  PROVE  SubmitHand'
<1> SUFFICES ASSUME sec'.at = "settleReply", sec'.op # "resolve"
             PROVE  orders'[sec'.key].status = "SUBMITTING"
  BY DEF SubmitHand
<1>0. TypeInv /\ Posting /\ Located
  BY BaseFacts
<1>1. CASE sec' = sec
  <2>1. sec.key \in OrderKeys /\ orders[sec.key].status = "SUBMITTING"
    BY <1>0, <1>1 DEF SubmitHand, Located, KeyPlaces
  <2>2. ~SettleReply
    BY <1>0, <1>1, SettledGoes DEF NoSection
  <2> QED BY <1>0, <1>1, <2>1, <2>2, OrdersStay
<1>2. CASE Turns /\ sec.op # "replace"
  <2>1. sec.at = "post" /\ sec'.key = sec.key /\ sec' # sec
    <3>1. sec.at \notin {"none", "recordIntent", "settleReply", "openRow", "cooldown"}
          /\ sec.at \in {"post", "query", "lookup", "stopRecord", "stopPost",
                         "stopActivate", "stopFail", "cancelStop", "cancelSettle",
                         "demote", "execSettle", "execLocal", "closeRow", "stopProtect"}
      BY <1>2, TurnsOn DEF Working, Works, Placing
    <3>2. (sec.at = "demote" => sec.op \in {"close", "resolve"})
          /\ (sec.at = "query" => sec.op = "resolve")
      BY DEF Working, Works, Placing
    <3> QED BY <1>2, <3>1, <3>2, TurnsOn
  <2>2. Post
    BY <2>1, ActsAt
  <2>3. orders' = orders
    BY <2>2 DEF Post, PostFilled, PostRefused, PostLost, PostPending, PostPartial,
                PostCancelled, dbVars
  <2> QED BY <1>0, <2>1, <2>3 DEF Posting
<1>3. CASE Records
  BY <1>0, <1>3, RecordedRow
<1>4. ~(Begins /\ sec = NoSection) /\ ~SettleReply /\ ~Opens /\ sec' # NoSection
  <2>1. sec' # NoSection
    BY DEF NoSection
  <2> QED BY <1>0, <2>1, SettledGoes, BeginsAt DEF Opens
<1> QED BY <1>1, <1>2, <1>3, <1>4, SectionMoves

LEMMA PlaceHandStep ==
  ASSUME Base, Account, StopMirrors, Working, Hands, Kept, [Next]_vars
  PROVE  PlaceHand'
<1> SUFFICES ASSUME sec'.at \in Placing \cup {"stopRecord"}, NEW t, t = sec'.ticker
             PROVE  NoneSold(t)'
  BY DEF PlaceHand, NoneSold, SoldOn
<1>0. TypeInv /\ sec' # NoSection
  BY BaseFacts DEF NoSection, Placing
<1>1. CASE Opens
  <2>1. NoneSold(sec.ticker) /\ sec'.ticker = sec.ticker
        /\ \A u : \A j \in OrderKeys : SoldOn(u, j)' <=> SoldOn(u, j)
    BY <1>1, OpensAccount DEF Hands
  <2>2. NoneSold(t)
    BY <2>1
  <2> QED BY <2>1, <2>2 DEF NoneSold
<1>2. CASE sec' = sec \/ (Turns /\ sec.op # "replace")
  <2>1. sec.at \in Placing \cup {"stopRecord"} /\ sec'.ticker = sec.ticker
    <3>1. CASE sec' = sec
      BY <3>1
    <3>2. CASE Turns /\ sec.op # "replace"
      <4>1. /\ sec.at \notin {"none", "recordIntent", "settleReply", "openRow", "cooldown"}
            /\ sec.at \in {"post", "query", "lookup", "stopRecord", "stopPost",
                           "stopActivate", "stopFail", "cancelStop", "cancelSettle",
                           "demote", "execSettle", "execLocal", "closeRow", "stopProtect"}
        BY <3>2, TurnsOn DEF Working, Works, Placing
      <4>2. sec.at \in {"stopRecord", "stopPost", "stopActivate", "stopFail", "stopProtect"}
        <5>1. sec.at = "demote" => sec.op \in {"close", "resolve"}
          BY DEF Working, Works, Placing
        <5> QED BY <3>2, <4>1, <5>1, TurnsOn DEF Placing
      <4>3. sec'.ticker = sec.ticker
        BY <3>2, TurnsOn
      <4> QED BY <4>2, <4>3 DEF Placing
    <3> QED BY <1>2, <3>1, <3>2
  <2>2. NoneSold(t) /\ ~Trades
    BY <2>1 DEF Hands, PlaceHand, Trades, At, Placing
  <2>3. \A j \in OrderKeys : SoldOn(t, j)' => SoldOn(t, j)
    BY <2>2, FillsStep
  <2> QED BY <2>2, <2>3 DEF NoneSold
<1>3. ~(Begins /\ sec = NoSection) /\ ~SettleReply /\ ~Records
  BY <1>0, SettledGoes, BeginsAt, RecordedRow DEF Placing
<1> QED BY <1>0, <1>1, <1>2, <1>3, SectionMoves

LEMMA StopHandStep ==
  ASSUME Base, Account, StopMirrors, Working, Hands, SoldBare, FiredHeld, Kept, [Next]_vars
  PROVE  StopHand'
<1> SUFFICES ASSUME sec'.op = "stop", sec'.at # "cooldown", NEW t, t = sec'.ticker
             PROVE  /\ held'[t] = 0 /\ NoneSold(t)'
                    /\ sec'.at = "settleReply" => sec'.ans = "FILLED"
  BY DEF StopHand, NoneSold, SoldOn
<1>0. TypeInv /\ sec' # NoSection /\ Located
  BY BaseFacts DEF NoSection
<1>1. CASE Begins /\ sec = NoSection
  <2>1. PICK p \in PositionIds : p = sec'.pos /\ ReadPosition(p)
    BY <1>1, BegunBy DEF ReadPosition
  <2>2. PICK s \in StopKeys : /\ stops[s].status = "ACTIVE" /\ stops[s].position = p
                              /\ brokerStops[s].st = "FIRED"
    BY <1>1, <2>1, BegunBy
  <2>3. UNCHANGED <<dbVars, brokerVars>> /\ sec'.at # "settleReply"
    BY <1>1, BegunBy, BeginsAt
  <2>4. Stands(s) /\ positions[p].status = "OPEN" /\ positions[p].ticker = t
    BY <2>1, <2>2, BaseFacts DEF Stands, StandingStop, Bound, StandingFits, ReadPosition
  <2>5. held[t] = 0
    BY <2>2, <2>4 DEF FiredHeld, StopMirrors
  <2>6. NoneSold(t)
    <3>1. t \in Tickers /\ IsOpen(t, p)
      BY <2>4, BaseFacts DEF Known, IsOpen
    <3>2. ~Bare(p)
      BY <2>2, <2>4 DEF Bare
    <3> QED BY <3>1, <3>2 DEF SoldBare, NoneSold
  <2> QED BY <2>3, <2>5, <2>6 DEF dbVars, brokerVars, NoneSold, SoldOn
<1>2. CASE sec.op = "stop" /\ sec.at # "cooldown" /\ sec'.ticker = sec.ticker
  <2>1. held[t] = 0 /\ NoneSold(t) /\ t \in Tickers /\ ~Trades
    <3>1. ~Trades
      BY <1>2, TradesFills
    <3>2. sec.at # "none"
      BY <1>2 DEF Working, Works
    <3> QED BY <1>0, <1>2, <3>1, <3>2 DEF Hands, StopHand, Located
  <2>2. held'[t] = 0 /\ \A j \in OrderKeys : SoldOn(t, j)' => SoldOn(t, j)
    BY <2>1, FillsStep
  <2>3. NoneSold(t)'
    BY <2>1, <2>2 DEF NoneSold
  <2>4. ASSUME sec'.at = "settleReply" PROVE sec'.ans = "FILLED"
    <3>1. CASE sec' = sec
      BY <1>2, <2>4, <3>1 DEF Hands, StopHand
    <3>2. CASE Records
      <4>1. RecordExecution
        BY <1>2, <3>2 DEF Records, RecordIntent, RecordNoLots
      <4> QED BY <4>1, BaseFacts DEF RecordExecution, Section
    <3>3. ~(Turns /\ sec.op # "replace")
      <4>1. sec.at \in {"execSettle", "execLocal", "recordIntent", "settleReply", "closeRow"}
        BY <1>2 DEF Working, Works
      <4> QED BY <2>4, <4>1, TurnsOn
    <3>4. ~(Begins /\ sec = NoSection) /\ ~SettleReply /\ ~Opens
      BY <1>0, <2>4, SettledGoes, BeginsAt DEF Opens
    <3> QED BY <1>0, <3>1, <3>2, <3>3, <3>4, SectionMoves
  <2> QED BY <2>2, <2>3, <2>4
<1>3. CASE sec' = sec
  BY <1>2, <1>3
<1>4. CASE Turns /\ sec.op # "replace"
  <2>1. sec.op = "stop" /\ sec'.ticker = sec.ticker
    BY <1>4, TurnsOn
  <2>2. sec.at # "cooldown"
    BY <1>4, TurnsOn
  <2> QED BY <1>2, <2>1, <2>2
<1>5. CASE Records
  BY <1>0, <1>2, <1>5, RecordedRow
<1>6. CASE SettleReply
  BY <1>0, <1>2, <1>6, SettledGoes
<1>7. ~Opens
  <2>1. ASSUME Opens PROVE FALSE
    <3>1. sec'.op = sec.op /\ sec.at = "openRow"
      BY <2>1, OpensAccount DEF Hands
    <3> QED BY <3>1 DEF Working, Works
  <2> QED BY <2>1
<1> QED BY <1>0, <1>1, <1>3, <1>4, <1>5, <1>6, <1>7, SectionMoves

(* A position in hand stays open or without lots, but for its own closing. *)
LEMMA InHandStays ==
  ASSUME Base, Account, StopMirrors, Working, Hands, Kept, [Next]_vars,
         NEW p \in PositionIds, positions[p].status # "ABSENT"
  PROVE  /\ positions'[p].ticker = positions[p].ticker
         /\ positions'[p].lots = positions[p].lots
         /\ positions[p].status = "OPEN" /\ ~Closes => positions'[p].status = "OPEN"
         /\ \/ positions[p].status = "OPEN"
            \/ held[positions[p].ticker] = 0 /\ ~(Trades /\ sec.op = "open")
            => positions'[p].status = "OPEN" \/ held'[positions[p].ticker] = 0
<1>0. TypeInv /\ positions[p].ticker \in Tickers /\ Tables
  BY BaseFacts DEF Known
<1>1. /\ positions'[p].ticker = positions[p].ticker
      /\ positions'[p].lots = positions[p].lots
  <2>1. CASE OpenFromFill
    <3>1. CASE UNCHANGED positions
      BY <3>1
    <3>2. CASE ~UNCHANGED positions
      <4>1. PICK q \in PositionIds :
              /\ positions[q].status = "ABSENT"
              /\ positions' = OpenRow(positions, q, sec.ticker, orders[sec.key].filled, sec.key)
        BY <1>0, <2>1, <3>2, OpenedSection
      <4>2. p # q
        BY <4>1
      <4> QED BY <1>0, <4>1, <4>2 DEF OpenRow, Tables
    <3> QED BY <3>1, <3>2
  <2>2. CASE FinishClose
    <3>1. CASE UNCHANGED positions
      BY <3>1
    <3>2. CASE ~UNCHANGED positions
      <4>1. PICK q \in PositionIds : positions' = CloseRow(positions, q, sec.trigger, sec.key)
        BY <1>0, <2>2, <3>2, ClosedSection
      <4>2. positions \in [PositionIds -> PositionRow]
        BY <1>0 DEF Tables
      <4> QED BY <4>1, <4>2 DEF CloseRow, PositionRow
    <3> QED BY <3>1, <3>2
  <2>3. CASE ~OpenFromFill /\ ~FinishClose
    <3>1. ~Shrink
      BY DEF Shrink, At, Base, Prompt
    <3> QED BY <1>0, <2>3, <3>1, KeysStay
  <2> QED BY <2>1, <2>2, <2>3
<1>2. PICK t \in Tickers : t = positions[p].ticker
  BY <1>0
<1>3. IsOpen(t, p) => IsOpen(t, p)' \/ (Closes /\ t = sec.ticker /\ p = sec.pos)
  BY FillsStep
<1>4. Closes /\ t = sec.ticker => held[t] = 0
  <2>1. Closes => held[sec.ticker] = 0
    BY ClosesAccount DEF Hands
  <2> QED BY <2>1
<1>5. held[t] = 0 => held'[t] = 0 \/ (Trades /\ sec.op = "open" /\ t = sec.ticker)
  BY FillsStep
<1>6. Closes => ~Trades
  BY DEF Closes, FinishClose, Trades, At
<1>7. IsOpen(t, p) <=> positions[p].status = "OPEN"
  BY <1>2 DEF IsOpen
<1>8. IsOpen(t, p)' => positions'[p].status = "OPEN"
  BY DEF IsOpen
<1> QED BY <1>1, <1>2, <1>3, <1>4, <1>5, <1>6, <1>7, <1>8

LEMMA ClosingHandStep ==
  ASSUME Base, Account, StopMirrors, Working, Hands, BookHeld, Kept, [Next]_vars
  PROVE  ClosingHand'
<1> SUFFICES ASSUME sec'.op = "close", sec'.at \in Leading,
                    NEW t, t = sec'.ticker, NEW p, p = sec'.pos
             PROVE  /\ sec'.lots = positions'[p].lots
                    /\ positions'[p].status = "OPEN" \/ held'[t] = 0
  BY DEF ClosingHand
<1>0. TypeInv /\ sec' # NoSection /\ Located /\ PositionInHand
  BY BaseFacts DEF NoSection, InHand
<1>1. CASE Begins /\ sec = NoSection
  <2>1. PICK r \in cycle.book : r.pos = p /\ ReadPosition(p)
    BY <1>1, BegunBy
  <2>2. UNCHANGED <<dbVars, brokerVars>>
    BY <1>1, BegunBy
  <2> QED BY <2>1, <2>2 DEF BookHeld, ReadPosition, dbVars, brokerVars
<1>2. CASE /\ sec.op = "close" /\ sec.at \in Leading
           /\ sec'.ticker = sec.ticker /\ sec'.pos = sec.pos /\ sec'.lots = sec.lots
  <2>1. /\ p \in PositionIds /\ positions[p].status # "ABSENT" /\ positions[p].ticker = t
        /\ sec.lots = positions[p].lots
        /\ positions[p].status = "OPEN" \/ held[t] = 0
    BY <1>0, <1>2 DEF Located, PositionInHand, Hands, ClosingHand
  <2> QED BY <1>2, <2>1, InHandStays
<1>3. CASE sec' = sec
  BY <1>2, <1>3
<1>4. CASE Turns /\ sec.op # "replace"
  <2>1. /\ sec'.op = sec.op /\ sec'.ticker = sec.ticker
        /\ sec'.pos = sec.pos /\ sec'.lots = sec.lots
    BY <1>4, TurnsOn
  <2>2. sec.at \in {"cancelStop", "cancelSettle", "demote", "recordIntent", "post",
                    "settleReply", "closeRow", "cooldown"}
    BY <2>1 DEF Working, Works
  <2>3. sec.at \notin {"settleReply", "closeRow", "cooldown"}
    BY <1>4, TurnsOn DEF Leading
  <2> QED BY <1>2, <2>1, <2>2, <2>3 DEF Leading
<1>5. CASE Records
  BY <1>0, <1>2, <1>5, RecordedRow DEF Leading
<1>6. CASE SettleReply
  BY <1>0, <1>6, SettledGoes DEF Leading
<1>7. ~Opens
  BY DEF Opens, Leading
<1> QED BY <1>0, <1>1, <1>3, <1>4, <1>5, <1>6, <1>7, SectionMoves

LEMMA SettlingHandStep ==
  ASSUME Base, Account, StopMirrors, Working, Hands, Kept, [Next]_vars
  PROVE  SettlingHand'
<1> SUFFICES ASSUME NEW p, p = sec'.pos,
                    \/ sec'.op = "close" /\ sec'.at = "settleReply" /\ sec'.ans = "FILLED"
                    \/ sec'.op = "stop" /\ sec'.at # "cooldown"
                    \/ Closing'
             PROVE  positions'[p].status = "OPEN"
  BY DEF SettlingHand
<1>0. TypeInv /\ sec' # NoSection /\ Located
  BY BaseFacts DEF NoSection, Closing
<1>1. ~Closes /\ ~Opens
  <2>1. ~Closes
    BY DEF Closes, Closing
  <2>2. ASSUME Opens PROVE FALSE
    <3>1. sec'.op = sec.op /\ sec.at = "openRow" /\ sec'.at = "stopRecord"
      BY <2>2, OpensAccount DEF Hands
    <3>2. sec.op # "stop"
      BY <3>1 DEF Working, Works
    <3> QED BY <3>1, <3>2 DEF Closing
  <2> QED BY <2>1, <2>2
<1>2. ASSUME p \in PositionIds, positions[p].status = "OPEN"
      PROVE  positions'[p].status = "OPEN"
  BY <1>1, <1>2, InHandStays
<1>3. CASE /\ sec'.pos = sec.pos
           /\ \/ sec.op = "close" /\ sec.at = "settleReply" /\ sec.ans = "FILLED"
              \/ sec.op = "stop" /\ sec.at # "cooldown"
              \/ Closing
  <2>1. positions[p].status = "OPEN"
    BY <1>3 DEF Hands, SettlingHand
  <2>2. p \in PositionIds
    BY <1>0, <1>3 DEF Located, PositionPlaces, StopPlaces, Closing
  <2> QED BY <1>2, <2>1, <2>2
<1>4. CASE sec' = sec
  BY <1>3, <1>4 DEF Closing
<1>5. CASE Turns /\ sec.op # "replace"
  <2>1. sec'.op = sec.op /\ sec'.pos = sec.pos /\ sec'.ticker = sec.ticker
        /\ sec.at \notin {"cooldown", "none", "recordIntent", "settleReply", "openRow"}
    BY <1>5, TurnsOn
  <2>2. CASE sec.op = "stop"
    BY <1>3, <2>1, <2>2
  <2>3. CASE Closing'
    BY <1>3, <1>5, <2>1, <2>3, TurnsKeep DEF Closing
  <2>4. CASE sec.op = "close" /\ sec'.at = "settleReply" /\ sec'.ans = "FILLED"
    <3>1. sec.at = "post" /\ sec' # sec
      <4>1. sec.at \in {"cancelStop", "cancelSettle", "demote", "post", "closeRow"}
        BY <2>1, <2>4 DEF Working, Works
      <4> QED BY <1>5, <2>4, <4>1, TurnsOn
    <3>2. Post
      BY <3>1, ActsAt
    <3>3. Trades
      <4>1. PostFilled
        BY <1>0, <2>4, <3>2, BaseFacts DEF Post, PostRefused, PostLost, PostPending, PostPartial,
           PostCancelled, OutcomeUnknown, Leave, Reply, Section, Kept, Reliable
      <4> QED BY <4>1 DEF PostFilled, Trades, Takes
    <3>4. positions[sec.pos].status = "OPEN" /\ sec.pos \in PositionIds
      BY <2>4, <3>3, TradesAccount DEF Hands
    <3> QED BY <1>2, <2>1, <3>4
  <2> QED BY <2>1, <2>2, <2>3, <2>4
<1>6. CASE Begins /\ sec = NoSection
  <2>1. sec'.op = "stop"
    BY <1>6, BeginsAt DEF Closing
  <2>2. p \in PositionIds /\ \E s \in StopKeys : Stands(s) /\ stops[s].position = p
    BY <1>6, <2>1, BegunBy DEF ReadPosition, Stands, StandingStop
  <2> QED BY <1>2, <2>2, BaseFacts DEF Bound, StandingFits
<1>7. CASE Records
  <2>1. /\ sec'.op = sec.op /\ sec'.pos = sec.pos /\ sec.at = "recordIntent"
        /\ sec'.at \in {"post", "settleReply"}
        /\ sec'.at = "settleReply" /\ sec'.ans = "FILLED" => sec.op = "stop"
    BY <1>0, <1>7, RecordedRow
  <2> QED BY <1>3, <2>1 DEF Closing
<1>8. CASE SettleReply
  <2>1. CASE sec'.at = "closeRow"
    BY <1>0, <1>3, <1>8, <2>1, SettledGoes
  <2>2. CASE sec'.at = "cancelStop"
    BY <1>0, <1>2, <1>8, <2>2, SettledGoes, BaseFacts DEF OpenOn, Tables
  <2>3. sec'.at \in {"closeRow", "cancelStop"}
    BY <1>0, <1>8, SettledGoes DEF Closing, Working, Works
  <2> QED BY <2>1, <2>2, <2>3
<1> QED BY <1>0, <1>1, <1>4, <1>5, <1>6, <1>7, <1>8, SectionMoves

LEMMA OpeningFill ==
  ASSUME Base, Account, StopMirrors, Working, Hands, Kept, [Next]_vars, Opening',
         NEW t, t = sec'.ticker, NEW k, k = sec'.key
  PROVE  BoughtOn(t, k)' /\ orders'[k].filled = brokerOrders'[k].filled
<1>0. /\ TypeInv /\ sec' # NoSection /\ Located /\ FillInHand /\ ~Opens /\ ~Closes
      /\ k \in OrderKeys /\ Unbooked(k)'
  <2>1. k \in OrderKeys /\ Unbooked(k)'
    BY StepFacts DEF FillInHand, Unbooked
  <2>2. sec' # NoSection /\ ~Opens /\ ~Closes
    BY DEF NoSection, Opening, Opens, Closes
  <2> QED BY <2>1, <2>2, BaseFacts DEF InHand
<1>1. CASE Opening /\ sec'.key = sec.key /\ sec'.ticker = sec.ticker
  <2>1. BoughtOn(t, k) /\ orders[k].filled = brokerOrders[k].filled
    BY <1>1 DEF Hands, FillHand
  <2>2. BoughtOn(t, k)' /\ brokerOrders'[k] = brokerOrders[k]
    BY <1>0, <2>1, FillsStay
  <2>3. orders'[k] = orders[k]
    BY <1>0, <1>1, SettledStays DEF FillInHand
  <2> QED BY <2>1, <2>2, <2>3
<1>2. CASE sec' = sec
  BY <1>1, <1>2 DEF Opening
<1>3. CASE Turns /\ sec.op # "replace"
  BY <1>1, <1>3, TurnsKeep DEF Opening
<1>4. CASE SettleReply
  <2>1. /\ sec.at = "settleReply" /\ k = sec.key /\ t = sec.ticker /\ sec.ans = "FILLED"
        /\ sec.op = "open" \/ orders[k].intent = "ENTRY"
        /\ sec.op \in {"open", "resolve"}
    BY <1>0, <1>4, SettledGoes DEF Opening
  <2>2. /\ brokerOrders[k].filled = sec.got /\ sec.got > 0 /\ brokerOrders[k].st = "FILLED"
    <3>1. brokerOrders[k].filled = sec.got /\ sec.got > 0
      BY <2>1, BaseFacts DEF Answered, InHand, LotsInHand
    <3>2. brokerOrders[k].st # "FILLED" => brokerOrders[k].filled = 0
      BY <1>0 DEF Base, Prompt
    <3> QED BY <3>1, <3>2
  <2>3. brokerOrders[k].ticker = t /\ brokerOrders[k].intent = "ENTRY"
    BY <1>0, <2>1, <2>2, OrderAtBroker DEF IntentOf
  <2>4. /\ brokerOrders' = brokerOrders
        /\ orders' = Settle(orders, sec.key, sec.ans, sec.got,
                            IF sec.op = "stop" THEN "exchange" ELSE "none")
    BY <1>4 DEF SettleReply, brokerVars
  <2>5. orders'[k].filled = sec.got
    BY <1>0, <2>1, <2>4, BaseFacts DEF Settle, OrderRow
  <2>6. BoughtOn(t, k)'
    BY <1>0, <2>2, <2>3, <2>4 DEF BoughtOn, Unbooked
  <2> QED BY <2>2, <2>4, <2>5, <2>6
<1>5. ~(Begins /\ sec = NoSection) /\ ~Records
  BY <1>0, BeginsAt, RecordedRow DEF Opening
<1> QED BY <1>0, <1>2, <1>3, <1>4, <1>5, SectionMoves

LEMMA ClosingFill ==
  ASSUME Base, Account, StopMirrors, Working, Hands, Kept, [Next]_vars,
         Closing', sec'.op # "stop", NEW t, t = sec'.ticker, NEW k, k = sec'.key
  PROVE  SoldOn(t, k)'
<1>0. /\ TypeInv /\ sec' # NoSection /\ Located /\ ~Opens /\ ~Closes
      /\ k \in OrderKeys /\ Unbooked(k)'
  <2>1. k \in OrderKeys /\ Unbooked(k)'
    BY StepFacts DEF FillInHand, Unbooked
  <2>2. sec' # NoSection /\ ~Opens /\ ~Closes
    BY DEF NoSection, Closing, Opens, Closes
  <2> QED BY <2>1, <2>2, BaseFacts
<1>1. CASE Closing /\ sec.op # "stop" /\ sec'.key = sec.key /\ sec'.ticker = sec.ticker
  <2>1. SoldOn(t, k)
    BY <1>1 DEF Hands, FillHand
  <2> QED BY <1>0, <2>1, FillsStay
<1>2. CASE sec' = sec
  BY <1>1, <1>2 DEF Closing
<1>3. CASE Turns /\ sec.op # "replace"
  BY <1>1, <1>3, TurnsKeep DEF Closing
<1>4. CASE SettleReply
  <2>1. /\ sec.at = "settleReply" /\ k = sec.key /\ t = sec.ticker
        /\ \/ sec.op = "close" /\ sec.ans = "FILLED"
           \/ sec.op = "resolve" /\ sec.got > 0 /\ orders[k].intent = "EXIT"
    BY <1>0, <1>4, SettledGoes DEF Closing
  <2>2. /\ brokerOrders[k].filled = sec.got /\ sec.got > 0 /\ brokerOrders[k].st = "FILLED"
    <3>1. brokerOrders[k].filled = sec.got /\ sec.got > 0
      BY <2>1, BaseFacts DEF Answered, InHand, LotsInHand
    <3>2. brokerOrders[k].st # "FILLED" => brokerOrders[k].filled = 0
      BY <1>0 DEF Base, Prompt
    <3> QED BY <3>1, <3>2
  <2>3. brokerOrders[k].ticker = t /\ brokerOrders[k].intent = "EXIT"
    BY <1>0, <2>1, <2>2, OrderAtBroker DEF IntentOf
  <2>4. brokerOrders' = brokerOrders
    BY <1>4 DEF SettleReply, brokerVars
  <2> QED BY <1>0, <2>2, <2>3, <2>4 DEF SoldOn, Unbooked
<1>5. ~(Begins /\ sec = NoSection) /\ ~Records
  BY <1>0, BeginsAt, RecordedRow DEF Closing
<1> QED BY <1>0, <1>2, <1>3, <1>4, <1>5, SectionMoves

LEMMA FillHandStep ==
  ASSUME Base, Account, StopMirrors, Working, Hands, Kept, [Next]_vars
  PROVE  FillHand'
<1>1. PICK t, k : t = sec'.ticker /\ k = sec'.key
  OBVIOUS
<1>2. Opening' => BoughtOn(t, k)' /\ orders'[k].filled = brokerOrders'[k].filled
  BY <1>1, OpeningFill
<1>3. Closing' /\ sec'.op # "stop" => SoldOn(t, k)'
  BY <1>1, ClosingFill
<1> QED BY <1>1, <1>2, <1>3 DEF FillHand, BoughtOn, SoldOn

-----------------------------------------------------------------------------
(* The cycle beside the section. *)

Quietly == lock' = lock /\ phase'["trading"] = phase["trading"] /\ cycle' = cycle

Entering ==
  /\ lock = NoOne /\ phase' = phase
  /\ cycle'.book \subseteq cycle.book
  /\ cycle'.port = cycle.port /\ cycle'.opened = cycle.opened

LEMMA HolderTasks ==
  ASSUME Holder
  PROVE  \/ Quietly \/ Leave \/ Raise
         \/ LeaveOpened /\ sec.at \in {"stopProtect", "stopFail"}
<1>1. CASE RecordIntent \/ RecordNoLots \/ RecordExecution
  BY <1>1 DEF RecordIntent, RecordNoLots, RecordExecution, NewRow, taskVars, Quietly
<1>2. CASE Post
  BY <1>2 DEF Post, PostFilled, PostRefused, PostLost, PostPending, PostPartial, PostCancelled,
     Reply, OutcomeUnknown, Goto, taskVars, Quietly
<1>3. CASE Query \/ QueryLost \/ CancelOrder \/ CancelOrderLost \/ Reread \/ RereadLost
  BY <1>3 DEF Query, QueryLost, CancelOrder, CancelOrderLost, Reread, RereadLost, NoAnswer,
     Reply, Goto, taskVars, Quietly
<1>4. CASE SettleReply
  BY <1>4 DEF SettleReply, AfterOpen, AfterClose, AfterResolve, Goto, taskVars, Quietly
<1>5. CASE SettleTwice \/ Lookup \/ LookupFails \/ OpenFromFill
  BY <1>5 DEF SettleTwice, Lookup, LookupFails, OpenFromFill, Goto, taskVars, Quietly
<1>6. CASE StopRecord \/ StopRecordRefused \/ StopPost \/ StopPostLost \/ StopActivate
  BY <1>6 DEF StopRecord, StopRecordRefused, StopPost, StopPostLost, StopActivate, Goto,
     taskVars, Quietly
<1>7. CASE StopProtect \/ StopFail
  BY <1>7 DEF StopProtect, StopFail, TryAgain, At, taskVars, Quietly
<1>8. CASE \/ CancelStop \/ CancelStopLost \/ CancelSettle \/ Demote \/ ExecSettle \/ ExecLocal
           \/ FinishClose \/ StartCooldown \/ Shrink
  BY <1>8 DEF CancelStop, CancelStopLost, CancelSettle, Demote, ExecSettle, ExecLocal,
     FinishClose, StartCooldown, Shrink, Goto, taskVars, Quietly
<1> QED BY <1>1, <1>2, <1>3, <1>4, <1>5, <1>6, <1>7, <1>8 DEF Holder

LEMMA TasksStep ==
  ASSUME Base, Kept, [Next]_vars
  PROVE  \/ Quietly \/ Entering
         \/ lock \in Tasks /\ (Leave \/ Raise)
         \/ lock \in Tasks /\ LeaveOpened /\ sec.at \in {"stopProtect", "stopFail"}
         \/ StartCycle \/ ReadBook \/ ToExits \/ ToEntries \/ EndCycle
<1>0. TypeInv /\ phase \in [Tasks -> Phases] /\ cycle \in Cycle
  BY BaseFacts DEF TypeInv, TypeOK, TasksOK
<1>1. CASE Holder
  BY <1>1, HolderAt, HolderTasks
<1>2. CASE DbFails
  <2>1. CASE StopSettleFails
    BY <2>1 DEF StopSettleFails
  <2>2. CASE StopFailUnwritten
    BY <2>2 DEF StopFailUnwritten, At, TryAgain, taskVars, Quietly
  <2> QED BY <1>2, <2>1, <2>2, StepFacts
<1>3. CASE Trading
  <2>1. ASSUME NEW r \in cycle.book, NEW trigger, BeginCloseExecuted(r) \/ BeginClose(r, trigger)
        PROVE  Entering
    BY <1>0, <2>1 DEF BeginCloseExecuted, BeginClose, Enter, Entering, Cycle
  <2>2. ASSUME NEW t, BeginOpen(t) PROVE Entering
    BY <2>2 DEF BeginOpen, Enter, Entering, taskVars
  <2>3. BeginResolve("trading") => Entering
    BY DEF BeginResolve, Enter, Entering
  <2> QED BY <1>3, <2>1, <2>2, <2>3 DEF Trading
<1>4. CASE Drain
  <2>1. BeginResolve("drain") => Entering
    BY DEF BeginResolve, Enter, Entering
  <2>2. ASSUME Signal \/ DrainPoll \/ DrainPolled PROVE Quietly
    <3>1. /\ UNCHANGED <<lock, cycle>>
          /\ \E place : phase' = [phase EXCEPT !["drain"] = place]
      BY <2>2 DEF Signal, DrainPoll, DrainPolled
    <3> QED BY <1>0, <3>1 DEF Quietly, Tasks
  <2> QED BY <1>4, <2>1, <2>2 DEF Drain
<1>5. CASE Environment \/ UNCHANGED vars
  <2>1. UNCHANGED <<lock, taskVars>>
    BY <1>5, EnvironmentControl DEF vars
  <2> QED BY <2>1 DEF taskVars, Quietly
<1> QED BY <1>0, <1>1, <1>3, <1>4, <1>5, <1>2 DEF Next, Process

LEMMA RaisedTasks ==
  ASSUME Base, Raise, lock \in Tasks
  PROVE  /\ lock = "trading" => phase'["trading"] = "sleep" /\ cycle' = NoCycle
         /\ lock # "trading" => phase'["trading"] = phase["trading"] /\ cycle' = cycle
<1>1. phase \in [Tasks -> Phases] /\ lock \in Tasks \cup {NoOne}
  BY BaseFacts DEF TypeInv, TypeOK, TasksOK, SectionOK
<1> QED BY <1>1 DEF Raise, Fallen, Tasks

LEMMA OpeningTask ==
  ASSUME Base, Working, OpeningHand, Kept, [Next]_vars, sec'.op = "open"
  PROVE  lock' = "trading" /\ phase'["trading"] = "entries"
<1>0. sec' # NoSection
  BY DEF NoSection
<1>1. CASE Begins /\ sec = NoSection
  <2>1. PICK t : BeginOpen(t)
    BY <1>1, BegunBy
  <2> QED BY <2>1 DEF BeginOpen, Enter, taskVars
<1>2. CASE sec.op = "open"
  <2>1. lock = "trading" /\ phase["trading"] = "entries" /\ lock # NoOne
    BY <1>2 DEF OpeningHand, NoOne
  <2>2. ~Entering /\ ~StartCycle /\ ~ReadBook /\ ~ToExits /\ ~ToEntries /\ ~EndCycle
    BY <2>1 DEF Entering, StartCycle, ReadBook, ToExits, ToEntries, EndCycle, CycleAt
  <2>3. ~Leave /\ ~Raise /\ ~LeaveOpened
    BY <1>0 DEF Leave, Raise, LeaveOpened
  <2> QED BY <2>1, <2>2, <2>3, TasksStep DEF Quietly
<1>3. CASE ~(Begins /\ sec = NoSection)
  <2>1. sec'.op = sec.op
    <3>0. TypeInv
      BY BaseFacts
    <3>1. CASE Turns
      BY <3>1, TurnsKeep
    <3>2. CASE Records
      BY <3>0, <3>2, RecordedRow
    <3>3. CASE SettleReply
      BY <1>0, <3>0, <3>3, SettledGoes
    <3>4. CASE Opens
      BY <1>0, <3>0, <3>4, OpenedSection DEF Opens
    <3> QED BY <1>0, <1>3, <3>1, <3>2, <3>3, <3>4, SectionMoves
  <2> QED BY <1>2, <2>1
<1> QED BY <1>1, <1>3

LEMMA OpeningHandStep ==
  ASSUME Base, Account, StopMirrors, Working, Hands, EntriesHeld, Kept, [Next]_vars
  PROVE  OpeningHand'
<1> SUFFICES ASSUME sec'.op = "open", NEW t, t = sec'.ticker
             PROVE  /\ sec'.at \in {"recordIntent", "post", "settleReply"} => NoneOpen(t)'
                    /\ sec'.at \in {"recordIntent", "post"} => NoneBought(t)'
                    /\ sec'.at = "settleReply" =>
                         \A k \in OrderKeys : BoughtOn(t, k)' => k = sec'.key
  BY OpeningTask DEF Hands, OpeningHand, NoneOpen, NoneBought, IsOpen, BoughtOn
<1>0. TypeInv /\ sec' # NoSection /\ Located
  BY BaseFacts DEF NoSection
<1>1. CASE Begins /\ sec = NoSection
  <2>1. t \in Tickers /\ BeginOpen(t) /\ UNCHANGED <<dbVars, brokerVars>>
    BY <1>1, BegunBy
  <2>2. NoneOpen(t)
    BY <2>1, BaseFacts DEF BeginOpen, OpenOn, NoneOpen, IsOpen, Tables
  <2>3. ~(held[t] > 0)
    BY <1>1, <2>1 DEF BeginOpen, EntriesHeld, NoSection
  <2>4. NoneBought(t)
    BY <2>1, <2>3, BaseFacts DEF Account, Bought, NoneBought, BoughtOn, InHand, FilledHasLots
  <2>5. sec'.at = "recordIntent"
    BY <1>1, BeginsAt
  <2> QED BY <2>1, <2>2, <2>4, <2>5
      DEF dbVars, brokerVars, NoneOpen, NoneBought, IsOpen, BoughtOn
<1>2. CASE sec.op = "open" /\ sec'.ticker = sec.ticker
           /\ (sec' = sec \/ (sec.at = "recordIntent" /\ Records)
                          \/ (sec.at = "post" /\ sec'.key = sec.key /\ sec'.at = "settleReply"))
  <2> SUFFICES ASSUME sec'.at \in {"recordIntent", "post", "settleReply"}
               PROVE  /\ NoneOpen(t)'
                      /\ sec'.at \in {"recordIntent", "post"} => NoneBought(t)'
                      /\ sec'.at = "settleReply" =>
                           \A k \in OrderKeys : BoughtOn(t, k)' => k = sec'.key
    OBVIOUS
  <2>1. /\ sec.at \in {"recordIntent", "post", "settleReply"}
        /\ sec.at = "settleReply" => sec' = sec
    BY <1>2
  <2>2. /\ NoneOpen(t)
        /\ sec.at \in {"recordIntent", "post"} => NoneBought(t)
        /\ sec.at = "settleReply" => \A k \in OrderKeys : BoughtOn(t, k) => k = sec.key
    BY <1>2, <2>1 DEF Hands, OpeningHand
  <2>3. NoneOpen(t)'
    <3>1. ~Opens
      BY DEF Opens
    <3>2. \A p \in PositionIds : IsOpen(t, p)' => IsOpen(t, p)
      BY <3>1, FillsStep
    <3> QED BY <2>2, <3>2 DEF NoneOpen
  <2>4. \A j \in OrderKeys : BoughtOn(t, j)' =>
          BoughtOn(t, j) \/ (Trades /\ j = sec.key)
    BY FillsStep
  <2>5. Trades => sec.at = "post" /\ sec'.at = "settleReply" /\ sec'.key = sec.key
    <3>1. Trades => sec.at = "post" /\ Reply("FILLED", sec.lots)
      BY <1>0 DEF Trades, At, Leave, Raise
    <3> QED BY <3>1, BaseFacts DEF Reply, Section
  <2>6. CASE sec'.at \in {"recordIntent", "post"}
    <3>1. ~Trades /\ sec.at \in {"recordIntent", "post"}
      BY <1>2, <2>1, <2>5, <2>6
    <3> QED BY <2>2, <2>3, <2>4, <2>6, <3>1 DEF NoneBought
  <2>7. CASE sec'.at = "settleReply"
    <3>1. CASE sec.at = "settleReply"
      <4>1. sec' = sec /\ ~Trades
        BY <2>1, <2>5, <3>1
      <4> QED BY <2>2, <2>3, <2>4, <2>7, <3>1, <4>1
    <3>2. CASE sec.at = "post" \/ sec.at = "recordIntent"
      <4>1. NoneBought(t)
        BY <2>2, <3>2
      <4>2. Trades => sec'.key = sec.key
        BY <2>5
      <4> QED BY <2>3, <2>4, <2>7, <4>1, <4>2 DEF NoneBought
    <3> QED BY <2>1, <3>1, <3>2
  <2> QED BY <2>6, <2>7
<1>3. CASE sec' = sec
  BY <1>2, <1>3
<1>4. CASE Turns /\ sec.op # "replace"
  <2>1. /\ sec'.op = sec.op /\ sec'.ticker = sec.ticker /\ sec'.key = sec.key
    BY <1>4, TurnsOn
  <2>2. sec.at \in {"recordIntent", "post", "settleReply", "openRow", "stopRecord", "stopPost",
                    "stopActivate", "stopProtect", "stopFail"}
    BY <2>1 DEF Working, Works, Placing
  <2>3. sec'.at \in {"recordIntent", "post", "settleReply"} =>
          sec.at = "post" /\ sec'.at = "settleReply"
    BY <1>4, <2>2, TurnsOn, BaseFacts DEF Base, Prompt
  <2> QED BY <1>2, <2>1, <2>3
<1>5. CASE Records
  BY <1>0, <1>2, <1>5, RecordedRow
<1>6. CASE SettleReply
  BY <1>0, <1>6, SettledGoes
<1>7. CASE Opens
  BY <1>7 DEF Opens
<1> QED BY <1>0, <1>1, <1>3, <1>4, <1>5, <1>6, <1>7, SectionMoves

LEMMA BookHeldStep ==
  ASSUME Base, Account, StopMirrors, Working, Hands, BookHeld, Kept, [Next]_vars
  PROVE  BookHeld'
<1> SUFFICES ASSUME NEW r \in cycle'.book
             PROVE  /\ phase'["trading"] \in {"stops", "exits"}
                    /\ \/ positions'[r.pos].status = "OPEN"
                       \/ held'[positions'[r.pos].ticker] = 0
  BY DEF BookHeld
<1>0. TypeInv /\ Known /\ cycle \in Cycle /\ phase \in [Tasks -> Phases] /\ "trading" \in Tasks
  BY BaseFacts DEF TypeInv, TypeOK, TasksOK, Tasks
<1>1. CASE r \in cycle.book
  <2>1. /\ r.pos \in PositionIds /\ positions[r.pos].status # "ABSENT"
        /\ phase["trading"] \in {"stops", "exits"}
        /\ positions[r.pos].status = "OPEN" \/ held[positions[r.pos].ticker] = 0
    BY <1>0, <1>1 DEF Cycle, Known, BookHeld
  <2>2. ~(Trades /\ sec.op = "open")
    BY <2>1 DEF Hands, OpeningHand
  <2>3. positions'[r.pos].status = "OPEN" \/ held'[positions'[r.pos].ticker] = 0
    BY <2>1, <2>2, InHandStays
  <2>4. phase'["trading"] \in {"stops", "exits"}
    <3>1. CASE Quietly \/ Entering
      BY <2>1, <3>1 DEF Quietly, Entering
    <3>2. CASE lock \in Tasks /\ Raise
      BY <2>1, <3>2, RaisedTasks DEF NoCycle
    <3>3. CASE Leave \/ LeaveOpened
      BY <2>1, <3>3 DEF Leave, LeaveOpened, taskVars
    <3>4. CASE StartCycle
      BY <2>1, <3>4 DEF StartCycle
    <3>5. CASE ReadBook \/ ToExits
      BY <1>0, <3>5 DEF ReadBook, ToExits, ToPhase
    <3>6. CASE ToEntries \/ EndCycle
      BY <3>6 DEF ToEntries, EndCycle, NoCycle
    <3> QED BY <3>1, <3>2, <3>3, <3>4, <3>5, <3>6, TasksStep
  <2> QED BY <2>3, <2>4
<1>2. CASE r \notin cycle.book
  <2>1. ReadBook
    <3>1. ~Quietly /\ ~Entering /\ ~StartCycle /\ ~ToExits /\ ~ToEntries /\ ~EndCycle /\ ~Leave
      BY <1>2 DEF Quietly, Entering, StartCycle, ToExits, ToEntries, EndCycle, NoCycle, Leave,
                  taskVars
    <3>2. ~(lock \in Tasks /\ Raise)
      BY <1>2, RaisedTasks DEF NoCycle
    <3>3. ~LeaveOpened
      BY <1>0, <1>2 DEF LeaveOpened, Cycle
    <3> QED BY <3>1, <3>2, <3>3, TasksStep
  <2>2. /\ cycle' = [cycle EXCEPT !.book =
             {[pos |-> p, protection |-> positions[p].protection] :
                p \in {q \in PositionIds : positions[q].status = "OPEN"}}]
        /\ phase'["trading"] = "stops" /\ positions' = positions
    BY <1>0, <2>1 DEF ReadBook, ToPhase, dbVars
  <2>3. positions[r.pos].status = "OPEN"
    BY <1>0, <2>2 DEF Cycle
  <2> QED BY <2>2, <2>3
<1> QED BY <1>1, <1>2

(* An entry given up on an answer, the cycle going on, has bought nothing. *)
LEMMA OpenAbandoned ==
  ASSUME Base, Account, Working, Hands, Kept, [Next]_vars,
         sec.op = "open", sec' = NoSection, ~Raise, ~LeaveOpened
  PROVE  held[sec.ticker] = 0
<1>0. TypeInv /\ Located /\ sec \in Section /\ sec'.at = "none" /\ sec' # sec
      /\ sec.at # "none" /\ sec.ticker \in Tickers
  <2>1. sec'.at = "none" /\ sec'.op = "none" /\ sec.at # "none"
    BY DEF NoSection, Working, Works, Placing
  <2> QED BY <2>1, BaseFacts DEF Located
<1>1. sec.at = "settleReply"
  <2>1. sec.at # "recordIntent"
    BY <1>0, ActsAt, RecordedRow
  <2>2. sec.at # "post"
    <3>1. ASSUME Post PROVE FALSE
      BY <1>0, <3>1 DEF Post, PostFilled, PostRefused, PostLost, PostPending, PostPartial,
         PostCancelled, OutcomeUnknown, Reply, Goto, Section
    <3> QED BY <1>0, <3>1, ActsAt
  <2>3. sec.at # "openRow"
    <3>1. ASSUME OpenFromFill PROVE FALSE
      BY <1>0, <3>1 DEF OpenFromFill, Section
    <3> QED BY <1>0, <3>1, ActsAt
  <2>4. sec.at # "stopRecord"
    <3>1. ASSUME StopRecord \/ StopRecordRefused PROVE FALSE
      BY <1>0, <3>1 DEF StopRecord, StopRecordRefused, Section
    <3> QED BY <1>0, <3>1, ActsAt
  <2>5. sec.at \notin Placing
    <3>1. ASSUME StopPost \/ StopPostLost \/ StopActivate PROVE FALSE
      BY <1>0, <3>1 DEF StopPost, StopPostLost, StopActivate, Goto, Section
    <3>2. ASSUME StopProtect \/ StopFail \/ StopFailUnwritten PROVE FALSE
      BY <1>0, <3>2 DEF StopProtect, StopFail, StopFailUnwritten, TryAgain, Section
    <3> QED BY <1>0, <3>1, <3>2, ActsAt DEF Placing
  <2> QED BY <2>1, <2>2, <2>3, <2>4, <2>5 DEF Working, Works
<1>2. sec.ans # "FILLED"
  <2>1. SettleReply
    BY <1>0, <1>1, ActsAt DEF SettleTwice
  <2>2. AfterOpen
    BY <2>1 DEF SettleReply
  <2> QED BY <1>0, <2>2 DEF AfterOpen, Goto, Section
<1>3. NoneOpen(sec.ticker) /\ \A k \in OrderKeys : BoughtOn(sec.ticker, k) => k = sec.key
  BY <1>1 DEF Hands, OpeningHand
<1>4. ASSUME NEW k \in OrderKeys, BoughtOn(sec.ticker, k) PROVE FALSE
  <2>1. k = sec.key /\ brokerOrders[k].st = "FILLED"
    BY <1>3, <1>4 DEF BoughtOn
  <2> QED BY <1>1, <1>2, <2>1, FilledAnswer DEF Hands
<1> QED BY <1>0, <1>3, <1>4 DEF Account, Flat, NoneBought

LEMMA EntriesHeldStep ==
  ASSUME Base, Account, StopMirrors, Working, Hands, EntriesHeld, Kept, [Next]_vars
  PROVE  EntriesHeld'
<1> SUFFICES ASSUME phase'["trading"] = "entries", NEW t \in Tickers, held'[t] > 0
             PROVE  t \in cycle'.port \cup cycle'.opened \/ (sec'.op = "open" /\ sec'.ticker = t)
  BY DEF EntriesHeld
<1>0. /\ TypeInv /\ sec \in Section /\ cycle \in Cycle /\ phase \in [Tasks -> Phases]
      /\ "trading" \in Tasks /\ held \in [Tickers -> Nat]
  BY BaseFacts DEF TypeInv, TypeOK, TasksOK, Tasks
<1>1. CASE ToEntries
  BY <1>1 DEF ToEntries, HeldTickers, brokerVars
<1>2. sec.op = "open" => lock = "trading" /\ ~(Raise /\ sec.op = "open")
  BY <1>0, RaisedTasks DEF Hands, OpeningHand
<1>3. CASE LeaveOpened /\ sec.at \in {"stopProtect", "stopFail"} /\ sec.op = "open"
  <2>1. held[t] # 0
    <3>1. ~Trades
      BY <1>3 DEF Trades, At
    <3>2. held[t] = 0 => held'[t] = 0
      BY <3>1, FillsStep
    <3> QED BY <3>2
  <2>2. cycle'.port = HeldTickers
    BY <1>0, <1>3 DEF LeaveOpened, Cycle
  <2> QED BY <1>0, <2>1, <2>2 DEF HeldTickers
<1>4. ASSUME phase["trading"] = "entries", cycle'.port = cycle.port, cycle'.opened = cycle.opened,
             ~(LeaveOpened /\ sec.op = "open")
      PROVE  t \in cycle'.port \cup cycle'.opened \/ (sec'.op = "open" /\ sec'.ticker = t)
  <2>1. CASE held[t] = 0
    <3>1. Trades /\ sec.op = "open" /\ t = sec.ticker
      BY <2>1, FillsStep
    <3>2. Reply("FILLED", sec.lots)
      BY <1>2, <3>1 DEF Trades
    <3> QED BY <1>0, <3>1, <3>2 DEF Reply, Section
  <2>2. CASE held[t] > 0 /\ ~(sec.op = "open" /\ sec.ticker = t)
    BY <1>4, <2>2 DEF EntriesHeld
  <2>3. CASE held[t] > 0 /\ sec.op = "open" /\ sec.ticker = t
    <3>1. CASE sec' = NoSection
      BY <1>2, <1>4, <2>3, <3>1, OpenAbandoned
    <3>2. CASE sec' = sec
      BY <2>3, <3>2
    <3>3. CASE Turns
      BY <2>3, <3>3, TurnsKeep
    <3>4. CASE Records
      BY <1>0, <2>3, <3>4, RecordedRow
    <3>5. CASE SettleReply /\ sec' # NoSection
      BY <1>0, <2>3, <3>5, SettledGoes
    <3>6. CASE Opens
      BY <2>3, <3>6, OpensAccount DEF Hands
    <3>7. sec # NoSection
      BY <2>3 DEF NoSection
    <3> QED BY <3>1, <3>2, <3>3, <3>4, <3>5, <3>6, <3>7, SectionMoves
  <2> QED BY <1>0, <2>1, <2>2, <2>3
<1>5. CASE Quietly \/ Entering
  <2>1. ASSUME LeaveOpened /\ sec.op = "open" PROVE FALSE
    <3>1. lock' = NoOne /\ lock = "trading"
      BY <1>2, <2>1 DEF LeaveOpened
    <3> QED BY <1>5, <3>1 DEF Quietly, Entering, NoOne
  <2> QED BY <1>4, <1>5, <2>1 DEF Quietly, Entering
<1>6. CASE lock \in Tasks /\ Raise
  <2>1. lock # "trading" /\ phase'["trading"] = phase["trading"] /\ cycle' = cycle
    BY <1>6, RaisedTasks
  <2> QED BY <1>2, <1>4, <2>1
<1>7. CASE Leave \/ (LeaveOpened /\ sec.op # "open")
  <2>1. phase' = phase /\ cycle' = cycle
    BY <1>7 DEF Leave, LeaveOpened, taskVars
  <2>2. ~(LeaveOpened /\ sec.op = "open") \/ Leave
    BY <1>7
  <2>3. CASE ~(LeaveOpened /\ sec.op = "open")
    BY <1>4, <2>1, <2>3
  <2>4. CASE LeaveOpened /\ sec.op = "open" /\ Leave
    <3>1. cycle'.port = HeldTickers /\ phase' = phase /\ cycle' = cycle
      BY <1>0, <2>1, <2>4 DEF LeaveOpened, Cycle
    <3>2. CASE held[t] > 0
      BY <3>1, <3>2 DEF HeldTickers
    <3>3. CASE held[t] = 0
      <4>1. Trades
        BY <3>3, FillsStep
      <4>2. Reply("FILLED", sec.lots)
        BY <1>2, <2>4, <4>1 DEF Trades
      <4>3. sec'.at = "settleReply"
        BY <1>0, <4>2 DEF Reply, Section
      <4>4. sec'.at = "none"
        BY <2>4 DEF Leave, NoSection
      <4> QED BY <4>3, <4>4
    <3> QED BY <1>0, <3>2, <3>3
  <2> QED BY <2>2, <2>3, <2>4
<1>8. ~StartCycle /\ ~ReadBook /\ ~ToExits /\ ~EndCycle
  BY <1>0 DEF StartCycle, ReadBook, ToExits, EndCycle, ToPhase
<1> QED BY <1>1, <1>3, <1>5, <1>6, <1>7, <1>8, TasksStep

-----------------------------------------------------------------------------
LEMMA BalanceInit == Init => BalanceInv
<1> SUFFICES ASSUME Init PROVE BalanceInv
  OBVIOUS
<1>1. /\ sec = NoSection /\ cycle = NoCycle /\ phase["trading"] = "sleep"
      /\ \A t \in Tickers : held[t] = 0
      /\ \A p \in PositionIds : positions[p] = NoPosition
      /\ \A s \in StopKeys : stops[s] = NoStop /\ brokerStops[s] = NoBrokerStop
      /\ \A k \in OrderKeys : brokerOrders[k] = NoBrokerOrder
  BY DEF Init, Tasks, AtFirst
<1>2. Base
  <2>1. StopsInv /\ TruthInv
    BY StopsInit, TruthInit
  <2>2. LiveInHand /\ Prompt /\ Sized
    BY <1>1 DEF LiveInHand, Prompt, Sized, Stands, StandingStop, NoSection, NoStop,
                NoBrokerStop, NoBrokerOrder
  <2> QED BY <2>1, <2>2 DEF Base, LiveInv
<1>3. \A t : \A k \in OrderKeys : ~BoughtOn(t, k) /\ ~SoldOn(t, k)
  BY <1>1 DEF BoughtOn, SoldOn, NoBrokerOrder
<1>4. \A t : \A p \in PositionIds : ~IsOpen(t, p)
  BY <1>1 DEF IsOpen, NoPosition
<1>5. Account /\ SaleExplained /\ SoldBare /\ Followed
  BY <1>1, <1>3, <1>4 DEF Account, Flat, Bought, Opened, Sold, SaleExplained, SoldBare, Followed
<1>6. StopMirrors /\ FiredHeld
  BY <1>1 DEF StopMirrors, FiredHeld, Stands, StandingStop, NoStop, NoBrokerStop, NoSection
<1>7. Working /\ Hands
  BY <1>1 DEF Working, Works, Hands, OpeningHand, ClosingHand, SettlingHand, StopHand, FillHand,
              PlaceHand, SubmitHand, Opening, Closing, Placing, NoSection
<1>8. BookHeld /\ EntriesHeld
  BY <1>1 DEF BookHeld, EntriesHeld, NoCycle
<1> QED BY <1>2, <1>5, <1>6, <1>7, <1>8 DEF BalanceInv

LEMMA BalanceStep ==
  ASSUME BalanceInv, Kept, [Next]_vars PROVE BalanceInv'
<1>0. /\ Base /\ Account /\ StopMirrors /\ Working
      /\ SaleExplained /\ SoldBare /\ FiredHeld /\ Followed
      /\ Hands /\ BookHeld /\ EntriesHeld
  BY DEF BalanceInv
<1>1. Base' /\ Account' /\ StopMirrors' /\ Working'
  BY <1>0, BaseStep, AccountStep, StopMirrorsStep, WorkingStep
<1>2. SaleExplained' /\ SoldBare' /\ FiredHeld' /\ Followed'
  BY <1>0, SaleExplainedStep, SoldBareStep, FiredHeldStep, FollowedStep
<1>3. Hands'
  <2>1. OpeningHand' /\ ClosingHand' /\ SettlingHand'
    BY <1>0, OpeningHandStep, ClosingHandStep, SettlingHandStep
  <2>2. StopHand' /\ FillHand' /\ PlaceHand'
    BY <1>0, StopHandStep, FillHandStep, PlaceHandStep
  <2>3. SubmitHand'
    BY <1>0, SubmitHandStep DEF Hands
  <2> QED BY <2>1, <2>2, <2>3 DEF Hands
<1>4. BookHeld' /\ EntriesHeld'
  BY <1>0, BookHeldStep, EntriesHeldStep
<1> QED BY <1>1, <1>2, <1>3, <1>4 DEF BalanceInv

(* At rest every fill is booked, so the account is flat or holds what the  *)
(* open position's row says, but for what a stop sold.                     *)
LEMMA BalanceAtRest ==
  ASSUME BalanceInv, "db" \notin Faults PROVE BooksBalance
<1> SUFFICES ASSUME NEW t \in Tickers, AtRest(t)
             PROVE  held[t] = BookedLots(t) \/ (held[t] < BookedLots(t) /\ SoldByStop(t))
  BY DEF BooksBalance
<1>0. Base /\ Account /\ SaleExplained /\ Followed /\ Tables
  BY BaseFacts DEF BalanceInv
<1>1. ASSUME NEW k \in OrderKeys, BoughtOn(t, k) \/ SoldOn(t, k) PROVE FALSE
  <2>1. orders[k].ticker = t
    BY <1>0, <1>1, BaseFacts DEF WriteAhead, BoughtOn, SoldOn
  <2>2. orders[k].status # "SUBMITTING"
    BY <1>0, <2>1, BaseFacts DEF AtRest, Unresolved
  <2>3. (Opening \/ Closing) /\ sec.key = k
    BY <1>0, <1>1, <2>2 DEF Followed
  <2>4. orders[k].ticker = sec.ticker
    BY <1>0, <2>3, BaseFacts DEF InHand, FillInHand
  <2> QED BY <2>1, <2>4 DEF AtRest
<1>2. NoneBought(t) /\ NoneSold(t)
  BY <1>1 DEF NoneBought, NoneSold
<1>3. \A p : p \in OpenOn(positions, t) <=> p \in PositionIds /\ IsOpen(t, p)
  BY <1>0 DEF OpenOn, IsOpen, Tables
<1>4. CASE OpenOn(positions, t) = {}
  <2>1. NoneOpen(t)
    BY <1>3, <1>4 DEF NoneOpen
  <2>2. held[t] = 0
    BY <1>0, <1>2, <2>1 DEF Account, Flat
  <2> QED BY <1>4, <2>2 DEF BookedLots
<1>5. CASE OpenOn(positions, t) # {}
  <2>1. PICK p \in OpenOn(positions, t) : p = CHOOSE q \in OpenOn(positions, t) : TRUE
    BY <1>5
  <2>2. BookedLots(t) = positions[p].lots
    BY <1>5, <2>1 DEF BookedLots
  <2>3. p \in PositionIds /\ IsOpen(t, p) /\ positions[p].status = "OPEN"
    BY <1>3, <2>1 DEF IsOpen
  <2>4. held[t] \in {0, positions[p].lots}
    BY <1>0, <2>3 DEF Account, Opened
  <2>5. positions[p].lots \in Nat /\ positions[p].lots > 0
    BY <1>0, <2>3, OpenHasLots
  <2>6. ~StopSelling(p)
    <3>1. StopSelling(p) => positions[p].ticker = sec.ticker
      BY <1>0, BaseFacts DEF StopSelling, InHand, PositionInHand
    <3> QED BY <2>3, <3>1 DEF AtRest, IsOpen
  <2>7. held[t] # positions[p].lots => SoldByStop(t)
    BY <1>0, <1>2, <2>3, <2>6 DEF SaleExplained
  <2> QED BY <2>2, <2>4, <2>5, <2>7
<1> QED BY <1>4, <1>5

(***************************************************************************)
(* The books balance: whatever task, stop or lost answer comes between the *)
(* steps of whatever operation, the account of a ticker at rest holds what *)
(* its open position says, or fewer because a stop sold them and is not    *)
(* yet recorded.  Of a database that writes, a broker whose orders fill or *)
(* fail as they arrive, and stops whose posts are answered.                *)
(***************************************************************************)
THEOREM BooksStayBalanced ==
  ASSUME "db" \notin Faults, Reliable PROVE Spec => []BooksBalance
<1>1. BalanceInv /\ [Next]_vars => BalanceInv'
  BY BalanceStep DEF Kept, NothingLost
<1> QED BY BalanceInit, <1>1, BalanceAtRest, PTL DEF Spec

(* Only an exit's row is settled from what the exchange sold on a stop.    *)
SalesAreExits ==
  \A k \in OrderKeys : orders[k].brokerId = "exchange" => orders[k].intent = "EXIT"

LEMMA SalesAreExitsStep ==
  ASSUME TypeInv, OrderInHand, SalesAreExits, [Next]_vars
  PROVE  SalesAreExits'
<1> SUFFICES ASSUME NEW k \in OrderKeys, orders'[k].brokerId = "exchange"
             PROVE  orders'[k].intent = "EXIT"
  BY DEF SalesAreExits
<1>0. orders \in [OrderKeys -> OrderRow]
  BY DEF TypeInv, TypeOK, TablesOK
<1>1. CASE orders'[k] = orders[k]
  BY <1>1 DEF SalesAreExits
<1>2. CASE orders'[k] # orders[k]
  <2>1. RowWritten(k)
    BY <1>2, RowsStep DEF RowWritten
  <2>2. SettledNow(k)
    BY <2>1 DEF RowWritten, Inserted
  <2>3. sec.op = "stop" /\ k = sec.key /\ sec.at = "settleReply"
    BY <2>2 DEF SettledNow, At
  <2>4. orders[k].intent = "EXIT" /\ orders[k].status # "ABSENT"
    BY <2>3 DEF OrderInHand, OrderPlaces, IntentOf
  <2>5. SettleReply
    BY <1>2, <2>4, OrdersStay
  <2>6. \E id : orders' = Settle(orders, sec.key, sec.ans, sec.got, id)
    BY <2>5 DEF SettleReply
  <2> QED BY <1>0, <2>3, <2>4, <2>6 DEF Settle, OrderRow
<1> QED BY <1>1, <1>2

(* At rest a filled entry is neither unresolved nor in hand, so that it    *)
(* has been booked.                                                        *)
LEMMA BookedAtRest ==
  ASSUME BalanceInv, SalesAreExits
  PROVE  FilledEntryIsBooked
<1> SUFFICES ASSUME NEW k \in OrderKeys, Terminal(k), orders[k].intent = "ENTRY",
                    orders[k].filled > 0, AtRest(orders[k].ticker), ~BookedEntry(k)
             PROVE  FALSE
  BY DEF FilledEntryIsBooked
<1>0. /\ Base /\ Followed /\ Prompt /\ SettledTruth /\ WriteAhead /\ InHand
      /\ orders \in [OrderKeys -> OrderRow] /\ brokerOrders \in [OrderKeys -> BrokerOrder]
  BY BaseFacts DEF BalanceInv, Base
<1>1. orders[k].brokerId = "none"
  BY <1>0 DEF SalesAreExits, OrderRow, BrokerIds
<1>2. brokerOrders[k].filled > 0
  BY <1>0, <1>1 DEF SettledTruth
<1>3. brokerOrders[k].st = "FILLED"
  BY <1>0, <1>2 DEF Prompt
<1>4. brokerOrders[k].intent = "ENTRY" /\ brokerOrders[k].ticker = orders[k].ticker
  BY <1>0, <1>3 DEF WriteAhead
<1>5. BoughtOn(orders[k].ticker, k)
  BY <1>3, <1>4 DEF BoughtOn, BookedEntry
<1>6. orders[k].ticker \in Tickers
  BY <1>3, <1>4, BaseFacts, <1>0 DEF Known
<1>7. Opening /\ sec.key = k
  BY <1>0, <1>5, <1>6 DEF Followed, Terminal, TerminalOrder
<1>8. orders[k].ticker = sec.ticker
  BY <1>0, <1>7 DEF InHand, FillInHand
<1> QED BY <1>8 DEF AtRest

(***************************************************************************)
(* No entry's fill is lost: one that is settled has its position once the  *)
(* ticker is at rest, though the post that bought it was not answered and  *)
(* the fill was found cycles later, beside the drain, stops that sell and  *)
(* other entries.  Of the same database and broker as above.  Slow fills,  *)
(* with which the code does lose one, are the run cancelled_entry.         *)
(***************************************************************************)
THEOREM FilledEntriesAreBooked ==
  ASSUME "db" \notin Faults, Reliable PROVE Spec => []FilledEntryIsBooked
<1> DEFINE IInv == BalanceInv /\ SalesAreExits
<1>1. Init => IInv
  BY BalanceInit DEF SalesAreExits, Init, NoOrder
<1>2. IInv /\ [Next]_vars => IInv'
  <2> SUFFICES ASSUME IInv, [Next]_vars PROVE IInv'
    OBVIOUS
  <2>1. TypeInv /\ OrderInHand
    BY BaseFacts DEF BalanceInv, InHand
  <2> QED BY <2>1, BalanceStep, SalesAreExitsStep DEF Kept, NothingLost
<1>3. IInv => FilledEntryIsBooked
  BY BookedAtRest
<1> QED BY <1>1, <1>2, <1>3, PTL DEF Spec

(* Nobody but the owner ends a halt.                                       *)
LEMMA HaltStays ==
  ASSUME "halt" \notin Faults, halted, [Next]_vars
  PROVE  halted'
<1>1. halted' = halted \/ halted' = TRUE
  <2>1. CASE Holder
    BY <2>1 DEF Holder, RecordIntent, RecordNoLots, RecordExecution, NewRow, Post,
     PostFilled, PostRefused, PostLost, PostPending, PostPartial, PostCancelled,
     Query, QueryLost, CancelOrder, CancelOrderLost, Reread, RereadLost, SettleReply,
     SettleTwice, Lookup, LookupFails, OpenFromFill, StopRecord, StopRecordRefused,
     StopPost, StopPostLost, StopActivate, StopProtect, StopFail,
     CancelStop, CancelStopLost, CancelSettle, Demote, ExecSettle,
     ExecLocal, FinishClose, StartCooldown, Shrink, dbVars
  <2>2. CASE DbFails
    BY <2>2 DEF DbFails, WriteFails, StopSettleFails, StopFailUnwritten,
                CooldownUnwritten, dbVars
  <2>3. CASE Trading \/ Drain
    BY <2>3 DEF Trading, StartCycle, ReadBook, ToExits, ToEntries, EndCycle, BeginResolve,
                BeginCloseExecuted, BeginClose, BeginOpen, Drain, Signal, DrainPoll,
                DrainPolled, dbVars
  <2>4. CASE Environment
    BY <2>4 DEF Environment, Halt, Resume, CooldownEnds, Broker, BrokerFill, BrokerCancel,
                StopFires, StopRefused, StopSellsOn, dbVars
  <2>5. CASE UNCHANGED vars
    BY <2>5 DEF vars, dbVars
  <2> QED BY <2>1, <2>2, <2>3, <2>4, <2>5 DEF Next, Process
<1> QED BY <1>1

(***************************************************************************)
(* Rule 11 for what is bought: whichever write fails, of whichever row and *)
(* at whichever step, an entry that is settled with its fill has its       *)
(* position once the ticker is at rest, or trading is halted.  The books   *)
(* balance up to the write that is lost, and that write halts; of a broker *)
(* whose orders fill or fail as they arrive, lookups and stops that are    *)
(* answered, and an owner who does not resume.                             *)
(***************************************************************************)
THEOREM UnbookedEntriesHalt ==
  ASSUME Reliable, "halt" \notin Faults PROVE Spec => []UnbookedEntryHalts
<1> DEFINE IInv == halted \/ (BalanceInv /\ SalesAreExits)
<1>1. Init => IInv
  BY BalanceInit DEF SalesAreExits, Init, NoOrder
<1>2. IInv /\ [Next]_vars => IInv'
  <2>1. ASSUME BalanceInv /\ SalesAreExits, [Next]_vars, ~halted'
        PROVE  BalanceInv' /\ SalesAreExits'
    <3>1. TypeInv /\ OrderInHand
      BY <2>1, BaseFacts DEF BalanceInv, InHand
    <3> QED BY <2>1, <3>1, BalanceStep, SalesAreExitsStep DEF Kept, NothingLost
  <2>2. halted /\ [Next]_vars => halted'
    BY HaltStays
  <2> QED BY <2>1, <2>2
<1>3. IInv => UnbookedEntryHalts
  BY BookedAtRest DEF FilledEntryIsBooked, UnbookedEntryHalts
<1> QED BY <1>1, <1>2, <1>3, PTL DEF Spec
=============================================================================
