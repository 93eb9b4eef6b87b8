----------------------------- MODULE SimExchange -----------------------------
(***************************************************************************)
(* The backtester's broker (sandbox/exchange.py) under the trading cycle   *)
(* that sandbox/backtest.py runs four times a bar, at its open, low, high  *)
(* and close.  A market order is answered at once with the open of the     *)
(* ticker's next bar, which the strategies do not see; a standing stop is  *)
(* held against the low of a bar once, when the bar is entered.  A ticker  *)
(* may have no bar at a moment, and its history may end before another's;  *)
(* the sessions are those of the first ticker.  A lot is one share; money  *)
(* is in hundredths, so a level is exact.                                  *)
(***************************************************************************)
EXTENDS RiskRules, Functions, Sequences

CONSTANTS
  Symbols,            \* the tickers with bars
  Lead,               \* the first of them
  BarPrices,          \* what a share may trade at
  LastBar,            \* moments of the timeline
  SimCash,            \* the cash at the start, in hundredths
  MaxLots,            \* the largest order
  StopPct, TargetPct, SlippagePct,
  FeePct, FeeMin      \* Commission

ASSUME SimBounds ==
  /\ IsFiniteSet(Symbols) /\ Lead \in Symbols
  /\ {LastBar, SimCash, MaxLots, SlippagePct, FeePct, FeeMin} \subseteq Nat
  /\ BarPrices \subseteq Nat \ {0} /\ BarPrices # {} /\ StopPct \in 1 .. 99 /\ TargetPct \in Nat
  /\ \A p \in BarPrices : FeeMin <= p * (100 - StopPct)

VARIABLES
  moment, mark,   \* the moment of the timeline, and the mark within it
  bar,            \* each ticker's latest bar, or NoBar
  following,      \* the open of its next bar, 0 when there is none
  checked,        \* moments whose bars' stops have been checked
  simCash, holding,  \* what the exchange holds for the account
  simStop,        \* the stop of each ticker
  executedStops,  \* fills of stops the cycle has not booked
  row,            \* the bot's position in each ticker
  bookedCash,     \* what the cash is by the bot's own fills
  stopsRefused,   \* reject_stops
  simStep,        \* how far the cycle of this mark is
  tooEarly        \* a stop was filled on a bar it was placed in

simVars == <<moment, mark, bar, following, checked, simCash, holding, simStop,
             executedStops, row, bookedCash, stopsRefused, simStep, tooEarly>>

Marks == <<"open", "low", "high", "close">>
NoBar == [at |-> 0, open |-> 0, low |-> 0, high |-> 0, close |-> 0]
NoSimStop == [st |-> "none", lots |-> 0, level |-> 0, placedIn |-> 0]
NoFill == [lots |-> 0, price |-> 0]
NoRowHere == [lots |-> 0, entry |-> 0, local |-> TRUE]

SimInit ==
  /\ moment = 0 /\ mark = Len(Marks)
  /\ bar = [s \in Symbols |-> NoBar]
  /\ following = [s \in Symbols |-> Min(BarPrices)]  \* nobody holds anything in a first bar
  /\ checked = {}
  /\ simCash = SimCash /\ bookedCash = SimCash
  /\ holding = [s \in Symbols |-> 0]
  /\ simStop = [s \in Symbols |-> NoSimStop]
  /\ executedStops = [s \in Symbols |-> NoFill]
  /\ row = [s \in Symbols |-> NoRowHere]
  /\ stopsRefused \in BOOLEAN
  /\ simStep = "done" /\ tooEarly = FALSE

Fee(turnover) == Max({(turnover * FeePct) \div 100, FeeMin})

(* _slipped: the fill, moved against the trader. *)
SlippedBuy(price) == price * (100 + SlippagePct)
SlippedSell(price) == price * (100 - SlippagePct)

-----------------------------------------------------------------------------
(* advance *)

(* Every bar entered is checked, whether or not a stop stands in it.        *)
CheckedAfter(bars) == checked \cup {bars[s].at : s \in Symbols}

(* _fire_stops, at the stop or at the open of a bar that gaps through it.   *)
Fires(bars) ==
  {s \in Symbols : /\ simStop[s].st = "ACTIVE" /\ bars[s] # NoBar
                   /\ bars[s].at \notin checked
                   /\ 100 * bars[s].low <= simStop[s].level}
StopFill(b, stop) == [lots |-> stop.lots, price |-> Min({stop.level, 100 * b.open})]

Advance(bars) ==
  LET fired == Fires(bars)
      fill == [s \in Symbols |-> StopFill(bars[s], simStop[s])]
      proceeds == [s \in fired |-> fill[s].lots * fill[s].price - Fee(fill[s].lots * fill[s].price)]
  IN /\ bar' = bars
     /\ simCash' = simCash + SumFunction(proceeds)
     /\ holding' = [s \in Symbols |-> IF s \in fired THEN Max({0, holding[s] - fill[s].lots})
                                                     ELSE holding[s]]
     /\ executedStops' = [s \in Symbols |-> IF s \in fired THEN fill[s] ELSE executedStops[s]]
     /\ simStop' = [s \in Symbols |-> IF s \in fired THEN [simStop[s] EXCEPT !.st = "EXECUTED"]
                                                     ELSE simStop[s]]
     /\ checked' = CheckedAfter(bars)
     /\ tooEarly' = (tooEarly \/ \E s \in fired : bars[s].at <= simStop[s].placedIn)
     /\ simStep' = "stops"

BarsOf(s) ==
  {[at |-> moment + 1, open |-> following[s], low |-> l, high |-> h, close |-> c] :
     l \in {p \in BarPrices : p <= following[s]}, h \in {p \in BarPrices : p >= following[s]},
     c \in BarPrices}

(* The next moment: some tickers have a bar in it, the others keep theirs.  *)
NextMoment ==
  /\ simStep = "done" /\ mark = Len(Marks) /\ moment < LastBar
  /\ \E present \in SUBSET {s \in Symbols : following[s] # 0} :
       /\ present # {}
       /\ \E bars \in [Symbols -> (UNION {BarsOf(s) : s \in present}) \cup {bar[s] : s \in Symbols}] :
            /\ \A s \in Symbols :
                 IF s \in present
                   THEN bars[s] \in BarsOf(s) /\ bars[s].close \in bars[s].low .. bars[s].high
                   ELSE bars[s] = bar[s]
            /\ Advance(bars)
       /\ \E opens \in [present -> BarPrices \cup {0}] :
            following' = [s \in Symbols |-> IF s \in present THEN opens[s] ELSE following[s]]
  /\ moment' = moment + 1 /\ mark' = 1
  /\ UNCHANGED <<row, bookedCash, stopsRefused>>

NextMark ==
  /\ simStep = "done" /\ mark < Len(Marks) /\ moment > 0
  /\ mark' = mark + 1
  /\ Advance(bar)
  /\ UNCHANGED <<moment, following, row, bookedCash, stopsRefused>>

-----------------------------------------------------------------------------
(* The cycle. *)

(* get_trading_schedule: a session for each bar of the first ticker.        *)
InLeadSession == bar[Lead].at = moment

(* Out of session a cycle does nothing, though stops may have fired.        *)
CycleClosed ==
  /\ simStep = "stops" /\ ~InLeadSession /\ simStep' = "done"
  /\ UNCHANGED <<moment, mark, bar, following, checked, simCash, holding, simStop,
                 executedStops, row, bookedCash, stopsRefused, tooEarly>>

(* get_executed_stop_fills and close_executed_stop: the position is closed  *)
(* with the fill of its stop.                                               *)
BookStops ==
  /\ simStep = "stops" /\ InLeadSession /\ simStep' = "exits"
  /\ LET booked == {s \in Symbols : executedStops[s] # NoFill /\ ~row[s].local}
         took == [s \in booked |-> executedStops[s].lots * executedStops[s].price
                     - Fee(executedStops[s].lots * executedStops[s].price)]
     IN /\ row' = [s \in Symbols |-> IF s \in booked THEN NoRowHere ELSE row[s]]
        /\ executedStops' = [s \in Symbols |-> IF s \in booked THEN NoFill ELSE executedStops[s]]
        /\ bookedCash' = bookedCash + SumFunction(took)
  /\ UNCHANGED <<moment, mark, bar, following, checked, simCash, holding, simStop,
                 stopsRefused, tooEarly>>

(* get_last_price: the mark of the ticker's own bar. *)
MarkPrice(s) == bar[s][Marks[mark]]

SimLimits == [stopPct |-> StopPct, targetPct |-> TargetPct, maxDays |-> 0]
Triggered(s, days) ==
  Evaluate([local |-> row[s].local, entry |-> row[s].entry], 100 * MarkPrice(s), days,
           mark = Len(Marks), SimLimits) # NoExit

(* Mutant: the stop is not cancelled. *)
CancelledLeft(stop) == stop

(* cancel_stop_order: whatever its status was. *)
Cancelled(stop) == [stop EXCEPT !.st = "CANCELLED"]

(* close_position: the stop is cancelled, the position is the bot's to      *)
(* guard, and the shares are sold at the next open, if there is one.        *)
Sell(s, days) ==
  LET price == SlippedSell(following[s])
      took == row[s].lots * price - Fee(row[s].lots * price)
  IN /\ simStep = "exits" /\ row[s].lots > 0 /\ Triggered(s, days)
     /\ simStop' = [simStop EXCEPT ![s] = IF row[s].local THEN @ ELSE Cancelled(@)]
     /\ IF following[s] = 0
          THEN /\ ~row[s].local
               /\ row' = [row EXCEPT ![s].local = TRUE]
               /\ UNCHANGED <<simCash, holding, bookedCash>>
          ELSE /\ row' = [row EXCEPT ![s] = NoRowHere]
               /\ holding' = [holding EXCEPT ![s] = Max({0, @ - row[s].lots})]
               /\ simCash' = simCash + took /\ bookedCash' = bookedCash + took
     /\ UNCHANGED <<moment, mark, bar, following, checked, executedStops,
                    stopsRefused, simStep, tooEarly>>

EndExits ==
  /\ simStep = "exits" /\ simStep' = "entries"
  /\ UNCHANGED <<moment, mark, bar, following, checked, simCash, holding, simStop,
                 executedStops, row, bookedCash, stopsRefused, tooEarly>>

(* What the account must have for an order. *)
Costs(lots, price) == lots * price + Fee(lots * price)

(* open_position: a buy at the next open, refused when the cash does not    *)
(* cover it, then the stop; a refused stop leaves the position LOCAL.       *)
Purchase(s, lots) ==
  LET price == SlippedBuy(following[s])
      paid == lots * price + Fee(lots * price)
  IN /\ simStep = "entries" /\ bar[s] # NoBar /\ row[s].lots = 0
     /\ following[s] # 0 /\ Costs(lots, price) <= simCash
     /\ simCash' = simCash - paid /\ bookedCash' = bookedCash - paid
     /\ holding' = [holding EXCEPT ![s] = @ + lots]
     /\ row' = [row EXCEPT ![s] = [lots |-> lots, entry |-> price, local |-> stopsRefused]]
     /\ simStop' = [simStop EXCEPT ![s] =
          IF stopsRefused THEN @
          ELSE [st |-> "ACTIVE", lots |-> lots, level |-> StopLevel(price, StopPct) \div 100,
                placedIn |-> bar[s].at]]
     /\ UNCHANGED <<moment, mark, bar, following, checked, executedStops,
                    stopsRefused, simStep, tooEarly>>

EndEntries ==
  /\ simStep = "entries" /\ simStep' = "done"
  /\ UNCHANGED <<moment, mark, bar, following, checked, simCash, holding, simStop,
                 executedStops, row, bookedCash, stopsRefused, tooEarly>>

SimNext ==
  \/ NextMoment \/ NextMark \/ CycleClosed \/ BookStops \/ EndExits \/ EndEntries
  \/ \E s \in Symbols : \/ \E days \in {Unmeasured, 0} : Sell(s, days)
                        \/ \E lots \in 1 .. MaxLots : Purchase(s, lots)

SimSpec == SimInit /\ [][SimNext]_simVars

-----------------------------------------------------------------------------
(* After each cycle of a session the simulated account is what the bot's    *)
(* books say: the cash is that of the fills it booked, the shares those of  *)
(* its positions, whenever a stop fired, and no stop sells what an exit     *)
(* sold already.  The account is never overdrawn, with two tickers wanting  *)
(* the same cash and a fee on top.  And no stop is filled on a bar that had *)
(* begun when it was placed: its low may have come before the entry.        *)
SimulationMatchesBooks ==
  /\ simStep = "done" /\ InLeadSession =>
       simCash = bookedCash /\ \A s \in Symbols : holding[s] = row[s].lots
  /\ simCash >= 0
  /\ ~tooEarly
=============================================================================
