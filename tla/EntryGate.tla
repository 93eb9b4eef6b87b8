------------------------------ MODULE EntryGate ------------------------------
(***************************************************************************)
(* What the bot commits to: the entry pass of app/loops.py over every      *)
(* strategy and ticker, risk/gate.py and risk/sizing.py on the portfolio   *)
(* that was read, open_position as far as the account is concerned, and    *)
(* the broker that answers.  Three things make the limits hard to keep.    *)
(* The broker's portfolio may not show the last fill yet; an order may be  *)
(* left unresolved, and is then in neither the portfolio nor the positions *)
(* table; and the price of the fill is not the price it was sized on.      *)
(* One share is a lot, and money is whole roubles.                         *)
(***************************************************************************)
EXTENDS RiskRules, Functions, SequencesExt

CONSTANTS
  Tickers,        \* the watchlist
  Strategies,     \* how many strategies are enabled
  Allocated, SizePct, ReservePct, MaxPositions,  \* the risk limits
  RefPrices,         \* reference prices
  Slip,           \* how far above its reference an entry may fill
  MaxEntries      \* entries posted in one behaviour

ASSUME GateLimits ==
  /\ {Strategies, Allocated, MaxPositions, Slip, MaxEntries} \subseteq Nat
  /\ RefPrices \subseteq Nat \ {0}
  /\ SizePct \in 1 .. 100 /\ ReservePct \in 0 .. 99
  /\ IsFiniteSet(Tickers) /\ Tickers # {}

VARIABLES
  account,     \* at the broker: shares, what they cost, roubles
  waiting,     \* entries posted and neither filled nor dead: shares, roubles blocked, slippage
  arrived,     \* shares of such entries that filled and are not resolved here
  rowLots,     \* lots of the open row of each ticker, 0 without one
  cooling,     \* tickers in their re-entry cooldown
  portfolio,   \* what get_portfolio last answered
  behind,      \* the account before the last fill, while a read may still answer it
  lagged,      \* the last read answered that, or a fill came after it
  turn,        \* how far the entry pass is, 0 between passes
  openedThisPass,
  extra,       \* paid for each ticker above the price it was sized on
  clamped,     \* an entry came out smaller than it was sized
  overlooked,  \* an entry was decided on a portfolio without another's order or fill
  entries      \* posted so far

gateVars == <<account, waiting, arrived, rowLots, cooling, portfolio, behind, lagged,
              turn, openedThisPass, extra, clamped, overlooked, entries>>

NoOrder == [lots |-> 0, blocked |-> 0, above |-> 0]
NoLots == [t \in Tickers |-> 0]
Total(f) == SumFunction(f)

(* get_portfolio: the shares held, what they cost, and the roubles that no  *)
(* order blocks, never below zero (_rub_buying_power).                      *)
PortfolioOf(a) ==
  [held |-> {t \in Tickers : a.lots[t] > 0}, openCost |-> Total(a.paid),
   cash |-> Max({0, a.roubles - Total([t \in Tickers |-> waiting[t].blocked])})]

Limits == [allocated |-> Allocated, sizePct |-> SizePct, reservePct |-> ReservePct,
           maxPositions |-> MaxPositions, stopPct |-> 10, targetPct |-> 20, maxDays |-> 2]

GateInit ==
  /\ account = [lots |-> NoLots, paid |-> NoLots, roubles |-> Allocated]
  /\ waiting = [t \in Tickers |-> NoOrder]
  /\ arrived = NoLots /\ rowLots = NoLots /\ extra = NoLots
  /\ cooling = {} /\ openedThisPass = {}
  /\ portfolio = PortfolioOf(account)
  /\ behind = account
  /\ lagged = FALSE /\ clamped = FALSE /\ overlooked = FALSE
  /\ turn = 0 /\ entries = 0

(* One answer of get_portfolio: of the account as it is, or as it was       *)
(* before its last fill.                                                    *)
Read(a) ==
  \/ /\ portfolio' = PortfolioOf(a) /\ lagged' = FALSE /\ behind' = a
  \/ /\ behind # a
     /\ portfolio' = PortfolioOf(behind) /\ lagged' = TRUE /\ UNCHANGED behind

(* resolve_unfinished at the start of a cycle, for the entries whose answer *)
(* comes: a fill opens the row of its ticker, unless there is one.          *)
Resolved(answered) ==
  /\ rowLots' = [t \in Tickers |-> IF t \in answered /\ rowLots[t] = 0
                                   THEN arrived[t] ELSE rowLots[t]]
  /\ arrived' = [t \in Tickers |-> IF t \in answered THEN 0 ELSE arrived[t]]

BeginPass ==
  /\ turn = 0 /\ entries < MaxEntries
  /\ \E answered \in SUBSET {t \in Tickers : arrived[t] > 0} : Resolved(answered)
  /\ Read(account)
  /\ turn' = 1 /\ openedThisPass' = {}
  /\ cooling' \in SUBSET cooling
  /\ UNCHANGED <<account, waiting, extra, clamped, overlooked, entries>>

(* Strategies outside, tickers inside, in the watchlist's order.            *)
WatchOrder == SetToSeq(Tickers)
Looking == IF turn = 0 THEN {} ELSE {WatchOrder[1 + ((turn - 1) % Len(WatchOrder))]}
Onwards == turn' = (turn + 1) % (1 + Strategies * Len(WatchOrder))

Decision(t, price) ==
  IF t \in openedThisPass THEN Rejected("DUPLICATE_TICKER")
  ELSE Check([ticker |-> t, lotCost |-> price, cooldown |-> t \in cooling,
              session |-> TRUE, trading |-> TRUE, buy |-> TRUE], portfolio, FALSE, Limits)

(* Mutant: the row is taken from the portfolio. *)
AlreadyOpenByPortfolio(t) == t \in portfolio.held
AlreadyOpen(t) == rowLots[t] > 0

(* No candles, no signal, an instrument that does not resolve; a rejected   *)
(* signal; or an approved one that open_position refuses because the ticker *)
(* has a row: the pass goes on.                                             *)
PassedOver(t) ==
  /\ turn > 0 /\ Onwards
  /\ UNCHANGED <<account, waiting, arrived, rowLots, cooling, portfolio, behind, lagged,
                 openedThisPass, extra, clamped, overlooked, entries>>

(* get_max_lots: what the broker would sell for the roubles not blocked.    *)
AllowedLots(price) == PortfolioOf(account).cash \div price

(* Mutant: the portfolio is read once a pass. *)
ReadOnceAPass(a) == behind' = a /\ UNCHANGED <<portfolio, lagged>>

(* The portfolio is read again after each entry of a pass.                  *)
ReadAgain(a) == Read(a)

(* open_position, with the outcome the broker's reply gives it.             *)
Enter(t, price, fillPrice) ==
  LET sized == Decision(t, price).lots
      got == Min({sized, AllowedLots(fillPrice)})
      bought == [account EXCEPT !.lots[t] = @ + got, !.paid[t] = @ + got * fillPrice,
                                !.roubles = @ - got * fillPrice]
  IN /\ sized > 0 /\ ~AlreadyOpen(t)
     /\ entries < MaxEntries /\ entries' = entries + 1
     /\ overlooked' = (overlooked \/ lagged \/ \E u \in Tickers : waiting[u].lots > 0)
     /\ clamped' = (clamped \/ (got < sized /\ ~overlooked'))
     /\ \/ \* the fill comes with the reply
           /\ got > 0
           /\ account' = bought
           /\ rowLots' = [rowLots EXCEPT ![t] = got]
           /\ extra' = [extra EXCEPT ![t] = @ + got * (fillPrice - price)]
           /\ ReadAgain(bought)
           /\ openedThisPass' = openedThisPass \cup {t}
           /\ Onwards
           /\ UNCHANGED waiting
        \/ \* refused: by the broker, or because nothing can be bought
           /\ Onwards
           /\ UNCHANGED <<account, waiting, rowLots, portfolio, behind, lagged,
                          openedThisPass, extra>>
        \/ \* unknown: BrokerUnavailable ends the cycle; the order may stand
           /\ got > 0
           /\ turn' = 0
           /\ \E stands \in BOOLEAN :
                waiting' = IF stands
                           THEN [waiting EXCEPT ![t] =
                                   [lots |-> @.lots + got,
                                    blocked |-> @.blocked + got * fillPrice,
                                    above |-> @.above + got * (fillPrice - price)]]
                           ELSE waiting
           /\ UNCHANGED <<account, rowLots, portfolio, behind, lagged, openedThisPass, extra>>
     /\ UNCHANGED <<arrived, cooling>>

(* At the broker: an entry that was left unresolved fills, or dies.         *)
WaitingFills(t) ==
  LET w == waiting[t]
      bought == [account EXCEPT !.lots[t] = @ + w.lots, !.paid[t] = @ + w.blocked,
                                !.roubles = @ - w.blocked]
  IN /\ w.lots > 0
     /\ account' = bought /\ behind' = account
     /\ arrived' = [arrived EXCEPT ![t] = @ + w.lots]
     /\ waiting' = [waiting EXCEPT ![t] = NoOrder]
     /\ extra' = [extra EXCEPT ![t] = @ + w.above]
     /\ lagged' = TRUE
     /\ UNCHANGED <<rowLots, cooling, portfolio, turn, openedThisPass,
                    clamped, overlooked, entries>>

WaitingDies(t) ==
  /\ waiting[t].lots > 0
  /\ waiting' = [waiting EXCEPT ![t] = NoOrder]
  /\ UNCHANGED <<account, arrived, rowLots, cooling, portfolio, behind, lagged, turn,
                 openedThisPass, extra, clamped, overlooked, entries>>

(* Between passes: a position's trigger fires and its row's lots are sold.  *)
Exit(t, price, days, closing) ==
  LET lots == rowLots[t]
      cost == (account.paid[t] * lots) \div account.lots[t]
  IN /\ turn = 0 /\ lots > 0 /\ account.lots[t] >= lots
     /\ Evaluate([local |-> TRUE, entry |-> account.paid[t] \div account.lots[t]],
                 price, days, closing, Limits) # NoExit
     /\ account' = [account EXCEPT !.lots[t] = @ - lots, !.paid[t] = @ - cost,
                                   !.roubles = @ + lots * price]
     /\ behind' = account
     /\ rowLots' = [rowLots EXCEPT ![t] = 0]
     /\ extra' = [extra EXCEPT ![t] = 0]
     /\ cooling' = cooling \cup {t}
     /\ UNCHANGED <<waiting, arrived, portfolio, lagged, turn, openedThisPass,
                    clamped, overlooked, entries>>

GateNext ==
  \/ BeginPass
  \/ \E t \in Looking : \/ PassedOver(t)
                        \/ \E price \in RefPrices, slip \in {0, Slip} : Enter(t, price, price + slip)
  \/ \E t \in Tickers :
       \/ WaitingFills(t) \/ WaitingDies(t)
       \/ \E price \in RefPrices, days \in {Unmeasured, 0, 2}, closing \in BOOLEAN :
            Exit(t, price, days, closing)

GateSpec == GateInit /\ [][GateNext]_gateVars
-----------------------------------------------------------------------------
GateTypeOK ==
  /\ account \in [lots : [Tickers -> Nat], paid : [Tickers -> Nat], roubles : Nat]
  /\ waiting \in [Tickers -> [lots : Nat, blocked : Nat, above : Nat]]
  /\ {arrived, rowLots, extra} \subseteq [Tickers -> Nat]
  /\ cooling \cup openedThisPass \subseteq Tickers
  /\ turn \in 0 .. Strategies * Len(WatchOrder) /\ entries \in 0 .. MaxEntries
  /\ {lagged, clamped, overlooked} \subseteq BOOLEAN

(* Unless an entry was decided on a portfolio that did not show another's   *)
(* order or fill, no more tickers are held or ordered than MAX_POSITIONS,   *)
(* they cost no more than the allocated capital and the slippage of their   *)
(* fills, and the reserve covers that slippage: get_max_lots cuts no entry  *)
(* for want of roubles.                                                     *)
LimitsKept ==
  overlooked \/
    /\ Cardinality({t \in Tickers : account.lots[t] + waiting[t].lots > 0}) <= MaxPositions
    /\ Total(account.paid) + Total([t \in Tickers |-> waiting[t].blocked])
         <= Allocated + Total(extra) + Total([t \in Tickers |-> waiting[t].above])
    /\ ~clamped

(* Shares of a ticker already held are never bought again, however far the  *)
(* portfolio lags: only an entry left unresolved can still add to them.     *)
HeldIsNotBoughtAgain ==
  [][\A t \in Tickers :
       account.lots[t] > 0 /\ account'.lots[t] > account.lots[t]
         => waiting[t].lots > 0 \/ arrived[t] > 0]_gateVars

(* Every share in the account is in the row of its ticker, or is the fill   *)
(* of an entry that resolve_unfinished will still book.                     *)
SharesAreBooked ==
  \A t \in Tickers : account.lots[t] = rowLots[t] + arrived[t]
=============================================================================
