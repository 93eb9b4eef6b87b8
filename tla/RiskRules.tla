----------------------------- MODULE RiskRules -----------------------------
(***************************************************************************)
(* The pure decisions of an entry and an exit: how many lots to buy        *)
(* (risk/sizing.py), whether to enter at all and the one reason not to     *)
(* (risk/gate.py), and which exit fires (lifecycle/exits.py).  Prices and  *)
(* money are whole units; a percentage is kept as a factor of a hundred,   *)
(* so nothing is rounded but the lots.                                     *)
(***************************************************************************)
EXTENDS Integers, FiniteSets, FiniteSetsExt

(* Whole lots for so many hundredths of money, always rounded down. *)
LotsWithin(money100, lotCost) ==
  IF money100 < 100 * lotCost THEN 0 ELSE money100 \div (100 * lotCost)

(* position_budget, in hundredths. *)
PositionBudget(allocated, sizePct) == allocated * sizePct

(* size_position: the smallest of budget, headroom and spendable cash. *)
SizePosition(lotCost, allocated, cash, sizePct, openCost, reservePct) ==
  IF lotCost <= 0 THEN 0
  ELSE LotsWithin(Min({PositionBudget(allocated, sizePct),
                       100 * (allocated - openCost),
                       cash * (100 - reservePct)}), lotCost)

Approved(lots) == [lots |-> lots, reason |-> "APPROVED"]
Rejected(reason) == [lots |-> 0, reason |-> reason]

(* check: one reason, by a fixed priority.  `v` is the portfolio as read,   *)
(* `s` the signal and what is known of its ticker, `c` the configuration.   *)
Check(s, v, halted, c) ==
  IF halted THEN Rejected("HALTED")
  ELSE IF ~s.session THEN Rejected("SESSION_CLOSED")
  ELSE IF ~s.trading THEN Rejected("INSTRUMENT_NOT_TRADING")
  ELSE IF s.ticker \in v.held THEN Rejected("DUPLICATE_TICKER")
  ELSE IF Cardinality(v.held) >= c.maxPositions THEN Rejected("MAX_POSITIONS")
  ELSE IF s.cooldown THEN Rejected("COOLDOWN_ACTIVE")
  ELSE IF v.cash < s.lotCost THEN Rejected("INSUFFICIENT_CASH")
  ELSE IF c.allocated - v.openCost < s.lotCost THEN Rejected("PORTFOLIO_EXPOSURE")
  ELSE IF ~s.buy THEN Rejected("ZERO_LOTS")
  ELSE LET lots == SizePosition(s.lotCost, c.allocated, v.cash, c.sizePct,
                                v.openCost, c.reservePct)
       IN IF lots > 0 THEN Approved(lots) ELSE Rejected("ZERO_LOTS")

NoExit == "NONE"

(* evaluate: the trigger that fires, the stop before the target before the  *)
(* age.  `days` is Unmeasured when the recorded calendar does not reach the *)
(* entry, and then the age never fires; levels are in hundredths.           *)
Unmeasured == -1
StopLevel(entry, stopPct) == entry * (100 - stopPct)
TargetLevel(entry, targetPct) == entry * (100 + targetPct)

Evaluate(p, price, days, closing, c) ==
  IF p.local /\ 100 * price <= StopLevel(p.entry, c.stopPct) THEN "STOP_LOSS"
  ELSE IF 100 * price >= TargetLevel(p.entry, c.targetPct) THEN "TAKE_PROFIT"
  ELSE IF days # Unmeasured /\ days >= c.maxDays /\ closing THEN "MAX_AGE"
  ELSE NoExit
=============================================================================
