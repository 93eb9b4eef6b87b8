---------------------------- MODULE StrategyRules ----------------------------
(***************************************************************************)
(* The rule-based strategies (strategies/*.py) on a series that grows bar  *)
(* by bar.  market/data.py hands every strategy all the bars it fetched,   *)
(* enough for the longest lookback and more, so a strategy sees a history  *)
(* longer than its own window.  Prices and volumes are small numbers;      *)
(* every comparison is of exact fractions, multiplied out.  A strategy     *)
(* answers TRUE for a BUY: none ever sells.                                *)
(***************************************************************************)
EXTENDS Integers, SequencesExt, Functions

CONSTANTS
  Closes, Wicks, Volumes,      \* of a bar; its high is the close and a wick above
  MaFast, MaSlow,              \* _FAST, _SLOW of ma_crossover (40, 80)
  RsiPeriod,                   \* _PERIOD (14)
  Breakout,                    \* _LOOKBACK_BARS, _BREAKOUT_BARS, _VOLUME_BARS (20)
  Band, Deviations,            \* _PERIOD and _STDDEV_MULTIPLE of bollinger (20, 2)
  MacdFast, MacdSlow, MacdSignal,  \* 12, 26, 9
  MaxBars                      \* the bars of a behaviour

ASSUME StrategyBounds ==
  /\ {MaFast, MaSlow, RsiPeriod, Breakout, Band, MacdFast, MacdSlow, MacdSignal}
       \subseteq Nat \ {0}
  /\ MaFast < MaSlow /\ MacdFast < MacdSlow
  /\ Closes \cup Wicks \cup Volumes \subseteq Nat
  /\ Deviations \in Nat /\ MaxBars \in Nat

VARIABLE series    \* the candles of one ticker, oldest first

LastOf(s, n) == SubSeq(s, Len(s) - n + 1, Len(s))
Add(s) == FoldSeq(+, 0, s)
ClosesOf(bars) == [i \in DOMAIN bars |-> bars[i].close]
Flat(s) == Cardinality(Range(s)) = 1

(* ma_crossover: the fast average was at or below the slow one and is above *)
(* it now.                                                                  *)
MaLookback == MaSlow + 1
FastAbove(closes) == MaSlow * Add(LastOf(closes, MaFast)) > MaFast * Add(LastOf(closes, MaSlow))

MaCrossover(bars) ==
  LET closes == ClosesOf(bars)
  IN /\ Len(bars) >= MaLookback /\ ~Flat(closes)
     /\ ~FastAbove(Front(closes)) /\ FastAbove(closes)

(* rsi_reversion: fewer than three tenths of the last changes were gains.   *)
RsiLookback == RsiPeriod + 1
RisesOf(closes) == Add([i \in 1 .. Len(closes) - 1 |-> Max({0, closes[i + 1] - closes[i]})])

(* Mutant: the changes of the whole history. *)
RsiReversionWhole(bars) ==
  LET closes == ClosesOf(bars)
      gain == RisesOf(closes)  loss == RisesOf(Reverse(closes))
  IN Len(bars) >= RsiLookback /\ loss > 0 /\ 10 * gain < 3 * (gain + loss)

RsiReversion(bars) ==
  LET closes == LastOf(ClosesOf(bars), RsiLookback)
      gain == RisesOf(closes)  loss == RisesOf(Reverse(closes))
  IN Len(bars) >= RsiLookback /\ loss > 0 /\ 10 * gain < 3 * (gain + loss)

(* momentum: a close above every high of the bars before it.                *)
BreakoutLookback == Breakout + 1
PriorHigh(recent) == Max({recent[i].high : i \in 1 .. Len(recent) - 1})

Momentum(bars) ==
  LET recent == LastOf(bars, BreakoutLookback)
  IN /\ Len(bars) >= BreakoutLookback /\ ~Flat(ClosesOf(recent))
     /\ Last(recent).close > PriorHigh(recent)

(* volume_breakout: and half as much again as their average volume, when    *)
(* anything was traded in them.                                             *)
VolumeBreakout(bars) ==
  LET recent == LastOf(bars, BreakoutLookback)
      traded == Add([i \in 1 .. Breakout |-> recent[i].volume])
  IN /\ Len(bars) >= BreakoutLookback /\ ~Flat(ClosesOf(recent))
     /\ Last(recent).close > PriorHigh(recent)
     /\ traded > 0 /\ 2 * Breakout * Last(recent).volume >= 3 * traded

(* bollinger_reversion: at or below the average less so many deviations.    *)
BelowBand(closes) ==
  LET sum == Add(closes)  below == sum - Band * Last(closes)
      spread == Band * Add([i \in DOMAIN closes |-> closes[i] * closes[i]]) - sum * sum
  IN below >= 0 /\ below * below >= Deviations * Deviations * spread

BollingerReversion(bars) ==
  LET closes == LastOf(ClosesOf(bars), Band)
  IN Len(bars) >= Band /\ ~Flat(closes) /\ BelowBand(closes)

(* _ema, as fractions: the entry of index i is aligned to values[period+i-1] *)
(* and is over period * (period + 1)^(i-1).  The first is the plain average. *)
Ema(values, period) ==
  LET step[i \in 1 .. Len(values) - period + 1] ==
        IF i = 1 THEN Add(SubSeq(values, 1, period))
        ELSE (period - 1) * step[i - 1]
               + 2 * values[period + i - 1] * period * (period + 1)^(i - 2)
  IN step

(* Entry i of an average over its own power, brought to the power n.        *)
Over(ema, period, i, n) == ema[i] * (period + 1)^(n - i)

(* macd_trend: the line crosses above the average of itself.                *)
MacdLookback == MacdSlow + MacdSignal

MacdTrend(bars) ==
  LET closes == ClosesOf(bars)
      n == Len(closes)
      fast == Ema(closes, MacdFast)  slow == Ema(closes, MacdSlow)
      last == n - MacdSlow + 1       \* entries of the slow average
      \* the line, every entry over MacdFast * (MacdFast+1)^n * MacdSlow * (MacdSlow+1)^n
      line == [i \in 1 .. last |->
                 Over(fast, MacdFast, i + MacdSlow - MacdFast, n)
                     * MacdSlow * (MacdSlow + 1)^(n - 1)
                   - Over(slow, MacdSlow, i, n) * MacdFast * (MacdFast + 1)^(n - 1)]
      signal == Ema(line, MacdSignal)
      above(k) == line[last - k] * MacdSignal * (MacdSignal + 1)^(last - MacdSignal - k)
                    > signal[last - MacdSignal + 1 - k]
  IN /\ n >= MacdLookback /\ ~Flat(closes)
     /\ ~above(1) /\ above(0)

-----------------------------------------------------------------------------
Bars == {[close |-> c, high |-> c + w, volume |-> v] : c \in Closes, w \in Wicks, v \in Volumes}

StrategyInit == series = <<>>
NextBar == Len(series) < MaxBars /\ \E bar \in Bars : series' = Append(series, bar)
StrategyNext == NextBar
StrategySpec == StrategyInit /\ [][StrategyNext]_series

(* An answer depends on the bars of the strategy's own lookback, and not on *)
(* how many more were fetched for another strategy's sake.                  *)
WindowDecides ==
  \A rule \in {"ma", "rsi", "momentum", "volume", "band"} :
    LET answer(bars) == CASE rule = "ma" -> MaCrossover(bars)
                          [] rule = "rsi" -> RsiReversion(bars)
                          [] rule = "momentum" -> Momentum(bars)
                          [] rule = "volume" -> VolumeBreakout(bars)
                          [] rule = "band" -> BollingerReversion(bars)
        lookback == CASE rule = "ma" -> MaLookback [] rule = "rsi" -> RsiLookback
                      [] rule = "band" -> Band [] OTHER -> BreakoutLookback
    IN Len(series) >= lookback => (answer(series) <=> answer(LastOf(series, lookback)))

(* The same of macd_trend, whose averages are seeded with a plain average   *)
(* for that purpose.                                                        *)
MacdWindowDecides ==
  Len(series) >= MacdLookback
    => (MacdTrend(series) <=> MacdTrend(LastOf(series, MacdLookback)))
=============================================================================
