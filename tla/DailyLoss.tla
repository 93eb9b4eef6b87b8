----------------------------- MODULE DailyLoss -----------------------------
(***************************************************************************)
(* Step 4 of the trading cycle: the day's opening snapshot, the loss       *)
(* measured against it, the halt at the limit and the day's equity curve   *)
(* (app/loops.py, pnl.py, db/snapshots.py), over trading days, price moves,*)
(* exits, outages of the broker, lost writes and restarts.                 *)
(*                                                                         *)
(* Money is counted from the allocated capital in small units, one of them *)
(* the smallest move the limit tells apart; `Limit` is the daily-loss      *)
(* percentage in the same units.  A day has moments 0 (before the session),*)
(* 1 (its start) .. LastMoment (after it); a running process makes at      *)
(* least one cycle in each, the poll interval being far shorter.           *)
(***************************************************************************)
EXTENDS Integers

CONSTANTS
  LastDay, LastMoment,   \* the days of a behaviour and the moments of a day
  Limit,                 \* the loss at which the day is halted
  MaxMark,               \* the largest unrealised result, either way
  MaxBooked,             \* the largest realised result, either way
  MaxRestartsOfDay       \* restarts in one behaviour

ASSUME DailyLossBounds ==
  /\ {LastDay, LastMoment, Limit, MaxMark, MaxBooked} \subseteq Nat \ {0}
  /\ LastMoment > 1 /\ MaxRestartsOfDay \in Nat

VARIABLES
  when,        \* the day and the moment of it
  book,        \* the position and what has been realised
  curve,       \* daily_snapshots: today's row, if there is one; no other is read here
  dayHalted,   \* the halt flag
  process,     \* what this process remembers: _first_cycle_at, _snapshot_on
  opening,     \* the equity at which the day's session really opened
  missed,      \* a process up since before the open could not measure it
  restarted    \* restarts so far

dailyVars == <<when, book, curve, dayHalted, process, opening, missed, restarted>>

Days == 1..LastDay
Never == 0
NoRow == [there |-> FALSE]
InSession == when.moment \in 1..(LastMoment - 1)

(* The instant of a moment, and of the start of a day's session. *)
Instant(d, m) == d * (LastMoment + 1) + m
SessionStart == Instant(when.day, 1)
DayNow == Instant(when.day, when.moment)

Unrealised(b) == IF b.open THEN b.mark ELSE 0

(* bot_equity: what every closed and every open position has earned. *)
Equity(b) == b.earlier + b.today + Unrealised(b)

JustStarted == [up |-> TRUE, firstCycle |-> Never, snapshotOn |-> Never, cycled |-> FALSE]

DailyInit ==
  /\ when = [day |-> 1, moment |-> 0]
  /\ book \in [open : BOOLEAN, mark : {0}, earlier : {0}, today : {0}]
  /\ curve = NoRow
  /\ dayHalted = FALSE
  /\ process = JustStarted
  /\ opening = 0 /\ missed = FALSE /\ restarted = 0

-----------------------------------------------------------------------------
(* Mutant: a process that starts in the session seeds the baseline. *)
MayWriteOpeningLate(firstCycle) ==
  process.snapshotOn # when.day /\ ~curve.there

(* _write_opening_snapshot: once a day, over no existing row, and only by a *)
(* process whose first cycle was not after the session's start.             *)
MayWriteOpening(firstCycle) ==
  /\ process.snapshotOn # when.day
  /\ firstCycle <= SessionStart
  /\ ~curve.there

OpeningRow(equity) ==
  [there |-> TRUE, opening |-> equity, marked |-> FALSE, closing |-> equity,
   realised |-> 0, unrealised |-> 0, exited |-> FALSE]

(* Mutant: the loss is measured against what earlier days realised. *)
BaselineRebuilt(row, b) == b.earlier

(* daily_loss_pct: against the day's row, or against what earlier days      *)
(* realised when the day has none.                                          *)
Baseline(row, b) == IF row.there THEN row.opening ELSE b.earlier

Loss(row, b) == Baseline(row, b) - Equity(b)

(* _update_snapshot: the curve point of this cycle, none without a row or   *)
(* with a price missing.  The closing figure comes from the loss; the       *)
(* unrealised one from the positions and prices of step 2, so a position    *)
(* closed in step 3 is still among them.                                    *)
Marked(row, priced, before, b, exits) ==
  IF ~row.there \/ ~priced THEN row
  ELSE [row EXCEPT !.marked = TRUE, !.closing = row.opening - Loss(row, b),
                   !.realised = b.today, !.unrealised = Unrealised(before),
                   !.exited = exits]

(* An exit of step 3 turns the mark into a realised result. *)
Sold(b) == [b EXCEPT !.open = FALSE, !.mark = 0, !.today = @ + b.mark]

(* One cycle.  `priced`: step 2 had every price.  `exits`: step 3 sold.     *)
(* `opens`: what becomes of the opening row, if it may be written: it is,   *)
(* the equity cannot be read, or the write is lost, which is logged and not *)
(* raised.  `measured`: the loss could be read.                             *)
LossCycle(priced, exits, opens, measured) ==
  LET firstCycle == IF process.firstCycle = Never THEN DayNow ELSE process.firstCycle
      after == IF exits THEN Sold(book) ELSE book
      due == MayWriteOpening(firstCycle)
      row == IF due /\ opens = "written" THEN OpeningRow(Equity(after)) ELSE curve
      done == measured /\ ~(due /\ opens = "unread")
      settled == IF due THEN opens # "unread"
                        ELSE firstCycle <= SessionStart /\ curve.there
  IN /\ process.up
     /\ exits => book.open /\ priced /\ InSession /\ after.today \in -MaxBooked..MaxBooked
     /\ ~due => opens = "written"
     /\ process' = [process EXCEPT !.firstCycle = firstCycle, !.cycled = TRUE,
                      !.snapshotOn = IF InSession /\ settled THEN when.day ELSE @]
     /\ IF InSession
          THEN /\ book' = after
               /\ curve' = IF done THEN Marked(row, priced, book, after, exits) ELSE row
               /\ dayHalted' = (dayHalted \/ (done /\ Loss(row, after) >= Limit))
               /\ missed' = (missed \/ (due /\ opens # "written"))
          ELSE UNCHANGED <<book, curve, dayHalted, missed>>
     /\ UNCHANGED <<when, opening, restarted>>

-----------------------------------------------------------------------------
(* The world. *)

(* Time passes and the price moves; a running process has cycled by then.   *)
PriceMoves(mark) ==
  LET b == [book EXCEPT !.mark = IF book.open THEN mark ELSE 0] IN
  /\ process.up => process.cycled
  /\ when.moment < LastMoment
  /\ when' = [when EXCEPT !.moment = @ + 1]
  /\ book' = b
  /\ opening' = IF when.moment = 0 THEN Equity(b) ELSE opening
  /\ process' = [process EXCEPT !.cycled = FALSE]
  /\ UNCHANGED <<curve, dayHalted, missed, restarted>>

DayEnds ==
  /\ when.moment = LastMoment /\ when.day < LastDay
  /\ process.up => process.cycled
  /\ book.earlier + book.today \in -MaxBooked..MaxBooked
  /\ when' = [day |-> when.day + 1, moment |-> 0]
  /\ book' = [book EXCEPT !.earlier = @ + book.today, !.today = 0]
  /\ process' = [process EXCEPT !.cycled = FALSE]
  /\ curve' = NoRow /\ missed' = FALSE
  /\ UNCHANGED <<dayHalted, opening, restarted>>

(* An entry of the pass; it starts at its own price. *)
Buy ==
  /\ process.up /\ process.cycled /\ InSession /\ ~book.open /\ ~dayHalted
  /\ book' = [book EXCEPT !.open = TRUE, !.mark = 0]
  /\ UNCHANGED <<when, curve, dayHalted, process, opening, missed, restarted>>

OwnerResumes ==
  /\ dayHalted
  /\ dayHalted' = FALSE
  /\ UNCHANGED <<when, book, curve, process, opening, missed, restarted>>

ProcessEnds ==
  /\ process.up /\ restarted < MaxRestartsOfDay
  /\ process' = [process EXCEPT !.up = FALSE]
  /\ restarted' = restarted + 1
  /\ UNCHANGED <<when, book, curve, dayHalted, opening, missed>>

NewProcess ==
  /\ ~process.up
  /\ process' = JustStarted
  /\ UNCHANGED <<when, book, curve, dayHalted, opening, missed, restarted>>

DailyNext ==
  \/ \E priced, exits, measured \in BOOLEAN, opens \in {"written", "unread", "lost"} :
       LossCycle(priced, exits, opens, measured)
  \/ \E mark \in -MaxMark..MaxMark : PriceMoves(mark)
  \/ DayEnds \/ Buy \/ OwnerResumes \/ ProcessEnds \/ NewProcess

DailySpec == DailyInit /\ [][DailyNext]_dailyVars

-----------------------------------------------------------------------------
(* Properties *)

DailyTypeOK ==
  /\ when \in [day : Days, moment : 0..LastMoment]
  /\ book.open \in BOOLEAN /\ book.mark \in -MaxMark..MaxMark
  /\ curve.there => when.moment > 0
  /\ process.firstCycle <= DayNow /\ process.snapshotOn \in Days \cup {Never}
  /\ dayHalted \in BOOLEAN /\ missed \in BOOLEAN

(* The day's baseline is the equity at which the session opened, unless a   *)
(* process that was up for the open failed to read its equity until later:  *)
(* no process that started in the session seeds it.                         *)
BaselineIsTheOpen ==
  curve.there => curve.opening = opening \/ missed

(* The day's curve adds up: what it shows as closing equity is what earlier *)
(* days realised and its own realised and unrealised results, unless that   *)
(* very cycle sold (_update_snapshot is given the positions of step 2).     *)
CurveBalances ==
  curve.there /\ curve.marked /\ ~curve.exited =>
    curve.closing = book.earlier + curve.realised + curve.unrealised

(* What the day's row shows, of the open and of the close, is what was.     *)
CurveIsTrue == BaselineIsTheOpen /\ CurveBalances

(* A cycle that measures the loss of a day whose open was recorded halts    *)
(* when the equity has fallen by the limit since the open, however much of  *)
(* the fall is realised and whichever process measured it.                  *)
LossFromTheOpenHalts ==
  [][\A priced, exits \in BOOLEAN, opens \in {"written", "lost"} :
       InSession /\ curve'.there /\ ~missed' /\ opening - Equity(book') >= Limit
         /\ LossCycle(priced, exits, opens, TRUE)
       => dayHalted']_dailyVars

(* "overnight unrealised movement is attributed to today, so the limit      *)
(* trips earlier rather than later": on a day without its opening row too,  *)
(* a fall of the limit since the open halts.                                *)
ReconstructionTripsEarlier ==
  [][\A priced, exits \in BOOLEAN :
       LossCycle(priced, exits, "written", TRUE) /\ InSession /\ ~curve'.there
         /\ opening - Equity(book') >= Limit
       => dayHalted']_dailyVars
=============================================================================
