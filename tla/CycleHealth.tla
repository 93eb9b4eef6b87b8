---------------------------- MODULE CycleHealth ----------------------------
(***************************************************************************)
(* What the trading loop remembers between cycles about the health of its  *)
(* inputs: the count of failed cycles and the back-off it gives, the       *)
(* broker's own hint, the latches that keep an incident to one alert       *)
(* (app/loops.py), and the per-ticker count of unusable candles            *)
(* (market/data.py).  All of it is local to the process.  A cycle is       *)
(* described by how far it got and by what it met on the way.              *)
(***************************************************************************)
EXTENDS Integers, FiniteSets, FiniteSetsExt

CONSTANTS
  Watchlist,     \* the tickers whose candles are fetched
  Poll,          \* poll_interval_seconds, in some unit
  MaxBackoff,    \* _MAX_BACKOFF, in that unit
  Hints,         \* the back-offs a rate-limited broker asks for
  MaxRun         \* the longest run of failures a behaviour has

ASSUME HealthBounds ==
  /\ Poll \in Nat \ {0} /\ MaxBackoff \in Nat /\ Poll <= MaxBackoff
  /\ Hints \subseteq Nat /\ MaxRun \in Nat /\ MaxRun >= 3

VARIABLES
  market,     \* _market_failures, _market_alerted, _retry_after
  latched,    \* the once-per-incident alerts that are latched
  candles,    \* market/data.py: _failures and _alerted
  outage,     \* failed cycles since a success, alerts in them, how the last failed
  incident,   \* alerts of each latch since its condition was last clean
  degraded    \* unusable calls of each ticker in a row, and alerts in them

healthVars == <<market, latched, candles, outage, incident, degraded>>

NoHint == -1
FailuresBeforeAlert == 3
Latches == {"schedule", "price", "age", "loss"}

HealthInit ==
  /\ market = [failures |-> 0, alerted |-> FALSE, hint |-> NoHint]
  /\ latched = {}
  /\ candles = [count |-> [t \in Watchlist |-> 0], alerted |-> {}]
  /\ outage = [run |-> 0, told |-> 0, last |-> NoHint]
  /\ incident = [l \in Latches |-> 0]
  /\ degraded = [t \in Watchlist |-> [run |-> 0, told |-> 0, lost |-> FALSE]]

-----------------------------------------------------------------------------
(* The back-off. *)

(* _next_delay: the longer of our escalation and the broker's hint, bounded. *)
NextDelay(m) ==
  LET own == IF m.failures > 0 THEN Poll * 2 ^ Min({m.failures, 5}) ELSE Poll
  IN Min({Max({own, m.hint}), MaxBackoff})

(* Mutant: a plain outage leaves the hint of an earlier rate limit. *)
NoteDataFailureKeeping(m, hint) ==
  LET failures == m.failures + 1 IN
  [failures |-> failures, hint |-> Max({hint, m.hint}),
   alerted |-> m.alerted \/ failures >= FailuresBeforeAlert]

(* _note_data_failure. *)
NoteDataFailure(m, hint) ==
  LET failures == m.failures + 1 IN
  [failures |-> failures, hint |-> hint,
   alerted |-> m.alerted \/ failures >= FailuresBeforeAlert]

(* _note_data_success. *)
NoteDataSuccess(m) == [failures |-> 0, alerted |-> FALSE, hint |-> NoHint]

FailsWith(hint) ==
  /\ outage.run < MaxRun
  /\ market' = NoteDataFailure(market, hint)
  /\ outage' = [run |-> outage.run + 1, last |-> hint,
                told |-> outage.told + (IF ~market.alerted /\ market'.alerted THEN 1 ELSE 0)]

Succeeds ==
  /\ market' = NoteDataSuccess(market)
  /\ outage' = [run |-> 0, told |-> 0, last |-> NoHint]

(* The cycle ended without a word on the market: the session is shut, the   *)
(* loss could not be measured, or an unexpected error went up.              *)
NothingNoted == UNCHANGED <<market, outage>>

-----------------------------------------------------------------------------
(* The latches. *)

(* Mutant: a condition that clears re-arms nothing. *)
LatchesForEver(met, bad) == latched \cup bad

(* One alert when a condition is first met, re-armed when a cycle is clean  *)
(* of it.  `met` are the conditions this cycle looked at, `bad` those it    *)
(* found.                                                                   *)
LatchesAfter(met, bad) == (latched \ met) \cup bad

Note(met, bad) ==
  /\ latched' = LatchesAfter(met, bad)
  /\ incident' = [l \in Latches |->
       IF l \in met \ bad THEN 0
       ELSE IF l \in bad \ latched THEN Min({incident[l] + 1, 2})
       ELSE incident[l]]

-----------------------------------------------------------------------------
(* candles_for_watchlist *)

(* A failed fetch and a short history are one count; a usable series ends   *)
(* it.  A ticker that was not asked about keeps what it has.                *)
CountAfter(asked, unusable) ==
  [t \in Watchlist |-> IF t \in unusable THEN candles.count[t] + 1
                       ELSE IF t \in asked THEN 0 ELSE candles.count[t]]

(* One call: `asked` are the tickers it came to, all of them unless an      *)
(* unexpected error cut it short before its one report.                     *)
Fetch(asked, unusable) ==
  LET count == CountAfter(asked, unusable)
      usable == asked \ unusable
      crossed == {t \in unusable :
                    count[t] >= FailuresBeforeAlert /\ t \notin candles.alerted}
      reported == asked = Watchlist
  IN /\ \A t \in asked : degraded[t].run < MaxRun
     /\ candles' = [count |-> count, alerted |-> (candles.alerted \ usable) \cup crossed]
     /\ degraded' = [t \in Watchlist |->
          CASE t \in usable -> [run |-> 0, told |-> 0, lost |-> FALSE]
            [] t \in unusable ->
                 [run |-> degraded[t].run + 1,
                  told |-> IF t \in crossed /\ reported THEN Min({degraded[t].told + 1, 2})
                           ELSE degraded[t].told,
                  lost |-> degraded[t].lost \/ (t \in crossed /\ ~reported)]
            [] OTHER -> degraded[t]]

-----------------------------------------------------------------------------
(* The cycles. *)

(* Outside the session: is the calendar shut, or has it run out? *)
ClosedCycle(exhausted) ==
  /\ Note({"schedule"}, IF exhausted THEN {"schedule"} ELSE {})
  /\ NothingNoted
  /\ UNCHANGED <<candles, degraded>>

(* Resolving, the prices or an exit met a broker that is unavailable, or an *)
(* unexpected error (NoHint - 1 stands for none of the broker's own).       *)
CutShort(met, bad, hint) ==
  /\ met \in {{}, {"price"}, {"price", "age"}} /\ bad \subseteq met
  /\ Note(met, bad)
  /\ IF hint < NoHint THEN NothingNoted ELSE FailsWith(hint)
  /\ UNCHANGED <<candles, degraded>>

(* Step 4: the loss cannot be measured.  A rate limit is not absorbed here. *)
UnmeasuredCycle(bad) ==
  /\ Note({"price", "age", "loss"}, bad \cup {"loss"})
  /\ NothingNoted
  /\ UNCHANGED <<candles, degraded>>

(* The entries are stopped, halted or have no strategy to ask. *)
CycleWithoutEntries(bad) ==
  /\ Note({"price", "age", "loss"}, bad)
  /\ Succeeds
  /\ UNCHANGED <<candles, degraded>>

EntryCycle(bad, unusable) ==
  /\ Note({"price", "age", "loss"}, bad)
  /\ Fetch(Watchlist, unusable)
  /\ Succeeds

(* The entry pass is cut short: inside the candles, or after them by the    *)
(* portfolio, an instrument or an order.                                    *)
FetchCutShort(bad, asked, unusable) ==
  /\ Note({"price", "age", "loss"}, bad)
  /\ asked # Watchlist /\ Fetch(asked, unusable)
  /\ NothingNoted

EntriesCutShort(bad, unusable, hint) ==
  /\ Note({"price", "age", "loss"}, bad)
  /\ Fetch(Watchlist, unusable)
  /\ IF hint < NoHint THEN NothingNoted ELSE FailsWith(hint)

(* _schedule_refresh_loop has marked the day's refresh: the alert of the    *)
(* schedule is armed again, whatever the refresh brought.                   *)
ScheduleMarked ==
  /\ latched' = latched \ {"schedule"}
  /\ incident' = [incident EXCEPT !["schedule"] = 0]
  /\ NothingNoted
  /\ UNCHANGED <<candles, degraded>>

HealthNext ==
  \/ ScheduleMarked
  \/ \E exhausted \in BOOLEAN : ClosedCycle(exhausted)
  \/ \E met, bad \in SUBSET {"price", "age"}, hint \in Hints \cup {NoHint, NoHint - 1} :
       CutShort(met, bad, hint)
  \/ \E bad \in SUBSET {"price", "age"} : UnmeasuredCycle(bad) \/ CycleWithoutEntries(bad)
  \/ \E bad \in SUBSET {"price", "age"}, asked \in SUBSET Watchlist :
     \E unusable \in SUBSET asked :
       \/ FetchCutShort(bad, asked, unusable)
       \/ asked = Watchlist /\ EntryCycle(bad, unusable)
       \/ /\ asked = Watchlist
          /\ \E hint \in Hints \cup {NoHint, NoHint - 1} :
               EntriesCutShort(bad, unusable, hint)

HealthSpec == HealthInit /\ [][HealthNext]_healthVars

-----------------------------------------------------------------------------
(* Properties *)

HealthTypeOK ==
  /\ market \in [failures : 0..MaxRun, alerted : BOOLEAN, hint : Hints \cup {NoHint}]
  /\ latched \subseteq Latches
  /\ candles.count \in [Watchlist -> 0..MaxRun] /\ candles.alerted \subseteq Watchlist

(* The loop that submits exits is never held asleep beyond its bound; while *)
(* the broker's last word is a rate limit it waits as long as it was asked; *)
(* and the hint of an earlier failure delays nothing after a plain outage   *)
(* (app/loops.py, _next_delay and the comment on _retry_after).             *)
BackoffHonoursTheBroker ==
  LET delay == NextDelay(market) IN
  /\ Poll <= delay /\ delay <= MaxBackoff
  /\ outage.last # NoHint => delay >= Min({outage.last, MaxBackoff})
  /\ outage.run > 0 /\ outage.last = NoHint =>
       delay = Min({Poll * 2 ^ Min({outage.run, 5}), MaxBackoff})

(* A run of failed cycles is told once, at its third failure, and the next  *)
(* run is told again, whatever closed or unmeasured cycles lie between.     *)
OutageToldOnce == outage.told = IF outage.run >= FailuresBeforeAlert THEN 1 ELSE 0

(* A condition that lasts is told once (an exhausted schedule once a day),  *)
(* and told again after it was clean: neither silent for ever after the     *)
(* first incident (#32, #48) nor every cycle.                               *)
IncidentToldOnce == \A l \in Latches : incident[l] = IF l \in latched THEN 1 ELSE 0

(* A ticker whose candles were unusable three times in a row, failed or     *)
(* short in any order, has been reported once, unless an unexpected error   *)
(* ended the very call that should have reported it.                        *)
DegradedTickerIsTold ==
  \A t \in Watchlist : LET d == degraded[t] IN
    ~d.lost => d.told = IF d.run >= FailuresBeforeAlert THEN 1 ELSE 0

(* Every alert of the cycles is told once an incident, and again of the next. *)
AlertsOnce == OutageToldOnce /\ IncidentToldOnce /\ DegradedTickerIsTold
=============================================================================
