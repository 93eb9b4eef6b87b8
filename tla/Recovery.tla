------------------------------ MODULE Recovery ------------------------------
(***************************************************************************)
(* The process dies and starts again.  Execution is the process at work;   *)
(* this module adds the crash, and the start that follows it, as           *)
(* app/startup.py and broker/reconcile.py write it:                        *)
(*                                                                         *)
(*   down       nothing runs; the supervisor restarts the process          *)
(*   resolve    step 6, resolve_unfinished                                 *)
(*   reconcile  step 7, reconcile: local rows are corrected to the account *)
(*   remedy     step 7, the report's stop findings, applied through orders *)
(*   done       the ready alert is sent and the loops run                  *)
(*                                                                         *)
(* A start that raises ends in "down" and is tried again.  Steps 1 to 5    *)
(* change nothing modelled here and are part of Boot.  Corrections are one *)
(* step for each transaction, so a crash may come between any two.  While  *)
(* a process is starting no loop of it runs: what reconciliation reads,    *)
(* only the broker changes.                                                *)
(*                                                                         *)
(* The broker names a stop by an identifier of its own, and the start      *)
(* takes that identifier for the key of the stop: list_stop_orders finds   *)
(* no request key in what the broker answers.  A row known by it is one    *)
(* that adopt_existing_stop inserted; "adopted" is the set of these.  The  *)
(* model's broker keeps its stops by the row that stands for them, so an   *)
(* adoption moves the stop to the row it inserts.                          *)
(***************************************************************************)
EXTENDS Execution

CONSTANTS
  MaxCrashes,     \* bound: times the process ends
  MaxSales,       \* bound: sales by the owner's own hand
  AllowForeign    \* config.allow_foreign_holdings

ASSUME RecoveryAssumption ==
  /\ MaxCrashes \in Nat
  /\ MaxSales \in Nat
  /\ AllowForeign \in BOOLEAN

VARIABLES
  start,     \* what the start has read, and has left to do
  adopted,   \* the stop rows whose key is the broker's identifier
  loose,     \* history: stops the bot cannot have known of
  crashes, sales

recoveryVars == <<adopted, crashes, sales>>
allVars == <<vars, start, recoveryVars, loose>>

-----------------------------------------------------------------------------
(* A stop finding of the report is known by its remedy: "cancel" stands    *)
(* for STOP_ORPHAN and each stop that STOP_DUPLICATE cancels, "replace"    *)
(* for STOP_MISPRICED and STOP_MISSIZED, "adopt" for STOP_ADOPTABLE,       *)
(* "place" for STOP_MISSING.                                               *)
Remedy == [kind : {"cancel", "replace", "adopt", "place"},
           ticker : Tickers, pos : PositionIds \cup {0},
           stop : StopKeys \cup {0}]

(* The external close is three transactions; "exit" is the second of them, *)
(* and "exitStop" says that the third is owed.                             *)
Start == [port : [Tickers -> Nat], left : SUBSET PositionIds,
          exit : PositionIds \cup {0}, exitStop : PositionIds \cup {0},
          unknown : SUBSET Tickers, foreign : SUBSET Tickers,
          unpriced : SUBSET Tickers, remedies : SUBSET Remedy]

NoStart == [port |-> [t \in Tickers |-> 0], left |-> {},
            exit |-> 0, exitStop |-> 0, unknown |-> {}, foreign |-> {},
            unpriced |-> {}, remedies |-> {}]

RecoveryTypeOK ==
  /\ TypeOK
  /\ start \in Start
  /\ adopted \in SUBSET StopKeys
  /\ loose \in SUBSET StopKeys
  /\ crashes \in 0..MaxCrashes
  /\ sales \in 0..MaxSales

Ready == Running /\ phase["startup"] = "done"
StartAt(place) == phase["startup"] = place /\ lock # "startup"
StartTo(place) == phase' = [phase EXCEPT !["startup"] = place]

(* StartupError: the process waits and exits, and is started again. *)
StartFails ==
  /\ StartTo("down")
  /\ start' = NoStart

-----------------------------------------------------------------------------
(* The end of a process, by a crash or by the drain, and the next one.     *)

ProcessEnds ==
  /\ phase["startup"] # "down"
  /\ crashes < MaxCrashes
  /\ crashes' = crashes + 1
  /\ lock' = NoOne
  /\ sec' = NoSection
  /\ phase' = [trading |-> "sleep", drain |-> "off", startup |-> "down"]
  /\ todo' = [task \in Tasks |-> {}]
  /\ cycle' = NoCycle
  /\ entriesStopped' = FALSE
  /\ polls' = 0
  /\ start' = NoStart
  /\ UNCHANGED <<dbVars, brokerVars, adopted, sales>>

Boot ==
  /\ phase["startup"] = "down"
  /\ StartTo("resolve")
  /\ todo' = [todo EXCEPT !["startup"] = Unresolved(orders)]
  /\ UNCHANGED <<dbVars, brokerVars, lock, sec, cycle, shutdownVars, start,
                 recoveryVars>>

(* The owner sells by hand, in the terminal, while the bot is down: lots   *)
(* of a position, with no order on its ticker in doubt.                    *)
OwnerSells(t) ==
  /\ phase["startup"] = "down"
  /\ sales < MaxSales
  /\ AtRest(t) /\ OpenOn(positions, t) # {} /\ held[t] > 0
  /\ held' = [held EXCEPT ![t] = @ - 1]
  /\ sales' = sales + 1
  /\ UNCHANGED <<dbVars, brokerOrders, brokerStops, lock, sec, taskVars,
                 shutdownVars, start, adopted, crashes>>

-----------------------------------------------------------------------------
(* broker.reconcile.reconcile *)

startVars == <<lock, sec, todo, cycle, shutdownVars, recoveryVars>>

ReadPortfolio ==
  /\ StartAt("resolve")
  /\ todo["startup"] = {}
  /\ StartTo("reconcile")
  /\ start' = [NoStart EXCEPT
       !.port = held,
       !.left = {p \in PositionIds : positions[p].status = "OPEN"},
       !.unknown = {t \in HeldTickers : OpenOn(positions, t) = {}}]
  /\ UNCHANGED <<dbVars, brokerVars, startVars>>

Examined(p) == [start EXCEPT !.left = @ \ {p}]

(* The next position to compare: the oldest, when nothing is owed for the  *)
(* one before it.                                                          *)
Compares(p) ==
  /\ StartAt("reconcile")
  /\ start.exit = 0 /\ start.exitStop = 0
  /\ p \in start.left
  /\ \A q \in start.left : p <= q

PortLots(p) == start.port[positions[p].ticker]

Matches(p) ==
  /\ Compares(p)
  /\ PortLots(p) = positions[p].lots
  /\ start' = Examined(p)
  /\ UNCHANGED <<dbVars, brokerVars, phase, startVars>>

(* _adjust_lots *)
AdjustLots(p) ==
  /\ Compares(p)
  /\ PortLots(p) # 0 /\ PortLots(p) # positions[p].lots
  /\ positions' = UpdateLots(positions, p, PortLots(p))
  /\ start' = Examined(p)
  /\ UNCHANGED <<orders, stops, halted, cooldown, brokerVars, phase, startVars>>

(* _close_externally, with the sale found in the operations feed ... *)
ExitFound(p) ==
  /\ Compares(p)
  /\ PortLots(p) = 0
  /\ positions' = CloseRow(positions, p, "EXTERNAL", 0)
  /\ start' = [Examined(p) EXCEPT
       !.exit = p,
       !.exitStop = IF positions[p].protection = "EXCHANGE" THEN p ELSE 0]
  /\ UNCHANGED <<orders, stops, halted, cooldown, brokerVars, phase, startVars>>

(* ... or not: the feed does not answer, or the window, which begins when  *)
(* the row was opened, holds no sale.  The position is left open.          *)
ExitUnresolved(p) ==
  /\ Compares(p)
  /\ PortLots(p) = 0
  /\ start' = Examined(p)
  /\ UNCHANGED <<dbVars, brokerVars, phase, startVars>>

ExitCooldown ==
  /\ StartAt("reconcile")
  /\ start.exit # 0
  /\ cooldown' = cooldown \cup {positions[start.exit].ticker}
  /\ start' = [start EXCEPT !.exit = 0]
  /\ UNCHANGED <<orders, positions, stops, halted, brokerVars, phase, startVars>>

ExitStop ==
  /\ StartAt("reconcile")
  /\ start.exit = 0 /\ start.exitStop # 0
  /\ stops' = [s \in StopKeys |->
                 IF s \in ActiveForPosition(stops, start.exitStop)
                   THEN [stops[s] EXCEPT !.status = "EXECUTED"] ELSE stops[s]]
  /\ start' = [start EXCEPT !.exitStop = 0]
  /\ UNCHANGED <<orders, positions, halted, cooldown, brokerVars, phase,
                 startVars>>

-----------------------------------------------------------------------------
(* Holdings without a row *)

Compared == /\ StartAt("reconcile")
            /\ start.left = {} /\ start.exit = 0 /\ start.exitStop = 0

(* _recognising_orders: the oldest unresolved entry of the ticker. *)
Recognises(k, t) ==
  LET entries == {j \in Unresolved(orders) : /\ orders[j].ticker = t
                                             /\ orders[j].intent = "ENTRY"}
  IN k \in entries /\ \A j \in entries : k <= j

(* _adopt_holding *)
AdoptHolding(t) ==
  /\ Compared
  /\ t \in start.unknown
  /\ \E k \in OrderKeys, p \in PositionIds :
       /\ Recognises(k, t)
       /\ IsFresh(positions, p)
       /\ positions' = OpenRow(positions, p, t, start.port[t], k)
  /\ start' = [start EXCEPT !.unknown = @ \ {t}]
  /\ UNCHANGED <<orders, stops, halted, cooldown, brokerVars, phase, startVars>>

(* _report_foreign *)
ReportForeign(t) ==
  /\ Compared
  /\ t \in start.unknown
  /\ ~\E k \in OrderKeys : Recognises(k, t)
  /\ start' = [start EXCEPT !.unknown = @ \ {t}, !.foreign = @ \cup {t}]
  /\ UNCHANGED <<dbVars, brokerVars, phase, startVars>>

-----------------------------------------------------------------------------
(* _stop_adjustments *)

LiveStops(t) == {s \in StopKeys : /\ brokerStops[s].st = "LIVE"
                                  /\ brokerStops[s].ticker = t}

(* _keep_stop: the stop whose key the position holds, or else the oldest.  *)
(* The key is the broker's identifier, so a stop the bot placed itself is  *)
(* never the one the position holds; an adopted one may be.                *)
Keeps(p) ==
  LET live == LiveStops(positions[p].ticker)
      bound == {s \in live : s \in adopted /\ positions[p].stopKey = s}
  IN IF bound # {} THEN bound
     ELSE {s \in live : \A j \in live : s <= j}

OpenPositions == {p \in PositionIds : positions[p].status = "OPEN"}
Kept == UNION {Keeps(p) : p \in OpenPositions}

RemedyOf(kind, p, s) ==
  [kind |-> kind, ticker |-> positions[p].ticker, pos |-> p, stop |-> s]

(* Mutant: stops without an open position are not looked for. *)
ExcessClaimed ==
  {[kind |-> "cancel", ticker |-> brokerStops[s].ticker, pos |-> 0, stop |-> s] :
     s \in (UNION {LiveStops(positions[p].ticker) : p \in OpenPositions}) \ Kept}

(* STOP_DUPLICATE and STOP_ORPHAN: whatever is live and not kept. *)
Excess ==
  {[kind |-> "cancel", ticker |-> brokerStops[s].ticker, pos |-> 0, stop |-> s] :
     s \in (UNION {LiveStops(t) : t \in Tickers}) \ Kept}

(* What is found of position p and the stop s it keeps.  Neither the price *)
(* nor the adoption is judged when the increment could not be read.        *)
Verdict(p, s, unpriced, mispriced) ==
  LET priced == positions[p].ticker \notin unpriced
  IN IF (priced /\ s \in mispriced) \/ brokerStops[s].lots # positions[p].lots
       THEN {RemedyOf("replace", p, s)}
     ELSE IF /\ priced
             /\ positions[p].protection = "LOCAL" \/ positions[p].stopKey = 0
       THEN {RemedyOf("adopt", p, s)}
     ELSE {}

Missing ==
  {RemedyOf("place", p, 0) :
     p \in {q \in OpenPositions : /\ LiveStops(positions[q].ticker) = {}
                                  /\ positions[q].protection = "EXCHANGE"}}

Findings(unpriced, mispriced) ==
  Excess \cup Missing
  \cup UNION {UNION {Verdict(p, s, unpriced, mispriced) : s \in Keeps(p)} :
                p \in OpenPositions}

(* list_stop_orders, the increments, and the report.  A stop was posted at *)
(* the stored price of its position, so only one that was posted for       *)
(* another position can be found at a wrong price.                         *)
ReadStops ==
  /\ Compared
  /\ start.unknown = {}
  /\ LET strangers == {s \in Kept : \A p \in OpenPositions : stops[s].position # p}
     IN \E unpriced \in IF "deaf" \in Faults THEN SUBSET Tickers ELSE {{}},
           mispriced \in SUBSET strangers :
          start' = [start EXCEPT !.unpriced = unpriced,
                                 !.remedies = Findings(unpriced, mispriced)]
  /\ StartTo("remedy")
  /\ UNCHANGED <<dbVars, brokerVars, startVars>>

-----------------------------------------------------------------------------
(* app.startup._apply_remedies, under the locks of execution.orders.  The  *)
(* stops are listed once more before the first remedy: one that is gone    *)
(* by then is passed over, one that goes later is not.                     *)

(* The report's order: a ticker's excess stops before its other findings.  *)
(* Room for the stop rows a remedy may insert is a bound of the model.     *)
Remedies(r) ==
  /\ phase["startup"] = "remedy"
  /\ r \in start.remedies
  /\ r.kind # "cancel" =>
       \A e \in start.remedies : e.kind = "cancel" => e.ticker # r.ticker
  /\ Cardinality(Unused(stops)) >= MaxTries
  /\ start' = [start EXCEPT !.remedies = @ \ {r}]
  /\ UNCHANGED <<dbVars, brokerVars, taskVars, shutdownVars, recoveryVars>>

EnterRemedy(r, place, op) ==
  Enter("startup", [NoSection EXCEPT !.at = place, !.op = op,
                      !.ticker = r.ticker, !.pos = r.pos, !.skey = r.stop])

PassOver == lock = NoOne /\ UNCHANGED <<lock, sec>>

CancelExcess(r) ==
  /\ r.kind = "cancel"
  /\ Remedies(r)
  /\ \/ EnterRemedy(r, "orphanCancel", "orphan")
     \/ brokerStops[r.stop].st # "LIVE" /\ PassOver

ReplaceStop(r) ==
  /\ r.kind = "replace"
  /\ Remedies(r)
  /\ EnterRemedy(r, "cancelStop", "replace")

AdoptStop(r) ==
  /\ r.kind = "adopt"
  /\ Remedies(r)
  /\ \/ EnterRemedy(r, "adoptRecord", "adopt")
     \/ brokerStops[r.stop].st # "LIVE" /\ PassOver

(* place_protective_stop returns at once for a position that is EXCHANGE   *)
(* and has a standing row, which is what STOP_MISSING mostly names.        *)
PlaceStop(r) ==
  /\ r.kind = "place"
  /\ Remedies(r)
  /\ IF ActiveForPosition(stops, r.pos) # {}
       THEN PassOver
       ELSE EnterRemedy(r, "stopRecord", "place")

(* Mutant: a foreign holding is named in the alert, and the bot trades on. *)
FinishAnyway ==
  /\ StartAt("remedy")
  /\ start.remedies = {}
  /\ StartTo("done")
  /\ entriesStopped' = FALSE
  /\ UNCHANGED <<dbVars, brokerVars, lock, sec, todo, cycle, polls, start,
                 recoveryVars>>

(* _enforce_account_exclusivity, the ready alert, and loops.run *)
Finish ==
  /\ StartAt("remedy")
  /\ start.remedies = {}
  /\ IF start.foreign # {} /\ ~AllowForeign
       THEN StartFails /\ UNCHANGED entriesStopped
       ELSE StartTo("done") /\ entriesStopped' = FALSE /\ UNCHANGED start
  /\ UNCHANGED <<dbVars, brokerVars, lock, sec, todo, cycle, polls, recoveryVars>>

(* The calls of the broker whose failure the start does not handle:        *)
(* get_portfolio, list_stop_orders, and get_instrument for a holding to be *)
(* adopted or a stop to be placed.  The fault "lookup" is for the order    *)
(* path; the start's own get_instrument fails with its other queries.      *)
BrokerAskedByStart ==
  \/ StartAt("resolve") /\ todo["startup"] = {}
  \/ Compared /\ start.unknown = {}
  \/ Compared /\ \E t \in start.unknown, k \in OrderKeys : Recognises(k, t)
  \/ StartAt("remedy")
       /\ \E r \in start.remedies : r.kind \in {"replace", "place"}

(* Such a failure, or that of a direct write, changes nothing further. *)
StartAborts ==
  /\ \/ "deaf" \in Faults /\ BrokerAskedByStart
     \/ "db" \in Faults /\ StartAt("reconcile")
  /\ StartFails
  /\ UNCHANGED <<dbVars, brokerVars, lock, sec, todo, cycle, shutdownVars,
                 recoveryVars>>

-----------------------------------------------------------------------------
(* execution.orders.adopt_existing_stop *)

AdoptRecord ==
  /\ At("adoptRecord")
  /\ sec.skey \notin adopted
  /\ \E s \in StopKeys :
       /\ IsFresh(stops, s)
       /\ CanRecordPlacing(stops, s, sec.pos)
       /\ stops' = RecordPlacing(stops, s, sec.pos, brokerStops[sec.skey].lots)
       /\ brokerStops' = [brokerStops EXCEPT ![s] = brokerStops[sec.skey],
                                             ![sec.skey] = NoBrokerStop]
       /\ adopted' = adopted \cup {s}
       /\ sec' = [sec EXCEPT !.skey = s, !.at = "stopActivate"]
  /\ UNCHANGED <<orders, positions, halted, cooldown, brokerOrders, held, lock,
                 taskVars, shutdownVars, start, crashes, sales>>

(* record_placing raises what startup does not handle: DuplicateOrderError *)
(* for a key it has, a database error and a halt for a position that has a *)
(* standing row, and that too when the write fails.                        *)
AdoptRefused ==
  /\ At("adoptRecord")
  /\ \/ sec.skey \in adopted /\ UNCHANGED halted
     \/ /\ sec.skey \notin adopted
        /\ ActiveForPosition(stops, sec.pos) # {} \/ "db" \in Faults
        /\ halted' = TRUE
  /\ Raise
  /\ start' = NoStart
  /\ UNCHANGED <<orders, positions, stops, cooldown, brokerVars, shutdownVars,
                 recoveryVars>>

(* execution.orders.cancel_orphaned_stop.  It settles the row whose key is *)
(* the broker's identifier, when there is one; the record it is given      *)
(* names no position, so none is demoted.                                  *)
OrphanCancel ==
  /\ At("orphanCancel")
  /\ brokerStops' = StopCancelled(sec.skey)
  /\ IF sec.skey \in adopted THEN Goto("orphanSettle") ELSE Leave
  /\ UNCHANGED <<dbVars, brokerOrders, held, shutdownVars, start, recoveryVars>>

OrphanCancelLost ==
  /\ At("orphanCancel")
  /\ "deaf" \in Faults
  /\ brokerStops' \in {brokerStops, StopCancelled(sec.skey)}
  /\ Raise
  /\ start' = NoStart
  /\ UNCHANGED <<dbVars, brokerOrders, held, shutdownVars, recoveryVars>>

OrphanSettle ==
  /\ At("orphanSettle")
  /\ stops' = SettleStop(stops, sec.skey, "ORPHANED")
  /\ Leave
  /\ UNCHANGED <<orders, positions, halted, cooldown, brokerVars, shutdownVars,
                 start, recoveryVars>>

(* The write that fails is no _write: nothing halts. *)
OrphanUnsettled ==
  /\ At("orphanSettle")
  /\ "db" \in Faults
  /\ Raise
  /\ start' = NoStart
  /\ UNCHANGED <<dbVars, brokerVars, shutdownVars, recoveryVars>>

-----------------------------------------------------------------------------
Reconcile ==
  \/ ReadPortfolio \/ ReadStops \/ ExitCooldown \/ ExitStop
  \/ \E p \in PositionIds : \/ Matches(p) \/ AdjustLots(p)
                            \/ ExitFound(p) \/ ExitUnresolved(p)
  \/ \E t \in Tickers : AdoptHolding(t) \/ ReportForeign(t)

ApplyRemedies ==
  \E r \in start.remedies :
    CancelExcess(r) \/ ReplaceStop(r) \/ AdoptStop(r) \/ PlaceStop(r)

Adoption == \/ AdoptRecord \/ AdoptRefused
            \/ OrphanCancel \/ OrphanCancelLost
            \/ OrphanSettle \/ OrphanUnsettled

(* An operation of Execution, whoever runs it: one that raises out of the  *)
(* start ends it.                                                          *)
Operation ==
  /\ Holder \/ DbFails
  /\ start' = IF phase'["startup"] = "down" THEN NoStart ELSE start
  /\ UNCHANGED recoveryVars

Resolving == BeginResolve("startup") /\ UNCHANGED <<start, recoveryVars>>

Working == Ready /\ (Trading \/ Drain \/ Halt \/ Resume)
           /\ UNCHANGED <<start, recoveryVars>>

Outside == (Broker \/ (\E t \in Tickers : CooldownEnds(t)))
           /\ UNCHANGED <<start, recoveryVars>>

RecoveryInit == /\ Init
                /\ start = NoStart
                /\ adopted = {}
                /\ loose = {}
                /\ crashes = 0
                /\ sales = 0

(* The broker has the stop, and the bot has left the section that posted   *)
(* it without hearing so, or starts without a judgement of it.             *)
Loosened(rows, live, section, begun) ==
  {s \in StopKeys : live[s].st # "NONE" /\
     \/ rows[s].status \in {"PLACING", "FAILED"} /\ section.skey # s
     \/ phase["startup"] = "reconcile" /\ live[s].ticker \in begun.unpriced}

RecoveryNext ==
  /\ \/ Operation \/ Working \/ Outside
     \/ ProcessEnds \/ Boot \/ (\E t \in Tickers : OwnerSells(t))
     \/ Resolving \/ Reconcile \/ ApplyRemedies \/ Adoption
     \/ Finish \/ StartAborts
  /\ loose' = loose \cup Loosened(stops', brokerStops', sec', start')

RecoverySpec == RecoveryInit /\ [][RecoveryNext]_allVars

-----------------------------------------------------------------------------
(* Properties *)

(* An exit that was left unresolved has closed a position opened after it: *)
(* the disagreement that the run stale_exit shows.                         *)
ClosedByOlderExit(t) ==
  \E p \in PositionIds : /\ positions[p].ticker = t
                         /\ positions[p].closeKey # 0
                         /\ positions[p].closeKey < positions[p].openKey

(***************************************************************************)
(* A bot that is ready, and not halted, knows its account.  Whatever was   *)
(* interrupted and wherever, each ticker at rest holds the lots of its     *)
(* open position; fewer only when a stop has sold some, or when none are   *)
(* left and the sale could not be found.  Shares without a row are never   *)
(* traded beside, unless the configuration allows it: the start is         *)
(* refused, or trading was halted.                                         *)
(***************************************************************************)
AccountIsKnown ==
  Ready /\ ~halted =>
    \A t \in Tickers :
      /\ AtRest(t)
      /\ ~(AllowForeign /\ t \in start.foreign)
      /\ ~ClosedByOlderExit(t)
      => \/ held[t] = BookedLots(t)
         \/ held[t] < BookedLots(t) /\ (held[t] = 0 \/ SoldByStop(t))

(* An entry that was in doubt at a start is booked after a later one, or,  *)
(* when that start adopted its holding, a second time.                     *)
OpenedByOlderEntry(t) ==
  \E p, q \in PositionIds :
    /\ q < p /\ positions[p].ticker = t /\ positions[q].ticker = t
    /\ positions[p].openKey \in 1..positions[q].openKey

(***************************************************************************)
(* A stop has one owner.  Once the bot is ready, and not halted, whatever  *)
(* the broker would still execute on a ticker at rest is bound to the open *)
(* position there, which is EXCHANGE: never a second stop, never one left  *)
(* behind by a position, never one beside the bot's own watch.  Excepted   *)
(* are the stops whose placing was never answered, which only a start can  *)
(* find, those a start could not judge for want of a price increment, and  *)
(* a ticker where an entry was booked out of its turn: the new position    *)
(* may come upon the stop of an earlier one that was closed externally,    *)
(* which replace_protective_stop does not cancel.                          *)
(***************************************************************************)
LiveStopIsBound ==
  Ready /\ ~halted =>
    \A s \in {l \in StopKeys : brokerStops[l].st = "LIVE" /\ l \notin loose} :
      LET t == brokerStops[s].ticker
      IN AtRest(t) /\ ~OpenedByOlderEntry(t) =>
           \E p \in OpenOn(positions, t) :
             positions[p].protection = "EXCHANGE" /\ s \in ActiveForPosition(stops, p)

-----------------------------------------------------------------------------
(* What the documents say and the code does not keep.                      *)

(* technical-spec.md on remedies: "re-protect unprotected positions".  Of  *)
(* a bot that is ready, a position that relies on the exchange has a stop  *)
(* there that stands or has executed.                                      *)
ReliedStopStands ==
  Ready =>
    \A p \in OpenPositions :
      LET s == positions[p].stopKey
      IN positions[p].protection = "EXCHANGE" /\ s # 0
           /\ AtRest(positions[p].ticker) =>
           brokerStops[s].st \in {"LIVE", "FIRED", "VOID"}

(* technical-spec.md on restarts: "an existing stop is adopted rather than *)
(* replaced".  A stop found to be adopted meets no row that stands in the  *)
(* way of its own.                                                         *)
AdoptionSucceeds ==
  sec.at = "adoptRecord" =>
    sec.skey \notin adopted /\ ActiveForPosition(stops, sec.pos) = {}
=============================================================================
