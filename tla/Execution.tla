----------------------------- MODULE Execution -----------------------------
(***************************************************************************)
(* The order path of one process: zarabot/execution/orders.py and the      *)
(* tasks that call it, against the broker and the database.                *)
(*                                                                         *)
(* Every operation of orders.py runs under the ticker's lock and then the  *)
(* global submission lock, so at most one is in progress: the critical     *)
(* section "sec", held by the task "lock".  Inside it one step is one      *)
(* committed transaction or one broker call, the points at which the       *)
(* coroutine is suspended and anything else may happen.  Reads made inside *)
(* the section belong to the step that follows them: no one else writes    *)
(* what they read while the section is held.                               *)
(*                                                                         *)
(* Two tasks enter the section: the trading loop (app/loops.py) and the    *)
(* shutdown drain (app/shutdown.py), which runs beside it.  What they read *)
(* outside the lock, the list of unresolved orders and the list of open    *)
(* positions, is kept as they read it.                                     *)
(*                                                                         *)
(* What may happen to the bot, chosen by Faults:                           *)
(*   refuse    it may refuse an order or a stop                            *)
(*   silence   a posted order may raise BrokerUnavailable, placed or not   *)
(*   mutestop  a posted stop may raise BrokerUnavailable, placed or not    *)
(*   slow      a market order may fill later, in parts, or be cancelled    *)
(*   deaf      a query or a cancel may raise BrokerUnavailable             *)
(*   lookup    get_instrument may raise                                    *)
(*   fire      a standing stop may execute                                 *)
(*   db        a database write may fail                                   *)
(*   halt      trading is halted, and resumed                              *)
(*   signal    the process is told to shut down                            *)
(***************************************************************************)
EXTENDS TradeDb

CONSTANTS
  MaxTries,   \* _STOP_ATTEMPTS
  MaxPolls,   \* the drain's _WAIT_SECONDS / _POLL_SECONDS
  Faults      \* what the environment does to the bot

FaultKinds == {"refuse", "silence", "mutestop", "slow", "deaf", "lookup",
               "fire", "db", "halt", "signal"}

ASSUME ExecutionAssumption ==
  /\ MaxTries \in Nat \ {0}
  /\ MaxPolls \in Nat
  /\ Faults \subseteq FaultKinds

VARIABLES
  orders, positions, stops,  \* the three tables
  halted, cooldown,          \* the halt flag; tickers in their cooldown
  brokerOrders, brokerStops, \* the broker's own records, by the bot's key
  held,                      \* lots of each ticker in the account
  lock, sec,                 \* the submission lock and the section it guards
  phase, todo,               \* each task's place, and the orders it has listed
  cycle,                     \* what the trading cycle has read
  entriesStopped, polls      \* app.loops._entries_stopped; the drain's polls

dbVars == <<orders, positions, stops, halted, cooldown>>
brokerVars == <<brokerOrders, brokerStops, held>>
taskVars == <<phase, todo, cycle>>
shutdownVars == <<entriesStopped, polls>>
vars == <<dbVars, brokerVars, lock, sec, taskVars, shutdownVars>>

-----------------------------------------------------------------------------
Tasks == {"trading", "drain", "startup"}
NoOne == "nobody"

Phases == {"sleep", "resolve", "stops", "exits", "entries",  \* trading
           "off", "poll", "closed", "failed",                \* drain
           "done", "reconcile", "remedy", "down"}            \* startup

BrokerStatus == {"NONE", "LIVE", "FILLED", "REJECTED", "CANCELLED"}
BrokerOrder == [st : BrokerStatus, ticker : Tickers \cup {NoTicker},
                intent : Intents, lots : Nat, filled : Nat]
NoBrokerOrder == [st |-> "NONE", ticker |-> NoTicker, intent |-> "ENTRY",
                  lots |-> 0, filled |-> 0]

BrokerStopStatus == {"NONE", "LIVE", "CANCELLED", "FIRED", "VOID"}
BrokerStop == [st : BrokerStopStatus, ticker : Tickers \cup {NoTicker},
               lots : Nat, sold : Nat]
NoBrokerStop == [st |-> "NONE", ticker |-> NoTicker, lots |-> 0, sold |-> 0]

Places == {"none", "recordIntent", "post", "query", "cancelOrder", "reread",
           "settleReply", "lookup", "openRow",
           "stopRecord", "stopPost", "stopActivate", "stopProtect", "stopFail",
           "cancelStop", "cancelSettle", "demote",
           "execSettle", "execLocal", "closeRow", "shrink", "cooldown",
           "adoptRecord", "orphanCancel", "orphanSettle"}
Operations == {"none", "open", "close", "stop", "resolve",
               "place", "replace", "adopt", "orphan"}

Section == [at : Places, op : Operations, ticker : Tickers \cup {NoTicker},
            key : OrderKeys \cup {0}, pos : PositionIds \cup {0},
            skey : StopKeys \cup {0}, tries : 1..MaxTries, lots : Nat,
            trigger : Triggers \cup {"none"},
            ans : OrderStatus, got : Nat]
NoSection == [at |-> "none", op |-> "none", ticker |-> NoTicker, key |-> 0,
              pos |-> 0, skey |-> 0, tries |-> 1, lots |-> 0,
              trigger |-> "none", ans |-> "ABSENT", got |-> 0]

Cycle == [book : SUBSET [pos : PositionIds, protection : Protections],
          port : SUBSET Tickers, opened : SUBSET Tickers]
NoCycle == [book |-> {}, port |-> {}, opened |-> {}]

TablesOK == /\ orders \in [OrderKeys -> OrderRow]
            /\ positions \in [PositionIds -> PositionRow]
            /\ stops \in [StopKeys -> StopRow]
            /\ cooldown \in SUBSET Tickers

BrokerOK == /\ brokerOrders \in [OrderKeys -> BrokerOrder]
            /\ brokerStops \in [StopKeys -> BrokerStop]
            /\ held \in [Tickers -> Nat]

SectionOK == /\ lock \in Tasks \cup {NoOne}
             /\ sec \in Section

TasksOK == /\ phase \in [Tasks -> Phases]
           /\ todo \in [Tasks -> SUBSET OrderKeys]
           /\ cycle \in Cycle

FlagsOK == /\ halted \in BOOLEAN
           /\ entriesStopped \in BOOLEAN
           /\ polls \in 0..MaxPolls

TypeOK == TablesOK /\ BrokerOK /\ SectionOK /\ TasksOK /\ FlagsOK

-----------------------------------------------------------------------------
(* Moving inside the section, and the two ways out of it. *)

Running == phase["drain"] # "closed"
At(place) == Running /\ lock \in Tasks /\ sec.at = place

Goto(place) ==
  /\ sec' = [sec EXCEPT !.at = place]
  /\ UNCHANGED <<lock, taskVars>>

HeldTickers == {t \in Tickers : held[t] > 0}

(* The operation returns, or raises what its caller handles and goes on. *)
Leave ==
  /\ lock' = NoOne
  /\ sec' = NoSection
  /\ UNCHANGED taskVars

(* An opened position: the entry pass notes the ticker and re-reads the    *)
(* portfolio.                                                              *)
LeaveOpened ==
  /\ lock' = NoOne
  /\ sec' = NoSection
  /\ cycle' = IF sec.op = "open"
                THEN [cycle EXCEPT !.port = HeldTickers,
                                   !.opened = @ \cup {sec.ticker}]
                ELSE cycle
  /\ UNCHANGED <<phase, todo>>

(* Where an exception nobody handles leaves the task: the cycle is over, a *)
(* drain never gets to stop the process, a start fails.                    *)
Fallen(task) == CASE task = "trading" -> "sleep"
                  [] task = "drain"   -> "failed"
                  [] task = "startup" -> "down"

Raise ==
  /\ lock' = NoOne
  /\ sec' = NoSection
  /\ phase' = [phase EXCEPT ![lock] = Fallen(lock)]
  /\ todo' = [todo EXCEPT ![lock] = {}]
  /\ cycle' = IF lock = "trading" THEN NoCycle ELSE cycle

Enter(task, section) ==
  /\ Running
  /\ lock = NoOne
  /\ lock' = task
  /\ sec' = section

-----------------------------------------------------------------------------
(* The broker. *)

(* held after n more lots of order o; an account never goes short, because *)
(* every order is posted with confirm_margin_trade = False.                *)
Moved(o, n) == IF o.intent = "ENTRY"
                 THEN [held EXCEPT ![o.ticker] = @ + n]
                 ELSE [held EXCEPT ![o.ticker] = @ - n]

BrokerFill(k) ==
  /\ "slow" \in Faults
  /\ brokerOrders[k].st = "LIVE"
  /\ \E n \in 1..(brokerOrders[k].lots - brokerOrders[k].filled) :
       LET o == brokerOrders[k]
           filled == o.filled + n
       IN /\ o.intent = "ENTRY" \/ n <= held[o.ticker]
          /\ held' = Moved(o, n)
          /\ brokerOrders' = [brokerOrders EXCEPT ![k] =
               [@ EXCEPT !.filled = filled,
                         !.st = IF filled = o.lots THEN "FILLED" ELSE "LIVE"]]
  /\ UNCHANGED <<dbVars, brokerStops, lock, sec, taskVars, shutdownVars>>

(* The exchange ends an order short of its lots. *)
BrokerCancel(k) ==
  /\ "slow" \in Faults
  /\ brokerOrders[k].st = "LIVE"
  /\ \E st \in {"CANCELLED", "REJECTED"} :
       brokerOrders' = [brokerOrders EXCEPT ![k] = [@ EXCEPT !.st = st]]
  /\ UNCHANGED <<dbVars, brokerStops, held, lock, sec, taskVars, shutdownVars>>

(* The price trades through a standing stop: its market order sells the    *)
(* stop's lots, in parts if the exchange is slow, or is refused because    *)
(* the account no longer holds them.                                       *)
StopFires(s) ==
  /\ "fire" \in Faults
  /\ brokerStops[s].st = "LIVE"
  /\ brokerStops[s].lots <= held[brokerStops[s].ticker]
  /\ \E n \in 1..brokerStops[s].lots :
       /\ n = brokerStops[s].lots \/ "slow" \in Faults
       /\ brokerStops' = [brokerStops EXCEPT ![s] =
                            [@ EXCEPT !.st = "FIRED", !.sold = n]]
       /\ held' = [held EXCEPT ![brokerStops[s].ticker] = @ - n]
  /\ UNCHANGED <<dbVars, brokerOrders, lock, sec, taskVars, shutdownVars>>

StopRefused(s) ==
  /\ "fire" \in Faults
  /\ brokerStops[s].st = "LIVE"
  /\ brokerStops[s].lots > held[brokerStops[s].ticker]
  /\ brokerStops' = [brokerStops EXCEPT ![s] = [@ EXCEPT !.st = "VOID"]]
  /\ UNCHANGED <<dbVars, brokerOrders, held, lock, sec, taskVars, shutdownVars>>

StopSellsOn(s) ==
  /\ brokerStops[s].st = "FIRED"
  /\ brokerStops[s].sold < brokerStops[s].lots
  /\ held[brokerStops[s].ticker] > 0
  /\ brokerStops' = [brokerStops EXCEPT ![s].sold = @ + 1]
  /\ held' = [held EXCEPT ![brokerStops[s].ticker] = @ - 1]
  /\ UNCHANGED <<dbVars, brokerOrders, lock, sec, taskVars, shutdownVars>>

Broker == \/ \E k \in OrderKeys : BrokerFill(k) \/ BrokerCancel(k)
          \/ \E s \in StopKeys : StopFires(s) \/ StopRefused(s) \/ StopSellsOn(s)

-----------------------------------------------------------------------------
(* orders.record_submitting and broker.client.post_market_order *)

IntentOf(op) == IF op = "open" THEN "ENTRY" ELSE "EXIT"

NewRow(k, n) ==
  /\ IsFresh(orders, k)
  /\ orders' = RecordSubmitting(orders, k, sec.ticker, IntentOf(sec.op),
                                sec.trigger, n)
  /\ UNCHANGED <<positions, stops, halted, cooldown, brokerVars, lock, taskVars,
                 shutdownVars>>

(* Mutant: an order to be posted is not recorded first. *)
RecordIntentAfterwards ==
  /\ At("recordIntent")
  /\ sec.op # "stop" /\ sec.lots > 0
  /\ \E k \in OrderKeys : /\ IsFresh(orders, k)
                          /\ sec' = [sec EXCEPT !.key = k, !.at = "post"]
  /\ UNCHANGED <<dbVars, brokerVars, lock, taskVars, shutdownVars>>

(* Intent is written before the broker is called. *)
RecordIntent ==
  /\ At("recordIntent")
  /\ sec.op # "stop" /\ sec.lots > 0
  /\ \E k \in OrderKeys :
       /\ NewRow(k, sec.lots)
       /\ sec' = [sec EXCEPT !.key = k, !.at = "post"]

(* get_max_lots = 0: the refusal is recorded and no one is called. *)
RecordNoLots ==
  /\ At("recordIntent")
  /\ sec.op # "stop" /\ sec.lots = 0
  /\ \E k \in OrderKeys :
       /\ NewRow(k, 1)
       /\ sec' = [sec EXCEPT !.key = k, !.at = "settleReply",
                             !.ans = "REJECTED", !.got = 0]

(* The exchange has sold already: the order is the record of its fill. *)
RecordExecution ==
  /\ At("recordIntent")
  /\ sec.op = "stop"
  /\ \E k \in OrderKeys :
       /\ NewRow(k, sec.lots)
       /\ sec' = [sec EXCEPT !.key = k, !.at = "settleReply", !.ans = "FILLED"]

(* The order as the broker receives it. *)
Arrived(st, filled) ==
  [st |-> st, ticker |-> sec.ticker, intent |-> IntentOf(sec.op),
   lots |-> sec.lots, filled |-> filled]

CanTrade(n) == sec.op = "open" \/ n <= held[sec.ticker]

Takes(st, filled) ==
  /\ CanTrade(filled)
  /\ brokerOrders' = [brokerOrders EXCEPT ![sec.key] = Arrived(st, filled)]
  /\ held' = Moved(Arrived(st, filled), filled)
  /\ UNCHANGED brokerStops

Reply(status, filled) ==
  /\ sec' = [sec EXCEPT !.at = "settleReply", !.ans = status, !.got = filled]
  /\ UNCHANGED <<lock, taskVars>>

PostFilled ==
  /\ At("post")
  /\ Takes("FILLED", sec.lots)
  /\ Reply("FILLED", sec.lots)
  /\ UNCHANGED <<dbVars, shutdownVars>>

PostRefused ==
  /\ At("post")
  /\ "refuse" \in Faults \/ ~CanTrade(sec.lots)
  /\ Takes("REJECTED", 0)
  /\ Reply("REJECTED", 0)
  /\ UNCHANGED <<dbVars, shutdownVars>>

(* Mutant: a lost reply counts as a refusal. *)
OutcomeTakenForRefusal == Reply("REJECTED", 0)

(* The outcome is unknown: an entry raises BrokerUnavailable out of the    *)
(* cycle, an exit raises ExitFailed, which the cycle logs.                 *)
OutcomeUnknown == IF sec.op = "open" THEN Raise ELSE Leave

PostLost ==
  /\ At("post")
  /\ "silence" \in Faults
  /\ \/ UNCHANGED brokerVars
     \/ Takes("FILLED", sec.lots)
     \/ "slow" \in Faults /\ CanTrade(sec.lots) /\ Takes("LIVE", 0)
  /\ OutcomeUnknown
  /\ UNCHANGED <<dbVars, shutdownVars>>

(* SUBMITTED with nothing filled; for an exit, with a part filled too. *)
PostPending ==
  /\ At("post")
  /\ "slow" \in Faults
  /\ CanTrade(sec.lots)
  /\ \E n \in 0..(sec.lots - 1) :
       /\ sec.op = "open" => n = 0
       /\ Takes("LIVE", n)
  /\ OutcomeUnknown
  /\ UNCHANGED <<dbVars, shutdownVars>>

(* Mutant: the lots are taken from the reply, and the remainder left live. *)
PostPartialAsReplied ==
  /\ At("post")
  /\ sec.op = "open"
  /\ "slow" \in Faults
  /\ \E n \in 1..(sec.lots - 1) : Takes("LIVE", n) /\ Reply("FILLED", n)
  /\ UNCHANGED <<dbVars, shutdownVars>>

(* SUBMITTED with a part of an entry filled: its remainder is cancelled. *)
PostPartial ==
  /\ At("post")
  /\ sec.op = "open"
  /\ "slow" \in Faults
  /\ \E n \in 1..(sec.lots - 1) : Takes("LIVE", n)
  /\ Goto("cancelOrder")
  /\ UNCHANGED <<dbVars, shutdownVars>>

(* CANCELLED in the reply to the post itself, with or without a part       *)
(* filled, is neither FILLED nor REJECTED: the outcome counts as unknown.  *)
PostCancelled ==
  /\ At("post")
  /\ "slow" \in Faults
  /\ \E n \in 0..(sec.lots - 1) : Takes("CANCELLED", n)
  /\ OutcomeUnknown
  /\ UNCHANGED <<dbVars, shutdownVars>>

Post == \/ PostFilled \/ PostRefused \/ PostLost \/ PostPending
        \/ PostPartial \/ PostCancelled

-----------------------------------------------------------------------------
(* _resolve_partial_entry, and the query of _resolve_one *)

(* No answer: an entry being opened raises BrokerUnavailable; an order     *)
(* being resolved stays unresolved and the loop goes on.                   *)
NoAnswer == IF sec.op = "open" THEN Raise ELSE Leave

CancelledAtBroker ==
  IF brokerOrders[sec.key].st = "LIVE"
    THEN [brokerOrders EXCEPT ![sec.key] = [@ EXCEPT !.st = "CANCELLED"]]
    ELSE brokerOrders

CancelOrder ==
  /\ At("cancelOrder")
  /\ brokerOrders' = CancelledAtBroker
  /\ Goto("reread")
  /\ UNCHANGED <<dbVars, brokerStops, held, shutdownVars>>

CancelOrderLost ==
  /\ At("cancelOrder")
  /\ "deaf" \in Faults
  /\ brokerOrders' \in {brokerOrders, CancelledAtBroker}
  /\ NoAnswer
  /\ UNCHANGED <<dbVars, brokerStops, held, shutdownVars>>

Reread ==
  /\ At("reread")
  /\ LET filled == brokerOrders[sec.key].filled
     IN Reply(IF filled = 0 THEN "CANCELLED" ELSE "FILLED", filled)
  /\ UNCHANGED <<dbVars, brokerVars, shutdownVars>>

RereadLost ==
  /\ At("reread")
  /\ "deaf" \in Faults
  /\ NoAnswer
  /\ UNCHANGED <<dbVars, brokerVars, shutdownVars>>

Query ==
  /\ At("query")
  /\ LET o == brokerOrders[sec.key]
     IN \/ o.st = "NONE" /\ Reply("REJECTED", 0)            \* OrderNotFound
        \/ o.st \in TerminalOrder /\ Reply(o.st, o.filled)
        \/ /\ o.st = "LIVE" /\ o.intent = "ENTRY" /\ o.filled > 0
           /\ Goto("cancelOrder")
        \/ /\ o.st = "LIVE" /\ (o.intent = "EXIT" \/ o.filled = 0)
           /\ Leave
  /\ UNCHANGED <<dbVars, brokerVars, shutdownVars>>

QueryLost ==
  /\ At("query")
  /\ "deaf" \in Faults
  /\ Leave
  /\ UNCHANGED <<dbVars, brokerVars, shutdownVars>>

-----------------------------------------------------------------------------
(* orders.settle, and what each operation does with the outcome *)

(* The position an exit of this ticker would close. *)
IsOpenHere(p) == p \in OpenOn(positions, sec.ticker)

AfterOpen == IF sec.ans = "FILLED" THEN Goto("openRow") ELSE Leave
AfterClose == IF sec.ans = "FILLED" THEN Goto("closeRow") ELSE Leave

(* Mutant: what is found late is settled and not applied. *)
AfterResolveSettled == Leave

(* _apply_discovered_fill and _apply_terminal_exit *)
AfterResolve ==
  \/ /\ orders[sec.key].intent = "ENTRY"
     /\ IF sec.ans = "FILLED" /\ OpenOn(positions, sec.ticker) = {}
          THEN Goto("lookup")
          ELSE Leave
  \/ /\ orders[sec.key].intent = "EXIT"
     /\ sec.got = 0 \/ OpenOn(positions, sec.ticker) = {}
     /\ Leave
  \/ /\ orders[sec.key].intent = "EXIT"
     /\ sec.got > 0
     /\ \E p \in PositionIds :
          /\ IsOpenHere(p)
          /\ sec' = [sec EXCEPT !.pos = p,
               !.at = IF sec.ans = "FILLED" \/ sec.got >= positions[p].lots
                        THEN "cancelStop" ELSE "shrink"]
     /\ UNCHANGED <<lock, taskVars>>

SettleReply ==
  /\ At("settleReply")
  /\ CanSettle(orders, sec.key)
  /\ orders' = Settle(orders, sec.key, sec.ans, sec.got,
                      IF sec.op = "stop" THEN "exchange" ELSE "none")
  /\ \/ sec.op = "open" /\ AfterOpen
     \/ sec.op \in {"close", "stop"} /\ AfterClose
     \/ sec.op = "resolve" /\ AfterResolve
  /\ UNCHANGED <<positions, stops, halted, cooldown, brokerVars, shutdownVars>>

(* The row was settled by another task after this one listed it. *)
SettleTwice ==
  /\ At("settleReply")
  /\ ~CanSettle(orders, sec.key)
  /\ Raise
  /\ UNCHANGED <<dbVars, brokerVars, shutdownVars>>

Lookup ==
  /\ At("lookup")
  /\ Goto("openRow")
  /\ UNCHANGED <<dbVars, brokerVars, shutdownVars>>

LookupFails ==
  /\ At("lookup")
  /\ "lookup" \in Faults
  /\ Raise
  /\ UNCHANGED <<dbVars, brokerVars, shutdownVars>>

(* positions.open: the position row exists before its stop is placed. *)
OpenFromFill ==
  /\ At("openRow")
  /\ IF OpenOn(positions, sec.ticker) = {}
       THEN \E p \in PositionIds :
              /\ IsFresh(positions, p)
              /\ positions' = OpenRow(positions, p, sec.ticker,
                                      orders[sec.key].filled, sec.key)
              /\ sec' = [sec EXCEPT !.pos = p, !.at = "stopRecord"]
              /\ UNCHANGED <<lock, taskVars>>
       ELSE Raise /\ UNCHANGED positions
  /\ UNCHANGED <<orders, stops, halted, cooldown, brokerVars, shutdownVars>>

-----------------------------------------------------------------------------
(* _place_stop *)

AlreadyProtected == /\ ActiveForPosition(stops, sec.pos) # {}
                    /\ positions[sec.pos].protection = "EXCHANGE"

StopRecord ==
  /\ At("stopRecord")
  /\ ~AlreadyProtected
  /\ \E s \in StopKeys :
       /\ IsFresh(stops, s)
       /\ CanRecordPlacing(stops, s, sec.pos)
       /\ stops' = RecordPlacing(stops, s, sec.pos, positions[sec.pos].lots)
       /\ sec' = [sec EXCEPT !.skey = s, !.at = "stopPost"]
  /\ UNCHANGED <<orders, positions, halted, cooldown, brokerVars, lock, taskVars,
                 shutdownVars>>

(* The unique index refuses a second standing stop: a database error. *)
StopRecordRefused ==
  /\ At("stopRecord")
  /\ ~AlreadyProtected
  /\ ActiveForPosition(stops, sec.pos) # {}
  /\ halted' = TRUE
  /\ Raise
  /\ UNCHANGED <<orders, positions, stops, cooldown, brokerVars, shutdownVars>>

StopStands ==
  brokerStops' = [brokerStops EXCEPT ![sec.skey] =
    [st |-> "LIVE", ticker |-> sec.ticker, lots |-> stops[sec.skey].lots,
     sold |-> 0]]

StopPost ==
  /\ At("stopPost")
  /\ \/ /\ stops[sec.skey].lots <= held[sec.ticker]
        /\ StopStands
        /\ Goto("stopActivate")
     \/ /\ "refuse" \in Faults \/ stops[sec.skey].lots > held[sec.ticker]
        /\ Goto("stopFail")
        /\ UNCHANGED brokerStops
  /\ UNCHANGED <<dbVars, brokerOrders, held, shutdownVars>>

StopPostLost ==
  /\ At("stopPost")
  /\ "mutestop" \in Faults
  /\ \/ stops[sec.skey].lots <= held[sec.ticker] /\ StopStands
     \/ UNCHANGED brokerStops
  /\ Goto("stopFail")
  /\ UNCHANGED <<dbVars, brokerOrders, held, shutdownVars>>

StopActivate ==
  /\ At("stopActivate")
  /\ stops' = Activate(stops, sec.skey)
  /\ Goto("stopProtect")
  /\ UNCHANGED <<orders, positions, halted, cooldown, brokerVars, shutdownVars>>

StopProtect ==
  /\ At("stopProtect")
  /\ positions' = SetStopProtection(positions, sec.pos, "EXCHANGE", sec.skey)
  /\ LeaveOpened
  /\ UNCHANGED <<orders, stops, halted, cooldown, brokerVars, shutdownVars>>

(* Mutant: one attempt too many. *)
TryOnceMore == IF sec.tries <= MaxTries
                 THEN /\ sec' = [sec EXCEPT !.tries = @ + 1, !.at = "stopRecord"]
                      /\ UNCHANGED <<lock, taskVars>>
                 ELSE LeaveOpened

(* After the last attempt the position is kept and stays LOCAL. *)
TryAgain == IF sec.tries < MaxTries
              THEN /\ sec' = [sec EXCEPT !.tries = @ + 1, !.at = "stopRecord"]
                   /\ UNCHANGED <<lock, taskVars>>
              ELSE LeaveOpened

StopFail ==
  /\ At("stopFail")
  /\ stops' = SettleStop(stops, sec.skey, "FAILED")
  /\ TryAgain
  /\ UNCHANGED <<orders, positions, halted, cooldown, brokerVars, shutdownVars>>

-----------------------------------------------------------------------------
(* _cancel_stop_to_local *)

(* Mutant: the stop row is settled and the broker not told. *)
StopLeftStanding(s) == brokerStops

(* cancel_stop_order: a stop that is no longer live is not an error. *)
StopCancelled(s) ==
  IF brokerStops[s].st = "LIVE"
    THEN [brokerStops EXCEPT ![s] = [@ EXCEPT !.st = "CANCELLED"]]
    ELSE brokerStops

CancelStop ==
  /\ At("cancelStop")
  /\ IF ActiveForPosition(stops, sec.pos) = {}
       THEN Goto("demote") /\ UNCHANGED brokerStops
       ELSE \E s \in ActiveForPosition(stops, sec.pos) :
              /\ sec' = [sec EXCEPT !.skey = s, !.at = "cancelSettle"]
              /\ brokerStops' = IF stops[s].status = "ACTIVE"
                                  THEN StopCancelled(s) ELSE brokerStops
              /\ UNCHANGED <<lock, taskVars>>
  /\ UNCHANGED <<dbVars, brokerOrders, held, shutdownVars>>

CancelStopLost ==
  /\ At("cancelStop")
  /\ "deaf" \in Faults
  /\ \E s \in ActiveForPosition(stops, sec.pos) :
       /\ stops[s].status = "ACTIVE"
       /\ brokerStops' \in {brokerStops, StopCancelled(s)}
  /\ Raise
  /\ UNCHANGED <<dbVars, brokerOrders, held, shutdownVars>>

CancelSettle ==
  /\ At("cancelSettle")
  /\ stops' = SettleStop(stops, sec.skey, "CANCELLED")
  /\ Goto("demote")
  /\ UNCHANGED <<orders, positions, halted, cooldown, brokerVars, shutdownVars>>

(* Mutant: the position keeps the mark of the stop it lost. *)
ToLocalForgotten(p) == positions

ToLocal(p) == IF positions[p].protection = "EXCHANGE"
                THEN SetStopProtection(positions, p, "LOCAL", 0)
                ELSE positions

Demote ==
  /\ At("demote")
  /\ positions' = ToLocal(sec.pos)
  /\ Goto(CASE sec.op = "close"   -> "recordIntent"
            [] sec.op = "resolve" -> "closeRow"
            [] sec.op = "replace" -> "stopRecord")
  /\ UNCHANGED <<orders, stops, halted, cooldown, brokerVars, shutdownVars>>

-----------------------------------------------------------------------------
(* close_executed_stop, _finish_close, _apply_terminal_exit's remainder *)

ExecSettle ==
  /\ At("execSettle")
  /\ stops' = IF positions[sec.pos].stopKey = 0
                THEN stops
                ELSE SettleStop(stops, positions[sec.pos].stopKey, "EXECUTED")
  /\ Goto("execLocal")
  /\ UNCHANGED <<orders, positions, halted, cooldown, brokerVars, shutdownVars>>

ExecLocal ==
  /\ At("execLocal")
  /\ positions' = ToLocal(sec.pos)
  /\ Goto("recordIntent")
  /\ UNCHANGED <<orders, stops, halted, cooldown, brokerVars, shutdownVars>>

(* Mutant: an exit is booked under a default trigger. *)
FinishCloseByDefault ==
  /\ At("closeRow")
  /\ IF CanClose(positions, sec.pos)
       THEN /\ positions' = CloseRow(positions, sec.pos, "MAX_AGE", sec.key)
            /\ Goto("cooldown")
       ELSE Raise /\ UNCHANGED positions
  /\ UNCHANGED <<orders, stops, halted, cooldown, brokerVars, shutdownVars>>

FinishClose ==
  /\ At("closeRow")
  /\ IF CanClose(positions, sec.pos)
       THEN /\ positions' = CloseRow(positions, sec.pos, sec.trigger, sec.key)
            /\ Goto("cooldown")
       ELSE Raise /\ UNCHANGED positions
  /\ UNCHANGED <<orders, stops, halted, cooldown, brokerVars, shutdownVars>>

StartCooldown ==
  /\ At("cooldown")
  /\ cooldown' = cooldown \cup {sec.ticker}
  /\ Leave
  /\ UNCHANGED <<orders, positions, stops, halted, brokerVars, shutdownVars>>

Shrink ==
  /\ At("shrink")
  /\ CanUpdateLots(positions, sec.pos, positions[sec.pos].lots - sec.got)
  /\ positions' = UpdateLots(positions, sec.pos,
                             positions[sec.pos].lots - sec.got)
  /\ Leave
  /\ UNCHANGED <<orders, stops, halted, cooldown, brokerVars, shutdownVars>>

-----------------------------------------------------------------------------
(* Database failures: the transaction rolls back. *)

DemoteWrites == positions[sec.pos].protection = "EXCHANGE"

(* Mutant: the alert and the error, without the halt. *)
WriteFailsQuietly ==
  /\ Running /\ lock \in Tasks
  /\ "db" \in Faults
  /\ \/ sec.at \in {"recordIntent", "settleReply", "openRow", "stopRecord",
                    "stopActivate", "stopProtect", "closeRow", "shrink"}
     \/ sec.at \in {"demote", "execLocal"} /\ DemoteWrites
  /\ Raise
  /\ UNCHANGED <<dbVars, brokerVars, shutdownVars>>

(* The writes made through _write: alert, halt, re-raise. *)
WriteFails ==
  /\ Running /\ lock \in Tasks
  /\ "db" \in Faults
  /\ \/ sec.at \in {"recordIntent", "settleReply", "openRow", "stopRecord",
                    "stopActivate", "stopProtect", "closeRow", "shrink"}
     \/ sec.at \in {"demote", "execLocal"} /\ DemoteWrites
  /\ halted' = TRUE
  /\ Raise
  /\ UNCHANGED <<orders, positions, stops, cooldown, brokerVars, shutdownVars>>

(* Settling a stop is not: the error leaves the operation, nothing halts. *)
StopSettleFails ==
  /\ Running /\ lock \in Tasks
  /\ "db" \in Faults
  /\ \/ sec.at = "cancelSettle"
     \/ sec.at = "execSettle" /\ positions[sec.pos].stopKey # 0
  /\ Raise
  /\ UNCHANGED <<dbVars, brokerVars, shutdownVars>>

(* An unplaceable stop that cannot be settled is logged and left PLACING. *)
StopFailUnwritten ==
  /\ At("stopFail")
  /\ "db" \in Faults
  /\ TryAgain
  /\ UNCHANGED <<dbVars, brokerVars, shutdownVars>>

(* A lost cooldown halts; the close stands. *)
CooldownUnwritten ==
  /\ At("cooldown")
  /\ "db" \in Faults
  /\ halted' = TRUE
  /\ Leave
  /\ UNCHANGED <<orders, positions, stops, cooldown, brokerVars, shutdownVars>>

DbFails == \/ WriteFails \/ StopSettleFails
           \/ StopFailUnwritten \/ CooldownUnwritten

-----------------------------------------------------------------------------
(* app.loops.trading_cycle *)

(* Bounds of the model.  Room for whatever a new entry may come to need,   *)
(* so that no section ever stands at a key that does not exist; and one    *)
(* order key is kept for a stop the exchange executes.                     *)
RoomForEntry ==
  LET entries == {k \in Unresolved(orders) : orders[k].intent = "ENTRY"}
  IN /\ Cardinality(Unused(orders)) > 1
     /\ Cardinality(Unused(positions)) > Cardinality(entries)
     /\ Cardinality(Unused(stops)) >= MaxTries * (Cardinality(entries) + 1)

StartCycle ==
  /\ Running
  /\ phase["trading"] = "sleep"
  /\ phase' = [phase EXCEPT !["trading"] = "resolve"]
  /\ todo' = [todo EXCEPT !["trading"] = Unresolved(orders)]
  /\ UNCHANGED <<dbVars, brokerVars, lock, sec, cycle, shutdownVars>>

(* One turn of resolve_unfinished's loop: the oldest order still listed,   *)
(* as it was listed.                                                       *)
BeginResolve(task) ==
  /\ phase[task] = "resolve"
  /\ \E k \in todo[task] :
       /\ \A j \in todo[task] : k <= j
       /\ Enter(task, [NoSection EXCEPT !.at = "query", !.op = "resolve",
                         !.ticker = orders[k].ticker, !.key = k,
                         !.trigger = orders[k].trigger])
       /\ todo' = [todo EXCEPT ![task] = @ \ {k}]
  /\ UNCHANGED <<dbVars, brokerVars, phase, cycle, shutdownVars>>

CycleAt(place) == Running /\ phase["trading"] = place /\ lock # "trading"

ToPhase(place) == phase' = [phase EXCEPT !["trading"] = place]

(* list_open, once for the whole cycle *)
ReadBook ==
  /\ CycleAt("resolve")
  /\ todo["trading"] = {}
  /\ ToPhase("stops")
  /\ cycle' = [cycle EXCEPT !.book =
       {[pos |-> p, protection |-> positions[p].protection] :
          p \in {q \in PositionIds : positions[q].status = "OPEN"}}]
  /\ UNCHANGED <<dbVars, brokerVars, lock, sec, todo, shutdownVars>>

(* _close_executed: the broker reports a fill for the standing stop.  A    *)
(* fill it does not report yet is passed over, and the position goes on to *)
(* the exits with the others.                                              *)
BeginCloseExecuted(r) ==
  /\ phase["trading"] = "stops"
  /\ r.protection = "EXCHANGE"
  /\ Unused(orders) # {}
  /\ \E s \in ActiveForPosition(stops, r.pos) :
       /\ stops[s].status = "ACTIVE"
       /\ brokerStops[s].st = "FIRED"
       /\ Enter("trading",
            [NoSection EXCEPT !.at = "execSettle", !.op = "stop",
               !.ticker = positions[r.pos].ticker, !.pos = r.pos,
               !.lots = positions[r.pos].lots, !.trigger = "STOP_LOSS",
               !.got = brokerStops[s].sold])
  /\ cycle' = [cycle EXCEPT !.book = @ \ {r}]
  /\ UNCHANGED <<dbVars, brokerVars, phase, todo, shutdownVars>>

ToExits ==
  /\ CycleAt("stops")
  /\ ToPhase("exits")
  /\ UNCHANGED <<dbVars, brokerVars, lock, sec, todo, cycle, shutdownVars>>

(* _submit_exits: lifecycle.exits judges the row as the cycle read it, and *)
(* reports STOP_LOSS only for a LOCAL one; close_position reads it again.  *)
BeginClose(r, trigger) ==
  /\ phase["trading"] = "exits"
  /\ trigger = "STOP_LOSS" => r.protection = "LOCAL"
  /\ LET current == positions[r.pos]
     IN /\ trigger = "STOP_LOSS" => current.protection = "LOCAL"
        /\ Cardinality(Unused(orders)) > 1
        /\ Enter("trading",
             [NoSection EXCEPT
                !.at = IF current.protection = "EXCHANGE"
                         THEN "cancelStop" ELSE "recordIntent",
                !.op = "close", !.ticker = current.ticker, !.pos = r.pos,
                !.lots = current.lots, !.trigger = trigger])
  /\ cycle' = [cycle EXCEPT !.book = @ \ {r}]
  /\ UNCHANGED <<dbVars, brokerVars, phase, todo, shutdownVars>>

(* Steps 4 to 6: neither a shutdown nor a halt lets the entry pass begin.  *)
(* The pass reads the portfolio, and is not told of a halt that follows.   *)
ToEntries ==
  /\ CycleAt("exits")
  /\ ~entriesStopped /\ ~halted
  /\ ToPhase("entries")
  /\ cycle' = [book |-> {}, port |-> HeldTickers, opened |-> {}]
  /\ UNCHANGED <<dbVars, brokerVars, lock, sec, todo, shutdownVars>>

(* _evaluate_entries for one approved signal, and open_position's guard.   *)
(* get_max_lots may reduce the lots, to none.                              *)
BeginOpen(t) ==
  /\ phase["trading"] = "entries"
  /\ t \notin cycle.port \cup cycle.opened \cup cooldown
  /\ OpenOn(positions, t) = {}
  /\ RoomForEntry
  /\ \E n \in (IF "refuse" \in Faults THEN 0 ELSE 1)..MaxLots :
       Enter("trading", [NoSection EXCEPT !.at = "recordIntent", !.op = "open",
                           !.ticker = t, !.lots = n])
  /\ UNCHANGED <<dbVars, brokerVars, taskVars, shutdownVars>>

EndCycle ==
  /\ \E place \in {"stops", "exits", "entries"} : CycleAt(place)
  /\ ToPhase("sleep")
  /\ cycle' = NoCycle
  /\ UNCHANGED <<dbVars, brokerVars, lock, sec, todo, shutdownVars>>

Trading ==
  \/ StartCycle \/ ReadBook \/ ToExits \/ ToEntries \/ EndCycle
  \/ BeginResolve("trading")
  \/ \E r \in cycle.book : BeginCloseExecuted(r)
  \/ \E r \in cycle.book, trigger \in Triggers : BeginClose(r, trigger)
  \/ \E t \in Tickers : BeginOpen(t)

-----------------------------------------------------------------------------
(* app.shutdown.shutdown, started beside the loop by the first signal *)

Signal ==
  /\ Running
  /\ "signal" \in Faults
  /\ phase["drain"] = "off"
  /\ phase' = [phase EXCEPT !["drain"] = "poll"]
  /\ entriesStopped' = TRUE
  /\ UNCHANGED <<dbVars, brokerVars, lock, sec, todo, cycle, polls>>

(* Mutant: the drain polls until nothing is unresolved. *)
DrainPollUnbounded ==
  /\ phase["drain"] = "poll"
  /\ IF Unresolved(orders) = {}
       THEN /\ phase' = [phase EXCEPT !["drain"] = "closed"]
            /\ UNCHANGED todo
       ELSE /\ phase' = [phase EXCEPT !["drain"] = "resolve"]
            /\ todo' = [todo EXCEPT !["drain"] = Unresolved(orders)]
  /\ UNCHANGED <<dbVars, brokerVars, lock, sec, cycle, shutdownVars>>

(* The process ends with the drain: whatever was in progress is dropped. *)
DrainPoll ==
  /\ phase["drain"] = "poll"
  /\ IF Unresolved(orders) = {} \/ polls = MaxPolls
       THEN /\ phase' = [phase EXCEPT !["drain"] = "closed"]
            /\ UNCHANGED <<todo, polls>>
       ELSE /\ phase' = [phase EXCEPT !["drain"] = "resolve"]
            /\ todo' = [todo EXCEPT !["drain"] = Unresolved(orders)]
            /\ polls' = polls + 1
  /\ UNCHANGED <<dbVars, brokerVars, lock, sec, cycle, entriesStopped>>

DrainPolled ==
  /\ phase["drain"] = "resolve"
  /\ todo["drain"] = {}
  /\ lock # "drain"
  /\ phase' = [phase EXCEPT !["drain"] = "poll"]
  /\ UNCHANGED <<dbVars, brokerVars, lock, sec, todo, cycle, shutdownVars>>

Drain == Signal \/ DrainPoll \/ DrainPolled \/ BeginResolve("drain")

-----------------------------------------------------------------------------
CooldownEnds(t) ==
  /\ t \in cooldown
  /\ cooldown' = cooldown \ {t}
  /\ UNCHANGED <<orders, positions, stops, halted, brokerVars, lock, sec,
                 taskVars, shutdownVars>>

(* /halt, or the cycle's own measure of the day's loss *)
Halt ==
  /\ Running
  /\ "halt" \in Faults
  /\ ~halted
  /\ halted' = TRUE
  /\ UNCHANGED <<orders, positions, stops, cooldown, brokerVars, lock, sec,
                 taskVars, shutdownVars>>

(* /resume *)
Resume ==
  /\ Running
  /\ "halt" \in Faults
  /\ halted
  /\ halted' = FALSE
  /\ UNCHANGED <<orders, positions, stops, cooldown, brokerVars, lock, sec,
                 taskVars, shutdownVars>>

Environment == Halt \/ Resume \/ (\E t \in Tickers : CooldownEnds(t)) \/ Broker

(* Every step of the operation that holds the lock. *)
Holder ==
  \/ RecordIntent \/ RecordNoLots \/ RecordExecution
  \/ Post \/ Query \/ QueryLost
  \/ CancelOrder \/ CancelOrderLost \/ Reread \/ RereadLost
  \/ SettleReply \/ SettleTwice \/ Lookup \/ LookupFails \/ OpenFromFill
  \/ StopRecord \/ StopRecordRefused
  \/ StopPost \/ StopPostLost \/ StopActivate \/ StopProtect \/ StopFail
  \/ CancelStop \/ CancelStopLost \/ CancelSettle \/ Demote
  \/ ExecSettle \/ ExecLocal \/ FinishClose \/ StartCooldown \/ Shrink

AtFirst(task) == CASE task = "trading" -> "sleep"
                   [] task = "drain"   -> "off"
                   [] task = "startup" -> "done"

Init ==
  /\ orders = [k \in OrderKeys |-> NoOrder]
  /\ positions = [p \in PositionIds |-> NoPosition]
  /\ stops = [s \in StopKeys |-> NoStop]
  /\ halted = FALSE
  /\ cooldown = {}
  /\ brokerOrders = [k \in OrderKeys |-> NoBrokerOrder]
  /\ brokerStops = [s \in StopKeys |-> NoBrokerStop]
  /\ held = [t \in Tickers |-> 0]
  /\ lock = NoOne
  /\ sec = NoSection
  /\ phase = [task \in Tasks |-> AtFirst(task)]
  /\ todo = [task \in Tasks |-> {}]
  /\ cycle = NoCycle
  /\ entriesStopped = FALSE
  /\ polls = 0

Process == Holder \/ DbFails \/ Trading \/ Drain

Next == Process \/ Environment

Spec == Init /\ [][Next]_vars

(***************************************************************************)
(* Fairness of the event loop: it runs every task that is ready, and       *)
(* asyncio.Lock is handed over in the order of arrival, so strong fairness *)
(* for the steps that wait for it.  BrokerAnswers is asked only where a    *)
(* property says so: a query that is repeated is answered in the end, and  *)
(* a market order does not rest at the exchange for ever.  So is           *)
(* DatabaseWrites: the write of an answer that is tried in cycle after     *)
(* cycle is committed in the end.  Nothing is asked of the signal, the     *)
(* owner or the price.                                                     *)
(***************************************************************************)
Fairness ==
  /\ WF_vars(Holder)
  /\ WF_vars(StartCycle \/ ReadBook \/ EndCycle)
  /\ SF_vars(BeginResolve("trading"))
  /\ SF_vars(\E r \in cycle.book : BeginCloseExecuted(r))
  /\ WF_vars(DrainPoll \/ DrainPolled)
  /\ SF_vars(BeginResolve("drain"))

FairSpec == Spec /\ Fairness

BrokerAnswers == /\ SF_vars(Query)
                 /\ \A k \in OrderKeys : WF_vars(BrokerFill(k) \/ BrokerCancel(k))

DatabaseWrites == SF_vars(SettleReply)

-----------------------------------------------------------------------------
(* Properties *)

Terminal(k) == orders[k].status \in TerminalOrder

(***************************************************************************)
(* A settled order row tells what the broker has done and will do: its     *)
(* lots are the lots the broker filled, and the broker's order is over.    *)
(* An order settled on a reply that was already stale, or before its       *)
(* remainder was cancelled, would break it one broker step later.  Rows    *)
(* that record the broker's own sale, an executed stop, are not among them.*)
(***************************************************************************)
SettledTruth ==
  \A k \in OrderKeys :
    Terminal(k) /\ orders[k].brokerId = "none" =>
      /\ brokerOrders[k].st # "LIVE"
      /\ brokerOrders[k].filled = orders[k].filled

(***************************************************************************)
(* Whatever the broker holds of ours was recorded before it was sent: a    *)
(* restart finds a row for every order that can have moved money.          *)
(***************************************************************************)
WriteAhead ==
  \A k \in OrderKeys :
    brokerOrders[k].st # "NONE" =>
      /\ orders[k].status # "ABSENT"
      /\ orders[k].ticker = brokerOrders[k].ticker
      /\ orders[k].intent = brokerOrders[k].intent
      /\ orders[k].lots = brokerOrders[k].lots

(* A position stands on the fills of its own orders: it was opened from an *)
(* entry of its ticker that filled, never for more lots, and closed from   *)
(* an exit of its ticker that filled, for that order's reason.             *)
OpenedFromFill(p) ==
  LET row == positions[p]
  IN /\ row.openKey # 0
     /\ orders[row.openKey].intent = "ENTRY"
     /\ orders[row.openKey].status = "FILLED"
     /\ orders[row.openKey].ticker = row.ticker
     /\ row.lots \in 1..orders[row.openKey].filled

ClosedFromFill(p) ==
  LET row == positions[p]
  IN /\ row.closeKey # 0
     /\ orders[row.closeKey].intent = "EXIT"
     /\ orders[row.closeKey].status \in TerminalOrder
     /\ orders[row.closeKey].ticker = row.ticker
     /\ orders[row.closeKey].trigger = row.trigger
     /\ orders[row.closeKey].filled > 0

BookedFromFills ==
  \A p \in PositionIds :
    /\ positions[p].status # "ABSENT" => OpenedFromFill(p)
    /\ positions[p].status = "CLOSED" => ClosedFromFill(p)

(* No fill is booked twice: an order opens, or closes, one position. *)
OneFillOneBooking ==
  \A p, q \in PositionIds :
    p # q => /\ positions[p].openKey # 0 =>
                  positions[p].openKey # positions[q].openKey
             /\ positions[p].closeKey # 0 =>
                  positions[p].closeKey # positions[q].closeKey

(* A row that was settled never changes again, whoever resolves it late. *)
SettledIsFinal ==
  [][\A k \in OrderKeys : Terminal(k) => orders'[k] = orders[k]]_vars

(***************************************************************************)
(* The books balance.  Of a ticker at rest, with every order settled and   *)
(* no operation on it in progress, the account holds the lots of the open  *)
(* position, and fewer only when a stop sold them and is not yet recorded. *)
(***************************************************************************)
AtRest(t) ==
  /\ \A k \in Unresolved(orders) : orders[k].ticker # t
  /\ sec.ticker # t

BookedLots(t) == IF OpenOn(positions, t) = {} THEN 0
                 ELSE positions[CHOOSE p \in OpenOn(positions, t) : TRUE].lots

SoldByStop(t) ==
  \E s \in StopKeys : /\ brokerStops[s].ticker = t
                      /\ brokerStops[s].st = "FIRED"
                      /\ stops[s].status # "EXECUTED"

BooksBalance ==
  \A t \in Tickers :
    AtRest(t) => \/ held[t] = BookedLots(t)
                 \/ held[t] < BookedLots(t) /\ SoldByStop(t)

(* Rule 11, "halt trading", for what is bought: whichever write fails, and *)
(* whichever stop is refused before or after it, an entry that is settled  *)
(* with its fill has a position, or trading is halted.                     *)
BookedEntry(k) == \E p \in PositionIds : positions[p].openKey = k

UnbookedEntryHalts ==
  \A k \in OrderKeys :
    /\ Terminal(k) /\ orders[k].intent = "ENTRY" /\ orders[k].filled > 0
    /\ AtRest(orders[k].ticker)
    => BookedEntry(k) \/ halted

(***************************************************************************)
(* A position marked EXCHANGE names a stop row of its own that stands, for *)
(* all of its lots; only a cancel or an execution being written down is    *)
(* between the two.                                                        *)
(***************************************************************************)
BeingDemoted(p) == sec.pos = p /\ sec.at \in {"demote", "execLocal"}

ExchangeIsBound ==
  \A p \in PositionIds :
    positions[p].protection = "EXCHANGE" =>
      \/ BeingDemoted(p)
      \/ /\ positions[p].stopKey # 0
         /\ stops[positions[p].stopKey] =
              [status |-> "ACTIVE", position |-> p, lots |-> positions[p].lots]

(* A stop the broker would still execute belongs to an open position: none *)
(* outlives the sale of the shares it was to sell.                         *)
LiveStopIsOwned ==
  \A s \in StopKeys :
    brokerStops[s].st = "LIVE" =>
      /\ stops[s].status \in StandingStop
      /\ positions[stops[s].position].status = "OPEN"

(* Every submitted order comes to a settled row, unless the process ends, *)
(* of a broker that answers and a database that comes to write.           *)
EverySubmissionSettles ==
  BrokerAnswers /\ DatabaseWrites => \A k \in OrderKeys :
    orders[k].status = "SUBMITTING" ~> (Terminal(k) \/ ~Running)

(* The drain comes to an end, whatever the trading loop does beside it and *)
(* whether or not the broker ever answers.                                 *)
DrainEnds == phase["drain"] = "poll" ~> phase["drain"] \in {"closed", "failed"}

-----------------------------------------------------------------------------
(* What the documents say and the code does not keep.                      *)

(* app/shutdown.py: "Stop entries, settle in-flight orders, close the      *)
(* database and channel."  The drain reaches its end, whatever settles the *)
(* orders it has listed.                                                   *)
DrainNeverFails == phase["drain"] # "failed"

(* technical-spec.md on partial fills: an entry that holds shares is       *)
(* settled and "open the position for them".  No settled entry leaves      *)
(* lots without a position row.  Kept where the broker fills at once, and  *)
(* not for the part of an entry that the exchange cancels.                 *)
FilledEntryIsBooked ==
  \A k \in OrderKeys :
    /\ Terminal(k) /\ orders[k].intent = "ENTRY" /\ orders[k].filled > 0
    /\ AtRest(orders[k].ticker)
    => BookedEntry(k)

(* Rule 11: a failed database write halts trading, "the bot must never     *)
(* trade what it cannot record".  The books are out of balance only while  *)
(* trading is halted.                                                      *)
UnrecordedHalts == halted \/ BooksBalance

(* technical-spec.md on partial exits: to close what is not sold "would    *)
(* leave shares at the broker with no local row".  The order that closed a *)
(* position sold all of its lots: the fill of a stop that has sold a part, *)
(* or of an old exit of fewer lots, does not close it.                     *)
ClosedIsSoldOut ==
  \A p \in PositionIds :
    positions[p].status = "CLOSED" =>
      orders[positions[p].closeKey].filled >= positions[p].lots

(* Rule 26: the position of a stop the exchange executed is closed from    *)
(* the fill.  An executed stop ends in a closed position.                  *)
StopFired(p) ==
  \E s \in StopKeys : /\ stops[s].position = p /\ stops[s].status = "ACTIVE"
                      /\ brokerStops[s].st = "FIRED"

FiredStopIsBooked ==
  \A p \in PositionIds :
    StopFired(p) ~> (positions[p].status = "CLOSED" \/ ~Running)
=============================================================================
