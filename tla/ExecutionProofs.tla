-------------------------- MODULE ExecutionProofs --------------------------
(* Proofs about Execution, for every value of its constants. *)
EXTENDS Execution, TLAPS

KeyPlaces == {"post", "query", "cancelOrder", "reread", "settleReply",
              "lookup", "openRow"}
StopPlaces == {"stopPost", "stopActivate", "stopProtect", "stopFail",
               "cancelSettle"}
PositionPlaces == {"stopRecord", "cancelStop", "demote", "execSettle",
                   "execLocal", "closeRow", "shrink"} \cup StopPlaces

Located ==
  /\ sec.at # "none" => sec.ticker \in Tickers
  /\ sec.at \in KeyPlaces => sec.key \in OrderKeys
  /\ sec.at \in PositionPlaces => sec.pos \in PositionIds
  /\ sec.op \in {"close", "stop"} => sec.pos \in PositionIds
  /\ sec.at \in StopPlaces => sec.skey \in StopKeys
  /\ sec.at \in {"cancelStop", "cancelSettle", "demote"} =>
       sec.op \in {"close", "resolve", "replace"}
  /\ sec.at = "settleReply" => sec.ans \in TerminalOrder

Known ==
  /\ \A k \in OrderKeys : orders[k].status # "ABSENT" => orders[k].ticker \in Tickers
  /\ \A p \in PositionIds :
       positions[p].status # "ABSENT" => positions[p].ticker \in Tickers
  /\ \A task \in Tasks : \A k \in todo[task] : orders[k].status # "ABSENT"
  /\ \A r \in cycle.book : positions[r.pos].status # "ABSENT"
  /\ \A k \in OrderKeys : brokerOrders[k].st # "NONE" => brokerOrders[k].ticker \in Tickers
  /\ \A s \in StopKeys : brokerStops[s].st # "NONE" => brokerStops[s].ticker \in Tickers

TypeInv == TypeOK /\ Located /\ Known

-----------------------------------------------------------------------------
(* What the section and the tasks' own state become in each way of moving. *)

ControlOK == SectionOK /\ TasksOK

LEMMA EmptySection == NoSection \in Section
BY ExecutionAssumption
   DEF NoSection, Section, Places, Operations, Triggers, OrderStatus

LEMMA GotoControl ==
  ASSUME ControlOK, NEW place \in Places, Goto(place) PROVE ControlOK'
BY DEF ControlOK, SectionOK, TasksOK, Goto, Section, taskVars

LEMMA StepControl ==
  ASSUME ControlOK, sec' \in Section, UNCHANGED <<lock, taskVars>>
  PROVE  ControlOK'
BY DEF ControlOK, SectionOK, TasksOK, taskVars

LEMMA PositionControl ==
  ASSUME ControlOK, NEW p \in PositionIds, NEW place \in Places,
         sec' = [sec EXCEPT !.pos = p, !.at = place], UNCHANGED <<lock, taskVars>>
  PROVE  ControlOK'
<1>1. sec \in Section
  BY DEF ControlOK, SectionOK
<1>2. sec' \in Section
  BY <1>1 DEF Section
<1> QED BY <1>2, StepControl

LEMMA StopControl ==
  ASSUME ControlOK, NEW s \in StopKeys, NEW place \in Places,
         sec' = [sec EXCEPT !.skey = s, !.at = place], UNCHANGED <<lock, taskVars>>
  PROVE  ControlOK'
<1>1. sec \in Section
  BY DEF ControlOK, SectionOK
<1>2. sec' \in Section
  BY <1>1 DEF Section
<1> QED BY <1>2, StepControl

LEMMA ReplyControl ==
  ASSUME ControlOK, NEW a \in OrderStatus, NEW n \in Nat, Reply(a, n)
  PROVE  ControlOK'
BY DEF ControlOK, SectionOK, TasksOK, Reply, Section, Places, taskVars

LEMMA LeaveControl ==
  ASSUME ControlOK, Leave PROVE ControlOK'
BY EmptySection DEF ControlOK, SectionOK, TasksOK, Leave, taskVars

LEMMA LeaveOpenedControl ==
  ASSUME ControlOK, LeaveOpened, sec.ticker \in Tickers PROVE ControlOK'
<1>1. SectionOK' /\ phase' = phase /\ todo' = todo
  BY EmptySection DEF ControlOK, SectionOK, LeaveOpened
<1>2. cycle' \in Cycle
  BY DEF ControlOK, TasksOK, LeaveOpened, Cycle, HeldTickers
<1> QED BY <1>1, <1>2 DEF ControlOK, TasksOK

LEMMA RaiseControl ==
  ASSUME ControlOK, lock \in Tasks, Raise PROVE ControlOK'
<1>1. SectionOK'
  BY EmptySection DEF ControlOK, SectionOK, Raise
<1>2. Fallen(lock) \in Phases /\ NoCycle \in Cycle
  BY DEF Fallen, Tasks, Phases, NoCycle, Cycle
<1>3. TasksOK'
  BY <1>2 DEF ControlOK, TasksOK, Raise
<1> QED BY <1>1, <1>3 DEF ControlOK

LEMMA SectionFields ==
  ASSUME SectionOK
  PROVE  /\ sec.ticker \in Tickers \cup {NoTicker}
         /\ sec.key \in OrderKeys \cup {0}
         /\ sec.pos \in PositionIds \cup {0}
         /\ sec.skey \in StopKeys \cup {0}
         /\ sec.tries \in 1..MaxTries
         /\ sec.lots \in Nat /\ sec.got \in Nat
         /\ sec.trigger \in Triggers \cup {"none"}
         /\ sec.ans \in OrderStatus
         /\ sec.op \in Operations
BY DEF SectionOK, Section

LEMMA TryAgainControl ==
  ASSUME ControlOK, sec.ticker \in Tickers, TryAgain PROVE ControlOK'
<1>1. CASE sec.tries < MaxTries
  <2>1. sec.tries + 1 \in 1..MaxTries
    BY <1>1, ExecutionAssumption, SectionFields DEF ControlOK
  <2>2. /\ sec' = [sec EXCEPT !.tries = @ + 1, !.at = "stopRecord"]
        /\ UNCHANGED <<lock, taskVars>>
    BY <1>1 DEF TryAgain
  <2>3. sec \in Section
    BY DEF ControlOK, SectionOK
  <2>4. sec' \in Section
    BY <2>1, <2>2, <2>3 DEF Section, Places
  <2> QED BY <2>2, <2>4, StepControl
<1>2. CASE ~(sec.tries < MaxTries)
  BY <1>2, LeaveOpenedControl DEF TryAgain
<1> QED BY <1>1, <1>2

LEMMA HolderControl == TypeInv /\ Holder => ControlOK'
<1> SUFFICES ASSUME TypeInv, Holder PROVE ControlOK'
  OBVIOUS
<1>0. ControlOK /\ SectionOK /\ TasksOK /\ TablesOK /\ BrokerOK /\ Located
  BY DEF TypeInv, TypeOK, ControlOK
<1> USE <1>0, SectionFields
<1>1. CASE RecordIntent \/ RecordNoLots \/ RecordExecution
  <2>1. CASE RecordIntent
    <3>1. PICK k \in OrderKeys : sec' = [sec EXCEPT !.key = k, !.at = "post"]
      BY <2>1 DEF RecordIntent
    <3>2. sec' \in Section
      BY <3>1 DEF SectionOK, Section, Places
    <3> QED BY <2>1, <3>2, StepControl DEF RecordIntent, NewRow
  <2>2. CASE RecordNoLots
    <3>1. PICK k \in OrderKeys :
            sec' = [sec EXCEPT !.key = k, !.at = "settleReply",
                               !.ans = "REJECTED", !.got = 0]
      BY <2>2 DEF RecordNoLots
    <3>2. sec' \in Section
      BY <3>1 DEF SectionOK, Section, Places, OrderStatus
    <3> QED BY <2>2, <3>2, StepControl DEF RecordNoLots, NewRow
  <2>3. CASE RecordExecution
    <3>1. PICK k \in OrderKeys :
            sec' = [sec EXCEPT !.key = k, !.at = "settleReply", !.ans = "FILLED"]
      BY <2>3 DEF RecordExecution
    <3>2. sec' \in Section
      BY <3>1 DEF SectionOK, Section, Places, OrderStatus
    <3> QED BY <2>3, <3>2, StepControl DEF RecordExecution, NewRow
  <2> QED BY <1>1, <2>1, <2>2, <2>3
<1>2. CASE Post
  <2>1. CASE PostFilled
    BY <2>1, ReplyControl DEF PostFilled, OrderStatus
  <2>2. CASE PostRefused
    BY <2>2, ReplyControl DEF PostRefused, OrderStatus
  <2>3. CASE PostLost \/ PostPending \/ PostCancelled
    BY <2>3, LeaveControl, RaiseControl
       DEF PostLost, PostPending, PostCancelled, OutcomeUnknown, At
  <2>4. CASE PostPartial
    BY <2>4, GotoControl DEF PostPartial, Places
  <2> QED BY <1>2, <2>1, <2>2, <2>3, <2>4 DEF Post
<1>3. CASE Query \/ QueryLost
  <2>1. CASE Query
    <3>1. brokerOrders[sec.key].filled \in Nat
      BY <2>1 DEF Query, At, Located, KeyPlaces, BrokerOK, BrokerOrder
    <3>2. TerminalOrder \subseteq OrderStatus
      BY DEF TerminalOrder, OrderStatus
    <3> QED BY <2>1, <3>1, <3>2, GotoControl, ReplyControl, LeaveControl
            DEF Query, Places, OrderStatus
  <2>2. CASE QueryLost
    BY <2>2, LeaveControl DEF QueryLost
  <2> QED BY <1>3, <2>1, <2>2
<1>4. CASE CancelOrder \/ CancelOrderLost
  BY <1>4, GotoControl, LeaveControl, RaiseControl
     DEF CancelOrder, CancelOrderLost, NoAnswer, Places, At
<1>5. CASE Reread \/ RereadLost
  <2>1. CASE Reread
    <3>1. brokerOrders[sec.key].filled \in Nat
      BY <2>1 DEF Reread, At, Located, KeyPlaces, BrokerOK, BrokerOrder
    <3> QED BY <2>1, <3>1, ReplyControl DEF Reread, OrderStatus
  <2>2. CASE RereadLost
    BY <2>2, LeaveControl, RaiseControl DEF RereadLost, NoAnswer, At
  <2> QED BY <1>5, <2>1, <2>2
<1>6. CASE SettleReply \/ SettleTwice
  <2>1. CASE SettleReply
    <3>1. CASE AfterOpen \/ AfterClose
      BY <3>1, GotoControl, LeaveControl DEF AfterOpen, AfterClose, Places
    <3>2. CASE AfterResolve
      <4>1. CASE Leave \/ Goto("lookup")
        BY <4>1, GotoControl, LeaveControl DEF Places
      <4>2. ASSUME ~(Leave \/ Goto("lookup")) PROVE ControlOK'
        <5>1. PICK p \in PositionIds :
                /\ sec' = [sec EXCEPT !.pos = p,
                     !.at = IF sec.ans = "FILLED" \/ sec.got >= positions[p].lots
                              THEN "cancelStop" ELSE "shrink"]
                /\ UNCHANGED <<lock, taskVars>>
          BY <3>2, <4>2 DEF AfterResolve
        <5>2. "cancelStop" \in Places /\ "shrink" \in Places
          BY DEF Places
        <5> QED BY <5>1, <5>2, PositionControl
      <4> QED BY <4>1, <4>2
    <3> QED BY <2>1, <3>1, <3>2 DEF SettleReply
  <2>2. CASE SettleTwice
    BY <2>2, RaiseControl DEF SettleTwice, At
  <2> QED BY <1>6, <2>1, <2>2
<1>7. CASE Lookup \/ LookupFails
  BY <1>7, GotoControl, RaiseControl DEF Lookup, LookupFails, At, Places
<1>8. CASE OpenFromFill
  <2>1. CASE Raise
    BY <1>8, <2>1, RaiseControl DEF OpenFromFill, At
  <2>2. CASE ~Raise
    <3>1. PICK p \in PositionIds :
            /\ sec' = [sec EXCEPT !.pos = p, !.at = "stopRecord"]
            /\ UNCHANGED <<lock, taskVars>>
      BY <1>8, <2>2 DEF OpenFromFill
    <3>2. sec' \in Section
      BY <3>1 DEF SectionOK, Section, Places
    <3> QED BY <3>1, <3>2, StepControl
  <2> QED BY <2>1, <2>2
<1>9. CASE StopRecord
  <2>1. PICK s \in StopKeys : sec' = [sec EXCEPT !.skey = s, !.at = "stopPost"]
    BY <1>9 DEF StopRecord
  <2>2. UNCHANGED <<lock, taskVars>> /\ "stopPost" \in Places
    BY <1>9 DEF StopRecord, Places
  <2> QED BY <2>1, <2>2, StopControl
<1>10. CASE StopRecordRefused
  BY <1>10, RaiseControl DEF StopRecordRefused, At
<1>11. CASE StopPost \/ StopPostLost \/ StopActivate
  BY <1>11, GotoControl DEF StopPost, StopPostLost, StopActivate, Places
<1>12. CASE StopProtect
  BY <1>12, LeaveOpenedControl DEF StopProtect, At, Located
<1>13. CASE StopFail
  BY <1>13, TryAgainControl DEF StopFail, At, Located
<1>14. CASE CancelStop \/ CancelStopLost
  <2>1. CASE Goto("demote") \/ Raise
    BY <1>14, <2>1, GotoControl, RaiseControl DEF CancelStop, CancelStopLost, Places, At
  <2>2. CASE ~(Goto("demote") \/ Raise)
    <3>1. PICK s \in ActiveForPosition(stops, sec.pos) :
            /\ sec' = [sec EXCEPT !.skey = s, !.at = "cancelSettle"]
            /\ UNCHANGED <<lock, taskVars>>
      BY <1>14, <2>2 DEF CancelStop, CancelStopLost
    <3>2. s \in StopKeys
      BY <3>1 DEF ActiveForPosition, TablesOK
    <3>3. sec' \in Section
      BY <3>1, <3>2 DEF SectionOK, Section, Places
    <3> QED BY <3>1, <3>3, StepControl
  <2> QED BY <2>1, <2>2
<1>15. CASE CancelSettle \/ ExecSettle \/ ExecLocal
  BY <1>15, GotoControl DEF CancelSettle, ExecSettle, ExecLocal, Places
<1>16. CASE Demote
  <2>1. sec.op \in {"close", "resolve", "replace"}
    BY <1>16 DEF Demote, At, Located
  <2> QED BY <1>16, <2>1, GotoControl DEF Demote, Places
<1>17. CASE FinishClose \/ StartCooldown \/ Shrink
  BY <1>17, GotoControl, LeaveControl, RaiseControl
     DEF FinishClose, StartCooldown, Shrink, Places, At
<1> QED BY <1>1, <1>2, <1>3, <1>4, <1>5, <1>6, <1>7, <1>8, <1>9, <1>10, <1>11, <1>12,
           <1>13, <1>14, <1>15, <1>16, <1>17 DEF Holder

LEMMA EnterControl ==
  ASSUME ControlOK, NEW task \in Tasks, NEW section \in Section, Enter(task, section)
  PROVE  SectionOK'
BY DEF Enter, SectionOK

LEMMA ResolveControl ==
  ASSUME TypeInv, NEW task \in Tasks, BeginResolve(task) PROVE ControlOK'
<1>0. ControlOK /\ TasksOK /\ TablesOK
  BY DEF TypeInv, TypeOK, ControlOK
<1>1. PICK k \in todo[task] :
        /\ Enter(task, [NoSection EXCEPT !.at = "query", !.op = "resolve",
                          !.ticker = orders[k].ticker, !.key = k,
                          !.trigger = orders[k].trigger])
        /\ todo' = [todo EXCEPT ![task] = @ \ {k}]
  BY DEF BeginResolve
<1>2. k \in OrderKeys /\ orders[k] \in OrderRow
  BY <1>0, <1>1 DEF TasksOK, TablesOK
<1>3. orders[k].ticker \in Tickers \cup {NoTicker} /\ orders[k].trigger \in Triggers \cup {"none"}
  BY <1>2 DEF OrderRow
<1>4. [NoSection EXCEPT !.at = "query", !.op = "resolve", !.ticker = orders[k].ticker,
                        !.key = k, !.trigger = orders[k].trigger] \in Section
  BY <1>2, <1>3, EmptySection DEF Section, Places, Operations
<1>5. SectionOK'
  BY <1>0, <1>1, <1>4, EnterControl
<1>6. TasksOK'
  BY <1>0, <1>1 DEF TasksOK, BeginResolve
<1> QED BY <1>5, <1>6 DEF ControlOK

LEMMA TradingControl == TypeInv /\ Trading => ControlOK'
<1> SUFFICES ASSUME TypeInv, Trading PROVE ControlOK'
  OBVIOUS
<1>0. ControlOK /\ SectionOK /\ TasksOK /\ TablesOK
  BY DEF TypeInv, TypeOK, ControlOK
<1> USE <1>0
<1>1. CASE StartCycle
  BY <1>1 DEF StartCycle, ControlOK, SectionOK, TasksOK, Unresolved, TablesOK, Phases
<1>2. CASE ReadBook
  <2>1. cycle' \in Cycle
    BY <1>2 DEF ReadBook, Cycle, TasksOK, TablesOK, PositionRow
  <2>2. phase' \in [Tasks -> Phases]
    BY <1>2 DEF ReadBook, TasksOK, ToPhase, Phases
  <2> QED BY <1>2, <2>1, <2>2 DEF ReadBook, ControlOK, SectionOK, TasksOK
<1>3. CASE ToExits
  BY <1>3 DEF ToExits, ControlOK, SectionOK, TasksOK, ToPhase, Phases
<1>4. CASE ToEntries
  <2>1. cycle' \in Cycle
    BY <1>4 DEF ToEntries, Cycle, HeldTickers
  <2> QED BY <1>4, <2>1 DEF ToEntries, ControlOK, SectionOK, TasksOK, ToPhase, Phases
<1>5. CASE EndCycle
  BY <1>5 DEF EndCycle, ControlOK, SectionOK, TasksOK, ToPhase, Phases, NoCycle, Cycle
<1>6. CASE BeginResolve("trading")
  BY <1>6, ResolveControl DEF Tasks
<1>7. ASSUME NEW r \in cycle.book, BeginCloseExecuted(r) PROVE ControlOK'
  <2>1. r.pos \in PositionIds
    BY DEF TasksOK, Cycle
  <2>2. PICK s \in ActiveForPosition(stops, r.pos) :
          Enter("trading",
            [NoSection EXCEPT !.at = "execSettle", !.op = "stop",
               !.ticker = positions[r.pos].ticker, !.pos = r.pos,
               !.lots = positions[r.pos].lots, !.trigger = "STOP_LOSS",
               !.got = brokerStops[s].sold])
    BY <1>7 DEF BeginCloseExecuted
  <2>3. s \in StopKeys /\ positions[r.pos] \in PositionRow
    BY <2>1, <2>2 DEF ActiveForPosition, TablesOK
  <2>4. brokerStops[s].sold \in Nat
    BY <2>3 DEF TypeInv, TypeOK, BrokerOK, BrokerStop
  <2>5. positions[r.pos].ticker \in Tickers \cup {NoTicker} /\ positions[r.pos].lots \in Nat
    BY <2>3 DEF PositionRow
  <2>6. SectionOK'
    <3> DEFINE base == [NoSection EXCEPT !.at = "execSettle", !.op = "stop",
                                         !.ticker = positions[r.pos].ticker, !.pos = r.pos]
    <3>1. base \in Section
      BY <2>1, <2>5, EmptySection DEF Section, Places, Operations
    <3> HIDE DEF base
    <3>2. [base EXCEPT !.lots = positions[r.pos].lots, !.trigger = "STOP_LOSS",
                       !.got = brokerStops[s].sold] \in Section
      BY <3>1, <2>4, <2>5 DEF Section, Triggers
    <3> QED BY <2>2, <3>2, EnterControl DEF Tasks, base
  <2>7. TasksOK'
    BY <1>7 DEF BeginCloseExecuted, TasksOK, Cycle
  <2> QED BY <2>6, <2>7 DEF ControlOK
<1>8. ASSUME NEW r \in cycle.book, NEW trigger \in Triggers, BeginClose(r, trigger)
      PROVE  ControlOK'
  <2>1. r.pos \in PositionIds
    BY DEF TasksOK, Cycle
  <2>2. positions[r.pos].ticker \in Tickers \cup {NoTicker} /\ positions[r.pos].lots \in Nat
    BY <2>1 DEF TablesOK, PositionRow
  <2>3. PICK place \in {"cancelStop", "recordIntent"} :
          Enter("trading",
            [NoSection EXCEPT !.at = place, !.op = "close",
               !.ticker = positions[r.pos].ticker, !.pos = r.pos,
               !.lots = positions[r.pos].lots, !.trigger = trigger])
    BY <1>8 DEF BeginClose
  <2>4. SectionOK'
    <3>1. [NoSection EXCEPT !.at = place, !.op = "close",
             !.ticker = positions[r.pos].ticker, !.pos = r.pos,
             !.lots = positions[r.pos].lots, !.trigger = trigger] \in Section
      BY <2>1, <2>2, EmptySection DEF Section, Places, Operations
    <3> QED BY <2>3, <3>1, EnterControl DEF Tasks
  <2>5. TasksOK'
    BY <1>8 DEF BeginClose, TasksOK, Cycle
  <2> QED BY <2>4, <2>5 DEF ControlOK
<1>9. ASSUME NEW t \in Tickers, BeginOpen(t) PROVE ControlOK'
  <2>1. PICK n \in (IF "refuse" \in Faults THEN 0 ELSE 1)..MaxLots :
          Enter("trading", [NoSection EXCEPT !.at = "recordIntent", !.op = "open",
                              !.ticker = t, !.lots = n])
    BY <1>9 DEF BeginOpen
  <2>2. n \in Nat
    BY TableAssumption
  <2>3. [NoSection EXCEPT !.at = "recordIntent", !.op = "open",
                          !.ticker = t, !.lots = n] \in Section
    BY <2>2, EmptySection DEF Section, Places, Operations
  <2>4. SectionOK'
    BY <2>1, <2>3, EnterControl DEF Tasks
  <2> QED BY <1>9, <2>4 DEF BeginOpen, ControlOK, TasksOK, taskVars
<1> QED BY <1>1, <1>2, <1>3, <1>4, <1>5, <1>6, <1>7, <1>8, <1>9 DEF Trading

LEMMA DrainControl == TypeInv /\ Drain => ControlOK'
<1> SUFFICES ASSUME TypeInv, Drain PROVE ControlOK'
  OBVIOUS
<1>0. ControlOK /\ SectionOK /\ TasksOK /\ TablesOK
  BY DEF TypeInv, TypeOK, ControlOK
<1>1. CASE Signal \/ DrainPolled
  BY <1>0, <1>1 DEF Signal, DrainPolled, ControlOK, SectionOK, TasksOK, Phases
<1>2. CASE DrainPoll
  BY <1>0, <1>2
     DEF DrainPoll, ControlOK, SectionOK, TasksOK, Phases, Unresolved, TablesOK
<1>3. CASE BeginResolve("drain")
  BY <1>3, ResolveControl DEF Tasks
<1> QED BY <1>1, <1>2, <1>3 DEF Drain

LEMMA FailureControl == TypeInv /\ DbFails => ControlOK'
<1> SUFFICES ASSUME TypeInv, DbFails PROVE ControlOK'
  OBVIOUS
<1>0. ControlOK /\ Located
  BY DEF TypeInv, TypeOK, ControlOK
<1>1. CASE WriteFails \/ StopSettleFails
  BY <1>0, <1>1, RaiseControl DEF WriteFails, StopSettleFails
<1>2. CASE StopFailUnwritten
  BY <1>0, <1>2, TryAgainControl DEF StopFailUnwritten, At, Located
<1>3. CASE CooldownUnwritten
  BY <1>0, <1>3, LeaveControl DEF CooldownUnwritten
<1> QED BY <1>1, <1>2, <1>3 DEF DbFails

LEMMA EnvironmentControl ==
  ASSUME Environment PROVE UNCHANGED <<lock, sec, taskVars>>
BY DEF Environment, Halt, Resume, CooldownEnds, Broker, BrokerFill, BrokerCancel,
       StopFires, StopRefused, StopSellsOn

-----------------------------------------------------------------------------
(* The tables keep their types. *)

LEMMA NewRowTables ==
  ASSUME TablesOK, SectionOK, NEW k \in OrderKeys, NEW n \in Nat, NewRow(k, n)
  PROVE  TablesOK'
<1>1. sec.ticker \in Tickers \cup {NoTicker} /\ sec.trigger \in Triggers \cup {"none"}
  BY SectionFields
<1>2. IntentOf(sec.op) \in Intents
  BY DEF IntentOf, Intents
<1>3. orders' \in [OrderKeys -> OrderRow]
  BY <1>1, <1>2
     DEF TablesOK, NewRow, RecordSubmitting, OrderRow, OrderStatus, BrokerIds
<1> QED BY <1>3 DEF TablesOK, NewRow

LEMMA SettleTables ==
  ASSUME TablesOK, NEW k, NEW status \in OrderStatus, NEW n \in Nat, NEW id \in BrokerIds
  PROVE  Settle(orders, k, status, n, id) \in [OrderKeys -> OrderRow]
BY DEF TablesOK, Settle, OrderRow

LEMMA StopTables ==
  ASSUME NEW st \in StopStatus, NEW s, stops \in [StopKeys -> StopRow]
  PROVE  /\ [stops EXCEPT ![s] = [@ EXCEPT !.status = st]] \in [StopKeys -> StopRow]
         /\ SettleStop(stops, s, st) \in [StopKeys -> StopRow]
BY DEF StopRow, SettleStop

LEMMA ProtectionTables ==
  ASSUME NEW p, NEW protection \in Protections, NEW s \in StopKeys \cup {0},
         positions \in [PositionIds -> PositionRow]
  PROVE  SetStopProtection(positions, p, protection, s) \in [PositionIds -> PositionRow]
<1>1. ASSUME NEW row \in PositionRow
      PROVE  [row EXCEPT !.protection = protection, !.stopKey = s] \in PositionRow
  BY DEF PositionRow
<1> QED BY <1>1 DEF SetStopProtection

LEMMA ToLocalTables ==
  ASSUME NEW p, positions \in [PositionIds -> PositionRow]
  PROVE  ToLocal(p) \in [PositionIds -> PositionRow]
BY ProtectionTables DEF ToLocal, Protections

LEMMA LotsTables ==
  ASSUME positions \in [PositionIds -> PositionRow], NEW p, NEW n \in Nat
  PROVE  UpdateLots(positions, p, n) \in [PositionIds -> PositionRow]
BY DEF UpdateLots, PositionRow

LEMMA CloseTables ==
  ASSUME NEW p, NEW trigger \in Triggers \cup {"none", "EXTERNAL"},
         NEW k \in OrderKeys \cup {0},
         positions \in [PositionIds -> PositionRow]
  PROVE  CloseRow(positions, p, trigger, k) \in [PositionIds -> PositionRow]
<1>1. ASSUME NEW row \in PositionRow
      PROVE  [row EXCEPT !.status = "CLOSED", !.trigger = trigger, !.closeKey = k,
                         !.protection = "LOCAL", !.stopKey = 0] \in PositionRow
  <2> DEFINE closed == [row EXCEPT !.status = "CLOSED", !.trigger = trigger]
  <2>1. closed \in PositionRow
    BY DEF PositionRow, PositionStatus
  <2> HIDE DEF closed
  <2>2. [closed EXCEPT !.closeKey = k, !.protection = "LOCAL", !.stopKey = 0] \in PositionRow
    BY <2>1 DEF PositionRow, Protections
  <2> QED BY <2>2 DEF closed
<1> QED BY <1>1 DEF CloseRow

LEMMA HolderTables == TypeInv /\ Holder => TablesOK'
<1> SUFFICES ASSUME TypeInv, Holder PROVE TablesOK'
  OBVIOUS
<1>0. TablesOK /\ SectionOK /\ Located
  BY DEF TypeInv, TypeOK
<1> USE <1>0, SectionFields
<1>1. CASE RecordIntent \/ RecordNoLots \/ RecordExecution
  BY <1>1, NewRowTables DEF RecordIntent, RecordNoLots, RecordExecution
<1>2. CASE Post
  BY <1>2 DEF Post, PostFilled, PostRefused, PostLost, PostPending, PostPartial,
              PostCancelled, dbVars, TablesOK
<1>3. CASE Query \/ QueryLost \/ CancelOrder \/ CancelOrderLost \/ Reread \/ RereadLost
  BY <1>3 DEF Query, QueryLost, CancelOrder, CancelOrderLost, Reread, RereadLost,
              dbVars, TablesOK
<1>4. CASE SettleReply
  <2>1. sec.key \in OrderKeys
    BY <1>4 DEF SettleReply, At, Located, KeyPlaces
  <2>2. PICK id \in BrokerIds : orders' = Settle(orders, sec.key, sec.ans, sec.got, id)
    BY <1>4 DEF SettleReply, BrokerIds
  <2>3. orders' \in [OrderKeys -> OrderRow]
    BY <2>2, SettleTables
  <2> QED BY <1>4, <2>3 DEF SettleReply, TablesOK
<1>5. CASE SettleTwice \/ Lookup \/ LookupFails
  BY <1>5 DEF SettleTwice, Lookup, LookupFails, dbVars, TablesOK
<1>6. CASE OpenFromFill
  <2>1. sec.key \in OrderKeys
    BY <1>6 DEF OpenFromFill, At, Located, KeyPlaces
  <2>2. orders[sec.key].filled \in Nat
    BY <2>1 DEF TablesOK, OrderRow
  <2>3. positions' \in [PositionIds -> PositionRow]
    <3>1. CASE UNCHANGED positions
      BY <3>1 DEF TablesOK
    <3>2. CASE ~UNCHANGED positions
      <4>1. PICK p \in PositionIds :
              positions' = OpenRow(positions, p, sec.ticker, orders[sec.key].filled, sec.key)
        BY <1>6, <3>2 DEF OpenFromFill
      <4> QED BY <2>1, <2>2, <4>1
              DEF TablesOK, OpenRow, PositionRow, PositionStatus, Protections
    <3> QED BY <3>1, <3>2
  <2> QED BY <1>6, <2>3 DEF OpenFromFill, TablesOK
<1>7. CASE StopRecord
  <2>1. sec.pos \in PositionIds
    BY <1>7 DEF StopRecord, At, Located, PositionPlaces
  <2>2. positions[sec.pos].lots \in Nat
    BY <2>1 DEF TablesOK, PositionRow
  <2>3. PICK s \in StopKeys :
          stops' = RecordPlacing(stops, s, sec.pos, positions[sec.pos].lots)
    BY <1>7 DEF StopRecord
  <2>4. stops' \in [StopKeys -> StopRow]
    BY <2>1, <2>2, <2>3 DEF TablesOK, RecordPlacing, StopRow, StopStatus
  <2> QED BY <1>7, <2>4 DEF StopRecord, TablesOK
<1>8. CASE StopRecordRefused \/ StopPost \/ StopPostLost
  BY <1>8 DEF StopRecordRefused, StopPost, StopPostLost, dbVars, TablesOK
<1>9. CASE StopActivate
  BY <1>9, StopTables DEF StopActivate, Activate, StopStatus, TablesOK
<1>10. CASE StopProtect
  BY <1>10, ProtectionTables DEF StopProtect, Protections, TablesOK
<1>11. CASE StopFail
  BY <1>11, StopTables DEF StopFail, StopStatus, TablesOK
<1>12. CASE CancelStop \/ CancelStopLost
  BY <1>12 DEF CancelStop, CancelStopLost, dbVars, TablesOK
<1>13. CASE CancelSettle \/ ExecSettle
  <2>1. /\ stops \in [StopKeys -> StopRow]
        /\ "CANCELLED" \in StopStatus /\ "EXECUTED" \in StopStatus
    BY DEF TablesOK, StopStatus
  <2>2. stops' \in [StopKeys -> StopRow]
    <3>1. \/ stops' = stops
          \/ stops' = SettleStop(stops, sec.skey, "CANCELLED")
          \/ stops' = SettleStop(stops, positions[sec.pos].stopKey, "EXECUTED")
      BY <1>13 DEF CancelSettle, ExecSettle
    <3>2. /\ SettleStop(stops, sec.skey, "CANCELLED") \in [StopKeys -> StopRow]
          /\ SettleStop(stops, positions[sec.pos].stopKey, "EXECUTED")
               \in [StopKeys -> StopRow]
      BY <2>1, StopTables
    <3> QED BY <2>1, <3>1, <3>2
  <2> QED BY <1>13, <2>2 DEF CancelSettle, ExecSettle, TablesOK
<1>14. CASE Demote \/ ExecLocal
  BY <1>14, ToLocalTables DEF Demote, ExecLocal, TablesOK
<1>15. CASE FinishClose
  <2>1. positions' \in [PositionIds -> PositionRow]
    <3>1. \/ positions' = positions
          \/ positions' = CloseRow(positions, sec.pos, sec.trigger, sec.key)
      BY <1>15 DEF FinishClose
    <3>2. CloseRow(positions, sec.pos, sec.trigger, sec.key) \in [PositionIds -> PositionRow]
      BY CloseTables DEF TablesOK
    <3> QED BY <3>1, <3>2 DEF TablesOK
  <2> QED BY <1>15, <2>1 DEF FinishClose, TablesOK
<1>16. CASE StartCooldown
  BY <1>16 DEF StartCooldown, At, Located, TablesOK
<1>17. CASE Shrink
  <2>1. sec.pos \in PositionIds
    BY <1>17 DEF Shrink, At, Located, PositionPlaces
  <2>2. positions[sec.pos].lots \in Nat
    BY <2>1 DEF TablesOK, PositionRow
  <2>3. positions[sec.pos].lots - sec.got \in Nat
    BY <1>17, <2>2 DEF Shrink, CanUpdateLots
  <2>4. positions' \in [PositionIds -> PositionRow]
    <3>1. positions' = UpdateLots(positions, sec.pos,
                                  positions[sec.pos].lots - sec.got)
      BY <1>17 DEF Shrink
    <3> QED BY <2>3, <3>1, LotsTables DEF TablesOK
  <2> QED BY <1>17, <2>4 DEF Shrink, TablesOK
<1> QED BY <1>1, <1>2, <1>3, <1>4, <1>5, <1>6, <1>7, <1>8, <1>9, <1>10, <1>11, <1>12,
           <1>13, <1>14, <1>15, <1>16, <1>17 DEF Holder

LEMMA OthersTables == TypeInv /\ (DbFails \/ Trading \/ Drain \/ Environment) => TablesOK'
<1> SUFFICES ASSUME TypeInv, DbFails \/ Trading \/ Drain \/ Environment PROVE TablesOK'
  OBVIOUS
<1>0. TablesOK
  BY DEF TypeInv, TypeOK
<1>1. CASE DbFails
  BY <1>0, <1>1 DEF DbFails, WriteFails, StopSettleFails, StopFailUnwritten,
                    CooldownUnwritten, dbVars, TablesOK
<1>2. CASE Trading
  BY <1>0, <1>2 DEF Trading, StartCycle, ReadBook, ToExits, ToEntries, EndCycle, BeginResolve,
                    BeginCloseExecuted, BeginClose, BeginOpen, dbVars, TablesOK
<1>3. CASE Drain
  BY <1>0, <1>3 DEF Drain, Signal, DrainPoll, DrainPolled, BeginResolve, dbVars, TablesOK
<1>4. CASE Environment
  BY <1>0, <1>4 DEF Environment, Halt, Resume, CooldownEnds, Broker, BrokerFill, BrokerCancel,
                    StopFires, StopRefused, StopSellsOn, dbVars, TablesOK
<1> QED BY <1>1, <1>2, <1>3, <1>4

-----------------------------------------------------------------------------
(* The broker's records keep their types. *)

LEMMA MovedType ==
  ASSUME held \in [Tickers -> Nat], NEW o, o.ticker \in Tickers, NEW n \in Nat,
         o.intent = "ENTRY" \/ n <= held[o.ticker]
  PROVE  Moved(o, n) \in [Tickers -> Nat]
<1>1. CASE o.intent = "ENTRY"
  BY <1>1 DEF Moved
<1>2. CASE o.intent # "ENTRY"
  <2>1. held[o.ticker] - n \in Nat
    BY <1>2
  <2> QED BY <1>2, <2>1 DEF Moved
<1> QED BY <1>1, <1>2

LEMMA TakesType ==
  ASSUME BrokerOK, SectionOK, sec.ticker \in Tickers, NEW st \in BrokerStatus,
         NEW n \in Nat, Takes(st, n)
  PROVE  BrokerOK'
<1>1. Arrived(st, n) \in BrokerOrder
  BY SectionFields DEF Arrived, BrokerOrder, IntentOf, Intents
<1>2. brokerOrders' \in [OrderKeys -> BrokerOrder]
  BY <1>1 DEF BrokerOK, Takes
<1>3. Arrived(st, n).ticker = sec.ticker /\ Arrived(st, n).intent = IntentOf(sec.op)
  BY DEF Arrived
<1>4. IntentOf(sec.op) = "ENTRY" \/ n <= held[sec.ticker]
  BY DEF Takes, CanTrade, IntentOf
<1>5. held' \in [Tickers -> Nat]
  BY <1>3, <1>4, MovedType DEF BrokerOK, Takes
<1> QED BY <1>2, <1>5 DEF BrokerOK, Takes

LEMMA PostBroker == TypeInv /\ Post => BrokerOK'
<1> SUFFICES ASSUME TypeInv, Post PROVE BrokerOK'
  OBVIOUS
<1>1. BrokerOK /\ SectionOK /\ sec.lots \in Nat
  BY SectionFields DEF TypeInv, TypeOK
<1>2. sec.ticker \in Tickers
  BY DEF TypeInv, Located, Post, PostFilled, PostRefused, PostLost, PostPending,
         PostPartial, PostCancelled, At
<1>3. \/ \E st \in BrokerStatus, n \in Nat : Takes(st, n)
      \/ UNCHANGED brokerVars
  BY <1>1 DEF Post, PostFilled, PostRefused, PostLost, PostPending, PostPartial,
              PostCancelled, BrokerStatus
<1> QED BY <1>1, <1>2, <1>3, TakesType DEF BrokerOK, brokerVars

LEMMA CancelledAtBrokerType ==
  ASSUME BrokerOK PROVE CancelledAtBroker \in [OrderKeys -> BrokerOrder]
<1>1. ASSUME NEW o \in BrokerOrder PROVE [o EXCEPT !.st = "CANCELLED"] \in BrokerOrder
  BY DEF BrokerOrder, BrokerStatus
<1>2. brokerOrders \in [OrderKeys -> BrokerOrder]
  BY DEF BrokerOK
<1> QED BY <1>1, <1>2 DEF CancelledAtBroker

LEMMA StopCancelledType ==
  ASSUME BrokerOK, NEW s PROVE StopCancelled(s) \in [StopKeys -> BrokerStop]
BY DEF StopCancelled, BrokerOK, BrokerStop, BrokerStopStatus

LEMMA StopStandsType ==
  ASSUME TypeInv, sec.at = "stopPost", StopStands
  PROVE  brokerStops' \in [StopKeys -> BrokerStop]
<1>1. sec.skey \in StopKeys /\ sec.ticker \in Tickers
  BY DEF TypeInv, Located, StopPlaces
<1>2. stops[sec.skey].lots \in Nat
  BY <1>1 DEF TypeInv, TypeOK, TablesOK, StopRow
<1> QED BY <1>1, <1>2 DEF StopStands, TypeInv, TypeOK, BrokerOK, BrokerStop, BrokerStopStatus

LEMMA HolderBroker == TypeInv /\ Holder => BrokerOK'
<1> SUFFICES ASSUME TypeInv, Holder PROVE BrokerOK'
  OBVIOUS
<1>0. BrokerOK
  BY DEF TypeInv, TypeOK
<1> USE <1>0
<1>1. CASE Post
  BY <1>1, PostBroker
<1>2. CASE CancelOrder \/ CancelOrderLost
  BY <1>2, CancelledAtBrokerType DEF CancelOrder, CancelOrderLost, BrokerOK
<1>3. CASE CancelStop \/ CancelStopLost
  BY <1>3, StopCancelledType DEF CancelStop, CancelStopLost, BrokerOK
<1>4. CASE StopPost \/ StopPostLost
  BY <1>4, StopStandsType DEF StopPost, StopPostLost, At, BrokerOK
<1>5. CASE UNCHANGED brokerVars
  BY <1>5 DEF brokerVars, BrokerOK
<1>6. Post \/ CancelOrder \/ CancelOrderLost \/ CancelStop \/ CancelStopLost
        \/ StopPost \/ StopPostLost \/ UNCHANGED brokerVars
  BY DEF Holder, RecordIntent, RecordNoLots, RecordExecution, NewRow, Query, QueryLost,
         Reread, RereadLost, SettleReply, SettleTwice, Lookup, LookupFails,
         OpenFromFill, StopRecord, StopRecordRefused, StopActivate, StopProtect,
         StopFail, CancelSettle, Demote, ExecSettle, ExecLocal, FinishClose,
         StartCooldown, Shrink
<1> QED BY <1>1, <1>2, <1>3, <1>4, <1>5, <1>6

LEMMA EnvironmentBroker == TypeInv /\ Environment => BrokerOK'
<1> SUFFICES ASSUME TypeInv, Environment PROVE BrokerOK'
  OBVIOUS
<1>0. BrokerOK
  BY DEF TypeInv, TypeOK
<1>1. ASSUME NEW k \in OrderKeys, BrokerFill(k) PROVE BrokerOK'
  <2> DEFINE o == brokerOrders[k]
  <2>1. o \in BrokerOrder /\ o.lots \in Nat /\ o.filled \in Nat
    BY <1>0 DEF BrokerOK, BrokerOrder
  <2>2. PICK n \in 1..(o.lots - o.filled) :
          /\ o.intent = "ENTRY" \/ n <= held[o.ticker]
          /\ held' = Moved(o, n)
          /\ brokerOrders' = [brokerOrders EXCEPT ![k] =
               [@ EXCEPT !.filled = o.filled + n,
                         !.st = IF o.filled + n = o.lots THEN "FILLED" ELSE "LIVE"]]
    BY <1>1 DEF BrokerFill
  <2>3. n \in Nat /\ o.filled + n \in Nat
    BY <2>1, <2>2
  <2>4. brokerOrders' \in [OrderKeys -> BrokerOrder]
    <3>1. [o EXCEPT !.filled = o.filled + n,
                    !.st = IF o.filled + n = o.lots THEN "FILLED" ELSE "LIVE"] \in BrokerOrder
      BY <2>1, <2>3 DEF BrokerOrder, BrokerStatus
    <3>2. brokerOrders \in [OrderKeys -> BrokerOrder]
      BY <1>0 DEF BrokerOK
    <3> QED BY <2>2, <3>1, <3>2
  <2>5. o.ticker \in Tickers
    BY <1>1 DEF BrokerFill, TypeInv, Known
  <2>6. held' \in [Tickers -> Nat]
    BY <1>0, <2>2, <2>3, <2>5, MovedType DEF BrokerOK
  <2> QED BY <1>0, <1>1, <2>4, <2>6 DEF BrokerFill, BrokerOK
<1>2. ASSUME NEW k \in OrderKeys, BrokerCancel(k) PROVE BrokerOK'
  BY <1>0, <1>2 DEF BrokerCancel, BrokerOK, BrokerOrder, BrokerStatus
<1>3. ASSUME NEW s \in StopKeys, StopFires(s) PROVE BrokerOK'
  <2>1. brokerStops[s] \in BrokerStop /\ brokerStops[s].lots \in Nat
    BY <1>0 DEF BrokerOK, BrokerStop
  <2>2. PICK n \in 1..brokerStops[s].lots :
          /\ brokerStops' = [brokerStops EXCEPT ![s] = [@ EXCEPT !.st = "FIRED", !.sold = n]]
          /\ held' = [held EXCEPT ![brokerStops[s].ticker] = @ - n]
    BY <1>3 DEF StopFires
  <2>3. brokerStops' \in [StopKeys -> BrokerStop]
    <3>1. n \in Nat
      BY <2>1, <2>2
    <3>2. [brokerStops[s] EXCEPT !.st = "FIRED", !.sold = n] \in BrokerStop
      BY <2>1, <3>1 DEF BrokerStop, BrokerStopStatus
    <3> QED BY <1>0, <2>2, <3>2 DEF BrokerOK
  <2>4. brokerStops[s].ticker \in Tickers
    BY <1>3 DEF StopFires, TypeInv, Known
  <2>5. held[brokerStops[s].ticker] - n \in Nat
    BY <1>0, <1>3, <2>1, <2>2, <2>4 DEF StopFires, BrokerOK
  <2>6. held' \in [Tickers -> Nat]
    BY <1>0, <2>2, <2>5 DEF BrokerOK
  <2> QED BY <1>0, <1>3, <2>3, <2>6 DEF StopFires, BrokerOK
<1>4. ASSUME NEW s \in StopKeys, StopRefused(s) PROVE BrokerOK'
  BY <1>0, <1>4 DEF StopRefused, BrokerOK, BrokerStop, BrokerStopStatus
<1>5. ASSUME NEW s \in StopKeys, StopSellsOn(s) PROVE BrokerOK'
  <2>1. brokerStops[s].ticker \in Tickers /\ brokerStops[s].sold \in Nat
    BY <1>0, <1>5 DEF StopSellsOn, TypeInv, Known, BrokerOK, BrokerStop
  <2>2. held[brokerStops[s].ticker] - 1 \in Nat
    BY <1>0, <1>5, <2>1 DEF StopSellsOn, BrokerOK
  <2>3. held' \in [Tickers -> Nat]
    BY <1>0, <1>5, <2>2 DEF StopSellsOn, BrokerOK
  <2>4. brokerStops' \in [StopKeys -> BrokerStop]
    <3>1. brokerStops[s].sold + 1 \in Nat
      BY <2>1
    <3> QED BY <1>0, <1>5, <3>1 DEF StopSellsOn, BrokerOK, BrokerStop
  <2> QED BY <1>0, <1>5, <2>3, <2>4 DEF StopSellsOn, BrokerOK
<1>6. CASE UNCHANGED brokerVars
  BY <1>0, <1>6 DEF brokerVars, BrokerOK
<1> QED BY <1>1, <1>2, <1>3, <1>4, <1>5, <1>6 DEF Environment, Broker, Halt, Resume, CooldownEnds

-----------------------------------------------------------------------------
(* Which actions change what. *)

LEMMA OutsideStep ==
  ASSUME [Next]_vars, ~Holder
  PROVE  UNCHANGED <<orders, positions>>
<1>1. CASE DbFails
  BY <1>1 DEF DbFails, WriteFails, StopSettleFails, StopFailUnwritten,
              CooldownUnwritten, dbVars
<1>2. CASE Trading
  BY <1>2 DEF Trading, StartCycle, ReadBook, ToExits, ToEntries, EndCycle, BeginResolve,
              BeginCloseExecuted, BeginClose, BeginOpen, dbVars
<1>3. CASE Drain
  BY <1>3 DEF Drain, Signal, DrainPoll, DrainPolled, BeginResolve, dbVars
<1>4. CASE Environment
  BY <1>4 DEF Environment, Halt, Resume, CooldownEnds, Broker, BrokerFill, BrokerCancel,
              StopFires, StopRefused, StopSellsOn, dbVars
<1>5. CASE UNCHANGED vars
  BY <1>5 DEF vars, dbVars
<1> QED BY <1>1, <1>2, <1>3, <1>4, <1>5 DEF Next, Process

LEMMA OrdersStep ==
  ASSUME [Next]_vars
  PROVE  \/ UNCHANGED orders
         \/ RecordIntent \/ RecordNoLots \/ RecordExecution \/ SettleReply
<1>1. CASE Holder
  BY <1>1 DEF Holder, Query, QueryLost, CancelOrder, CancelOrderLost, Post, PostFilled,
     PostRefused, PostLost, PostPending, PostPartial, PostCancelled,
     Reread, RereadLost, SettleTwice, Lookup, LookupFails, OpenFromFill, StopRecord,
     StopRecordRefused, StopPost, StopPostLost, StopActivate, StopProtect, StopFail,
     CancelStop, CancelStopLost, CancelSettle, Demote, ExecSettle, ExecLocal, FinishClose,
     StartCooldown, Shrink, dbVars
<1> QED BY <1>1, OutsideStep

LEMMA PositionsStep ==
  ASSUME [Next]_vars
  PROVE  \/ UNCHANGED positions
         \/ OpenFromFill \/ StopProtect \/ Demote \/ ExecLocal \/ FinishClose \/ Shrink
<1>1. CASE Holder
  BY <1>1 DEF Holder, RecordIntent, RecordNoLots, RecordExecution, NewRow,
     Query, QueryLost, CancelOrder, CancelOrderLost, Post, PostFilled,
     PostRefused, PostLost, PostPending, PostPartial, PostCancelled,
     Reread, RereadLost, SettleReply, SettleTwice, Lookup, LookupFails, StopRecord,
     StopRecordRefused, StopPost, StopPostLost, StopActivate, StopFail,
     CancelStop, CancelStopLost, CancelSettle, ExecSettle, StartCooldown, dbVars
<1> QED BY <1>1, OutsideStep

(* A row, once written, stays, and with it what the order was sent as.     *)
LEMMA OrderRowsStay ==
  ASSUME TypeInv, [Next]_vars, NEW k \in OrderKeys, orders[k].status # "ABSENT"
  PROVE  /\ orders'[k].status # "ABSENT"
         /\ orders'[k].ticker = orders[k].ticker
         /\ orders'[k].intent = orders[k].intent
         /\ orders'[k].trigger = orders[k].trigger
         /\ orders'[k].lots = orders[k].lots
<1>0. orders \in [OrderKeys -> OrderRow]
  BY DEF TypeInv, TypeOK, TablesOK
<1>1. CASE RecordIntent \/ RecordNoLots \/ RecordExecution
  <2>1. PICK j \in OrderKeys, n \in {1, sec.lots} : NewRow(j, n)
    BY <1>1 DEF RecordIntent, RecordNoLots, RecordExecution
  <2>2. j # k
    BY <2>1 DEF NewRow, IsFresh, Unused
  <2> QED BY <1>0, <2>1, <2>2 DEF NewRow, RecordSubmitting
<1>2. CASE SettleReply
  <2>1. sec.ans # "ABSENT"
    BY <1>2 DEF SettleReply, At, TypeInv, Located, TerminalOrder
  <2>2. PICK id : orders' = Settle(orders, sec.key, sec.ans, sec.got, id)
    BY <1>2 DEF SettleReply
  <2>3. orders' = [orders EXCEPT ![sec.key] =
          [orders[sec.key] EXCEPT !.status = sec.ans, !.filled = sec.got, !.brokerId = id]]
    BY <2>2 DEF Settle
  <2> QED BY <1>0, <2>1, <2>3 DEF OrderRow
<1> QED BY <1>1, <1>2, OrdersStep

(* Who protects a position changes nothing else of its row. *)
LEMMA ProtectionStep ==
  ASSUME positions \in [PositionIds -> PositionRow], StopProtect \/ Demote \/ ExecLocal,
         NEW p \in PositionIds
  PROVE  /\ positions'[p].status = positions[p].status
         /\ positions'[p].ticker = positions[p].ticker
         /\ positions'[p].lots = positions[p].lots
         /\ positions'[p].openKey = positions[p].openKey
         /\ positions'[p].closeKey = positions[p].closeKey
         /\ positions'[p].trigger = positions[p].trigger
<1>1. \/ positions' = positions
      \/ \E protection, st : positions' = SetStopProtection(positions, sec.pos, protection, st)
  BY DEF StopProtect, Demote, ExecLocal, ToLocal
<1>2. ASSUME NEW protection, NEW st,
             positions' = SetStopProtection(positions, sec.pos, protection, st)
      PROVE  positions'[p] \in {positions[p],
               [positions[p] EXCEPT !.protection = protection, !.stopKey = st]}
  BY <1>2 DEF SetStopProtection
<1>3. positions[p] \in PositionRow
  OBVIOUS
<1>4. CASE positions' = positions
  BY <1>4
<1>5. ASSUME NEW protection, NEW st,
             positions' = SetStopProtection(positions, sec.pos, protection, st)
      PROVE  /\ positions'[p].status = positions[p].status
             /\ positions'[p].ticker = positions[p].ticker
             /\ positions'[p].lots = positions[p].lots
             /\ positions'[p].openKey = positions[p].openKey
             /\ positions'[p].closeKey = positions[p].closeKey
             /\ positions'[p].trigger = positions[p].trigger
  BY <1>2, <1>3, <1>5 DEF PositionRow
<1> QED BY <1>1, <1>4, <1>5

LEMMA PositionRowsStay ==
  ASSUME TypeInv, [Next]_vars, NEW p \in PositionIds, positions[p].status # "ABSENT"
  PROVE  positions'[p].status # "ABSENT" /\ positions'[p].ticker = positions[p].ticker
<1>0. positions \in [PositionIds -> PositionRow]
  BY DEF TypeInv, TypeOK, TablesOK
<1>1. CASE OpenFromFill
  <2>1. CASE UNCHANGED positions
    BY <2>1
  <2>2. CASE ~UNCHANGED positions
    <3>1. PICK q \in PositionIds :
            /\ IsFresh(positions, q)
            /\ positions' = OpenRow(positions, q, sec.ticker, orders[sec.key].filled, sec.key)
      BY <1>1, <2>2 DEF OpenFromFill
    <3>2. q # p
      BY <3>1 DEF IsFresh, Unused
    <3> QED BY <1>0, <3>1, <3>2 DEF OpenRow
  <2> QED BY <2>1, <2>2
<1>2. CASE StopProtect \/ Demote \/ ExecLocal
  BY <1>0, <1>2, ProtectionStep
<1>3. CASE FinishClose
  <2>1. \/ positions' = positions
        \/ positions' = CloseRow(positions, sec.pos, sec.trigger, sec.key)
    BY <1>3 DEF FinishClose
  <2>2. ASSUME positions' = CloseRow(positions, sec.pos, sec.trigger, sec.key)
        PROVE  positions'[p].status # "ABSENT" /\ positions'[p].ticker = positions[p].ticker
    <3>1. positions[p] \in PositionRow
      BY <1>0
    <3>2. positions'[p] \in {positions[p],
            [positions[p] EXCEPT !.status = "CLOSED", !.trigger = sec.trigger,
               !.closeKey = sec.key, !.protection = "LOCAL", !.stopKey = 0]}
      BY <1>0, <2>2 DEF CloseRow
    <3> QED BY <3>1, <3>2 DEF PositionRow
  <2> QED BY <2>1, <2>2
<1>4. CASE Shrink
  BY <1>0, <1>4 DEF Shrink, UpdateLots, PositionRow
<1> QED BY <1>1, <1>2, <1>3, <1>4, PositionsStep

-----------------------------------------------------------------------------
(* What the section stands at names rows that exist. *)

LEMMA EmptyLocated == ASSUME sec' = NoSection PROVE Located'
BY DEF Located, NoSection, KeyPlaces, StopPlaces, PositionPlaces

LEMMA LeaveLocated == ASSUME Leave \/ Raise \/ LeaveOpened PROVE Located'
BY EmptyLocated DEF Leave, Raise, LeaveOpened

LEMMA ReplyLocated ==
  ASSUME SectionOK, Located, sec.at \in KeyPlaces, NEW a \in TerminalOrder, NEW n, Reply(a, n)
  PROVE  Located'
BY DEF Reply, Located, SectionOK, Section, KeyPlaces, StopPlaces, PositionPlaces

LEMMA GotoLocated ==
  ASSUME SectionOK, Located, sec.at # "none", NEW place, Goto(place),
         place \notin {"none", "settleReply"},
         place \in KeyPlaces => sec.key \in OrderKeys,
         place \in PositionPlaces => sec.pos \in PositionIds,
         place \in StopPlaces => sec.skey \in StopKeys,
         place \in {"cancelStop", "cancelSettle", "demote"} =>
           sec.op \in {"close", "resolve", "replace"}
  PROVE  Located'
<1>1. sec' = [sec EXCEPT !.at = place]
  BY DEF Goto
<1>2. /\ sec'.at = place /\ sec'.op = sec.op /\ sec'.ticker = sec.ticker
      /\ sec'.key = sec.key /\ sec'.pos = sec.pos /\ sec'.skey = sec.skey
  BY <1>1 DEF SectionOK, Section
<1> QED BY <1>2 DEF Located

LEMMA TryAgainLocated ==
  ASSUME SectionOK, Located, sec.at = "stopFail", TryAgain PROVE Located'
<1>1. CASE LeaveOpened
  BY <1>1, LeaveLocated
<1>2. CASE ~LeaveOpened
  <2>1. sec' = [sec EXCEPT !.tries = @ + 1, !.at = "stopRecord"]
    BY <1>2 DEF TryAgain
  <2>2. /\ sec'.at = "stopRecord" /\ sec'.op = sec.op /\ sec'.ticker = sec.ticker
        /\ sec'.key = sec.key /\ sec'.pos = sec.pos
    BY <2>1 DEF SectionOK, Section
  <2> QED BY <2>2 DEF Located, KeyPlaces, PositionPlaces, StopPlaces
<1> QED BY <1>1, <1>2

LEMMA HolderLocated == TypeInv /\ Holder => Located'
<1> SUFFICES ASSUME TypeInv, Holder PROVE Located'
  OBVIOUS
<1>0. SectionOK /\ Located /\ TablesOK /\ sec \in Section
  BY DEF TypeInv, TypeOK, SectionOK
<1> USE <1>0
<1> USE DEF KeyPlaces, PositionPlaces, StopPlaces
<1>1. CASE RecordIntent
  <2>1. PICK k \in OrderKeys : sec' = [sec EXCEPT !.key = k, !.at = "post"]
    BY <1>1 DEF RecordIntent
  <2>2. sec.at = "recordIntent"
    BY <1>1 DEF RecordIntent, At
  <2> QED BY <2>1, <2>2 DEF Located, Section
<1>2. CASE RecordNoLots \/ RecordExecution
  <2>1. PICK k \in OrderKeys, a \in {"REJECTED", "FILLED"}, n \in {sec.got, 0} :
          sec' = [sec EXCEPT !.key = k, !.at = "settleReply", !.ans = a, !.got = n]
    <3>1. CASE RecordNoLots
      BY <3>1 DEF RecordNoLots
    <3>2. CASE RecordExecution
      <4>1. PICK k \in OrderKeys :
              sec' = [sec EXCEPT !.key = k, !.at = "settleReply", !.ans = "FILLED"]
        BY <3>2 DEF RecordExecution
      <4>2. sec' = [sec EXCEPT !.key = k, !.at = "settleReply", !.ans = "FILLED",
                               !.got = sec.got]
        BY <4>1 DEF Section
      <4> QED BY <4>2
    <3> QED BY <1>2, <3>1, <3>2
  <2>2. sec.at = "recordIntent"
    BY <1>2 DEF RecordNoLots, RecordExecution, At
  <2> QED BY <2>1, <2>2 DEF Located, Section, TerminalOrder
<1>3. CASE Post
  <2>1. sec.at = "post"
    BY <1>3 DEF Post, PostFilled, PostRefused, PostLost, PostPending,
                PostPartial, PostCancelled, At
  <2>2. \/ Reply("FILLED", sec.lots) \/ Reply("REJECTED", 0)
        \/ Leave \/ Raise \/ Goto("cancelOrder")
    BY <1>3 DEF Post, PostFilled, PostRefused, PostLost, PostPending,
                PostPartial, PostCancelled, OutcomeUnknown
  <2> QED BY <2>1, <2>2, LeaveLocated, ReplyLocated, GotoLocated DEF Located, TerminalOrder
<1>4. CASE Query \/ QueryLost
  <2>1. sec.at = "query"
    BY <1>4 DEF Query, QueryLost, At
  <2>2. \/ \E a \in TerminalOrder : \E n : Reply(a, n)
        \/ Leave \/ Goto("cancelOrder")
    BY <1>4 DEF Query, QueryLost, TerminalOrder
  <2> QED BY <2>1, <2>2, LeaveLocated, ReplyLocated, GotoLocated DEF Located
<1>5. CASE CancelOrder \/ CancelOrderLost \/ Reread \/ RereadLost
  <2>1. sec.at \in {"cancelOrder", "reread"}
    BY <1>5 DEF CancelOrder, CancelOrderLost, Reread, RereadLost, At
  <2>2. \/ \E a \in TerminalOrder : \E n : Reply(a, n)
        \/ Leave \/ Raise \/ Goto("reread")
    BY <1>5 DEF CancelOrder, CancelOrderLost, Reread, RereadLost, NoAnswer, TerminalOrder
  <2> QED BY <2>1, <2>2, LeaveLocated, ReplyLocated, GotoLocated DEF Located
<1>6. CASE SettleReply
  <2>1. sec.at = "settleReply"
    BY <1>6 DEF SettleReply, At
  <2>2. CASE Leave
    BY <2>2, LeaveLocated
  <2>3. CASE Goto("openRow") \/ Goto("lookup")
    BY <2>1, <2>3, GotoLocated DEF Located
  <2>4. CASE Goto("closeRow") /\ sec.op \in {"close", "stop"}
    BY <2>1, <2>4, GotoLocated DEF Located
  <2>5. ASSUME sec.op = "resolve",
               NEW p \in PositionIds, NEW place \in {"cancelStop", "shrink"},
               sec' = [sec EXCEPT !.pos = p, !.at = place]
        PROVE  Located'
    BY <2>1, <2>5 DEF Located, Section
  <2>6. \/ Leave \/ Goto("openRow") \/ Goto("lookup")
        \/ Goto("closeRow") /\ sec.op \in {"close", "stop"}
        \/ sec.op = "resolve" /\ \E p \in PositionIds, place \in {"cancelStop", "shrink"} :
             sec' = [sec EXCEPT !.pos = p, !.at = place]
    BY <1>6 DEF SettleReply, AfterOpen, AfterClose, AfterResolve
  <2> QED BY <2>2, <2>3, <2>4, <2>5, <2>6
<1>7. CASE SettleTwice \/ LookupFails \/ StopRecordRefused \/ StopProtect \/ CancelStopLost
           \/ StartCooldown \/ Shrink
  BY <1>7, LeaveLocated DEF SettleTwice, LookupFails, StopRecordRefused, StopProtect,
                            CancelStopLost, StartCooldown, Shrink
<1>8. CASE Lookup
  BY <1>8, GotoLocated DEF Lookup, At, Located
<1>9. CASE OpenFromFill
  <2>1. CASE Raise
    BY <2>1, LeaveLocated
  <2>2. CASE ~Raise
    <3>1. PICK p \in PositionIds : sec' = [sec EXCEPT !.pos = p, !.at = "stopRecord"]
      BY <1>9, <2>2 DEF OpenFromFill
    <3>2. sec.at = "openRow"
      BY <1>9 DEF OpenFromFill, At
    <3> QED BY <3>1, <3>2 DEF Located, Section
  <2> QED BY <2>1, <2>2
<1>10. CASE StopRecord
  <2>1. PICK s \in StopKeys : sec' = [sec EXCEPT !.skey = s, !.at = "stopPost"]
    BY <1>10 DEF StopRecord
  <2>2. sec.at = "stopRecord"
    BY <1>10 DEF StopRecord, At
  <2> QED BY <2>1, <2>2 DEF Located, Section
<1>11. CASE StopPost \/ StopPostLost \/ StopActivate
  <2>1. sec.at \in {"stopPost", "stopActivate"}
    BY <1>11 DEF StopPost, StopPostLost, StopActivate, At
  <2>2. Goto("stopActivate") \/ Goto("stopFail") \/ Goto("stopProtect")
    BY <1>11 DEF StopPost, StopPostLost, StopActivate
  <2> QED BY <2>1, <2>2, GotoLocated DEF Located
<1>12. CASE StopFail
  BY <1>12, TryAgainLocated DEF StopFail, At
<1>13. CASE CancelStop
  <2>1. sec.at = "cancelStop"
    BY <1>13 DEF CancelStop, At
  <2>2. CASE Goto("demote")
    BY <2>1, <2>2, GotoLocated DEF Located
  <2>3. CASE ~Goto("demote")
    <3>1. PICK s \in ActiveForPosition(stops, sec.pos) :
            sec' = [sec EXCEPT !.skey = s, !.at = "cancelSettle"]
      BY <1>13, <2>3 DEF CancelStop
    <3>2. s \in StopKeys
      BY <3>1 DEF ActiveForPosition, TablesOK
    <3> QED BY <2>1, <3>1, <3>2 DEF Located, Section
  <2> QED BY <2>2, <2>3
<1>14. CASE CancelSettle \/ ExecSettle
  <2>1. sec.at \in {"cancelSettle", "execSettle"}
    BY <1>14 DEF CancelSettle, ExecSettle, At
  <2>2. \/ Goto("demote") /\ sec.at = "cancelSettle"
        \/ Goto("execLocal")
    BY <1>14 DEF CancelSettle, ExecSettle, At
  <2> QED BY <2>1, <2>2, GotoLocated DEF Located
<1>15. CASE Demote \/ ExecLocal
  <2>1. sec.at \in {"demote", "execLocal"}
    BY <1>15 DEF Demote, ExecLocal, At
  <2>2. Goto("recordIntent") \/ Goto("closeRow") \/ Goto("stopRecord")
    BY <1>15 DEF Demote, ExecLocal, At, Located
  <2> QED BY <2>1, <2>2, GotoLocated DEF Located, PositionPlaces
<1>16. CASE FinishClose
  <2>1. sec.at = "closeRow"
    BY <1>16 DEF FinishClose, At
  <2>2. Goto("cooldown") \/ Raise
    BY <1>16 DEF FinishClose
  <2> QED BY <2>1, <2>2, GotoLocated, LeaveLocated DEF Located
<1> QED BY <1>1, <1>2, <1>3, <1>4, <1>5, <1>6, <1>7, <1>8, <1>9, <1>10, <1>11, <1>12,
           <1>13, <1>14, <1>15, <1>16 DEF Holder

LEMMA ResolveLocated ==
  ASSUME TypeInv, NEW task \in Tasks, BeginResolve(task) PROVE Located'
<1>1. PICK k \in todo[task] :
        sec' = [NoSection EXCEPT !.at = "query", !.op = "resolve",
                  !.ticker = orders[k].ticker, !.key = k, !.trigger = orders[k].trigger]
  BY DEF BeginResolve, Enter
<1>2. k \in OrderKeys /\ orders[k].ticker \in Tickers
  BY DEF TypeInv, TypeOK, TasksOK, Known
<1> QED BY <1>1, <1>2 DEF Located, NoSection, KeyPlaces, PositionPlaces, StopPlaces

LEMMA TradingLocated == TypeInv /\ Trading => Located'
<1> SUFFICES ASSUME TypeInv, Trading PROVE Located'
  OBVIOUS
<1>0. Located /\ TasksOK /\ Known
  BY DEF TypeInv, TypeOK
<1> USE DEF KeyPlaces, PositionPlaces, StopPlaces
<1>1. CASE UNCHANGED sec
  BY <1>0, <1>1 DEF Located
<1>2. CASE BeginResolve("trading")
  BY <1>2, ResolveLocated DEF Tasks
<1>3. ASSUME NEW r \in cycle.book, BeginCloseExecuted(r) PROVE Located'
  <2>1. r.pos \in PositionIds /\ positions[r.pos].ticker \in Tickers
    BY <1>0 DEF TasksOK, Cycle, Known
  <2>2. PICK n : sec' = [NoSection EXCEPT !.at = "execSettle", !.op = "stop",
               !.ticker = positions[r.pos].ticker, !.pos = r.pos,
               !.lots = positions[r.pos].lots, !.trigger = "STOP_LOSS", !.got = n]
    BY <1>3 DEF BeginCloseExecuted, Enter
  <2>3. /\ sec'.at = "execSettle" /\ sec'.op = "stop"
        /\ sec'.ticker = positions[r.pos].ticker /\ sec'.pos = r.pos
    BY <2>2 DEF NoSection
  <2> QED BY <2>1, <2>3 DEF Located
<1>4. ASSUME NEW r \in cycle.book, NEW trigger \in Triggers, BeginClose(r, trigger)
      PROVE  Located'
  <2>1. r.pos \in PositionIds /\ positions[r.pos].ticker \in Tickers
    BY <1>0 DEF TasksOK, Cycle, Known
  <2>2. PICK place \in {"cancelStop", "recordIntent"} :
          sec' = [NoSection EXCEPT !.at = place, !.op = "close",
               !.ticker = positions[r.pos].ticker, !.pos = r.pos,
               !.lots = positions[r.pos].lots, !.trigger = trigger]
    BY <1>4 DEF BeginClose, Enter
  <2>3. /\ sec'.at = place /\ sec'.op = "close"
        /\ sec'.ticker = positions[r.pos].ticker /\ sec'.pos = r.pos
    BY <2>2 DEF NoSection
  <2> QED BY <2>1, <2>3 DEF Located
<1>5. ASSUME NEW t \in Tickers, BeginOpen(t) PROVE Located'
  <2>1. PICK n : sec' = [NoSection EXCEPT !.at = "recordIntent", !.op = "open",
                           !.ticker = t, !.lots = n]
    BY <1>5 DEF BeginOpen, Enter
  <2> QED BY <2>1 DEF Located, NoSection
<1>6. CASE StartCycle \/ ReadBook \/ ToExits \/ ToEntries \/ EndCycle
  BY <1>1, <1>6 DEF StartCycle, ReadBook, ToExits, ToEntries, EndCycle
<1> QED BY <1>2, <1>3, <1>4, <1>5, <1>6 DEF Trading

LEMMA OthersLocated == TypeInv /\ (DbFails \/ Drain \/ Environment) => Located'
<1> SUFFICES ASSUME TypeInv, DbFails \/ Drain \/ Environment PROVE Located'
  OBVIOUS
<1>0. Located /\ SectionOK
  BY DEF TypeInv, TypeOK
<1>1. CASE DbFails
  BY <1>0, <1>1, LeaveLocated, TryAgainLocated
     DEF DbFails, WriteFails, StopSettleFails, StopFailUnwritten, CooldownUnwritten, At
<1>2. CASE BeginResolve("drain")
  BY <1>2, ResolveLocated DEF Tasks
<1>3. CASE UNCHANGED sec
  BY <1>0, <1>3 DEF Located
<1>4. DbFails \/ BeginResolve("drain") \/ UNCHANGED sec
  BY EnvironmentControl DEF Drain, Signal, DrainPoll, DrainPolled
<1> QED BY <1>1, <1>2, <1>3, <1>4

-----------------------------------------------------------------------------
(* What is listed or written names a ticker of the watchlist. *)

LEMMA RecordedTicker ==
  ASSUME TypeInv, TablesOK', [Next]_vars, NEW k \in OrderKeys, orders'[k].status # "ABSENT"
  PROVE  orders'[k].ticker \in Tickers
<1>1. CASE orders[k].status # "ABSENT"
  BY <1>1, OrderRowsStay DEF TypeInv, Known
<1>2. CASE orders[k].status = "ABSENT"
  <2>1. CASE RecordIntent \/ RecordNoLots \/ RecordExecution
    <3>1. PICK j \in OrderKeys, n \in {1, sec.lots} : NewRow(j, n)
      BY <2>1 DEF RecordIntent, RecordNoLots, RecordExecution
    <3>2. sec.ticker \in Tickers
      BY <2>1 DEF RecordIntent, RecordNoLots, RecordExecution, At, TypeInv, Located
    <3>3. CASE j = k
      BY <3>1, <3>2, <3>3 DEF NewRow, RecordSubmitting, TypeInv, TypeOK, TablesOK
    <3>4. CASE j # k
      BY <1>2, <3>1, <3>4 DEF NewRow, RecordSubmitting, TypeInv, TypeOK, TablesOK
    <3> QED BY <3>3, <3>4
  <2>2. CASE SettleReply
    <3>1. sec.key # k
      BY <1>2, <2>2 DEF SettleReply, CanSettle
    <3> QED BY <1>2, <2>2, <3>1 DEF SettleReply, Settle, TypeInv, TypeOK, TablesOK
  <2> QED BY <1>2, <2>1, <2>2, OrdersStep
<1> QED BY <1>1, <1>2

LEMMA BookedTicker ==
  ASSUME TypeInv, [Next]_vars, NEW p \in PositionIds, positions'[p].status # "ABSENT"
  PROVE  positions'[p].ticker \in Tickers
<1>0. positions \in [PositionIds -> PositionRow]
  BY DEF TypeInv, TypeOK, TablesOK
<1>1. CASE positions[p].status # "ABSENT"
  BY <1>1, PositionRowsStay DEF TypeInv, Known
<1>2. CASE positions[p].status = "ABSENT"
  <2>1. CASE OpenFromFill
    <3>1. PICK q \in PositionIds :
            positions' = OpenRow(positions, q, sec.ticker, orders[sec.key].filled, sec.key)
      BY <1>2, <2>1 DEF OpenFromFill
    <3>2. sec.ticker \in Tickers
      BY <2>1 DEF OpenFromFill, At, TypeInv, Located
    <3> QED BY <1>0, <1>2, <3>1, <3>2 DEF OpenRow
  <2>2. CASE FinishClose
    BY <1>0, <1>2, <2>2 DEF FinishClose, CanClose, CloseRow
  <2>3. CASE Shrink
    BY <1>0, <1>2, <2>3 DEF Shrink, CanUpdateLots, UpdateLots
  <2>4. CASE StopProtect \/ Demote \/ ExecLocal
    BY <1>0, <1>2, <2>4, ProtectionStep
  <2> QED BY <1>2, <2>1, <2>2, <2>3, <2>4, PositionsStep
<1> QED BY <1>1, <1>2

LEMMA BrokerOrdersStep ==
  ASSUME [Next]_vars
  PROVE  \/ UNCHANGED brokerOrders
         \/ Post /\ At("post") /\ \E st \in BrokerStatus \ {"NONE"} : \E n : Takes(st, n)
         \/ brokerOrders' = CancelledAtBroker
         \/ \E k \in OrderKeys : BrokerFill(k) \/ BrokerCancel(k)
<1>1. CASE Post
  BY <1>1 DEF Post, PostFilled, PostRefused, PostLost, PostPending, PostPartial,
              PostCancelled, brokerVars, BrokerStatus
<1>2. CASE CancelOrder \/ CancelOrderLost
  BY <1>2 DEF CancelOrder, CancelOrderLost
<1>3. CASE Holder /\ ~Post /\ ~CancelOrder /\ ~CancelOrderLost
  BY <1>3 DEF Holder, RecordIntent, RecordNoLots, RecordExecution, NewRow,
     Query, QueryLost, Reread, RereadLost, SettleReply, SettleTwice, Lookup, LookupFails,
     OpenFromFill, StopRecord, StopRecordRefused, StopPost, StopPostLost, StopActivate,
     StopProtect, StopFail, CancelStop, CancelStopLost, CancelSettle, Demote, ExecSettle,
     ExecLocal, FinishClose, StartCooldown, Shrink, brokerVars
<1>4. CASE DbFails
  BY <1>4 DEF DbFails, WriteFails, StopSettleFails, StopFailUnwritten,
              CooldownUnwritten, brokerVars
<1>5. CASE Trading \/ Drain
  BY <1>5 DEF Trading, StartCycle, ReadBook, ToExits, ToEntries, EndCycle, BeginResolve,
              BeginCloseExecuted, BeginClose, BeginOpen, Drain, Signal, DrainPoll,
              DrainPolled, brokerVars
<1>6. CASE Environment
  BY <1>6 DEF Environment, Halt, Resume, CooldownEnds, Broker, StopFires, StopRefused,
              StopSellsOn, brokerVars
<1>7. CASE UNCHANGED vars
  BY <1>7 DEF vars, brokerVars
<1> QED BY <1>1, <1>2, <1>3, <1>4, <1>5, <1>6, <1>7 DEF Next, Process

LEMMA BrokerStopsStep ==
  ASSUME [Next]_vars
  PROVE  \/ UNCHANGED brokerStops
         \/ At("stopPost") /\ StopStands /\ (StopPost \/ StopPostLost)
         \/ \E s : brokerStops' = StopCancelled(s)
         \/ \E s \in StopKeys : StopFires(s) \/ StopRefused(s) \/ StopSellsOn(s)
<1>1. CASE Post
  BY <1>1 DEF Post, PostFilled, PostRefused, PostLost, PostPending, PostPartial,
              PostCancelled, Takes, brokerVars
<1>2. CASE CancelStop \/ CancelStopLost
  BY <1>2 DEF CancelStop, CancelStopLost
<1>3. CASE StopPost \/ StopPostLost
  BY <1>3 DEF StopPost, StopPostLost
<1>4. CASE Holder /\ ~Post /\ ~CancelStop /\ ~CancelStopLost /\ ~StopPost /\ ~StopPostLost
  BY <1>4 DEF Holder, RecordIntent, RecordNoLots, RecordExecution, NewRow,
     Query, QueryLost, CancelOrder, CancelOrderLost, Reread, RereadLost, SettleReply,
     SettleTwice, Lookup, LookupFails, OpenFromFill, StopRecord, StopRecordRefused,
     StopActivate, StopProtect, StopFail, CancelSettle, Demote, ExecSettle,
     ExecLocal, FinishClose, StartCooldown, Shrink, brokerVars
<1>5. CASE DbFails
  BY <1>5 DEF DbFails, WriteFails, StopSettleFails, StopFailUnwritten,
              CooldownUnwritten, brokerVars
<1>6. CASE Trading \/ Drain
  BY <1>6 DEF Trading, StartCycle, ReadBook, ToExits, ToEntries, EndCycle, BeginResolve,
              BeginCloseExecuted, BeginClose, BeginOpen, Drain, Signal, DrainPoll,
              DrainPolled, brokerVars
<1>7. CASE Environment
  BY <1>7 DEF Environment, Halt, Resume, CooldownEnds, Broker, BrokerFill, BrokerCancel,
              brokerVars
<1>8. CASE UNCHANGED vars
  BY <1>8 DEF vars, brokerVars
<1> QED BY <1>1, <1>2, <1>3, <1>4, <1>5, <1>6, <1>7, <1>8 DEF Next, Process

(* A record the broker took stays, with what the order was. *)
LEMMA BrokerOrdersStay ==
  ASSUME BrokerOK, brokerOrders' = CancelledAtBroker
           \/ \E k \in OrderKeys : BrokerFill(k) \/ BrokerCancel(k),
         NEW k \in OrderKeys
  PROVE  /\ brokerOrders'[k].st # "NONE" => brokerOrders[k].st # "NONE"
         /\ brokerOrders'[k].ticker = brokerOrders[k].ticker
         /\ brokerOrders'[k].intent = brokerOrders[k].intent
         /\ brokerOrders'[k].lots = brokerOrders[k].lots
<1>1. brokerOrders[k] \in BrokerOrder
  BY DEF BrokerOK
<1>2. CASE brokerOrders' = CancelledAtBroker
  <2>1. brokerOrders'[k] = brokerOrders[k]
        \/ /\ brokerOrders[k].st = "LIVE"
           /\ brokerOrders'[k] = [brokerOrders[k] EXCEPT !.st = "CANCELLED"]
    BY <1>2 DEF CancelledAtBroker, BrokerOK
  <2> QED BY <1>1, <2>1 DEF BrokerOrder
<1>3. ASSUME NEW j \in OrderKeys, BrokerFill(j) \/ BrokerCancel(j)
      PROVE  \/ brokerOrders'[k] = brokerOrders[k]
             \/ /\ brokerOrders[k].st = "LIVE"
                /\ \E n, st : brokerOrders'[k] =
                     [brokerOrders[k] EXCEPT !.filled = n, !.st = st]
  <2>1. CASE BrokerFill(j)
    <3> DEFINE total(n) == brokerOrders[j].filled + n
               after(n) == IF total(n) = brokerOrders[j].lots THEN "FILLED" ELSE "LIVE"
    <3>1. PICK n : brokerOrders' = [brokerOrders EXCEPT ![j] =
                     [brokerOrders[j] EXCEPT !.filled = total(n), !.st = after(n)]]
      BY <2>1 DEF BrokerFill
    <3> HIDE DEF total, after
    <3> QED BY <2>1, <3>1 DEF BrokerFill, BrokerOK
  <2>2. CASE BrokerCancel(j)
    <3>1. PICK st : brokerOrders' = [brokerOrders EXCEPT ![j] =
                      [brokerOrders[j] EXCEPT !.st = st]]
      BY <2>2 DEF BrokerCancel
    <3>2. [brokerOrders[j] EXCEPT !.st = st] =
            [brokerOrders[j] EXCEPT !.filled = brokerOrders[j].filled, !.st = st]
      BY DEF BrokerOK, BrokerOrder
    <3> QED BY <2>2, <3>1, <3>2 DEF BrokerCancel, BrokerOK
  <2> QED BY <1>3, <2>1, <2>2
<1>4. CASE \E j \in OrderKeys : BrokerFill(j) \/ BrokerCancel(j)
  BY <1>1, <1>3, <1>4 DEF BrokerOrder
<1> QED BY <1>2, <1>4

LEMMA BrokerTicker ==
  ASSUME TypeInv, [Next]_vars, NEW k \in OrderKeys, brokerOrders'[k].st # "NONE"
  PROVE  brokerOrders'[k].ticker \in Tickers
<1>0. BrokerOK /\ Known
  BY DEF TypeInv, TypeOK
<1>1. CASE UNCHANGED brokerOrders
  BY <1>0, <1>1 DEF Known
<1>2. CASE At("post") /\ \E st \in BrokerStatus \ {"NONE"} : \E n : Takes(st, n)
  <2>1. sec.ticker \in Tickers
    BY <1>2 DEF At, TypeInv, Located
  <2>2. PICK st, n : brokerOrders' = [brokerOrders EXCEPT ![sec.key] = Arrived(st, n)]
    BY <1>2 DEF Takes
  <2>3. Arrived(st, n).ticker = sec.ticker
    BY DEF Arrived
  <2> QED BY <1>0, <2>1, <2>2, <2>3 DEF Known, BrokerOK
<1>3. CASE brokerOrders' = CancelledAtBroker
           \/ \E j \in OrderKeys : BrokerFill(j) \/ BrokerCancel(j)
  BY <1>0, <1>3, BrokerOrdersStay DEF Known
<1> QED BY <1>1, <1>2, <1>3, BrokerOrdersStep

LEMMA BrokerStopTicker ==
  ASSUME TypeInv, [Next]_vars, NEW s \in StopKeys, brokerStops'[s].st # "NONE"
  PROVE  brokerStops'[s].ticker \in Tickers
<1>0. BrokerOK /\ Known /\ brokerStops[s] \in BrokerStop
  BY DEF TypeInv, TypeOK, BrokerOK
<1>1. CASE UNCHANGED brokerStops
  BY <1>0, <1>1 DEF Known
<1>2. CASE At("stopPost") /\ StopStands
  <2>1. sec.ticker \in Tickers
    BY <1>2 DEF At, TypeInv, Located
  <2> QED BY <1>0, <1>2, <2>1 DEF Known, BrokerOK, StopStands
<1>3. ASSUME NEW r, brokerStops' = StopCancelled(r) PROVE brokerStops'[s].ticker \in Tickers
  <2>1. brokerStops'[s] = brokerStops[s]
        \/ /\ brokerStops[s].st = "LIVE"
           /\ brokerStops'[s] = [brokerStops[s] EXCEPT !.st = "CANCELLED"]
    BY <1>0, <1>3 DEF StopCancelled, BrokerOK
  <2> QED BY <1>0, <2>1 DEF Known, BrokerStop
<1>4. ASSUME NEW r \in StopKeys, StopFires(r) \/ StopRefused(r) \/ StopSellsOn(r)
      PROVE  brokerStops'[s].ticker \in Tickers
  <2>1. /\ brokerStops[r].st # "NONE"
        /\ \/ \E n : brokerStops' = [brokerStops EXCEPT ![r] =
                       [brokerStops[r] EXCEPT !.st = "FIRED", !.sold = n]]
           \/ brokerStops' = [brokerStops EXCEPT ![r] = [brokerStops[r] EXCEPT !.st = "VOID"]]
           \/ brokerStops' = [brokerStops EXCEPT ![r].sold = @ + 1]
    BY <1>4 DEF StopFires, StopRefused, StopSellsOn
  <2>2. CASE s = r
    BY <1>0, <2>1, <2>2 DEF Known, BrokerStop, BrokerOK
  <2>3. CASE s # r
    BY <1>0, <2>1, <2>3 DEF Known, BrokerOK
  <2> QED BY <2>2, <2>3
<1> QED BY <1>1, <1>2, <1>3, <1>4, BrokerStopsStep

(* The tasks list only rows that were written. *)
LEMMA ListedRows ==
  ASSUME TypeInv, [Next]_vars
  PROVE  \A task \in Tasks : \A k \in todo'[task] : k \in todo[task] \/ k \in Unresolved(orders)
<1>0. TasksOK
  BY DEF TypeInv, TypeOK
<1>1. CASE UNCHANGED todo
  BY <1>1
<1>2. CASE Raise
  BY <1>0, <1>2 DEF Raise, TasksOK
<1>3. CASE StartCycle \/ DrainPoll
  BY <1>0, <1>3 DEF StartCycle, DrainPoll, TasksOK
<1>4. ASSUME NEW task \in Tasks, BeginResolve(task)
      PROVE  \A u \in Tasks : todo'[u] \subseteq todo[u]
  BY <1>0, <1>4 DEF BeginResolve, TasksOK
<1>5. CASE Holder
  <2>1. Raise \/ UNCHANGED todo
    BY <1>5 DEF Holder, RecordIntent, RecordNoLots, RecordExecution, NewRow, Post, PostFilled,
     PostRefused, PostLost, PostPending, PostPartial, PostCancelled, OutcomeUnknown, NoAnswer,
     Query, QueryLost, CancelOrder, CancelOrderLost, Reread, RereadLost, SettleReply,
     AfterOpen, AfterClose, AfterResolve,
     SettleTwice, Lookup, LookupFails, OpenFromFill, StopRecord, StopRecordRefused,
     StopPost, StopPostLost, StopActivate, StopProtect, StopFail, TryAgain, LeaveOpened,
     CancelStop, CancelStopLost, CancelSettle, Demote, ExecSettle,
     ExecLocal, FinishClose, StartCooldown, Shrink, Goto, Reply, Leave, taskVars
  <2> QED BY <1>1, <1>2, <2>1
<1>6. CASE DbFails
  <2>1. Raise \/ UNCHANGED todo
    BY <1>6 DEF DbFails, WriteFails, StopSettleFails, StopFailUnwritten, CooldownUnwritten,
                TryAgain, LeaveOpened, Leave, taskVars
  <2> QED BY <1>1, <1>2, <2>1
<1>7. CASE Trading
  BY <1>1, <1>3, <1>4, <1>7 DEF Trading, ReadBook, ToExits, ToEntries, EndCycle, Tasks,
              BeginCloseExecuted, BeginClose, BeginOpen, taskVars
<1>8. CASE Drain
  BY <1>1, <1>3, <1>4, <1>8 DEF Drain, Signal, DrainPolled, Tasks
<1>9. CASE Environment \/ UNCHANGED vars
  BY <1>1, <1>9, EnvironmentControl DEF vars, taskVars
<1> QED BY <1>5, <1>6, <1>7, <1>8, <1>9 DEF Next, Process

LEMMA ReadPositions ==
  ASSUME TypeInv, [Next]_vars
  PROVE  \A r \in cycle'.book : r \in cycle.book \/ positions[r.pos].status = "OPEN"
<1>0. cycle \in Cycle
  BY DEF TypeInv, TypeOK, TasksOK
<1>1. CASE UNCHANGED cycle
  BY <1>1
<1>2. CASE Raise \/ LeaveOpened
  <2>1. NoCycle.book = {}
    BY DEF NoCycle
  <2>2. [cycle EXCEPT !.port = HeldTickers, !.opened = @ \cup {sec.ticker}].book = cycle.book
    BY <1>0 DEF Cycle
  <2>3. CASE Raise
    BY <2>1, <2>3 DEF Raise
  <2>4. CASE LeaveOpened
    BY <2>2, <2>4 DEF LeaveOpened
  <2> QED BY <1>2, <2>3, <2>4
<1>3. CASE Holder
  <2>1. Raise \/ LeaveOpened \/ UNCHANGED cycle
    BY <1>3 DEF Holder, RecordIntent, RecordNoLots, RecordExecution, NewRow, Post, PostFilled,
     PostRefused, PostLost, PostPending, PostPartial, PostCancelled, OutcomeUnknown, NoAnswer,
     Query, QueryLost, CancelOrder, CancelOrderLost, Reread, RereadLost, SettleReply,
     AfterOpen, AfterClose, AfterResolve,
     SettleTwice, Lookup, LookupFails, OpenFromFill, StopRecord, StopRecordRefused,
     StopPost, StopPostLost, StopActivate, StopProtect, StopFail, TryAgain,
     CancelStop, CancelStopLost, CancelSettle, Demote, ExecSettle,
     ExecLocal, FinishClose, StartCooldown, Shrink, Goto, Reply, Leave, taskVars
  <2> QED BY <1>1, <1>2, <2>1
<1>4. CASE DbFails
  <2>1. Raise \/ LeaveOpened \/ UNCHANGED cycle
    BY <1>4 DEF DbFails, WriteFails, StopSettleFails, StopFailUnwritten, CooldownUnwritten,
                TryAgain, Leave, taskVars
  <2> QED BY <1>1, <1>2, <2>1
<1>5. CASE ReadBook
  <2>1. cycle'.book = {[pos |-> p, protection |-> positions[p].protection] :
                         p \in {q \in PositionIds : positions[q].status = "OPEN"}}
    BY <1>0, <1>5 DEF ReadBook, Cycle
  <2> QED BY <2>1
<1>6. CASE ToEntries \/ EndCycle
  BY <1>6 DEF ToEntries, EndCycle, NoCycle
<1>7. ASSUME NEW r, cycle' = [cycle EXCEPT !.book = @ \ {r}]
      PROVE  cycle'.book \subseteq cycle.book
  BY <1>0, <1>7 DEF Cycle
<1>8. CASE Trading
  BY <1>1, <1>5, <1>6, <1>7, <1>8
     DEF Trading, StartCycle, ToExits, BeginResolve, BeginCloseExecuted, BeginClose,
         BeginOpen, taskVars
<1>9. CASE Drain
  BY <1>1, <1>9 DEF Drain, Signal, DrainPoll, DrainPolled, BeginResolve
<1>10. CASE Environment \/ UNCHANGED vars
  BY <1>1, <1>10, EnvironmentControl DEF vars, taskVars
<1> QED BY <1>3, <1>4, <1>8, <1>9, <1>10 DEF Next, Process

LEMMA FlagsStep == ASSUME TypeInv, [Next]_vars PROVE FlagsOK'
<1>0. FlagsOK
  BY DEF TypeInv, TypeOK
<1>1. halted' = halted \/ halted' = TRUE \/ halted' = FALSE
  <2>1. CASE Holder
    BY <2>1 DEF Holder, RecordIntent, RecordNoLots, RecordExecution, NewRow, Post,
     PostFilled, PostRefused, PostLost, PostPending, PostPartial, PostCancelled,
     Query, QueryLost, CancelOrder, CancelOrderLost, Reread, RereadLost, SettleReply,
     SettleTwice, Lookup, LookupFails, OpenFromFill, StopRecord, StopRecordRefused,
     StopPost, StopPostLost, StopActivate, StopProtect, StopFail,
     CancelStop, CancelStopLost, CancelSettle, Demote, ExecSettle,
     ExecLocal, FinishClose, StartCooldown, Shrink, dbVars
  <2>2. CASE DbFails
    BY <2>2 DEF DbFails, WriteFails, StopSettleFails, StopFailUnwritten,
                CooldownUnwritten, dbVars
  <2>3. CASE Trading \/ Drain
    BY <2>3 DEF Trading, StartCycle, ReadBook, ToExits, ToEntries, EndCycle, BeginResolve,
                BeginCloseExecuted, BeginClose, BeginOpen, Drain, Signal, DrainPoll,
                DrainPolled, dbVars
  <2>4. CASE Environment
    BY <2>4 DEF Environment, Halt, Resume, CooldownEnds, Broker, BrokerFill, BrokerCancel,
                StopFires, StopRefused, StopSellsOn, dbVars
  <2>5. CASE UNCHANGED vars
    BY <2>5 DEF vars, dbVars
  <2> QED BY <2>1, <2>2, <2>3, <2>4, <2>5 DEF Next, Process
<1>2. \/ UNCHANGED shutdownVars
      \/ entriesStopped' = TRUE /\ polls' = polls
      \/ entriesStopped' = entriesStopped /\ polls # MaxPolls /\ polls' = polls + 1
  <2>1. CASE Holder
    BY <2>1 DEF Holder, RecordIntent, RecordNoLots, RecordExecution, NewRow, Post,
     PostFilled, PostRefused, PostLost, PostPending, PostPartial, PostCancelled,
     Query, QueryLost, CancelOrder, CancelOrderLost, Reread, RereadLost, SettleReply,
     SettleTwice, Lookup, LookupFails, OpenFromFill, StopRecord, StopRecordRefused,
     StopPost, StopPostLost, StopActivate, StopProtect, StopFail,
     CancelStop, CancelStopLost, CancelSettle, Demote, ExecSettle,
     ExecLocal, FinishClose, StartCooldown, Shrink
  <2>2. CASE DbFails
    BY <2>2 DEF DbFails, WriteFails, StopSettleFails, StopFailUnwritten, CooldownUnwritten
  <2>3. CASE Trading
    BY <2>3 DEF Trading, StartCycle, ReadBook, ToExits, ToEntries, EndCycle, BeginResolve,
                BeginCloseExecuted, BeginClose, BeginOpen
  <2>4. CASE Drain
    BY <2>4 DEF Drain, Signal, DrainPoll, DrainPolled, BeginResolve, shutdownVars
  <2>5. CASE Environment
    BY <2>5 DEF Environment, Halt, Resume, CooldownEnds, Broker, BrokerFill, BrokerCancel,
                StopFires, StopRefused, StopSellsOn
  <2>6. CASE UNCHANGED vars
    BY <2>6 DEF vars
  <2> QED BY <2>1, <2>2, <2>3, <2>4, <2>5, <2>6 DEF Next, Process
<1>3. halted' \in BOOLEAN
  BY <1>0, <1>1, Zenon DEF FlagsOK
<1>4. entriesStopped' \in BOOLEAN
  BY <1>0, <1>2, Zenon DEF FlagsOK, shutdownVars
<1>5. polls' \in 0..MaxPolls
  <2>1. polls' = polls \/ (polls # MaxPolls /\ polls' = polls + 1)
    BY <1>2, Zenon DEF shutdownVars
  <2>2. polls \in 0..MaxPolls
    BY <1>0, Zenon DEF FlagsOK
  <2> QED BY <2>1, <2>2, ExecutionAssumption
<1> QED BY <1>3, <1>4, <1>5, Zenon DEF FlagsOK

-----------------------------------------------------------------------------
(* The types hold at the start and are kept by every step. *)

LEMMA TypeInit == Init => TypeInv
<1> SUFFICES ASSUME Init PROVE TypeInv
  OBVIOUS
<1>1. TablesOK
  <2>1. NoOrder \in OrderRow
    BY DEF NoOrder, OrderRow, OrderStatus, Intents, BrokerIds
  <2>2. NoPosition \in PositionRow
    BY DEF NoPosition, PositionRow, PositionStatus, Protections
  <2>3. NoStop \in StopRow
    BY DEF NoStop, StopRow, StopStatus
  <2> QED BY <2>1, <2>2, <2>3 DEF Init, TablesOK
<1>2. BrokerOK
  <2>1. NoBrokerOrder \in BrokerOrder
    BY DEF NoBrokerOrder, BrokerOrder, BrokerStatus, Intents
  <2>2. NoBrokerStop \in BrokerStop
    BY DEF NoBrokerStop, BrokerStop, BrokerStopStatus
  <2> QED BY <2>1, <2>2 DEF Init, BrokerOK
<1>3. SectionOK
  BY EmptySection DEF Init, SectionOK
<1>4. TasksOK
  <2>1. \A task \in Tasks : AtFirst(task) \in Phases
    BY DEF Tasks, AtFirst, Phases
  <2>2. NoCycle \in Cycle
    BY DEF NoCycle, Cycle
  <2> QED BY <2>1, <2>2 DEF Init, TasksOK
<1>5. FlagsOK
  <2>1. halted \in BOOLEAN /\ entriesStopped \in BOOLEAN
    BY Zenon DEF Init
  <2>2. polls \in 0..MaxPolls
    BY ExecutionAssumption DEF Init
  <2> QED BY <2>1, <2>2, Zenon DEF FlagsOK
<1>6. Located
  BY DEF Init, Located, NoSection, KeyPlaces, PositionPlaces, StopPlaces
<1>7. Known
  BY DEF Init, Known, NoOrder, NoPosition, NoBrokerOrder, NoBrokerStop, NoCycle
<1> QED BY <1>1, <1>2, <1>3, <1>4, <1>5, <1>6, <1>7 DEF TypeInv, TypeOK

LEMMA TypeStep == TypeInv /\ [Next]_vars => TypeInv'
<1> SUFFICES ASSUME TypeInv, [Next]_vars PROVE TypeInv'
  OBVIOUS
<1>0. TypeOK /\ Located /\ Known
  BY DEF TypeInv
<1>1. TablesOK'
  BY <1>0, HolderTables, OthersTables DEF Next, Process, vars, dbVars, TypeOK, TablesOK
<1>2. BrokerOK'
  <2>1. CASE Trading \/ Drain \/ DbFails
    <3>1. UNCHANGED brokerVars
      BY <2>1 DEF Trading, StartCycle, ReadBook, ToExits, ToEntries, EndCycle, BeginResolve,
                  BeginCloseExecuted, BeginClose, BeginOpen, Drain, Signal, DrainPoll,
                  DrainPolled, DbFails, WriteFails, StopSettleFails, StopFailUnwritten,
                  CooldownUnwritten
    <3> QED BY <1>0, <3>1 DEF TypeOK, BrokerOK, brokerVars
  <2>2. CASE UNCHANGED vars
    BY <1>0, <2>2 DEF TypeOK, BrokerOK, vars, brokerVars
  <2> QED BY <2>1, <2>2, HolderBroker, EnvironmentBroker DEF Next, Process
<1>3. ControlOK'
  <2>1. CASE Environment \/ UNCHANGED vars
    <3>1. UNCHANGED <<lock, sec, taskVars>>
      BY <2>1, EnvironmentControl DEF vars
    <3> QED BY <1>0, <3>1 DEF TypeOK, ControlOK, SectionOK, TasksOK, taskVars
  <2> QED BY <2>1, HolderControl, TradingControl, DrainControl, FailureControl
          DEF Next, Process
<1>4. Located'
  <2>1. CASE UNCHANGED vars
    BY <1>0, <2>1 DEF vars, Located
  <2> QED BY <2>1, HolderLocated, TradingLocated, OthersLocated DEF Next, Process
<1>5. Known'
  <2>1. \A k \in OrderKeys : orders'[k].status # "ABSENT" => orders'[k].ticker \in Tickers
    BY <1>1, RecordedTicker
  <2>2. \A p \in PositionIds :
          positions'[p].status # "ABSENT" => positions'[p].ticker \in Tickers
    BY BookedTicker
  <2>3. \A task \in Tasks : \A k \in todo'[task] : orders'[k].status # "ABSENT"
    <3>1. ASSUME NEW task \in Tasks, NEW k \in todo'[task] PROVE orders'[k].status # "ABSENT"
      <4>1. k \in OrderKeys /\ orders[k].status # "ABSENT"
        BY <1>0, <3>1, ListedRows DEF Known, TypeOK, TasksOK, TablesOK, Unresolved
      <4> QED BY <4>1, OrderRowsStay
    <3> QED BY <3>1
  <2>4. \A r \in cycle'.book : positions'[r.pos].status # "ABSENT"
    <3>1. ASSUME NEW r \in cycle'.book PROVE positions'[r.pos].status # "ABSENT"
      <4>1. r.pos \in PositionIds
        BY <1>3 DEF ControlOK, TasksOK, Cycle
      <4>2. positions[r.pos].status # "ABSENT"
        BY <1>0, <3>1, ReadPositions DEF Known
      <4> QED BY <4>1, <4>2, PositionRowsStay
    <3> QED BY <3>1
  <2>5. /\ \A k \in OrderKeys :
             brokerOrders'[k].st # "NONE" => brokerOrders'[k].ticker \in Tickers
        /\ \A s \in StopKeys :
             brokerStops'[s].st # "NONE" => brokerStops'[s].ticker \in Tickers
    BY BrokerTicker, BrokerStopTicker
  <2> QED BY <2>1, <2>2, <2>3, <2>4, <2>5 DEF Known
<1> QED BY <1>1, <1>2, <1>3, <1>4, <1>5, FlagsStep DEF TypeInv, TypeOK, ControlOK

LEMMA TypeInvariant == Spec => []TypeInv
BY TypeInit, TypeStep, PTL DEF Spec

(* Every variable keeps its type, whatever the environment does: no key,   *)
(* row or lot count outside the tables is ever reached.                    *)
THEOREM TypeCorrect == Spec => []TypeOK
<1>1. TypeInv => TypeOK
  BY DEF TypeInv
<1> QED BY <1>1, TypeInvariant, PTL

-----------------------------------------------------------------------------
(* A settled row is final. *)

LEMMA SettledStays ==
  ASSUME TypeInv, [Next]_vars, NEW k \in OrderKeys, Terminal(k)
  PROVE  orders'[k] = orders[k]
<1>0. orders \in [OrderKeys -> OrderRow]
  BY DEF TypeInv, TypeOK, TablesOK
<1>1. CASE RecordIntent \/ RecordNoLots \/ RecordExecution
  <2>1. PICK j \in OrderKeys, n \in {1, sec.lots} : NewRow(j, n)
    BY <1>1 DEF RecordIntent, RecordNoLots, RecordExecution
  <2>2. j # k
    BY <2>1 DEF NewRow, IsFresh, Unused, Terminal, TerminalOrder
  <2> QED BY <1>0, <2>1, <2>2 DEF NewRow, RecordSubmitting
<1>2. CASE SettleReply
  <2>1. sec.key # k
    BY <1>2 DEF SettleReply, CanSettle, Terminal, TerminalOrder
  <2> QED BY <1>0, <1>2, <2>1 DEF SettleReply, Settle
<1> QED BY <1>1, <1>2, OrdersStep

(* Two tasks may resolve one order: whoever comes late changes nothing.    *)
(* The guard of orders.settle, WHERE status IN ('SUBMITTING', 'SUBMITTED'),*)
(* is what the proof rests on.                                             *)
THEOREM SettledFinal == Spec => SettledIsFinal
<1>1. TypeInv /\ [Next]_vars => [\A k \in OrderKeys : Terminal(k) => orders'[k] = orders[k]]_vars
  BY SettledStays
<1> QED BY <1>1, TypeInvariant, PTL DEF Spec, SettledIsFinal

-----------------------------------------------------------------------------
(* The records of the broker and of the orders table agree. *)

RecordedAs(k, ticker, intent, lots) ==
  /\ orders[k].status # "ABSENT"
  /\ orders[k].ticker = ticker
  /\ orders[k].intent = intent
  /\ orders[k].lots = lots

(* What is about to be posted is recorded as it will be sent, and has not  *)
(* reached the broker.                                                     *)
Posting ==
  sec.at = "post" =>
    /\ orders[sec.key].status = "SUBMITTING"
    /\ brokerOrders[sec.key].st = "NONE"
    /\ RecordedAs(sec.key, sec.ticker, IntentOf(sec.op), sec.lots)

(* What the broker never took, it never filled. *)
NothingSent ==
  \A k \in OrderKeys : brokerOrders[k].st = "NONE" => brokerOrders[k].filled = 0

(* A reply about to be settled is the broker's last word on the order. *)
Answered ==
  /\ sec.at = "reread" => brokerOrders[sec.key].st # "LIVE"
  /\ sec.at = "settleReply" /\ sec.op # "stop" =>
       /\ brokerOrders[sec.key].st # "LIVE"
       /\ brokerOrders[sec.key].filled = sec.got

TruthInv == WriteAhead /\ SettledTruth /\ Posting /\ NothingSent /\ Answered

Quiet == sec' = sec \/ sec'.at \notin {"post", "reread", "settleReply"}

LEMMA GotoQuiet ==
  ASSUME SectionOK, NEW place \in Places \ {"post", "reread", "settleReply"}, Goto(place)
  PROVE  Quiet
BY DEF Goto, Quiet, SectionOK, Section

LEMMA LeaveQuiet == ASSUME Leave \/ Raise \/ LeaveOpened PROVE Quiet
BY DEF Leave, Raise, LeaveOpened, Quiet, NoSection

LEMMA TryAgainQuiet == ASSUME SectionOK, TryAgain PROVE Quiet
<1>1. CASE LeaveOpened
  BY <1>1, LeaveQuiet
<1>2. CASE ~LeaveOpened
  <2>1. sec' = [sec EXCEPT !.tries = @ + 1, !.at = "stopRecord"]
    BY <1>2 DEF TryAgain
  <2>2. sec'.at = "stopRecord"
    BY <2>1 DEF SectionOK, Section
  <2> QED BY <2>2 DEF Quiet
<1> QED BY <1>1, <1>2

(* Every other action leaves both records alone, and the section quiet. *)
LEMMA QuietHolder ==
  ASSUME TypeInv, Holder, ~Post, ~Query, ~CancelOrder, ~CancelOrderLost, ~Reread,
         ~SettleReply, ~RecordIntent, ~RecordNoLots, ~RecordExecution
  PROVE  Quiet /\ UNCHANGED brokerOrders
<1>0. SectionOK /\ sec \in Section /\ Located
  BY DEF TypeInv, TypeOK, SectionOK
<1>1. UNCHANGED brokerOrders
  BY DEF Holder, QueryLost, RereadLost, SettleTwice, Lookup, LookupFails,
     OpenFromFill, StopRecord, StopRecordRefused, StopPost, StopPostLost, StopActivate,
     StopProtect, StopFail, CancelStop, CancelStopLost, CancelSettle, Demote, ExecSettle,
     ExecLocal, FinishClose, StartCooldown, Shrink, brokerVars
<1>2. Quiet
  <2>1. CASE Leave \/ Raise \/ LeaveOpened
    BY <2>1, LeaveQuiet
  <2>2. CASE TryAgain
    BY <1>0, <2>2, TryAgainQuiet
  <2>3. CASE \E place \in Places \ {"post", "reread", "settleReply"} : Goto(place)
    BY <1>0, <2>3, GotoQuiet
  <2>4. CASE OpenFromFill /\ ~Raise
    BY <1>0, <2>4 DEF OpenFromFill, Quiet, Section
  <2>5. CASE StopRecord
    BY <1>0, <2>5 DEF StopRecord, Quiet, Section
  <2>6. CASE CancelStop /\ ~Goto("demote")
    BY <1>0, <2>6 DEF CancelStop, Quiet, Section
  <2>7. CASE Lookup \/ StopPost \/ StopPostLost \/ StopActivate \/ CancelSettle \/ ExecSettle
             \/ ExecLocal \/ FinishClose \/ CancelStop \/ Demote
    <3>1. CASE Lookup \/ StopPost \/ StopPostLost \/ StopActivate \/ CancelSettle \/ ExecSettle
      BY <2>3, <3>1 DEF Lookup, StopPost, StopPostLost, StopActivate, CancelSettle,
                        ExecSettle, Places
    <3>2. CASE ExecLocal \/ FinishClose \/ CancelStop
      BY <2>1, <2>3, <2>6, <3>2 DEF ExecLocal, FinishClose, CancelStop, Places
    <3>3. CASE Demote
      <4>1. sec.op \in {"close", "resolve", "replace"}
        BY <1>0, <3>3 DEF Demote, At, Located
      <4> QED BY <2>3, <3>3, <4>1 DEF Demote, Places
    <3> QED BY <2>7, <3>1, <3>2, <3>3
  <2>8. CASE QueryLost \/ RereadLost \/ SettleTwice \/ LookupFails \/ StopRecordRefused
             \/ StopProtect \/ CancelStopLost \/ StartCooldown \/ Shrink
    BY <2>1, <2>8 DEF QueryLost, RereadLost, NoAnswer, SettleTwice, LookupFails,
       StopRecordRefused, StopProtect, CancelStopLost, StartCooldown, Shrink
  <2>9. CASE OpenFromFill \/ StopFail
    BY <2>1, <2>2, <2>4, <2>9 DEF StopFail
  <2> QED BY <2>5, <2>7, <2>8, <2>9 DEF Holder
<1> QED BY <1>1, <1>2

LEMMA QuietOthers ==
  ASSUME TypeInv, DbFails \/ Trading \/ Drain \/ UNCHANGED vars
  PROVE  Quiet /\ UNCHANGED <<orders, brokerOrders>>
<1>0. SectionOK
  BY DEF TypeInv, TypeOK
<1>1. CASE DbFails
  <2>1. Leave \/ Raise \/ TryAgain
    BY <1>1 DEF DbFails, WriteFails, StopSettleFails, StopFailUnwritten, CooldownUnwritten
  <2>2. UNCHANGED <<orders, brokerOrders>>
    BY <1>1 DEF DbFails, WriteFails, StopSettleFails, StopFailUnwritten, CooldownUnwritten,
                dbVars, brokerVars
  <2> QED BY <1>0, <2>1, <2>2, LeaveQuiet, TryAgainQuiet
<1>2. CASE Trading \/ Drain
  <2>1. UNCHANGED <<orders, brokerOrders>>
    BY <1>2 DEF Trading, StartCycle, ReadBook, ToExits, ToEntries, EndCycle, BeginResolve,
                BeginCloseExecuted, BeginClose, BeginOpen, Drain, Signal, DrainPoll,
                DrainPolled, dbVars, brokerVars
  <2>2. sec' = sec \/ sec'.at \in {"query", "execSettle", "cancelStop", "recordIntent"}
    <3>1. CASE BeginResolve("trading") \/ BeginResolve("drain")
      BY <3>1 DEF BeginResolve, Enter, NoSection
    <3>2. ASSUME NEW r, BeginCloseExecuted(r) PROVE sec'.at = "execSettle"
      BY <3>2 DEF BeginCloseExecuted, Enter, NoSection
    <3>3. ASSUME NEW r, NEW trigger, BeginClose(r, trigger)
          PROVE  sec'.at \in {"cancelStop", "recordIntent"}
      BY <3>3 DEF BeginClose, Enter, NoSection
    <3>4. ASSUME NEW t, BeginOpen(t) PROVE sec'.at = "recordIntent"
      BY <3>4 DEF BeginOpen, Enter, NoSection
    <3> QED BY <1>2, <3>1, <3>2, <3>3, <3>4
            DEF Trading, StartCycle, ReadBook, ToExits, ToEntries, EndCycle, Drain, Signal,
                DrainPoll, DrainPolled
  <2> QED BY <2>1, <2>2 DEF Quiet
<1>3. CASE UNCHANGED vars
  BY <1>3 DEF vars, dbVars, brokerVars, Quiet
<1> QED BY <1>1, <1>2, <1>3

LEMMA QuietTruth ==
  ASSUME TypeInv, TruthInv, Quiet, UNCHANGED <<orders, brokerOrders>>
  PROVE  TruthInv'
<1> USE DEF TruthInv
<1>1. WriteAhead' /\ SettledTruth' /\ NothingSent'
  BY DEF WriteAhead, SettledTruth, NothingSent, Terminal
<1>2. Posting' /\ Answered'
  BY DEF Posting, Answered, Quiet, RecordedAs
<1> QED BY <1>1, <1>2

(* A new row goes under a key the broker has never seen. *)
LEMMA RecordTruth ==
  ASSUME TypeInv, TruthInv, RecordIntent \/ RecordNoLots \/ RecordExecution
  PROVE  TruthInv'
<1>0. /\ orders \in [OrderKeys -> OrderRow] /\ sec \in Section
      /\ WriteAhead /\ SettledTruth /\ NothingSent
  BY DEF TypeInv, TypeOK, TablesOK, SectionOK, TruthInv
<1>1. PICK k \in OrderKeys, n \in {1, sec.lots} :
        /\ NewRow(k, n)
        /\ \/ sec' = [sec EXCEPT !.key = k, !.at = "post"] /\ n = sec.lots
           \/ sec' = [sec EXCEPT !.key = k, !.at = "settleReply", !.ans = "REJECTED", !.got = 0]
           \/ /\ sec' = [sec EXCEPT !.key = k, !.at = "settleReply", !.ans = "FILLED"]
              /\ sec.op = "stop"
  BY DEF RecordIntent, RecordNoLots, RecordExecution
<1>2. orders[k].status = "ABSENT"
  BY <1>1 DEF NewRow, IsFresh, Unused
<1>3. brokerOrders[k].st = "NONE" /\ brokerOrders[k].filled = 0
  BY <1>0, <1>2 DEF WriteAhead, NothingSent
<1>4. UNCHANGED brokerOrders
  BY <1>1 DEF NewRow, brokerVars
<1>5. /\ orders'[k] = [status |-> "SUBMITTING", ticker |-> sec.ticker,
                       intent |-> IntentOf(sec.op), trigger |-> sec.trigger,
                       lots |-> n, filled |-> 0, brokerId |-> "none"]
      /\ \A j \in OrderKeys : j # k => orders'[j] = orders[j]
  BY <1>0, <1>1 DEF NewRow, RecordSubmitting
<1>6. sec'.key = k /\ sec'.op = sec.op /\ sec'.ticker = sec.ticker /\ sec'.lots = sec.lots
  BY <1>0, <1>1 DEF Section
<1>7. WriteAhead'
  BY <1>0, <1>3, <1>4, <1>5 DEF WriteAhead
<1>8. SettledTruth'
  BY <1>0, <1>4, <1>5 DEF SettledTruth, Terminal, TerminalOrder
<1>9. NothingSent'
  BY <1>0, <1>4 DEF NothingSent
<1>10. Posting'
  <2>1. sec'.at = "post" => n = sec.lots
    BY <1>0, <1>1 DEF Section
  <2> QED BY <2>1, <1>3, <1>4, <1>5, <1>6 DEF Posting, RecordedAs
<1>11. Answered'
  <2>1. sec'.at # "reread" /\ (sec'.at = "settleReply" /\ sec.op # "stop" => sec'.got = 0)
    BY <1>0, <1>1 DEF Section
  <2> QED BY <2>1, <1>3, <1>4, <1>6 DEF Answered
<1> QED BY <1>7, <1>8, <1>9, <1>10, <1>11 DEF TruthInv

(* The row of what is posted is SUBMITTING, whatever the broker makes of it. *)
LEMMA PostTruth ==
  ASSUME TypeInv, TruthInv, Post
  PROVE  TruthInv'
<1>0. /\ brokerOrders \in [OrderKeys -> BrokerOrder] /\ sec \in Section /\ SectionOK
      /\ WriteAhead /\ SettledTruth /\ NothingSent /\ Posting
  BY DEF TypeInv, TypeOK, BrokerOK, SectionOK, TruthInv
<1>1. UNCHANGED orders
  BY DEF Post, PostFilled, PostRefused, PostLost, PostPending, PostPartial,
         PostCancelled, dbVars
<1>2. sec.at = "post"
  BY DEF Post, PostFilled, PostRefused, PostLost, PostPending, PostPartial,
         PostCancelled, At
<1>3. sec.key \in OrderKeys
  BY <1>2 DEF TypeInv, Located, KeyPlaces
<1>4. \/ UNCHANGED brokerOrders /\ (Leave \/ Raise)
      \/ /\ \E st \in BrokerStatus \ {"NONE"} : \E n : Takes(st, n)
         /\ Leave \/ Raise \/ Goto("cancelOrder")
      \/ Takes("FILLED", sec.lots) /\ Reply("FILLED", sec.lots)
      \/ Takes("REJECTED", 0) /\ Reply("REJECTED", 0)
  BY DEF Post, PostFilled, PostRefused, PostLost, PostPending, PostPartial,
         PostCancelled, OutcomeUnknown, brokerVars, BrokerStatus
<1>5. ASSUME NEW st \in BrokerStatus \ {"NONE"}, NEW n, Takes(st, n)
      PROVE  /\ WriteAhead' /\ SettledTruth' /\ NothingSent'
             /\ brokerOrders'[sec.key].st = st /\ brokerOrders'[sec.key].filled = n
  <2>1. /\ brokerOrders'[sec.key] = [st |-> st, ticker |-> sec.ticker,
             intent |-> IntentOf(sec.op), lots |-> sec.lots, filled |-> n]
        /\ \A j \in OrderKeys : j # sec.key => brokerOrders'[j] = brokerOrders[j]
    BY <1>0, <1>3, <1>5 DEF Takes, Arrived
  <2>2. WriteAhead'
    BY <1>0, <1>1, <1>2, <2>1 DEF WriteAhead, Posting, RecordedAs
  <2>3. SettledTruth'
    BY <1>0, <1>1, <1>2, <2>1 DEF SettledTruth, Posting, Terminal, TerminalOrder
  <2>4. NothingSent'
    BY <1>0, <2>1 DEF NothingSent
  <2> QED BY <2>1, <2>2, <2>3, <2>4
<1>6. CASE UNCHANGED brokerOrders /\ (Leave \/ Raise)
  BY <1>1, <1>6, QuietTruth, LeaveQuiet
<1>7. ASSUME NEW st \in BrokerStatus \ {"NONE"}, NEW n, Takes(st, n),
             Leave \/ Raise \/ Goto("cancelOrder")
      PROVE  TruthInv'
  <2>1. sec'.at \notin {"post", "reread", "settleReply"}
    BY <1>0, <1>7 DEF Leave, Raise, Goto, NoSection, Section
  <2> QED BY <1>5, <1>7, <2>1 DEF TruthInv, Posting, Answered
<1>8. ASSUME NEW st \in {"FILLED", "REJECTED"}, NEW n \in Nat, Takes(st, n), Reply(st, n)
      PROVE  TruthInv'
  <2>1. /\ sec'.at = "settleReply" /\ sec'.key = sec.key /\ sec'.got = n
    BY <1>0, <1>8 DEF Reply, Section
  <2>2. st \in BrokerStatus \ {"NONE"} /\ st # "LIVE"
    BY <1>8 DEF BrokerStatus
  <2> QED BY <1>5, <1>8, <2>1, <2>2 DEF TruthInv, Posting, Answered
<1>9. sec.lots \in Nat
  BY <1>0, SectionFields
<1> QED BY <1>4, <1>6, <1>7, <1>8, <1>9

LEMMA AskTruth ==
  ASSUME TypeInv, TruthInv, Query \/ Reread
  PROVE  TruthInv'
<1>0. sec \in Section /\ WriteAhead /\ SettledTruth /\ NothingSent /\ Answered /\ SectionOK
  BY DEF TypeInv, TypeOK, SectionOK, TruthInv
<1>1. UNCHANGED <<orders, brokerOrders>>
  BY DEF Query, Reread, dbVars, brokerVars
<1>2. sec.at \in {"query", "reread"} /\ sec.key \in OrderKeys
  BY DEF Query, Reread, At, TypeInv, Located, KeyPlaces
<1>3. \/ Leave \/ Goto("cancelOrder")
      \/ \E a : Reply(a, brokerOrders[sec.key].filled) /\ brokerOrders[sec.key].st # "LIVE"
  BY <1>0, <1>2 DEF Query, Reread, At, Answered, NothingSent, TerminalOrder
<1>4. CASE Leave
  BY <1>1, <1>4, QuietTruth, LeaveQuiet
<1>5. CASE Goto("cancelOrder")
  BY <1>0, <1>1, <1>5, QuietTruth, GotoQuiet DEF Places
<1>6. ASSUME NEW a, Reply(a, brokerOrders[sec.key].filled), brokerOrders[sec.key].st # "LIVE"
      PROVE  TruthInv'
  <2>1. /\ sec'.at = "settleReply" /\ sec'.key = sec.key
        /\ sec'.got = brokerOrders[sec.key].filled
    BY <1>0, <1>6 DEF Reply, Section
  <2>2. WriteAhead' /\ SettledTruth' /\ NothingSent'
    BY <1>0, <1>1 DEF WriteAhead, SettledTruth, NothingSent, Terminal
  <2>3. Posting' /\ Answered'
    BY <1>1, <1>6, <2>1 DEF Posting, Answered
  <2> QED BY <2>2, <2>3 DEF TruthInv
<1> QED BY <1>3, <1>4, <1>5, <1>6

(* What the broker does by itself, it does to an order that is live. *)
LEMMA LiveOnly ==
  ASSUME BrokerOK, brokerOrders' = CancelledAtBroker
           \/ \E k \in OrderKeys : BrokerFill(k) \/ BrokerCancel(k),
         NEW k \in OrderKeys, brokerOrders[k].st # "LIVE"
  PROVE  brokerOrders'[k] = brokerOrders[k]
BY DEF CancelledAtBroker, BrokerFill, BrokerCancel, BrokerOK

LEMMA LiveStays ==
  ASSUME BrokerOK, brokerOrders' = CancelledAtBroker
           \/ \E k \in OrderKeys : BrokerFill(k) \/ BrokerCancel(k),
         NEW k \in OrderKeys, brokerOrders[k].st = "LIVE"
  PROVE  brokerOrders'[k].st # "NONE"
<1>1. CASE brokerOrders' = CancelledAtBroker
  <2>1. \/ brokerOrders'[k] = brokerOrders[k]
        \/ brokerOrders'[k] = [brokerOrders[k] EXCEPT !.st = "CANCELLED"]
    BY <1>1 DEF CancelledAtBroker, BrokerOK
  <2> QED BY <2>1 DEF BrokerOK, BrokerOrder
<1>2. ASSUME NEW j \in OrderKeys, BrokerFill(j) PROVE brokerOrders'[k].st # "NONE"
  <2> DEFINE total(n) == brokerOrders[j].filled + n
             after(n) == IF total(n) = brokerOrders[j].lots THEN "FILLED" ELSE "LIVE"
  <2>1. PICK n : brokerOrders' = [brokerOrders EXCEPT ![j] =
                   [brokerOrders[j] EXCEPT !.filled = total(n), !.st = after(n)]]
    BY <1>2 DEF BrokerFill
  <2>2. after(n) # "NONE"
    OBVIOUS
  <2> HIDE DEF total, after
  <2> QED BY <2>1, <2>2 DEF BrokerOK, BrokerOrder
<1>3. ASSUME NEW j \in OrderKeys, BrokerCancel(j) PROVE brokerOrders'[k].st # "NONE"
  BY <1>3 DEF BrokerCancel, BrokerOK, BrokerOrder
<1> QED BY <1>1, <1>2, <1>3

LEMMA BrokerTruth ==
  ASSUME TypeInv, TruthInv, UNCHANGED orders, brokerOrders' = CancelledAtBroker
           \/ \E k \in OrderKeys : BrokerFill(k) \/ BrokerCancel(k)
  PROVE  WriteAhead' /\ SettledTruth' /\ NothingSent'
<1>0. BrokerOK /\ WriteAhead /\ SettledTruth /\ NothingSent
  BY DEF TypeInv, TypeOK, TruthInv
<1>1. WriteAhead'
  BY <1>0, BrokerOrdersStay DEF WriteAhead
<1>2. SettledTruth'
  BY <1>0, LiveOnly DEF SettledTruth, Terminal
<1>3. NothingSent'
  <2>1. ASSUME NEW k \in OrderKeys, brokerOrders'[k].st = "NONE"
        PROVE  brokerOrders'[k].filled = 0
    <3>1. CASE brokerOrders[k].st # "LIVE"
      BY <1>0, <2>1, <3>1, LiveOnly DEF NothingSent
    <3>2. CASE brokerOrders[k].st = "LIVE"
      BY <1>0, <2>1, <3>2, LiveStays
    <3> QED BY <3>1, <3>2
  <2> QED BY <2>1 DEF NothingSent
<1> QED BY <1>1, <1>2, <1>3

LEMMA CancelTruth ==
  ASSUME TypeInv, TruthInv, CancelOrder \/ CancelOrderLost
  PROVE  TruthInv'
<1>0. sec \in Section /\ SectionOK /\ BrokerOK
  BY DEF TypeInv, TypeOK, SectionOK
<1>1. UNCHANGED orders
  BY DEF CancelOrder, CancelOrderLost, dbVars
<1>2. CASE CancelOrder
  <2>1. sec'.at = "reread" /\ sec'.key = sec.key
    BY <1>0, <1>2 DEF CancelOrder, Goto, Section
  <2>2. sec.key \in OrderKeys
    BY <1>2 DEF CancelOrder, At, TypeInv, Located, KeyPlaces
  <2>3. brokerOrders'[sec.key].st # "LIVE"
    BY <1>0, <1>2, <2>2 DEF CancelOrder, CancelledAtBroker, BrokerOK, BrokerOrder
  <2>4. WriteAhead' /\ SettledTruth' /\ NothingSent'
    BY <1>1, <1>2, BrokerTruth DEF CancelOrder
  <2> QED BY <2>1, <2>3, <2>4 DEF TruthInv, Posting, Answered
<1>3. CASE CancelOrderLost
  <2>1. Leave \/ Raise
    BY <1>3 DEF CancelOrderLost, NoAnswer
  <2>2. CASE UNCHANGED brokerOrders
    BY <1>1, <2>1, <2>2, QuietTruth, LeaveQuiet
  <2>3. CASE brokerOrders' = CancelledAtBroker
    <3>1. WriteAhead' /\ SettledTruth' /\ NothingSent'
      BY <1>1, <2>3, BrokerTruth
    <3>2. sec'.at = "none"
      BY <2>1 DEF Leave, Raise, NoSection
    <3> QED BY <3>1, <3>2 DEF TruthInv, Posting, Answered
  <2> QED BY <1>3, <2>2, <2>3 DEF CancelOrderLost
<1> QED BY <1>2, <1>3

(* A row becomes terminal on the broker's last word. *)
LEMMA SettleTruth ==
  ASSUME TypeInv, TruthInv, SettleReply
  PROVE  TruthInv'
<1>0. /\ orders \in [OrderKeys -> OrderRow] /\ sec \in Section /\ SectionOK
      /\ WriteAhead /\ SettledTruth /\ NothingSent /\ Answered
  BY DEF TypeInv, TypeOK, TablesOK, SectionOK, TruthInv
<1>1. sec.at = "settleReply" /\ sec.key \in OrderKeys /\ sec.ans # "ABSENT"
  BY DEF SettleReply, At, TypeInv, Located, KeyPlaces, TerminalOrder
<1>2. UNCHANGED brokerOrders
  BY DEF SettleReply, brokerVars
<1>3. PICK id \in BrokerIds :
        /\ orders' = Settle(orders, sec.key, sec.ans, sec.got, id)
        /\ id = "none" => sec.op # "stop"
  BY DEF SettleReply, BrokerIds
<1>4. /\ orders'[sec.key] =
           [orders[sec.key] EXCEPT !.status = sec.ans, !.filled = sec.got, !.brokerId = id]
      /\ \A j \in OrderKeys : j # sec.key => orders'[j] = orders[j]
  BY <1>0, <1>1, <1>3 DEF Settle
<1>5. /\ orders'[sec.key].status = sec.ans /\ orders'[sec.key].filled = sec.got
      /\ orders'[sec.key].brokerId = id
  BY <1>0, <1>1, <1>4 DEF OrderRow
<1>6. WriteAhead'
  <2>1. ASSUME NEW k \in OrderKeys, brokerOrders[k].st # "NONE"
        PROVE  /\ orders'[k].status # "ABSENT"
               /\ orders'[k].ticker = brokerOrders[k].ticker
               /\ orders'[k].intent = brokerOrders[k].intent
               /\ orders'[k].lots = brokerOrders[k].lots
    <3>1. /\ orders[k].status # "ABSENT"
          /\ orders[k].ticker = brokerOrders[k].ticker
          /\ orders[k].intent = brokerOrders[k].intent
          /\ orders[k].lots = brokerOrders[k].lots
      BY <1>0, <2>1 DEF WriteAhead
    <3>2. CASE k # sec.key
      BY <1>4, <3>1, <3>2
    <3>3. CASE k = sec.key
      <4>1. orders[sec.key] \in OrderRow
        BY <1>0, <1>1
      <4>2. /\ orders'[sec.key].ticker = orders[sec.key].ticker
            /\ orders'[sec.key].intent = orders[sec.key].intent
            /\ orders'[sec.key].lots = orders[sec.key].lots
        BY <1>4, <4>1 DEF OrderRow
      <4> QED BY <1>1, <1>5, <3>1, <3>3, <4>2
    <3> QED BY <3>2, <3>3
  <2> QED BY <1>2, <2>1 DEF WriteAhead
<1>7. SettledTruth'
  <2>1. ASSUME NEW k \in OrderKeys, orders'[k].status \in TerminalOrder,
               orders'[k].brokerId = "none"
        PROVE  brokerOrders[k].st # "LIVE" /\ brokerOrders[k].filled = orders'[k].filled
    <3>1. CASE k = sec.key
      BY <1>0, <1>1, <1>3, <1>5, <2>1, <3>1 DEF Answered
    <3>2. CASE k # sec.key
      BY <1>0, <1>4, <2>1, <3>2 DEF SettledTruth, Terminal
    <3> QED BY <3>1, <3>2
  <2> QED BY <1>2, <2>1 DEF SettledTruth, Terminal
<1>8. NothingSent'
  BY <1>0, <1>2 DEF NothingSent
<1>9. sec'.at \notin {"post", "reread", "settleReply"}
  <2>1. \/ Leave \/ Goto("openRow") \/ Goto("closeRow") \/ Goto("lookup")
        \/ \E p \in PositionIds, place \in {"cancelStop", "shrink"} :
             sec' = [sec EXCEPT !.pos = p, !.at = place]
    BY DEF SettleReply, AfterOpen, AfterClose, AfterResolve
  <2>2. CASE Leave
    BY <2>2 DEF Leave, NoSection
  <2>3. ASSUME NEW place \in {"openRow", "closeRow", "lookup"}, Goto(place)
        PROVE  sec'.at = place
    BY <1>0, <2>3 DEF Goto, Section
  <2>4. ASSUME NEW p \in PositionIds, NEW place \in {"cancelStop", "shrink"},
               sec' = [sec EXCEPT !.pos = p, !.at = place]
        PROVE  sec'.at = place
    BY <1>0, <2>4 DEF Section
  <2> QED BY <2>1, <2>2, <2>3, <2>4
<1>10. Posting' /\ Answered'
  BY <1>9 DEF Posting, Answered
<1> QED BY <1>6, <1>7, <1>8, <1>10 DEF TruthInv

LEMMA EnvironmentTruth ==
  ASSUME TypeInv, TruthInv, Environment
  PROVE  TruthInv'
<1>0. BrokerOK /\ Posting /\ Answered
  BY DEF TypeInv, TypeOK, TruthInv
<1>1. UNCHANGED orders /\ UNCHANGED sec
  BY DEF Environment, Halt, Resume, CooldownEnds, Broker, BrokerFill, BrokerCancel,
         StopFires, StopRefused, StopSellsOn, dbVars
<1>2. CASE \E k \in OrderKeys : BrokerFill(k) \/ BrokerCancel(k)
  <2>1. WriteAhead' /\ SettledTruth' /\ NothingSent'
    BY <1>1, <1>2, BrokerTruth
  <2>2. ASSUME sec.at = "post" PROVE brokerOrders'[sec.key].st = "NONE"
    <3>1. sec.key \in OrderKeys /\ brokerOrders[sec.key].st = "NONE"
      BY <1>0, <2>2 DEF TypeInv, Located, KeyPlaces, Posting
    <3> QED BY <1>0, <1>2, <3>1, LiveOnly
  <2>3. Posting'
    BY <1>0, <1>1, <2>2 DEF Posting, RecordedAs
  <2>4. ASSUME sec.at = "reread" \/ (sec.at = "settleReply" /\ sec.op # "stop")
        PROVE  brokerOrders'[sec.key] = brokerOrders[sec.key]
    <3>1. sec.key \in OrderKeys /\ brokerOrders[sec.key].st # "LIVE"
      BY <1>0, <2>4 DEF TypeInv, Located, KeyPlaces, Answered
    <3> QED BY <1>0, <1>2, <3>1, LiveOnly
  <2>5. Answered'
    BY <1>0, <1>1, <2>4 DEF Answered
  <2> QED BY <2>1, <2>3, <2>5 DEF TruthInv
<1>3. CASE UNCHANGED brokerOrders
  BY <1>1, <1>3, QuietTruth DEF Quiet
<1> QED BY <1>2, <1>3 DEF Environment, Halt, Resume, CooldownEnds, Broker,
                          StopFires, StopRefused, StopSellsOn, brokerVars

LEMMA TruthInit == Init => TruthInv
BY DEF Init, TruthInv, WriteAhead, SettledTruth, Posting, NothingSent, Answered, Terminal,
       TerminalOrder, NoOrder, NoBrokerOrder, NoSection

LEMMA TruthStep == TypeInv /\ TruthInv /\ [Next]_vars => TruthInv'
<1> SUFFICES ASSUME TypeInv, TruthInv, [Next]_vars PROVE TruthInv'
  OBVIOUS
<1>1. CASE RecordIntent \/ RecordNoLots \/ RecordExecution
  BY <1>1, RecordTruth
<1>2. CASE Post
  BY <1>2, PostTruth
<1>3. CASE Query \/ Reread
  BY <1>3, AskTruth
<1>4. CASE CancelOrder \/ CancelOrderLost
  BY <1>4, CancelTruth
<1>5. CASE SettleReply
  BY <1>5, SettleTruth
<1>6. CASE Holder /\ ~(RecordIntent \/ RecordNoLots \/ RecordExecution) /\ ~Post
           /\ ~(Query \/ Reread) /\ ~(CancelOrder \/ CancelOrderLost) /\ ~SettleReply
  BY <1>6, QuietHolder, QuietTruth, OrdersStep
<1>7. CASE DbFails \/ Trading \/ Drain \/ UNCHANGED vars
  BY <1>7, QuietOthers, QuietTruth
<1>8. CASE Environment
  BY <1>8, EnvironmentTruth
<1> QED BY <1>1, <1>2, <1>3, <1>4, <1>5, <1>6, <1>7, <1>8 DEF Next, Process

LEMMA TruthInvariant == Spec => []TruthInv
BY TypeInvariant, TruthInit, TruthStep, PTL DEF Spec

(* No order reaches the broker before its row is written, and none of the  *)
(* later writes changes what the row says was sent: _write around          *)
(* record_submitting precedes post_market_order in open_position and       *)
(* close_position.                                                         *)
THEOREM WrittenAhead == Spec => []WriteAhead
<1>1. TruthInv => WriteAhead
  BY DEF TruthInv
<1> QED BY <1>1, TruthInvariant, PTL

(* A settled row says what the broker did: settle is only ever given the   *)
(* state of an order that can no longer change, after the cancel of        *)
(* _resolve_partial_entry where the order was still live.                  *)
THEOREM SettledRowsAreTrue == Spec => []SettledTruth
<1>1. TruthInv => SettledTruth
  BY DEF TruthInv
<1> QED BY <1>1, TruthInvariant, PTL
=============================================================================
