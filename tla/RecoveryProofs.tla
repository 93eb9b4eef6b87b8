--------------------------- MODULE RecoveryProofs ---------------------------
(***************************************************************************)
(* Proofs about Recovery, for every value of its constants: the process    *)
(* may end before any step and start again.  The steps of a process at     *)
(* work are Execution's, and keep what ExecutionProofs shows of them; what *)
(* is proved here is that the end of a process, its start, and every       *)
(* correction of the reconciliation keep it too.                           *)
(***************************************************************************)
EXTENDS Recovery, StopsProofs

AdoptionPlaces == {"adoptRecord", "orphanCancel", "orphanSettle"}

(* A remedy names what it is applied to.                                    *)
Aimed(r) ==
  /\ r.kind # "cancel" => r.pos \in PositionIds
  /\ r.kind # "place" => r.stop \in StopKeys

(* What the start has in hand is there: rows that were written, and stops.  *)
StartInHand ==
  /\ \A p \in start.left : positions[p].status # "ABSENT"
  /\ start.exit # 0 => positions[start.exit].status # "ABSENT"
  /\ \A r \in start.remedies : Aimed(r)
  /\ sec.at = "adoptRecord" => sec.pos \in PositionIds
  /\ sec.at \in AdoptionPlaces => sec.skey \in StopKeys

StartOK ==
  /\ start \in Start
  /\ adopted \in SUBSET StopKeys
  /\ crashes \in 0..MaxCrashes
  /\ sales \in 0..MaxSales

RecoveryInv == TypeInv /\ StartOK /\ StartInHand

-----------------------------------------------------------------------------
LEMMA EmptyStart ==
  /\ NoStart \in Start
  /\ NoStart.left = {} /\ NoStart.exit = 0 /\ NoStart.remedies = {}
BY DEF NoStart, Start

(* A start that is given up has nothing in hand.                            *)
LEMMA GivenUpInHand ==
  ASSUME start' = NoStart, sec'.at \notin AdoptionPlaces PROVE StartInHand'
BY EmptyStart DEF StartInHand, AdoptionPlaces

LEMMA EmptyInHand ==
  ASSUME start' = NoStart, sec' = NoSection PROVE StartInHand'
BY GivenUpInHand DEF NoSection, AdoptionPlaces

(* What was listed or written stays known while rows are only added to.     *)
LEMMA KnownStays ==
  ASSUME TypeInv, UNCHANGED <<orders, brokerOrders>>,
         \A p \in PositionIds :
           /\ positions'[p].status # "ABSENT" => positions'[p].ticker \in Tickers
           /\ positions[p].status # "ABSENT" => positions'[p].status # "ABSENT",
         \A s \in StopKeys : brokerStops'[s].st # "NONE" => brokerStops'[s].ticker \in Tickers,
         \A task \in Tasks : todo'[task] \subseteq todo[task] \cup Unresolved(orders),
         cycle' \in {cycle, NoCycle}
  PROVE  Known'
<1>0. Known /\ orders \in [OrderKeys -> OrderRow] /\ cycle \in Cycle
  BY DEF TypeInv, TypeOK, TablesOK, TasksOK
<1>1. \A task \in Tasks : \A k \in todo'[task] : orders'[k].status # "ABSENT"
  BY <1>0 DEF Known, Unresolved
<1>2. \A r \in cycle'.book : positions'[r.pos].status # "ABSENT"
  BY <1>0 DEF Known, NoCycle, Cycle
<1> QED BY <1>0, <1>1, <1>2 DEF Known

LEMMA SamePositions ==
  ASSUME TypeInv, UNCHANGED positions
  PROVE  \A p \in PositionIds :
           /\ positions'[p].status # "ABSENT" => positions'[p].ticker \in Tickers
           /\ positions[p].status # "ABSENT" => positions'[p].status # "ABSENT"
BY DEF TypeInv, Known

LEMMA SameBrokerStops ==
  ASSUME TypeInv, UNCHANGED brokerStops
  PROVE  \A s \in StopKeys : brokerStops'[s].st # "NONE" => brokerStops'[s].ticker \in Tickers
BY DEF TypeInv, Known

-----------------------------------------------------------------------------
(* A process at work, starting or not: the steps of Execution.             *)

LEMMA WorkSection ==
  ASSUME TypeInv, [Next]_vars PROVE sec' = sec \/ sec'.at \notin AdoptionPlaces
<1> USE DEF AdoptionPlaces
<1>0. sec \in Section
  BY DEF TypeInv, TypeOK, SectionOK
<1>1. CASE sec' = NoSection
  BY <1>1 DEF NoSection
<1>2. CASE Turns
  BY <1>2 DEF Turns, Turnings, Onward
<1>3. CASE Begins
  BY <1>3 DEF Begins
<1>4. CASE Records
  BY <1>4, RecordedRow
<1>5. CASE SettleReply
  BY <1>1, <1>5, SettledSection
<1>6. CASE OpenFromFill
  BY <1>0, <1>1, <1>6 DEF OpenFromFill, Raise, Section
<1> QED BY <1>1, <1>2, <1>3, <1>4, <1>5, <1>6, SectionStep

LEMMA WorkStep ==
  ASSUME RecoveryInv, [Next]_vars, start' \in {start, NoStart}, UNCHANGED recoveryVars
  PROVE  RecoveryInv'
<1>1. TypeInv'
  BY TypeStep DEF RecoveryInv
<1>2. StartOK'
  BY EmptyStart DEF RecoveryInv, StartOK, recoveryVars
<1>3. \A p \in PositionIds : positions[p].status # "ABSENT" => positions'[p].status # "ABSENT"
  BY PositionRowsStay DEF RecoveryInv
<1>4. StartInHand'
  <2>1. start \in Start
    BY DEF RecoveryInv, StartOK
  <2>2. start.left \subseteq PositionIds /\ start.exit \in PositionIds \cup {0}
    BY <2>1 DEF Start
  <2>3. sec' = sec \/ sec'.at \notin AdoptionPlaces
    BY WorkSection DEF RecoveryInv
  <2> QED BY <1>3, <2>2, <2>3, EmptyStart DEF RecoveryInv, StartInHand, AdoptionPlaces
<1> QED BY <1>1, <1>2, <1>4 DEF RecoveryInv

LEMMA WorkingStep ==
  ASSUME RecoveryInv, Operation \/ Working \/ Outside PROVE RecoveryInv'
<1>1. /\ Holder \/ DbFails \/ Trading \/ Drain \/ Halt \/ Resume \/ Broker
         \/ \E t \in Tickers : CooldownEnds(t)
      /\ start' \in {start, NoStart} /\ UNCHANGED recoveryVars
  BY DEF Operation, Working, Outside
<1>2. [Next]_vars
  BY <1>1 DEF Next, Process, Environment
<1> QED BY <1>1, <1>2, WorkStep

-----------------------------------------------------------------------------
(* The end of a process, and the next one.                                 *)

LEMMA ProcessEndsStep == ASSUME RecoveryInv, ProcessEnds PROVE RecoveryInv'
<1>0. TypeInv /\ StartOK /\ TypeOK
  BY DEF RecoveryInv, TypeInv
<1>1. /\ lock' = NoOne /\ sec' = NoSection /\ start' = NoStart /\ cycle' = NoCycle
      /\ phase' = [trading |-> "sleep", drain |-> "off", startup |-> "down"]
      /\ todo' = [task \in Tasks |-> {}] /\ polls' = 0 /\ crashes' = crashes + 1
      /\ UNCHANGED <<dbVars, brokerVars, adopted, sales>> /\ crashes < MaxCrashes
  BY DEF ProcessEnds
<1>2. entriesStopped' = FALSE
  BY DEF ProcessEnds
<1>3. TablesOK' /\ BrokerOK'
  BY <1>0, <1>1 DEF TypeOK, TablesOK, BrokerOK, dbVars, brokerVars
<1>4. SectionOK' /\ TasksOK'
  <2>1. phase' \in [Tasks -> Phases]
    BY <1>1 DEF Tasks, Phases
  <2> QED BY <1>1, <2>1, EmptySection DEF SectionOK, TasksOK, NoCycle, Cycle
<1>5. FlagsOK'
  <2>1. halted' \in BOOLEAN
    BY <1>0, <1>1 DEF TypeOK, FlagsOK, dbVars
  <2>2. entriesStopped' \in BOOLEAN
    BY <1>2, Zenon
  <2>3. polls' \in 0..MaxPolls
    BY <1>1, ExecutionAssumption
  <2> QED BY <2>1, <2>2, <2>3, Zenon DEF FlagsOK
<1>6. Located'
  BY <1>1, EmptyLocated
<1>7. Known'
  BY <1>0, <1>1, KnownStays, SamePositions, SameBrokerStops DEF dbVars, brokerVars
<1>8. StartOK'
  BY <1>0, <1>1, EmptyStart, RecoveryAssumption DEF StartOK
<1>9. StartInHand'
  BY <1>1, EmptyInHand
<1> QED BY <1>3, <1>4, <1>5, <1>6, <1>7, <1>8, <1>9 DEF RecoveryInv, TypeInv, TypeOK

(* A step that leaves the tables and the section alone.                     *)
LEMMA AsideStep ==
  ASSUME RecoveryInv, UNCHANGED <<dbVars, brokerOrders, brokerStops, lock, sec, cycle, polls>>,
         held' \in [Tickers -> Nat], phase' \in [Tasks -> Phases],
         entriesStopped' \in BOOLEAN, todo' \in [Tasks -> SUBSET OrderKeys],
         \A task \in Tasks : todo'[task] \subseteq todo[task] \cup Unresolved(orders)
  PROVE  TypeInv'
<1>0. TypeInv /\ TypeOK
  BY DEF RecoveryInv, TypeInv
<1>1. TablesOK' /\ BrokerOK' /\ SectionOK' /\ TasksOK'
  BY <1>0 DEF TypeOK, TablesOK, BrokerOK, SectionOK, TasksOK, dbVars
<1>2. FlagsOK'
  <2>1. halted' \in BOOLEAN /\ polls' \in 0..MaxPolls
    BY <1>0 DEF TypeOK, FlagsOK, dbVars
  <2> QED BY <2>1, Zenon DEF FlagsOK
<1>3. Located'
  BY <1>0 DEF TypeInv, Located
<1>4. Known'
  BY <1>0, KnownStays, SamePositions, SameBrokerStops DEF dbVars
<1> QED BY <1>1, <1>2, <1>3, <1>4 DEF TypeInv, TypeOK

LEMMA SameInHand ==
  ASSUME RecoveryInv, UNCHANGED <<positions, sec>>, start' \in {start, NoStart}
  PROVE  StartInHand' /\ start' \in Start
BY EmptyStart DEF RecoveryInv, StartInHand, StartOK

LEMMA ToPhaseType ==
  ASSUME RecoveryInv, NEW place \in Phases, StartTo(place) PROVE phase' \in [Tasks -> Phases]
BY DEF RecoveryInv, TypeInv, TypeOK, TasksOK, StartTo

LEMMA BootStep == ASSUME RecoveryInv, Boot PROVE RecoveryInv'
<1>0. TypeInv /\ StartOK /\ TypeOK
  BY DEF RecoveryInv, TypeInv
<1>1. /\ todo' = [todo EXCEPT !["startup"] = Unresolved(orders)] /\ StartTo("resolve")
      /\ UNCHANGED <<dbVars, brokerVars, lock, sec, cycle, shutdownVars, start, recoveryVars>>
  BY DEF Boot
<1>2. Unresolved(orders) \subseteq OrderKeys
  BY <1>0 DEF TypeOK, TablesOK, Unresolved
<1>3. todo' \in [Tasks -> SUBSET OrderKeys]
      /\ \A task \in Tasks : todo'[task] \subseteq todo[task] \cup Unresolved(orders)
  BY <1>0, <1>1, <1>2 DEF TypeOK, TasksOK
<1>4. phase' \in [Tasks -> Phases]
  BY <1>1, ToPhaseType DEF Phases
<1>5. entriesStopped' \in BOOLEAN /\ held' \in [Tickers -> Nat] /\ polls' = polls
  BY <1>0, <1>1 DEF TypeOK, FlagsOK, BrokerOK, brokerVars, shutdownVars
<1>6. TypeInv'
  BY <1>1, <1>3, <1>4, <1>5, AsideStep DEF brokerVars
<1>7. StartOK' /\ StartInHand'
  BY <1>0, <1>1, SameInHand DEF StartOK, recoveryVars, dbVars
<1> QED BY <1>6, <1>7 DEF RecoveryInv

LEMMA OwnerSellsStep ==
  ASSUME RecoveryInv, NEW t \in Tickers, OwnerSells(t) PROVE RecoveryInv'
<1>0. TypeInv /\ StartOK /\ TypeOK
  BY DEF RecoveryInv, TypeInv
<1>1. /\ held[t] > 0 /\ held' = [held EXCEPT ![t] = @ - 1]
      /\ sales < MaxSales /\ sales' = sales + 1
      /\ UNCHANGED <<dbVars, brokerOrders, brokerStops, lock, sec, taskVars, shutdownVars,
                     start, adopted, crashes>>
  BY DEF OwnerSells
<1>2. held' \in [Tickers -> Nat]
  <2>1. held[t] - 1 \in Nat
    BY <1>0, <1>1 DEF TypeOK, BrokerOK
  <2> QED BY <1>0, <1>1, <2>1 DEF TypeOK, BrokerOK
<1>3. TypeInv'
  BY <1>0, <1>1, <1>2, AsideStep DEF TypeOK, TasksOK, FlagsOK, taskVars, shutdownVars
<1>4. StartOK' /\ StartInHand'
  BY <1>0, <1>1, SameInHand, RecoveryAssumption DEF StartOK, dbVars
<1> QED BY <1>3, <1>4 DEF RecoveryInv

LEMMA ResolvingStep == ASSUME RecoveryInv, Resolving PROVE RecoveryInv'
<1>0. TypeInv /\ StartOK /\ TypeOK /\ "startup" \in Tasks
  BY DEF RecoveryInv, TypeInv, Tasks
<1>1. /\ BeginResolve("startup") /\ UNCHANGED <<dbVars, brokerVars, shutdownVars, cycle>>
      /\ UNCHANGED <<start, recoveryVars>>
  BY DEF Resolving, BeginResolve
<1>2. ControlOK' /\ Located'
  BY <1>0, <1>1, ResolveControl, ResolveLocated
<1>3. TablesOK' /\ BrokerOK' /\ FlagsOK'
  BY <1>0, <1>1 DEF TypeOK, TablesOK, BrokerOK, FlagsOK, dbVars, brokerVars, shutdownVars
<1>4. \A task \in Tasks : todo'[task] \subseteq todo[task]
  BY <1>0, <1>1 DEF BeginResolve, TypeOK, TasksOK
<1>5. Known'
  BY <1>0, <1>1, <1>4, KnownStays, SamePositions, SameBrokerStops DEF dbVars, brokerVars
<1>6. sec'.at \notin AdoptionPlaces
  BY <1>1 DEF BeginResolve, Enter, NoSection, AdoptionPlaces
<1>7. StartOK' /\ StartInHand'
  BY <1>0, <1>1, <1>6 DEF RecoveryInv, StartOK, StartInHand, AdoptionPlaces, dbVars, recoveryVars
<1> QED BY <1>2, <1>3, <1>5, <1>7 DEF RecoveryInv, TypeInv, TypeOK, ControlOK

-----------------------------------------------------------------------------
(* Reconciliation: each step corrects a row, or takes note of one.         *)

LEMMA CorrectionStep ==
  ASSUME RecoveryInv,
         UNCHANGED <<orders, halted, brokerVars, startVars>>,
         positions' \in [PositionIds -> PositionRow],
         stops' \in [StopKeys -> StopRow], cooldown' \in SUBSET Tickers,
         phase' \in [Tasks -> Phases],
         \A p \in PositionIds :
           /\ positions'[p].status # "ABSENT" => positions'[p].ticker \in Tickers
           /\ positions[p].status # "ABSENT" => positions'[p].status # "ABSENT",
         start' \in Start,
         \A p \in start'.left : positions[p].status # "ABSENT",
         start'.exit # 0 => positions[start'.exit].status # "ABSENT",
         \A r \in start'.remedies : Aimed(r)
  PROVE  RecoveryInv'
<1>0. TypeInv /\ StartOK /\ TypeOK
  BY DEF RecoveryInv, TypeInv
<1>1. TablesOK' /\ BrokerOK' /\ SectionOK' /\ TasksOK'
  BY <1>0 DEF TypeOK, TablesOK, BrokerOK, SectionOK, TasksOK, brokerVars, startVars
<1>2. FlagsOK'
  <2>1. entriesStopped' = entriesStopped /\ halted' = halted /\ polls' = polls
    BY DEF startVars, shutdownVars
  <2>2. halted' \in BOOLEAN /\ polls' \in 0..MaxPolls
    BY <1>0, <2>1 DEF TypeOK, FlagsOK
  <2>3. entriesStopped' \in BOOLEAN
    BY <1>0, <2>1, Zenon DEF TypeOK, FlagsOK
  <2> QED BY <2>2, <2>3, Zenon DEF FlagsOK
<1>3. Located'
  BY <1>0 DEF TypeInv, Located, startVars
<1>4. Known'
  BY <1>0, KnownStays, SameBrokerStops DEF brokerVars, startVars
<1>5. StartOK'
  BY <1>0 DEF StartOK, startVars, recoveryVars
<1>6. StartInHand'
  <2>1. start'.left \subseteq PositionIds /\ start'.exit \in PositionIds \cup {0}
    BY DEF Start
  <2>2. \A p \in start'.left : positions'[p].status # "ABSENT"
    BY <2>1
  <2>3. start'.exit # 0 => positions'[start'.exit].status # "ABSENT"
    BY <2>1
  <2> QED BY <2>2, <2>3 DEF RecoveryInv, StartInHand, startVars
<1> QED BY <1>1, <1>2, <1>3, <1>4, <1>5, <1>6 DEF RecoveryInv, TypeInv, TypeOK

LEMMA StartFields ==
  ASSUME RecoveryInv
  PROVE  /\ start \in Start /\ start.port \in [Tickers -> Nat]
         /\ start.left \in SUBSET PositionIds
         /\ start.exit \in PositionIds \cup {0} /\ start.exitStop \in PositionIds \cup {0}
         /\ start.unknown \in SUBSET Tickers /\ start.foreign \in SUBSET Tickers
         /\ start.remedies \in SUBSET Remedy
         /\ \A p \in start.left : positions[p].status # "ABSENT"
         /\ start.exit # 0 => positions[start.exit].status # "ABSENT"
         /\ \A r \in start.remedies : Aimed(r)
BY DEF RecoveryInv, StartOK, Start, StartInHand

LEMMA TablesNow ==
  ASSUME RecoveryInv
  PROVE  /\ positions \in [PositionIds -> PositionRow] /\ stops \in [StopKeys -> StopRow]
         /\ cooldown \in SUBSET Tickers /\ phase \in [Tasks -> Phases]
         /\ orders \in [OrderKeys -> OrderRow] /\ brokerStops \in [StopKeys -> BrokerStop]
         /\ held \in [Tickers -> Nat]
         /\ \A p \in PositionIds :
              positions[p].status # "ABSENT" => positions[p].ticker \in Tickers
         /\ \A s \in StopKeys :
              brokerStops[s].st # "NONE" => brokerStops[s].ticker \in Tickers
BY DEF RecoveryInv, TypeInv, TypeOK, TablesOK, BrokerOK, TasksOK, Known

LEMMA ReadPortfolioStep == ASSUME RecoveryInv, ReadPortfolio PROVE RecoveryInv'
<1> DEFINE listed == {p \in PositionIds : positions[p].status = "OPEN"}
           strange == {t \in HeldTickers : OpenOn(positions, t) = {}}
<1>1. /\ start' = [NoStart EXCEPT !.port = held, !.left = listed, !.unknown = strange]
      /\ StartTo("reconcile") /\ UNCHANGED <<dbVars, brokerVars, startVars>>
  BY DEF ReadPortfolio
<1>2. strange \in SUBSET Tickers /\ listed \in SUBSET PositionIds
  BY DEF HeldTickers
<1>3. \A p \in listed : positions[p].status # "ABSENT"
  OBVIOUS
<1> HIDE DEF strange, listed
<1>4. start' \in Start /\ start'.left = listed /\ start'.exit = 0 /\ start'.remedies = {}
  BY <1>1, <1>2, EmptyStart, TablesNow DEF Start, NoStart
<1>5. phase' \in [Tasks -> Phases]
  BY <1>1, ToPhaseType DEF Phases
<1> QED BY <1>1, <1>3, <1>4, <1>5, TablesNow, CorrectionStep DEF dbVars

LEMMA MatchesStep ==
  ASSUME RecoveryInv, NEW p \in PositionIds, Matches(p) \/ ExitUnresolved(p)
  PROVE  RecoveryInv'
<1>1. start' = Examined(p) /\ UNCHANGED <<dbVars, brokerVars, phase, startVars>>
  BY DEF Matches, ExitUnresolved
<1>2. /\ start' \in Start /\ start'.left \subseteq start.left
      /\ start'.exit = start.exit /\ start'.remedies = start.remedies
  BY <1>1, StartFields DEF Examined, Start
<1>3. \A q \in start'.left : positions[q].status # "ABSENT"
  BY <1>2, StartFields
<1> QED BY <1>1, <1>2, <1>3, StartFields, TablesNow, CorrectionStep DEF dbVars

LEMMA AdjustLotsStep ==
  ASSUME RecoveryInv, NEW p \in PositionIds, AdjustLots(p) PROVE RecoveryInv'
<1>1. /\ positions' = UpdateLots(positions, p, PortLots(p)) /\ start' = Examined(p)
      /\ UNCHANGED <<orders, stops, halted, cooldown, brokerVars, phase, startVars>>
      /\ p \in start.left
  BY DEF AdjustLots, Compares
<1>2. /\ start' \in Start /\ start'.left \subseteq start.left
      /\ start'.exit = start.exit /\ start'.remedies = start.remedies
  BY <1>1, StartFields DEF Examined, Start
<1>3. \A q \in start'.left : positions[q].status # "ABSENT"
  BY <1>2, StartFields
<1>4. PortLots(p) \in Nat
  <2>1. positions[p].ticker \in Tickers
    BY <1>1, StartFields, TablesNow
  <2> QED BY <2>1, StartFields DEF PortLots
<1>5. positions' \in [PositionIds -> PositionRow]
  BY <1>1, <1>4, TablesNow, LotsTables
<1>6. \A q \in PositionIds : /\ positions'[q].status = positions[q].status
                             /\ positions'[q].ticker = positions[q].ticker
  BY <1>1, TablesNow DEF UpdateLots, PositionRow
<1> QED BY <1>1, <1>2, <1>3, <1>5, <1>6, StartFields, TablesNow, CorrectionStep

LEMMA ExitFoundStep ==
  ASSUME RecoveryInv, NEW p \in PositionIds, ExitFound(p) PROVE RecoveryInv'
<1> DEFINE owed == IF positions[p].protection = "EXCHANGE" THEN p ELSE 0
<1>1. /\ positions' = CloseRow(positions, p, "EXTERNAL", 0)
      /\ start' = [Examined(p) EXCEPT !.exit = p, !.exitStop = owed]
      /\ UNCHANGED <<orders, stops, halted, cooldown, brokerVars, phase, startVars>>
      /\ p \in start.left
  BY DEF ExitFound, Compares
<1>2. owed \in PositionIds \cup {0}
  OBVIOUS
<1> HIDE DEF owed
<1>3. Examined(p) \in Start /\ Examined(p).left \subseteq start.left
      /\ Examined(p).remedies = start.remedies
  BY StartFields DEF Examined, Start
<1>4. /\ start' \in Start /\ start'.left = Examined(p).left
      /\ start'.exit = p /\ start'.remedies = Examined(p).remedies
  BY <1>1, <1>2, <1>3 DEF Start
<1>5. \A q \in start'.left : positions[q].status # "ABSENT"
  BY <1>3, <1>4, StartFields
<1>6. positions[p].status # "ABSENT"
  BY <1>1, StartFields
<1>7. positions' \in [PositionIds -> PositionRow]
  BY <1>1, TablesNow, CloseTables
<1>8. \A q \in PositionIds : /\ positions'[q].ticker = positions[q].ticker
                             /\ positions'[q].status \in {positions[q].status, "CLOSED"}
  BY <1>1, TablesNow DEF CloseRow, PositionRow
<1>9. \A q \in PositionIds :
        /\ positions'[q].status # "ABSENT" => positions'[q].ticker \in Tickers
        /\ positions[q].status # "ABSENT" => positions'[q].status # "ABSENT"
  <2>1. CASE positions[p].ticker \in Tickers
    <3>1. \A q \in PositionIds : q # p => positions'[q] = positions[q]
      BY <1>1, TablesNow DEF CloseRow
    <3> QED BY <1>8, <2>1, <3>1, TablesNow
  <2> QED BY <1>6, <2>1, TablesNow
<1>10. /\ start'.exit # 0 => positions[start'.exit].status # "ABSENT"
       /\ \A r \in start'.remedies : Aimed(r)
  BY <1>3, <1>4, <1>6, StartFields
<1>11. /\ UNCHANGED <<orders, stops, halted, cooldown, brokerVars, phase, startVars>>
       /\ start' \in Start
  BY <1>1, <1>4
<1> QED BY <1>5, <1>7, <1>9, <1>10, <1>11, TablesNow, CorrectionStep

LEMMA ExitCooldownStep == ASSUME RecoveryInv, ExitCooldown PROVE RecoveryInv'
<1>1. /\ start.exit # 0 /\ cooldown' = cooldown \cup {positions[start.exit].ticker}
      /\ start' = [start EXCEPT !.exit = 0]
      /\ UNCHANGED <<orders, positions, stops, halted, brokerVars, phase, startVars>>
  BY DEF ExitCooldown
<1>2. cooldown' \in SUBSET Tickers
  BY <1>1, StartFields, TablesNow
<1>3. /\ start' \in Start /\ start'.left = start.left
      /\ start'.exit = 0 /\ start'.remedies = start.remedies
  BY <1>1, StartFields DEF Start
<1> QED BY <1>1, <1>2, <1>3, StartFields, TablesNow, CorrectionStep

LEMMA ExitStopStep == ASSUME RecoveryInv, ExitStop PROVE RecoveryInv'
<1>1. /\ stops' = [s \in StopKeys |->
                     IF s \in ActiveForPosition(stops, start.exitStop)
                       THEN [stops[s] EXCEPT !.status = "EXECUTED"] ELSE stops[s]]
      /\ start' = [start EXCEPT !.exitStop = 0]
      /\ UNCHANGED <<orders, positions, halted, cooldown, brokerVars, phase, startVars>>
  BY DEF ExitStop
<1>2. stops' \in [StopKeys -> StopRow]
  <2>1. \A s \in StopKeys : [stops[s] EXCEPT !.status = "EXECUTED"] \in StopRow
    BY TablesNow DEF StopRow, StopStatus
  <2> QED BY <1>1, <2>1, TablesNow
<1>3. /\ start' \in Start /\ start'.left = start.left
      /\ start'.exit = start.exit /\ start'.remedies = start.remedies
  BY <1>1, StartFields DEF Start
<1> QED BY <1>1, <1>2, <1>3, StartFields, TablesNow, CorrectionStep

LEMMA AdoptHoldingStep ==
  ASSUME RecoveryInv, NEW t \in Tickers, AdoptHolding(t) PROVE RecoveryInv'
<1>1. PICK k \in OrderKeys : \E p \in PositionIds :
        IsFresh(positions, p) /\ positions' = OpenRow(positions, p, t, start.port[t], k)
  BY DEF AdoptHolding
<1>2. PICK p \in PositionIds :
        IsFresh(positions, p) /\ positions' = OpenRow(positions, p, t, start.port[t], k)
  BY <1>1
<1>3. /\ start' = [start EXCEPT !.unknown = @ \ {t}]
      /\ UNCHANGED <<orders, stops, halted, cooldown, brokerVars, phase, startVars>>
  BY DEF AdoptHolding
<1>4. /\ start' \in Start /\ start'.left = start.left
      /\ start'.exit = start.exit /\ start'.remedies = start.remedies
  BY <1>3, StartFields DEF Start
<1>5. positions' \in [PositionIds -> PositionRow]
  <2>1. start.port[t] \in Nat
    BY StartFields
  <2> QED BY <1>2, <2>1, TablesNow DEF OpenRow, PositionRow, PositionStatus, Protections
<1>6. \A q \in PositionIds : IF q = p THEN positions'[q].ticker = t /\ positions'[q].status = "OPEN"
                                      ELSE positions'[q] = positions[q]
  BY <1>2, TablesNow DEF OpenRow
<1>7. \A q \in PositionIds :
        /\ positions'[q].status # "ABSENT" => positions'[q].ticker \in Tickers
        /\ positions[q].status # "ABSENT" => positions'[q].status # "ABSENT"
  BY <1>6, TablesNow
<1> QED BY <1>3, <1>4, <1>5, <1>7, StartFields, TablesNow, CorrectionStep

LEMMA ReportForeignStep ==
  ASSUME RecoveryInv, NEW t \in Tickers, ReportForeign(t) PROVE RecoveryInv'
<1>1. /\ start' = [start EXCEPT !.unknown = @ \ {t}, !.foreign = @ \cup {t}]
      /\ UNCHANGED <<dbVars, brokerVars, phase, startVars>>
  BY DEF ReportForeign
<1>2. /\ start' \in Start /\ start'.left = start.left
      /\ start'.exit = start.exit /\ start'.remedies = start.remedies
  BY <1>1, StartFields DEF Start
<1> QED BY <1>1, <1>2, StartFields, TablesNow, CorrectionStep DEF dbVars

(* What a finding names is there: an open position, a live stop.            *)
LEMMA FindingsAimed ==
  ASSUME RecoveryInv, NEW unpriced, NEW mispriced
  PROVE  /\ Findings(unpriced, mispriced) \in SUBSET Remedy
         /\ \A r \in Findings(unpriced, mispriced) : Aimed(r)
<1>1. \A s \in StopKeys : \A t : s \in LiveStops(t) => brokerStops[s].ticker \in Tickers
  BY TablesNow DEF LiveStops
<1>2. \A p \in OpenPositions : p \in PositionIds /\ positions[p].ticker \in Tickers
  BY TablesNow DEF OpenPositions
<1>3. \A p \in OpenPositions : Keeps(p) \subseteq StopKeys
  BY DEF Keeps, LiveStops
<1>4. ASSUME NEW r \in Excess PROVE r \in Remedy /\ Aimed(r)
  <2>1. PICK s \in UNION {LiveStops(t) : t \in Tickers} :
          r = [kind |-> "cancel", ticker |-> brokerStops[s].ticker, pos |-> 0, stop |-> s]
    BY <1>4 DEF Excess
  <2>2. s \in StopKeys /\ \E t : s \in LiveStops(t)
    BY <2>1 DEF LiveStops
  <2>3. brokerStops[s].ticker \in Tickers
    BY <1>1, <2>2
  <2> QED BY <2>1, <2>2, <2>3 DEF Remedy, Aimed
<1>5. ASSUME NEW r \in Missing PROVE r \in Remedy /\ Aimed(r)
  <2>1. PICK p \in OpenPositions : r = RemedyOf("place", p, 0)
    BY <1>5 DEF Missing
  <2> QED BY <1>2, <2>1 DEF Remedy, RemedyOf, Aimed
<1>6. ASSUME NEW p \in OpenPositions, NEW s \in Keeps(p),
             NEW r \in Verdict(p, s, unpriced, mispriced)
      PROVE  r \in Remedy /\ Aimed(r)
  <2>1. r \in {RemedyOf("replace", p, s), RemedyOf("adopt", p, s)}
    BY <1>6 DEF Verdict
  <2> QED BY <1>2, <1>3, <2>1 DEF Remedy, RemedyOf, Aimed
<1>7. ASSUME NEW r \in Findings(unpriced, mispriced) PROVE r \in Remedy /\ Aimed(r)
  <2>1. CASE r \in Excess \cup Missing
    BY <1>4, <1>5, <2>1
  <2>2. CASE r \notin Excess \cup Missing
    <3>1. PICK p \in OpenPositions :
            r \in UNION {Verdict(p, s, unpriced, mispriced) : s \in Keeps(p)}
      BY <1>7, <2>2 DEF Findings
    <3> QED BY <1>6, <3>1
  <2> QED BY <2>1, <2>2
<1> QED BY <1>7

LEMMA ReadStopsStep == ASSUME RecoveryInv, ReadStops PROVE RecoveryInv'
<1>1. PICK unpriced \in SUBSET Tickers : \E mispriced \in SUBSET StopKeys :
        start' = [start EXCEPT !.unpriced = unpriced,
                               !.remedies = Findings(unpriced, mispriced)]
  <2>1. {} \in SUBSET Tickers
    OBVIOUS
  <2>2. Kept \subseteq StopKeys
    BY DEF Kept, Keeps, LiveStops
  <2>3. {s \in Kept : \A p \in OpenPositions : stops[s].position # p} \subseteq StopKeys
    BY <2>2
  <2> QED BY <2>1, <2>3 DEF ReadStops
<1>2. PICK mispriced \in SUBSET StopKeys :
        start' = [start EXCEPT !.unpriced = unpriced,
                               !.remedies = Findings(unpriced, mispriced)]
  BY <1>1
<1>3. StartTo("remedy") /\ UNCHANGED <<dbVars, brokerVars, startVars>>
  BY DEF ReadStops
<1>4. /\ start' \in Start /\ start'.left = start.left /\ start'.exit = start.exit
      /\ \A r \in start'.remedies : Aimed(r)
  BY <1>2, StartFields, FindingsAimed DEF Start
<1>5. phase' \in [Tasks -> Phases]
  BY <1>3, ToPhaseType DEF Phases
<1> QED BY <1>3, <1>4, <1>5, StartFields, TablesNow, CorrectionStep DEF dbVars

LEMMA ReconcileStep == ASSUME RecoveryInv, Reconcile PROVE RecoveryInv'
BY ReadPortfolioStep, MatchesStep, AdjustLotsStep, ExitFoundStep, ExitCooldownStep, ExitStopStep,
   AdoptHoldingStep, ReportForeignStep, ReadStopsStep DEF Reconcile

-----------------------------------------------------------------------------
(* Remedies and adoptions: the start enters the section, and moves in it.  *)

SectionAimed ==
  /\ sec.at = "adoptRecord" => sec.pos \in PositionIds
  /\ sec.at \in AdoptionPlaces => sec.skey \in StopKeys

StartLeft ==
  \/ start' = NoStart
  \/ /\ start' \in Start /\ start'.left = start.left /\ start'.exit = start.exit
     /\ start'.remedies \subseteq start.remedies

LEMMA MovedInSection ==
  ASSUME RecoveryInv, UNCHANGED <<orders, positions, cooldown, brokerOrders, held, shutdownVars>>,
         stops' \in [StopKeys -> StopRow], brokerStops' \in [StopKeys -> BrokerStop],
         halted' \in BOOLEAN,
         \A s \in StopKeys : brokerStops'[s].st # "NONE" => brokerStops'[s].ticker \in Tickers,
         ControlOK', Located', SectionAimed',
         \A task \in Tasks : todo'[task] \subseteq todo[task] \cup Unresolved(orders),
         cycle' \in {cycle, NoCycle},
         StartLeft, adopted' \in SUBSET StopKeys, UNCHANGED <<crashes, sales>>
  PROVE  RecoveryInv'
<1>0. TypeInv /\ StartOK /\ TypeOK
  BY DEF RecoveryInv, TypeInv
<1>1. TablesOK' /\ BrokerOK' /\ SectionOK' /\ TasksOK'
  BY <1>0 DEF TypeOK, TablesOK, BrokerOK, ControlOK
<1>2. FlagsOK'
  <2>1. entriesStopped' = entriesStopped /\ polls' = polls
    BY DEF shutdownVars
  <2>2. polls' \in 0..MaxPolls
    BY <1>0, <2>1 DEF TypeOK, FlagsOK
  <2>3. entriesStopped' \in BOOLEAN
    BY <1>0, <2>1, Zenon DEF TypeOK, FlagsOK
  <2> QED BY <2>2, <2>3, Zenon DEF FlagsOK
<1>3. Known'
  BY <1>0, KnownStays, SamePositions
<1>4. StartOK'
  BY <1>0, EmptyStart DEF StartOK, StartLeft
<1>5. StartInHand'
  BY StartFields, EmptyStart DEF StartInHand, SectionAimed, StartLeft
<1> QED BY <1>1, <1>2, <1>3, <1>4, <1>5 DEF RecoveryInv, TypeInv, TypeOK

(* A remedy that is applied enters with what it names in hand.              *)
LEMMA EnteredRemedy ==
  ASSUME RecoveryInv, NEW r \in Remedy, NEW place, NEW op, EnterRemedy(r, place, op),
         place \in {"orphanCancel", "cancelStop", "adoptRecord", "stopRecord"},
         op \in {"orphan", "replace", "adopt", "place"},
         place = "cancelStop" => op = "replace",
         place # "orphanCancel" => r.pos \in PositionIds,
         place # "stopRecord" => r.stop \in StopKeys
  PROVE  sec' \in Section /\ SectionOK' /\ Located' /\ SectionAimed'
<1> DEFINE entered == [NoSection EXCEPT !.at = place, !.op = op, !.ticker = r.ticker]
<1>1. /\ lock' = "startup" /\ "startup" \in Tasks
      /\ sec' = [NoSection EXCEPT !.at = place, !.op = op, !.ticker = r.ticker,
                                  !.pos = r.pos, !.skey = r.stop]
  BY DEF EnterRemedy, Enter, Tasks
<1>2. /\ r.ticker \in Tickers /\ r.pos \in PositionIds \cup {0}
      /\ r.stop \in StopKeys \cup {0}
  BY DEF Remedy
<1>3. entered \in Section
  <2>1. place \in Places /\ op \in Operations
    BY DEF Places, Operations
  <2>2. NoSection \in Section
    BY EmptySection
  <2> QED BY <1>2, <2>1, <2>2 DEF Section
<1>4. entered.at = place /\ entered.op = op /\ entered.ticker = r.ticker
  BY DEF NoSection
<1>5. sec' = [entered EXCEPT !.pos = r.pos, !.skey = r.stop]
  BY <1>1
<1> HIDE DEF entered
<1>6. sec' \in Section
  BY <1>2, <1>3, <1>5 DEF Section
<1>7. sec'.at = place /\ sec'.op = op /\ sec'.ticker = r.ticker
      /\ sec'.pos = r.pos /\ sec'.skey = r.stop
  BY <1>3, <1>4, <1>5 DEF Section
<1>8. Located' /\ SectionAimed'
  BY <1>2, <1>7 DEF Located, SectionAimed, AdoptionPlaces, KeyPlaces, StopPlaces, PositionPlaces
<1> QED BY <1>1, <1>6, <1>8 DEF SectionOK

LEMMA RemedyStep ==
  ASSUME RecoveryInv, NEW r \in start.remedies,
         CancelExcess(r) \/ ReplaceStop(r) \/ AdoptStop(r) \/ PlaceStop(r)
  PROVE  RecoveryInv'
<1>1. /\ start' = [start EXCEPT !.remedies = @ \ {r}]
      /\ UNCHANGED <<dbVars, brokerVars, taskVars, shutdownVars, recoveryVars>>
  BY DEF CancelExcess, ReplaceStop, AdoptStop, PlaceStop, Remedies
<1>2. r \in Remedy /\ Aimed(r)
  BY StartFields
<1>3. StartLeft
  BY <1>1, StartFields DEF StartLeft, Start
<1>0. TypeInv /\ TypeOK /\ Located /\ TasksOK /\ SectionOK
  BY DEF RecoveryInv, TypeInv, TypeOK
<1>4. SectionOK' /\ Located' /\ SectionAimed'
  <2>1. CASE PassOver
    <3>1. UNCHANGED <<lock, sec>>
      BY <2>1 DEF PassOver
    <3> QED BY <1>0, <3>1 DEF SectionOK, Located, SectionAimed, RecoveryInv, StartInHand
  <2>2. CASE r.kind = "cancel" /\ EnterRemedy(r, "orphanCancel", "orphan")
    BY <1>2, <2>2, EnteredRemedy DEF Aimed
  <2>3. CASE r.kind = "replace" /\ EnterRemedy(r, "cancelStop", "replace")
    BY <1>2, <2>3, EnteredRemedy DEF Aimed
  <2>4. CASE r.kind = "adopt" /\ EnterRemedy(r, "adoptRecord", "adopt")
    BY <1>2, <2>4, EnteredRemedy DEF Aimed
  <2>5. CASE r.kind = "place" /\ EnterRemedy(r, "stopRecord", "place")
    BY <1>2, <2>5, EnteredRemedy DEF Aimed
  <2> QED BY <2>1, <2>2, <2>3, <2>4, <2>5
           DEF CancelExcess, ReplaceStop, AdoptStop, PlaceStop
<1>5. ControlOK'
  BY <1>0, <1>1, <1>4 DEF ControlOK, TasksOK, taskVars
<1>6. halted' \in BOOLEAN
  BY <1>0, <1>1 DEF TypeOK, FlagsOK, dbVars
<1>7. UNCHANGED <<stops, brokerStops, todo, cycle, adopted, crashes, sales>>
  BY <1>1 DEF dbVars, brokerVars, taskVars, recoveryVars
<1>8. UNCHANGED <<orders, positions, cooldown, brokerOrders, held, shutdownVars>>
  BY <1>1 DEF dbVars, brokerVars
<1>9. adopted' \in SUBSET StopKeys
  BY <1>7 DEF RecoveryInv, StartOK
<1> QED BY <1>3, <1>4, <1>5, <1>6, <1>7, <1>8, <1>9, TablesNow, MovedInSection

LEMMA OutOfSection ==
  ASSUME RecoveryInv, lock \in Tasks, Leave \/ Raise
  PROVE  /\ ControlOK' /\ Located' /\ SectionAimed'
         /\ \A task \in Tasks : todo'[task] \subseteq todo[task] \cup Unresolved(orders)
         /\ cycle' \in {cycle, NoCycle}
<1>0. ControlOK
  BY DEF RecoveryInv, TypeInv, TypeOK, ControlOK
<1>1. ControlOK'
  BY <1>0, LeaveControl, RaiseControl
<1>2. Located'
  BY LeaveLocated
<1>3. SectionAimed'
  BY DEF Leave, Raise, NoSection, SectionAimed, AdoptionPlaces
<1>4. \A task \in Tasks : todo'[task] \subseteq todo[task] \cup Unresolved(orders)
  BY <1>0 DEF Leave, Raise, taskVars, ControlOK, TasksOK
<1>5. cycle' \in {cycle, NoCycle}
  BY DEF Leave, Raise, taskVars
<1> QED BY <1>1, <1>2, <1>3, <1>4, <1>5

LEMMA AdoptRecordStep == ASSUME RecoveryInv, AdoptRecord PROVE RecoveryInv'
<1>0. /\ TypeInv /\ TypeOK /\ ControlOK /\ Located /\ sec \in Section
      /\ sec.at = "adoptRecord" /\ sec.pos \in PositionIds /\ sec.skey \in StopKeys
      /\ sec.ticker \in Tickers
  BY DEF RecoveryInv, TypeInv, TypeOK, ControlOK, SectionOK, AdoptRecord, At, StartInHand,
         AdoptionPlaces, Located
<1>1. PICK s \in StopKeys :
        /\ stops' = RecordPlacing(stops, s, sec.pos, brokerStops[sec.skey].lots)
        /\ brokerStops' = [brokerStops EXCEPT ![s] = brokerStops[sec.skey],
                                              ![sec.skey] = NoBrokerStop]
        /\ adopted' = adopted \cup {s}
        /\ sec' = [sec EXCEPT !.skey = s, !.at = "stopActivate"]
  BY DEF AdoptRecord
<1>2. UNCHANGED <<orders, positions, halted, cooldown, brokerOrders, held, lock,
                  taskVars, shutdownVars, start, crashes, sales>>
  BY DEF AdoptRecord
<1>3. brokerStops[sec.skey] \in BrokerStop /\ NoBrokerStop \in BrokerStop
  BY <1>0, TablesNow DEF NoBrokerStop, BrokerStop, BrokerStopStatus
<1>4. brokerStops' \in [StopKeys -> BrokerStop]
  BY <1>1, <1>3, TablesNow
<1>5. stops' \in [StopKeys -> StopRow]
  BY <1>0, <1>1, <1>3, TablesNow DEF RecordPlacing, StopRow, StopStatus, BrokerStop
<1>6. \A j \in StopKeys : brokerStops'[j].st # "NONE" => brokerStops'[j].ticker \in Tickers
  BY <1>0, <1>1, TablesNow DEF NoBrokerStop
<1>7. sec' \in Section
  BY <1>0, <1>1 DEF Section, Places
<1>8. sec'.at = "stopActivate" /\ sec'.skey = s
      /\ sec'.pos = sec.pos /\ sec'.ticker = sec.ticker
  BY <1>0, <1>1 DEF Section
<1>9. Located' /\ SectionAimed'
  BY <1>0, <1>8 DEF Located, SectionAimed, AdoptionPlaces, KeyPlaces, StopPlaces, PositionPlaces
<1>10. ControlOK'
  BY <1>0, <1>2, <1>7, StepControl
<1>11. halted' \in BOOLEAN
  BY <1>0, <1>2 DEF TypeOK, FlagsOK
<1>12. StartLeft /\ UNCHANGED <<todo, cycle>>
  BY <1>2, StartFields DEF StartLeft, taskVars
<1>13. adopted' \in SUBSET StopKeys
  BY <1>1 DEF RecoveryInv, StartOK
<1> QED BY <1>2, <1>4, <1>5, <1>6, <1>9, <1>10, <1>11, <1>12, <1>13, MovedInSection

LEMMA AdoptRefusedStep == ASSUME RecoveryInv, AdoptRefused PROVE RecoveryInv'
<1>1. /\ lock \in Tasks /\ Raise /\ start' = NoStart
      /\ UNCHANGED <<orders, positions, stops, cooldown, brokerVars, shutdownVars, recoveryVars>>
  BY DEF AdoptRefused, At
<1>2. halted' \in BOOLEAN
  <2>1. halted \in BOOLEAN
    BY DEF RecoveryInv, TypeInv, TypeOK, FlagsOK
  <2>2. halted' = halted \/ halted' = TRUE
    BY DEF AdoptRefused
  <2> QED BY <2>1, <2>2
<1>3. StartLeft
  BY <1>1 DEF StartLeft
<1>4. adopted' \in SUBSET StopKeys
  BY <1>1 DEF RecoveryInv, StartOK, recoveryVars
<1> QED BY <1>1, <1>2, <1>3, <1>4, OutOfSection, TablesNow, MovedInSection
      DEF brokerVars, recoveryVars

LEMMA OrphanCancelStep ==
  ASSUME RecoveryInv, OrphanCancel \/ OrphanCancelLost PROVE RecoveryInv'
<1>0. /\ TypeInv /\ TypeOK /\ ControlOK /\ Located /\ sec \in Section /\ BrokerOK
      /\ sec.at = "orphanCancel" /\ sec.skey \in StopKeys /\ lock \in Tasks
      /\ sec.ticker \in Tickers
  BY DEF RecoveryInv, TypeInv, TypeOK, ControlOK, SectionOK, OrphanCancel, OrphanCancelLost, At,
         StartInHand, AdoptionPlaces, Located
<1>1. /\ brokerStops' \in {brokerStops, StopCancelled(sec.skey)}
      /\ start' \in {start, NoStart}
      /\ UNCHANGED <<dbVars, brokerOrders, held, shutdownVars, recoveryVars>>
  BY DEF OrphanCancel, OrphanCancelLost
<1>2. brokerStops' \in [StopKeys -> BrokerStop]
  BY <1>0, <1>1, TablesNow, StopCancelledType
<1>3. \A s \in StopKeys : brokerStops'[s].st # "NONE" => brokerStops'[s].ticker \in Tickers
  <2>1. \A s \in StopKeys : /\ brokerStops'[s].ticker = brokerStops[s].ticker
                            /\ brokerStops'[s].st # "NONE" => brokerStops[s].st # "NONE"
    BY <1>1, TablesNow DEF StopCancelled, BrokerStop
  <2> QED BY <2>1, TablesNow
<1>4. /\ ControlOK' /\ Located' /\ SectionAimed'
      /\ \A task \in Tasks : todo'[task] \subseteq todo[task] \cup Unresolved(orders)
      /\ cycle' \in {cycle, NoCycle}
  <2>1. CASE Goto("orphanSettle")
    <3>1. sec'.at = "orphanSettle" /\ sec'.skey = sec.skey /\ sec'.ticker = sec.ticker
          /\ sec'.op = sec.op /\ sec'.pos = sec.pos /\ UNCHANGED taskVars
      BY <1>0, <2>1 DEF Goto, Section
    <3>2. ControlOK'
      BY <1>0, <2>1, GotoControl DEF Places
    <3>3. Located' /\ SectionAimed'
      BY <1>0, <3>1 DEF Located, SectionAimed, AdoptionPlaces, KeyPlaces, StopPlaces,
                        PositionPlaces
    <3> QED BY <3>1, <3>2, <3>3 DEF taskVars
  <2> QED BY <1>0, <2>1, OutOfSection DEF OrphanCancel, OrphanCancelLost
<1>5. halted' \in BOOLEAN
  BY <1>0, <1>1 DEF TypeOK, FlagsOK, dbVars
<1>6. StartLeft
  BY <1>1, StartFields DEF StartLeft
<1>7. adopted' \in SUBSET StopKeys
  BY <1>1 DEF RecoveryInv, StartOK, recoveryVars
<1> QED BY <1>1, <1>2, <1>3, <1>4, <1>5, <1>6, <1>7, TablesNow, MovedInSection
      DEF dbVars, recoveryVars

LEMMA OrphanSettleStep ==
  ASSUME RecoveryInv, OrphanSettle \/ OrphanUnsettled PROVE RecoveryInv'
<1>1. /\ lock \in Tasks /\ (Leave \/ Raise)
      /\ stops' \in {stops, SettleStop(stops, sec.skey, "ORPHANED")}
      /\ start' \in {start, NoStart}
      /\ UNCHANGED <<orders, positions, halted, cooldown, brokerVars, shutdownVars, recoveryVars>>
  BY DEF OrphanSettle, OrphanUnsettled, At, dbVars
<1>2. stops' \in [StopKeys -> StopRow]
  <2>1. "ORPHANED" \in StopStatus
    BY DEF StopStatus
  <2>2. SettleStop(stops, sec.skey, "ORPHANED") \in [StopKeys -> StopRow]
    BY <2>1, TablesNow, StopTables
  <2> QED BY <1>1, <2>2, TablesNow
<1>3. halted' \in BOOLEAN
  BY <1>1 DEF RecoveryInv, TypeInv, TypeOK, FlagsOK
<1>4. StartLeft
  BY <1>1, StartFields DEF StartLeft
<1>5. adopted' \in SUBSET StopKeys
  BY <1>1 DEF RecoveryInv, StartOK, recoveryVars
<1> QED BY <1>1, <1>2, <1>3, <1>4, <1>5, OutOfSection, TablesNow, MovedInSection
      DEF brokerVars, recoveryVars

(* The end of a start, for better or worse.                                 *)
LEMMA StartEndsStep == ASSUME RecoveryInv, Finish \/ StartAborts PROVE RecoveryInv'
<1>0. TypeInv /\ StartOK /\ TypeOK
  BY DEF RecoveryInv, TypeInv
<1>1. /\ UNCHANGED <<dbVars, brokerVars, lock, sec, todo, cycle, polls, recoveryVars>>
      /\ StartTo("down") \/ StartTo("done")
      /\ start' \in {start, NoStart}
  BY DEF Finish, StartAborts, StartFails, shutdownVars
<1>2. entriesStopped' \in BOOLEAN
  <2>1. entriesStopped \in BOOLEAN
    BY <1>0 DEF TypeOK, FlagsOK
  <2>2. entriesStopped' = entriesStopped \/ entriesStopped' = FALSE
    BY DEF Finish, StartAborts, shutdownVars
  <2> QED BY <2>1, <2>2
<1>3. phase' \in [Tasks -> Phases]
  BY <1>1, ToPhaseType DEF Phases
<1>4. TypeInv'
  BY <1>0, <1>1, <1>2, <1>3, AsideStep DEF TypeOK, TasksOK, BrokerOK, brokerVars
<1>5. StartOK' /\ StartInHand'
  BY <1>0, <1>1, SameInHand DEF StartOK, recoveryVars, dbVars
<1> QED BY <1>4, <1>5 DEF RecoveryInv

-----------------------------------------------------------------------------
LEMMA RecoveryInvInit == RecoveryInit => RecoveryInv
<1> SUFFICES ASSUME RecoveryInit PROVE RecoveryInv
  OBVIOUS
<1>1. TypeInv
  BY TypeInit DEF RecoveryInit
<1>2. StartOK
  BY EmptyStart, RecoveryAssumption DEF RecoveryInit, StartOK
<1>3. StartInHand
  BY EmptyStart DEF RecoveryInit, StartInHand, Init, NoSection, AdoptionPlaces
<1> QED BY <1>1, <1>2, <1>3 DEF RecoveryInv

LEMMA RecoveryInvStep == ASSUME RecoveryInv, [RecoveryNext]_allVars PROVE RecoveryInv'
<1>1. CASE UNCHANGED allVars
  <2>1. [Next]_vars /\ start' = start /\ UNCHANGED recoveryVars
    BY <1>1 DEF allVars
  <2> QED BY <2>1, WorkStep
<1>2. CASE RecoveryNext
  BY <1>2, WorkingStep, ProcessEndsStep, BootStep, OwnerSellsStep, ResolvingStep, ReconcileStep,
     RemedyStep, AdoptRecordStep, AdoptRefusedStep, OrphanCancelStep, OrphanSettleStep,
     StartEndsStep DEF RecoveryNext, ApplyRemedies, Adoption
<1> QED BY <1>1, <1>2

LEMMA RecoveryInvariant == RecoverySpec => []RecoveryInv
BY RecoveryInvInit, RecoveryInvStep, PTL DEF RecoverySpec

(* The process may end anywhere, and whatever the next one corrects, each  *)
(* variable keeps its type.                                                *)
THEOREM RecoveryTypeCorrect == RecoverySpec => []RecoveryTypeOK
<1> DEFINE LooseOK == loose \in SUBSET StopKeys
<1>1. RecoveryInit => LooseOK
  BY DEF RecoveryInit
<1>2. LooseOK /\ [RecoveryNext]_allVars => LooseOK'
  <2>1. ASSUME LooseOK, RecoveryNext PROVE LooseOK'
    BY <2>1 DEF RecoveryNext, Loosened
  <2> QED BY <2>1 DEF allVars
<1>3. RecoveryInv /\ LooseOK => RecoveryTypeOK
  BY DEF RecoveryInv, StartOK, RecoveryTypeOK, TypeInv
<1> QED BY <1>1, <1>2, <1>3, RecoveryInvariant, PTL DEF RecoverySpec

-----------------------------------------------------------------------------
(* What the start does outside the operations of Execution leaves the      *)
(* orders, here and at the broker, as they are.                            *)

(* A start never moves on to post an order, nor to settle one.               *)
Aside ==
  \/ sec' = sec
  \/ sec'.at \notin Asking \cup {"settleReply"}
  \/ sec'.at = "query" /\ sec'.op = "resolve"

LEMMA RecoveryAside ==
  ASSUME RecoveryInv,
         \/ ProcessEnds \/ Boot \/ Resolving \/ Reconcile \/ ApplyRemedies \/ Adoption
         \/ Finish \/ StartAborts \/ \E t \in Tickers : OwnerSells(t)
  PROVE  Aside /\ UNCHANGED <<orders, brokerOrders>>
<1>0. sec \in Section /\ SectionOK
  BY DEF RecoveryInv, TypeInv, TypeOK, SectionOK
<1> USE DEF dbVars, brokerVars, startVars, Asking
<1>1. UNCHANGED <<orders, brokerOrders>>
  <2>1. CASE Reconcile
    BY <2>1 DEF Reconcile, ReadPortfolio, ReadStops, ExitCooldown, ExitStop, Matches, AdjustLots,
                ExitFound, ExitUnresolved, AdoptHolding, ReportForeign
  <2>2. CASE ApplyRemedies \/ Adoption
    BY <2>2 DEF ApplyRemedies, CancelExcess, ReplaceStop, AdoptStop, PlaceStop, Remedies, Adoption,
                AdoptRecord, AdoptRefused, OrphanCancel, OrphanCancelLost, OrphanSettle,
                OrphanUnsettled
  <2>3. CASE ~Reconcile /\ ~ApplyRemedies /\ ~Adoption
    BY <2>3 DEF ProcessEnds, Boot, Resolving, BeginResolve, Finish, StartAborts, OwnerSells
  <2> QED BY <2>1, <2>2, <2>3
<1>2. CASE Reconcile \/ Boot \/ Finish \/ StartAborts \/ ProcessEnds
           \/ \E t \in Tickers : OwnerSells(t)
  <2>1. sec' = sec \/ sec' = NoSection
    <3>1. CASE Reconcile
      BY <3>1 DEF Reconcile, ReadPortfolio, ReadStops, ExitCooldown, ExitStop, Matches,
                  AdjustLots, ExitFound, ExitUnresolved, AdoptHolding, ReportForeign
    <3>2. CASE ~Reconcile
      BY <1>2, <3>2 DEF ProcessEnds, Boot, Finish, StartAborts, OwnerSells
    <3> QED BY <3>1, <3>2
  <2> QED BY <1>1, <2>1 DEF Aside, NoSection
<1>3. CASE Resolving
  BY <1>1, <1>3 DEF Resolving, BeginResolve, Enter, Aside, NoSection
<1>4. CASE ApplyRemedies
  <2>1. PICK r \in start.remedies :
          CancelExcess(r) \/ ReplaceStop(r) \/ AdoptStop(r) \/ PlaceStop(r)
    BY <1>4 DEF ApplyRemedies
  <2>2. \/ PassOver
        \/ \E op, place : /\ place \in {"orphanCancel", "cancelStop", "adoptRecord", "stopRecord"}
                           /\ EnterRemedy(r, place, op)
    BY <2>1 DEF CancelExcess, ReplaceStop, AdoptStop, PlaceStop
  <2>3. CASE PassOver
    BY <1>1, <2>3 DEF PassOver, Aside
  <2>4. ASSUME NEW op, NEW place \in {"orphanCancel", "cancelStop", "adoptRecord", "stopRecord"},
               EnterRemedy(r, place, op)
        PROVE  Aside
    <3>1. sec'.at = place
      BY <2>4 DEF EnterRemedy, Enter, NoSection
    <3> QED BY <3>1 DEF Aside
  <2> QED BY <1>1, <2>2, <2>3, <2>4 DEF Aside
<1>5. CASE Adoption
  <2>1. CASE AdoptRecord
    BY <1>0, <1>1, <2>1 DEF AdoptRecord, Aside, Section
  <2>2. CASE Leave \/ Raise
    BY <1>1, <2>2, LeaveSilent DEF Silent, Aside
  <2>3. CASE OrphanCancel /\ Goto("orphanSettle")
    <3>1. "orphanSettle" \in Places \ (Asking \cup {"settleReply"})
      BY DEF Places
    <3> QED BY <1>0, <1>1, <2>3, <3>1, GotoSilent DEF Silent, Aside
  <2> QED BY <1>5, <2>1, <2>2, <2>3 DEF Adoption, AdoptRefused, OrphanCancel, OrphanCancelLost,
                                       OrphanSettle, OrphanUnsettled
<1> QED BY <1>2, <1>3, <1>4, <1>5

LEMMA WorkIsNext ==
  ASSUME Operation \/ Working \/ Outside \/ UNCHANGED allVars PROVE [Next]_vars
BY DEF Operation, Working, Outside, Next, Process, Environment, allVars

LEMMA RecoveryStep ==
  ASSUME RecoveryInv, [RecoveryNext]_allVars
  PROVE  [Next]_vars \/ (Aside /\ UNCHANGED <<orders, brokerOrders>>)
<1>1. CASE Operation \/ Working \/ Outside \/ UNCHANGED allVars
  BY <1>1, WorkIsNext
<1>2. CASE ~(Operation \/ Working \/ Outside \/ UNCHANGED allVars)
  BY <1>2, RecoveryAside DEF RecoveryNext
<1> QED BY <1>1, <1>2

LEMMA AsideLedger ==
  ASSUME LedgerInv, RecoveryInv', Aside, UNCHANGED <<orders, brokerOrders>>
  PROVE  LedgerInv'
<1>0. /\ TypeInv /\ TruthInv /\ NeverAsks /\ SaleUnsent
      /\ TypeInv'
  BY DEF LedgerInv, RecoveryInv
<1>1. Quiet
  BY DEF Aside, Quiet, Asking
<1>2. TruthInv'
  BY <1>0, <1>1, QuietTruth
<1>3. NeverAsks'
  BY <1>0 DEF NeverAsks, Aside, Asking
<1>4. SaleUnsent'
  BY <1>0 DEF SaleUnsent, Aside, Asking, Terminal
<1> QED BY <1>0, <1>2, <1>3, <1>4 DEF LedgerInv

LEMMA RecoveryLedgerStep ==
  ASSUME RecoveryInv, LedgerInv, [RecoveryNext]_allVars PROVE LedgerInv'
BY RecoveryInvStep, RecoveryStep, LedgerInvStep, AsideLedger

LEMMA RecoveryLedger == RecoverySpec => []LedgerInv
<1>1. RecoveryInit => LedgerInv
  BY LedgerInvInit DEF RecoveryInit
<1> QED BY <1>1, RecoveryInvariant, RecoveryLedgerStep, PTL DEF RecoverySpec

(* The broker has no order, whenever the process died, whose row was not   *)
(* written before: what a start has to resolve is all there is to resolve. *)
THEOREM WrittenAheadOfCrashes == RecoverySpec => []WriteAhead
BY RecoveryLedger, PTL DEF LedgerInv, TruthInv

(* Through every end of the process, a settled row names the lots that the *)
(* broker filled.                                                          *)
THEOREM SettledThroughCrashes == RecoverySpec => []SettledTruth
BY RecoveryLedger, PTL DEF LedgerInv, TruthInv

(* No start settles again what an earlier process has settled: whatever it *)
(* resolves, corrects or adopts, a settled row stays as it is.             *)
THEOREM SettledStaysThroughCrashes == RecoverySpec => SettledIsFinal
<1>1. RecoveryInv /\ [RecoveryNext]_allVars =>
        [\A k \in OrderKeys : Terminal(k) => orders'[k] = orders[k]]_vars
  BY RecoveryStep, SettledStays DEF RecoveryInv
<1> QED BY <1>1, RecoveryInvariant, PTL DEF RecoverySpec, SettledIsFinal

(* The ledger is kept across processes.  A crash between any two steps, a  *)
(* start that resolves what the last process left, and every correction    *)
(* that follows are steps of the same ledger: an order is written down     *)
(* before it trades, and settled once, on what was traded.                 *)
THEOREM LedgerKeptThroughCrashes == RecoverySpec => ImplementsLedger
<1>1. RecoveryInit => Ledger!LedgerInit
  BY LedgerStarts DEF RecoveryInit
<1>2. ASSUME UNCHANGED <<orders, brokerOrders>>
      PROVE  UNCHANGED Ledger!ledgerVars
  <2>1. Book' = Book /\ Recorded' = Recorded
    BY <1>2, OthersAsBefore DEF Book, Recorded
  <2>2. Traded' = Traded
    BY <1>2 DEF Traded
  <2> QED BY <2>1, <2>2 DEF Ledger!ledgerVars
<1>3. RecoveryInv /\ LedgerInv /\ [RecoveryNext]_allVars
        => [Ledger!LedgerNext]_(Ledger!ledgerVars)
  BY <1>2, RecoveryStep, LedgerStep
<1> QED BY <1>1, <1>3, RecoveryInvariant, RecoveryLedger, PTL
      DEF RecoverySpec, ImplementsLedger, Ledger!LedgerSpec

-----------------------------------------------------------------------------
(* The stops, through every end of the process.                            *)
(*                                                                         *)
(* The argument follows one stop that the bot has had an answer to.  While *)
(* it is placed the section has it in hand; from then on its row is ACTIVE *)
(* for an open position that relies on it, until the broker is told to     *)
(* cancel it.  A process that ends leaves it with a position, marked or    *)
(* not, or closed since; the next one has settled every entry before it    *)
(* compares, so that no position of the ticker is booked behind its back,  *)
(* and what it finds of the stop asks for the remedy that binds the stop   *)
(* or removes it.  All of it ends with a write that is lost, and that one  *)
(* halts trading.                                                          *)

Heard(s) == brokerStops[s].st = "LIVE" /\ s \notin loose

Listed(s) ==
  /\ stops[s].status = "ACTIVE" /\ stops[s].position \in PositionIds
  /\ positions[stops[s].position].status = "OPEN"
  /\ positions[stops[s].position].ticker = brokerStops[s].ticker

Relied(s) == Listed(s) /\ positions[stops[s].position].protection = "EXCHANGE"

(* Posted, and its row to be written, or written once more.                *)
BeingPlaced(s) ==
  /\ sec.skey = s /\ sec.ticker = brokerStops[s].ticker
  /\ \/ sec.at \in {"stopActivate", "stopProtect", "stopFail"}
     \/ sec.at = "stopRecord" /\ stops[s].status \in {"PLACING", "FAILED"}

(* No entry is in doubt any more that could open a position.               *)
Resolved ==
  /\ Unresolved(orders) = {}
  /\ phase["startup"] = "resolve" => todo["startup"] = {} /\ sec = NoSection

LeftBehind(s) == Resolved /\ OpenOn(positions, brokerStops[s].ticker) = {}

Remedied(s) ==
  \/ \E r \in start.remedies :
       \/ r.kind = "cancel" /\ r.stop = s
       \/ /\ Listed(s) /\ r.pos = stops[s].position
          /\ r.kind = "replace" \/ (r.kind = "adopt" /\ r.stop = s)
  \/ sec.at = "orphanCancel" /\ sec.skey = s
  \/ Listed(s) /\ sec.at \in {"cancelStop", "adoptRecord"} /\ sec.pos = stops[s].position

Awaited(s) ==
  /\ phase["startup"] # "done"
  /\ Listed(s) \/ LeftBehind(s)
  /\ phase["startup"] = "remedy" => Remedied(s)

StopsAccounted ==
  \A s \in StopKeys : Heard(s) => BeingPlaced(s) \/ Relied(s) \/ Awaited(s)

(* Which operations come to which place.                                   *)
Course ==
  /\ sec.at \in OrderWork \cup {"openRow", "closeRow"} =>
       sec.op \in {"open", "close", "stop", "resolve"}
  /\ sec.at = "recordIntent" => sec.op # "resolve"
  /\ sec.at \in {"execSettle", "execLocal"} => sec.op = "stop"
  /\ sec.at \in Placing \cup {"lookup", "openRow", "stopRecord", "adoptRecord"} =>
       sec.op \notin {"close", "stop"}

(* What a start does in each of its phases, and has left to do.            *)
Starting ==
  LET at == phase["startup"]
  IN /\ at \in {"down", "resolve", "reconcile", "remedy", "done"}
     /\ at # "remedy" => start.remedies = {}
     /\ at \in {"down", "reconcile"} => sec = NoSection
     /\ at = "remedy" => sec.op \in {"none", "orphan", "replace", "adopt", "place"}
     /\ at = "resolve" => sec.op \in {"none", "resolve"}
     /\ at # "done" => lock \in {"startup", NoOne}
     /\ at = "reconcile" /\ start.exitStop # 0 => positions[start.exitStop].status # "OPEN"

(* Every order is answered for before anything is compared.                *)
Asked == IF sec.op = "resolve" /\ sec.at \in {"query", "settleReply"} THEN {sec.key} ELSE {}

ResolvedFirst ==
  /\ phase["startup"] = "resolve" => Unresolved(orders) \subseteq todo["startup"] \cup Asked
  /\ phase["startup"] \in {"reconcile", "remedy"} => Unresolved(orders) = {}

(* The stop in hand is the stop of the position in hand.                   *)
StopInHand ==
  /\ sec.at \in Placing =>
       /\ stops[sec.skey].position = sec.pos
       /\ stops[sec.skey].status = IF sec.at = "stopProtect" THEN "ACTIVE" ELSE "PLACING"
  /\ sec.at \in Placing \cup {"stopRecord", "adoptRecord"} \/ sec.op = "replace" =>
       /\ sec.pos \in PositionIds
       /\ positions[sec.pos].status = "OPEN" /\ positions[sec.pos].ticker = sec.ticker
  /\ sec.at = "cancelSettle" => stops[sec.skey].position = sec.pos
  /\ sec.at = "adoptRecord" /\ brokerStops[sec.skey].st = "LIVE" =>
       brokerStops[sec.skey].ticker = sec.ticker
  /\ sec.at = "orphanSettle" => brokerStops[sec.skey].st # "LIVE"

RemediesFit ==
  \A r \in start.remedies :
    /\ r.kind # "cancel" =>
         positions[r.pos].status = "OPEN" /\ positions[r.pos].ticker = r.ticker
    /\ r.kind = "adopt" =>
         /\ brokerStops[r.stop].st = "LIVE" => brokerStops[r.stop].ticker = r.ticker
         /\ stops[r.stop].status # "ABSENT"
         /\ sec.at = "stopPost" => r.stop # sec.skey

(* Where an operation lets go of its position's stop, none is left live.   *)
LetGo ==
  \/ sec.at \in {"cancelSettle", "demote", "execSettle", "execLocal", "closeRow", "cooldown"}
  \/ sec.op = "close" /\ sec.at # "cancelStop"
  \/ sec.op = "stop"

NoneLeft(p) == \A s \in StopKeys : Heard(s) /\ stops[s].status = "ACTIVE" =>
                                     stops[s].position # p

TakenAway == LetGo => NoneLeft(sec.pos)

(* The rows, one with another.                                             *)
Entered == \A s \in StopKeys : brokerStops[s].st # "NONE" => stops[s].status # "ABSENT"

OneOpen ==
  \A p, q \in PositionIds :
    /\ positions[p].status = "OPEN" /\ positions[q].status = "OPEN"
    /\ positions[p].ticker = positions[q].ticker
    => p = q

NamesOwn ==
  \A p \in PositionIds :
    positions[p].stopKey # 0 =>
      /\ stops[positions[p].stopKey].status # "ABSENT"
      /\ stops[positions[p].stopKey].position = p

RowsAgree == Alone /\ Entered /\ OneOpen /\ NamesOwn
HandAgrees == Idle /\ Prompt /\ Course /\ StopInHand /\ TakenAway
StartAgrees == Starting /\ ResolvedFirst /\ RemediesFit

Guarded == RowsAgree /\ HandAgrees /\ StartAgrees /\ StopsAccounted

(* The faults that are excluded: an answer that does not come, and an order *)
(* that rests at the exchange.                                              *)
Answering == "slow" \notin Faults /\ "deaf" \notin Faults

Work == Operation \/ Working \/ Outside \/ UNCHANGED allVars

(* What the start has in hand and left to do, as before.                    *)
SameStart == /\ phase'["startup"] = phase["startup"] /\ todo'["startup"] = todo["startup"]
             /\ start' = start
GivenUp == phase'["startup"] = "down" /\ lock' = NoOne /\ sec' = NoSection /\ start' = NoStart

LEMMA OperationAt ==
  ASSUME TypeInv, Operation
  PROVE  lock \in Tasks /\ sec.at # "none" /\ sec.at \notin AdoptionPlaces
<1>1. CASE Holder
  BY <1>1 DEF Holder, RecordIntent, RecordNoLots, RecordExecution, Post, PostFilled,
     PostRefused, PostLost, PostPending, PostPartial, PostCancelled, Query, QueryLost,
     CancelOrder, CancelOrderLost, Reread, RereadLost, SettleReply, SettleTwice, Lookup,
     LookupFails, OpenFromFill, StopRecord, StopRecordRefused, StopPost, StopPostLost,
     StopActivate, StopProtect, StopFail, CancelStop, CancelStopLost, CancelSettle, Demote,
     ExecSettle, ExecLocal, FinishClose, StartCooldown, Shrink, At, AdoptionPlaces
<1>2. CASE DbFails
  BY <1>2 DEF DbFails, WriteFails, StopSettleFails, StopFailUnwritten, CooldownUnwritten,
              At, AdoptionPlaces
<1> QED BY <1>1, <1>2 DEF Operation

LEMMA OperationMoves ==
  ASSUME TypeInv, Operation
  PROVE  \/ UNCHANGED <<lock, taskVars>>
         \/ Leave \/ LeaveOpened \/ Raise
<1>1. CASE Holder
  BY <1>1 DEF Holder, RecordIntent, RecordNoLots, RecordExecution, NewRow, Post, PostFilled,
     PostRefused, PostLost, PostPending, PostPartial, PostCancelled, OutcomeUnknown, NoAnswer,
     Query, QueryLost, CancelOrder, CancelOrderLost, Reread, RereadLost, SettleReply,
     AfterOpen, AfterClose, AfterResolve,
     SettleTwice, Lookup, LookupFails, OpenFromFill, StopRecord, StopRecordRefused,
     StopPost, StopPostLost, StopActivate, StopProtect, StopFail, TryAgain,
     CancelStop, CancelStopLost, CancelSettle, Demote, ExecSettle,
     ExecLocal, FinishClose, StartCooldown, Shrink, Goto, Reply
<1>2. CASE DbFails
  BY <1>2 DEF DbFails, WriteFails, StopSettleFails, StopFailUnwritten, CooldownUnwritten,
              TryAgain
<1> QED BY <1>1, <1>2 DEF Operation

LEMMA OperationStart ==
  ASSUME RecoveryInv, Operation
  PROVE  /\ SameStart \/ GivenUp \/ phase["startup"] = "down"
         /\ lock' \in {lock, NoOne}
<1>0. phase \in [Tasks -> Phases] /\ todo \in [Tasks -> SUBSET OrderKeys] /\ TypeInv
  BY DEF RecoveryInv, TypeInv, TypeOK, TasksOK
<1>1. lock \in Tasks
  BY <1>0, OperationAt
<1>2. start' = IF phase'["startup"] = "down" THEN NoStart ELSE start
  BY DEF Operation
<1>3. CASE UNCHANGED <<lock, phase, todo>>
  BY <1>2, <1>3 DEF SameStart
<1>4. CASE Leave \/ LeaveOpened
  BY <1>2, <1>4 DEF Leave, LeaveOpened, SameStart, taskVars
<1>5. CASE Raise /\ lock = "startup"
  BY <1>0, <1>2, <1>5 DEF Raise, GivenUp, Fallen, Tasks
<1>6. CASE Raise /\ lock # "startup"
  BY <1>0, <1>1, <1>2, <1>6 DEF Raise, SameStart, Tasks
<1> QED BY <1>0, <1>3, <1>4, <1>5, <1>6, OperationMoves DEF taskVars, Raise

LEMMA WorkingAtDone ==
  ASSUME RecoveryInv, Working
  PROVE  SameStart /\ phase["startup"] = "done"
<1>0. phase \in [Tasks -> Phases] /\ todo \in [Tasks -> SUBSET OrderKeys]
  BY DEF RecoveryInv, TypeInv, TypeOK, TasksOK
<1>1. phase["startup"] = "done" /\ start' = start
  BY DEF Working, Ready
<1>2. CASE Trading
  <2>1. ASSUME NEW place, ToPhase(place) PROVE phase'["startup"] = phase["startup"]
    BY <1>0, <2>1 DEF ToPhase
  <2>2. CASE StartCycle
    BY <1>0, <1>1, <2>2 DEF StartCycle, SameStart, Tasks
  <2>3. CASE BeginResolve("trading")
    BY <1>0, <1>1, <2>3 DEF BeginResolve, SameStart, Tasks
  <2>4. CASE ReadBook \/ ToExits \/ ToEntries \/ EndCycle
    BY <1>1, <2>1, <2>4 DEF ReadBook, ToExits, ToEntries, EndCycle, SameStart
  <2>5. CASE UNCHANGED <<phase, todo>>
    BY <1>1, <2>5 DEF SameStart
  <2> QED BY <1>2, <2>2, <2>3, <2>4, <2>5
          DEF Trading, BeginCloseExecuted, BeginClose, BeginOpen, taskVars
<1>3. CASE Drain
  <2>1. CASE BeginResolve("drain")
    BY <1>0, <1>1, <2>1 DEF BeginResolve, SameStart, Tasks
  <2>2. CASE Signal \/ DrainPolled
    BY <1>0, <1>1, <2>2 DEF Signal, DrainPolled, SameStart, Tasks
  <2>3. CASE DrainPoll
    BY <1>0, <1>1, <2>3 DEF DrainPoll, SameStart, Tasks
  <2> QED BY <1>3, <2>1, <2>2, <2>3 DEF Drain
<1>4. CASE Halt \/ Resume
  BY <1>1, <1>4 DEF Halt, Resume, SameStart, taskVars
<1> QED BY <1>1, <1>2, <1>3, <1>4 DEF Working, SameStart

(* While a start is under way, only it is at work.                          *)
LEMMA WorkStart ==
  ASSUME RecoveryInv, Starting, Work
  PROVE  /\ SameStart \/ GivenUp
         /\ phase["startup"] # "done" =>
              /\ lock' \in {lock, NoOne}
              /\ \/ Operation /\ phase["startup"] \notin {"down", "reconcile"}
                 \/ UNCHANGED <<orders, positions, stops, lock, sec>>
<1>1. CASE Operation
  <2>1. phase["startup"] \notin {"down", "reconcile"}
    BY <1>1, OperationAt DEF Starting, NoSection, RecoveryInv
  <2> QED BY <1>1, <2>1, OperationStart
<1>2. CASE Working
  BY <1>2, WorkingAtDone
<1>3. CASE Outside
  BY <1>3 DEF Outside, Broker, BrokerFill, BrokerCancel, StopFires, StopRefused, StopSellsOn,
     CooldownEnds, SameStart, taskVars, dbVars
<1>4. CASE UNCHANGED allVars
  BY <1>4 DEF allVars, vars, SameStart, taskVars, dbVars
<1> QED BY <1>1, <1>2, <1>3, <1>4 DEF Work

(* What a step of a process at work does to one row.                        *)
LEMMA StopRowStep ==
  ASSUME TypeInv, [Next]_vars, NEW s \in StopKeys
  PROVE  \/ stops'[s] = stops[s]
         \/ /\ StopRecord /\ sec.at = "stopRecord" /\ s = sec'.skey /\ sec'.pos = sec.pos
            /\ sec'.at = "stopPost" /\ sec'.ticker = sec.ticker
            /\ stops[s].status = "ABSENT" /\ ActiveForPosition(stops, sec.pos) = {}
            /\ stops'[s].status = "PLACING" /\ stops'[s].position = sec.pos
         \/ /\ StopActivate /\ sec.at = "stopActivate" /\ s = sec.skey
            /\ stops'[s].status = "ACTIVE" /\ stops'[s].position = stops[s].position
         \/ /\ stops[s].status \in StandingStop /\ stops'[s].status \in TerminalStop
            /\ stops'[s].position = stops[s].position
            /\ \/ StopFail /\ sec.at = "stopFail" /\ s = sec.skey /\ stops'[s].status = "FAILED"
               \/ CancelSettle /\ sec.at = "cancelSettle" /\ s = sec.skey
               \/ ExecSettle /\ sec.at = "execSettle" /\ s = positions[sec.pos].stopKey
<1>0. Tables /\ Located
  BY TablesType DEF TypeInv
<1>1. CASE StopRecord
  <2>1. PICK r \in StopKeys :
          /\ CanRecordPlacing(stops, r, sec.pos)
          /\ stops' = RecordPlacing(stops, r, sec.pos, positions[sec.pos].lots)
          /\ sec' = [sec EXCEPT !.skey = r, !.at = "stopPost"]
    BY <1>1 DEF StopRecord
  <2>2. sec'.skey = r /\ sec'.pos = sec.pos /\ sec'.at = "stopPost" /\ sec'.ticker = sec.ticker
    BY <1>0, <2>1 DEF Tables, Section
  <2>3. CASE s = r
    BY <1>0, <1>1, <2>1, <2>2, <2>3 DEF StopRecord, At, RecordPlacing, CanRecordPlacing, Tables
  <2>4. CASE s # r
    BY <1>0, <2>1, <2>4 DEF RecordPlacing, Tables
  <2> QED BY <2>3, <2>4
<1>2. CASE StopActivate
  BY <1>0, <1>2 DEF StopActivate, At, Activate, Tables, StopRow
<1>3. ASSUME NEW r, NEW status \in TerminalStop, stops' = SettleStop(stops, r, status)
      PROVE  \/ stops'[s] = stops[s]
             \/ /\ s = r /\ stops[s].status \in StandingStop /\ stops'[s].status = status
                /\ stops'[s].position = stops[s].position
  BY <1>0, <1>3 DEF SettleStop, CanSettleStop, Tables, StopRow
<1>4. CASE StopFail
  BY <1>3, <1>4 DEF StopFail, At, TerminalStop
<1>5. CASE CancelSettle
  BY <1>3, <1>5 DEF CancelSettle, At, TerminalStop
<1>6. CASE ExecSettle
  BY <1>3, <1>6 DEF ExecSettle, At, TerminalStop
<1> QED BY <1>1, <1>2, <1>4, <1>5, <1>6, StopsStep

LEMMA PositionRowStep ==
  ASSUME TypeInv, Prompt, [Next]_vars, NEW p \in PositionIds
  PROVE  \/ positions'[p] = positions[p]
         \/ /\ OpenFromFill /\ sec.at = "openRow" /\ p = sec'.pos /\ sec'.at = "stopRecord"
            /\ sec'.ticker = sec.ticker
            /\ positions[p].status = "ABSENT" /\ OpenOn(positions, sec.ticker) = {}
            /\ positions'[p].status = "OPEN" /\ positions'[p].ticker = sec.ticker
            /\ positions'[p].stopKey = 0 /\ positions'[p].protection = "LOCAL"
         \/ /\ p = sec.pos /\ positions'[p].ticker = positions[p].ticker
            /\ \/ /\ StopProtect /\ sec.at = "stopProtect"
                  /\ positions'[p].status = positions[p].status
                  /\ positions'[p].protection = "EXCHANGE" /\ positions'[p].stopKey = sec.skey
               \/ /\ Demote \/ ExecLocal
                  /\ sec.at \in {"demote", "execLocal"}
                  /\ positions'[p].status = positions[p].status
                  /\ positions'[p].protection = "LOCAL" /\ positions'[p].stopKey = 0
               \/ /\ FinishClose /\ sec.at = "closeRow"
                  /\ positions[p].status = "OPEN" /\ positions'[p].status = "CLOSED"
                  /\ positions'[p].protection = "LOCAL" /\ positions'[p].stopKey = 0
<1>0. Tables /\ Located
  BY TablesType DEF TypeInv
<1>1. CASE OpenFromFill
  BY <1>0, <1>1, OpenedSection DEF OpenRow, Tables
<1>2. CASE StopProtect
  BY <1>0, <1>2 DEF StopProtect, At, SetStopProtection, Tables, PositionRow
<1>3. CASE Demote \/ ExecLocal
  <2>1. sec.at \in {"demote", "execLocal"} /\ positions' = ToLocal(sec.pos)
    BY <1>3 DEF Demote, ExecLocal, At
  <2>2. CASE positions[sec.pos].protection = "EXCHANGE"
    BY <1>0, <1>3, <2>1, <2>2 DEF ToLocal, SetStopProtection, Tables, PositionRow
  <2> QED BY <2>1, <2>2 DEF ToLocal
<1>4. CASE FinishClose
  <2>1. CASE positions' = CloseRow(positions, sec.pos, sec.trigger, sec.key)
             /\ positions[sec.pos].status = "OPEN"
    BY <1>0, <1>4, <2>1 DEF FinishClose, At, CloseRow, Tables, PositionRow
  <2> QED BY <1>4, <2>1, ClosedSection
<1>5. ~Shrink
  BY DEF Shrink, At, Prompt
<1> QED BY <1>1, <1>2, <1>3, <1>4, <1>5, PositionsStep

LEMMA BrokerRowStep ==
  ASSUME TypeInv, [Next]_vars, NEW s \in StopKeys
  PROVE  \/ brokerStops'[s] = brokerStops[s]
         \/ /\ sec.at = "stopPost" /\ s = sec.skey
            /\ brokerStops'[s].st = "LIVE" /\ brokerStops'[s].ticker = sec.ticker
            /\ sec'.at \in {"stopActivate", "stopFail"} /\ sec'.skey = s
            /\ sec'.ticker = sec.ticker /\ sec'.pos = sec.pos /\ sec'.op = sec.op
            /\ UNCHANGED <<stops, positions>>
         \/ /\ brokerStops[s].st \in {"LIVE", "FIRED"}
            /\ brokerStops'[s].st \notin {"LIVE", "NONE"}
            /\ brokerStops'[s].ticker = brokerStops[s].ticker
<1>0. Tables /\ Located /\ brokerStops \in [StopKeys -> BrokerStop]
  BY TablesType DEF TypeInv, TypeOK, BrokerOK
<1>1. CASE At("stopPost") /\ StopStands /\ (StopPost \/ StopPostLost)
  <2>1. PICK place \in {"stopActivate", "stopFail"} : Goto(place)
    BY <1>1 DEF StopPost, StopPostLost
  <2>2. sec'.at = place /\ sec'.skey = sec.skey /\ sec'.ticker = sec.ticker
        /\ sec'.pos = sec.pos /\ sec'.op = sec.op
    BY <1>0, <2>1 DEF Goto, Tables, Section
  <2>3. UNCHANGED <<stops, positions>> /\ sec.at = "stopPost"
    BY <1>1 DEF StopPost, StopPostLost, dbVars, At
  <2>4. CASE s = sec.skey
    BY <1>0, <1>1, <2>2, <2>3, <2>4 DEF StopStands
  <2>5. CASE s # sec.skey
    BY <1>0, <1>1, <2>5 DEF StopStands
  <2> QED BY <2>4, <2>5
<1>2. ASSUME NEW r, brokerStops' = StopCancelled(r)
      PROVE  \/ brokerStops'[s] = brokerStops[s]
             \/ /\ brokerStops[s].st \in {"LIVE", "FIRED"}
                /\ brokerStops'[s].st \notin {"LIVE", "NONE"}
                /\ brokerStops'[s].ticker = brokerStops[s].ticker
  BY <1>0, <1>2 DEF StopCancelled, BrokerStop
<1>3. ASSUME NEW r \in StopKeys, StopFires(r) \/ StopRefused(r) \/ StopSellsOn(r)
      PROVE  \/ brokerStops'[s] = brokerStops[s]
             \/ /\ brokerStops[s].st \in {"LIVE", "FIRED"}
                /\ brokerStops'[s].st \notin {"LIVE", "NONE"}
                /\ brokerStops'[s].ticker = brokerStops[s].ticker
  <2>1. CASE StopFires(r)
    BY <1>0, <2>1 DEF StopFires, BrokerStop
  <2>2. CASE StopRefused(r)
    BY <1>0, <2>2 DEF StopRefused, BrokerStop
  <2>3. CASE StopSellsOn(r)
    BY <1>0, <2>3 DEF StopSellsOn, BrokerStop
  <2> QED BY <1>3, <2>1, <2>2, <2>3
<1> QED BY <1>1, <1>2, <1>3, BrokerStopsStep

-----------------------------------------------------------------------------
(* The rows go on agreeing.                                                 *)

LEMMA StopRowsStay ==
  ASSUME TypeInv, [Next]_vars, NEW s \in StopKeys, stops[s].status # "ABSENT"
  PROVE  stops'[s].status # "ABSENT" /\ stops'[s].position = stops[s].position
<1>1. "ABSENT" \notin TerminalStop
  BY DEF TerminalStop
<1> QED BY <1>1, StopRowStep

LEMMA AloneWork ==
  ASSUME TypeInv, StopInHand, Alone, [Next]_vars PROVE Alone'
<1>1. ASSUME NEW s \in StopKeys, stops'[s].status \in StandingStop
      PROVE  \/ stops[s].status \in StandingStop /\ stops'[s].position = stops[s].position
             \/ /\ s = sec'.skey /\ stops'[s].position = sec.pos
                /\ ActiveForPosition(stops, sec.pos) = {}
  <2>1. stops'[s].status \notin TerminalStop
    BY <1>1 DEF StandingStop, TerminalStop
  <2>2. sec.at = "stopActivate" => stops[sec.skey].status \in StandingStop
    BY DEF StopInHand, Placing, StandingStop
  <2> QED BY <1>1, <2>1, <2>2, StopRowStep
<1>2. ASSUME NEW p, ActiveForPosition(stops, p) = {}, NEW s \in StopKeys,
             stops[s].status \in StandingStop
      PROVE  stops[s].position # p
  BY <1>2, TablesType DEF ActiveForPosition, Tables
<1> QED BY <1>1, <1>2 DEF Alone

LEMMA EnteredWork ==
  ASSUME TypeInv, StopInHand, Entered, [Next]_vars PROVE Entered'
<1> SUFFICES ASSUME NEW s \in StopKeys, brokerStops'[s].st # "NONE"
             PROVE  stops'[s].status # "ABSENT"
  BY DEF Entered
<1>1. stops[s].status # "ABSENT"
  <2>1. sec.at = "stopPost" => stops[sec.skey].status # "ABSENT"
    BY DEF StopInHand, Placing
  <2> QED BY <2>1, BrokerRowStep DEF Entered
<1> QED BY <1>1, StopRowsStay

LEMMA OneOpenWork ==
  ASSUME TypeInv, Prompt, OneOpen, [Next]_vars PROVE OneOpen'
<1> SUFFICES ASSUME NEW p \in PositionIds, NEW q \in PositionIds,
                    positions'[p].status = "OPEN", positions'[q].status = "OPEN",
                    positions'[p].ticker = positions'[q].ticker
             PROVE  p = q
  BY DEF OneOpen
<1>1. ASSUME NEW r \in PositionIds, positions'[r].status = "OPEN"
      PROVE  \/ positions[r].status = "OPEN" /\ positions'[r].ticker = positions[r].ticker
             \/ /\ r = sec'.pos /\ OpenOn(positions, sec.ticker) = {}
                /\ positions'[r].ticker = sec.ticker
  BY <1>1, PositionRowStep
<1>2. ASSUME NEW r \in PositionIds, OpenOn(positions, sec.ticker) = {},
             positions[r].status = "OPEN"
      PROVE  positions[r].ticker # sec.ticker
  BY <1>2, TablesType DEF OpenOn, Tables
<1> QED BY <1>1, <1>2 DEF OneOpen

LEMMA NamesOwnWork ==
  ASSUME TypeInv, Prompt, StopInHand, NamesOwn, [Next]_vars PROVE NamesOwn'
<1> SUFFICES ASSUME NEW p \in PositionIds, positions'[p].stopKey # 0
             PROVE  /\ stops'[positions'[p].stopKey].status # "ABSENT"
                    /\ stops'[positions'[p].stopKey].position = p
  BY DEF NamesOwn
<1> DEFINE s == positions'[p].stopKey
<1>1. s \in StopKeys
  <2>1. positions'[p] \in PositionRow
    BY TypeStep DEF TypeInv, TypeOK, TablesOK
  <2> QED BY <2>1 DEF PositionRow
<1>2. stops[s].status # "ABSENT" /\ stops[s].position = p
  <2>1. CASE positions'[p].stopKey = positions[p].stopKey
    BY <2>1 DEF NamesOwn
  <2>2. CASE p = sec.pos /\ sec.at = "stopProtect" /\ s = sec.skey
    BY <2>2 DEF StopInHand, Placing
  <2> QED BY <2>1, <2>2, PositionRowStep
<1> QED BY <1>1, <1>2, StopRowsStay

LEMMA RowsWork ==
  ASSUME TypeInv, Prompt, StopInHand, RowsAgree, [Next]_vars PROVE RowsAgree'
BY AloneWork, EnteredWork, OneOpenWork, NamesOwnWork DEF RowsAgree

-----------------------------------------------------------------------------
(* What is in hand goes on agreeing with the rows.                          *)

LEMMA EmptyHand ==
  ASSUME sec' = NoSection, Prompt, UNCHANGED brokerOrders PROVE HandAgrees'
BY DEF HandAgrees, Idle, Prompt, Course, StopInHand, TakenAway, LetGo, NoSection, Placing,
       OrderWork

LEMMA CourseWork ==
  ASSUME TypeInv, Course, [Next]_vars PROVE Course'
<1> USE DEF Course, OrderWork, Placing
<1>1. CASE sec' = sec \/ sec' = NoSection
  BY <1>1 DEF NoSection
<1>2. CASE Turns
  <2>1. PICK turning \in Turnings :
          /\ Onward(turning[1], turning[2])
          /\ turning[2] = "closeRow" => sec.op = "resolve"
          /\ turning = <<"demote", "recordIntent">> => sec.op = "close"
          /\ turning = <<"demote", "stopRecord">> => sec.op = "replace"
    BY <1>2 DEF Turns
  <2>2. PICK from, to : turning = <<from, to>> /\ <<from, to>> \in Turnings
    BY <2>1 DEF Turnings
  <2>3. /\ sec.at = from /\ sec'.at = to /\ sec'.op = sec.op
        /\ to = "closeRow" => sec.op = "resolve"
        /\ from = "demote" /\ to = "recordIntent" => sec.op = "close"
        /\ from = "demote" /\ to = "stopRecord" => sec.op = "replace"
    BY <2>1, <2>2 DEF Onward
  <2> QED BY <2>2, <2>3 DEF Turnings
<1>3. CASE Begins
  BY <1>3 DEF Begins
<1>4. CASE Records
  BY <1>4, RecordedRow
<1>5. CASE SettleReply
  <2>1. sec \in Section
    BY DEF TypeInv, TypeOK, SectionOK
  <2>2. CASE sec' = NoSection
    BY <1>1, <2>2
  <2>3. CASE sec' # NoSection
    <3>1. sec'.op = sec.op
      BY <1>5, <2>1, <2>3, SettledSection DEF Section
    <3> QED BY <1>5, <2>3, <3>1, SettledSection
  <2> QED BY <2>2, <2>3
<1>6. CASE OpenFromFill
  BY <1>1, <1>6, OpenedSection
<1> QED BY <1>1, <1>2, <1>3, <1>4, <1>5, <1>6, SectionStep

LEMMA PromptWork ==
  ASSUME TypeInv, Prompt, "slow" \notin Faults, [Next]_vars PROVE Prompt'
BY PromptSection, PromptBroker DEF Prompt

(* The position in hand stays open until the section closes it.             *)
LEMMA InHandOpen ==
  ASSUME TypeInv, Prompt, [Next]_vars, NEW p \in PositionIds, positions[p].status = "OPEN",
         sec.at # "closeRow" \/ p # sec.pos
  PROVE  positions'[p].status = "OPEN" /\ positions'[p].ticker = positions[p].ticker
BY PositionRowStep

LEMMA PlacingWork ==
  ASSUME TypeInv, Idle, Prompt, Course, StopInHand, NothingLost, [Next]_vars
  PROVE  sec'.at \in Placing =>
           /\ stops'[sec'.skey].position = sec'.pos
           /\ stops'[sec'.skey].status = IF sec'.at = "stopProtect" THEN "ACTIVE" ELSE "PLACING"
<1> SUFFICES ASSUME sec'.at \in Placing
             PROVE  /\ stops'[sec'.skey].position = sec'.pos
                    /\ stops'[sec'.skey].status =
                         IF sec'.at = "stopProtect" THEN "ACTIVE" ELSE "PLACING"
  OBVIOUS
<1>0. Tables /\ Located /\ SectionOK
  BY TablesType DEF TypeInv, TypeOK
<1>1. CASE Still
  BY <1>1 DEF Still, SameRows, StopInHand
<1>2. ~Leaving /\ ~Passing /\ ~Begins /\ ~OpenFromFill /\ ~FinishClose
  <2>1. ~Leaving /\ ~Passing /\ ~Begins
    BY DEF Leaving, Passing, Begins, Placing, NoSection, OrderWork
  <2>2. ~OpenFromFill
    BY OpenedSection DEF Placing, NoSection
  <2> QED BY <2>1, <2>2, WorkEnds, ClosedSection DEF Placing, NoSection
<1>3. CASE StopRecord
  <2>1. PICK r \in StopKeys :
          /\ CanRecordPlacing(stops, r, sec.pos)
          /\ stops' = RecordPlacing(stops, r, sec.pos, positions[sec.pos].lots)
          /\ sec' = [sec EXCEPT !.skey = r, !.at = "stopPost"]
    BY <1>3 DEF StopRecord
  <2>2. sec'.skey = r /\ sec'.pos = sec.pos /\ sec'.at = "stopPost"
    BY <1>0, <2>1 DEF Tables, Section
  <2> QED BY <1>0, <2>1, <2>2 DEF RecordPlacing, Tables
<1>4. CASE StopPost \/ StopPostLost
  <2>1. PICK place \in {"stopActivate", "stopFail"} : Goto(place)
    BY <1>4 DEF StopPost, StopPostLost
  <2>2. sec'.at = place /\ sec'.skey = sec.skey /\ sec'.pos = sec.pos
    BY <1>0, <2>1 DEF Goto, Tables, Section
  <2> QED BY <1>4, <2>2 DEF StopPost, StopPostLost, At, dbVars, StopInHand, Placing
<1>5. CASE StopActivate
  <2>1. sec'.at = "stopProtect" /\ sec'.skey = sec.skey /\ sec'.pos = sec.pos
        /\ sec.skey \in StopKeys /\ sec.at = "stopActivate"
    BY <1>0, <1>5 DEF StopActivate, At, Goto, Tables, Section, Located, StopPlaces
  <2> QED BY <1>0, <1>5, <2>1 DEF StopActivate, Activate, Tables, StopRow, StopInHand, Placing
<1>6. CASE StopFailUnwritten
  BY <1>0, <1>6, TryAgainOnward DEF StopFailUnwritten, At, Onward, NoSection, Placing
<1>7. CASE CancelStop
  <2>1. sec'.at \in {"demote", "cancelSettle"}
    BY <1>0, <1>7 DEF CancelStop, Goto, Tables, Section
  <2> QED BY <2>1 DEF Placing
<1> QED BY <1>1, <1>2, <1>3, <1>4, <1>5, <1>6, <1>7, StopsKind, WorkEnds DEF StopWork

LEMMA OpenInHandWork ==
  ASSUME TypeInv, Idle, Prompt, Course, StopInHand, NothingLost, [Next]_vars
  PROVE  sec'.at \in Placing \cup {"stopRecord", "adoptRecord"} \/ sec'.op = "replace" =>
           /\ sec'.pos \in PositionIds
           /\ positions'[sec'.pos].status = "OPEN" /\ positions'[sec'.pos].ticker = sec'.ticker
<1> SUFFICES ASSUME sec'.at \in Placing \cup {"stopRecord", "adoptRecord"} \/ sec'.op = "replace"
             PROVE  /\ sec'.pos \in PositionIds
                    /\ positions'[sec'.pos].status = "OPEN"
                    /\ positions'[sec'.pos].ticker = sec'.ticker
  OBVIOUS
<1>0. Tables /\ Located /\ SectionOK
  BY TablesType DEF TypeInv, TypeOK
<1> DEFINE Held == sec.at \in Placing \cup {"stopRecord", "adoptRecord"} \/ sec.op = "replace"
<1>1. ASSUME Held, sec'.pos = sec.pos, sec'.ticker = sec.ticker
      PROVE  /\ sec'.pos \in PositionIds
             /\ positions'[sec'.pos].status = "OPEN"
             /\ positions'[sec'.pos].ticker = sec'.ticker
  <2>1. /\ sec.pos \in PositionIds
        /\ positions[sec.pos].status = "OPEN" /\ positions[sec.pos].ticker = sec.ticker
    BY <1>1 DEF StopInHand
  <2>2. sec.at # "closeRow"
    BY <1>1 DEF Course, Placing
  <2> QED BY <1>1, <2>1, <2>2, InHandOpen
<1>2. CASE sec' = sec
  BY <1>1, <1>2
<1>3. sec' # NoSection
  BY DEF NoSection, Placing
<1>4. CASE Turns
  <2>1. /\ sec'.op = sec.op /\ sec'.ticker = sec.ticker /\ sec'.pos = sec.pos
    BY <1>4, TurnsKeep
  <2>2. PICK turning \in Turnings :
          /\ Onward(turning[1], turning[2])
          /\ turning = <<"demote", "stopRecord">> => sec.op = "replace"
    BY <1>4 DEF Turns
  <2>3. PICK from, to : turning = <<from, to>> /\ <<from, to>> \in Turnings
    BY <2>2 DEF Turnings
  <2>4. /\ sec.at = from /\ sec'.at = to
        /\ from = "demote" /\ to = "stopRecord" => sec.op = "replace"
    BY <2>2, <2>3 DEF Onward
  <2>5. Held
    BY <2>1, <2>3, <2>4 DEF Turnings, Placing
  <2> QED BY <1>1, <2>1, <2>5
<1>5. ~Begins
  BY DEF Begins, Placing
<1>6. ~Records
  BY RecordedRow DEF Course, OrderWork, Placing
<1>7. ~SettleReply
  <2>1. ASSUME SettleReply PROVE sec'.op = sec.op /\ sec.at = "settleReply"
    BY <1>0, <1>3, <2>1, SettledSection DEF Section, Tables
  <2>2. ASSUME SettleReply
        PROVE  sec'.at \in {"openRow", "lookup", "closeRow", "cancelStop", "shrink"}
    BY <1>3, <2>2, SettledSection
  <2> QED BY <2>1, <2>2 DEF Course, OrderWork, Placing
<1>8. CASE OpenFromFill
  <2>1. /\ sec'.pos \in PositionIds
        /\ positions' = OpenRow(positions, sec'.pos, sec.ticker, orders[sec.key].filled, sec.key)
        /\ sec'.ticker = sec.ticker
    BY <1>3, <1>8, OpenedSection
  <2> QED BY <1>0, <2>1 DEF OpenRow, Tables
<1> QED BY <1>2, <1>3, <1>4, <1>5, <1>6, <1>7, <1>8, SectionStep

LEMMA StopInHandWork ==
  ASSUME RecoveryInv, Idle, Prompt, Course, StopInHand, NothingLost, [Next]_vars
  PROVE  StopInHand'
<1>0. TypeInv /\ Tables /\ Located /\ SectionOK
  BY TablesType DEF RecoveryInv, TypeInv, TypeOK
<1>1. ASSUME sec'.at = "cancelSettle" PROVE stops'[sec'.skey].position = sec'.pos
  <2>1. CASE Still
    BY <1>1, <2>1 DEF Still, SameRows, StopInHand
  <2>2. ~Leaving /\ ~Passing /\ ~Begins
    BY <1>1 DEF Leaving, Passing, Begins, NoSection, OrderWork
  <2>3. ~OpenFromFill
    BY <1>0, <1>1, OpenedSection DEF NoSection
  <2>4. CASE CancelStop
    <3>1. CASE Goto("demote")
      BY <1>0, <1>1, <3>1 DEF Goto, Tables, Section
    <3>2. CASE ~Goto("demote")
      <4>1. PICK s \in ActiveForPosition(stops, sec.pos) :
              sec' = [sec EXCEPT !.skey = s, !.at = "cancelSettle"]
        BY <2>4, <3>2 DEF CancelStop
      <4>2. stops[s].position = sec.pos /\ UNCHANGED stops
        BY <2>4, <4>1 DEF ActiveForPosition, CancelStop, dbVars
      <4>3. sec'.skey = s /\ sec'.pos = sec.pos
        BY <1>0, <4>1, <4>2 DEF Tables, Section, ActiveForPosition
      <4> QED BY <4>2, <4>3
    <3> QED BY <3>1, <3>2
  <2>5. ~StopRecord /\ ~StopPost /\ ~StopPostLost
    <3>1. ASSUME NEW place \in {"stopActivate", "stopFail"}, Goto(place) PROVE FALSE
      BY <1>0, <1>1, <3>1 DEF Goto, Tables, Section
    <3>2. ~StopRecord
      BY <1>0, <1>1 DEF StopRecord, Tables, Section
    <3> QED BY <3>1, <3>2 DEF StopPost, StopPostLost
  <2>6. ~StopFailUnwritten
    BY <1>0, <1>1, TryAgainOnward DEF StopFailUnwritten, At, Onward, NoSection
  <2> QED BY <1>0, <1>1, <2>1, <2>2, <2>3, <2>4, <2>5, <2>6, StopsKind, WorkEnds DEF StopWork
<1>2. ASSUME sec'.at \in AdoptionPlaces PROVE sec' = sec /\ sec.skey \in StopKeys
  <2>1. sec' = sec
    BY <1>0, <1>2, WorkSection
  <2> QED BY <1>2, <2>1 DEF RecoveryInv, StartInHand
<1>3. ASSUME sec'.at = "adoptRecord", brokerStops'[sec'.skey].st = "LIVE"
      PROVE  brokerStops'[sec'.skey].ticker = sec'.ticker
  <2>1. sec' = sec /\ sec.skey \in StopKeys
    BY <1>2, <1>3 DEF AdoptionPlaces
  <2> QED BY <1>0, <1>3, <2>1, BrokerRowStep DEF StopInHand
<1>4. ASSUME sec'.at = "orphanSettle" PROVE brokerStops'[sec'.skey].st # "LIVE"
  <2>1. sec' = sec /\ sec.skey \in StopKeys
    BY <1>2, <1>4 DEF AdoptionPlaces
  <2> QED BY <1>0, <1>4, <2>1, BrokerRowStep DEF StopInHand
<1> QED BY <1>0, <1>1, <1>3, <1>4, PlacingWork, OpenInHandWork DEF StopInHand

(* No stop comes to a position behind the back of the operation that let    *)
(* its stop go.                                                             *)
LEMMA NoneLeftStays ==
  ASSUME TypeInv, [Next]_vars, loose \subseteq loose', NEW p, NoneLeft(p),
         sec.at \notin {"stopPost", "stopActivate"}
  PROVE  NoneLeft(p)'
<1> SUFFICES ASSUME NEW s \in StopKeys, Heard(s)', stops'[s].status = "ACTIVE"
             PROVE  stops'[s].position # p
  BY DEF NoneLeft
<1>1. Heard(s)
  BY BrokerRowStep DEF Heard
<1>2. stops'[s] = stops[s]
  BY StopRowStep DEF TerminalStop
<1> QED BY <1>1, <1>2 DEF NoneLeft

LEMMA CancelLeavesNone ==
  ASSUME TypeInv, Alone, CancelStop PROVE NoneLeft(sec.pos)'
<1>0. Tables /\ brokerStops \in [StopKeys -> BrokerStop] /\ sec.pos \in PositionIds
  BY TablesType DEF TypeInv, TypeOK, BrokerOK, CancelStop, At, Located, PositionPlaces
<1> SUFFICES ASSUME NEW r \in StopKeys, Heard(r)', stops'[r].status = "ACTIVE",
                    stops'[r].position = sec'.pos
             PROVE  FALSE
  BY DEF NoneLeft
<1>1. stops' = stops
  BY DEF CancelStop, dbVars
<1>2. sec'.pos = sec.pos
  <2>1. CASE Goto("demote")
    BY <1>0, <2>1 DEF Goto, Tables, Section
  <2>2. CASE ~Goto("demote")
    <3>1. PICK s \in ActiveForPosition(stops, sec.pos) :
            sec' = [sec EXCEPT !.skey = s, !.at = "cancelSettle"]
      BY <2>2 DEF CancelStop
    <3> QED BY <1>0, <3>1 DEF Tables, Section
  <2> QED BY <2>1, <2>2
<1>3. r \in ActiveForPosition(stops, sec.pos)
  BY <1>0, <1>1, <1>2 DEF ActiveForPosition, Tables, StandingStop
<1>4. PICK s \in ActiveForPosition(stops, sec.pos) :
        brokerStops' = IF stops[s].status = "ACTIVE" THEN StopCancelled(s) ELSE brokerStops
  BY <1>3 DEF CancelStop
<1>5. s \in StopKeys /\ s = r
  BY <1>0, <1>3, <1>4 DEF ActiveForPosition, Tables, Alone
<1>6. brokerStops' = StopCancelled(r)
  BY <1>1, <1>4, <1>5
<1> QED BY <1>0, <1>6 DEF StopCancelled, BrokerStop, Heard

(* A new operation begins when the start is over.                           *)
LEMMA BeginsAtDone ==
  ASSUME RecoveryInv, Idle, Starting, Work, Begins PROVE phase["startup"] = "done"
<1>1. sec = NoSection /\ sec' # sec
  BY BeginsIdle DEF Begins, NoSection
<1>2. ~Operation
  BY <1>1, OperationAt DEF RecoveryInv, NoSection
<1> QED BY <1>1, <1>2, WorkStart

LEMMA BeginsLetGo ==
  ASSUME RecoveryInv, Idle, Starting, Alone, StopsAccounted, Work, loose \subseteq loose',
         Begins, LetGo'
  PROVE  NoneLeft(sec.pos)'
<1>0. UNCHANGED <<stops, positions, brokerStops>>
  BY DEF Begins, dbVars, brokerVars
<1> SUFFICES ASSUME NEW r \in StopKeys, Heard(r), stops[r].status = "ACTIVE",
                    stops[r].position = sec'.pos
             PROVE  FALSE
  BY <1>0 DEF NoneLeft, Heard
<1>1. CASE sec'.op = "stop"
  <2>1. PICK s \in StopKeys : /\ stops[s].status = "ACTIVE" /\ stops[s].position = sec'.pos
                              /\ brokerStops[s].st = "FIRED"
    BY <1>1 DEF Begins
  <2> QED BY <2>1 DEF Alone, StandingStop, Heard
<1>2. CASE sec'.op # "stop"
  <2>1. positions[sec'.pos].protection # "EXCHANGE"
    BY <1>2 DEF Begins, LetGo
  <2>2. sec = NoSection /\ phase["startup"] = "done"
    BY BeginsIdle, BeginsAtDone
  <2> QED BY <2>1, <2>2 DEF StopsAccounted, BeingPlaced, Relied, Awaited, NoSection
<1> QED BY <1>1, <1>2

LEMMA TakenAwayWork ==
  ASSUME RecoveryInv, Idle, Starting, Course, Alone, TakenAway, StopsAccounted, NothingLost,
         Work, loose \subseteq loose'
  PROVE  TakenAway'
<1> SUFFICES ASSUME LetGo' PROVE NoneLeft(sec.pos)'
  BY DEF TakenAway
<1>0. TypeInv /\ [Next]_vars /\ sec \in Section
  BY WorkIsNext DEF RecoveryInv, TypeInv, TypeOK, SectionOK, Work
<1>1. ASSUME LetGo, sec'.pos = sec.pos PROVE NoneLeft(sec.pos)'
  <2>1. NoneLeft(sec.pos) /\ sec.at \notin {"stopPost", "stopActivate"}
    BY <1>1 DEF TakenAway, LetGo, Course, Placing
  <2> QED BY <1>0, <1>1, <2>1, NoneLeftStays DEF NoneLeft
<1>2. CASE sec' = sec
  BY <1>1, <1>2 DEF LetGo
<1>3. sec' # NoSection
  BY DEF LetGo, NoSection
<1>4. CASE Turns
  <2>1. sec'.op = sec.op /\ sec'.pos = sec.pos
    BY <1>4, TurnsKeep
  <2>2. PICK turning \in Turnings : Onward(turning[1], turning[2])
    BY <1>4 DEF Turns
  <2>3. PICK from, to : turning = <<from, to>> /\ <<from, to>> \in Turnings
    BY <2>2 DEF Turnings
  <2>4. sec.at = from /\ sec'.at = to
    BY <2>2, <2>3 DEF Onward
  <2>5. LetGo \/ (sec.at = "cancelStop" /\ sec'.at \in {"cancelSettle", "demote"})
    BY <2>1, <2>3, <2>4 DEF Turnings, LetGo
  <2>6. CASE sec.at = "cancelStop" /\ sec'.at \in {"cancelSettle", "demote"}
    <3>1. CancelStop
      BY <1>0, <2>6, StopsKind
         DEF Still, Leaving, Passing, NoSection, OrderWork, StopWork, StopRecord, StopPost,
             StopPostLost, StopActivate, StopProtect, StopFail, StopFailUnwritten,
             CancelSettle, Demote, ExecSettle, ExecLocal, OpenFromFill, FinishClose, At
    <3> QED BY <1>0, <3>1, CancelLeavesNone
  <2> QED BY <1>1, <2>1, <2>5, <2>6
<1>5. CASE Begins
  BY <1>5, BeginsLetGo
<1>6. CASE Records
  <2>1. /\ sec.at = "recordIntent" /\ sec'.at \in {"post", "settleReply"}
        /\ sec'.op = sec.op /\ sec'.pos = sec.pos
    BY <1>0, <1>6, RecordedRow
  <2> QED BY <1>1, <2>1 DEF LetGo
<1>7. CASE SettleReply
  <2>1. sec'.op = sec.op
    BY <1>0, <1>3, <1>7, SettledSection DEF Section
  <2>2. sec.op \in {"close", "stop"} => sec'.pos = sec.pos /\ sec.at = "settleReply"
    BY <1>0, <1>3, <1>7, SettledSection DEF Section
  <2>3. sec.op \in {"close", "stop"}
    BY <1>0, <1>3, <1>7, <2>1, SettledSection DEF LetGo
  <2> QED BY <1>1, <2>2, <2>3 DEF LetGo
<1>8. CASE OpenFromFill
  BY <1>0, <1>3, <1>8, OpenedSection DEF LetGo, Course
<1> QED BY <1>0, <1>2, <1>3, <1>4, <1>5, <1>6, <1>7, <1>8, SectionStep

LEMMA HandWork ==
  ASSUME RecoveryInv, HandAgrees, Starting, Alone, StopsAccounted, NothingLost,
         "slow" \notin Faults, Work, loose \subseteq loose'
  PROVE  HandAgrees'
<1>1. TypeInv /\ [Next]_vars
  BY WorkIsNext DEF RecoveryInv, Work
<1> QED BY <1>1, IdleStep, PromptWork, CourseWork, StopInHandWork, TakenAwayWork DEF HandAgrees

-----------------------------------------------------------------------------
(* What a start has read goes on holding while it works.                    *)

LEMMA OperationKeeps ==
  ASSUME TypeInv, [Next]_vars, ~Begins
  PROVE  sec' = sec \/ sec' = NoSection \/ sec'.op = sec.op
<1>0. sec \in Section
  BY DEF TypeInv, TypeOK, SectionOK
<1>1. CASE Turns
  BY <1>1, TurnsKeep
<1>2. CASE Records
  BY <1>2, RecordedRow
<1>3. CASE SettleReply
  BY <1>0, <1>3, SettledSection DEF Section
<1>4. CASE OpenFromFill
  BY <1>4, OpenedSection
<1> QED BY <1>1, <1>2, <1>3, <1>4, SectionStep

LEMMA StartingWork ==
  ASSUME RecoveryInv, Idle, Starting, Work
  PROVE  Starting'
<1>0. TypeInv /\ [Next]_vars
  BY WorkIsNext DEF RecoveryInv, Work
<1>1. CASE GivenUp
  BY <1>1, EmptyStart DEF GivenUp, Starting, NoSection
<1>2. CASE SameStart
  <2>1. CASE phase["startup"] = "done"
    BY <1>2, <2>1 DEF Starting, SameStart
  <2>2. CASE phase["startup"] # "done"
    <3>1. ~Begins
      BY <2>2, BeginsAtDone
    <3>2. /\ lock' \in {lock, NoOne}
          /\ \/ phase["startup"] \notin {"down", "reconcile"}
             \/ UNCHANGED <<positions, sec>>
      BY <2>2, WorkStart
    <3>3. sec' = sec \/ sec' = NoSection \/ sec'.op = sec.op
      BY <1>0, <3>1, OperationKeeps
    <3> QED BY <1>2, <2>2, <3>2, <3>3 DEF Starting, SameStart, NoSection
  <2> QED BY <2>1, <2>2
<1> QED BY <1>1, <1>2, WorkStart

LEMMA ResolvedFirstWork ==
  ASSUME RecoveryInv, Prompt, Course, Starting, ResolvedFirst, NothingLost, Answering, Work
  PROVE  ResolvedFirst'
<1>0. TypeInv /\ [Next]_vars /\ SectionOK /\ Located /\ orders \in [OrderKeys -> OrderRow]
  BY WorkIsNext DEF RecoveryInv, TypeInv, TypeOK, TablesOK, SectionOK, Work
<1>1. CASE GivenUp
  BY <1>1 DEF GivenUp, ResolvedFirst
<1>2. CASE SameStart /\ phase["startup"] \notin {"resolve", "reconcile", "remedy"}
  BY <1>2 DEF SameStart, ResolvedFirst
<1>3. CASE SameStart /\ UNCHANGED <<orders, sec>>
  BY <1>3 DEF SameStart, ResolvedFirst, Asked
<1>4. CASE SameStart /\ Operation /\ phase["startup"] \in {"resolve", "remedy"}
  <2>1. ~RecordIntent /\ ~RecordNoLots /\ ~RecordExecution
    BY <1>4 DEF Starting, Course, OrderWork, RecordIntent, RecordNoLots, RecordExecution, At
  <2>2. CASE phase["startup"] = "remedy"
    <3>1. ~SettleReply
      BY <2>2 DEF Starting, Course, OrderWork, SettleReply, At
    <3>2. UNCHANGED orders
      BY <1>0, <2>1, <3>1, OrdersStep
    <3> QED BY <1>4, <2>2, <3>2 DEF SameStart, ResolvedFirst
  <2>3. CASE phase["startup"] = "resolve"
    <3>1. /\ Unresolved(orders)' \subseteq Unresolved(orders)
          /\ SettleReply => sec.key \notin Unresolved(orders)'
      <4>1. CASE SettleReply
        BY <1>0, <4>1 DEF SettleReply, Settle, Unresolved, At, Located, KeyPlaces, TerminalOrder
      <4>2. CASE ~SettleReply
        BY <1>0, <2>1, <4>2, OrdersStep DEF Unresolved
      <4> QED BY <4>1, <4>2
    <3>2. SUFFICES ASSUME NEW k \in Unresolved(orders)' PROVE k \in todo["startup"] \cup Asked'
      BY <1>4, <2>3 DEF SameStart, ResolvedFirst
    <3>3. k \in Unresolved(orders) /\ (SettleReply => k # sec.key)
      BY <3>1, <3>2
    <3>4. CASE k \in todo["startup"]
      BY <3>4
    <3>5. CASE k \notin todo["startup"]
      <4>1. k = sec.key /\ sec.op = "resolve" /\ sec.at \in {"query", "settleReply"}
        BY <2>3, <3>3, <3>5 DEF ResolvedFirst, Asked
      <4>2. ~SettleTwice
        BY <3>3, <4>1 DEF SettleTwice, CanSettle, Unresolved
      <4>3. Query \/ QueryLost
        BY <1>4, <3>3, <4>1, <4>2
           DEF Operation, Holder, RecordIntent, RecordNoLots, RecordExecution, Post, PostFilled,
               PostRefused, PostLost, PostPending, PostPartial, PostCancelled,
               CancelOrder, CancelOrderLost, Reread, RereadLost, Lookup,
               LookupFails, OpenFromFill, StopRecord, StopRecordRefused, StopPost, StopPostLost,
               StopActivate, StopProtect, StopFail, CancelStop, CancelStopLost, CancelSettle,
               Demote, ExecSettle, ExecLocal, FinishClose, StartCooldown, Shrink,
               DbFails, WriteFails, StopSettleFails, StopFailUnwritten, CooldownUnwritten,
               At, NothingLost
      <4>4. brokerOrders[sec.key].st # "LIVE"
        BY <1>0, <4>1 DEF Prompt, Located, KeyPlaces
      <4>5. PICK a, n : Reply(a, n)
        BY <4>3, <4>4 DEF Query, QueryLost, Answering
      <4> QED BY <1>0, <4>1, <4>5, ReplyOnward DEF Onward, Asked
    <3> QED BY <3>4, <3>5
  <2> QED BY <1>4, <2>2, <2>3
<1> QED BY <1>1, <1>2, <1>3, <1>4, WorkStart

LEMMA PostBegins ==
  ASSUME TypeInv, Idle, NothingLost, [Next]_vars, sec'.at = "stopPost"
  PROVE  sec' = sec \/ (sec'.skey \in StopKeys /\ stops[sec'.skey].status = "ABSENT")
<1>0. sec \in Section /\ stops \in [StopKeys -> StopRow]
  BY DEF TypeInv, TypeOK, TablesOK, SectionOK
<1>1. ~Begins /\ ~Records /\ ~SettleReply /\ ~OpenFromFill /\ sec' # NoSection
  BY RecordedRow, SettledSection, OpenedSection DEF Begins, NoSection
<1>2. CASE Turns
  <2>1. sec.at = "stopRecord"
    BY <1>2 DEF Turns, Turnings, Onward
  <2>2. StopRecord
    BY <2>1, <1>1, StopsKind
       DEF Still, Leaving, Passing, OrderWork, StopWork, StopPost,
           StopPostLost, StopActivate, StopProtect, StopFail, StopFailUnwritten, CancelStop,
           CancelSettle, Demote, ExecSettle, ExecLocal, FinishClose, At
  <2>3. PICK s \in StopKeys :
          IsFresh(stops, s) /\ sec' = [sec EXCEPT !.skey = s, !.at = "stopPost"]
    BY <2>2 DEF StopRecord
  <2> QED BY <1>0, <2>3 DEF Section, IsFresh, Unused
<1> QED BY <1>1, <1>2, SectionStep

LEMMA RemediesFitWork ==
  ASSUME RecoveryInv, Idle, Prompt, Course, Starting, RemediesFit, NothingLost, Work
  PROVE  RemediesFit'
<1>0. TypeInv /\ [Next]_vars
  BY WorkIsNext DEF RecoveryInv, Work
<1>1. CASE GivenUp
  BY <1>1, EmptyStart DEF GivenUp, RemediesFit
<1>2. CASE SameStart
  <2> SUFFICES ASSUME NEW r \in start.remedies
               PROVE  /\ r.kind # "cancel" =>
                           positions'[r.pos].status = "OPEN" /\ positions'[r.pos].ticker = r.ticker
                      /\ r.kind = "adopt" =>
                           /\ brokerStops'[r.stop].st = "LIVE" =>
                                brokerStops'[r.stop].ticker = r.ticker
                           /\ stops'[r.stop].status # "ABSENT"
                           /\ sec'.at = "stopPost" => r.stop # sec'.skey
    BY <1>2 DEF SameStart, RemediesFit
  <2>1. phase["startup"] = "remedy" /\ sec.at # "closeRow"
    BY DEF Starting, Course
  <2>2. Aimed(r)
    BY DEF RecoveryInv, StartInHand
  <2>3. ASSUME r.kind # "cancel"
        PROVE  positions'[r.pos].status = "OPEN" /\ positions'[r.pos].ticker = r.ticker
    BY <1>0, <2>1, <2>2, <2>3, InHandOpen DEF RemediesFit, Aimed
  <2>4. ASSUME r.kind = "adopt"
        PROVE  /\ brokerStops'[r.stop].st = "LIVE" => brokerStops'[r.stop].ticker = r.ticker
               /\ stops'[r.stop].status # "ABSENT"
               /\ sec'.at = "stopPost" => r.stop # sec'.skey
    <3>1. r.stop \in StopKeys /\ stops[r.stop].status # "ABSENT"
      BY <2>2, <2>4 DEF RemediesFit, Aimed
    <3>2. brokerStops'[r.stop].st = "LIVE" => brokerStops'[r.stop].ticker = r.ticker
      BY <1>0, <2>4, <3>1, BrokerRowStep DEF RemediesFit
    <3>3. stops'[r.stop].status # "ABSENT"
      BY <1>0, <3>1, StopRowsStay
    <3>4. sec'.at = "stopPost" => r.stop # sec'.skey
      BY <1>0, <2>4, <3>1, PostBegins DEF RemediesFit
    <3> QED BY <3>2, <3>3, <3>4
  <2> QED BY <2>3, <2>4
<1> QED BY <1>1, <1>2, WorkStart

LEMMA StartWork ==
  ASSUME RecoveryInv, HandAgrees, StartAgrees, NothingLost, Answering, Work
  PROVE  StartAgrees'
BY StartingWork, ResolvedFirstWork, RemediesFitWork DEF HandAgrees, StartAgrees

-----------------------------------------------------------------------------
(* Every live stop stays accounted for while a process is at work.          *)

Loosening == loose' = loose \cup Loosened(stops', brokerStops', sec', start')

(* A stop the bot has heard of keeps its row and its position until they    *)
(* let go of it, and then it is not live any more.                          *)
LEMMA ListedStays ==
  ASSUME TypeInv, [Next]_vars, Prompt, StopInHand, TakenAway, NamesOwn,
         NEW s \in StopKeys, Heard(s), Listed(s), brokerStops'[s] = brokerStops[s]
  PROVE  stops'[s] = stops[s] /\ Listed(s)' /\ (Relied(s) => Relied(s)')
<1>0. stops[s].status = "ACTIVE" /\ positions[stops[s].position].status = "OPEN"
      /\ stops[s].position \in PositionIds
  BY DEF Listed
<1>1. ASSUME LetGo PROVE stops[s].position # sec.pos
  BY <1>0, <1>1 DEF TakenAway, NoneLeft
<1>2. stops'[s] = stops[s]
  <2>1. s = sec.skey => sec.at \notin {"stopActivate", "stopFail"}
    BY <1>0 DEF StopInHand, Placing
  <2>2. s = sec.skey => sec.at # "cancelSettle"
    BY <1>1 DEF StopInHand, LetGo
  <2>3. sec.at = "execSettle" => s # positions[sec.pos].stopKey
    <3>1. s # 0
      BY DEF StopKeys
    <3>2. sec.at = "execSettle" => sec.pos \in PositionIds /\ LetGo
      BY DEF LetGo, TypeInv, Located, PositionPlaces
    <3> QED BY <1>1, <3>1, <3>2 DEF NamesOwn
  <2> QED BY <1>0, <2>1, <2>2, <2>3, StopRowStep
<1>3. stops[s].position = sec.pos => sec.at \notin {"demote", "execLocal", "closeRow"}
  BY <1>1 DEF LetGo
<1> DEFINE p == stops[s].position
<1>4. /\ positions'[p].status = "OPEN" /\ positions'[p].ticker = positions[p].ticker
      /\ positions[p].protection = "EXCHANGE" => positions'[p].protection = "EXCHANGE"
  BY <1>0, <1>3, PositionRowStep
<1> QED BY <1>2, <1>4 DEF Listed, Relied

LEMMA PlacedWork ==
  ASSUME TypeInv, [Next]_vars, Idle, StopInHand, NothingLost, Loosening,
         NEW s \in StopKeys, Heard(s)', BeingPlaced(s), brokerStops'[s] = brokerStops[s]
  PROVE  BeingPlaced(s)' \/ Relied(s)'
<1>0. Tables /\ Located /\ SectionOK /\ s # 0
  BY TablesType DEF TypeInv, TypeOK, StopKeys
<1>1. stops'[s].status \in {"PLACING", "FAILED"} => sec'.skey = s
  BY DEF Heard, Loosening, Loosened
<1>2. sec.at \in {"stopRecord", "stopActivate", "stopProtect", "stopFail"} /\ sec.skey = s
      /\ sec.ticker = brokerStops'[s].ticker
  BY DEF BeingPlaced
<1>3. CASE Still
  BY <1>3 DEF Still, SameRows, BeingPlaced
<1>4. CASE Leaving
  BY <1>0, <1>1, <1>2, <1>4 DEF Leaving, SameRows, Placing, NoSection, BeingPlaced
<1>5. CASE StopRecord
  <2>1. stops'[s] = stops[s] /\ stops[s].status \in {"PLACING", "FAILED"} /\ s # sec'.skey
    <3>1. sec.at = "stopRecord"
      BY <1>5 DEF StopRecord, At
    <3>2. stops[s].status \in {"PLACING", "FAILED"}
      BY <3>1 DEF BeingPlaced
    <3>3. PICK r \in StopKeys :
            /\ CanRecordPlacing(stops, r, sec.pos)
            /\ sec' = [sec EXCEPT !.skey = r, !.at = "stopPost"]
      BY <1>5 DEF StopRecord
    <3>4. sec'.skey = r /\ r # s
      BY <1>0, <3>2, <3>3 DEF Tables, Section, CanRecordPlacing
    <3> QED BY <3>1, <3>2, <3>4, StopRowStep
  <2> QED BY <1>1, <2>1
<1>6. CASE StopActivate
  <2>1. sec'.at = "stopProtect" /\ sec'.skey = sec.skey /\ sec'.ticker = sec.ticker
    BY <1>0, <1>6 DEF StopActivate, Goto, Tables, Section
  <2> QED BY <1>2, <2>1 DEF BeingPlaced
<1>7. CASE StopProtect
  <2>1. sec.at = "stopProtect" /\ UNCHANGED stops /\ sec.pos \in PositionIds
        /\ positions' = SetStopProtection(positions, sec.pos, "EXCHANGE", sec.skey)
    BY <1>0, <1>7 DEF StopProtect, At, Located, PositionPlaces, StopPlaces
  <2>2. /\ stops[s].status = "ACTIVE" /\ stops[s].position = sec.pos
        /\ positions[sec.pos].status = "OPEN" /\ positions[sec.pos].ticker = sec.ticker
    BY <1>2, <2>1 DEF StopInHand, Placing
  <2>3. /\ positions'[sec.pos].status = "OPEN" /\ positions'[sec.pos].ticker = sec.ticker
        /\ positions'[sec.pos].protection = "EXCHANGE"
    BY <1>0, <2>1, <2>2 DEF SetStopProtection, Tables, PositionRow
  <2> QED BY <1>2, <2>1, <2>2, <2>3 DEF Relied, Listed
<1>8. CASE StopFail \/ StopFailUnwritten
  <2>1. sec.at = "stopFail" /\ TryAgain
    BY <1>8 DEF StopFail, StopFailUnwritten, At
  <2>2. stops[s].status = "PLACING"
    BY <1>2, <2>1 DEF StopInHand, Placing
  <2>3. stops'[s].status \in {"PLACING", "FAILED"}
    BY <1>0, <1>2, <1>8, <2>2
       DEF StopFail, StopFailUnwritten, SettleStop, CanSettleStop, StandingStop, Tables, StopRow,
           dbVars
  <2>4. sec' # NoSection
    BY <1>0, <1>1, <2>3 DEF NoSection
  <2>5. Onward("stopFail", "stopRecord")
    BY <1>0, <2>1, <2>4, TryAgainOnward
  <2> QED BY <1>2, <2>3, <2>5 DEF Onward, BeingPlaced
<1>9. ~Passing /\ sec # NoSection
  BY <1>2 DEF Passing, OrderWork, NoSection
<1>10. /\ ~StopPost /\ ~StopPostLost /\ ~CancelStop /\ ~CancelSettle /\ ~Demote
       /\ ~ExecSettle /\ ~ExecLocal /\ ~OpenFromFill /\ ~FinishClose
  BY <1>2 DEF StopPost, StopPostLost, CancelStop, CancelSettle, Demote, ExecSettle, ExecLocal,
              OpenFromFill, FinishClose, At
<1> QED BY <1>3, <1>4, <1>5, <1>6, <1>7, <1>8, <1>9, <1>10, StopsKind DEF StopWork

(* A remedy is applied to rows that no order moves.                         *)
LEMMA RemedyMoves ==
  ASSUME TypeInv, [Next]_vars, Prompt, Course,
         sec.op \in {"none", "orphan", "replace", "adopt", "place"}
  PROVE  /\ UNCHANGED orders
         /\ \A p \in PositionIds :
              positions'[p].status = "OPEN" =>
                positions[p].status = "OPEN" /\ positions'[p].ticker = positions[p].ticker
<1>1. sec.at \notin OrderWork \cup {"openRow", "closeRow"}
  BY DEF Course
<1>2. UNCHANGED orders
  BY <1>1, OrdersStep
     DEF OrderWork, RecordIntent, RecordNoLots, RecordExecution, SettleReply, At
<1> QED BY <1>1, <1>2, PositionRowStep

LEMMA LeftBehindStays ==
  ASSUME RecoveryInv, Prompt, Course, Starting, Work, NEW s \in StopKeys,
         phase["startup"] # "done", LeftBehind(s), brokerStops'[s] = brokerStops[s]
  PROVE  LeftBehind(s)'
<1>0. TypeInv /\ [Next]_vars /\ Tables
  BY WorkIsNext, TablesType DEF RecoveryInv, Work
<1>1. SameStart \/ GivenUp
  BY WorkStart
<1>2. CASE UNCHANGED <<orders, positions, stops, lock, sec>>
  BY <1>1, <1>2 DEF LeftBehind, Resolved, SameStart, GivenUp
<1>3. CASE Operation /\ phase["startup"] \notin {"down", "reconcile"}
  <2>1. phase["startup"] # "resolve"
    BY <1>0, <1>3, OperationAt DEF LeftBehind, Resolved, NoSection
  <2>2. phase'["startup"] # "resolve"
    BY <1>1, <2>1 DEF SameStart, GivenUp
  <2>3. phase["startup"] = "remedy"
    BY <1>3, <2>1 DEF Starting
  <2>4. /\ UNCHANGED orders
        /\ \A p \in PositionIds :
              positions'[p].status = "OPEN" =>
                positions[p].status = "OPEN" /\ positions'[p].ticker = positions[p].ticker
    BY <1>0, <2>3, RemedyMoves DEF Starting
  <2>5. DOMAIN positions' = PositionIds /\ DOMAIN positions = PositionIds
    <3>1. TypeInv'
      BY <1>0, TypeStep
    <3> QED BY <1>0, <3>1 DEF TypeInv, TypeOK, TablesOK
  <2> QED BY <2>2, <2>4, <2>5 DEF LeftBehind, Resolved, OpenOn
<1> QED BY <1>2, <1>3, WorkStart

LEMMA RemediedStays ==
  ASSUME RecoveryInv, RowsAgree, HandAgrees, Starting, NothingLost, Answering, Work,
         loose \subseteq loose', NEW s \in StopKeys, Heard(s), Heard(s)', Remedied(s),
         SameStart, phase["startup"] # "done", brokerStops'[s] = brokerStops[s],
         Listed(s) => Listed(s)' /\ stops'[s] = stops[s]
  PROVE  Remedied(s)'
<1>1. CASE UNCHANGED sec
  BY <1>1 DEF Remedied, SameStart
<1>2. CASE \E r \in start.remedies :
             \/ r.kind = "cancel" /\ r.stop = s
             \/ /\ Listed(s) /\ r.pos = stops[s].position
                /\ r.kind = "replace" \/ (r.kind = "adopt" /\ r.stop = s)
  BY <1>2 DEF Remedied, SameStart
<1>3. CASE Operation /\ Listed(s) /\ sec.at = "cancelStop" /\ sec.pos = stops[s].position
  <2>1. CancelStop
    BY <1>3 DEF Operation, Holder, RecordIntent, RecordNoLots, RecordExecution, Post, PostFilled,
               PostRefused, PostLost, PostPending, PostPartial, PostCancelled, Query, QueryLost,
               CancelOrder, CancelOrderLost, Reread, RereadLost, SettleReply, SettleTwice, Lookup,
               LookupFails, OpenFromFill, StopRecord, StopRecordRefused, StopPost, StopPostLost,
               StopActivate, StopProtect, StopFail, CancelStopLost, CancelSettle,
               Demote, ExecSettle, ExecLocal, FinishClose, StartCooldown, Shrink,
               DbFails, WriteFails, StopSettleFails, StopFailUnwritten, CooldownUnwritten,
               At, Answering
  <2>2. NoneLeft(sec.pos)'
    BY <2>1, CancelLeavesNone DEF RecoveryInv, RowsAgree
  <2>3. sec'.pos = sec.pos
    <3>1. TypeInv /\ sec \in Section
      BY DEF RecoveryInv, TypeInv, TypeOK, SectionOK
    <3>2. CASE Goto("demote")
      BY <3>1, <3>2 DEF Goto, Section
    <3>3. CASE ~Goto("demote")
      <4>1. PICK r \in ActiveForPosition(stops, sec.pos) :
              sec' = [sec EXCEPT !.skey = r, !.at = "cancelSettle"]
        BY <2>1, <3>3 DEF CancelStop
      <4> QED BY <3>1, <4>1 DEF Section
    <3> QED BY <3>2, <3>3
  <2> QED BY <1>3, <2>2, <2>3 DEF NoneLeft, Listed
<1>4. Operation \/ UNCHANGED sec
  BY WorkStart
<1>5. Operation => sec.at \notin AdoptionPlaces
  BY OperationAt DEF RecoveryInv
<1> QED BY <1>1, <1>2, <1>3, <1>4, <1>5 DEF Remedied, AdoptionPlaces

LEMMA StopsWork ==
  ASSUME RecoveryInv, Guarded, NothingLost, Answering, Work, Loosening
  PROVE  StopsAccounted'
<1>0. /\ RowsAgree /\ HandAgrees /\ StartAgrees /\ StopsAccounted /\ Prompt /\ Course /\ Idle
      /\ StopInHand /\ TakenAway /\ NamesOwn /\ Starting /\ TypeInv /\ [Next]_vars
      /\ loose \subseteq loose'
  BY WorkIsNext DEF Guarded, RowsAgree, HandAgrees, StartAgrees, RecoveryInv, Work, Loosening
<1> SUFFICES ASSUME NEW s \in StopKeys, Heard(s)'
             PROVE  (BeingPlaced(s) \/ Relied(s) \/ Awaited(s))'
  BY DEF StopsAccounted
<1>1. CASE brokerStops'[s] # brokerStops[s]
  <2>1. /\ s = sec.skey /\ brokerStops'[s].ticker = sec.ticker
        /\ sec'.at \in {"stopActivate", "stopFail"} /\ sec'.skey = s /\ sec'.ticker = sec.ticker
    BY <1>0, <1>1, BrokerRowStep DEF Heard
  <2> QED BY <2>1 DEF BeingPlaced
<1>2. CASE brokerStops'[s] = brokerStops[s]
  <2>1. Heard(s)
    BY <1>0, <1>2 DEF Heard
  <2>2. CASE BeingPlaced(s)
    BY <1>0, <1>2, <2>2, PlacedWork
  <2>3. Listed(s) => stops'[s] = stops[s] /\ Listed(s)' /\ (Relied(s) => Relied(s)')
    BY <1>0, <1>2, <2>1, ListedStays
  <2>4. CASE Relied(s)
    BY <2>3, <2>4 DEF Relied
  <2>5. CASE Awaited(s)
    <3>1. phase["startup"] # "done" /\ (SameStart \/ GivenUp)
      BY <1>0, <2>5, WorkStart DEF Awaited
    <3>2. phase'["startup"] # "done" /\ (phase'["startup"] = "remedy" => SameStart)
      BY <3>1 DEF SameStart, GivenUp
    <3>3. Listed(s)' \/ LeftBehind(s)'
      BY <1>0, <1>2, <2>3, <2>5, <3>1, LeftBehindStays DEF Awaited
    <3>4. ASSUME phase'["startup"] = "remedy" PROVE Remedied(s)'
      <4>1. SameStart /\ phase["startup"] = "remedy"
        BY <3>2, <3>4 DEF SameStart
      <4>2. Remedied(s)
        BY <2>5, <4>1 DEF Awaited
      <4> QED BY <1>0, <1>2, <2>1, <2>3, <3>1, <4>1, <4>2, RemediedStays
    <3> QED BY <3>2, <3>3, <3>4 DEF Awaited
  <2> QED BY <1>0, <2>1, <2>2, <2>4, <2>5 DEF StopsAccounted
<1> QED BY <1>1, <1>2

LEMMA GuardedWork ==
  ASSUME RecoveryInv, Guarded, NothingLost, Answering, Work, Loosening
  PROVE  Guarded'
<1>0. TypeInv /\ [Next]_vars /\ loose \subseteq loose'
  BY WorkIsNext DEF RecoveryInv, Work, Loosening
<1>1. RowsAgree'
  BY <1>0, RowsWork DEF Guarded, HandAgrees
<1>2. HandAgrees'
  BY <1>0, HandWork DEF Guarded, RowsAgree, StartAgrees, Answering
<1> QED BY <1>1, <1>2, StartWork, StopsWork DEF Guarded

-----------------------------------------------------------------------------
(* The end of a process and the start that follows it.                      *)

LEMMA RowsAside ==
  ASSUME TypeInv, RowsAgree,
         \A s \in StopKeys :
           /\ stops'[s].status \in StandingStop => stops[s].status \in StandingStop
           /\ stops[s].status # "ABSENT" =>
                stops'[s].status # "ABSENT" /\ stops'[s].position = stops[s].position
           /\ brokerStops'[s].st # "NONE" => brokerStops[s].st # "NONE",
         \A p \in PositionIds :
           /\ positions'[p].status = "OPEN" =>
                positions[p].status = "OPEN" /\ positions'[p].ticker = positions[p].ticker
           /\ positions'[p].stopKey # 0 => positions'[p].stopKey = positions[p].stopKey
  PROVE  RowsAgree'
<1>0. \A p \in PositionIds : positions[p].stopKey \in StopKeys \cup {0}
  BY TablesType DEF Tables, PositionRow
<1>1. Alone'
  BY DEF RowsAgree, Alone, StandingStop
<1>2. Entered' /\ OneOpen'
  BY DEF RowsAgree, Entered, OneOpen
<1>3. NamesOwn'
  BY <1>0 DEF RowsAgree, NamesOwn
<1> QED BY <1>1, <1>2, <1>3 DEF RowsAgree

LEMMA SameRowsAgree ==
  ASSUME TypeInv, RowsAgree, UNCHANGED <<positions, stops, brokerStops>> PROVE RowsAgree'
BY RowsAside

(* A start that has the lock free has nothing in hand.                      *)
LEMMA StartQuiet ==
  ASSUME HandAgrees, StartAgrees, phase["startup"] # "done", lock # "startup"
  PROVE  sec = NoSection /\ lock = NoOne
BY DEF HandAgrees, StartAgrees, Idle, Starting, Tasks, NoOne

LEMMA NotPlacing ==
  ASSUME sec.at \notin Placing \cup {"stopRecord"}, NEW s PROVE ~BeingPlaced(s)
BY DEF BeingPlaced, Placing

(* What a start leaves alone, when it only turns to something else.         *)
LEMMA AwaitedStays ==
  ASSUME UNCHANGED <<orders, positions, stops, brokerStops>>, NEW s, Awaited(s),
         phase'["startup"] # "done",
         LeftBehind(s) /\ phase'["startup"] = "resolve" =>
           todo'["startup"] = {} /\ sec' = NoSection,
         phase'["startup"] = "remedy" => Remedied(s)'
  PROVE  Awaited(s)'
BY DEF Awaited, Listed, LeftBehind, Resolved

LEMMA SameHeard ==
  ASSUME UNCHANGED brokerStops, Loosening, NEW s, Heard(s)' PROVE Heard(s)
BY DEF Heard, Loosening

LEMMA QuietStops ==
  ASSUME StopsAccounted, UNCHANGED <<positions, stops, brokerStops>>, Loosening,
         sec.at \notin Placing \cup {"stopRecord"},
         \A s \in StopKeys : Heard(s) /\ Awaited(s) /\ ~Relied(s) => Awaited(s)'
  PROVE  StopsAccounted'
<1> SUFFICES ASSUME NEW s \in StopKeys, Heard(s)' PROVE (Relied(s) \/ Awaited(s))'
  BY DEF StopsAccounted
<1>1. Heard(s) /\ ~BeingPlaced(s)
  BY SameHeard, NotPlacing
<1>2. Relied(s) => Relied(s)'
  BY DEF Relied, Listed
<1> QED BY <1>1, <1>2 DEF StopsAccounted

LEMMA ProcessEndsGuards ==
  ASSUME RecoveryInv, Guarded, ProcessEnds, Loosening PROVE Guarded'
<1>0. /\ TypeInv /\ RowsAgree /\ Prompt /\ StopInHand /\ StopsAccounted
      /\ UNCHANGED <<orders, positions, stops, brokerOrders, brokerStops>>
      /\ sec' = NoSection /\ lock' = NoOne /\ phase'["startup"] = "down" /\ start' = NoStart
  BY DEF RecoveryInv, Guarded, HandAgrees, ProcessEnds, dbVars, brokerVars
<1>1. RowsAgree' /\ HandAgrees'
  BY <1>0, SameRowsAgree, EmptyHand
<1>2. StartAgrees'
  BY <1>0, EmptyStart DEF StartAgrees, Starting, ResolvedFirst, RemediesFit
<1>3. StopsAccounted'
  <2> SUFFICES ASSUME NEW s \in StopKeys, Heard(s)' PROVE (Relied(s) \/ Awaited(s))'
    BY DEF StopsAccounted
  <2>1. Heard(s)
    BY <1>0, SameHeard
  <2>2. CASE Relied(s)
    BY <1>0, <2>2 DEF Relied, Listed
  <2>3. CASE Awaited(s)
    BY <1>0, <2>3, AwaitedStays
  <2>4. CASE BeingPlaced(s)
    <3>1. stops[s].status \notin {"PLACING", "FAILED"}
      BY <1>0 DEF Heard, Loosening, Loosened, NoSection, StopKeys
    <3>2. sec.at = "stopProtect" /\ sec.skey = s /\ sec.ticker = brokerStops[s].ticker
      BY <1>0, <2>4, <3>1 DEF BeingPlaced, StopInHand, Placing
    <3>3. Listed(s)
      BY <1>0, <3>2 DEF StopInHand, Placing, Listed
    <3> QED BY <1>0, <3>3 DEF Awaited, Listed
  <2> QED BY <1>0, <2>1, <2>2, <2>3, <2>4 DEF StopsAccounted
<1> QED BY <1>1, <1>2, <1>3 DEF Guarded

LEMMA BootGuards ==
  ASSUME RecoveryInv, Guarded, Boot, Loosening PROVE Guarded'
<1>0. /\ TypeInv /\ RowsAgree /\ Prompt /\ StopsAccounted /\ Starting
      /\ UNCHANGED <<orders, positions, stops, brokerOrders, brokerStops, lock, sec, start>>
      /\ phase["startup"] = "down"
  BY DEF RecoveryInv, Guarded, HandAgrees, StartAgrees, Boot, dbVars, brokerVars
<1>1. phase'["startup"] = "resolve" /\ todo'["startup"] = Unresolved(orders)
  BY DEF RecoveryInv, TypeInv, TypeOK, TasksOK, Boot, StartTo, Tasks
<1>2. sec = NoSection
  BY <1>0 DEF Starting
<1>3. RowsAgree' /\ HandAgrees'
  BY <1>0, <1>2, SameRowsAgree, EmptyHand
<1>4. StartAgrees'
  BY <1>0, <1>1, <1>2 DEF StartAgrees, Starting, ResolvedFirst, RemediesFit, NoSection
<1>5. StopsAccounted'
  <2>1. \A s \in StopKeys : Awaited(s) => Awaited(s)'
    BY <1>0, <1>1, <1>2, AwaitedStays DEF LeftBehind, Resolved
  <2> QED BY <1>0, <1>2, <2>1, QuietStops DEF NoSection, Placing
<1> QED BY <1>3, <1>4, <1>5 DEF Guarded

LEMMA OwnerSellsGuards ==
  ASSUME RecoveryInv, Guarded, NEW t \in Tickers, OwnerSells(t), Loosening PROVE Guarded'
<1>0. /\ TypeInv /\ RowsAgree /\ Prompt /\ StopsAccounted /\ StartAgrees
      /\ UNCHANGED <<orders, positions, stops, brokerOrders, brokerStops, lock, sec, start,
                     phase, todo>>
      /\ phase["startup"] = "down"
  BY DEF RecoveryInv, Guarded, HandAgrees, OwnerSells, dbVars, taskVars
<1>1. sec = NoSection
  BY <1>0 DEF StartAgrees, Starting
<1>2. RowsAgree' /\ HandAgrees'
  BY <1>0, <1>1, SameRowsAgree, EmptyHand
<1>3. StartAgrees'
  BY <1>0 DEF StartAgrees, Starting, ResolvedFirst, RemediesFit, Asked
<1>4. StopsAccounted'
  <2>1. \A s \in StopKeys : Awaited(s) => Awaited(s)'
    BY <1>0, AwaitedStays
  <2> QED BY <1>0, <1>1, <2>1, QuietStops DEF NoSection, Placing
<1> QED BY <1>2, <1>3, <1>4 DEF Guarded

LEMMA ResolvingGuards ==
  ASSUME RecoveryInv, Guarded, Resolving, Loosening PROVE Guarded'
<1>0. /\ TypeInv /\ RowsAgree /\ Prompt /\ Idle /\ StopsAccounted /\ StartAgrees
      /\ UNCHANGED <<orders, positions, stops, brokerOrders, brokerStops, start, phase>>
      /\ phase["startup"] = "resolve" /\ lock = NoOne /\ lock' = "startup"
  BY DEF RecoveryInv, Guarded, HandAgrees, Resolving, BeginResolve, Enter, dbVars, brokerVars
<1>1. PICK k \in todo["startup"] :
        /\ sec' = [NoSection EXCEPT !.at = "query", !.op = "resolve",
                     !.ticker = orders[k].ticker, !.key = k, !.trigger = orders[k].trigger]
        /\ todo' = [todo EXCEPT !["startup"] = @ \ {k}]
  BY DEF Resolving, BeginResolve, Enter
<1>2. sec'.at = "query" /\ sec'.op = "resolve" /\ sec'.key = k
  BY <1>1 DEF NoSection
<1>3. todo'["startup"] = todo["startup"] \ {k}
  BY <1>1 DEF RecoveryInv, TypeInv, TypeOK, TasksOK, Tasks
<1>4. sec = NoSection
  BY <1>0 DEF Idle, NoOne, Tasks
<1>5. RowsAgree'
  BY <1>0, SameRowsAgree
<1>6. HandAgrees'
  BY <1>0, <1>2 DEF HandAgrees, Idle, Prompt, Course, StopInHand, TakenAway, LetGo, Placing,
                    OrderWork, Tasks
<1>7. StartAgrees'
  BY <1>0, <1>2, <1>3, <1>4
     DEF StartAgrees, Starting, ResolvedFirst, RemediesFit, Asked, NoSection
<1>8. StopsAccounted'
  <2>1. \A s \in StopKeys : Awaited(s) => Awaited(s)'
    BY <1>0, <1>1, AwaitedStays DEF LeftBehind, Resolved
  <2> QED BY <1>0, <1>4, <2>1, QuietStops DEF NoSection, Placing
<1> QED BY <1>5, <1>6, <1>7, <1>8 DEF Guarded

(* While it compares, a start has nothing in hand.                          *)
Comparing == /\ phase["startup"] = "reconcile" /\ phase'["startup"] = "reconcile"
             /\ UNCHANGED <<orders, brokerOrders, brokerStops, lock, sec, todo>>

LEMMA ComparesNow ==
  ASSUME RecoveryInv, Guarded,
         \/ \E p \in PositionIds :
              Matches(p) \/ AdjustLots(p) \/ ExitFound(p) \/ ExitUnresolved(p)
         \/ \E t \in Tickers : AdoptHolding(t) \/ ReportForeign(t)
         \/ ExitCooldown \/ ExitStop
  PROVE  Comparing /\ sec = NoSection /\ Unresolved(orders) = {} /\ start'.remedies = {}
<1>1. phase["startup"] = "reconcile"
  BY DEF Matches, AdjustLots, ExitFound, ExitUnresolved, Compares, AdoptHolding, ReportForeign,
         Compared, ExitCooldown, ExitStop, StartAt
<1>2. sec = NoSection /\ Unresolved(orders) = {} /\ start.remedies = {}
  BY <1>1 DEF Guarded, StartAgrees, Starting, ResolvedFirst
<1>3. UNCHANGED <<orders, brokerOrders, brokerStops, phase, lock, sec, todo>>
  BY DEF Matches, AdjustLots, ExitFound, ExitUnresolved, AdoptHolding, ReportForeign,
         ExitCooldown, ExitStop, dbVars, brokerVars, startVars
<1>4. start'.remedies = start.remedies
  <2>1. start \in Start
    BY DEF RecoveryInv, StartOK
  <2> QED BY <2>1 DEF Start, Matches, AdjustLots, ExitFound, ExitUnresolved, AdoptHolding,
             ReportForeign, ExitCooldown, ExitStop, Examined
<1> QED BY <1>1, <1>2, <1>3, <1>4 DEF Comparing

(* A correction leaves what is known of the stops, or closes their position.*)
LEMMA CorrectionGuards ==
  ASSUME RecoveryInv, Guarded, Comparing, sec = NoSection, Unresolved(orders) = {},
         start'.remedies = {}, Loosening, RowsAgree',
         start'.exitStop # 0 => positions'[start'.exitStop].status # "OPEN",
         \A s \in StopKeys : Heard(s) /\ Listed(s) =>
           \/ Listed(s)' /\ (Relied(s) => Relied(s)')
           \/ LeftBehind(s)',
         \A p \in PositionIds :
           positions'[p].status = "OPEN" =>
             positions[p].status = "OPEN" /\ positions'[p].ticker = positions[p].ticker,
         DOMAIN positions' = PositionIds
  PROVE  Guarded'
<1>0. Prompt /\ StopsAccounted /\ Starting /\ DOMAIN positions = PositionIds
  BY DEF RecoveryInv, TypeInv, TypeOK, TablesOK, Guarded, HandAgrees, StartAgrees
<1>1. HandAgrees'
  BY <1>0, EmptyHand DEF Comparing
<1>2. StartAgrees'
  BY <1>0 DEF Comparing, StartAgrees, Starting, ResolvedFirst, RemediesFit, NoSection
<1>3. StopsAccounted'
  <2> SUFFICES ASSUME NEW s \in StopKeys, Heard(s)' PROVE (Relied(s) \/ Awaited(s))'
    BY DEF StopsAccounted
  <2>1. Heard(s) /\ ~BeingPlaced(s)
    BY SameHeard, NotPlacing DEF Comparing, NoSection, Placing
  <2>2. LeftBehind(s) => LeftBehind(s)'
    BY <1>0 DEF LeftBehind, Resolved, OpenOn, Comparing
  <2>3. (LeftBehind(s) \/ Listed(s)) => (LeftBehind(s)' \/ Listed(s)')
    BY <2>1, <2>2
  <2>4. (LeftBehind(s)' \/ Listed(s)') => Awaited(s)'
    BY DEF Awaited, Comparing
  <2> QED BY <1>0, <2>1, <2>3, <2>4 DEF StopsAccounted, Awaited, Relied
<1> QED BY <1>1, <1>2, <1>3 DEF Guarded

LEMMA MatchesGuards ==
  ASSUME RecoveryInv, Guarded, Loosening,
         \/ \E p \in PositionIds : Matches(p) \/ ExitUnresolved(p)
         \/ \E t \in Tickers : ReportForeign(t)
         \/ ExitCooldown
  PROVE  Guarded'
<1>0. Comparing /\ sec = NoSection /\ Unresolved(orders) = {} /\ start'.remedies = {}
  BY ComparesNow
<1>1. UNCHANGED <<positions, stops>>
  BY DEF Matches, ExitUnresolved, ReportForeign, ExitCooldown, dbVars
<1>2. start'.exitStop = start.exitStop
  <2>1. start \in Start
    BY DEF RecoveryInv, StartOK
  <2> QED BY <2>1 DEF Start, Matches, ExitUnresolved, ReportForeign, ExitCooldown, Examined
<1>3. RowsAgree' /\ DOMAIN positions = PositionIds
  BY <1>0, <1>1, SameRowsAgree
     DEF RecoveryInv, TypeInv, TypeOK, TablesOK, Guarded, Comparing
<1>4. start.exitStop # 0 => positions[start.exitStop].status # "OPEN"
  BY <1>0 DEF Guarded, StartAgrees, Starting, Comparing
<1>5. \A s \in StopKeys : (Listed(s) => Listed(s)') /\ (Relied(s) => Relied(s)')
  BY <1>0, <1>1 DEF Listed, Relied, Comparing
<1> QED BY <1>0, <1>1, <1>2, <1>3, <1>4, <1>5, CorrectionGuards

LEMMA AdjustLotsGuards ==
  ASSUME RecoveryInv, Guarded, Loosening, NEW p \in PositionIds, AdjustLots(p) PROVE Guarded'
<1>0. /\ Comparing /\ sec = NoSection /\ Unresolved(orders) = {} /\ start'.remedies = {}
      /\ TypeInv /\ positions \in [PositionIds -> PositionRow] /\ UNCHANGED stops
  BY ComparesNow DEF RecoveryInv, TypeInv, TypeOK, TablesOK, AdjustLots
<1>1. positions' = UpdateLots(positions, p, PortLots(p)) /\ start' = Examined(p)
  BY DEF AdjustLots
<1>2. DOMAIN positions' = PositionIds /\ \A q \in PositionIds :
        /\ positions'[q].status = positions[q].status /\ positions'[q].ticker = positions[q].ticker
        /\ positions'[q].protection = positions[q].protection
        /\ positions'[q].stopKey = positions[q].stopKey
  BY <1>0, <1>1 DEF UpdateLots, PositionRow
<1>3. RowsAgree'
  BY <1>0, <1>2, RowsAside DEF Guarded, Comparing
<1>4. start'.exitStop = start.exitStop /\ start.exitStop = 0
  BY <1>1 DEF Examined, RecoveryInv, StartOK, Start, AdjustLots, Compares
<1>5. \A s \in StopKeys : (Listed(s) => Listed(s)') /\ (Relied(s) => Relied(s)')
  BY <1>0, <1>2 DEF Listed, Relied, Comparing
<1> QED BY <1>0, <1>2, <1>3, <1>4, <1>5, CorrectionGuards

LEMMA ExitFoundGuards ==
  ASSUME RecoveryInv, Guarded, Loosening, NEW p \in PositionIds, ExitFound(p) PROVE Guarded'
<1>0. /\ Comparing /\ sec = NoSection /\ Unresolved(orders) = {} /\ start'.remedies = {}
      /\ TypeInv /\ positions \in [PositionIds -> PositionRow] /\ UNCHANGED stops
  BY ComparesNow DEF RecoveryInv, TypeInv, TypeOK, TablesOK, ExitFound
<1>1. positions' = CloseRow(positions, p, "EXTERNAL", 0) /\ start'.exitStop \in {p, 0}
  BY DEF ExitFound, Examined, RecoveryInv, StartOK, Start
<1>2. /\ DOMAIN positions' = PositionIds
      /\ positions'[p].status = "CLOSED" /\ positions'[p].stopKey = 0
      /\ \A q \in PositionIds : q # p => positions'[q] = positions[q]
  BY <1>0, <1>1 DEF CloseRow, PositionRow
<1>3. RowsAgree'
  BY <1>0, <1>2, RowsAside DEF Guarded, Comparing
<1>4. ASSUME NEW s \in StopKeys, Listed(s)
      PROVE  (Listed(s)' /\ (Relied(s) => Relied(s)')) \/ LeftBehind(s)'
  <2>1. CASE stops[s].position # p
    BY <1>0, <1>2, <1>4, <2>1 DEF Listed, Relied, Comparing
  <2>2. CASE stops[s].position = p
    <3>1. positions[p].status = "OPEN" /\ positions[p].ticker = brokerStops[s].ticker
      BY <1>4, <2>2 DEF Listed
    <3>2. OpenOn(positions', brokerStops'[s].ticker) = {}
      BY <1>0, <1>2, <3>1 DEF OpenOn, OneOpen, Guarded, RowsAgree, Comparing
    <3> QED BY <1>0, <3>2 DEF LeftBehind, Resolved, Comparing
  <2> QED BY <2>1, <2>2
<1> QED BY <1>0, <1>1, <1>2, <1>3, <1>4, CorrectionGuards

LEMMA ExitStopGuards ==
  ASSUME RecoveryInv, Guarded, Loosening, ExitStop PROVE Guarded'
<1>0. /\ Comparing /\ sec = NoSection /\ Unresolved(orders) = {} /\ start'.remedies = {}
      /\ TypeInv /\ Tables /\ UNCHANGED positions
  BY ComparesNow, TablesType DEF RecoveryInv, ExitStop
<1>1. /\ stops' = [s \in StopKeys |->
                     IF s \in ActiveForPosition(stops, start.exitStop)
                       THEN [stops[s] EXCEPT !.status = "EXECUTED"] ELSE stops[s]]
      /\ start.exitStop # 0 /\ start'.exitStop = 0
  BY DEF ExitStop, RecoveryInv, StartOK, Start
<1>2. positions[start.exitStop].status # "OPEN"
  BY <1>0, <1>1 DEF Guarded, StartAgrees, Starting, Comparing
<1>3. \A s \in StopKeys :
        \/ stops'[s] = stops[s]
        \/ /\ stops[s].status \in StandingStop /\ stops[s].position = start.exitStop
           /\ stops'[s].position = stops[s].position /\ stops'[s].status = "EXECUTED"
  BY <1>0, <1>1 DEF ActiveForPosition, Tables, StopRow
<1>4. RowsAgree'
  BY <1>0, <1>3, RowsAside DEF Guarded, Comparing, StandingStop
<1>5. \A s \in StopKeys : (Listed(s) => Listed(s)') /\ (Relied(s) => Relied(s)')
  BY <1>0, <1>2, <1>3 DEF Listed, Relied, Comparing
<1> QED BY <1>0, <1>1, <1>2, <1>4, <1>5, CorrectionGuards DEF Tables

LEMMA ReadPortfolioGuards ==
  ASSUME RecoveryInv, Guarded, Loosening, ReadPortfolio PROVE Guarded'
<1>0. /\ TypeInv /\ RowsAgree /\ Prompt /\ StopsAccounted /\ StartAgrees /\ HandAgrees
      /\ UNCHANGED <<orders, positions, stops, brokerOrders, brokerStops, lock, sec, todo>>
      /\ phase["startup"] = "resolve" /\ todo["startup"] = {} /\ lock # "startup"
  BY DEF RecoveryInv, Guarded, HandAgrees, ReadPortfolio, StartAt, dbVars, brokerVars, startVars
<1>1. phase'["startup"] = "reconcile"
  BY DEF RecoveryInv, TypeInv, TypeOK, TasksOK, ReadPortfolio, StartTo, Tasks
<1>2. sec = NoSection /\ lock = NoOne
  BY <1>0, StartQuiet
<1>3. start'.remedies = {} /\ start'.exitStop = 0
  BY DEF ReadPortfolio, NoStart
<1>4. RowsAgree' /\ HandAgrees'
  BY <1>0, <1>2, SameRowsAgree, EmptyHand
<1>5. StartAgrees'
  BY <1>0, <1>1, <1>2, <1>3
     DEF StartAgrees, Starting, ResolvedFirst, RemediesFit, Asked, NoSection
<1>6. StopsAccounted'
  <2>1. \A s \in StopKeys : Awaited(s) => Awaited(s)'
    BY <1>0, <1>1, AwaitedStays
  <2> QED BY <1>0, <1>2, <2>1, QuietStops DEF NoSection, Placing
<1> QED BY <1>4, <1>5, <1>6 DEF Guarded

LEMMA NothingAdopted ==
  ASSUME RecoveryInv, Guarded, NEW t PROVE ~AdoptHolding(t)
BY DEF Guarded, StartAgrees, ResolvedFirst, AdoptHolding, Compared, StartAt, Recognises

(* Whatever is live and not relied on is found, and what is found of it     *)
(* binds it or takes it away.                                               *)
LEMMA FoundOfStop ==
  ASSUME RecoveryInv, RowsAgree, NEW s \in StopKeys, brokerStops[s].st = "LIVE",
         NEW mispriced,
         \/ Listed(s) /\ ~Relied(s)
         \/ OpenOn(positions, brokerStops[s].ticker) = {}
  PROVE  \E r \in Findings({}, mispriced) :
           \/ r.kind = "cancel" /\ r.stop = s
           \/ /\ Listed(s) /\ r.pos = stops[s].position
              /\ r.kind = "replace" \/ (r.kind = "adopt" /\ r.stop = s)
<1>0. brokerStops[s].ticker \in Tickers /\ Tables
  BY TablesNow, TablesType DEF RecoveryInv
<1>1. s \in LiveStops(brokerStops[s].ticker)
  BY DEF LiveStops
<1>2. CASE s \notin Kept
  <2> DEFINE r == [kind |-> "cancel", ticker |-> brokerStops[s].ticker, pos |-> 0, stop |-> s]
  <2>1. s \in (UNION {LiveStops(t) : t \in Tickers}) \ Kept
    BY <1>0, <1>1, <1>2
  <2>2. r \in Excess
    BY <2>1 DEF Excess
  <2>3. r \in Findings({}, mispriced)
    BY <2>2 DEF Findings
  <2> QED BY <2>3
<1>3. CASE s \in Kept
  <2>1. PICK q \in OpenPositions : s \in Keeps(q)
    BY <1>3 DEF Kept
  <2>2. q \in PositionIds /\ positions[q].status = "OPEN"
        /\ positions[q].ticker = brokerStops[s].ticker
    BY <2>1 DEF OpenPositions, Keeps, LiveStops
  <2>3. Listed(s) /\ ~Relied(s)
    BY <1>0, <2>2 DEF OpenOn, Tables
  <2>4. q = stops[s].position
    BY <2>2, <2>3 DEF Listed, RowsAgree, OneOpen
  <2>5. positions[q].protection = "LOCAL"
    BY <1>0, <2>2, <2>3, <2>4 DEF Relied, Tables, PositionRow, Protections
  <2>6. \/ Verdict(q, s, {}, mispriced) = {RemedyOf("replace", q, s)}
        \/ Verdict(q, s, {}, mispriced) = {RemedyOf("adopt", q, s)}
    BY <2>5 DEF Verdict
  <2>7. \A r \in Verdict(q, s, {}, mispriced) : r \in Findings({}, mispriced)
    BY <2>1 DEF Findings
  <2>8. CASE RemedyOf("replace", q, s) \in Findings({}, mispriced)
    BY <2>3, <2>4, <2>8 DEF RemedyOf
  <2>9. CASE RemedyOf("adopt", q, s) \in Findings({}, mispriced)
    BY <2>3, <2>4, <2>9 DEF RemedyOf
  <2> QED BY <2>6, <2>7, <2>8, <2>9
<1> QED BY <1>2, <1>3

LEMMA FindingsFit ==
  ASSUME RecoveryInv, RowsAgree, NEW unpriced, NEW mispriced,
         NEW r \in Findings(unpriced, mispriced)
  PROVE  /\ r.kind # "cancel" =>
              positions[r.pos].status = "OPEN" /\ positions[r.pos].ticker = r.ticker
         /\ r.kind = "adopt" =>
              /\ brokerStops[r.stop].st = "LIVE" => brokerStops[r.stop].ticker = r.ticker
              /\ stops[r.stop].status # "ABSENT"
<1>1. CASE r \in Excess
  BY <1>1 DEF Excess
<1>2. CASE r \in Missing
  BY <1>2 DEF Missing, RemedyOf, OpenPositions
<1>3. ASSUME NEW p \in OpenPositions, NEW s \in Keeps(p), r \in Verdict(p, s, unpriced, mispriced)
      PROVE  /\ r.kind # "cancel" =>
                  positions[r.pos].status = "OPEN" /\ positions[r.pos].ticker = r.ticker
             /\ r.kind = "adopt" =>
                  /\ brokerStops[r.stop].st = "LIVE" => brokerStops[r.stop].ticker = r.ticker
                  /\ stops[r.stop].status # "ABSENT"
  <2>1. r = RemedyOf("replace", p, s) \/ r = RemedyOf("adopt", p, s)
    BY <1>3 DEF Verdict
  <2>2. r.pos = p /\ r.stop = s /\ r.ticker = positions[p].ticker
    BY <2>1 DEF RemedyOf
  <2>3. positions[p].status = "OPEN"
    BY DEF OpenPositions
  <2>4. s \in StopKeys /\ brokerStops[s].st = "LIVE" /\ brokerStops[s].ticker = positions[p].ticker
    BY DEF Keeps, LiveStops
  <2>5. stops[s].status # "ABSENT"
    BY <2>4 DEF RowsAgree, Entered
  <2> QED BY <2>2, <2>3, <2>4, <2>5
<1> QED BY <1>1, <1>2, <1>3 DEF Findings

LEMMA ReadStopsGuards ==
  ASSUME RecoveryInv, Guarded, Answering, Loosening, ReadStops PROVE Guarded'
<1>0. /\ TypeInv /\ RowsAgree /\ Prompt /\ StopsAccounted /\ StartAgrees
      /\ UNCHANGED <<orders, positions, stops, brokerOrders, brokerStops, lock, sec, todo>>
      /\ phase["startup"] = "reconcile"
  BY DEF RecoveryInv, Guarded, HandAgrees, ReadStops, Compared, StartAt, dbVars, brokerVars,
         startVars
<1>1. phase'["startup"] = "remedy"
  BY DEF RecoveryInv, TypeInv, TypeOK, TasksOK, ReadStops, StartTo, Tasks
<1>2. sec = NoSection
  BY <1>0 DEF StartAgrees, Starting
<1>3. PICK mispriced :
        start' = [start EXCEPT !.unpriced = {}, !.remedies = Findings({}, mispriced)]
  BY DEF ReadStops, Answering
<1>4. start'.remedies = Findings({}, mispriced)
  BY <1>3 DEF RecoveryInv, StartOK, Start
<1>5. RowsAgree' /\ HandAgrees'
  BY <1>0, <1>2, SameRowsAgree, EmptyHand
<1>6. StartAgrees'
  <2>1. Starting' /\ ResolvedFirst'
    BY <1>0, <1>1, <1>2 DEF StartAgrees, Starting, ResolvedFirst, NoSection
  <2>2. RemediesFit'
    BY <1>0, <1>2, <1>4, FindingsFit DEF RemediesFit, NoSection
  <2> QED BY <2>1, <2>2 DEF StartAgrees
<1>7. StopsAccounted'
  <2>1. ASSUME NEW s \in StopKeys, Heard(s), Awaited(s), ~Relied(s) PROVE Awaited(s)'
    <3>1. Listed(s) \/ LeftBehind(s)
      BY <2>1 DEF Awaited
    <3>2. \E r \in Findings({}, mispriced) :
             \/ r.kind = "cancel" /\ r.stop = s
             \/ /\ Listed(s) /\ r.pos = stops[s].position
                /\ r.kind = "replace" \/ (r.kind = "adopt" /\ r.stop = s)
      BY <1>0, <2>1, <3>1, FoundOfStop DEF Heard, LeftBehind
    <3>3. Listed(s) => Listed(s)'
      BY <1>0 DEF Listed
    <3>4. Remedied(s)'
      BY <1>0, <1>4, <3>2, <3>3 DEF Remedied
    <3> QED BY <1>0, <1>1, <2>1, <3>4, AwaitedStays
  <2> QED BY <1>0, <1>2, <2>1, QuietStops DEF NoSection, Placing
<1> QED BY <1>5, <1>6, <1>7 DEF Guarded

LEMMA FinishGuards ==
  ASSUME RecoveryInv, Guarded, Answering, Loosening, Finish \/ StartAborts PROVE Guarded'
<1>0. /\ TypeInv /\ RowsAgree /\ Prompt /\ StopsAccounted /\ StartAgrees /\ HandAgrees
      /\ UNCHANGED <<orders, positions, stops, brokerOrders, brokerStops, lock, sec, todo>>
  BY DEF RecoveryInv, Guarded, HandAgrees, Finish, StartAborts, dbVars, brokerVars
<1>1. /\ phase["startup"] \in {"remedy", "reconcile"} /\ lock # "startup"
      /\ phase["startup"] = "remedy" => start.remedies = {}
      /\ \/ phase'["startup"] = "down" /\ start' = NoStart
         \/ phase["startup"] = "remedy" /\ phase'["startup"] = "done" /\ UNCHANGED start
  <2>1. CASE Finish
    BY <2>1 DEF Finish, StartFails, StartTo, StartAt, RecoveryInv, TypeInv, TypeOK, TasksOK, Tasks
  <2>2. CASE StartAborts
    BY <2>2 DEF StartAborts, StartFails, StartTo, StartAt, RecoveryInv, TypeInv, TypeOK, TasksOK,
                Tasks, Answering
  <2> QED BY <2>1, <2>2
<1>2. sec = NoSection
  BY <1>0, <1>1, StartQuiet
<1>3. RowsAgree' /\ HandAgrees'
  BY <1>0, <1>2, SameRowsAgree, EmptyHand
<1>4. StartAgrees'
  BY <1>0, <1>1, <1>2, EmptyStart
     DEF StartAgrees, Starting, ResolvedFirst, RemediesFit, NoSection
<1>5. StopsAccounted'
  <2>1. ASSUME NEW s \in StopKeys, Awaited(s) PROVE Awaited(s)'
    <3>1. phase["startup"] = "remedy" => FALSE
      BY <1>1, <1>2, <2>1 DEF Awaited, Remedied, NoSection
    <3> QED BY <1>0, <1>1, <2>1, <3>1, AwaitedStays
  <2> QED BY <1>0, <1>2, <2>1, QuietStops DEF NoSection, Placing
<1> QED BY <1>3, <1>4, <1>5 DEF Guarded

-----------------------------------------------------------------------------
(* The remedies and the adoption.                                           *)

LEMMA RemedyBegins ==
  ASSUME RecoveryInv, Guarded, NEW r \in start.remedies,
         CancelExcess(r) \/ ReplaceStop(r) \/ AdoptStop(r) \/ PlaceStop(r)
  PROVE  /\ UNCHANGED <<orders, positions, stops, brokerOrders, brokerStops, phase, todo>>
         /\ phase["startup"] = "remedy" /\ sec = NoSection
         /\ start'.remedies = start.remedies \ {r} /\ start'.exitStop = start.exitStop
         /\ \/ /\ sec' = NoSection /\ lock' = NoOne
               /\ r.kind = "place" \/ (r.kind # "replace" /\ brokerStops[r.stop].st # "LIVE")
            \/ /\ lock' = "startup"
               /\ sec'.ticker = r.ticker /\ sec'.pos = r.pos /\ sec'.skey = r.stop
               /\ \/ r.kind = "cancel" /\ sec'.at = "orphanCancel" /\ sec'.op = "orphan"
                  \/ r.kind = "replace" /\ sec'.at = "cancelStop" /\ sec'.op = "replace"
                  \/ r.kind = "adopt" /\ sec'.at = "adoptRecord" /\ sec'.op = "adopt"
                  \/ r.kind = "place" /\ sec'.at = "stopRecord" /\ sec'.op = "place"
<1>1. Remedies(r)
  BY DEF CancelExcess, ReplaceStop, AdoptStop, PlaceStop
<1>2. /\ UNCHANGED <<orders, positions, stops, brokerOrders, brokerStops, phase, todo>>
      /\ phase["startup"] = "remedy"
      /\ start'.remedies = start.remedies \ {r} /\ start'.exitStop = start.exitStop
  BY <1>1 DEF Remedies, RecoveryInv, StartOK, Start, dbVars, brokerVars, taskVars
<1>3. lock = NoOne
  BY DEF CancelExcess, ReplaceStop, AdoptStop, PlaceStop, EnterRemedy, Enter, PassOver
<1>4. sec = NoSection
  BY <1>3 DEF Guarded, HandAgrees, Idle, NoOne, Tasks
<1>5. ASSUME NEW place, NEW op, EnterRemedy(r, place, op)
      PROVE  /\ lock' = "startup" /\ sec'.at = place /\ sec'.op = op
             /\ sec'.ticker = r.ticker /\ sec'.pos = r.pos /\ sec'.skey = r.stop
  BY <1>5 DEF EnterRemedy, Enter, NoSection
<1>6. CASE CancelExcess(r)
  BY <1>2, <1>4, <1>5, <1>6 DEF CancelExcess, PassOver
<1>7. CASE ReplaceStop(r)
  BY <1>2, <1>4, <1>5, <1>7 DEF ReplaceStop
<1>8. CASE AdoptStop(r)
  BY <1>2, <1>4, <1>5, <1>8 DEF AdoptStop, PassOver
<1>9. CASE PlaceStop(r)
  BY <1>2, <1>4, <1>5, <1>9 DEF PlaceStop, PassOver
<1> QED BY <1>6, <1>7, <1>8, <1>9

LEMMA RemedyHand ==
  ASSUME RecoveryInv, Guarded, NEW r \in start.remedies,
         CancelExcess(r) \/ ReplaceStop(r) \/ AdoptStop(r) \/ PlaceStop(r)
  PROVE  HandAgrees'
<1>0. /\ UNCHANGED <<positions, stops, brokerOrders, brokerStops>> /\ Prompt
      /\ r.kind # "cancel" =>
           /\ r.pos \in PositionIds
           /\ positions[r.pos].status = "OPEN" /\ positions[r.pos].ticker = r.ticker
      /\ r.kind = "adopt" /\ brokerStops[r.stop].st = "LIVE" =>
           brokerStops[r.stop].ticker = r.ticker
  BY RemedyBegins
     DEF Guarded, HandAgrees, StartAgrees, RemediesFit, RecoveryInv, StartInHand, Aimed
<1>1. CASE sec' = NoSection
  BY <1>0, <1>1, EmptyHand
<1>2. ASSUME sec' # NoSection PROVE HandAgrees'
  <2>1. /\ lock' = "startup"
        /\ sec'.ticker = r.ticker /\ sec'.pos = r.pos /\ sec'.skey = r.stop
        /\ \/ r.kind = "cancel" /\ sec'.at = "orphanCancel" /\ sec'.op = "orphan"
           \/ r.kind = "replace" /\ sec'.at = "cancelStop" /\ sec'.op = "replace"
           \/ r.kind = "adopt" /\ sec'.at = "adoptRecord" /\ sec'.op = "adopt"
           \/ r.kind = "place" /\ sec'.at = "stopRecord" /\ sec'.op = "place"
    BY <1>2, RemedyBegins
  <2>2. Idle' /\ Prompt'
    BY <1>0, <2>1 DEF Idle, Prompt, Tasks
  <2>3. Course'
    BY <2>1 DEF Course, OrderWork, Placing
  <2>4. StopInHand'
    BY <1>0, <2>1 DEF StopInHand, Placing
  <2>5. TakenAway'
    BY <2>1 DEF TakenAway, LetGo
  <2> QED BY <2>2, <2>3, <2>4, <2>5 DEF HandAgrees
<1> QED BY <1>1, <1>2

LEMMA RemedyGuards ==
  ASSUME RecoveryInv, Guarded, Loosening, NEW r \in start.remedies,
         CancelExcess(r) \/ ReplaceStop(r) \/ AdoptStop(r) \/ PlaceStop(r)
  PROVE  Guarded'
<1>0. /\ TypeInv /\ RowsAgree /\ StartAgrees /\ StopsAccounted
      /\ UNCHANGED <<orders, positions, stops, brokerStops, phase, todo>>
      /\ phase["startup"] = "remedy" /\ sec = NoSection
      /\ start'.remedies = start.remedies \ {r} /\ start'.exitStop = start.exitStop
  BY RemedyBegins DEF RecoveryInv, Guarded
<1>1. /\ sec'.at \in {"none", "orphanCancel", "cancelStop", "adoptRecord", "stopRecord"}
      /\ sec'.op \in {"none", "orphan", "replace", "adopt", "place"}
      /\ lock' \in {"startup", NoOne}
  BY RemedyBegins DEF NoSection
<1>2. RowsAgree'
  BY <1>0, SameRowsAgree
<1>3. StartAgrees'
  <2>1. Starting' /\ ResolvedFirst'
    BY <1>0, <1>1 DEF StartAgrees, Starting, ResolvedFirst
  <2>2. RemediesFit'
    BY <1>0, <1>1 DEF StartAgrees, RemediesFit
  <2> QED BY <2>1, <2>2 DEF StartAgrees
<1>4. StopsAccounted'
  <2>1. ASSUME NEW s \in StopKeys, Heard(s), Awaited(s) PROVE Awaited(s)'
    <3>1. PICK e \in start.remedies :
            \/ e.kind = "cancel" /\ e.stop = s
            \/ /\ Listed(s) /\ e.pos = stops[s].position
               /\ e.kind = "replace" \/ (e.kind = "adopt" /\ e.stop = s)
      BY <1>0, <2>1 DEF Awaited, Remedied, NoSection
    <3>2. Listed(s) => Listed(s)'
      BY <1>0 DEF Listed
    <3>3. CASE e # r
      <4>1. e \in start'.remedies
        BY <1>0, <3>3
      <4>2. Remedied(s)'
        BY <1>0, <3>1, <3>2, <4>1 DEF Remedied
      <4> QED BY <1>0, <2>1, <4>2, AwaitedStays
    <3>4. CASE e = r
      <4>1. brokerStops[s].st = "LIVE"
        BY <2>1 DEF Heard
      <4>2. \/ sec'.at = "orphanCancel" /\ sec'.skey = s
            \/ /\ Listed(s) /\ sec'.pos = stops[s].position
               /\ sec'.at \in {"cancelStop", "adoptRecord"}
        BY <3>1, <3>4, <4>1, RemedyBegins
      <4>3. Remedied(s)'
        BY <1>0, <3>2, <4>2 DEF Remedied
      <4> QED BY <1>0, <2>1, <4>3, AwaitedStays
    <3> QED BY <3>3, <3>4
  <2> QED BY <1>0, <2>1, QuietStops DEF NoSection, Placing
<1> QED BY <1>2, <1>3, <1>4, RemedyHand DEF Guarded

(* What the adoption and the removal of an orphan have in common.           *)
LEMMA AdoptionAt ==
  ASSUME RecoveryInv, Guarded, Adoption
  PROVE  /\ TypeInv /\ RowsAgree /\ HandAgrees /\ StartAgrees /\ StopsAccounted
         /\ lock \in Tasks /\ sec.at \in AdoptionPlaces /\ sec.skey \in StopKeys
         /\ phase["startup"] \notin {"down", "reconcile"}
         /\ phase["startup"] # "done" => lock = "startup"
         /\ UNCHANGED <<orders, positions, brokerOrders>>
<1>1. lock \in Tasks /\ sec.at \in AdoptionPlaces
  BY DEF Adoption, AdoptRecord, AdoptRefused, OrphanCancel, OrphanCancelLost, OrphanSettle,
         OrphanUnsettled, At, AdoptionPlaces
<1>2. UNCHANGED <<orders, positions, brokerOrders>>
  BY DEF Adoption, AdoptRecord, AdoptRefused, OrphanCancel, OrphanCancelLost, OrphanSettle,
         OrphanUnsettled, dbVars, brokerVars
<1>3. sec.skey \in StopKeys
  BY <1>1 DEF RecoveryInv, StartInHand
<1>4. phase["startup"] \notin {"down", "reconcile"}
  BY <1>1 DEF Guarded, StartAgrees, Starting, NoSection, AdoptionPlaces
<1>5. phase["startup"] # "done" => lock = "startup"
  BY <1>1 DEF Guarded, StartAgrees, Starting, Tasks, NoOne
<1> QED BY <1>1, <1>2, <1>3, <1>4, <1>5 DEF RecoveryInv, Guarded

(* A stop that is neither in hand nor moved is accounted for as before.     *)
LEMMA AwaitedAside ==
  ASSUME RecoveryInv, Guarded, Adoption, UNCHANGED <<phase, todo, start>>,
         NEW s \in StopKeys, Heard(s), Relied(s) \/ Awaited(s),
         brokerStops'[s] = brokerStops[s], stops'[s] = stops[s],
         ~(sec.at = "orphanCancel" /\ sec.skey = s),
         ~(Listed(s) /\ sec.at = "adoptRecord" /\ sec.pos = stops[s].position)
  PROVE  Relied(s)' \/ Awaited(s)'
<1>0. UNCHANGED <<orders, positions>> /\ sec.at \in AdoptionPlaces
  BY AdoptionAt
<1>1. (Listed(s) <=> Listed(s)') /\ (Relied(s) => Relied(s)')
  BY <1>0 DEF Listed, Relied
<1>2. CASE Awaited(s)
  <2>1. LeftBehind(s) => LeftBehind(s)'
    BY <1>0 DEF LeftBehind, Resolved, NoSection, AdoptionPlaces
  <2>2. phase["startup"] = "remedy" => Remedied(s)'
    <3>1. SUFFICES ASSUME phase["startup"] = "remedy" PROVE Remedied(s)'
      OBVIOUS
    <3>2. PICK r \in start.remedies :
            \/ r.kind = "cancel" /\ r.stop = s
            \/ /\ Listed(s) /\ r.pos = stops[s].position
               /\ r.kind = "replace" \/ (r.kind = "adopt" /\ r.stop = s)
      BY <1>0, <1>2, <3>1 DEF Awaited, Remedied, AdoptionPlaces
    <3> QED BY <1>1, <3>2 DEF Remedied
  <2> QED BY <1>1, <1>2, <2>1, <2>2 DEF Awaited
<1> QED BY <1>1, <1>2

LEMMA AdoptRecordMoves ==
  ASSUME RecoveryInv, Guarded, AdoptRecord
  PROVE  \E s \in StopKeys :
           /\ stops[s].status = "ABSENT"
           /\ stops'[s].status = "PLACING" /\ stops'[s].position = sec.pos
           /\ \A x \in StopKeys \ {s} : stops'[x] = stops[x]
           /\ brokerStops'[s].st = "LIVE" => brokerStops'[s] = brokerStops[sec.skey]
           /\ brokerStops'[sec.skey].st = "NONE"
           /\ \A x \in StopKeys \ {s, sec.skey} : brokerStops'[x] = brokerStops[x]
           /\ \A x \in StopKeys : stops[x].status \in StandingStop => stops[x].position # sec.pos
           /\ sec' = [sec EXCEPT !.skey = s, !.at = "stopActivate"]
           /\ UNCHANGED <<lock, phase, todo, start>>
<1>0. /\ stops \in [StopKeys -> StopRow] /\ brokerStops \in [StopKeys -> BrokerStop]
      /\ sec.skey \in StopKeys /\ sec \in Section
  BY TablesNow, AdoptionAt DEF Adoption, RecoveryInv, TypeInv, TypeOK, SectionOK
<1>1. PICK s \in StopKeys :
        /\ CanRecordPlacing(stops, s, sec.pos)
        /\ stops' = RecordPlacing(stops, s, sec.pos, brokerStops[sec.skey].lots)
        /\ brokerStops' = [brokerStops EXCEPT ![s] = brokerStops[sec.skey],
                                              ![sec.skey] = NoBrokerStop]
        /\ sec' = [sec EXCEPT !.skey = s, !.at = "stopActivate"]
  BY DEF AdoptRecord
<1>2. /\ stops[s].status = "ABSENT"
      /\ \A x \in StopKeys : stops[x].status \in StandingStop => stops[x].position # sec.pos
  BY <1>0, <1>1 DEF CanRecordPlacing, ActiveForPosition
<1>3. /\ stops'[s].status = "PLACING" /\ stops'[s].position = sec.pos
      /\ \A x \in StopKeys \ {s} : stops'[x] = stops[x]
  BY <1>0, <1>1 DEF RecordPlacing
<1>4. /\ brokerStops'[s].st = "LIVE" => brokerStops'[s] = brokerStops[sec.skey]
      /\ brokerStops'[sec.skey].st = "NONE"
      /\ \A x \in StopKeys \ {s, sec.skey} : brokerStops'[x] = brokerStops[x]
  BY <1>0, <1>1 DEF NoBrokerStop
<1>5. UNCHANGED <<lock, phase, todo, start>>
  BY DEF AdoptRecord, taskVars
<1> QED BY <1>1, <1>2, <1>3, <1>4, <1>5

LEMMA AdoptRecordGuards ==
  ASSUME RecoveryInv, Guarded, Loosening, AdoptRecord PROVE Guarded'
<1>0. /\ TypeInv /\ RowsAgree /\ HandAgrees /\ StartAgrees /\ StopsAccounted /\ Adoption
      /\ lock \in Tasks /\ sec.at = "adoptRecord" /\ sec.skey \in StopKeys
      /\ phase["startup"] \notin {"down", "reconcile"}
      /\ UNCHANGED <<orders, positions, brokerOrders, lock, phase, todo, start>>
  BY AdoptionAt, AdoptRecordMoves DEF Adoption, AdoptRecord, At
<1>1. PICK s \in StopKeys :
        /\ stops[s].status = "ABSENT"
        /\ stops'[s].status = "PLACING" /\ stops'[s].position = sec.pos
        /\ \A x \in StopKeys \ {s} : stops'[x] = stops[x]
        /\ brokerStops'[s].st = "LIVE" => brokerStops'[s] = brokerStops[sec.skey]
        /\ brokerStops'[sec.skey].st = "NONE"
        /\ \A x \in StopKeys \ {s, sec.skey} : brokerStops'[x] = brokerStops[x]
        /\ \A x \in StopKeys : stops[x].status \in StandingStop => stops[x].position # sec.pos
        /\ sec' = [sec EXCEPT !.skey = s, !.at = "stopActivate"]
  BY AdoptRecordMoves
<1>2. /\ sec'.skey = s /\ sec'.at = "stopActivate" /\ sec'.op = sec.op /\ sec'.pos = sec.pos
      /\ sec'.ticker = sec.ticker /\ sec'.key = sec.key /\ sec.op \notin {"close", "stop"}
      /\ sec.pos \in PositionIds
      /\ positions[sec.pos].status = "OPEN" /\ positions[sec.pos].ticker = sec.ticker
      /\ brokerStops[sec.skey].st = "LIVE" => brokerStops[sec.skey].ticker = sec.ticker
  BY <1>0, <1>1 DEF TypeInv, TypeOK, SectionOK, Section, HandAgrees, Course, StopInHand
<1>3. RowsAgree'
  <2>1. Alone'
    BY <1>0, <1>1 DEF RowsAgree, Alone, StandingStop
  <2>2. Entered'
    BY <1>0, <1>1 DEF RowsAgree, Entered
  <2>3. OneOpen'
    BY <1>0 DEF RowsAgree, OneOpen
  <2>4. NamesOwn'
    <3>1. \A p \in PositionIds : positions[p].stopKey \in StopKeys \cup {0}
      BY <1>0, TablesType DEF Tables, PositionRow
    <3> QED BY <1>0, <1>1, <3>1 DEF RowsAgree, NamesOwn
  <2> QED BY <2>1, <2>2, <2>3, <2>4 DEF RowsAgree
<1>4. HandAgrees'
  <2>1. Idle' /\ Prompt'
    BY <1>0, <1>2 DEF HandAgrees, Idle, Prompt
  <2>2. Course'
    BY <1>2 DEF Course, OrderWork, Placing
  <2>3. StopInHand'
    BY <1>0, <1>1, <1>2 DEF StopInHand, Placing
  <2>4. TakenAway'
    BY <1>2 DEF TakenAway, LetGo
  <2> QED BY <2>1, <2>2, <2>3, <2>4 DEF HandAgrees
<1>5. StartAgrees'
  <2>1. Starting'
    BY <1>0, <1>2 DEF StartAgrees, Starting
  <2>2. ResolvedFirst'
    BY <1>0, <1>2 DEF StartAgrees, ResolvedFirst, Asked
  <2>3. RemediesFit'
    <3>1. \A r \in start.remedies : r.kind # "place" => r.stop \in StopKeys
      BY DEF RecoveryInv, StartInHand, Aimed
    <3> QED BY <1>0, <1>1, <1>2, <3>1 DEF StartAgrees, RemediesFit
  <2> QED BY <2>1, <2>2, <2>3 DEF StartAgrees
<1>6. StopsAccounted'
  <2> SUFFICES ASSUME NEW x \in StopKeys, Heard(x)'
               PROVE  (BeingPlaced(x) \/ Relied(x) \/ Awaited(x))'
    BY DEF StopsAccounted
  <2>1. x # sec.skey
    BY <1>1 DEF Heard
  <2>2. CASE x = s
    BY <1>1, <1>2, <2>2 DEF Heard, BeingPlaced
  <2>3. CASE x # s
    <3>1. /\ brokerStops'[x] = brokerStops[x] /\ stops'[x] = stops[x] /\ Heard(x)
          /\ ~BeingPlaced(x)
      BY <1>0, <1>1, <2>1, <2>3, NotPlacing DEF Heard, Loosening, Placing
    <3>2. Relied(x) \/ Awaited(x)
      BY <1>0, <3>1 DEF StopsAccounted
    <3>3. ~(Listed(x) /\ sec.pos = stops[x].position)
      BY <1>1 DEF Listed, StandingStop
    <3> QED BY <1>0, <3>1, <3>2, <3>3, AwaitedAside
  <2> QED BY <2>2, <2>3
<1> QED BY <1>3, <1>4, <1>5, <1>6 DEF Guarded

LEMMA AdoptionRaisesGuards ==
  ASSUME RecoveryInv, Guarded, Loosening, AdoptRefused \/ OrphanUnsettled PROVE Guarded'
<1>0. /\ TypeInv /\ RowsAgree /\ HandAgrees /\ Prompt /\ StartAgrees /\ StopsAccounted
      /\ lock \in Tasks /\ sec.at \in AdoptionPlaces
      /\ phase["startup"] # "done" => lock = "startup"
      /\ UNCHANGED <<orders, positions, brokerOrders>>
  BY AdoptionAt DEF Adoption, HandAgrees
<1>1. UNCHANGED <<stops, brokerStops>> /\ Raise /\ start' = NoStart
  BY DEF AdoptRefused, OrphanUnsettled, dbVars, brokerVars
<1>2. sec' = NoSection /\ lock' = NoOne
  BY <1>1 DEF Raise
<1>3. phase'["startup"] = IF lock = "startup" THEN "down" ELSE phase["startup"]
  BY <1>0, <1>1 DEF Raise, Fallen, RecoveryInv, TypeInv, TypeOK, TasksOK, Tasks
<1>4. RowsAgree' /\ HandAgrees'
  BY <1>0, <1>1, <1>2, SameRowsAgree, EmptyHand
<1>5. StartAgrees'
  BY <1>0, <1>1, <1>2, <1>3, EmptyStart
     DEF StartAgrees, Starting, ResolvedFirst, RemediesFit
<1>6. StopsAccounted'
  <2>1. ASSUME NEW s \in StopKeys, Awaited(s) PROVE Awaited(s)'
    BY <1>0, <1>1, <1>3, <2>1, AwaitedStays DEF Awaited
  <2>2. sec.at \notin Placing \cup {"stopRecord"}
    BY <1>0 DEF AdoptionPlaces, Placing
  <2> QED BY <1>0, <1>1, <2>1, <2>2, QuietStops
<1> QED BY <1>4, <1>5, <1>6 DEF Guarded

LEMMA OrphanCancelGuards ==
  ASSUME RecoveryInv, Guarded, Loosening, OrphanCancel PROVE Guarded'
<1>0. /\ TypeInv /\ RowsAgree /\ HandAgrees /\ Prompt /\ StartAgrees /\ StopsAccounted
      /\ lock \in Tasks /\ sec.at = "orphanCancel" /\ sec.skey \in StopKeys
      /\ phase["startup"] \notin {"down", "reconcile"}
      /\ UNCHANGED <<orders, positions, stops, brokerOrders, phase, todo, start>>
      /\ Adoption
  BY AdoptionAt DEF Adoption, HandAgrees, OrphanCancel, At, dbVars, Goto, Leave, taskVars
<1>1. /\ brokerStops'[sec.skey].st # "LIVE"
      /\ \A s \in StopKeys \ {sec.skey} : brokerStops'[s] = brokerStops[s]
      /\ \A s \in StopKeys : brokerStops'[s].st # "NONE" => brokerStops[s].st # "NONE"
  BY <1>0, TablesNow DEF OrphanCancel, StopCancelled, BrokerStop
<1>2. \/ lock' = NoOne /\ sec' = NoSection
      \/ lock' = lock /\ sec' = [sec EXCEPT !.at = "orphanSettle"]
  BY DEF OrphanCancel, Leave, Goto
<1>3. RowsAgree'
  BY <1>0, <1>1, RowsAside
<1>4. HandAgrees'
  <2>1. CASE sec' = NoSection
    BY <1>0, <2>1, EmptyHand
  <2>2. CASE lock' = lock /\ sec' = [sec EXCEPT !.at = "orphanSettle"]
    <3>1. /\ sec'.at = "orphanSettle" /\ sec'.op = sec.op /\ sec'.pos = sec.pos
          /\ sec'.ticker = sec.ticker /\ sec'.skey = sec.skey
      BY <2>2 DEF RecoveryInv, TypeInv, TypeOK, SectionOK, Section
    <3>2. Idle' /\ Prompt'
      BY <1>0, <2>2, <3>1 DEF Idle, Prompt
    <3>3. Course'
      BY <3>1 DEF Course, OrderWork, Placing
    <3>4. StopInHand'
      BY <1>0, <1>1, <3>1 DEF HandAgrees, StopInHand, Placing
    <3>5. TakenAway'
      <4>1. LetGo' => LetGo
        BY <1>0, <3>1 DEF LetGo
      <4>2. NoneLeft(sec.pos) => NoneLeft(sec.pos)'
        BY <1>0, <1>1, <3>1 DEF NoneLeft, Heard, Loosening
      <4> QED BY <1>0, <3>1, <4>1, <4>2 DEF HandAgrees, TakenAway, NoneLeft
    <3> QED BY <3>2, <3>3, <3>4, <3>5 DEF HandAgrees
  <2> QED BY <1>2, <2>1, <2>2
<1>5. /\ sec'.at \in {"none", "orphanSettle"} /\ sec'.op \in {"none", sec.op}
      /\ lock' \in {lock, NoOne}
  BY <1>2 DEF RecoveryInv, TypeInv, TypeOK, SectionOK, Section, NoSection
<1>6. StartAgrees'
  <2>1. Starting' /\ ResolvedFirst'
    BY <1>0, <1>5 DEF StartAgrees, Starting, ResolvedFirst, Asked
  <2>2. RemediesFit'
    <3>1. \A r \in start.remedies : r.kind # "place" => r.stop \in StopKeys
      BY DEF RecoveryInv, StartInHand, Aimed
    <3> QED BY <1>0, <1>1, <1>5, <3>1 DEF StartAgrees, RemediesFit
  <2> QED BY <2>1, <2>2 DEF StartAgrees
<1>7. StopsAccounted'
  <2> SUFFICES ASSUME NEW s \in StopKeys, Heard(s)' PROVE (Relied(s) \/ Awaited(s))'
    BY DEF StopsAccounted
  <2>1. s # sec.skey /\ brokerStops'[s] = brokerStops[s] /\ stops'[s] = stops[s] /\ Heard(s)
    BY <1>0, <1>1 DEF Heard, Loosening
  <2>2. Relied(s) \/ Awaited(s)
    BY <1>0, <2>1, NotPlacing DEF StopsAccounted, Placing
  <2> QED BY <1>0, <2>1, <2>2, AwaitedAside
<1> QED BY <1>3, <1>4, <1>6, <1>7 DEF Guarded

LEMMA OrphanSettleGuards ==
  ASSUME RecoveryInv, Guarded, Loosening, OrphanSettle PROVE Guarded'
<1>0. /\ TypeInv /\ RowsAgree /\ HandAgrees /\ Prompt /\ StartAgrees /\ StopsAccounted
      /\ lock \in Tasks /\ sec.at = "orphanSettle" /\ sec.skey \in StopKeys
      /\ phase["startup"] \notin {"down", "reconcile"}
      /\ UNCHANGED <<orders, positions, brokerStops, brokerOrders, phase, todo, start>>
      /\ sec' = NoSection /\ lock' = NoOne /\ Adoption
  BY AdoptionAt DEF Adoption, HandAgrees, OrphanSettle, At, brokerVars, Leave, taskVars
<1>1. brokerStops[sec.skey].st # "LIVE"
  BY <1>0 DEF HandAgrees, StopInHand
<1>2. /\ \A s \in StopKeys \ {sec.skey} : stops'[s] = stops[s]
      /\ \A s \in StopKeys :
           /\ stops'[s].status \in StandingStop => stops[s].status \in StandingStop
           /\ stops[s].status # "ABSENT" =>
                stops'[s].status # "ABSENT" /\ stops'[s].position = stops[s].position
  BY <1>0, TablesNow
     DEF OrphanSettle, SettleStop, CanSettleStop, StandingStop, StopRow
<1>3. RowsAgree' /\ HandAgrees'
  BY <1>0, <1>2, RowsAside, EmptyHand
<1>4. StartAgrees'
  <2>1. Starting' /\ ResolvedFirst'
    BY <1>0 DEF StartAgrees, Starting, ResolvedFirst, Asked, NoSection
  <2>2. RemediesFit'
    <3>1. \A r \in start.remedies : r.kind # "place" => r.stop \in StopKeys
      BY DEF RecoveryInv, StartInHand, Aimed
    <3> QED BY <1>0, <1>2, <3>1 DEF StartAgrees, RemediesFit, NoSection
  <2> QED BY <2>1, <2>2 DEF StartAgrees
<1>5. StopsAccounted'
  <2> SUFFICES ASSUME NEW s \in StopKeys, Heard(s)' PROVE (Relied(s) \/ Awaited(s))'
    BY DEF StopsAccounted
  <2>1. s # sec.skey /\ stops'[s] = stops[s] /\ Heard(s)
    BY <1>0, <1>1, <1>2, SameHeard DEF Heard
  <2>2. Relied(s) \/ Awaited(s)
    BY <1>0, <2>1, NotPlacing DEF StopsAccounted, Placing
  <2> QED BY <1>0, <2>1, <2>2, AwaitedAside
<1> QED BY <1>3, <1>4, <1>5 DEF Guarded

LEMMA AdoptionGuards ==
  ASSUME RecoveryInv, Guarded, Answering, Loosening, Adoption PROVE Guarded'
<1>1. ~OrphanCancelLost
  BY DEF OrphanCancelLost, Answering
<1> QED BY <1>1, AdoptRecordGuards, AdoptionRaisesGuards, OrphanCancelGuards,
           OrphanSettleGuards DEF Adoption

-----------------------------------------------------------------------------
(* The invariant, and what it shows.                                        *)

(* Only the owner lifts a halt.                                             *)
LEMMA HaltKeptAtWork ==
  ASSUME "halt" \notin Faults, [Next]_vars PROVE halted' = halted \/ halted' = TRUE
<1>1. CASE Holder
  BY <1>1 DEF Holder, RecordIntent, RecordNoLots, RecordExecution, NewRow, Post,
     PostFilled, PostRefused, PostLost, PostPending, PostPartial, PostCancelled,
     Query, QueryLost, CancelOrder, CancelOrderLost, Reread, RereadLost, SettleReply,
     SettleTwice, Lookup, LookupFails, OpenFromFill, StopRecord, StopRecordRefused,
     StopPost, StopPostLost, StopActivate, StopProtect, StopFail,
     CancelStop, CancelStopLost, CancelSettle, Demote, ExecSettle,
     ExecLocal, FinishClose, StartCooldown, Shrink, dbVars
<1>2. CASE DbFails
  BY <1>2 DEF DbFails, WriteFails, StopSettleFails, StopFailUnwritten, CooldownUnwritten, dbVars
<1>3. CASE Trading \/ Drain
  BY <1>3 DEF Trading, StartCycle, ReadBook, ToExits, ToEntries, EndCycle, BeginResolve,
              BeginCloseExecuted, BeginClose, BeginOpen, Drain, Signal, DrainPoll,
              DrainPolled, dbVars
<1>4. CASE Environment
  BY <1>4 DEF Environment, Halt, Resume, CooldownEnds, Broker, BrokerFill, BrokerCancel,
              StopFires, StopRefused, StopSellsOn, dbVars
<1>5. CASE UNCHANGED vars
  BY <1>5 DEF vars, dbVars
<1> QED BY <1>1, <1>2, <1>3, <1>4, <1>5 DEF Next, Process

LEMMA HaltKept ==
  ASSUME "halt" \notin Faults, RecoveryNext PROVE halted' = halted \/ halted' = TRUE
<1> USE DEF dbVars
<1>1. CASE Operation \/ Working \/ Outside
  BY <1>1, WorkIsNext, HaltKeptAtWork
<1>2. CASE Reconcile
  BY <1>2 DEF Reconcile, ReadPortfolio, ReadStops, ExitCooldown, ExitStop, Matches, AdjustLots,
              ExitFound, ExitUnresolved, AdoptHolding, ReportForeign
<1>3. CASE ApplyRemedies \/ Adoption
  BY <1>3 DEF ApplyRemedies, CancelExcess, ReplaceStop, AdoptStop, PlaceStop, Remedies, Adoption,
              AdoptRecord, AdoptRefused, OrphanCancel, OrphanCancelLost, OrphanSettle,
              OrphanUnsettled
<1>4. CASE \/ ProcessEnds \/ Boot \/ Resolving \/ Finish \/ StartAborts
           \/ \E t \in Tickers : OwnerSells(t)
  BY <1>4 DEF ProcessEnds, Boot, Resolving, BeginResolve, Finish, StartAborts, OwnerSells
<1> QED BY <1>1, <1>2, <1>3, <1>4 DEF RecoveryNext

LEMMA GuardedInit == RecoveryInit => Guarded
<1> SUFFICES ASSUME RecoveryInit PROVE Guarded
  OBVIOUS
<1>0. /\ \A k \in OrderKeys : orders[k] = NoOrder /\ brokerOrders[k] = NoBrokerOrder
      /\ \A p \in PositionIds : positions[p] = NoPosition
      /\ \A s \in StopKeys : stops[s] = NoStop /\ brokerStops[s] = NoBrokerStop
      /\ sec = NoSection /\ phase["startup"] = "done" /\ start = NoStart
  BY DEF RecoveryInit, Init, AtFirst, Tasks
<1>1. RowsAgree
  BY <1>0 DEF RowsAgree, Alone, Entered, OneOpen, NamesOwn, NoPosition, NoStop, NoBrokerStop,
              StandingStop
<1>2. HandAgrees
  <2>1. Idle /\ Prompt
    BY <1>0 DEF Idle, Prompt, NoSection, NoBrokerOrder
  <2>2. Course /\ StopInHand /\ TakenAway
    BY <1>0 DEF Course, StopInHand, TakenAway, LetGo, NoSection, OrderWork, Placing
  <2> QED BY <2>1, <2>2 DEF HandAgrees
<1>3. StartAgrees
  BY <1>0, EmptyStart DEF StartAgrees, Starting, ResolvedFirst, RemediesFit
<1>4. StopsAccounted
  BY <1>0 DEF StopsAccounted, Heard, NoBrokerStop
<1> QED BY <1>1, <1>2, <1>3, <1>4 DEF Guarded

LEMMA GuardedStutter == ASSUME Guarded, UNCHANGED allVars PROVE Guarded'
<1>0. UNCHANGED <<orders, positions, stops, brokerOrders, brokerStops, lock, sec, phase, todo,
                  start, loose>>
  BY DEF allVars, vars, dbVars, brokerVars, taskVars
<1>1. RowsAgree'
  BY <1>0 DEF Guarded, RowsAgree, Alone, Entered, OneOpen, NamesOwn
<1>2. HandAgrees'
  BY <1>0 DEF Guarded, HandAgrees, Idle, Prompt, Course, StopInHand, TakenAway, LetGo, NoneLeft,
              Heard
<1>3. StartAgrees'
  BY <1>0 DEF Guarded, StartAgrees, Starting, ResolvedFirst, Asked, RemediesFit
<1>4. StopsAccounted'
  BY <1>0 DEF Guarded, StopsAccounted, Heard, BeingPlaced, Relied, Awaited, Listed, LeftBehind,
              Resolved, Remedied
<1> QED BY <1>1, <1>2, <1>3, <1>4 DEF Guarded

LEMMA ReconcileGuards ==
  ASSUME RecoveryInv, Guarded, Answering, Loosening, Reconcile PROVE Guarded'
BY MatchesGuards, AdjustLotsGuards, ExitFoundGuards, ExitStopGuards, ReadPortfolioGuards,
   NothingAdopted, ReadStopsGuards DEF Reconcile

LEMMA GuardedStep ==
  ASSUME RecoveryInv, Guarded, Answering, NothingLost, RecoveryNext PROVE Guarded'
<1>0. Loosening
  BY DEF RecoveryNext, Loosening
<1>1. CASE Operation \/ Working \/ Outside
  BY <1>0, <1>1, GuardedWork DEF Work
<1>2. CASE Reconcile
  BY <1>0, <1>2, ReconcileGuards
<1>3. CASE ApplyRemedies
  BY <1>0, <1>3, RemedyGuards DEF ApplyRemedies
<1>4. CASE Adoption
  BY <1>0, <1>4, AdoptionGuards
<1>5. CASE \/ ProcessEnds \/ Boot \/ Resolving \/ Finish \/ StartAborts
           \/ \E t \in Tickers : OwnerSells(t)
  BY <1>0, <1>5, ProcessEndsGuards, BootGuards, OwnerSellsGuards, ResolvingGuards, FinishGuards
<1> QED BY <1>1, <1>2, <1>3, <1>4, <1>5 DEF RecoveryNext

(* What is accounted for in a bot that is ready, and away from the section, *)
(* is relied on.                                                            *)
LEMMA GuardedBinds == ASSUME RecoveryInv, Guarded PROVE LiveStopIsBound
<1> SUFFICES ASSUME Ready, NEW s \in StopKeys, Heard(s), AtRest(brokerStops[s].ticker)
             PROVE  \E p \in OpenOn(positions, brokerStops[s].ticker) :
                      /\ positions[p].protection = "EXCHANGE"
                      /\ s \in ActiveForPosition(stops, p)
  BY DEF LiveStopIsBound, Heard
<1>1. ~Awaited(s) /\ ~BeingPlaced(s)
  BY DEF Ready, Awaited, BeingPlaced, AtRest
<1>2. Relied(s)
  BY <1>1 DEF Guarded, StopsAccounted
<1>3. DOMAIN positions = PositionIds /\ DOMAIN stops = StopKeys
  BY TablesNow
<1> QED BY <1>2, <1>3 DEF Relied, Listed, OpenOn, ActiveForPosition, StandingStop

(* A stop has one owner, whenever the process ends and whatever the next    *)
(* one corrects: while trading is not halted, what the broker would still   *)
(* execute is bound to the open position of its ticker, which relies on it. *)
(* Shown where the broker's answers arrive and its orders are filled at     *)
(* once or not at all, and where no one lifts the halt of a lost write.     *)
THEOREM StopsBoundThroughCrashes ==
  ASSUME "slow" \notin Faults, "deaf" \notin Faults, "db" \notin Faults \/ "halt" \notin Faults
  PROVE  RecoverySpec => []LiveStopIsBound
<1> DEFINE Certain == Guarded \/ (halted /\ "db" \in Faults)
<1>1. RecoveryInit => Certain
  BY GuardedInit
<1>2. RecoveryInv /\ Certain /\ [RecoveryNext]_allVars => Certain'
  <2>1. ASSUME RecoveryInv, Guarded, RecoveryNext PROVE Certain'
    <3>1. NothingLost \/ (halted' /\ "db" \in Faults)
      BY DEF NothingLost
    <3>2. NothingLost => Guarded'
      BY <2>1, GuardedStep DEF Answering
    <3> QED BY <3>1, <3>2
  <2>2. ASSUME Guarded, UNCHANGED allVars PROVE Certain'
    BY <2>2, GuardedStutter
  <2>3. ASSUME halted, "db" \in Faults, RecoveryNext \/ UNCHANGED allVars PROVE Certain'
    <3>1. CASE RecoveryNext
      <4>1. halted' = halted \/ halted' = TRUE
        BY <2>3, <3>1, HaltKept
      <4>2. halted'
        BY <2>3, <4>1, Zenon
      <4> QED BY <2>3, <4>2
    <3>2. CASE UNCHANGED allVars
      <4>1. halted' = halted
        BY <3>2 DEF allVars, vars, dbVars
      <4>2. halted'
        BY <2>3, <4>1, Zenon
      <4> QED BY <2>3, <4>2
    <3> QED BY <2>3, <3>1, <3>2
  <2> QED BY <2>1, <2>2, <2>3
<1>3. RecoveryInv /\ Guarded => LiveStopIsBound
  BY GuardedBinds
<1>4. halted => LiveStopIsBound
  BY DEF LiveStopIsBound
<1> QED BY <1>1, <1>2, <1>3, <1>4, RecoveryInvariant, PTL DEF RecoverySpec
=============================================================================
