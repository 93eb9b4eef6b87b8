---------------------------- MODULE StopsProofs ----------------------------
(***************************************************************************)
(* A position and the stop that protects it: three records, the position's *)
(* row, the stop's row and the broker's stop, written one after the other. *)
(*                                                                         *)
(* The theorems say which of the faults they exclude: a post whose outcome *)
(* is unknown leaves a stop the bot has given up, and an old exit that     *)
(* fills late shrinks a position beside its stop.  A database write that   *)
(* fails leaves the three apart too, and halts trading, but for two: the   *)
(* settling of a stop that was cancelled or executed, and the end of one   *)
(* that was refused.  The lemmas are about steps that lose no other, so    *)
(* that what they say holds until the halt.                                *)
(***************************************************************************)
EXTENDS BooksProofs

Placing == {"stopPost", "stopActivate", "stopProtect", "stopFail"}

(* A stop the bot counts on.  A row left PLACING by a stop that was        *)
(* refused, when its end could not be written, is none.                    *)
Stands(s) == \/ stops[s].status = "ACTIVE"
             \/ stops[s].status = "PLACING" /\ sec.at \in Placing /\ sec.skey = s
Bare(p) == \A s \in StopKeys : Stands(s) => stops[s].position # p

(* The unique index: one standing row to a position.                       *)
Alone ==
  \A s, r \in StopKeys :
    /\ stops[s].status \in StandingStop /\ stops[r].status \in StandingStop
    /\ stops[s].position = stops[r].position
    => s = r

(* Between two operations nothing is in hand.                              *)
Idle == lock \notin Tasks => sec = NoSection

(* Only a start replaces a stop.                                           *)
Ordinary == sec.op # "replace"

(* A standing stop is the one being placed, or its position names it.      *)
StandingFits ==
  \A s \in StopKeys :
    Stands(s) =>
      /\ stops[s].position \in PositionIds
      /\ positions[stops[s].position].status = "OPEN"
      /\ \/ sec.at \in Placing /\ sec.skey = s
         \/ /\ stops[s].status = "ACTIVE"
            /\ positions[stops[s].position].protection = "EXCHANGE"
            /\ positions[stops[s].position].stopKey = s

PlacedInHand ==
  /\ sec.at \in Placing \cup {"lookup", "openRow", "stopRecord"} => sec.op \in {"open", "resolve"}
  /\ sec.at \in Placing \cup {"stopRecord"} =>
       positions[sec.pos].status = "OPEN" /\ positions[sec.pos].protection = "LOCAL"
  /\ sec.at \in Placing =>
       /\ stops[sec.skey].position = sec.pos
       /\ stops[sec.skey].status = IF sec.at = "stopProtect" THEN "ACTIVE" ELSE "PLACING"

(* Where an operation has taken the stop away, none is left.               *)
Stripped ==
  \/ sec.at \in {"demote", "execLocal", "closeRow"}
  \/ sec.op = "close" /\ sec.at \notin {"cancelStop", "cancelSettle"}
  \/ sec.op = "stop" /\ sec.at # "execSettle"

TakenInHand ==
  /\ sec.at = "cancelSettle" =>
       /\ stops[sec.skey].position = sec.pos
       /\ \A s \in StopKeys : Stands(s) /\ stops[s].position = sec.pos => s = sec.skey
  /\ sec.at = "execSettle" =>
       /\ positions[sec.pos].stopKey \in StopKeys
       /\ stops[positions[sec.pos].stopKey].position = sec.pos
       /\ positions[sec.pos].protection = "EXCHANGE"
  /\ Stripped => Bare(sec.pos)

BoundToStop ==
  \A p \in PositionIds :
    positions[p].protection = "EXCHANGE" =>
      /\ positions[p].status = "OPEN"
      /\ \/ BeingDemoted(p)
         \/ /\ positions[p].stopKey \in StopKeys
            /\ stops[positions[p].stopKey].status = "ACTIVE"
            /\ stops[positions[p].stopKey].position = p

(* A step that finds or leaves trading halted may have lost a write.       *)
NothingLost == "db" \in Faults => ~halted'

StopsInv == /\ BooksInv /\ Idle /\ Ordinary /\ Alone
            /\ StandingFits /\ PlacedInHand /\ TakenInHand /\ BoundToStop

-----------------------------------------------------------------------------
LEMMA IdleStep ==
  ASSUME TypeInv, Idle, [Next]_vars
  PROVE  Idle'
<1>1. CASE Leave \/ Raise \/ LeaveOpened
  BY <1>1 DEF Leave, Raise, LeaveOpened, Idle
<1>2. CASE lock \in Tasks /\ UNCHANGED lock
  BY <1>2 DEF Idle
<1>3. CASE UNCHANGED <<lock, sec>>
  BY <1>3 DEF Idle
<1>4. CASE lock' \in Tasks
  BY <1>4 DEF Idle
<1>5. CASE Holder
  <2>1. lock \in Tasks
    BY <1>5 DEF Holder, RecordIntent, RecordNoLots, RecordExecution, Post, PostFilled,
     PostRefused, PostLost, PostPending, PostPartial, PostCancelled, Query, QueryLost,
     CancelOrder, CancelOrderLost, Reread, RereadLost, SettleReply, SettleTwice, Lookup,
     LookupFails, OpenFromFill, StopRecord, StopRecordRefused, StopPost, StopPostLost,
     StopActivate, StopProtect, StopFail, CancelStop, CancelStopLost, CancelSettle, Demote,
     ExecSettle, ExecLocal, FinishClose, StartCooldown, Shrink, At
  <2>2. UNCHANGED lock \/ Leave \/ Raise \/ LeaveOpened
    BY <1>5 DEF Holder, RecordIntent, RecordNoLots, RecordExecution, NewRow, Post, PostFilled,
     PostRefused, PostLost, PostPending, PostPartial, PostCancelled, OutcomeUnknown, NoAnswer,
     Query, QueryLost, CancelOrder, CancelOrderLost, Reread, RereadLost, SettleReply,
     AfterOpen, AfterClose, AfterResolve,
     SettleTwice, Lookup, LookupFails, OpenFromFill, StopRecord, StopRecordRefused,
     StopPost, StopPostLost, StopActivate, StopProtect, StopFail, TryAgain,
     CancelStop, CancelStopLost, CancelSettle, Demote, ExecSettle,
     ExecLocal, FinishClose, StartCooldown, Shrink, Goto, Reply
  <2> QED BY <1>1, <1>2, <2>1, <2>2
<1>6. CASE DbFails
  <2>1. lock \in Tasks /\ (UNCHANGED lock \/ Leave \/ Raise \/ LeaveOpened)
    BY <1>6 DEF DbFails, WriteFails, StopSettleFails, StopFailUnwritten, CooldownUnwritten,
                At, TryAgain
  <2> QED BY <1>1, <1>2, <2>1
<1>7. CASE Trading \/ Drain
  <2>1. ASSUME NEW task \in Tasks, NEW section, Enter(task, section) PROVE lock' \in Tasks
    BY <2>1 DEF Enter
  <2>2. ASSUME NEW t, BeginOpen(t) PROVE lock' \in Tasks
    BY <2>2 DEF BeginOpen, Enter, Tasks
  <2> QED BY <1>3, <1>4, <1>7, <2>1, <2>2
          DEF Trading, StartCycle, ReadBook, ToExits, ToEntries, EndCycle, BeginResolve,
              BeginCloseExecuted, BeginClose, Drain, Signal, DrainPoll, DrainPolled, Tasks
<1>8. CASE Environment \/ UNCHANGED vars
  BY <1>3, <1>8, EnvironmentControl DEF vars
<1> QED BY <1>5, <1>6, <1>7, <1>8 DEF Next, Process

LEMMA OrdinaryStep ==
  ASSUME TypeInv, Ordinary, [Next]_vars
  PROVE  Ordinary'
<1>1. CASE sec' = NoSection
  BY <1>1 DEF Ordinary, NoSection
<1>2. CASE Turns
  BY <1>2 DEF Ordinary, Turns, Onward
<1>3. CASE Begins
  BY <1>3 DEF Ordinary, Begins
<1>4. CASE Records
  BY <1>4, RecordedRow DEF Ordinary
<1>5. CASE SettleReply
  <2>1. sec \in Section
    BY DEF TypeInv, TypeOK, SectionOK
  <2>2. ASSUME NEW place, sec' = [sec EXCEPT !.at = place] PROVE sec'.op = sec.op
    BY <2>1, <2>2 DEF Section
  <2>3. ASSUME NEW p, NEW place, sec' = [sec EXCEPT !.pos = p, !.at = place]
        PROVE  sec'.op = sec.op
    BY <2>1, <2>3 DEF Section
  <2>4. sec'.at \in {"openRow", "lookup", "closeRow"} /\ sec' = [sec EXCEPT !.at = sec'.at]
        => sec'.op = sec.op
    BY <2>2, Zenon
  <2>5. sec' = [sec EXCEPT !.pos = sec'.pos, !.at = sec'.at] => sec'.op = sec.op
    BY <2>3, Zenon
  <2> QED BY <1>1, <1>5, <2>4, <2>5, SettledSection DEF Ordinary
<1>6. CASE OpenFromFill
  BY <1>6, OpenedSection DEF Ordinary, NoSection
<1> QED BY <1>1, <1>2, <1>3, <1>4, <1>5, <1>6, SectionStep DEF Ordinary

LEMMA BeginsIdle ==
  ASSUME Idle, Begins PROVE sec = NoSection
BY DEF Idle, Begins, NoOne, Tasks

(* Which actions change the stops table.                                   *)
LEMMA StopsStep ==
  ASSUME [Next]_vars
  PROVE  \/ UNCHANGED stops
         \/ StopRecord \/ StopActivate \/ StopFail \/ CancelSettle \/ ExecSettle
<1>1. CASE Holder
  BY <1>1 DEF Holder, RecordIntent, RecordNoLots, RecordExecution, NewRow, Post, PostFilled,
     PostRefused, PostLost, PostPending, PostPartial, PostCancelled, Query, QueryLost,
     CancelOrder, CancelOrderLost, Reread, RereadLost, SettleReply, SettleTwice, Lookup,
     LookupFails, OpenFromFill, StopRecordRefused, StopPost, StopPostLost, StopProtect,
     CancelStop, CancelStopLost, Demote, ExecLocal, FinishClose, StartCooldown, Shrink, dbVars
<1>2. CASE DbFails
  BY <1>2 DEF DbFails, WriteFails, StopSettleFails, StopFailUnwritten, CooldownUnwritten,
              dbVars
<1>3. CASE Trading \/ Drain
  BY <1>3 DEF Trading, StartCycle, ReadBook, ToExits, ToEntries, EndCycle, BeginResolve,
              BeginCloseExecuted, BeginClose, BeginOpen, Drain, Signal, DrainPoll,
              DrainPolled, dbVars
<1>4. CASE Environment
  BY <1>4 DEF Environment, Halt, Resume, CooldownEnds, Broker, BrokerFill, BrokerCancel,
              StopFires, StopRefused, StopSellsOn, dbVars
<1>5. CASE UNCHANGED vars
  BY <1>5 DEF vars, dbVars
<1> QED BY <1>1, <1>2, <1>3, <1>4, <1>5 DEF Next, Process

-----------------------------------------------------------------------------
(* The kinds of step, as the stops and the positions see them. *)

SameRows ==
  /\ UNCHANGED stops
  /\ \A p \in PositionIds : /\ positions'[p].status = positions[p].status
                            /\ positions'[p].protection = positions[p].protection
                            /\ positions'[p].stopKey = positions[p].stopKey

OrderWork == {"recordIntent", "post", "query", "cancelOrder", "reread", "settleReply",
              "lookup"}

Still == SameRows /\ sec' = sec

Leaving == /\ SameRows /\ sec' = NoSection
           /\ sec.at \notin Placing \cup {"demote", "execLocal"}

(* An order is worked on, and then what its answer asks for.               *)
Passing ==
  /\ SameRows
  /\ sec.at \in OrderWork
  /\ sec'.at \in OrderWork \cup {"openRow", "closeRow", "cancelStop", "shrink"}
  /\ sec'.op = sec.op
  /\ \/ sec'.at \in {"cancelStop", "shrink"} /\ sec.op = "resolve"
     \/ sec'.at \notin {"cancelStop", "shrink"} /\ sec'.pos = sec.pos
  /\ sec'.at = "closeRow" => sec.op \in {"close", "stop"}
  /\ sec'.at \in {"lookup", "openRow"} => sec.op \in {"open", "resolve"} \/ sec.at = "lookup"

StopWork == \/ StopRecord \/ StopPost \/ StopPostLost \/ StopActivate \/ StopProtect
            \/ StopFail \/ StopFailUnwritten \/ CancelStop \/ CancelSettle \/ Demote
            \/ ExecSettle \/ ExecLocal

LEMMA SameTables == ASSUME UNCHANGED <<positions, stops>> PROVE SameRows
BY DEF SameRows

LEMMA AsksKind ==
  ASSUME TypeInv, Post \/ Query \/ QueryLost \/ CancelOrder \/ CancelOrderLost
                  \/ Reread \/ RereadLost
  PROVE  Leaving \/ Passing
<1>1. sec.at \in {"post", "query", "cancelOrder", "reread"}
  BY DEF Post, PostFilled, PostRefused, PostLost, PostPending, PostPartial, PostCancelled,
         Query, QueryLost, CancelOrder, CancelOrderLost, Reread, RereadLost, At
<1>2. SameRows
  BY SameTables DEF Post, PostFilled, PostRefused, PostLost, PostPending, PostPartial,
         PostCancelled, Query, QueryLost, CancelOrder, CancelOrderLost, Reread, RereadLost,
         dbVars
<1>3. CASE sec' = NoSection
  BY <1>1, <1>2, <1>3 DEF Leaving, Placing
<1>4. CASE Turns
  <2>1. PICK turning \in Turnings : Onward(turning[1], turning[2])
    BY <1>4 DEF Turns
  <2>2. PICK from, to : turning = <<from, to>> /\ <<from, to>> \in Turnings
    BY <2>1 DEF Turnings
  <2>3. sec.at = from /\ sec'.at = to /\ sec'.op = sec.op /\ sec'.pos = sec.pos
    BY <2>1, <2>2 DEF Onward
  <2>4. to \in {"cancelOrder", "reread", "settleReply"}
    BY <1>1, <2>2, <2>3 DEF Turnings
  <2> QED BY <1>1, <1>2, <2>3, <2>4 DEF Passing, OrderWork
<1> QED BY <1>3, <1>4, AsksTurn

LEMMA RecordsKind ==
  ASSUME TypeInv, Records
  PROVE  Passing
<1>1. SameRows
  BY SameTables DEF Records, RecordIntent, RecordNoLots, RecordExecution, NewRow
<1> QED BY <1>1, RecordedRow DEF Passing, OrderWork

LEMMA SettleKind ==
  ASSUME TypeInv, SettleReply
  PROVE  Leaving \/ Passing
<1>1. SameRows
  BY SameTables DEF SettleReply
<1>2. sec.at = "settleReply" /\ sec \in Section
  BY SettledSection DEF TypeInv, TypeOK, SectionOK
<1>3. CASE sec' = NoSection
  BY <1>1, <1>2, <1>3 DEF Leaving, Placing
<1>4. CASE sec' # NoSection
  <2>1. sec'.op = sec.op
    BY <1>2, <1>4, SettledSection DEF Section
  <2>2. \/ sec'.at \in {"cancelStop", "shrink"} /\ sec.op = "resolve"
        \/ sec'.at \in {"openRow", "lookup", "closeRow"} /\ sec'.pos = sec.pos
    BY <1>2, <1>4, SettledSection DEF Section
  <2>3. /\ sec'.at = "closeRow" => sec.op \in {"close", "stop"}
        /\ sec'.at \in {"lookup", "openRow"} => sec.op \in {"open", "resolve"}
    BY <1>2, <1>4, SettledSection DEF Section
  <2> QED BY <1>1, <1>2, <2>1, <2>2, <2>3 DEF Passing, OrderWork
<1> QED BY <1>3, <1>4

LEMMA OthersKind ==
  ASSUME TypeInv, Idle, NothingLost, DbFails \/ Trading \/ Drain \/ Environment \/ UNCHANGED vars
  PROVE  Still \/ Leaving \/ (Begins /\ sec = NoSection) \/ StopFailUnwritten
<1>1. DbFails => StopSettleFails \/ StopFailUnwritten
  BY DEF NothingLost, DbFails, WriteFails, CooldownUnwritten
<1>2. CASE StopSettleFails
  <2>1. sec.at \in {"cancelSettle", "execSettle"} /\ sec' = NoSection /\ SameRows
    BY <1>2, SameTables DEF StopSettleFails, Raise, dbVars
  <2> QED BY <2>1 DEF Leaving, Placing
<1> SUFFICES ASSUME Trading \/ Drain \/ Environment \/ UNCHANGED vars
             PROVE  Still \/ (Begins /\ sec = NoSection)
  BY <1>1, <1>2
<1>3. UNCHANGED <<positions, stops>>
  BY DEF vars, dbVars, Trading, StartCycle, ReadBook, ToExits, ToEntries, EndCycle,
     BeginResolve, BeginCloseExecuted, BeginClose, BeginOpen, Drain, Signal, DrainPoll,
     DrainPolled, Environment, Halt, Resume, CooldownEnds, Broker, BrokerFill, BrokerCancel,
     StopFires, StopRefused, StopSellsOn
<1>4. CASE sec' = sec
  BY <1>3, <1>4, SameTables DEF Still
<1>5. CASE sec' # sec
  BY <1>5, OthersBegin, BeginsIdle
<1> QED BY <1>4, <1>5

LEMMA StopsKind ==
  ASSUME TypeInv, Idle, NothingLost, [Next]_vars
  PROVE  \/ Still \/ Leaving \/ Passing \/ (Begins /\ sec = NoSection)
         \/ StopWork
         \/ OpenFromFill /\ ~UNCHANGED positions
         \/ FinishClose /\ ~UNCHANGED positions
<1>1. CASE Holder
  <2>1. CASE Lookup
    <3>1. sec.at = "lookup" /\ Goto("openRow") /\ UNCHANGED <<positions, stops>>
      BY <2>1 DEF Lookup, At, dbVars
    <3>2. Onward("lookup", "openRow")
      BY <3>1, GotoOnward DEF TypeInv, TypeOK
    <3> QED BY <3>1, <3>2, SameTables DEF Passing, OrderWork, Onward
  <2>2. CASE SettleTwice \/ LookupFails \/ StopRecordRefused \/ CancelStopLost \/ StartCooldown
    <3>1. sec' = NoSection /\ UNCHANGED <<positions, stops>>
      BY <2>2 DEF SettleTwice, LookupFails, StopRecordRefused, CancelStopLost, StartCooldown,
                  Leave, Raise, dbVars
    <3>2. sec.at \in {"settleReply", "lookup", "stopRecord", "cancelStop", "cooldown"}
      BY <2>2 DEF SettleTwice, LookupFails, StopRecordRefused, CancelStopLost, StartCooldown, At
    <3> QED BY <3>1, <3>2, SameTables DEF Leaving, Placing
  <2>3. CASE OpenFromFill /\ UNCHANGED positions
    <3>1. sec.at = "openRow" /\ UNCHANGED stops
      BY <2>3 DEF OpenFromFill, At
    <3>2. sec' = NoSection
      BY <2>3, OpenedSection DEF OpenRow, TypeInv, TypeOK, TablesOK
    <3> QED BY <2>3, <3>1, <3>2, SameTables DEF Leaving, Placing
  <2>4. CASE FinishClose /\ UNCHANGED positions
    <3>1. sec.at = "closeRow" /\ UNCHANGED stops /\ sec.pos \in PositionIds
      BY <2>4 DEF FinishClose, At, TypeInv, Located, PositionPlaces
    <3>2. ~CanClose(positions, sec.pos)
      <4>1. ASSUME CanClose(positions, sec.pos) PROVE FALSE
        <5>0. /\ positions \in [PositionIds -> PositionRow]
              /\ positions' = CloseRow(positions, sec.pos, sec.trigger, sec.key)
          BY <2>4, <4>1 DEF FinishClose, TypeInv, TypeOK, TablesOK
        <5>1. positions'[sec.pos].status = "CLOSED" /\ positions[sec.pos].status = "OPEN"
          BY <3>1, <4>1, <5>0 DEF CloseRow, CanClose, PositionRow
        <5> QED BY <2>4, <5>1
      <4> QED BY <4>1
    <3>3. sec' = NoSection
      BY <2>4, <3>2 DEF FinishClose, Raise
    <3> QED BY <2>4, <3>1, <3>3, SameTables DEF Leaving, Placing
  <2>5. CASE Shrink
    <3>1. sec.at = "shrink" /\ sec' = NoSection /\ UNCHANGED stops /\ sec.pos \in PositionIds
          /\ positions \in [PositionIds -> PositionRow]
          /\ positions' = UpdateLots(positions, sec.pos, positions[sec.pos].lots - sec.got)
      BY <2>5 DEF Shrink, At, Leave, TypeInv, TypeOK, TablesOK, Located, PositionPlaces
    <3>2. SameRows
      BY <3>1 DEF SameRows, UpdateLots, PositionRow
    <3> QED BY <3>1, <3>2 DEF Leaving, Placing
  <2> QED BY <1>1, <2>1, <2>2, <2>3, <2>4, <2>5, AsksKind, RecordsKind, SettleKind
          DEF Holder, Records, StopWork
<1>2. CASE DbFails \/ Trading \/ Drain \/ Environment \/ UNCHANGED vars
  BY <1>2, OthersKind DEF StopWork
<1> QED BY <1>1, <1>2 DEF Next, Process

-----------------------------------------------------------------------------
(* Each kind of step keeps the three records together. *)

Bound == StandingFits /\ PlacedInHand /\ TakenInHand /\ BoundToStop

Tables == /\ positions \in [PositionIds -> PositionRow]
          /\ stops \in [StopKeys -> StopRow]
          /\ sec \in Section

LEMMA TablesType == ASSUME TypeInv PROVE Tables
BY DEF TypeInv, TypeOK, TablesOK, SectionOK, Tables

LEMMA SameFits ==
  ASSUME Tables, Bound, SameRows,
         sec' = sec \/ (sec.at \notin Placing /\ sec'.at \notin Placing)
  PROVE  StandingFits'
BY DEF Tables, Bound, StandingFits, SameRows, Stands

LEMMA SameBound ==
  ASSUME Tables, Bound, SameRows, sec.at \notin {"demote", "execLocal"} \/ sec' = sec
  PROVE  BoundToStop'
<1> SUFFICES ASSUME NEW p \in PositionIds, positions'[p].protection = "EXCHANGE"
             PROVE  /\ positions'[p].status = "OPEN"
                    /\ \/ BeingDemoted(p)'
                       \/ /\ positions'[p].stopKey \in StopKeys
                          /\ stops'[positions'[p].stopKey].status = "ACTIVE"
                          /\ stops'[positions'[p].stopKey].position = p
  BY DEF BoundToStop, BeingDemoted
<1> QED BY DEF Bound, BoundToStop, BeingDemoted, SameRows

LEMMA StillBound == ASSUME TypeInv, Bound, Still PROVE Bound'
<1>1. StandingFits' /\ BoundToStop'
  BY TablesType, SameFits, SameBound DEF Still
<1>2. PlacedInHand'
  BY DEF Still, SameRows, Bound, PlacedInHand, Located, TypeInv, PositionPlaces, StopPlaces,
         Placing
<1>3. TakenInHand'
  BY DEF Still, SameRows, Bound, TakenInHand, Located, TypeInv, PositionPlaces, StopPlaces,
         Stands, Bare, Stripped
<1> QED BY <1>1, <1>2, <1>3 DEF Bound

LEMMA LeavingBound == ASSUME TypeInv, Bound, Leaving PROVE Bound'
<1>1. StandingFits' /\ BoundToStop'
  BY TablesType, SameFits, SameBound DEF Leaving, NoSection, Placing
<1>2. PlacedInHand' /\ TakenInHand'
  BY DEF Leaving, NoSection, PlacedInHand, TakenInHand, Placing, Stripped
<1> QED BY <1>1, <1>2 DEF Bound

LEMMA PassingBound == ASSUME TypeInv, Bound, Passing PROVE Bound'
<1>1. sec.at \notin Placing \cup {"demote", "execLocal", "cancelStop", "cancelSettle",
                                  "execSettle", "stopRecord"}
  BY DEF Passing, OrderWork, Placing
<1>2. sec'.at \notin Placing \cup {"demote", "execLocal", "cancelSettle", "execSettle",
                                   "stopRecord"}
  BY DEF Passing, OrderWork, Placing
<1>3. StandingFits' /\ BoundToStop'
  BY <1>1, <1>2, TablesType, SameFits, SameBound DEF Passing
<1>4. PlacedInHand'
  BY <1>1, <1>2 DEF Passing, PlacedInHand, Bound
<1>5. TakenInHand'
  <2>1. SUFFICES ASSUME Stripped' PROVE Bare(sec.pos)'
    BY <1>2 DEF TakenInHand
  <2>2. Stripped /\ sec'.pos = sec.pos
    BY <1>1, <1>2, <2>1 DEF Passing, Stripped, OrderWork
  <2>3. Bare(sec.pos)
    BY <2>2 DEF Bound, TakenInHand
  <2> QED BY <1>2, <2>2, <2>3 DEF Passing, SameRows, Bare, Stands
<1> QED BY <1>3, <1>4, <1>5 DEF Bound

LEMMA BeginsBound == ASSUME TypeInv, Bound, Begins, sec = NoSection PROVE Bound'
<1>1. SameRows /\ sec.at \notin Placing \cup {"demote", "execLocal"}
  BY SameTables DEF Begins, dbVars, NoSection, Placing
<1>2. sec'.at \notin Placing
  BY DEF Begins, Placing
<1>3. StandingFits' /\ BoundToStop'
  BY <1>1, <1>2, TablesType, SameFits, SameBound
<1> SUFFICES PlacedInHand' /\ TakenInHand'
  BY <1>3 DEF Bound
<1>4. \A s \in StopKeys :
        Stands(s) => /\ stops[s].status = "ACTIVE"
                     /\ positions[stops[s].position].protection = "EXCHANGE"
                     /\ positions[stops[s].position].stopKey = s
  BY <1>1 DEF Bound, StandingFits
<1>5. stops' = stops /\ positions' = positions
  BY DEF Begins, dbVars
<1>6. CASE sec'.at = "query" /\ sec'.op = "resolve"
  BY <1>6 DEF PlacedInHand, TakenInHand, Placing, Stripped
<1>7. CASE /\ sec'.at = "execSettle" /\ sec'.op = "stop" /\ ReadPosition(sec'.pos)
           /\ \E s \in StopKeys : stops[s].status = "ACTIVE" /\ stops[s].position = sec'.pos
  <2>1. PICK s \in StopKeys : stops[s].status = "ACTIVE" /\ stops[s].position = sec'.pos
    BY <1>7
  <2>2. /\ positions[sec'.pos].protection = "EXCHANGE"
        /\ positions[sec'.pos].stopKey = s
    BY <1>4, <2>1 DEF Stands, StandingStop
  <2> QED BY <1>5, <1>7, <2>1, <2>2 DEF PlacedInHand, TakenInHand, Placing, Stripped
<1>8. CASE /\ sec'.at = IF positions[sec'.pos].protection = "EXCHANGE"
                          THEN "cancelStop" ELSE "recordIntent"
           /\ sec'.op = "close" /\ ReadPosition(sec'.pos)
  <2>1. CASE positions[sec'.pos].protection = "EXCHANGE"
    BY <1>8, <2>1 DEF PlacedInHand, TakenInHand, Placing, Stripped
  <2>2. CASE positions[sec'.pos].protection # "EXCHANGE"
    <3>1. Bare(sec.pos)'
      BY <1>4, <1>5, <1>2, <2>2 DEF Bare, Stands
    <3> QED BY <1>8, <2>2, <3>1 DEF PlacedInHand, TakenInHand, Placing
  <2> QED BY <2>1, <2>2
<1>9. CASE sec'.at = "recordIntent" /\ sec'.op = "open"
  BY <1>9 DEF PlacedInHand, TakenInHand, Placing, Stripped
<1> QED BY <1>6, <1>7, <1>8, <1>9 DEF Begins

(* A new position has no stop, and the section is to place one.            *)
LEMMA OpenedBound ==
  ASSUME TypeInv, Bound, OpenFromFill, ~UNCHANGED positions PROVE Bound'
<1>0. Tables
  BY TablesType
<1>1. /\ sec.at = "openRow"
      /\ sec'.pos \in PositionIds /\ positions[sec'.pos].status = "ABSENT"
      /\ positions' = OpenRow(positions, sec'.pos, sec.ticker, orders[sec.key].filled, sec.key)
      /\ sec'.at = "stopRecord" /\ sec'.op = sec.op
  BY OpenedSection
<1>2. UNCHANGED stops
  BY DEF OpenFromFill
<1>3. /\ \A p \in PositionIds : p # sec'.pos => positions'[p] = positions[p]
      /\ positions'[sec'.pos].status = "OPEN" /\ positions'[sec'.pos].protection = "LOCAL"
  BY <1>0, <1>1 DEF Tables, OpenRow
<1>4. sec.op \in {"open", "resolve"}
  BY <1>1 DEF Bound, PlacedInHand
<1>5. StandingFits'
  <2> SUFFICES ASSUME NEW s \in StopKeys, Stands(s)
               PROVE  /\ stops[s].position \in PositionIds
                      /\ positions'[stops[s].position].status = "OPEN"
                      /\ stops[s].status = "ACTIVE"
                      /\ positions'[stops[s].position].protection = "EXCHANGE"
                      /\ positions'[stops[s].position].stopKey = s
    BY <1>1, <1>2 DEF StandingFits, Stands, Placing
  <2> QED BY <1>1, <1>3 DEF Bound, StandingFits, Placing
<1>6. PlacedInHand' /\ TakenInHand'
  <2>1. PlacedInHand'
    BY <1>1, <1>3, <1>4 DEF PlacedInHand, Placing
  <2>2. TakenInHand'
    BY <1>1, <1>3, <1>4 DEF TakenInHand, Placing, Stripped
  <2> QED BY <2>1, <2>2
<1>7. BoundToStop'
  <2> SUFFICES ASSUME NEW p \in PositionIds, positions'[p].protection = "EXCHANGE"
               PROVE  /\ positions'[p].status = "OPEN"
                      /\ positions'[p].stopKey \in StopKeys
                      /\ stops'[positions'[p].stopKey].status = "ACTIVE"
                      /\ stops'[positions'[p].stopKey].position = p
    BY DEF BoundToStop
  <2>1. positions'[p] = positions[p]
    BY <1>3
  <2>2. ~BeingDemoted(p)
    BY <1>1 DEF BeingDemoted
  <2>3. /\ positions[p].status = "OPEN" /\ positions[p].stopKey \in StopKeys
        /\ stops[positions[p].stopKey].status = "ACTIVE"
        /\ stops[positions[p].stopKey].position = p
    BY <2>1, <2>2 DEF Bound, BoundToStop
  <2> QED BY <1>2, <2>1, <2>3
<1> QED BY <1>5, <1>6, <1>7 DEF Bound

(* A position that is closed has no stop left.                             *)
LEMMA ClosedBound ==
  ASSUME TypeInv, Bound, FinishClose, ~UNCHANGED positions PROVE Bound'
<1>0. Tables
  BY TablesType
<1>1. /\ sec.at = "closeRow" /\ sec.pos \in PositionIds
      /\ positions' = CloseRow(positions, sec.pos, sec.trigger, sec.key)
  BY ClosedSection DEF TypeInv, TypeOK, TablesOK
<1>2. UNCHANGED stops /\ sec' = [sec EXCEPT !.at = "cooldown"]
  BY DEF FinishClose, Goto
<1>3. Bare(sec.pos)
  BY <1>1 DEF Bound, TakenInHand, Stripped
<1>4. /\ \A p \in PositionIds : p # sec.pos => positions'[p] = positions[p]
      /\ positions'[sec.pos].protection = "LOCAL"
  BY <1>0, <1>1 DEF Tables, CloseRow, PositionRow
<1>5. sec'.at = "cooldown" /\ sec'.pos = sec.pos /\ sec'.op = sec.op
  BY <1>0, <1>2 DEF Tables, Section
<1>6. StandingFits'
  BY <1>1, <1>2, <1>3, <1>4 DEF StandingFits, Stands, Bare, Bound, Placing
<1>7. PlacedInHand' /\ TakenInHand'
  BY <1>2, <1>3, <1>5 DEF PlacedInHand, TakenInHand, Placing, Bare, Stands
<1>8. BoundToStop'
  BY <1>1, <1>2, <1>4 DEF Bound, BoundToStop, BeingDemoted
<1> QED BY <1>6, <1>7, <1>8 DEF Bound

(* Placing: the row first, then the broker, then the row's answer.         *)
LEMMA StopRecordBound == ASSUME TypeInv, Bound, StopRecord PROVE Bound'
<1>0. Tables
  BY TablesType
<1>1. sec.at = "stopRecord" /\ UNCHANGED positions /\ sec.pos \in PositionIds
  BY DEF StopRecord, At, TypeInv, Located, PositionPlaces
<1>2. PICK s \in StopKeys :
        /\ stops[s].status = "ABSENT"
        /\ stops' = RecordPlacing(stops, s, sec.pos, positions[sec.pos].lots)
        /\ sec' = [sec EXCEPT !.skey = s, !.at = "stopPost"]
  BY DEF StopRecord, CanRecordPlacing
<1>3. /\ stops'[s].status = "PLACING" /\ stops'[s].position = sec.pos
      /\ \A r \in StopKeys : r # s => stops'[r] = stops[r]
  BY <1>0, <1>2 DEF Tables, RecordPlacing
<1>4. sec'.at = "stopPost" /\ sec'.skey = s /\ sec'.pos = sec.pos /\ sec'.op = sec.op
  BY <1>0, <1>2 DEF Tables, Section
<1>5. /\ positions[sec.pos].status = "OPEN" /\ positions[sec.pos].protection = "LOCAL"
      /\ sec.op \in {"open", "resolve"}
  BY <1>1 DEF Bound, PlacedInHand
<1>6. StandingFits'
  BY <1>1, <1>3, <1>4, <1>5 DEF StandingFits, Stands, Bound, Placing
<1>7. PlacedInHand' /\ TakenInHand'
  BY <1>1, <1>3, <1>4, <1>5 DEF PlacedInHand, TakenInHand, Placing, Stripped
<1>8. BoundToStop'
  BY <1>1, <1>2, <1>3 DEF Bound, BoundToStop, BeingDemoted
<1> QED BY <1>6, <1>7, <1>8 DEF Bound

LEMMA StopPostBound == ASSUME TypeInv, Bound, StopPost \/ StopPostLost PROVE Bound'
<1>0. Tables
  BY TablesType
<1>1. sec.at = "stopPost" /\ UNCHANGED <<positions, stops>>
  BY DEF StopPost, StopPostLost, At, dbVars
<1>2. PICK place \in {"stopActivate", "stopFail"} : Goto(place)
  BY DEF StopPost, StopPostLost
<1>3. sec'.at = place /\ sec'.skey = sec.skey /\ sec'.pos = sec.pos /\ sec'.op = sec.op
  BY <1>0, <1>2 DEF Tables, Section, Goto
<1>4. StandingFits'
  BY <1>1, <1>3 DEF StandingFits, Stands, Bound, Placing
<1>5. PlacedInHand' /\ TakenInHand'
  BY <1>1, <1>3 DEF PlacedInHand, TakenInHand, Placing, Stripped, Bound
<1>6. BoundToStop'
  BY <1>0, <1>1, SameBound, SameTables
<1> QED BY <1>4, <1>5, <1>6 DEF Bound

LEMMA StopActivateBound == ASSUME TypeInv, Bound, StopActivate PROVE Bound'
<1>0. Tables
  BY TablesType
<1>1. /\ sec.at = "stopActivate" /\ UNCHANGED positions
      /\ sec.pos \in PositionIds /\ sec.skey \in StopKeys
      /\ stops' = Activate(stops, sec.skey)
  BY DEF StopActivate, At, TypeInv, Located, PositionPlaces, StopPlaces
<1>2. /\ stops'[sec.skey].status = "ACTIVE"
      /\ stops'[sec.skey].position = stops[sec.skey].position
      /\ \A r \in StopKeys : r # sec.skey => stops'[r] = stops[r]
  BY <1>0, <1>1 DEF Tables, Activate, StopRow
<1>3. sec'.at = "stopProtect" /\ sec'.skey = sec.skey /\ sec'.pos = sec.pos /\ sec'.op = sec.op
  BY <1>0 DEF StopActivate, Goto, Tables, Section
<1>4. /\ positions[sec.pos].status = "OPEN" /\ positions[sec.pos].protection = "LOCAL"
      /\ sec.op \in {"open", "resolve"}
      /\ stops[sec.skey].position = sec.pos
  BY <1>1 DEF Bound, PlacedInHand, Placing
<1>5. StandingFits'
  BY <1>1, <1>2, <1>3, <1>4 DEF StandingFits, Stands, Bound, Placing
<1>6. PlacedInHand' /\ TakenInHand'
  BY <1>1, <1>2, <1>3, <1>4 DEF PlacedInHand, TakenInHand, Placing, Stripped
<1>7. BoundToStop'
  BY <1>1, <1>2, <1>3 DEF Bound, BoundToStop, BeingDemoted
<1> QED BY <1>5, <1>6, <1>7 DEF Bound

LEMMA StopProtectBound == ASSUME TypeInv, Bound, StopProtect PROVE Bound'
<1>0. Tables
  BY TablesType
<1>1. /\ sec.at = "stopProtect" /\ UNCHANGED stops /\ sec' = NoSection
      /\ sec.pos \in PositionIds /\ sec.skey \in StopKeys
      /\ positions' = SetStopProtection(positions, sec.pos, "EXCHANGE", sec.skey)
  BY DEF StopProtect, At, LeaveOpened, TypeInv, Located, PositionPlaces, StopPlaces
<1>2. /\ positions'[sec.pos].status = positions[sec.pos].status
      /\ positions'[sec.pos].protection = "EXCHANGE"
      /\ positions'[sec.pos].stopKey = sec.skey
      /\ \A p \in PositionIds : p # sec.pos => positions'[p] = positions[p]
  BY <1>0, <1>1 DEF Tables, SetStopProtection, PositionRow
<1>3. /\ positions[sec.pos].status = "OPEN" /\ positions[sec.pos].protection = "LOCAL"
      /\ stops[sec.skey].position = sec.pos /\ stops[sec.skey].status = "ACTIVE"
  BY <1>1 DEF Bound, PlacedInHand, Placing
<1>4. StandingFits'
  <2> SUFFICES ASSUME NEW s \in StopKeys, Stands(s)
               PROVE  /\ stops[s].position \in PositionIds
                      /\ positions'[stops[s].position].status = "OPEN"
                      /\ stops[s].status = "ACTIVE"
                      /\ positions'[stops[s].position].protection = "EXCHANGE"
                      /\ positions'[stops[s].position].stopKey = s
    BY <1>1 DEF StandingFits, Stands, NoSection, Placing
  <2>1. CASE s = sec.skey
    BY <1>1, <1>2, <1>3, <2>1
  <2>2. CASE s # sec.skey
    BY <1>1, <1>2, <1>3, <2>2 DEF Bound, StandingFits
  <2> QED BY <2>1, <2>2
<1>5. PlacedInHand' /\ TakenInHand'
  BY <1>1 DEF PlacedInHand, TakenInHand, Placing, Stripped, NoSection
<1>6. BoundToStop'
  BY <1>1, <1>2, <1>3 DEF Bound, BoundToStop, BeingDemoted
<1> QED BY <1>4, <1>5, <1>6 DEF Bound

LEMMA SettledStop ==
  ASSUME Tables, NEW s \in StopKeys, NEW status \in TerminalStop,
         stops' = SettleStop(stops, s, status)
  PROVE  /\ stops'[s].status \notin StandingStop /\ stops'[s].position = stops[s].position
         /\ \A r \in StopKeys : r # s => stops'[r] = stops[r]
<1>1. status \notin StandingStop
  BY DEF TerminalStop, StandingStop
<1>2. CASE CanSettleStop(stops, s)
  BY <1>1, <1>2 DEF Tables, SettleStop, StopRow, Stands
<1>3. CASE ~CanSettleStop(stops, s)
  BY <1>3 DEF SettleStop, CanSettleStop, Stands
<1> QED BY <1>2, <1>3

LEMMA StopFailBound == ASSUME TypeInv, Bound, StopFail PROVE Bound'
<1>0. Tables /\ SectionOK
  BY TablesType DEF TypeInv, TypeOK
<1>1. /\ sec.at = "stopFail" /\ UNCHANGED positions
      /\ sec.pos \in PositionIds /\ sec.skey \in StopKeys
      /\ stops' = SettleStop(stops, sec.skey, "FAILED")
  BY DEF StopFail, At, TypeInv, Located, PositionPlaces, StopPlaces
<1>2. /\ stops'[sec.skey].status \notin StandingStop /\ stops'[sec.skey].position = stops[sec.skey].position
      /\ \A r \in StopKeys : r # sec.skey => stops'[r] = stops[r]
  BY <1>0, <1>1, SettledStop DEF TerminalStop
<1>3. /\ positions[sec.pos].status = "OPEN" /\ positions[sec.pos].protection = "LOCAL"
      /\ sec.op \in {"open", "resolve"}
      /\ stops[sec.skey].position = sec.pos
  BY <1>1 DEF Bound, PlacedInHand, Placing
<1>4. sec' = NoSection \/ Onward("stopFail", "stopRecord")
  BY <1>0, <1>1, TryAgainOnward DEF StopFail
<1>5. StandingFits'
  <2> SUFFICES ASSUME NEW s \in StopKeys, Stands(s)'
               PROVE  /\ stops'[s].position \in PositionIds
                      /\ positions[stops'[s].position].status = "OPEN"
                      /\ stops'[s].status = "ACTIVE"
                      /\ positions[stops'[s].position].protection = "EXCHANGE"
                      /\ positions[stops'[s].position].stopKey = s
    BY <1>1 DEF StandingFits
  <2>1. stops'[s].status = "ACTIVE"
    BY <1>4 DEF Stands, Placing, Onward, NoSection
  <2>2. s # sec.skey /\ stops'[s] = stops[s]
    BY <1>2, <2>1 DEF StandingStop
  <2>3. Stands(s)
    BY <2>1, <2>2 DEF Stands
  <2> QED BY <2>2, <2>3 DEF Bound, StandingFits
<1>6. PlacedInHand' /\ TakenInHand'
  <2>1. CASE sec' = NoSection
    BY <2>1 DEF PlacedInHand, TakenInHand, Placing, Stripped, NoSection
  <2>2. CASE Onward("stopFail", "stopRecord")
    BY <1>1, <1>3, <2>2 DEF Onward, PlacedInHand, TakenInHand, Placing, Stripped
  <2> QED BY <1>4, <2>1, <2>2
<1>7. BoundToStop'
  <2> SUFFICES ASSUME NEW p \in PositionIds, positions[p].protection = "EXCHANGE"
               PROVE  /\ positions[p].status = "OPEN"
                      /\ positions[p].stopKey \in StopKeys
                      /\ stops'[positions[p].stopKey].status = "ACTIVE"
                      /\ stops'[positions[p].stopKey].position = p
    BY <1>1 DEF BoundToStop
  <2>1. /\ positions[p].status = "OPEN"
        /\ positions[p].stopKey \in StopKeys
        /\ stops[positions[p].stopKey].status = "ACTIVE"
        /\ stops[positions[p].stopKey].position = p
    BY <1>1 DEF Bound, BoundToStop, BeingDemoted
  <2>2. positions[p].stopKey # sec.skey
    BY <1>3, <2>1
  <2> QED BY <1>2, <2>1, <2>2
<1> QED BY <1>5, <1>6, <1>7 DEF Bound

(* A refused stop whose end is not written: its row no longer stands.      *)
LEMMA UnwrittenBound == ASSUME TypeInv, Bound, StopFailUnwritten PROVE Bound'
<1>0. Tables /\ SectionOK
  BY TablesType DEF TypeInv, TypeOK
<1>1. sec.at = "stopFail" /\ UNCHANGED <<positions, stops>> /\ sec.pos \in PositionIds
  BY DEF StopFailUnwritten, At, dbVars, TypeInv, Located, PositionPlaces, StopPlaces
<1>2. sec' = NoSection \/ Onward("stopFail", "stopRecord")
  BY <1>0, <1>1, TryAgainOnward DEF StopFailUnwritten
<1>3. sec'.at \in {"none", "stopRecord"}
  BY <1>2 DEF NoSection, Onward
<1>4. StandingFits'
  <2> SUFFICES ASSUME NEW s \in StopKeys, stops[s].status = "ACTIVE"
               PROVE  /\ stops[s].position \in PositionIds
                      /\ positions[stops[s].position].status = "OPEN"
                      /\ positions[stops[s].position].protection = "EXCHANGE"
                      /\ positions[stops[s].position].stopKey = s
    BY <1>1, <1>3 DEF StandingFits, Stands, Placing
  <2> QED BY <1>1 DEF Bound, StandingFits, Stands, PlacedInHand, Placing
<1>5. PlacedInHand' /\ TakenInHand'
  <2>1. CASE sec' = NoSection
    BY <2>1 DEF PlacedInHand, TakenInHand, Placing, Stripped, NoSection
  <2>2. CASE Onward("stopFail", "stopRecord")
    BY <1>1, <2>2 DEF Onward, PlacedInHand, TakenInHand, Placing, Stripped, Bound
  <2> QED BY <1>2, <2>1, <2>2
<1>6. BoundToStop'
  BY <1>0, <1>1, SameBound, SameTables
<1> QED BY <1>4, <1>5, <1>6 DEF Bound

(* Taking away: what stands is found, cancelled, settled and let go.       *)
LEMMA CancelStopBound == ASSUME TypeInv, Ordinary, Alone, Bound, CancelStop PROVE Bound'
<1>0. Tables
  BY TablesType
<1>1. sec.at = "cancelStop" /\ UNCHANGED <<positions, stops>> /\ sec.pos \in PositionIds
  BY DEF CancelStop, At, dbVars, TypeInv, Located, PositionPlaces
<1>2. StandingFits' /\ BoundToStop'
  <2>1. sec'.at \in {"demote", "cancelSettle"}
    BY <1>0 DEF CancelStop, Goto, Tables, Section
  <2> QED BY <1>0, <1>1, <2>1, SameFits, SameBound, SameTables DEF Placing
<1>3. PlacedInHand' /\ TakenInHand'
  <2>1. CASE ActiveForPosition(stops, sec.pos) = {}
    <3>1. sec'.at = "demote" /\ sec'.pos = sec.pos
      BY <1>0, <2>1 DEF CancelStop, Goto, Tables, Section
    <3>2. Bare(sec.pos)
      BY <1>0, <2>1 DEF ActiveForPosition, Bare, Stands, StandingStop, Tables
    <3> QED BY <1>1, <3>1, <3>2 DEF PlacedInHand, TakenInHand, Placing, Bare, Stands
  <2>2. CASE ActiveForPosition(stops, sec.pos) # {}
    <3>1. PICK s \in StopKeys : /\ stops[s].position = sec.pos
                                /\ stops[s].status \in StandingStop
                                /\ sec' = [sec EXCEPT !.skey = s, !.at = "cancelSettle"]
      BY <1>0, <2>2 DEF CancelStop, ActiveForPosition, Tables
    <3>2. /\ sec'.at = "cancelSettle" /\ sec'.skey = s /\ sec'.pos = sec.pos
          /\ sec'.op = sec.op
      BY <1>0, <3>1 DEF Tables, Section
    <3>3. sec.op \in {"close", "resolve"}
      BY <1>1 DEF TypeInv, Located, Ordinary
    <3>4. \A r \in StopKeys : Stands(r) /\ stops[r].position = sec.pos => r = s
      BY <3>1 DEF Alone, Stands, StandingStop
    <3> QED BY <1>1, <3>1, <3>2, <3>3, <3>4
            DEF PlacedInHand, TakenInHand, Placing, Stripped, Stands
  <2> QED BY <2>1, <2>2
<1> QED BY <1>2, <1>3 DEF Bound

LEMMA CancelSettleBound == ASSUME TypeInv, Bound, CancelSettle PROVE Bound'
<1>0. Tables
  BY TablesType
<1>1. /\ sec.at = "cancelSettle" /\ UNCHANGED positions
      /\ sec.pos \in PositionIds /\ sec.skey \in StopKeys
      /\ stops' = SettleStop(stops, sec.skey, "CANCELLED")
  BY DEF CancelSettle, At, TypeInv, Located, PositionPlaces, StopPlaces
<1>2. /\ stops'[sec.skey].status \notin StandingStop /\ stops'[sec.skey].position = stops[sec.skey].position
      /\ \A r \in StopKeys : r # sec.skey => stops'[r] = stops[r]
  BY <1>0, <1>1, SettledStop DEF TerminalStop
<1>3. sec'.at = "demote" /\ sec'.pos = sec.pos
  BY <1>0 DEF CancelSettle, Goto, Tables, Section
<1>4. /\ stops[sec.skey].position = sec.pos
      /\ \A s \in StopKeys : Stands(s) /\ stops[s].position = sec.pos => s = sec.skey
  BY <1>1 DEF Bound, TakenInHand
<1>5. Bare(sec.pos)'
  BY <1>2, <1>3, <1>4 DEF Bare, Stands, StandingStop, Placing
<1>6. StandingFits'
  BY <1>1, <1>2, <1>3 DEF Bound, StandingFits, Stands, StandingStop, Placing
<1>7. PlacedInHand' /\ TakenInHand'
  BY <1>3, <1>5 DEF PlacedInHand, TakenInHand, Placing
<1>8. BoundToStop'
  <2> SUFFICES ASSUME NEW p \in PositionIds, positions[p].protection = "EXCHANGE", p # sec.pos
               PROVE  /\ positions[p].status = "OPEN"
                      /\ positions[p].stopKey \in StopKeys
                      /\ stops'[positions[p].stopKey].status = "ACTIVE"
                      /\ stops'[positions[p].stopKey].position = p
    <3>1. positions[sec.pos].protection = "EXCHANGE" => positions[sec.pos].status = "OPEN"
      BY <1>1 DEF Bound, BoundToStop
    <3> QED BY <1>1, <1>3, <3>1 DEF BoundToStop, BeingDemoted
  <2>1. /\ positions[p].status = "OPEN"
        /\ positions[p].stopKey \in StopKeys
        /\ stops[positions[p].stopKey].status = "ACTIVE"
        /\ stops[positions[p].stopKey].position = p
    BY <1>1 DEF Bound, BoundToStop, BeingDemoted
  <2>2. positions[p].stopKey # sec.skey
    BY <1>4, <2>1
  <2> QED BY <1>2, <2>1, <2>2
<1> QED BY <1>6, <1>7, <1>8 DEF Bound

LEMMA Demoted ==
  ASSUME Tables, sec.pos \in PositionIds, positions' = ToLocal(sec.pos)
  PROVE  /\ positions'[sec.pos].protection = "LOCAL"
         /\ \A p \in PositionIds : p # sec.pos => positions'[p] = positions[p]
<1>1. CASE positions[sec.pos].protection = "EXCHANGE"
  BY <1>1 DEF ToLocal, SetStopProtection, Tables, PositionRow
<1>2. CASE positions[sec.pos].protection # "EXCHANGE"
  <2>1. positions[sec.pos].protection \in Protections
    BY DEF Tables, PositionRow
  <2> QED BY <1>2, <2>1 DEF ToLocal, Protections
<1> QED BY <1>1, <1>2

LEMMA DemoteBound == ASSUME TypeInv, Ordinary, Bound, Demote \/ ExecLocal PROVE Bound'
<1>0. Tables
  BY TablesType
<1>1. /\ sec.at \in {"demote", "execLocal"} /\ UNCHANGED stops
      /\ sec.pos \in PositionIds /\ positions' = ToLocal(sec.pos)
  BY DEF Demote, ExecLocal, At, TypeInv, Located, PositionPlaces
<1>2. /\ positions'[sec.pos].protection = "LOCAL"
      /\ \A p \in PositionIds : p # sec.pos => positions'[p] = positions[p]
  BY <1>0, <1>1, Demoted
<1>3. /\ sec'.at \in {"recordIntent", "closeRow"} /\ sec'.pos = sec.pos
  <2>1. CASE Demote
    <3>1. sec.op \in {"close", "resolve"}
      BY <2>1 DEF Demote, At, TypeInv, Located, Ordinary
    <3>2. Goto("recordIntent") \/ Goto("closeRow")
      BY <2>1, <3>1 DEF Demote
    <3> QED BY <1>0, <3>2 DEF Goto, Tables, Section
  <2>2. CASE ExecLocal
    BY <1>0, <2>2 DEF ExecLocal, Goto, Tables, Section
  <2> QED BY <2>1, <2>2
<1>4. Bare(sec.pos)
  BY <1>1 DEF Bound, TakenInHand, Stripped
<1>5. StandingFits'
  BY <1>1, <1>2, <1>3, <1>4 DEF Bound, StandingFits, Stands, Bare, Placing
<1>6. PlacedInHand' /\ TakenInHand'
  BY <1>1, <1>3, <1>4 DEF PlacedInHand, TakenInHand, Placing, Bare, Stands
<1>7. BoundToStop'
  BY <1>1, <1>2 DEF Bound, BoundToStop, BeingDemoted
<1> QED BY <1>5, <1>6, <1>7 DEF Bound

LEMMA ExecSettleBound == ASSUME TypeInv, Bound, ExecSettle PROVE Bound'
<1>0. Tables
  BY TablesType
<1>1. sec.at = "execSettle" /\ UNCHANGED positions /\ sec.pos \in PositionIds
  BY DEF ExecSettle, At, TypeInv, Located, PositionPlaces
<1> DEFINE s == positions[sec.pos].stopKey
<1>2. /\ s \in StopKeys /\ stops[s].position = sec.pos
      /\ positions[sec.pos].protection = "EXCHANGE"
  BY <1>1 DEF Bound, TakenInHand
<1>3. stops' = SettleStop(stops, s, "EXECUTED")
  BY <1>2, TableAssumption DEF ExecSettle, StopKeys
<1>4. /\ stops'[s].status \notin StandingStop /\ stops'[s].position = stops[s].position
      /\ \A r \in StopKeys : r # s => stops'[r] = stops[r]
  BY <1>0, <1>2, <1>3, SettledStop DEF TerminalStop
<1>5. sec'.at = "execLocal" /\ sec'.pos = sec.pos
  BY <1>0 DEF ExecSettle, Goto, Tables, Section
<1>6. \A r \in StopKeys : Stands(r) /\ stops[r].position = sec.pos => r = s
  BY <1>1 DEF Bound, StandingFits, Placing
<1>7. Bare(sec.pos)'
  BY <1>2, <1>4, <1>5, <1>6 DEF Bare, Stands, StandingStop, Placing
<1>8. StandingFits'
  BY <1>1, <1>4, <1>5 DEF Bound, StandingFits, Stands, StandingStop, Placing
<1>9. PlacedInHand' /\ TakenInHand'
  BY <1>5, <1>7 DEF PlacedInHand, TakenInHand, Placing
<1>10. BoundToStop'
  <2>1. positions[sec.pos].status = "OPEN"
    BY <1>1, <1>2 DEF Bound, BoundToStop
  <2>2. ASSUME NEW p \in PositionIds, positions[p].protection = "EXCHANGE", p # sec.pos
        PROVE  /\ positions[p].status = "OPEN"
               /\ positions[p].stopKey \in StopKeys
               /\ stops'[positions[p].stopKey].status = "ACTIVE"
               /\ stops'[positions[p].stopKey].position = p
    <3>1. /\ positions[p].status = "OPEN"
          /\ positions[p].stopKey \in StopKeys
          /\ stops[positions[p].stopKey].status = "ACTIVE"
          /\ stops[positions[p].stopKey].position = p
      BY <1>1, <2>2 DEF Bound, BoundToStop, BeingDemoted
    <3>2. positions[p].stopKey # s
      BY <1>2, <2>2, <3>1
    <3> QED BY <1>4, <3>1, <3>2
  <2> QED BY <1>1, <1>5, <2>1, <2>2 DEF BoundToStop, BeingDemoted
<1> QED BY <1>8, <1>9, <1>10 DEF Bound

(* The unique index of the standing rows.                                  *)
LEMMA AloneStep ==
  ASSUME TypeInv, PlacedInHand, Alone, [Next]_vars
  PROVE  Alone'
<1>0. Tables
  BY TablesType
<1>1. CASE StopRecord
  <2>1. PICK s \in StopKeys : /\ CanRecordPlacing(stops, s, sec.pos)
                              /\ stops' = RecordPlacing(stops, s, sec.pos, positions[sec.pos].lots)
    BY <1>1 DEF StopRecord
  <2>2. /\ stops'[s].position = sec.pos
        /\ \A r \in StopKeys : r # s => stops'[r] = stops[r]
    BY <1>0, <2>1 DEF Tables, RecordPlacing
  <2>3. \A r \in StopKeys : stops[r].status \in StandingStop => stops[r].position # sec.pos
    BY <1>0, <2>1 DEF CanRecordPlacing, ActiveForPosition, Tables
  <2> QED BY <2>2, <2>3 DEF Alone
<1>2. CASE StopActivate
  <2>1. /\ sec.skey \in StopKeys /\ stops' = Activate(stops, sec.skey)
        /\ stops[sec.skey].status = "PLACING"
    BY <1>2 DEF StopActivate, At, TypeInv, Located, StopPlaces, PlacedInHand, Placing
  <2>2. \A s \in StopKeys : /\ stops'[s].status \in StandingStop => stops[s].status \in StandingStop
                             /\ stops'[s].position = stops[s].position
    BY <1>0, <2>1 DEF Activate, Tables, StopRow, StandingStop
  <2> QED BY <2>2 DEF Alone
<1>3. ASSUME NEW r, NEW status \in TerminalStop, stops' = SettleStop(stops, r, status)
      PROVE  Alone'
  <2>1. \A s \in StopKeys : /\ stops'[s].status \in StandingStop => stops[s].status \in StandingStop
                             /\ stops'[s].position = stops[s].position
    BY <1>0, <1>3 DEF SettleStop, CanSettleStop, Tables, StopRow, TerminalStop, StandingStop
  <2> QED BY <2>1 DEF Alone
<1>4. CASE UNCHANGED stops
  BY <1>4 DEF Alone
<1>5. CASE StopFail \/ CancelSettle \/ ExecSettle
  BY <1>3, <1>4, <1>5 DEF StopFail, CancelSettle, ExecSettle, TerminalStop
<1> QED BY <1>1, <1>2, <1>4, <1>5, StopsStep

LEMMA BoundStep ==
  ASSUME TypeInv, Idle, Ordinary, Alone, Bound, NothingLost, [Next]_vars
  PROVE  Bound'
<1>1. CASE StopWork
  BY <1>1, StopRecordBound, StopPostBound, StopActivateBound, StopProtectBound, StopFailBound,
     UnwrittenBound, CancelStopBound, CancelSettleBound, DemoteBound, ExecSettleBound DEF StopWork
<1> QED BY <1>1, StopsKind, StillBound, LeavingBound, PassingBound, BeginsBound, OpenedBound,
           ClosedBound

LEMMA StopsInit == Init => StopsInv
<1> SUFFICES ASSUME Init PROVE StopsInv
  OBVIOUS
<1>1. BooksInv
  BY BooksInit
<1>2. Idle /\ Ordinary /\ Alone /\ StandingFits /\ PlacedInHand /\ TakenInHand /\ BoundToStop
  BY DEF Init, Idle, Ordinary, Alone, StandingFits, Stands, StandingStop, NoStop, PlacedInHand, TakenInHand,
         Placing, Stripped, BoundToStop, NoPosition, NoSection
<1> QED BY <1>1, <1>2 DEF StopsInv

LEMMA StopsInvStep ==
  ASSUME StopsInv, NothingLost, [Next]_vars PROVE StopsInv'
<1>1. BooksInv' /\ Idle' /\ Ordinary' /\ Alone'
  BY BooksStep, IdleStep, OrdinaryStep, AloneStep DEF StopsInv, BooksInv
<1>2. Bound'
  BY BoundStep DEF StopsInv, BooksInv, Bound
<1> QED BY <1>1, <1>2 DEF StopsInv, Bound

(* The places that the other steps of the stop work lead to.               *)
LEMMA WorkEnds ==
  ASSUME TypeInv,
         StopActivate \/ StopProtect \/ StopFail \/ CancelSettle \/ Demote \/ ExecSettle
         \/ ExecLocal \/ FinishClose
  PROVE  /\ sec'.at \notin {"stopPost", "stopFail", "cancelSettle", "execSettle"}
         /\ StopActivate \/ sec'.at \notin Placing
<1>0. SectionOK /\ Tables
  BY TablesType DEF TypeInv, TypeOK
<1>1. ASSUME NEW place \in {"stopProtect", "demote", "recordIntent", "closeRow", "execLocal",
                            "cooldown", "stopRecord"},
             Goto(place), place # "stopProtect" \/ StopActivate
      PROVE  /\ sec'.at \notin {"stopPost", "stopFail", "cancelSettle", "execSettle"}
             /\ StopActivate \/ sec'.at \notin Placing
  BY <1>0, <1>1 DEF Goto, Tables, Section, Placing
<1>2. CASE sec' = NoSection
  BY <1>2 DEF NoSection, Placing
<1>3. CASE StopActivate \/ CancelSettle \/ ExecSettle \/ ExecLocal
  BY <1>1, <1>3 DEF StopActivate, CancelSettle, ExecSettle, ExecLocal
<1>4. CASE StopProtect
  BY <1>2, <1>4 DEF StopProtect, LeaveOpened
<1>5. CASE FinishClose
  BY <1>1, <1>2, <1>5 DEF FinishClose, Raise
<1>6. CASE StopFail
  <2>1. sec' = NoSection \/ Onward("stopFail", "stopRecord")
    BY <1>0, <1>6, TryAgainOnward DEF StopFail, At
  <2> QED BY <1>2, <2>1 DEF Onward, Placing
<1>7. CASE Demote
  <2>1. sec.op \in {"close", "resolve", "replace"}
    BY <1>7 DEF Demote, At, TypeInv, Located
  <2> QED BY <1>1, <1>7, <2>1 DEF Demote
<1> QED BY <1>3, <1>4, <1>5, <1>6, <1>7

(* What a stop stood for, and that only a new row comes to stand.          *)
LEMMA StandsBefore ==
  ASSUME StopsInv, NothingLost, [Next]_vars, ~StopRecord, NEW s \in StopKeys, Stands(s)'
  PROVE  /\ Stands(s)
         /\ stops'[s].position = stops[s].position /\ stops'[s].lots = stops[s].lots
<1>0. TypeInv /\ Tables /\ Idle /\ Bound /\ SectionOK
  BY TablesType DEF StopsInv, BooksInv, Bound, TypeInv, TypeOK
<1>1. CASE StopActivate
  <2>1. /\ sec.at = "stopActivate" /\ sec.skey \in StopKeys /\ Goto("stopProtect")
        /\ stops' = Activate(stops, sec.skey)
    BY <1>0, <1>1 DEF StopActivate, At, TypeInv, Located, StopPlaces
  <2>2. stops[sec.skey].status = "PLACING" /\ sec'.skey = sec.skey
    BY <1>0, <2>1 DEF Bound, PlacedInHand, Placing, Goto, Tables, Section
  <2> QED BY <1>0, <2>1, <2>2 DEF Activate, Tables, StopRow, Stands, Placing
<1>2. CASE ~StopActivate
  <2>1. ASSUME NEW r, NEW status, stops' = SettleStop(stops, r, status),
               status \notin StandingStop
        PROVE  stops'[s] = stops[s]
    BY <1>0, <2>1 DEF SettleStop, Tables, StopRow, Stands, StandingStop
  <2>2. stops'[s] = stops[s]
    <3>1. CASE StopFail \/ CancelSettle \/ ExecSettle
      BY <2>1, <3>1 DEF StopFail, CancelSettle, ExecSettle, StandingStop
    <3> QED BY <1>2, <3>1, StopsStep
  <2>3. ASSUME sec'.at \in Placing PROVE sec.at \in Placing /\ sec'.skey = sec.skey
    <3>1. CASE Still
      BY <2>3, <3>1 DEF Still
    <3>2. sec' # NoSection /\ sec'.at \notin {"query", "execSettle", "cancelStop", "recordIntent",
                                               "stopRecord", "openRow", "closeRow", "shrink"}
      BY <2>3 DEF NoSection, Placing
    <3>3. ~Leaving /\ ~Passing /\ ~Begins /\ ~OpenFromFill
      BY <2>3, <1>0, <3>2, OpenedSection DEF Leaving, Passing, Begins, OrderWork, Placing
    <3>4. CASE StopPost \/ StopPostLost
      BY <1>0, <3>4 DEF StopPost, StopPostLost, At, Goto, Placing, Tables, Section
    <3>5. CASE StopFailUnwritten
      BY <1>0, <2>3, <3>5, TryAgainOnward DEF StopFailUnwritten, At, Onward, Placing, NoSection
    <3>6. CASE CancelStop
      BY <1>0, <2>3, <3>6 DEF CancelStop, Goto, Placing, Tables, Section
    <3>7. ~(StopProtect \/ StopFail \/ CancelSettle \/ Demote \/ ExecSettle \/ ExecLocal
            \/ FinishClose)
      BY <1>0, <1>2, <2>3, WorkEnds
    <3> QED BY <1>0, <1>2, <3>1, <3>3, <3>4, <3>5, <3>6, <3>7, StopsKind DEF StopWork
  <2> QED BY <2>2, <2>3 DEF Stands
<1> QED BY <1>1, <1>2

-----------------------------------------------------------------------------
(* What the broker would still execute. *)

(* Where a stop is let go of, the broker has let go of it before.          *)
LiveInHand ==
  /\ sec.at \in {"stopPost", "stopFail", "cancelSettle"} => brokerStops[sec.skey].st # "LIVE"
  /\ sec.at = "execSettle" => brokerStops[positions[sec.pos].stopKey].st = "FIRED"
  /\ \A s \in StopKeys : brokerStops[s].st = "LIVE" => Stands(s)

LiveInv == StopsInv /\ LiveInHand

(* Only a post makes a stop live; what has fired stays so.                 *)
LEMMA BrokerStopsMove ==
  ASSUME TypeInv, [Next]_vars, NEW s \in StopKeys
  PROVE  \/ /\ brokerStops'[s].st = "LIVE" => brokerStops[s].st = "LIVE"
            /\ brokerStops[s].st = "FIRED" => brokerStops'[s].st = "FIRED"
         \/ (StopPost \/ StopPostLost) /\ StopStands
<1>0. brokerStops \in [StopKeys -> BrokerStop]
  BY DEF TypeInv, TypeOK, BrokerOK
<1>1. ASSUME NEW r, brokerStops' = StopCancelled(r)
      PROVE  /\ brokerStops'[s].st = "LIVE" => brokerStops[s].st = "LIVE"
             /\ brokerStops[s].st = "FIRED" => brokerStops'[s].st = "FIRED"
  BY <1>0, <1>1 DEF StopCancelled, BrokerStop
<1>2. ASSUME NEW r \in StopKeys, StopFires(r) \/ StopRefused(r) \/ StopSellsOn(r)
      PROVE  /\ brokerStops'[s].st = "LIVE" => brokerStops[s].st = "LIVE"
             /\ brokerStops[s].st = "FIRED" => brokerStops'[s].st = "FIRED"
  BY <1>0, <1>2 DEF StopFires, StopRefused, StopSellsOn, BrokerStop
<1> QED BY <1>1, <1>2, BrokerStopsStep

(* Which stops leave the standing ones. *)
LEMMA StandingStays ==
  ASSUME StopsInv, NothingLost, [Next]_vars, NEW s \in StopKeys, Stands(s), ~Stands(s)'
  PROVE  \/ (StopFail \/ StopFailUnwritten \/ CancelSettle) /\ s = sec.skey
         \/ ExecSettle /\ s = positions[sec.pos].stopKey
<1>0. TypeInv /\ Tables /\ Idle /\ Bound /\ SectionOK
  BY TablesType DEF StopsInv, BooksInv, Bound, TypeInv, TypeOK
<1>1. ASSUME NEW r, NEW status, stops' = SettleStop(stops, r, status)
      PROVE  s = r \/ stops'[s] = stops[s]
  BY <1>0, <1>1 DEF SettleStop, Tables
<1>2. ASSUME stops[s].status = "ACTIVE", stops'[s] = stops[s] PROVE FALSE
  BY <1>2 DEF Stands
<1>3. CASE sec.at \in Placing /\ sec.skey = s
  <2>1. /\ stops[s].status = IF sec.at = "stopProtect" THEN "ACTIVE" ELSE "PLACING"
    BY <1>0, <1>3 DEF Bound, PlacedInHand
  <2>2. CASE Still
    BY <1>3, <2>2 DEF Still, SameRows, Stands
  <2>3. CASE StopPost \/ StopPostLost
    <3>1. PICK place \in {"stopActivate", "stopFail"} : Goto(place)
      BY <2>3 DEF StopPost, StopPostLost
    <3>2. sec'.at \in Placing /\ sec'.skey = s /\ UNCHANGED stops
      BY <1>0, <1>3, <2>3, <3>1 DEF StopPost, StopPostLost, Goto, Tables, Section, Placing, dbVars
    <3> QED BY <3>2 DEF Stands
  <2>4. CASE StopActivate
    <3>1. stops' = Activate(stops, s)
      BY <1>3, <2>4 DEF StopActivate
    <3> QED BY <1>0, <3>1 DEF Activate, Tables, StopRow, Stands
  <2>5. CASE StopProtect
    BY <1>2, <2>1, <2>5 DEF StopProtect, At
  <2>6. sec # NoSection /\ sec.at \notin OrderWork \cup {"openRow", "closeRow"}
    BY <1>3 DEF NoSection, OrderWork, Placing
  <2>7. ~Leaving /\ ~Passing /\ ~OpenFromFill /\ ~FinishClose
    BY <1>3, <2>6 DEF Leaving, Passing, OpenFromFill, FinishClose, At
  <2>8. ~(StopRecord \/ CancelStop \/ CancelSettle \/ Demote \/ ExecSettle \/ ExecLocal)
    BY <1>3 DEF StopRecord, CancelStop, CancelSettle, Demote, ExecSettle, ExecLocal, At, Placing
  <2> QED BY <1>0, <1>3, <2>2, <2>3, <2>4, <2>5, <2>6, <2>8, <2>7, StopsKind DEF StopWork
<1>4. CASE ~(sec.at \in Placing /\ sec.skey = s)
  <2>1. stops[s].status = "ACTIVE" /\ stops'[s] # stops[s]
    BY <1>2, <1>4 DEF Stands
  <2>2. ~StopRecord
    BY <1>0, <2>1 DEF StopRecord, CanRecordPlacing, RecordPlacing, Tables
  <2>3. ~StopActivate
    BY <1>0, <1>4, <2>1 DEF StopActivate, Activate, At, Placing, Tables
  <2>4. ~StopFail
    BY <1>0, <1>1, <1>4, <2>1 DEF StopFail, At, Placing
  <2>5. CASE CancelSettle
    BY <1>1, <2>1, <2>5 DEF CancelSettle
  <2>6. CASE ExecSettle
    BY <1>1, <2>1, <2>6 DEF ExecSettle
  <2> QED BY <2>1, <2>2, <2>3, <2>4, <2>5, <2>6, StopsStep
<1> QED BY <1>3, <1>4

LEMMA LiveStands ==
  ASSUME LiveInv, "mutestop" \notin Faults, NothingLost, [Next]_vars
  PROVE  \A s \in StopKeys : brokerStops'[s].st = "LIVE" => Stands(s)'
<1> SUFFICES ASSUME NEW s \in StopKeys, brokerStops'[s].st = "LIVE", ~Stands(s)' PROVE FALSE
  OBVIOUS
<1>0. StopsInv /\ TypeInv /\ Bound /\ LiveInHand
  BY DEF LiveInv, StopsInv, BooksInv, Bound
<1>1. CASE brokerStops[s].st = "LIVE"
  <2>1. Stands(s)
    BY <1>0, <1>1 DEF LiveInHand
  <2>2. \/ sec.at \in {"stopFail", "cancelSettle"} /\ s = sec.skey
        \/ sec.at = "execSettle" /\ s = positions[sec.pos].stopKey
    BY <1>0, <2>1, StandingStays DEF StopFail, StopFailUnwritten, CancelSettle, ExecSettle, At
  <2> QED BY <1>0, <1>1, <2>2 DEF LiveInHand
<1>2. CASE brokerStops[s].st # "LIVE"
  <2>1. StopPost /\ StopStands
    BY <1>0, <1>2, BrokerStopsMove DEF StopPostLost
  <2>2. sec.at = "stopPost" /\ UNCHANGED stops
    BY <2>1 DEF StopPost, At, dbVars
  <2>3. s = sec.skey
    BY <1>0, <1>2, <2>1 DEF StopStands, TypeInv, TypeOK, BrokerOK
  <2>4. stops[s].status = "PLACING" /\ Stands(s)
    BY <1>0, <2>2, <2>3 DEF Bound, PlacedInHand, Stands, Placing
  <2> QED BY <1>0, <2>2, <2>4, StandingStays, <2>1
           DEF StopPost, StopFail, StopFailUnwritten, CancelSettle, ExecSettle, At
<1> QED BY <1>1, <1>2

LEMMA LiveStep ==
  ASSUME "mutestop" \notin Faults, LiveInv, NothingLost, [Next]_vars
  PROVE  LiveInv'
<1>0. TypeInv /\ SectionOK /\ Tables /\ Idle /\ Bound /\ LiveInHand
  BY TablesType DEF LiveInv, StopsInv, BooksInv, Bound, TypeInv, TypeOK
<1>1. StopsInv'
  BY StopsInvStep DEF LiveInv
<1>2. \A s \in StopKeys : brokerStops'[s].st = "LIVE" => Stands(s)'
  BY LiveStands
<1>3. ~StopPostLost
  BY DEF StopPostLost
<1>4. ASSUME sec'.at \in {"stopPost", "stopFail", "cancelSettle"}
      PROVE  brokerStops'[sec'.skey].st # "LIVE"
  <2>1. CASE Still
    <3>1. sec.skey \in StopKeys /\ brokerStops[sec.skey].st # "LIVE"
      BY <1>0, <1>4, <2>1 DEF Still, LiveInHand, TypeInv, Located, StopPlaces
    <3>2. ~StopPost
      BY <1>0, <1>4, <2>1 DEF Still, StopPost, At, Goto, Tables, Section
    <3> QED BY <1>0, <1>3, <2>1, <3>1, <3>2, BrokerStopsMove DEF Still
  <2>2. CASE StopRecord
    <3>1. PICK s \in StopKeys : /\ stops[s].status = "ABSENT"
                                /\ sec' = [sec EXCEPT !.skey = s, !.at = "stopPost"]
      BY <2>2 DEF StopRecord, CanRecordPlacing
    <3>2. brokerStops[s].st # "LIVE"
      BY <1>0, <3>1 DEF LiveInHand, Stands, StandingStop
    <3>3. sec'.skey = s /\ UNCHANGED brokerStops
      BY <1>0, <2>2, <3>1 DEF StopRecord, brokerVars, Tables, Section
    <3> QED BY <3>2, <3>3
  <2>3. CASE StopPost
    <3>1. PICK place \in {"stopActivate", "stopFail"} :
             /\ Goto(place)
             /\ place = "stopFail" => UNCHANGED brokerStops
      BY <2>3 DEF StopPost
    <3>2. sec'.at = place /\ sec'.skey = sec.skey
      BY <1>0, <3>1 DEF Goto, Tables, Section
    <3>3. brokerStops[sec.skey].st # "LIVE"
      BY <1>0, <2>3 DEF StopPost, At, LiveInHand
    <3> QED BY <1>4, <3>1, <3>2, <3>3
  <2>4. CASE CancelStop
    <3>1. sec.at = "cancelStop"
      BY <2>4 DEF CancelStop, At
    <3>2. ActiveForPosition(stops, sec.pos) # {}
      BY <1>0, <1>4, <2>4 DEF CancelStop, Goto, Tables, Section
    <3>3. PICK s \in ActiveForPosition(stops, sec.pos) :
            /\ sec' = [sec EXCEPT !.skey = s, !.at = "cancelSettle"]
            /\ stops[s].status = "ACTIVE" => brokerStops' = StopCancelled(s)
      BY <2>4, <3>2 DEF CancelStop
    <3>4. s \in StopKeys /\ sec'.skey = s
      BY <1>0, <3>3 DEF ActiveForPosition, Tables, Section
    <3>5. CASE stops[s].status = "ACTIVE"
      BY <1>0, <3>3, <3>4, <3>5 DEF StopCancelled, TypeInv, TypeOK, BrokerOK, BrokerStop
    <3>6. CASE stops[s].status # "ACTIVE"
      <4>1. brokerStops[s].st # "LIVE"
        BY <1>0, <3>1, <3>4, <3>6 DEF LiveInHand, Stands, Placing
      <4> QED BY <2>4, <1>0, <3>1, <3>4, <4>1, BrokerStopsMove DEF StopPost, StopPostLost, At
    <3> QED BY <3>5, <3>6
  <2>5. ~StopFailUnwritten
    BY <1>0, <1>4, TryAgainOnward DEF StopFailUnwritten, At, Onward, NoSection
  <2>6. CASE Leaving \/ Passing \/ Begins \/ OpenFromFill
    BY <1>0, <1>4, <2>6, OpenedSection
       DEF Leaving, Passing, Begins, OrderWork, NoSection
  <2>7. ~(StopActivate \/ StopProtect \/ StopFail \/ CancelSettle \/ Demote \/ ExecSettle
          \/ ExecLocal \/ FinishClose)
    BY <1>0, <1>4, WorkEnds
  <2> QED BY <1>0, <1>3, <2>1, <2>2, <2>3, <2>4, <2>6, <2>7, <2>5, StopsKind DEF StopWork
<1>5. ASSUME sec'.at = "execSettle"
      PROVE  brokerStops'[positions'[sec'.pos].stopKey].st = "FIRED"
  <2>1. CASE Still
    <3>1. /\ sec.pos \in PositionIds /\ positions[sec.pos].stopKey \in StopKeys
          /\ brokerStops[positions[sec.pos].stopKey].st = "FIRED"
      BY <1>0, <1>5, <2>1 DEF Still, LiveInHand, Bound, TakenInHand, TypeInv, Located,
                              PositionPlaces
    <3>2. ~StopPost
      BY <1>5, <2>1 DEF Still, StopPost, At
    <3>3. positions'[sec'.pos].stopKey = positions[sec.pos].stopKey
      BY <2>1, <3>1 DEF Still, SameRows
    <3> QED BY <1>0, <1>3, <3>1, <3>2, <3>3, BrokerStopsMove
  <2>2. CASE Begins /\ sec = NoSection
    <3>1. PICK s \in StopKeys : /\ stops[s].status = "ACTIVE" /\ stops[s].position = sec'.pos
                                /\ brokerStops[s].st = "FIRED"
      BY <1>5, <2>2 DEF Begins
    <3>2. positions[sec'.pos].stopKey = s
      BY <1>0, <2>2, <3>1 DEF Bound, StandingFits, Stands, StandingStop, Placing, NoSection
    <3> QED BY <2>2, <3>1, <3>2 DEF Begins, dbVars, brokerVars
  <2>3. CASE Leaving \/ Passing \/ OpenFromFill
    BY <1>0, <1>5, <2>3, OpenedSection DEF Leaving, Passing, OrderWork, NoSection
  <2>4. CASE StopRecord \/ StopPost \/ CancelStop
    <3>1. ASSUME NEW place \in {"stopActivate", "stopFail", "demote"}, Goto(place)
          PROVE  sec'.at # "execSettle"
      BY <1>0, <3>1 DEF Goto, Tables, Section
    <3>2. CASE StopRecord
      BY <1>0, <1>5, <3>2 DEF StopRecord, Tables, Section
    <3>3. CASE StopPost
      BY <1>5, <3>1, <3>3 DEF StopPost
    <3>4. CASE CancelStop
      BY <1>0, <1>5, <3>1, <3>4 DEF CancelStop, Tables, Section
    <3> QED BY <2>4, <3>2, <3>3, <3>4
  <2>5. ~(StopActivate \/ StopProtect \/ StopFail \/ CancelSettle \/ Demote \/ ExecSettle
          \/ ExecLocal \/ FinishClose)
    BY <1>0, <1>5, WorkEnds
  <2>6. ~StopFailUnwritten
    BY <1>0, <1>5, TryAgainOnward DEF StopFailUnwritten, At, Onward, NoSection
  <2> QED BY <1>0, <1>3, <2>1, <2>2, <2>3, <2>4, <2>5, <2>6, StopsKind DEF StopWork
<1> QED BY <1>1, <1>2, <1>4, <1>5 DEF LiveInv, LiveInHand

(* No stop outlives the sale of the shares it was to sell: a stop the      *)
(* broker would still execute belongs to an open position.  Cancelled      *)
(* before the sale, settled only when cancelled, executed or refused.  A   *)
(* failed write and a post with no answer are excluded: after either the   *)
(* bot may give up a stop that stands.                                     *)
THEOREM LiveStopsAreOwned ==
  ASSUME "db" \notin Faults, "mutestop" \notin Faults
  PROVE  Spec => []LiveStopIsOwned
<1>1. Init => LiveInv
  BY StopsInit DEF LiveInv, LiveInHand, Init, NoSection, NoBrokerStop
<1>2. LiveInv /\ [Next]_vars => LiveInv'
  BY LiveStep DEF NothingLost
<1>3. LiveInv => LiveStopIsOwned
  BY DEF LiveInv, LiveInHand, StopsInv, StandingFits, LiveStopIsOwned, Stands, StandingStop
<1> QED BY <1>1, <1>2, <1>3, PTL DEF Spec

-----------------------------------------------------------------------------
(* How much a stop would sell, where no order fills late. *)

(* Every order is over when it is answered, and filled whole or not at all. *)
Prompt ==
  /\ sec.at \notin {"cancelOrder", "reread", "shrink"}
  /\ sec.at = "settleReply" /\ sec.ans # "FILLED" => sec.got = 0
  /\ \A k \in OrderKeys :
       brokerOrders[k].st # "FILLED" => brokerOrders[k].st # "LIVE" /\ brokerOrders[k].filled = 0

Sized == \A s \in StopKeys : Stands(s) => stops[s].lots = positions[stops[s].position].lots

SizedInv == StopsInv /\ Prompt /\ Sized

LEMMA PromptPost ==
  ASSUME TypeInv, "slow" \notin Faults, Post
  PROVE  /\ Reply("FILLED", sec.lots) \/ Reply("REJECTED", 0) \/ Leave \/ Raise
         /\ \/ UNCHANGED brokerOrders
            \/ /\ sec.key \in OrderKeys
               /\ \E st \in {"FILLED", "REJECTED"}, n \in Nat :
                    /\ st = "REJECTED" => n = 0
                    /\ brokerOrders' = [brokerOrders EXCEPT ![sec.key] = Arrived(st, n)]
<1>1. PostFilled \/ PostRefused \/ PostLost
  BY DEF Post, PostPending, PostPartial, PostCancelled
<1>2. sec.key \in OrderKeys /\ sec.lots \in Nat
  BY <1>1 DEF PostFilled, PostRefused, PostLost, At, TypeInv, TypeOK, SectionOK, Section,
              Located, KeyPlaces
<1> QED BY <1>1, <1>2 DEF PostFilled, PostRefused, PostLost, OutcomeUnknown, Takes, brokerVars

LEMMA PromptBroker ==
  ASSUME TypeInv, Prompt, "slow" \notin Faults, [Next]_vars, NEW k \in OrderKeys,
         brokerOrders'[k].st # "FILLED"
  PROVE  brokerOrders'[k].st # "LIVE" /\ brokerOrders'[k].filled = 0
<1>0. brokerOrders \in [OrderKeys -> BrokerOrder]
  BY DEF TypeInv, TypeOK, BrokerOK
<1>1. CASE UNCHANGED brokerOrders
  BY <1>1 DEF Prompt
<1>2. CASE Post
  <2>1. CASE \E st \in {"FILLED", "REJECTED"}, n \in Nat :
               /\ st = "REJECTED" => n = 0
               /\ sec.key \in OrderKeys
               /\ brokerOrders' = [brokerOrders EXCEPT ![sec.key] = Arrived(st, n)]
    BY <1>0, <2>1 DEF Prompt, Arrived
  <2> QED BY <1>1, <1>2, <2>1, PromptPost
<1>3. ~\E j \in OrderKeys : BrokerFill(j) \/ BrokerCancel(j)
  BY DEF BrokerFill, BrokerCancel
<1>4. CASE brokerOrders' = CancelledAtBroker
  BY <1>0, <1>4 DEF CancelledAtBroker, Prompt, BrokerOrder
<1> QED BY <1>1, <1>2, <1>3, <1>4, BrokerOrdersStep

LEMMA PromptSection ==
  ASSUME TypeInv, Prompt, "slow" \notin Faults, [Next]_vars
  PROVE  /\ sec'.at \notin {"cancelOrder", "reread", "shrink"}
         /\ sec'.at = "settleReply" /\ sec'.ans # "FILLED" => sec'.got = 0
<1>0. SectionOK /\ sec \in Section /\ Located
  BY DEF TypeInv, TypeOK, SectionOK
<1>1. CASE sec' = sec \/ sec' = NoSection \/ Begins
  BY <1>1 DEF Prompt, Begins, NoSection
<1>2. ASSUME NEW a, NEW n, Reply(a, n), a # "FILLED" => n = 0
      PROVE  /\ sec'.at \notin {"cancelOrder", "reread", "shrink"}
             /\ sec'.at = "settleReply" /\ sec'.ans # "FILLED" => sec'.got = 0
  BY <1>0, <1>2, ReplyOnward DEF Onward
<1>3. CASE Post
  BY <1>1, <1>2, <1>3, PromptPost DEF Leave, Raise
<1>4. CASE Query \/ QueryLost
  <2>1. sec.key \in OrderKeys
    BY <1>0, <1>4 DEF Query, QueryLost, At, Located, KeyPlaces
  <2>2. \/ Leave \/ Reply("REJECTED", 0)
        \/ Reply(brokerOrders[sec.key].st, brokerOrders[sec.key].filled)
    BY <1>4, <2>1 DEF Query, QueryLost, Prompt
  <2> QED BY <1>1, <1>2, <2>1, <2>2 DEF Leave, Prompt
<1>5. ~(CancelOrder \/ CancelOrderLost \/ Reread \/ RereadLost)
  BY DEF CancelOrder, CancelOrderLost, Reread, RereadLost, At, Prompt
<1>6. CASE Records
  <2>1. PICK k \in OrderKeys :
          \/ sec' = [sec EXCEPT !.key = k, !.at = "post"]
          \/ sec' = [sec EXCEPT !.key = k, !.at = "settleReply", !.ans = "REJECTED", !.got = 0]
          \/ sec' = [sec EXCEPT !.key = k, !.at = "settleReply", !.ans = "FILLED"]
    BY <1>6 DEF Records, RecordIntent, RecordNoLots, RecordExecution
  <2> QED BY <1>0, <2>1 DEF Section
<1>7. CASE SettleReply
  <2>1. CASE sec' = NoSection
    BY <1>1, <2>1
  <2>2. CASE sec'.at \in {"openRow", "lookup", "closeRow", "cancelStop"}
    BY <2>2
  <2>3. CASE sec'.at = "shrink"
    <3>1. sec.ans = "FILLED"
      BY <1>0, <1>7, <2>3, SettledSection DEF NoSection, Prompt, Section
    <3>2. sec.op = "resolve"
      BY <1>7, <2>3, SettledSection DEF NoSection
    <3>3. \/ Goto("lookup") \/ Leave
          \/ \E p \in PositionIds : sec' = [sec EXCEPT !.pos = p, !.at = "cancelStop"]
      BY <1>7, <3>1, <3>2 DEF SettleReply, AfterResolve
    <3>4. ASSUME NEW p, sec' = [sec EXCEPT !.pos = p, !.at = "cancelStop"]
          PROVE  sec'.at = "cancelStop"
      BY <1>0, <3>4 DEF Section
    <3>5. ASSUME Goto("lookup") PROVE sec'.at = "lookup"
      BY <1>0, <3>5 DEF Goto, Section
    <3>6. ASSUME Leave PROVE sec'.at = "none"
      BY <3>6 DEF Leave, NoSection
    <3> QED BY <2>3, <3>3, <3>4, <3>5, <3>6
  <2> QED BY <1>7, <2>1, <2>2, <2>3, SettledSection
<1>8. CASE OpenFromFill
  BY <1>1, <1>8, OpenedSection
<1>9. CASE Lookup \/ LookupFails \/ SettleTwice \/ CancelStop \/ CancelStopLost
           \/ CancelSettle \/ Demote \/ ExecSettle \/ ExecLocal \/ FinishClose
           \/ StartCooldown \/ Shrink \/ StopRecord \/ StopRecordRefused \/ StopPost
           \/ StopPostLost \/ StopActivate \/ StopProtect \/ StopFail \/ DbFails
  <2>1. CASE Turns
    <3>1. PICK turning \in Turnings : Onward(turning[1], turning[2])
      BY <2>1 DEF Turns
    <3>2. PICK from, to : turning = <<from, to>> /\ <<from, to>> \in Turnings
      BY <3>1 DEF Turnings
    <3>3. sec.at = from /\ sec'.at = to
      BY <3>1, <3>2 DEF Onward
    <3>4. to \in {"cancelOrder", "reread", "settleReply"} =>
            from \in {"post", "query", "cancelOrder", "reread"}
      BY <3>2 DEF Turnings
    <3>5. to # "shrink"
      BY <3>2 DEF Turnings
    <3>6. ASSUME sec.at \in {"post", "query", "cancelOrder", "reread"} PROVE sec' = NoSection
      BY <1>9, <3>6 DEF Lookup, LookupFails, SettleTwice, CancelStop, CancelStopLost,
         CancelSettle, Demote, ExecSettle, ExecLocal, FinishClose, StartCooldown, Shrink,
         StopRecord, StopRecordRefused, StopPost, StopPostLost, StopActivate, StopProtect,
         StopFail, At, DbFails, WriteFails, StopSettleFails, StopFailUnwritten,
         CooldownUnwritten
    <3> QED BY <1>1, <3>3, <3>4, <3>5, <3>6
  <2> QED BY <1>1, <1>9, <2>1, StopsTurn, ClosesTurn, OthersTurn
<1>10. CASE Trading \/ Drain \/ Environment \/ UNCHANGED vars
  BY <1>1, <1>10, OthersBegin
<1> QED BY <1>3, <1>4, <1>5, <1>6, <1>7, <1>8, <1>9, <1>10 DEF Next, Process, Holder, Records

(* A stop is recorded for its position's lots, which only a part filled    *)
(* late would change.                                                      *)
LEMMA SizedStep ==
  ASSUME StopsInv, Prompt, Sized, NothingLost, [Next]_vars
  PROVE  Sized'
<1> SUFFICES ASSUME NEW s \in StopKeys, Stands(s)'
             PROVE  stops'[s].lots = positions'[stops'[s].position].lots
  BY DEF Sized
<1>0. TypeInv /\ Tables /\ Bound
  BY TablesType DEF StopsInv, BooksInv, Bound
<1>1. CASE StopRecord
  <2>1. sec.pos \in PositionIds /\ UNCHANGED positions
    BY <1>0, <1>1 DEF StopRecord, At, TypeInv, Located, PositionPlaces
  <2>2. PICK r \in StopKeys :
          /\ stops' = RecordPlacing(stops, r, sec.pos, positions[sec.pos].lots)
          /\ sec' = [sec EXCEPT !.skey = r, !.at = "stopPost"] /\ sec.at = "stopRecord"
    BY <1>1 DEF StopRecord, At
  <2>3. CASE s = r
    BY <1>0, <2>1, <2>2, <2>3 DEF RecordPlacing, Tables
  <2>4. CASE s # r
    <3>1. stops'[s] = stops[s] /\ sec'.skey = r /\ sec.at = "stopRecord"
      BY <1>0, <2>2, <2>4 DEF RecordPlacing, Tables, Section
    <3>2. Stands(s)
      BY <2>4, <3>1 DEF Stands
    <3> QED BY <2>1, <3>1, <3>2 DEF Sized
  <2> QED BY <2>3, <2>4
<1>2. CASE ~StopRecord
  <2>1. /\ Stands(s)
        /\ stops'[s].position = stops[s].position /\ stops'[s].lots = stops[s].lots
    BY <1>2, StandsBefore
  <2> DEFINE p == stops[s].position
  <2>2. p \in PositionIds /\ positions[p].status = "OPEN" /\ stops[s].lots = positions[p].lots
    BY <1>0, <2>1 DEF Bound, StandingFits, Sized
  <2>3. positions'[p].lots = positions[p].lots
    <3>1. CASE OpenFromFill /\ ~UNCHANGED positions
      <4>1. /\ positions[sec'.pos].status = "ABSENT"
            /\ positions' = OpenRow(positions, sec'.pos, sec.ticker, orders[sec.key].filled,
                                    sec.key)
        BY <1>0, <3>1, OpenedSection
      <4> QED BY <2>2, <4>1 DEF OpenRow
    <3>2. CASE StopProtect
      BY <1>0, <2>2, <3>2 DEF StopProtect, SetStopProtection, Tables, PositionRow
    <3>3. CASE Demote \/ ExecLocal
      <4>1. CASE positions' = SetStopProtection(positions, sec.pos, "LOCAL", 0)
        BY <1>0, <2>2, <4>1 DEF SetStopProtection, Tables, PositionRow
      <4> QED BY <3>3, <4>1 DEF Demote, ExecLocal, ToLocal
    <3>4. CASE FinishClose
      <4>1. CASE positions' = CloseRow(positions, sec.pos, sec.trigger, sec.key)
        BY <1>0, <2>2, <4>1 DEF CloseRow, Tables, PositionRow
      <4> QED BY <3>4, <4>1 DEF FinishClose
    <3>5. ~Shrink
      BY DEF Shrink, At, Prompt
    <3> QED BY <3>1, <3>2, <3>3, <3>4, <3>5, PositionsStep
  <2> QED BY <2>1, <2>2, <2>3
<1> QED BY <1>1, <1>2

LEMMA SizedInvStep ==
  ASSUME "slow" \notin Faults, SizedInv, NothingLost, [Next]_vars
  PROVE  SizedInv'
<1>1. TypeInv /\ Bound
  BY DEF SizedInv, StopsInv, BooksInv, Bound
<1>2. StopsInv'
  BY StopsInvStep DEF SizedInv
<1>3. Prompt'
  BY <1>1, PromptSection, PromptBroker DEF SizedInv, Prompt
<1>4. Sized'
  BY SizedStep DEF SizedInv
<1> QED BY <1>2, <1>3, <1>4 DEF SizedInv

LEMMA BoundInSize ==
  ASSUME SizedInv PROVE ExchangeIsBound
<1> SUFFICES ASSUME NEW p \in PositionIds, positions[p].protection = "EXCHANGE",
                    ~BeingDemoted(p)
             PROVE  /\ positions[p].stopKey # 0
                    /\ stops[positions[p].stopKey] =
                         [status |-> "ACTIVE", position |-> p, lots |-> positions[p].lots]
  BY DEF ExchangeIsBound
<1> DEFINE s == positions[p].stopKey
<1>1. s \in StopKeys /\ stops[s].status = "ACTIVE" /\ stops[s].position = p
  BY DEF SizedInv, StopsInv, BoundToStop
<1>2. stops[s].lots = positions[p].lots
  BY <1>1 DEF SizedInv, Sized, Stands, StandingStop
<1>3. stops[s] \in StopRow
  BY <1>1 DEF SizedInv, StopsInv, BooksInv, TypeInv, TypeOK, TablesOK
<1>4. s # 0
  BY <1>1, TableAssumption DEF StopKeys
<1> QED BY <1>1, <1>2, <1>3, <1>4 DEF StopRow

(* A position marked EXCHANGE names a stop row of its own, standing, for   *)
(* all of its lots, except while a cancel or an execution is being written *)
(* down.  Excluded are a failed write, which leaves the mark on a settled  *)
(* stop, and slow fills: an old exit that is resolved late shrinks the     *)
(* position and not its stop.                                              *)
THEOREM ExchangeStopsAreBound ==
  ASSUME "db" \notin Faults, "slow" \notin Faults
  PROVE  Spec => []ExchangeIsBound
<1>1. Init => SizedInv
  BY StopsInit DEF SizedInv, Prompt, Sized, Stands, StandingStop, Init, NoSection, NoStop,
                   NoBrokerOrder
<1>2. SizedInv /\ [Next]_vars => SizedInv'
  BY SizedInvStep DEF NothingLost
<1>3. SizedInv => ExchangeIsBound
  BY BoundInSize
<1> QED BY <1>1, <1>2, <1>3, PTL DEF Spec
=============================================================================
