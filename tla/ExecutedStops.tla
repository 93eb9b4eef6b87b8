---------------------------- MODULE ExecutedStops ----------------------------
(***************************************************************************)
(* How a cycle learns that an exchange stop has executed: the query for    *)
(* executed stops, bounded by when a stop was placed, the orders the       *)
(* exchange made of them, the list of standing stops, and the alert for a  *)
(* stop that is in neither (app/loops.py, _close_executed;                 *)
(* broker/client.py, get_executed_stop_fills).  The booking itself is      *)
(* Execution's.  A day has two moments, the night and the session.         *)
(***************************************************************************)
EXTENDS Integers, FiniteSets, FiniteSetsExt

CONSTANTS
  Relying,       \* positions whose loss is the exchange's to stop
  LastInstant,   \* the clock of a behaviour
  Skew           \* how far the broker's clock may be behind the bot's

ASSUME StopQueryBounds == LastInstant \in Nat /\ Skew \in {0, 1}

VARIABLES
  instant,     \* the time
  heldRow,        \* each position: its status and its entry
  stopAt,      \* its stop at the broker
  closing,     \* what the cycle has read
  discrepancy, \* _stop_discrepancy_alerted
  unexplained, \* tickers the last cycle could not explain
  discrepancies, \* alerts since a cycle explained all of them
  executed     \* positions whose stop had a fill when this cycle asked

stopVars == <<instant, heldRow, stopAt, closing, discrepancy, unexplained, discrepancies, executed>>

DayOf(moment) == moment \div 2
Night(moment) == moment % 2 = 0

NotHeld == [status |-> "none", entry |-> 0]
NoStopAt == [st |-> "none", placed |-> 0, order |-> "none", echoes |-> FALSE]
NotClosing == [at |-> "between", book |-> {}, fills |-> {}, live |-> {}]

StopQueryInit ==
  /\ instant = 0
  /\ heldRow = [p \in Relying |-> NotHeld] /\ stopAt = [p \in Relying |-> NoStopAt]
  /\ closing = NotClosing
  /\ discrepancy = FALSE /\ unexplained = {} /\ discrepancies = 0 /\ executed = {}

(* A position is opened in a session, and its stop placed after its row.    *)
(* The broker may or may not echo the key it was placed with.               *)
Protect(p) ==
  /\ closing.at = "between" /\ ~Night(instant) /\ heldRow[p].status = "none"
  /\ heldRow' = [heldRow EXCEPT ![p] = [status |-> "open", entry |-> instant]]
  /\ \E placed \in (instant - Skew) .. instant, echoes \in BOOLEAN :
       stopAt' = [stopAt EXCEPT ![p] = [st |-> "standing", placed |-> placed,
                                        order |-> "none", echoes |-> echoes]]
  /\ UNCHANGED <<instant, closing, discrepancy, unexplained, discrepancies, executed>>

(* At the broker: the stop executes, or somebody cancels it; the order it   *)
(* became is linked, resolves and fills one after the other.                *)
StopGoes(p, st) ==
  /\ stopAt[p].st = "standing" /\ ~Night(instant)
  /\ stopAt' = [stopAt EXCEPT ![p].st = st,
                              ![p].order = IF st = "fired" THEN "unlinked" ELSE "none"]
  /\ UNCHANGED <<instant, heldRow, closing, discrepancy, unexplained, discrepancies, executed>>

OrderAdvances(p) ==
  /\ stopAt[p].order \in {"unlinked", "unresolved", "unfilled"}
  /\ stopAt' = [stopAt EXCEPT ![p].order =
       CASE @ = "unlinked" -> "unresolved" [] @ = "unresolved" -> "unfilled" [] OTHER -> "filled"]
  /\ UNCHANGED <<instant, heldRow, closing, discrepancy, unexplained, discrepancies, executed>>

-----------------------------------------------------------------------------
(* Mutant: the window begins today (#259). *)
SinceToday(book) == 2 * DayOf(instant)

(* The Moscow day of the earliest entry, in full. *)
Since(book) == 2 * DayOf(Min({heldRow[p].entry : p \in book}))

(* get_executed_stop_fills: what is not linked, does not resolve or has no  *)
(* lots is left out, and asked for again next cycle.                        *)
FillsSince(since) ==
  {p \in Relying : stopAt[p].st = "fired" /\ stopAt[p].placed >= since
                   /\ stopAt[p].order = "filled"}

AskExecuted ==
  LET book == {p \in Relying : heldRow[p].status = "open"} IN
  /\ closing.at = "between"
  /\ executed' = {p \in book : stopAt[p].st = "fired" /\ stopAt[p].order = "filled"}
  /\ IF book = {}
       THEN /\ discrepancy' = FALSE /\ unexplained' = {} /\ discrepancies' = 0
            /\ UNCHANGED closing
       ELSE /\ closing' = [at |-> "asked", book |-> book, fills |-> FillsSince(Since(book)),
                           live |-> {}]
            /\ UNCHANGED <<discrepancy, unexplained, discrepancies>>
  /\ UNCHANGED <<instant, heldRow, stopAt>>

(* list_stop_orders, a moment later: the key where the broker echoes it,    *)
(* the broker's own identifier in any case.                                 *)
AskStanding ==
  /\ closing.at = "asked"
  /\ closing' = [closing EXCEPT !.at = "listed", !.live =
       {<<"id", p>> : p \in {q \in Relying : stopAt[q].st = "standing"}}
         \cup {<<"key", p>> : p \in {q \in Relying : stopAt[q].st = "standing" /\ stopAt[q].echoes}}]
  /\ UNCHANGED <<instant, heldRow, stopAt, discrepancy, unexplained, discrepancies, executed>>

(* Mutant: only our own key is looked for (#5). *)
StopIsLiveByKey(p) == <<"key", p>> \in closing.live

(* _stop_is_live: either identifier stands. *)
StopIsLive(p) == <<"key", p>> \in closing.live \/ <<"id", p>> \in closing.live

(* The positions closed: those whose stop the broker reports filled. *)
ClosedByFill == closing.fills

ToldNow == ~discrepancy

CloseExecuted ==
  LET missing == {p \in closing.book \ ClosedByFill : ~StopIsLive(p)} IN
  /\ closing.at = "listed"
  /\ heldRow' = [p \in Relying |-> IF p \in closing.book \cap ClosedByFill
                                THEN [heldRow[p] EXCEPT !.status = "closed"] ELSE heldRow[p]]
  /\ unexplained' = missing
  /\ discrepancy' = (missing # {})
  /\ discrepancies' = IF missing = {} THEN 0
                      ELSE IF ToldNow THEN Min({2, discrepancies + 1}) ELSE discrepancies
  /\ closing' = NotClosing
  /\ UNCHANGED <<instant, stopAt, executed>>

(* Either query fails: the cycle is given up. *)
StopQueryFails ==
  /\ closing.at # "between"
  /\ closing' = NotClosing /\ executed' = {}
  /\ UNCHANGED <<instant, heldRow, stopAt, discrepancy, unexplained, discrepancies>>

InstantPasses ==
  /\ closing.at = "between" /\ instant < LastInstant /\ instant' = instant + 1
  /\ UNCHANGED <<heldRow, stopAt, closing, discrepancy, unexplained, discrepancies, executed>>

StopQueryNext ==
  \/ \E p \in Relying : Protect(p) \/ OrderAdvances(p)
                        \/ \E st \in {"fired", "gone"} : StopGoes(p, st)
  \/ AskExecuted \/ AskStanding \/ CloseExecuted \/ StopQueryFails \/ InstantPasses

StopQuerySpec == StopQueryInit /\ [][StopQueryNext]_stopVars

-----------------------------------------------------------------------------
(* A cycle whose queries were answered has closed every position whose stop *)
(* had a fill when it asked, on whatever day that stop was placed and with  *)
(* the broker's clock behind the bot's (#259); and none closes a position    *)
(* for anything else: neither a list without its stop nor a fill that       *)
(* cannot be resolved yet.                                                  *)
ExecutedStopIsClosed ==
  /\ closing.at = "between" => \A p \in executed : heldRow[p].status = "closed"
  /\ \A p \in Relying : heldRow[p].status = "closed" => stopAt[p].st = "fired"

(* A stop the cycle reports missing does not stand, whichever identifiers   *)
(* the broker echoes; and a discrepancy that lasts is told once.            *)
DiscrepancyIsReal ==
  /\ \A p \in unexplained : stopAt[p].st # "standing"
  /\ discrepancies = IF unexplained = {} THEN 0 ELSE 1
=============================================================================
