------------------------------ MODULE HaltFlag ------------------------------
(***************************************************************************)
(* The persisted halt flag (state/halt.py) and the three tasks that share  *)
(* it: the trading cycle, the shutdown drain and the owner's commands.     *)
(* All of them use one database connection.  A read needs no lock and sees *)
(* what another task has written and not yet committed; a write holds the  *)
(* transaction lock from BEGIN to COMMIT (db/connection.py).  halt() and   *)
(* resume() first read the row and then write in a transaction of their    *)
(* own, so the row may change between the two.                             *)
(***************************************************************************)
EXTENDS Naturals, FiniteSets

CONSTANTS
  MaxCalls,        \* calls of halt() and resume() in one behaviour
  MaxWriteFaults,  \* writes of the flag that fail
  MaxRestarts,     \* times the process dies and starts again
  MaxPasses        \* trading cycles that get as far as the loss measurement

ASSUME HaltFlagBounds ==
  {MaxCalls, MaxWriteFaults, MaxRestarts, MaxPasses} \subseteq Nat

VARIABLES
  flag,         \* the row of halt_state as every reader of the connection sees it
  durableFlag,  \* the row as last committed: what a restart finds
  writer,       \* the task that holds the transaction lock
  torn,         \* the connection is still inside a transaction whose COMMIT failed
  call,         \* the call of halt() or resume() each task is in
  pass,         \* where the trading cycle is
  seenOwed,     \* whether a halt was owed when the entry pass read the flag
  owed,         \* a halt() has returned and nothing since its start undid it
  halting,      \* tasks whose halt() began after the last resume or failed write
  opened,       \* entries opened by the pass in progress
  spent         \* how much of each bound is used

haltVars == <<flag, durableFlag, writer, torn, call, pass, seenOwed, owed,
              halting, opened, spent>>

Tasks == {"cycle", "drain", "owner"}
NoTask == "none"
Reasons == {"MANUAL", "RECONCILIATION_MISMATCH", "DAILY_LOSS_LIMIT"}

(* Which reason replaces which. *)
Severity(reason) == CASE reason = "MANUAL" -> 1
                      [] reason = "RECONCILIATION_MISMATCH" -> 2
                      [] reason = "DAILY_LOSS_LIMIT" -> 3

Trading == [halted |-> FALSE, reason |-> "MANUAL"]
HaltedFor(reason) == [halted |-> TRUE, reason |-> reason]
NoCall == [op |-> "none", at |-> "-", reason |-> "MANUAL", replacing |-> FALSE]

HaltInit ==
  /\ flag \in {Trading} \cup {HaltedFor(r) : r \in Reasons}
  /\ durableFlag = flag
  /\ writer = NoTask
  /\ torn = FALSE
  /\ call = [t \in Tasks |-> NoCall]
  /\ pass = "between"
  /\ seenOwed = FALSE
  /\ owed = FALSE
  /\ halting = {}
  /\ opened = 0
  /\ spent = [calls |-> 0, faults |-> 0, restarts |-> 0, passes |-> 0]

-----------------------------------------------------------------------------
(* The calls.  halt() and resume() read the row at once and decide. *)

Free(t) == call[t].op = "none"

Spend(what) == spent' = [spent EXCEPT ![what] = @ + 1]

(* Mutant: the reason of a halt long resumed still supersedes. *)
SupersededByHistory(reason) == Severity(reason) <= Severity(flag.reason)

(* halt() does nothing when the standing halt is at least as severe. *)
Superseded(reason) ==
  flag.halted /\ Severity(reason) <= Severity(flag.reason)

(* The call of halt() as task t leaves its read of the row. *)
HaltCall(reason) ==
  IF Superseded(reason)
    THEN NoCall
    ELSE [op |-> "halt", at |-> "lock", reason |-> reason, replacing |-> flag.halted]

BeginHalt(t, reason) ==
  /\ call' = [call EXCEPT ![t] = HaltCall(reason)]
  /\ IF Superseded(reason)
       THEN /\ owed' = (owed \/ (durableFlag.halted /\ ~torn))
            /\ UNCHANGED halting
       ELSE halting' = halting \cup {t} /\ UNCHANGED owed

(* Owner commands run one after another; the drain calls halt() when a     *)
(* write of its own failed.                                                *)
AskHalt(t) ==
  /\ t \in {"owner", "drain"} /\ Free(t)
  /\ spent.calls < MaxCalls /\ Spend("calls")
  /\ BeginHalt(t, "MANUAL")
  /\ UNCHANGED <<flag, durableFlag, writer, torn, pass, seenOwed, opened>>

AskResume ==
  /\ Free("owner")
  /\ flag.halted
  /\ spent.calls < MaxCalls /\ Spend("calls")
  /\ call' = [call EXCEPT !["owner"] = [NoCall EXCEPT !.op = "resume", !.at = "lock"]]
  /\ UNCHANGED <<flag, durableFlag, writer, torn, pass, seenOwed, owed, halting, opened>>

(* BEGIN IMMEDIATE under the lock.  It fails, without a rollback, while the *)
(* connection is inside a transaction an earlier COMMIT left open.          *)
Begin(t) ==
  /\ call[t].at = "lock" /\ writer = NoTask /\ ~torn
  /\ writer' = t
  /\ call' = [call EXCEPT ![t].at = "update"]
  /\ UNCHANGED <<flag, durableFlag, torn, pass, seenOwed, owed, halting, opened, spent>>

(* What a task does with an exception out of halt() or resume(): the cycle  *)
(* is abandoned to its supervisor, the command and the drain end.           *)
Raise(t) ==
  /\ call' = [call EXCEPT ![t] = NoCall]
  /\ halting' = halting \ {t}
  /\ pass' = IF t = "cycle" THEN "between" ELSE pass
  /\ opened' = IF t = "cycle" THEN 0 ELSE opened

BeginFails(t) ==
  /\ call[t].at = "lock" /\ writer = NoTask /\ torn
  /\ Raise(t)
  /\ UNCHANGED <<flag, durableFlag, writer, torn, seenOwed, owed, spent>>

(* The UPDATE: a replacing halt writes the reason and leaves `halted` alone. *)
Written(c) ==
  IF c.op = "resume" THEN [flag EXCEPT !.halted = FALSE]
  ELSE IF c.replacing THEN [flag EXCEPT !.reason = c.reason]
  ELSE HaltedFor(c.reason)

Update(t) ==
  /\ call[t].at = "update"
  /\ flag' = Written(call[t])
  /\ call' = [call EXCEPT ![t].at = "commit"]
  /\ IF call[t].op = "resume"
       THEN owed' = FALSE /\ halting' = {}
       ELSE UNCHANGED <<owed, halting>>
  /\ UNCHANGED <<durableFlag, writer, torn, pass, seenOwed, opened, spent>>

(* The UPDATE fails and is rolled back. *)
UpdateFails(t) ==
  /\ call[t].at = "update"
  /\ spent.faults < MaxWriteFaults /\ Spend("faults")
  /\ writer' = NoTask
  /\ Raise(t)
  /\ UNCHANGED <<flag, durableFlag, torn, seenOwed, owed>>

Commit(t) ==
  /\ call[t].at = "commit"
  /\ durableFlag' = flag
  /\ writer' = NoTask
  /\ call' = [call EXCEPT ![t] = NoCall]
  /\ owed' = (owed \/ t \in halting)
  /\ halting' = halting \ {t}
  /\ UNCHANGED <<flag, torn, pass, seenOwed, opened, spent>>

(* The COMMIT fails.  It stands outside the block that rolls back: either   *)
(* the engine undid the transaction itself, or it is still open.            *)
CommitFails(t) ==
  /\ call[t].at = "commit"
  /\ spent.faults < MaxWriteFaults /\ Spend("faults")
  /\ writer' = NoTask
  /\ \/ flag' = durableFlag /\ UNCHANGED torn
     \/ torn' = TRUE /\ UNCHANGED flag
  /\ owed' = FALSE
  /\ call' = [call EXCEPT ![t] = NoCall]
  /\ halting' = {}
  /\ pass' = IF t = "cycle" THEN "between" ELSE pass
  /\ opened' = IF t = "cycle" THEN 0 ELSE opened
  /\ UNCHANGED <<durableFlag, seenOwed>>

-----------------------------------------------------------------------------
(* The trading cycle from the loss measurement on. *)

(* Step 4 measures the day's loss; a breach halts before anything is opened. *)
Measure(breach) ==
  /\ pass = "between" /\ Free("cycle")
  /\ spent.passes < MaxPasses /\ Spend("passes")
  /\ pass' = "measured"
  /\ IF breach
       THEN BeginHalt("cycle", "DAILY_LOSS_LIMIT")
       ELSE UNCHANGED <<call, owed, halting>>
  /\ UNCHANGED <<flag, durableFlag, writer, torn, seenOwed, opened>>

(* trading_cycle asks is_halted before it fetches candles and portfolio. *)
CheckHalted ==
  /\ pass = "measured" /\ Free("cycle")
  /\ pass' = IF flag.halted THEN "between" ELSE "fetching"
  /\ UNCHANGED <<flag, durableFlag, writer, torn, call, seenOwed, owed, halting, opened, spent>>

(* Mutant: the entry pass trusts the answer trading_cycle had. *)
ReadHaltedTrusting ==
  /\ pass = "fetching"
  /\ pass' = "passing"
  /\ seenOwed' = owed
  /\ UNCHANGED <<flag, durableFlag, writer, torn, call, owed, halting, opened, spent>>

(* The entry pass asks once more, and uses this answer for every signal. *)
ReadHalted ==
  /\ pass = "fetching"
  /\ pass' = IF flag.halted THEN "between" ELSE "passing"
  /\ seenOwed' = owed
  /\ UNCHANGED <<flag, durableFlag, writer, torn, call, owed, halting, opened, spent>>

OpenEntry ==
  /\ pass = "passing" /\ Free("cycle")
  /\ opened < 2
  /\ opened' = opened + 1
  /\ UNCHANGED <<flag, durableFlag, writer, torn, call, pass, seenOwed, owed, halting, spent>>

(* A write of an entry fails: halt(MANUAL), and the failure goes on up. *)
EntryWriteFails ==
  /\ pass = "passing" /\ Free("cycle")
  /\ spent.calls < MaxCalls /\ Spend("calls")
  /\ BeginHalt("cycle", "MANUAL")
  /\ pass' = "between" /\ opened' = 0
  /\ UNCHANGED <<flag, durableFlag, writer, torn, seenOwed>>

EndPass ==
  /\ pass = "passing" /\ Free("cycle")
  /\ pass' = "between" /\ opened' = 0
  /\ UNCHANGED <<flag, durableFlag, writer, torn, call, seenOwed, owed, halting, spent>>

(* The process dies: what was not committed is gone. *)
Restart ==
  /\ spent.restarts < MaxRestarts /\ Spend("restarts")
  /\ flag' = durableFlag
  /\ writer' = NoTask /\ torn' = FALSE
  /\ call' = [t \in Tasks |-> NoCall]
  /\ pass' = "between" /\ opened' = 0 /\ seenOwed' = FALSE
  /\ halting' = {}
  /\ UNCHANGED <<durableFlag, owed>>

TaskStep(t) == \/ Begin(t) \/ BeginFails(t) \/ Update(t) \/ UpdateFails(t)
               \/ Commit(t) \/ CommitFails(t)

HaltNext ==
  \/ \E t \in Tasks : AskHalt(t) \/ TaskStep(t)
  \/ AskResume
  \/ \E breach \in BOOLEAN : Measure(breach)
  \/ CheckHalted \/ ReadHalted \/ OpenEntry \/ EntryWriteFails \/ EndPass
  \/ Restart

HaltSpec == HaltInit /\ [][HaltNext]_haltVars

-----------------------------------------------------------------------------
(* Properties *)

(* The values each variable may take; one call at most is past BEGIN. *)
HaltTypeOK ==
  /\ flag \in [halted : BOOLEAN, reason : Reasons]
  /\ durableFlag \in [halted : BOOLEAN, reason : Reasons]
  /\ writer \in Tasks \cup {NoTask}
  /\ call \in [Tasks -> [op : {"none", "halt", "resume"},
                         at : {"-", "lock", "update", "commit"},
                         reason : Reasons, replacing : BOOLEAN]]
  /\ pass \in {"between", "measured", "fetching", "passing"}
  /\ \A t \in Tasks : call[t].at \in {"update", "commit"} <=> writer = t

(* A halt() that returned is in force, and survives a restart, until a      *)
(* resume() writes or a write of the flag fails: whatever other halts and   *)
(* resumes ran between its read of the row and its write (state/halt.py).   *)
(* A halt() that returned because it read another task's uncommitted halt   *)
(* is in force only once that one commits.                                  *)
HaltStands == owed => flag.halted /\ durableFlag.halted

(* An entry pass that began after a halt() returned, the breach of its own  *)
(* cycle included, opens nothing; only a pass that had read the flag before *)
(* may go on to open (app/loops.py, trading_cycle and _evaluate_entries).   *)
PassHeedsHalts == [][opened' > opened => ~seenOwed]_haltVars

(* "A halt for a strictly more severe reason replaces a weaker one; the     *)
(* same reason or a weaker one is a no-op": the reason of a standing halt   *)
(* never becomes a weaker one.                                              *)
HaltNeverWeakens ==
  [][flag.halted /\ flag'.halted /\ ~torn =>
       Severity(flag'.reason) >= Severity(flag.reason)]_haltVars
=============================================================================
