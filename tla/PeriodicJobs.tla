---------------------------- MODULE PeriodicJobs ----------------------------
(***************************************************************************)
(* The periodic jobs of app/loops.py over the session guard: the schedule  *)
(* refresh, the daily rollover, the backup, the weekly report and the      *)
(* heartbeat, each a loop of its own that looks whether its period is due  *)
(* and unmarked, does the work, and marks the period in job_runs.  A       *)
(* failure the work does not absorb restarts the loop (_supervise); the    *)
(* process may die at any point and start again, with a refresh of its own *)
(* (app/startup.py).  A slot of the day is hours long and a loop polls     *)
(* every minute: time passes only when every loop has had its look.        *)
(***************************************************************************)
EXTENDS MarketSession

CONSTANTS
  WeekLength,     \* days of a week; its last day is the report's
  MaxJobFaults,   \* failures and outages in one behaviour
  MaxDeaths       \* ends of the process

ASSUME JobBounds == WeekLength \in Nat \ {0} /\ {MaxJobFaults, MaxDeaths} \subseteq Nat

VARIABLES
  marked,     \* job_runs: the periods marked for each job
  loop,       \* where each loop is, and the day it read
  looked,     \* loops with nothing more to do in this slot
  running,    \* the jobs looked at together in this behaviour
  alive,      \* the process is up and past its startup
  worked,     \* the periods whose work ran to its end
  jobFaults, deaths

jobVars == <<sessionVars, marked, loop, looked, running, alive, worked, jobFaults, deaths>>

Jobs == {"schedule_refresh", "rollover", "backup", "weekly_report", "heartbeat"}

Period(job, day) == IF job = "weekly_report" THEN day - (day % WeekLength) ELSE day
LastOfWeek(day) == day % WeekLength = WeekLength - 1

(* Is the job due now?  The report from noon of the last day on. *)
Due(job) ==
  CASE job = "rollover" -> IsOpen
    [] job = "backup" -> ~IsOpen
    [] job = "weekly_report" -> LastOfWeek(today) /\ slot >= During
    [] OTHER -> TRUE

Asleep == [at |-> "asleep", day |-> 0]

JobsInit ==
  /\ SessionInit
  /\ marked = [j \in Jobs |-> {}] /\ worked = [j \in Jobs |-> {}]
  /\ loop = [j \in Jobs |-> Asleep] /\ looked = {}
  /\ running \in {{"schedule_refresh", j} : j \in Jobs \ {"schedule_refresh"}}
  /\ alive = FALSE
  /\ jobFaults = 0 /\ deaths = 0

JobFault == jobFaults < MaxJobFaults /\ jobFaults' = jobFaults + 1

(* Mutant: the period is marked before the work. *)
LookAtMarkingFirst(job) ==
  /\ alive /\ job \in running \ looked /\ loop[job].at = "asleep"
  /\ IF Due(job) /\ Period(job, today) \notin marked[job]
       THEN /\ loop' = [loop EXCEPT ![job] = [at |-> "work", day |-> today]]
            /\ marked' = [marked EXCEPT ![job] = @ \cup {Period(job, today)}]
            /\ UNCHANGED looked
       ELSE looked' = looked \cup {job} /\ UNCHANGED <<loop, marked>>
  /\ UNCHANGED <<sessionVars, running, alive, worked, jobFaults, deaths>>

(* The top of a loop: due, and has_run says no. *)
LookAt(job) ==
  /\ alive /\ job \in running \ looked /\ loop[job].at = "asleep"
  /\ IF Due(job) /\ Period(job, today) \notin marked[job]
       THEN /\ loop' = [loop EXCEPT ![job] = [at |-> "work", day |-> today]]
            /\ UNCHANGED looked
       ELSE looked' = looked \cup {job} /\ UNCHANGED loop
  /\ UNCHANGED <<sessionVars, marked, running, alive, worked, jobFaults, deaths>>

(* The work.  Every job absorbs the failures it expects: the refresh an     *)
(* unavailable schedule, the rollover and the report an unreadable feed,    *)
(* the backup a failed copy, the heartbeat and the report a failed message. *)
(* After a refresh the other loops look again, a minute later at most.      *)
DoJob(job) ==
  /\ loop[job].at = "work"
  /\ loop' = [loop EXCEPT ![job].at = "mark"]
  /\ worked' = [worked EXCEPT ![job] = @ \cup {Period(job, loop[job].day)}]
  /\ IF job = "schedule_refresh"
       THEN /\ looked' = {}
            /\ \/ Refresh("answered") /\ UNCHANGED jobFaults
               \/ JobFault /\ \E lost \in {"unavailable", "unrecorded", "unreloaded"} : Refresh(lost)
       ELSE UNCHANGED <<sessionVars, looked, jobFaults>>
  /\ UNCHANGED <<marked, running, alive, deaths>>

(* A failure the work or the mark does not absorb: the supervisor starts    *)
(* the loop again, well within the slot.                                    *)
JobCrashes(job) ==
  /\ loop[job].at # "asleep" /\ JobFault
  /\ loop' = [loop EXCEPT ![job] = Asleep]
  /\ UNCHANGED <<sessionVars, marked, looked, running, alive, worked, deaths>>

(* mark_run keeps the first mark of a period. *)
MarkRun(job) ==
  /\ loop[job].at = "mark"
  /\ marked' = [marked EXCEPT ![job] = @ \cup {Period(job, loop[job].day)}]
  /\ loop' = [loop EXCEPT ![job] = Asleep]
  /\ UNCHANGED <<sessionVars, looked, running, alive, worked, jobFaults, deaths>>

(* start(): one refresh, then every loop. *)
StartUp ==
  /\ ~alive
  /\ \/ Refresh("answered") /\ UNCHANGED jobFaults
     \/ JobFault /\ \E lost \in {"unavailable", "unrecorded", "unreloaded"} : Refresh(lost)
  /\ alive' = TRUE /\ looked' = {}
  /\ UNCHANGED <<marked, loop, running, worked, deaths>>

ProcessDies ==
  /\ alive /\ deaths < MaxDeaths /\ deaths' = deaths + 1
  /\ ForgetSession
  /\ alive' = FALSE /\ looked' = {}
  /\ loop' = [j \in Jobs |-> Asleep]
  /\ UNCHANGED <<marked, running, worked, jobFaults>>

(* A work may outlast midnight, once: it marks the day the loop read. *)
SlotEnds ==
  /\ alive => \A j \in running :
       j \in looked \/ (loop[j].at = "work" /\ slot = After /\ loop[j].day = today)
  /\ SessionTick
  /\ looked' = {}
  /\ UNCHANGED <<marked, loop, running, alive, worked, jobFaults, deaths>>

JobsNext == \/ \E j \in Jobs : LookAt(j) \/ DoJob(j) \/ JobCrashes(j) \/ MarkRun(j)
            \/ StartUp \/ ProcessDies \/ SlotEnds

JobsSpec == JobsInit /\ [][JobsNext]_jobVars

-----------------------------------------------------------------------------
(* Properties *)

(* A period that is marked was worked through, whatever died in between: a  *)
(* crash repeats a job, it never skips one.                                 *)
MarkedWasWorked == \A j \in Jobs : marked[j] \subseteq worked[j]

(* What must have been done once its loop had its look in this slot: the    *)
(* daily jobs in the day, the report from noon of the week's last day on,   *)
(* also by a process that was down or failing at noon.                      *)
MustHaveRun(job) ==
  CASE job = "rollover" -> slot = During /\ today \in TradingDays \cap WindowFrom(fetchedOn)
    [] job = "backup" -> slot # During
    [] job = "weekly_report" -> LastOfWeek(today) /\ slot \in {During, After}
    [] OTHER -> TRUE

(* "A job is no longer skipped, only run late": a loop that has looked in   *)
(* the slot leaves no period of it undone, after any failure or restart.    *)
LateNotSkipped ==
  \A j \in looked : MustHaveRun(j) => Period(j, today) \in marked[j]

(* Late rather than never, and not marked unless done.                      *)
PeriodsAreWorked == LateNotSkipped /\ MarkedWasWorked

(* "A job is no longer skipped, only run late", of the refresh: a day whose *)
(* refresh is marked has a schedule to trade on.                            *)
MarkedRefreshFetched ==
  alive /\ today \in marked["schedule_refresh"] => fetchedOn # Unknown
=============================================================================
