---------------------------- MODULE Commissions ----------------------------
(***************************************************************************)
(* The late backfill of commissions (ops/commissions.py).  The broker      *)
(* states no commission with a fill; its operations feed shows each trade  *)
(* when it happens and the trade's fee a little later, or no fee at all.   *)
(* A run lists the filled orders of the window without a commission, reads *)
(* the feed once, settles each order by it or tells the owner once that it *)
(* stays unknown, and then rewrites the results of the closed positions    *)
(* whose orders it settled.  Every write is a transaction of its own.      *)
(***************************************************************************)
EXTENDS Integers, FiniteSets, FiniteSetsExt

CONSTANTS
  Orders,       \* filled orders, each of two trades
  FeeLag,       \* the longest a fee follows its trade
  FeeSettle,    \* _FEE_SETTLE
  Stale,        \* _STALE
  Lookback,     \* _BACKFILL_LOOKBACK
  LastTime,     \* the clock of a behaviour
  MaxRunFaults  \* feeds that cannot be read, writes that fail, and deaths

ASSUME CommissionBounds ==
  /\ {FeeLag, FeeSettle, Stale, Lookback, LastTime, MaxRunFaults} \subseteq Nat
  /\ FeeLag <= FeeSettle

VARIABLES
  time,
  trade,       \* when each order's first and second trade happen
  fee,         \* whether they carry a fee, and how late it posts
  commission,  \* orders.commission
  told,        \* orders.commission_alerted_at is set
  profit,      \* the commission the closed position's result was computed with
  run,         \* the run under way
  alerts,      \* alerts of each order
  cut,         \* orders a run settled or told and did not finish with
  runFaults

commissionVars == <<time, trade, fee, commission, told, profit, run, alerts, cut, runFaults>>

Unasked == "unknown"
ZeroFee == "zero"
Whole == "whole"      \* the sum of both trades' fees
Part == "part"        \* the fee of one of them, while the other's is to come

NoRun == [at |-> "idle", until |-> 0, read |-> 0, feed |-> FALSE, todo |-> {}, updated |-> {}, order |-> Unasked]
NoFee == [due |-> FALSE, lag |-> 0]
Fees == [due : {TRUE}, lag : 0..FeeLag] \cup {NoFee}
FirstTrades == 0..1   \* later trades are these, with the clock set back

CommissionInit ==
  /\ time = 0
  /\ trade \in [Orders -> {<<s, s + d>> : s \in FirstTrades, d \in 0..1}]
  /\ fee \in [Orders -> Fees]
  /\ commission = [o \in Orders |-> Unasked] /\ profit = commission
  /\ told = {} /\ alerts = [o \in Orders |-> 0] /\ cut = {}
  /\ run = NoRun /\ runFaults = 0

RunFault == runFaults < MaxRunFaults /\ runFaults' = runFaults + 1

Settled(o) == trade[o][2]     \* the fill is recorded with its last trade
Posted(o, i, t) == fee[o].due /\ trade[o][i] + fee[o].lag <= t

(* list_missing_commission and _feed, at the start of a run. *)
Missing == {o \in Orders : commission[o] = Unasked
                           /\ Settled(o) <= time /\ Settled(o) >= time - Lookback}

BeginRun ==
  /\ run.at = "idle" /\ Missing # {}
  /\ \/ run' = [NoRun EXCEPT !.at = "orders", !.until = time, !.read = time,
                             !.feed = TRUE, !.todo = Missing] /\ UNCHANGED runFaults
     \/ RunFault /\ run' = [NoRun EXCEPT !.at = "orders", !.until = time, !.read = time,
                                         !.todo = Missing]
  /\ UNCHANGED <<time, trade, fee, commission, told, profit, alerts, cut>>

(* Mutant: a fee is overdue as soon as the trade is there. *)
FeesOverdueAtOnce(o) == trade[o][2] <= time

(* The cutoff: the clock once the feed is read, less the settle time. *)
FeesOverdue(o) == trade[o][2] <= time - FeeSettle

(* The trades and fees of the order that the run's feed shows, which is of  *)
(* the window asked for and of the moment it was read.                      *)
InFeed(o) == {i \in {1, 2} : trade[o][i] >= run.until - Lookback}
FeesInFeed(o) == {i \in InFeed(o) : Posted(o, i, run.read)}

(* _resolve: a sum of fees, a measured zero, or unknown. *)
FeeFound(o) ==
  IF ~run.feed \/ InFeed(o) = {} THEN Unasked
  ELSE IF FeesInFeed(o) # {} THEN (IF FeesInFeed(o) = {1, 2} THEN Whole ELSE Part)
  ELSE IF FeesOverdue(o) THEN ZeroFee
  ELSE Unasked

(* One order of the run: recorded, told, or left for the next run. *)
Settle(o) ==
  /\ run.at = "orders" /\ o \in run.todo
  /\ IF FeeFound(o) # Unasked
       THEN /\ commission' = [commission EXCEPT ![o] = FeeFound(o)]
            /\ run' = [run EXCEPT !.todo = @ \ {o}, !.updated = @ \cup {o}]
            /\ UNCHANGED alerts
       ELSE /\ UNCHANGED commission
            /\ IF time - Settled(o) > Stale /\ o \notin told
                 THEN /\ alerts' = [alerts EXCEPT ![o] = @ + 1]
                      /\ run' = [run EXCEPT !.at = "marking", !.order = o]
                 ELSE run' = [run EXCEPT !.todo = @ \ {o}] /\ UNCHANGED alerts
  /\ UNCHANGED <<time, trade, fee, told, profit, cut, runFaults>>

(* The order's own query may fail: unknown, whatever the feed shows. *)
QueryFails(o) ==
  /\ run.at = "orders" /\ o \in run.todo /\ RunFault
  /\ run' = [run EXCEPT !.todo = @ \ {o}]
  /\ UNCHANGED <<time, trade, fee, commission, told, profit, alerts, cut>>

ToldAfter == told \cup {run.order}

MarkTold ==
  /\ run.at = "marking"
  /\ told' = ToldAfter
  /\ run' = [run EXCEPT !.at = "orders", !.todo = @ \ {run.order}, !.order = Unasked]
  /\ UNCHANGED <<time, trade, fee, commission, profit, alerts, cut, runFaults>>

(* Mutant: only the positions of orders that had a fee. *)
RewrittenWithFees == {o \in run.updated : commission[o] # ZeroFee}

(* The closed positions whose orders this run settled. *)
Rewritten == run.updated

EndRun ==
  /\ run.at = "orders" /\ run.todo = {}
  /\ profit' = [o \in Orders |-> IF o \in Rewritten THEN commission[o] ELSE profit[o]]
  /\ run' = NoRun
  /\ UNCHANGED <<time, trade, fee, commission, told, alerts, cut, runFaults>>

(* A write fails or the process dies: the rest of the run is not done. *)
CutRun ==
  /\ run.at # "idle" /\ RunFault
  /\ cut' = cut \cup run.updated \cup (IF run.at = "marking" THEN {run.order} ELSE {})
  /\ run' = NoRun
  /\ UNCHANGED <<time, trade, fee, commission, told, profit, alerts>>

(* A run takes time too: its orders are asked about well within the settle  *)
(* time of the moment its feed was read.                                    *)
TimePasses ==
  /\ time < LastTime
  /\ run.at # "idle" => time - run.read < FeeSettle - FeeLag
  /\ time' = time + 1
  /\ UNCHANGED <<trade, fee, commission, told, profit, run, alerts, cut, runFaults>>

CommissionNext ==
  \/ BeginRun \/ MarkTold \/ EndRun \/ CutRun \/ TimePasses
  \/ \E o \in Orders : Settle(o) \/ QueryFails(o)

CommissionSpec == CommissionInit /\ [][CommissionNext]_commissionVars

-----------------------------------------------------------------------------
(* Properties *)

CommissionTypeOK ==
  /\ commission \in [Orders -> {Unasked, ZeroFee, Whole, Part}]
  /\ profit \in [Orders -> {Unasked, ZeroFee, Whole, Part}]
  /\ told \subseteq Orders /\ run.todo \subseteq Orders

(* A zero is recorded only for a trade that never carries a fee, never for  *)
(* one whose fee is still to post: the row is not asked about again.        *)
ZeroIsMeasured == \A o \in Orders : commission[o] = ZeroFee => ~fee[o].due

(* What runs leave of an order that none was cut in the middle of: the      *)
(* owner was told of it once at most, and between runs its position's       *)
(* result is computed with the commission the order has.                    *)
UncutRunsAreWhole ==
  \A o \in Orders \ cut :
    /\ alerts[o] <= 1
    /\ run.at = "idle" => profit[o] = commission[o]

(* What the books say a trade cost is what it cost: no guessed zero, and no *)
(* result computed without the commission its order has come to have.       *)
CommissionsAreTrue == ZeroIsMeasured /\ UncutRunsAreWhole
=============================================================================
