----------------------------- MODULE MCServices -----------------------------
(***************************************************************************)
(* The services around the order path on small instances, and the order    *)
(* path once more under failing writes.  No two of these parts share state *)
(* in the models, so a behaviour is that of one part, chosen at the start; *)
(* the others stand in their first state.                                  *)
(***************************************************************************)
EXTENDS HaltFlag, DailyLoss, CycleHealth, PeriodicJobs, InstanceLock, Migrations,
        Commissions, Backups, EntryGate, StrategyRules, BrokerChannel, Quotes,
        InstrumentCache, ExecutedStops, SimExchange, OwnerMessages

CONSTANTS SBER, NoTicker

VARIABLES
  part,          \* the part that runs
  orders, positions, stops, halted, cooldown, brokerOrders, brokerStops, held,
  lock, sec, phase, todo, cycle, entriesStopped, polls   \* Execution's

Path == INSTANCE Execution WITH
  Tickers <- {SBER}, MaxOrders <- 4, MaxPositions <- 2, MaxStops <- 4, MaxLots <- 1,
  MaxTries <- 2, MaxPolls <- 1,
  Faults <- {"refuse", "silence", "deaf", "fire", "db"}

pathVars ==
  <<orders, positions, stops, halted, cooldown, brokerOrders, brokerStops, held,
    lock, sec, phase, todo, cycle, entriesStopped, polls>>

UnbookedEntryHalts == Path!UnbookedEntryHalts

Parts == {"halt", "loss", "health", "jobs", "instance", "schema", "commission", "backup",
          "gate", "strategy", "channel", "quote", "cache", "stop", "sim", "message",
          "path"}

(* A part that does not run stands in one of its first states: the one where `chosen` holds. *)
Or(p, chosen) == part # p => chosen

ServicesInit ==
  /\ part \in Parts
  /\ HaltInit /\ Or("halt", flag = Trading)
  /\ DailyInit /\ Or("loss", ~book.open)
  /\ HealthInit
  /\ JobsInit /\ Or("jobs", "rollover" \in running) /\ "heartbeat" \notin running
  /\ InstanceInit /\ Or("instance", marker = NoMarker)
  /\ SchemaInit /\ Or("schema", deployed = CHOOSE f \in Files : TRUE)
  /\ CommissionInit /\ Or("commission", /\ fee = [o \in Orders |-> NoFee]
                                       /\ \A o \in Orders : trade[o] = <<Min(FirstTrades), Min(FirstTrades)>>)
  /\ BackupInit /\ GateInit /\ StrategyInit /\ ChannelInit /\ QuoteInit
  /\ CacheInit /\ Or("cache", taken = {} /\ broker.dims = CHOOSE d \in Dimensions : TRUE)
  /\ StopQueryInit
  /\ SimInit /\ Or("sim", ~stopsRefused)
  /\ MessagesInit
  /\ Path!Init

(* The variables of every part that does not run stay as they are.          *)
Still(p, partVars) == IF part = p THEN TRUE ELSE UNCHANGED partVars

OthersStand ==
  /\ UNCHANGED part
  /\ Still("halt", haltVars)
  /\ Still("loss", dailyVars)
  /\ Still("health", healthVars)
  /\ Still("jobs", jobVars)
  /\ Still("instance", instanceVars)
  /\ Still("schema", schemaVars)
  /\ Still("commission", commissionVars)
  /\ Still("backup", backupVars)
  /\ Still("gate", gateVars)
  /\ Still("strategy", series)
  /\ Still("channel", channelVars)
  /\ Still("quote", quoteVars)
  /\ Still("cache", cacheVars)
  /\ Still("stop", stopVars)
  /\ Still("sim", simVars)
  /\ Still("message", messageVars)
  /\ Still("path", pathVars)

HaltRuns == part = "halt" /\ HaltNext /\ OthersStand
LossRuns == part = "loss" /\ DailyNext /\ OthersStand
HealthRuns == part = "health" /\ HealthNext /\ OthersStand
JobsRuns == part = "jobs" /\ JobsNext /\ OthersStand
InstanceRuns == part = "instance" /\ InstanceNext /\ OthersStand
SchemaRuns == part = "schema" /\ SchemaNext /\ OthersStand
CommissionRuns == part = "commission" /\ CommissionNext /\ OthersStand
BackupRuns == part = "backup" /\ BackupNext /\ OthersStand
GateRuns == part = "gate" /\ GateNext /\ OthersStand
StrategyRuns == part = "strategy" /\ StrategyNext /\ OthersStand
ChannelRuns == part = "channel" /\ ChannelNext /\ OthersStand
QuoteRuns == part = "quote" /\ QuoteNext /\ OthersStand
CacheRuns == part = "cache" /\ CacheNext /\ OthersStand
StopRuns == part = "stop" /\ StopQueryNext /\ OthersStand
SimRuns == part = "sim" /\ SimNext /\ OthersStand
MessageRuns == part = "message" /\ MessagesNext /\ OthersStand
PathRuns == part = "path" /\ Path!Next /\ OthersStand

ServicesNext ==
  \/ HaltRuns \/ LossRuns \/ HealthRuns \/ JobsRuns \/ InstanceRuns \/ SchemaRuns
  \/ CommissionRuns \/ BackupRuns \/ GateRuns \/ StrategyRuns \/ ChannelRuns \/ QuoteRuns
  \/ CacheRuns \/ StopRuns \/ SimRuns \/ MessageRuns \/ PathRuns

servicesVars ==
  <<part, haltVars, dailyVars, healthVars, jobVars, instanceVars, schemaVars, commissionVars,
    backupVars, gateVars, series, channelVars, quoteVars, cacheVars, stopVars, simVars,
    messageVars, pathVars>>

ServicesSpec == ServicesInit /\ [][ServicesNext]_servicesVars
=============================================================================
