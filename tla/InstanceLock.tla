---------------------------- MODULE InstanceLock ----------------------------
(***************************************************************************)
(* One bot per database (app/startup.py, _take_instance_lock): an flock    *)
(* beside the database for as long as the process lives, and a marker file *)
(* that keeps an instance which is refused and restarted again and again   *)
(* from alerting each time, without ever silencing the condition.          *)
(***************************************************************************)
EXTENDS Integers, FiniteSets

CONSTANTS
  Instances,        \* processes started against one database
  AgeOut,           \* _MARKER_AGE_OUT, 24 hours
  LastHour,         \* the clock of a behaviour
  MaxMarkerFaults   \* markers that cannot be written, or are damaged

ASSUME InstanceBounds ==
  /\ AgeOut \in Nat \ {0} /\ LastHour \in Nat /\ MaxMarkerFaults \in Nat

VARIABLES
  hour,          \* the time
  holder,        \* who has the lock
  marker,        \* the instant in the marker file, or NoMarker
  past,          \* instances past step 2c: database open, orders possible
  ownerTold,          \* the owner's last alert of the standing condition
  repeated,      \* an alert came within the window of another, unprovoked
  silent,        \* a refusal was not told, nor had one been in the window
  markerFaults

instanceVars == <<hour, holder, marker, past, ownerTold, repeated, silent, markerFaults>>

NoMarker == -1
Nobody == "nobody"

InstanceInit ==
  /\ hour = 0 /\ holder = Nobody
  /\ marker \in {NoMarker, 1}     \* absent, or of a clock that moved backwards
  /\ past = {} /\ ownerTold = NoMarker
  /\ repeated = FALSE /\ silent = FALSE /\ markerFaults = 0

(* _claim_refusal_alert: suppressed within the window of a marker that is   *)
(* not in the future.                                                       *)
Suppressed == marker # NoMarker /\ marker <= hour /\ hour - marker <= AgeOut

(* The lock is free: hold it for life, and clear the marker. *)
TakeLock(i) ==
  /\ i \notin past /\ holder = Nobody
  /\ holder' = i /\ past' = past \cup {i}
  /\ marker' = NoMarker /\ ownerTold' = NoMarker
  /\ UNCHANGED <<hour, repeated, silent, markerFaults>>

(* Mutant: every refusal renews the marker. *)
MarkerRenewed == hour

(* A repeat refusal leaves the marker alone. *)
MarkerAfterRepeat == marker

(* The lock is held: alert unless suppressed, write the marker, exit. *)
Refused(i) ==
  /\ i \notin past /\ holder # Nobody
  /\ IF Suppressed
       THEN /\ marker' = MarkerAfterRepeat
            /\ silent' = (silent \/ ownerTold = NoMarker \/ hour - ownerTold > AgeOut)
            /\ UNCHANGED <<ownerTold, repeated, markerFaults>>
       ELSE /\ ownerTold' = hour
            /\ \/ marker' = hour /\ UNCHANGED markerFaults
               \/ /\ markerFaults < MaxMarkerFaults /\ markerFaults' = markerFaults + 1
                  /\ UNCHANGED marker
            /\ repeated' = (repeated \/ (ownerTold # NoMarker /\ hour - ownerTold <= AgeOut
                                           /\ markerFaults = 0))
            /\ UNCHANGED silent
  /\ UNCHANGED <<hour, holder, past>>

(* A process ends, and the kernel drops its lock. *)
InstanceEnds(i) ==
  /\ i \in past
  /\ past' = past \ {i}
  /\ holder' = IF holder = i THEN Nobody ELSE holder
  /\ UNCHANGED <<hour, marker, ownerTold, repeated, silent, markerFaults>>

HourPasses ==
  /\ hour < LastHour /\ hour' = hour + 1
  /\ UNCHANGED <<holder, marker, past, ownerTold, repeated, silent, markerFaults>>

(* The marker is damaged; what cannot be read counts as none. *)
MarkerDamaged ==
  /\ marker # NoMarker
  /\ markerFaults < MaxMarkerFaults /\ markerFaults' = markerFaults + 1
  /\ marker' = NoMarker
  /\ UNCHANGED <<hour, holder, past, ownerTold, repeated, silent>>

InstanceNext ==
  \/ \E i \in Instances : TakeLock(i) \/ Refused(i) \/ InstanceEnds(i)
  \/ HourPasses \/ MarkerDamaged

InstanceSpec == InstanceInit /\ [][InstanceNext]_instanceVars

-----------------------------------------------------------------------------
(* Properties *)

InstanceTypeOK ==
  /\ hour \in 0..LastHour /\ marker \in {NoMarker} \cup (0..LastHour)
  /\ past \subseteq Instances /\ holder \in Instances \cup {Nobody}
  /\ Cardinality(past) <= 1 /\ (holder # Nobody => holder \in past)

(* A refused instance that restarts for days is told of once a day: never   *)
(* silenced, for whenever it is refused the owner was told within the last  *)
(* day, and not at every restart as long as the marker can be kept.         *)
RefusalToldDaily == ~silent /\ ~repeated
=============================================================================
