---------------------------- MODULE BrokerChannel ----------------------------
(***************************************************************************)
(* The one channel to the broker (broker/client.py, _open, _connect and    *)
(* close).  It is made on first use, by whichever task calls first;        *)
(* entering it waits, and others may call meanwhile, or the shutdown may   *)
(* close.                                                                  *)
(***************************************************************************)
EXTENDS Naturals, FiniteSets

CONSTANTS
  Callers,       \* tasks that talk to the broker
  MaxChannels,   \* channels entered in one behaviour
  MaxFailures    \* calls that fail in one behaviour

NoChannel == 0
NoOpener == "no caller"

ASSUME ChannelBounds ==
  {MaxChannels, MaxFailures} \subseteq Nat /\ NoOpener \notin Callers

VARIABLES
  connection,    \* _connection: the channel every call uses, or NoChannel
  opener,        \* who holds _open_lock, or NoOpener
  caller,        \* where each task is, with the channel it was given
  live,          \* channels entered and not closed
  entered,       \* channels entered so far
  callFailures

channelVars == <<connection, opener, caller, live, entered, callFailures>>

Idle == [at |-> "idle", uses |-> NoChannel]
CallAt(t, place) == caller[t].at = place
GoOn(t, place, channel) == caller' = [caller EXCEPT ![t] = [at |-> place, uses |-> channel]]

ChannelInit ==
  /\ connection = NoChannel /\ opener = NoOpener
  /\ caller = [t \in Callers |-> Idle]
  /\ live = {} /\ entered = 0
  /\ callFailures = 0

CallFailure == callFailures < MaxFailures /\ callFailures' = callFailures + 1

(* _open: an open channel is used without the lock. *)
AskChannel(t) ==
  /\ CallAt(t, "idle")
  /\ IF connection # NoChannel THEN GoOn(t, "calling", connection)
                               ELSE GoOn(t, "waiting", NoChannel)
  /\ UNCHANGED <<connection, opener, live, entered, callFailures>>

(* Mutant: whoever has the lock enters a channel. *)
UnderLockUnchecked(t) ==
  /\ CallAt(t, "waiting") /\ opener = NoOpener
  /\ opener' = t /\ GoOn(t, "entering", NoChannel)
  /\ UNCHANGED <<connection, live, entered, callFailures>>

(* The lock: what was found missing is looked for again. *)
UnderLock(t) ==
  /\ CallAt(t, "waiting") /\ opener = NoOpener
  /\ IF connection # NoChannel
       THEN GoOn(t, "calling", connection) /\ UNCHANGED opener
       ELSE opener' = t /\ GoOn(t, "entering", NoChannel)
  /\ UNCHANGED <<connection, live, entered, callFailures>>

Entered(t) ==
  /\ CallAt(t, "entering") /\ entered < MaxChannels
  /\ entered' = entered + 1
  /\ live' = live \cup {entered'} /\ connection' = entered'
  /\ opener' = NoOpener
  /\ GoOn(t, "calling", entered')
  /\ UNCHANGED callFailures

(* Entering the channel failed, or the call did: whatever _translate makes  *)
(* of it, the channel that others use stays.                                *)
Failed(t) ==
  /\ caller[t].at \in {"entering", "calling"} /\ CallFailure
  /\ caller' = [caller EXCEPT ![t] = Idle]
  /\ opener' = IF opener = t THEN NoOpener ELSE opener
  /\ UNCHANGED <<connection, live, entered>>

(* A call on a channel that was closed under it fails by itself. *)
CallAnswered(t) ==
  /\ CallAt(t, "calling") /\ caller[t].uses \in live
  /\ caller' = [caller EXCEPT ![t] = Idle]
  /\ UNCHANGED <<connection, opener, live, entered, callFailures>>

CallCutOff(t) ==
  /\ CallAt(t, "calling") /\ caller[t].uses \notin live
  /\ caller' = [caller EXCEPT ![t] = Idle]
  /\ UNCHANGED <<connection, opener, live, entered, callFailures>>

(* close: forgotten first, then closed; a later call makes another. *)
CloseChannel ==
  /\ connection' = NoChannel
  /\ live' = live \ {connection}
  /\ UNCHANGED <<opener, caller, entered, callFailures>>

ChannelNext ==
  \/ \E t \in Callers : \/ AskChannel(t) \/ UnderLock(t) \/ Entered(t)
                        \/ CallAnswered(t) \/ CallCutOff(t)
                        \/ Failed(t)
  \/ CloseChannel

ChannelSpec == ChannelInit /\ [][ChannelNext]_channelVars

-----------------------------------------------------------------------------
(* "One channel and one Config for the life of the process (#18)": however  *)
(* many tasks ask at once and whenever the shutdown closes, no channel but  *)
(* the one in use is left open.                                             *)
OneChannel == live \subseteq {connection}
=============================================================================
