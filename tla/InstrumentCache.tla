--------------------------- MODULE InstrumentCache ---------------------------
(***************************************************************************)
(* The instruments table as a cache of one ticker's dimensions             *)
(* (broker/client.py, get_instrument).  A fresh row supplies figi and lot, *)
(* and the trading status is asked of the broker for that figi; without    *)
(* one, everything is asked and the row written.  The row is dated by the  *)
(* start of the call that wrote it, calls overlap, the broker may change   *)
(* lot or figi at any time, and the write may fail: by itself, or because  *)
(* another ticker's row holds the figi, which is the primary key.          *)
(***************************************************************************)
EXTENDS Integers, FiniteSets

CONSTANTS
  Readers,       \* calls of get_instrument beside each other
  Figis, Lots,   \* the dimensions the broker may give the ticker
  RowMaxAge,     \* _INSTRUMENT_MAX_AGE, in hours of the model
  LastRead       \* the last hour of a behaviour

ASSUME CacheBounds == {RowMaxAge, LastRead} \subseteq Nat /\ Lots \subseteq Nat \ {0}

VARIABLES
  clockHour,   \* the time
  broker,      \* the ticker's dimensions, and the figis that trade now
  instrument,  \* the row: dimensions, status and refreshed_at, or NoInstrument
  taken,       \* figis in rows of other tickers
  reading,     \* where each call is, and what it has
  lastHeld,    \* the last hour the broker gave the ticker each pair of dimensions
  seen,        \* the statuses the broker gave out while each call lasts
  outdated     \* an answer was served that the broker did not stand behind

cacheVars == <<clockHour, broker, instrument, taken, reading, lastHeld, seen, outdated>>

Dimensions == Figis \X Lots
Figi(dims) == dims[1]
NoInstrument == [dims |-> <<>>, trading |-> FALSE, at |-> -1]
NotReading == [at |-> "idle", dims |-> <<>>, since |-> 0, trading |-> FALSE]
StatusesAt(trading) == {<<f, f \in trading>> : f \in Figis}
LongAgo == -1

CacheInit ==
  /\ clockHour = 0
  /\ \E dims \in Dimensions : broker = [dims |-> dims, trading |-> Figis]
  /\ instrument = NoInstrument
  /\ taken \in {{}} \cup {{f} : f \in Figis}
  /\ reading = [c \in Readers |-> NotReading]
  /\ lastHeld = [d \in Dimensions |-> IF d = broker.dims THEN 0 ELSE LongAgo]
  /\ seen = [c \in Readers |-> {}]
  /\ outdated = {}

ReadingAt(c, place) == reading[c].at = place

(* _cached_instrument: the row, unless it is too old. *)
Fresh == instrument # NoInstrument /\ clockHour - instrument.at <= RowMaxAge

AskInstrument(c) ==
  /\ ReadingAt(c, "idle")
  /\ reading' = [reading EXCEPT ![c] =
       IF Fresh THEN [NotReading EXCEPT !.at = "status", !.dims = instrument.dims,
                                        !.since = clockHour]
                ELSE [NotReading EXCEPT !.at = "share", !.since = clockHour]]
  /\ seen' = [seen EXCEPT ![c] = StatusesAt(broker.trading)]
  /\ UNCHANGED <<clockHour, broker, instrument, taken, lastHeld, outdated>>

(* What the caller is given: dimensions and a status.  The ghost asks when  *)
(* the broker last stood behind either.                                     *)
Serve(c, dims, trading) ==
  /\ reading' = [reading EXCEPT ![c] = NotReading]
  /\ seen' = [seen EXCEPT ![c] = {}]
  /\ outdated' = outdated
       \cup (IF lastHeld[dims] < reading[c].since - RowMaxAge THEN {"dimensions"} ELSE {})
       \cup (IF <<Figi(dims), trading>> \notin seen[c] THEN {"status"} ELSE {})

(* _live_trading_status *)
StatusRead(c) == Figi(reading[c].dims) \in broker.trading

(* Mutant: a hit renews the row. *)
RowAfterHitRenewed == [instrument EXCEPT !.at = clockHour]

(* A hit does not rewrite the row: a fresh status says nothing of the rest. *)
RowAfterHit == instrument

Hit(c) ==
  /\ ReadingAt(c, "status")
  /\ Serve(c, reading[c].dims, StatusRead(c))
  /\ instrument' = RowAfterHit
  /\ UNCHANGED <<clockHour, broker, taken, lastHeld>>

(* _fetch_instrument: one answer carries every field. *)
Fetched(c) ==
  /\ ReadingAt(c, "share")
  /\ reading' = [reading EXCEPT ![c].at = "store", ![c].dims = broker.dims,
                                ![c].trading = Figi(broker.dims) \in broker.trading]
  /\ UNCHANGED <<clockHour, broker, instrument, taken, lastHeld, seen, outdated>>

(* The broker fails, or no longer knows the ticker or the figi: the call    *)
(* raises, and nothing of the table is given instead.                       *)
ReadFails(c) ==
  /\ reading[c].at \in {"status", "share"}
  /\ reading' = [reading EXCEPT ![c] = NotReading]
  /\ seen' = [seen EXCEPT ![c] = {}]
  /\ UNCHANGED <<clockHour, broker, instrument, taken, lastHeld, outdated>>

(* _store_instrument: written, or the failure swallowed. *)
Stored(c) ==
  /\ ReadingAt(c, "store")
  /\ \/ /\ Figi(reading[c].dims) \notin taken
        /\ instrument' = [dims |-> reading[c].dims, trading |-> reading[c].trading,
                          at |-> reading[c].since]
     \/ UNCHANGED instrument
  /\ Serve(c, reading[c].dims, reading[c].trading)
  /\ UNCHANGED <<clockHour, broker, taken, lastHeld>>

(* A corporate action, or a halt of the trading in a figi. *)
BrokerChanges ==
  /\ \/ \E dims \in Dimensions \ {broker.dims} : broker' = [broker EXCEPT !.dims = dims]
     \/ \E trading \in {{}, Figis} \ {broker.trading} :
          broker' = [broker EXCEPT !.trading = trading]
  /\ lastHeld' = [lastHeld EXCEPT ![broker'.dims] = clockHour]
  /\ seen' = [c \in Readers |-> IF ReadingAt(c, "idle") THEN {}
                               ELSE seen[c] \cup StatusesAt(broker'.trading)]
  /\ UNCHANGED <<clockHour, instrument, taken, reading, outdated>>

(* Another ticker's row comes to hold a figi, or gives it up. *)
OthersRefresh ==
  /\ taken' \in ({{}} \cup {{f} : f \in Figis}) \ {taken}
  /\ instrument # NoInstrument => Figi(instrument.dims) \notin taken'
  /\ UNCHANGED <<clockHour, broker, instrument, reading, lastHeld, seen, outdated>>

HourGoes ==
  /\ clockHour < LastRead /\ clockHour' = clockHour + 1
  /\ lastHeld' = [lastHeld EXCEPT ![broker.dims] = clockHour']
  /\ UNCHANGED <<broker, instrument, taken, reading, seen, outdated>>

CacheNext ==
  \/ \E c \in Readers : AskInstrument(c) \/ Hit(c) \/ Fetched(c) \/ ReadFails(c) \/ Stored(c)
  \/ BrokerChanges \/ OthersRefresh \/ HourGoes

CacheSpec == CacheInit /\ [][CacheNext]_cacheVars

-----------------------------------------------------------------------------
(* A lot or a figi is served only if the broker gave it within the window   *)
(* before the call, and a status only if the broker gave it for that figi   *)
(* during the very call (#46): no overlap of calls, failed write or clash   *)
(* of figis lets a lot change survive the window, or an entry be sized into *)
(* a halt.                                                                  *)
ServedIsCurrent == outdated = {}
=============================================================================
