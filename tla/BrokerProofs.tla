---------------------------- MODULE BrokerProofs ----------------------------
(***************************************************************************)
(* What the bot's side of the broker promises, for every value of the      *)
(* constants: the one channel, the prices it accepts, the instruments it   *)
(* caches and what it makes of the executed stops; and what the simulated  *)
(* broker of the backtester pays.  Each part is a module of its own and is *)
(* proved by itself; the sums are those of RulesProofs.                    *)
(***************************************************************************)
EXTENDS BrokerChannel, Quotes, InstrumentCache, ExecutedStops, SimExchange,
        RulesProofs

-----------------------------------------------------------------------------
(* The channel *)

ChannelTypeOK ==
  /\ caller \in [Callers -> [at : {"idle", "waiting", "entering", "calling"}, uses : Nat]]
  /\ connection \in Nat /\ entered \in Nat

(* Whoever enters a channel has the lock, and found none.                  *)
OneEnters ==
  \A t \in Callers : CallAt(t, "entering") => opener = t /\ connection = NoChannel

(* Channels are numbered from one.                                         *)
NoneIsNotOpen == NoChannel \notin live

ChannelInv == ChannelTypeOK /\ OneEnters /\ NoneIsNotOpen /\ OneChannel

LEMMA ChannelStarts == ChannelInit => ChannelInv
BY DEF ChannelInit, ChannelInv, ChannelTypeOK, OneEnters, NoneIsNotOpen, OneChannel, CallAt,
       Idle, NoChannel

LEMMA ChannelStep == ChannelInv /\ [ChannelNext]_channelVars => ChannelInv'
<1> SUFFICES ASSUME ChannelInv, [ChannelNext]_channelVars PROVE ChannelInv'
  OBVIOUS
<1> USE DEF ChannelInv, NoChannel
<1>1. ASSUME NEW t \in Callers, AskChannel(t) PROVE ChannelInv'
  BY <1>1 DEF AskChannel, GoOn, CallAt, ChannelTypeOK, OneEnters, NoneIsNotOpen, OneChannel
<1>2. ASSUME NEW t \in Callers, UnderLock(t) PROVE ChannelInv'
  <2>1. ChannelTypeOK'
    BY <1>2 DEF UnderLock, GoOn, ChannelTypeOK
  <2>2. ASSUME NEW u \in Callers, CallAt(u, "entering")'
        PROVE  opener' = u /\ connection' = 0
    <3>1. CASE u = t
      BY <1>2, <2>2, <3>1 DEF UnderLock, GoOn, CallAt, ChannelTypeOK
    <3>2. CASE u # t
      <4>1. CallAt(u, "entering")
        BY <1>2, <2>2, <3>2 DEF UnderLock, GoOn, CallAt, ChannelTypeOK
      <4>2. opener = u /\ connection = 0
        BY <4>1 DEF OneEnters
      <4> QED BY <1>2, <4>2, ChannelBounds DEF UnderLock
    <3> QED BY <3>1, <3>2
  <2> QED BY <1>2, <2>1, <2>2 DEF UnderLock, OneEnters, NoneIsNotOpen, OneChannel
<1>3. ASSUME NEW t \in Callers, Entered(t) PROVE ChannelInv'
  <2>1. opener = t /\ connection = 0 /\ live = {}
    BY <1>3 DEF Entered, OneEnters, NoneIsNotOpen, OneChannel
  <2>2. entered' \in Nat /\ entered' # 0 /\ live' = {entered'} /\ connection' = entered'
    BY <1>3, <2>1 DEF Entered, ChannelTypeOK
  <2>3. ChannelTypeOK'
    BY <1>3, <2>2 DEF Entered, GoOn, ChannelTypeOK
  <2>4. \A u \in Callers : ~CallAt(u, "entering")'
    BY <1>3, <2>1 DEF Entered, GoOn, CallAt, ChannelTypeOK, OneEnters
  <2> QED BY <2>2, <2>3, <2>4 DEF OneEnters, NoneIsNotOpen, OneChannel
<1>4. ASSUME NEW t \in Callers, CallAnswered(t) \/ CallCutOff(t) \/ Failed(t) PROVE ChannelInv'
  <2>1. /\ caller' = [caller EXCEPT ![t] = Idle]
        /\ opener' = opener \/ opener = t
        /\ UNCHANGED <<connection, live, entered>>
    BY <1>4 DEF CallAnswered, CallCutOff, Failed
  <2>2. ChannelTypeOK'
    BY <2>1 DEF ChannelTypeOK, Idle
  <2>3. OneEnters'
    BY <2>1 DEF ChannelTypeOK, OneEnters, CallAt, Idle
  <2> QED BY <2>1, <2>2, <2>3 DEF NoneIsNotOpen, OneChannel
<1>5. CASE CloseChannel
  BY <1>5 DEF CloseChannel, ChannelTypeOK, OneEnters, CallAt, NoneIsNotOpen, OneChannel
<1>6. CASE UNCHANGED channelVars
  BY <1>6 DEF channelVars, ChannelTypeOK, OneEnters, CallAt, NoneIsNotOpen, OneChannel
<1> QED BY <1>1, <1>2, <1>3, <1>4, <1>5, <1>6 DEF ChannelNext

(* However many tasks call, fail or are cut off, and whenever the shutdown *)
(* closes, at most the channel in use is open: the second look under       *)
(* _open_lock (broker/client.py, _open) is what makes the entering task    *)
(* the only one that found none.                                           *)
THEOREM OneChannelEver == ChannelSpec => []OneChannel
<1>1. ChannelInv => OneChannel
  BY DEF ChannelInv
<1> QED BY <1>1, ChannelStarts, ChannelStep, PTL DEF ChannelSpec

-----------------------------------------------------------------------------
(* The accepted prices *)

(* A quote is dated when it is made.                                       *)
QuoteTypeOK ==
  /\ tick \in Nat
  /\ asked \in [Askers -> [price : Prices \cup {NoPrice}, at : {-1, -2, Undated} \cup (0 .. tick)]]
  /\ accepted \in Prices \cup {NoPrice}

LEMMA QuoteStarts == QuoteInit => QuoteTypeOK
BY DEF QuoteInit, QuoteTypeOK, NotAsked, NoPrice

LEMMA QuoteStep == QuoteTypeOK /\ [QuoteNext]_quoteVars => QuoteTypeOK'
<1> SUFFICES ASSUME QuoteTypeOK, [QuoteNext]_quoteVars PROVE QuoteTypeOK'
  OBVIOUS
<1> USE DEF QuoteTypeOK, NoPrice
<1>1. ASSUME NEW t \in Askers, AskPrice(t) \/ QuoteLost(t) \/ Judged(t) PROVE QuoteTypeOK'
  BY <1>1 DEF AskPrice, QuoteLost, Judged, NotAsked, Awaited, Plausible
<1>2. ASSUME NEW t \in Askers, NEW price \in Prices \cup {0},
             NEW at \in {Undated} \cup (0 .. tick), Quoted(t, price, at)
      PROVE  QuoteTypeOK'
  BY <1>2 DEF Quoted
<1>3. CASE QuoteTick
  <2>1. 0 .. tick \subseteq 0 .. tick'
    BY <1>3 DEF QuoteTick
  <2> QED BY <1>3, <2>1 DEF QuoteTick
<1>4. CASE UNCHANGED quoteVars
  BY <1>4 DEF quoteVars
<1> QED BY <1>1, <1>2, <1>3, <1>4 DEF QuoteNext

Bounded ==
  /\ accepted' > 0 /\ acceptedAt' \in (tick - MaxQuoteAge) .. tick
  /\ accepted # NoPrice => 100 * Distance(accepted', accepted) <= MaxMovePct * accepted

LEMMA JudgedIsBounded ==
  ASSUME QuoteTypeOK, NEW t \in Askers, Judged(t), accepted' # accepted
  PROVE  Bounded
<1>1. /\ Plausible(asked[t])
      /\ accepted' = asked[t].price /\ acceptedAt' = asked[t].at
  BY DEF Judged
<1>2. asked[t].at \in 0 .. tick
  BY <1>1 DEF QuoteTypeOK, Judged, NotAsked, Awaited, Plausible
<1>3. acceptedAt' \in (tick - MaxQuoteAge) .. tick
  BY <1>1, <1>2, QuoteBounds DEF QuoteTypeOK, Plausible
<1> QED BY <1>1, <1>3 DEF Bounded, Plausible

(* Whatever the tasks are told and in whatever order they resume, a price  *)
(* that comes into use is fresh and within price_max_move_pct of the one   *)
(* before it: get_last_price judges and remembers without awaiting between *)
(* (broker/client.py).                                                     *)
THEOREM MovesAreBounded == QuoteSpec => AcceptedMovesAreBounded
<1>1. QuoteTypeOK /\ [QuoteNext]_quoteVars => [accepted' # accepted => Bounded]_quoteVars
  <2> SUFFICES ASSUME QuoteTypeOK, [QuoteNext]_quoteVars, accepted' # accepted PROVE Bounded
    OBVIOUS
  <2>1. \E t \in Askers : Judged(t)
    BY DEF QuoteNext, quoteVars, AskPrice, Quoted, QuoteLost, QuoteTick
  <2> QED BY <2>1, JudgedIsBounded
<1> QED BY <1>1, QuoteStarts, QuoteStep, PTL DEF QuoteSpec, AcceptedMovesAreBounded, Bounded

-----------------------------------------------------------------------------
(* The cached instruments *)

Readings == [at : {"idle", "status", "share", "store"}, dims : Dimensions \cup {<<>>},
             since : Int, trading : BOOLEAN]

CacheOK ==
  /\ clockHour \in Nat
  /\ broker \in [dims : Dimensions, trading : SUBSET Figis]
  /\ lastHeld \in [Dimensions -> Int]
  /\ reading \in [Readers -> Readings]
  /\ seen = [c \in Readers |-> seen[c]]

(* The broker stands behind the row's dimensions at the hour it is dated.   *)
RowHeld == instrument # NoInstrument =>
             /\ instrument.dims \in Dimensions /\ instrument.at \in Int
             /\ lastHeld[instrument.dims] >= instrument.at

(* What a call has in hand was the broker's within the window, and what the *)
(* broker says of every figi now is among what it said during the call.     *)
InCall(c) ==
  /\ ~ReadingAt(c, "idle") => StatusesAt(broker.trading) \subseteq seen[c]
                              /\ reading[c].since <= clockHour
  /\ ReadingAt(c, "status") => /\ reading[c].dims \in Dimensions
                               /\ lastHeld[reading[c].dims] >= reading[c].since - RowMaxAge
  /\ ReadingAt(c, "store") => /\ reading[c].dims \in Dimensions
                              /\ lastHeld[reading[c].dims] >= reading[c].since
                              /\ <<Figi(reading[c].dims), reading[c].trading>> \in seen[c]

HeldSince == /\ lastHeld[broker.dims] = clockHour
             /\ \A d \in Dimensions : lastHeld[d] <= clockHour

CacheInv == CacheOK /\ RowHeld /\ HeldSince /\ (\A c \in Readers : InCall(c)) /\ ServedIsCurrent

LEMMA FigiOfDimensions == \A d \in Dimensions : Figi(d) \in Figis
  BY DEF Dimensions, Figi

LEMMA StatusNow ==
  ASSUME NEW trading, NEW f \in Figis
  PROVE  <<f, f \in trading>> \in StatusesAt(trading)
  BY DEF StatusesAt

LEMMA CacheStarts == CacheInit => CacheInv
<1> SUFFICES ASSUME CacheInit PROVE CacheInv
  OBVIOUS
<1>1. PICK dims \in Dimensions : broker = [dims |-> dims, trading |-> Figis]
  BY DEF CacheInit
<1>2. /\ clockHour = 0 /\ instrument = NoInstrument /\ outdated = {}
      /\ reading = [c \in Readers |-> NotReading] /\ seen = [c \in Readers |-> {}]
      /\ lastHeld = [d \in Dimensions |-> IF d = broker.dims THEN 0 ELSE LongAgo]
  BY DEF CacheInit
<1>3. NotReading \in Readings /\ NotReading.at = "idle"
  BY DEF NotReading, Readings
<1>4. broker.dims = dims /\ broker \in [dims : Dimensions, trading : SUBSET Figis]
  BY <1>1
<1>5. LongAgo = -1
  BY DEF LongAgo
<1>6. CacheOK /\ HeldSince
  BY <1>2, <1>3, <1>4, <1>5 DEF CacheOK, HeldSince
<1>7. RowHeld /\ ServedIsCurrent
  BY <1>2 DEF RowHeld, ServedIsCurrent
<1>8. \A c \in Readers : InCall(c)
  BY <1>2, <1>3 DEF InCall, ReadingAt
<1> QED BY <1>6, <1>7, <1>8 DEF CacheInv

(* A call that ends has nothing in hand, and serves what is current.        *)
LEMMA CallEnds ==
  ASSUME CacheInv, NEW c \in Readers, reading' = [reading EXCEPT ![c] = NotReading],
         seen' = [seen EXCEPT ![c] = {}], UNCHANGED <<clockHour, broker, lastHeld>>
  PROVE  CacheOK' /\ HeldSince' /\ \A q \in Readers : InCall(q)'
<1>1. NotReading \in Readings /\ NotReading.at = "idle"
  BY DEF NotReading, Readings
<1>2. CacheOK'
  BY <1>1 DEF CacheInv, CacheOK
<1>3. HeldSince'
  BY DEF CacheInv, HeldSince
<1>4. ASSUME NEW q \in Readers PROVE InCall(q)'
  <2>1. CASE q = c
    BY <1>1, <2>1 DEF CacheInv, CacheOK, InCall, ReadingAt
  <2>2. CASE q # c
    <3>1. reading'[q] = reading[q] /\ seen'[q] = seen[q]
      BY <2>2 DEF CacheInv, CacheOK
    <3> QED BY <3>1 DEF CacheInv, InCall, ReadingAt
  <2> QED BY <2>1, <2>2
<1> QED BY <1>2, <1>3, <1>4

LEMMA HitStep == ASSUME CacheInv, NEW c \in Readers, Hit(c) PROVE CacheInv'
<1>1. /\ ReadingAt(c, "status") /\ Serve(c, reading[c].dims, StatusRead(c))
      /\ UNCHANGED <<clockHour, broker, lastHeld, instrument>>
  BY DEF Hit, RowAfterHit
<1>2. CacheOK' /\ HeldSince' /\ \A q \in Readers : InCall(q)'
  BY <1>1, CallEnds DEF Serve
<1>3. ~(lastHeld[reading[c].dims] < reading[c].since - RowMaxAge)
  <2>1. /\ reading[c].dims \in Dimensions /\ reading[c] \in Readings
        /\ lastHeld[reading[c].dims] >= reading[c].since - RowMaxAge
        /\ lastHeld \in [Dimensions -> Int]
    BY <1>1 DEF CacheInv, CacheOK, InCall
  <2>2. lastHeld[reading[c].dims] \in Int /\ reading[c].since \in Int /\ RowMaxAge \in Int
    BY <2>1, CacheBounds DEF Readings
  <2> QED BY <2>1, <2>2
<1>4. <<Figi(reading[c].dims), StatusRead(c)>> \in seen[c]
  <2>1. reading[c].dims \in Dimensions /\ StatusesAt(broker.trading) \subseteq seen[c]
    BY <1>1 DEF CacheInv, InCall, ReadingAt
  <2> QED BY <2>1, FigiOfDimensions, StatusNow DEF StatusRead
<1>5. outdated' = {}
  BY <1>1, <1>3, <1>4 DEF Serve, CacheInv, ServedIsCurrent
<1>6. RowHeld'
  BY <1>1 DEF CacheInv, RowHeld
<1> QED BY <1>2, <1>5, <1>6 DEF CacheInv, ServedIsCurrent

LEMMA StoredStep == ASSUME CacheInv, NEW c \in Readers, Stored(c) PROVE CacheInv'
<1>1. /\ ReadingAt(c, "store") /\ Serve(c, reading[c].dims, reading[c].trading)
      /\ UNCHANGED <<clockHour, broker, lastHeld>>
      /\ \/ UNCHANGED instrument
         \/ instrument' = [dims |-> reading[c].dims, trading |-> reading[c].trading,
                           at |-> reading[c].since]
  BY DEF Stored
<1>2. CacheOK' /\ HeldSince' /\ \A q \in Readers : InCall(q)'
  BY <1>1, CallEnds DEF Serve
<1>3. /\ reading[c].dims \in Dimensions /\ reading[c].since \in Int
      /\ lastHeld[reading[c].dims] \in Int /\ lastHeld[reading[c].dims] >= reading[c].since
      /\ <<Figi(reading[c].dims), reading[c].trading>> \in seen[c]
  BY <1>1 DEF CacheInv, CacheOK, InCall, Readings
<1>4. ~(lastHeld[reading[c].dims] < reading[c].since - RowMaxAge)
  BY <1>3, CacheBounds
<1>5. outdated' = {}
  BY <1>1, <1>3, <1>4 DEF Serve, CacheInv, ServedIsCurrent
<1>6. RowHeld'
  BY <1>1, <1>3 DEF CacheInv, RowHeld
<1> QED BY <1>2, <1>5, <1>6 DEF CacheInv, ServedIsCurrent

LEMMA AskInstrumentStep == ASSUME CacheInv, NEW c \in Readers, AskInstrument(c) PROVE CacheInv'
<1> DEFINE asks == IF Fresh THEN [NotReading EXCEPT !.at = "status", !.dims = instrument.dims,
                                                    !.since = clockHour]
                            ELSE [NotReading EXCEPT !.at = "share", !.since = clockHour]
<1>1. /\ reading' = [reading EXCEPT ![c] = asks]
      /\ seen' = [seen EXCEPT ![c] = StatusesAt(broker.trading)]
      /\ UNCHANGED <<clockHour, broker, instrument, lastHeld, outdated>>
  BY DEF AskInstrument
<1>2. /\ asks \in Readings /\ asks.since = clockHour
      /\ asks.at = "share" \/ (asks.at = "status" /\ asks.dims = instrument.dims /\ Fresh)
  <2>1. clockHour \in Int
    BY DEF CacheInv, CacheOK
  <2>2. Fresh => instrument.dims \in Dimensions
    BY DEF Fresh, CacheInv, RowHeld
  <2> QED BY <2>1, <2>2 DEF NotReading, Readings
<1> HIDE DEF asks
<1>3. CacheOK'
  BY <1>1, <1>2 DEF CacheInv, CacheOK
<1>4. HeldSince' /\ RowHeld' /\ ServedIsCurrent'
  BY <1>1 DEF CacheInv, HeldSince, RowHeld, ServedIsCurrent
<1>5. ASSUME NEW q \in Readers PROVE InCall(q)'
  <2>1. CASE q # c
    <3>1. reading'[q] = reading[q] /\ seen'[q] = seen[q]
      BY <1>1, <2>1 DEF CacheInv, CacheOK
    <3> QED BY <1>1, <3>1 DEF CacheInv, InCall, ReadingAt
  <2>2. CASE q = c
    <3>1. reading'[q] = asks /\ seen'[q] = StatusesAt(broker.trading)
      BY <1>1, <2>2 DEF CacheInv, CacheOK
    <3>2. Fresh => /\ instrument.dims \in Dimensions /\ instrument.at \in Int
                   /\ lastHeld[instrument.dims] >= instrument.at
                   /\ clockHour - instrument.at <= RowMaxAge
      BY DEF Fresh, CacheInv, RowHeld
    <3>3. Fresh => lastHeld[instrument.dims] >= clockHour - RowMaxAge
      BY <3>2, CacheBounds DEF CacheInv, CacheOK
    <3> QED BY <1>1, <1>2, <3>1, <3>2, <3>3 DEF CacheInv, CacheOK, InCall, ReadingAt
  <2> QED BY <2>1, <2>2
<1> QED BY <1>3, <1>4, <1>5 DEF CacheInv

LEMMA FetchedStep == ASSUME CacheInv, NEW c \in Readers, Fetched(c) PROVE CacheInv'
<1> DEFINE trades == Figi(broker.dims) \in broker.trading
           has == [reading[c] EXCEPT !.at = "store", !.dims = broker.dims, !.trading = trades]
<1>1. /\ ReadingAt(c, "share")
      /\ UNCHANGED <<clockHour, broker, instrument, lastHeld, seen, outdated>>
  BY DEF Fetched
<1>2. reading' = [reading EXCEPT ![c] = has]
  BY DEF Fetched, CacheInv, CacheOK
<1>3. broker.dims \in Dimensions /\ reading[c] \in Readings
  BY DEF CacheInv, CacheOK
<1>4. trades \in BOOLEAN
  OBVIOUS
<1>5. <<Figi(broker.dims), trades>> \in seen[c]
  <2>1. StatusesAt(broker.trading) \subseteq seen[c]
    BY <1>1 DEF CacheInv, InCall, ReadingAt
  <2> QED BY <1>3, <2>1, FigiOfDimensions, StatusNow
<1> HIDE DEF trades
<1>6. has \in Readings
  BY <1>3, <1>4 DEF Readings
<1>7. has.at = "store" /\ has.dims = broker.dims /\ has.since = reading[c].since
  BY <1>3 DEF Readings
<1>8. has.trading = trades
  BY <1>3 DEF Readings
<1> HIDE DEF has
<1>9. CacheOK'
  BY <1>1, <1>2, <1>6 DEF CacheInv, CacheOK
<1>10. HeldSince' /\ RowHeld' /\ ServedIsCurrent'
  BY <1>1 DEF CacheInv, HeldSince, RowHeld, ServedIsCurrent
<1>11. ASSUME NEW q \in Readers PROVE InCall(q)'
  <2>1. CASE q # c
    <3>1. reading'[q] = reading[q]
      BY <1>2, <2>1 DEF CacheInv, CacheOK
    <3> QED BY <1>1, <3>1 DEF CacheInv, InCall, ReadingAt
  <2>2. CASE q = c
    <3>1. reading'[q] = has
      BY <1>2, <2>2 DEF CacheInv, CacheOK
    <3>2. reading[c].since <= clockHour /\ StatusesAt(broker.trading) \subseteq seen[c]
      BY <1>1 DEF CacheInv, InCall, ReadingAt
    <3>3. lastHeld[broker.dims] = clockHour
      BY DEF CacheInv, HeldSince
    <3> QED BY <1>1, <1>3, <1>5, <1>7, <1>8, <2>2, <3>1, <3>2, <3>3 DEF InCall, ReadingAt
  <2> QED BY <2>1, <2>2
<1> QED BY <1>9, <1>10, <1>11 DEF CacheInv

LEMMA ReadFailsStep == ASSUME CacheInv, NEW c \in Readers, ReadFails(c) PROVE CacheInv'
<1>1. CacheOK' /\ HeldSince' /\ \A q \in Readers : InCall(q)'
  BY CallEnds DEF ReadFails
<1>2. RowHeld' /\ ServedIsCurrent'
  BY DEF ReadFails, CacheInv, RowHeld, ServedIsCurrent
<1> QED BY <1>1, <1>2 DEF CacheInv

(* The hour at which the broker last gave some dimensions only grows.       *)
LEMMA HoldingGrows ==
  ASSUME CacheInv, NEW dims \in Dimensions, broker'.dims = dims,
         lastHeld' = [lastHeld EXCEPT ![dims] = clockHour'], clockHour' \in Nat,
         clockHour' >= clockHour
  PROVE  /\ lastHeld' \in [Dimensions -> Int] /\ HeldSince'
         /\ \A d \in Dimensions : lastHeld'[d] >= lastHeld[d]
<1>1. /\ lastHeld \in [Dimensions -> Int] /\ clockHour \in Nat
      /\ \A d \in Dimensions : lastHeld[d] <= clockHour
  BY DEF CacheInv, CacheOK, HeldSince
<1>2. lastHeld' \in [Dimensions -> Int] /\ \A d \in Dimensions : lastHeld'[d] >= lastHeld[d]
  BY <1>1
<1>3. \A d \in Dimensions : lastHeld'[d] <= clockHour'
  BY <1>1
<1>4. lastHeld'[broker'.dims] = clockHour'
  BY <1>1
<1> QED BY <1>2, <1>3, <1>4 DEF HeldSince

LEMMA BrokerChangesStep == ASSUME CacheInv, BrokerChanges PROVE CacheInv'
<1>1. broker' \in [dims : Dimensions, trading : SUBSET Figis]
  BY DEF BrokerChanges, CacheInv, CacheOK
<1>2. /\ UNCHANGED <<clockHour, instrument, reading, outdated>>
      /\ lastHeld' = [lastHeld EXCEPT ![broker'.dims] = clockHour]
      /\ seen' = [c \in Readers |-> IF ReadingAt(c, "idle") THEN {}
                                    ELSE seen[c] \cup StatusesAt(broker'.trading)]
  BY DEF BrokerChanges
<1>3. /\ lastHeld' \in [Dimensions -> Int] /\ HeldSince'
      /\ \A d \in Dimensions : lastHeld'[d] >= lastHeld[d]
  <2>1. /\ broker'.dims \in Dimensions /\ clockHour' \in Nat /\ clockHour' >= clockHour
        /\ lastHeld' = [lastHeld EXCEPT ![broker'.dims] = clockHour']
    BY <1>1, <1>2 DEF CacheInv, CacheOK
  <2> QED BY <2>1, HoldingGrows
<1>4. CacheOK'
  <2>1. seen' = [c \in Readers |-> seen'[c]]
    BY <1>2
  <2> QED BY <1>1, <1>2, <1>3, <2>1 DEF CacheInv, CacheOK
<1>5. RowHeld' /\ ServedIsCurrent'
  <2>1. ServedIsCurrent'
    BY <1>2 DEF CacheInv, ServedIsCurrent
  <2>2. instrument # NoInstrument => /\ instrument.dims \in Dimensions /\ instrument.at \in Int
                                     /\ lastHeld[instrument.dims] >= instrument.at
    BY DEF CacheInv, RowHeld
  <2>3. lastHeld \in [Dimensions -> Int]
    BY DEF CacheInv, CacheOK
  <2> QED BY <1>2, <1>3, <2>1, <2>2, <2>3 DEF RowHeld
<1>6. ASSUME NEW q \in Readers PROVE InCall(q)'
  <2>1. InCall(q) /\ reading[q] \in Readings /\ lastHeld \in [Dimensions -> Int]
    BY DEF CacheInv, CacheOK
  <2>2. ~ReadingAt(q, "idle") => seen'[q] = seen[q] \cup StatusesAt(broker'.trading)
    BY <1>2
  <2>3. reading'[q] = reading[q] /\ clockHour' = clockHour
    BY <1>2
  <2>4. reading[q].since \in Int /\ RowMaxAge \in Int
    BY <2>1, CacheBounds DEF Readings
  <2> QED BY <1>3, <2>1, <2>2, <2>3, <2>4 DEF InCall, ReadingAt
<1> QED BY <1>3, <1>4, <1>5, <1>6 DEF CacheInv

LEMMA HourGoesStep == ASSUME CacheInv, HourGoes PROVE CacheInv'
<1>1. /\ UNCHANGED <<broker, instrument, reading, seen, outdated>>
      /\ lastHeld' = [lastHeld EXCEPT ![broker.dims] = clockHour']
      /\ clockHour' \in Nat /\ clockHour' >= clockHour /\ broker.dims \in Dimensions
  BY DEF HourGoes, CacheInv, CacheOK
<1>2. /\ lastHeld' \in [Dimensions -> Int] /\ HeldSince'
      /\ \A d \in Dimensions : lastHeld'[d] >= lastHeld[d]
  BY <1>1, HoldingGrows
<1>3. CacheOK' /\ ServedIsCurrent'
  BY <1>1, <1>2 DEF CacheInv, CacheOK, ServedIsCurrent
<1>4. lastHeld \in [Dimensions -> Int]
  BY DEF CacheInv, CacheOK
<1>5. RowHeld'
  <2>1. instrument # NoInstrument => /\ instrument.dims \in Dimensions /\ instrument.at \in Int
                                     /\ lastHeld[instrument.dims] >= instrument.at
    BY DEF CacheInv, RowHeld
  <2> QED BY <1>1, <1>2, <1>4, <2>1 DEF RowHeld
<1>6. ASSUME NEW q \in Readers PROVE InCall(q)'
  <2>1. InCall(q) /\ reading[q] \in Readings /\ clockHour \in Nat
    BY DEF CacheInv, CacheOK
  <2>2. reading[q].since \in Int /\ RowMaxAge \in Int
    BY <2>1, CacheBounds DEF Readings
  <2> QED BY <1>1, <1>2, <1>4, <2>1, <2>2 DEF InCall, ReadingAt
<1> QED BY <1>2, <1>3, <1>5, <1>6 DEF CacheInv

LEMMA CacheStep == CacheInv /\ [CacheNext]_cacheVars => CacheInv'
<1> SUFFICES ASSUME CacheInv, [CacheNext]_cacheVars PROVE CacheInv'
  OBVIOUS
<1>1. ASSUME NEW c \in Readers,
             AskInstrument(c) \/ Hit(c) \/ Fetched(c) \/ ReadFails(c) \/ Stored(c)
      PROVE  CacheInv'
  BY <1>1, AskInstrumentStep, HitStep, FetchedStep, ReadFailsStep, StoredStep
<1>2. CASE BrokerChanges
  BY <1>2, BrokerChangesStep
<1>3. CASE HourGoes
  BY <1>3, HourGoesStep
<1>4. CASE OthersRefresh \/ UNCHANGED cacheVars
  <2>1. UNCHANGED <<clockHour, broker, instrument, reading, lastHeld, seen, outdated>>
    BY <1>4 DEF OthersRefresh, cacheVars
  <2> QED BY <2>1 DEF CacheInv, CacheOK, RowHeld, HeldSince, InCall, ReadingAt, ServedIsCurrent
<1> QED BY <1>1, <1>2, <1>3, <1>4 DEF CacheNext

(* However the calls of get_instrument overlap, whatever the broker changes *)
(* while they wait and whether or not the row is written, a lot or a figi   *)
(* given to a caller was the broker's within _INSTRUMENT_MAX_AGE before the *)
(* call, and the status was the broker's during it (broker/client.py).      *)
THEOREM ServedStaysCurrent == CacheSpec => []ServedIsCurrent
<1>1. CacheInv => ServedIsCurrent
  BY DEF CacheInv
<1> QED BY <1>1, CacheStarts, CacheStep, PTL DEF CacheSpec

-----------------------------------------------------------------------------
(* The executed stops *)

Rows == [status : {"none", "open", "closed"}, entry : Nat]
StopsAt == [st : {"none", "standing", "fired", "gone"}, placed : Int,
            order : {"none", "unlinked", "unresolved", "unfilled", "filled"}, echoes : BOOLEAN]

StopQueryOK ==
  /\ instant \in Nat
  /\ heldRow \in [Relying -> Rows]
  /\ stopAt \in [Relying -> StopsAt]
  /\ closing = [at |-> closing.at, book |-> closing.book, fills |-> closing.fills,
                live |-> closing.live]
  /\ closing.at \in {"between", "asked", "listed"}

(* A closed position's stop had fired; and a stop was placed no earlier     *)
(* than the day of its position's entry, the broker's clock behind or not.  *)
StopOf(p) ==
  /\ heldRow[p].status = "closed" => stopAt[p].st = "fired"
  /\ heldRow[p].status # "none" => stopAt[p].placed >= 2 * DayOf(heldRow[p].entry)

(* What a cycle has read: open positions, fills of stops that fired, every  *)
(* one that had a fill among them; and, once it has the list, each of its   *)
(* positions whose stop stands.                                             *)
CycleHas ==
  /\ closing.fills \subseteq {p \in Relying : stopAt[p].st = "fired"}
  /\ closing.at = "between" =>
       /\ closing.fills = {}
       /\ \A p \in executed : p \in Relying /\ heldRow[p].status = "closed"
  /\ closing.at # "between" =>
       /\ executed \subseteq closing.book \cap closing.fills
       /\ closing.book \subseteq {p \in Relying : heldRow[p].status # "none"}
  /\ closing.at = "listed" =>
       \A p \in closing.book : stopAt[p].st = "standing" => <<"id", p>> \in closing.live

(* What it could not explain does not stand and will not: only a position   *)
(* without a row comes by a stop.                                           *)
ToldOnce ==
  /\ unexplained \subseteq {p \in Relying : heldRow[p].status # "none" /\ stopAt[p].st # "standing"}
  /\ discrepancy = (unexplained # {})
  /\ discrepancies = IF unexplained = {} THEN 0 ELSE 1

StopQueryInv == StopQueryOK /\ (\A p \in Relying : StopOf(p)) /\ CycleHas /\ ToldOnce

LEMMA StopQueryStarts == StopQueryInit => StopQueryInv
<1> SUFFICES ASSUME StopQueryInit PROVE StopQueryInv
  OBVIOUS
<1>1. NotHeld \in Rows /\ NoStopAt \in StopsAt /\ NotHeld.status = "none"
  BY DEF NotHeld, NoStopAt, Rows, StopsAt
<1>2. StopQueryOK
  BY <1>1 DEF StopQueryInit, StopQueryOK, NotClosing
<1>3. (\A p \in Relying : StopOf(p)) /\ CycleHas
  BY <1>1 DEF StopQueryInit, StopOf, CycleHas, NotClosing
<1>4. ToldOnce
  BY DEF StopQueryInit, ToldOnce
<1> QED BY <1>2, <1>3, <1>4 DEF StopQueryInv

LEMMA StopQueryMeans == StopQueryInv => ExecutedStopIsClosed /\ DiscrepancyIsReal
  BY DEF StopQueryInv, StopQueryOK, StopOf, CycleHas, ToldOnce, ExecutedStopIsClosed,
         DiscrepancyIsReal

LEMMA SameDay ==
  ASSUME NEW time \in Nat, ~Night(time), NEW placed \in (time - Skew) .. time
  PROVE  placed \in Int /\ placed >= 2 * DayOf(time)
  BY StopQueryBounds DEF Night, DayOf

LEMMA ProtectStep == ASSUME StopQueryInv, NEW p \in Relying, Protect(p) PROVE StopQueryInv'
<1>1. PICK placed \in (instant - Skew) .. instant, echoes \in BOOLEAN :
        stopAt' = [stopAt EXCEPT ![p] = [st |-> "standing", placed |-> placed,
                                         order |-> "none", echoes |-> echoes]]
  BY DEF Protect
<1>2. /\ closing.at = "between" /\ ~Night(instant) /\ heldRow[p].status = "none"
      /\ heldRow' = [heldRow EXCEPT ![p] = [status |-> "open", entry |-> instant]]
      /\ UNCHANGED <<instant, closing, discrepancy, unexplained, discrepancies, executed>>
  BY DEF Protect
<1>3. instant \in Nat /\ placed \in Int /\ placed >= 2 * DayOf(instant)
  BY <1>2, SameDay DEF StopQueryInv, StopQueryOK
<1>4. StopQueryOK'
  BY <1>1, <1>2, <1>3 DEF StopQueryInv, StopQueryOK, Rows, StopsAt
<1>5. ASSUME NEW q \in Relying PROVE StopOf(q)'
  BY <1>1, <1>2, <1>3 DEF StopQueryInv, StopQueryOK, StopOf
<1>6. CycleHas'
  BY <1>1, <1>2 DEF StopQueryInv, StopQueryOK, CycleHas
<1>7. ToldOnce'
  BY <1>1, <1>2 DEF StopQueryInv, StopQueryOK, ToldOnce
<1> QED BY <1>4, <1>5, <1>6, <1>7 DEF StopQueryInv

(* At the broker a stop only leaves its place, and its order only advances. *)
LEMMA StopAtBroker ==
  ASSUME StopQueryInv, NEW p \in Relying, stopAt' \in [Relying -> StopsAt],
         \A q \in Relying : /\ stopAt'[q].placed = stopAt[q].placed
                            /\ stopAt'[q].st = stopAt[q].st
                               \/ (stopAt[q].st = "standing" /\ stopAt'[q].st # "standing"),
         UNCHANGED <<instant, heldRow, closing, discrepancy, unexplained, discrepancies, executed>>
  PROVE  StopQueryInv'
<1>1. StopQueryOK'
  BY DEF StopQueryInv, StopQueryOK
<1>2. \A q \in Relying : StopOf(q)'
  BY DEF StopQueryInv, StopOf
<1>3. CycleHas'
  BY DEF StopQueryInv, StopQueryOK, CycleHas
<1>4. ToldOnce'
  BY DEF StopQueryInv, StopQueryOK, ToldOnce
<1> QED BY <1>1, <1>2, <1>3, <1>4 DEF StopQueryInv

LEMMA StopGoesStep ==
  ASSUME StopQueryInv, NEW p \in Relying, NEW st \in {"fired", "gone"}, StopGoes(p, st)
  PROVE  StopQueryInv'
<1> DEFINE became == IF st = "fired" THEN "unlinked" ELSE "none"
<1>1. /\ stopAt[p].st = "standing" /\ stopAt \in [Relying -> StopsAt]
      /\ stopAt' = [stopAt EXCEPT ![p] = [stopAt[p] EXCEPT !.st = st, !.order = became]]
      /\ UNCHANGED <<instant, heldRow, closing, discrepancy, unexplained, discrepancies, executed>>
  BY DEF StopGoes, StopQueryInv, StopQueryOK
<1>2. stopAt' \in [Relying -> StopsAt]
  <2>1. [stopAt[p] EXCEPT !.st = st, !.order = became] \in StopsAt
    BY <1>1 DEF StopsAt
  <2> QED BY <1>1, <2>1
<1>3. \A q \in Relying : /\ stopAt'[q].placed = stopAt[q].placed
                         /\ stopAt'[q].st = stopAt[q].st
                            \/ (stopAt[q].st = "standing" /\ stopAt'[q].st # "standing")
  BY <1>1 DEF StopsAt
<1> QED BY <1>1, <1>2, <1>3, StopAtBroker

LEMMA OrderAdvancesStep ==
  ASSUME StopQueryInv, NEW p \in Relying, OrderAdvances(p) PROVE StopQueryInv'
<1>1. PICK order \in {"unresolved", "unfilled", "filled"} :
        stopAt' = [stopAt EXCEPT ![p].order = order]
  BY DEF OrderAdvances
<1>2. /\ stopAt \in [Relying -> StopsAt]
      /\ UNCHANGED <<instant, heldRow, closing, discrepancy, unexplained, discrepancies, executed>>
  BY DEF OrderAdvances, StopQueryInv, StopQueryOK
<1>3. stopAt' \in [Relying -> StopsAt]
  BY <1>1, <1>2 DEF StopsAt
<1>4. \A q \in Relying : stopAt'[q].placed = stopAt[q].placed /\ stopAt'[q].st = stopAt[q].st
  BY <1>1, <1>2 DEF StopsAt
<1> QED BY <1>2, <1>3, <1>4, StopAtBroker

(* Every fill of an open position's stop is asked for: the query reaches    *)
(* back to the day of the earliest entry.                                   *)
LEMMA WindowReachesBack ==
  ASSUME StopQueryInv, NEW book \in SUBSET Relying,
         book \subseteq {p \in Relying : heldRow[p].status = "open"},
         NEW p \in book, stopAt[p].st = "fired", stopAt[p].order = "filled"
  PROVE  p \in FillsSince(Since(book))
<1> DEFINE began == {heldRow[q].entry : q \in book}
<1>1. began \subseteq Nat /\ heldRow[p].entry \in began
  BY DEF StopQueryInv, StopQueryOK, Rows
<1>2. Min(began) \in Nat /\ Min(began) <= heldRow[p].entry
  BY <1>1, LeastIsIn
<1>3. stopAt[p].placed \in Int /\ stopAt[p].placed >= 2 * DayOf(heldRow[p].entry)
  BY DEF StopQueryInv, StopQueryOK, StopOf, StopsAt
<1>4. Since(book) = 2 * DayOf(Min(began))
  BY DEF Since
<1>5. heldRow[p].entry \in Nat
  BY <1>1
<1> HIDE DEF began
<1>6. stopAt[p].placed >= Since(book)
  BY <1>2, <1>3, <1>4, <1>5 DEF DayOf
<1> QED BY <1>6 DEF FillsSince

LEMMA AskExecutedStep == ASSUME StopQueryInv, AskExecuted PROVE StopQueryInv'
<1> DEFINE book == {p \in Relying : heldRow[p].status = "open"}
           fills == FillsSince(Since(book))
<1>1. /\ closing.at = "between"
      /\ executed' = {p \in book : stopAt[p].st = "fired" /\ stopAt[p].order = "filled"}
      /\ UNCHANGED <<instant, heldRow, stopAt>>
  BY DEF AskExecuted
<1>2. StopQueryOK /\ StopQueryOK' /\ (\A p \in Relying : StopOf(p)) /\ CycleHas /\ ToldOnce
  BY <1>1 DEF AskExecuted, StopQueryInv, StopQueryOK
<1>3. \A p \in Relying : StopOf(p)'
  BY <1>1, <1>2 DEF StopOf
<1>4. CASE book = {}
  <2>1. /\ discrepancy' = FALSE /\ unexplained' = {} /\ discrepancies' = 0
        /\ UNCHANGED closing /\ executed' = {}
    BY <1>1, <1>4 DEF AskExecuted
  <2>2. ToldOnce'
    BY <2>1 DEF ToldOnce
  <2>3. CycleHas'
    BY <1>1, <1>2, <2>1 DEF CycleHas
  <2> QED BY <1>2, <1>3, <2>2, <2>3 DEF StopQueryInv
<1>5. CASE book # {}
  <2>1. /\ closing' = [at |-> "asked", book |-> book, fills |-> fills, live |-> {}]
        /\ UNCHANGED <<discrepancy, unexplained, discrepancies>>
    BY <1>5 DEF AskExecuted
  <2>2. executed' \subseteq book \cap fills
    BY <1>1, WindowReachesBack
  <2>3. fills \subseteq {p \in Relying : stopAt[p].st = "fired"}
    BY DEF FillsSince
  <2>4. book \subseteq {p \in Relying : heldRow[p].status # "none"}
    OBVIOUS
  <2> HIDE DEF book, fills
  <2>5. CycleHas'
    BY <1>1, <2>1, <2>2, <2>3, <2>4 DEF CycleHas
  <2>6. ToldOnce'
    BY <1>1, <1>2, <2>1 DEF ToldOnce
  <2> QED BY <1>2, <1>3, <2>5, <2>6 DEF StopQueryInv
<1> QED BY <1>4, <1>5

LEMMA AskStandingStep == ASSUME StopQueryInv, AskStanding PROVE StopQueryInv'
<1>1. /\ closing.at = "asked" /\ closing'.at = "listed"
      /\ closing'.book = closing.book /\ closing'.fills = closing.fills
      /\ \A p \in Relying : stopAt[p].st = "standing" => <<"id", p>> \in closing'.live
      /\ UNCHANGED <<instant, heldRow, stopAt, discrepancy, unexplained, discrepancies, executed>>
  BY DEF AskStanding, StopQueryInv, StopQueryOK
<1>2. closing' = [at |-> closing'.at, book |-> closing'.book, fills |-> closing'.fills,
                  live |-> closing'.live]
  BY DEF AskStanding, StopQueryInv, StopQueryOK
<1>3. StopQueryOK'
  BY <1>1, <1>2 DEF StopQueryInv, StopQueryOK
<1>4. (\A p \in Relying : StopOf(p)') /\ ToldOnce'
  BY <1>1 DEF StopQueryInv, StopOf, ToldOnce
<1>5. CycleHas'
  <2>1. closing.book \subseteq Relying
    BY <1>1 DEF StopQueryInv, CycleHas
  <2> QED BY <1>1, <2>1 DEF StopQueryInv, CycleHas
<1> QED BY <1>3, <1>4, <1>5 DEF StopQueryInv

LEMMA OneAtMostTwo == Min({2, 1}) = 1
  BY DEF Min

LEMMA CloseExecutedStep == ASSUME StopQueryInv, CloseExecuted PROVE StopQueryInv'
<1> DEFINE missing == {p \in closing.book \ ClosedByFill : ~StopIsLive(p)}
           closed == closing.book \cap closing.fills
<1>1. /\ closing.at = "listed" /\ closing' = NotClosing
      /\ unexplained' = missing /\ discrepancy' = (missing # {})
      /\ UNCHANGED <<instant, stopAt, executed>>
      /\ heldRow' = [p \in Relying |-> IF p \in closed
                      THEN [heldRow[p] EXCEPT !.status = "closed"] ELSE heldRow[p]]
  BY DEF CloseExecuted, ClosedByFill
<1>2. StopQueryOK /\ (\A p \in Relying : StopOf(p)) /\ CycleHas /\ ToldOnce
  BY DEF StopQueryInv
<1>3. /\ executed \subseteq closed
      /\ closed \subseteq {p \in Relying : stopAt[p].st = "fired"}
      /\ missing \subseteq {p \in Relying : heldRow[p].status # "none"
                                           /\ stopAt[p].st # "standing"}
  BY <1>1, <1>2 DEF CycleHas, StopIsLive
<1>4. discrepancies' = IF missing = {} THEN 0 ELSE 1
  <2>1. CASE missing = {}
    <3>1. discrepancies' = 0
      BY <2>1 DEF CloseExecuted
    <3> QED BY <2>1, <3>1
  <2>2. CASE missing # {} /\ ~discrepancy
    <3>1. discrepancies = 0
      BY <1>2, <2>2 DEF ToldOnce
    <3>2. discrepancies' = Min({2, discrepancies + 1})
      BY <2>2 DEF CloseExecuted, ToldNow
    <3> QED BY <2>2, <3>1, <3>2, OneAtMostTwo
  <2>3. CASE missing # {} /\ discrepancy
    <3>1. discrepancies = 1
      BY <1>2, <2>3 DEF ToldOnce
    <3>2. discrepancies' = discrepancies
      BY <2>3 DEF CloseExecuted, ToldNow
    <3> QED BY <2>3, <3>1, <3>2
  <2> QED BY <2>1, <2>2, <2>3
<1> HIDE DEF missing, closed
<1>5. StopQueryOK'
  BY <1>1, <1>2 DEF StopQueryOK, NotClosing, Rows
<1>6. \A p \in Relying : /\ heldRow'[p].entry = heldRow[p].entry
                        /\ heldRow'[p].status = IF p \in closed THEN "closed"
                                               ELSE heldRow[p].status
  BY <1>1, <1>2 DEF StopQueryOK, Rows
<1>7. \A p \in Relying : StopOf(p)'
  <2> SUFFICES ASSUME NEW p \in Relying PROVE StopOf(p)'
    OBVIOUS
  <2>1. p \in closed => heldRow[p].status # "none"
    BY <1>1, <1>2 DEF CycleHas, closed
  <2> QED BY <1>1, <1>2, <1>3, <1>6, <2>1 DEF StopOf
<1>8. CycleHas'
  BY <1>1, <1>3, <1>6 DEF CycleHas, NotClosing
<1>9. ToldOnce'
  <2>1. unexplained' \subseteq {p \in Relying : heldRow'[p].status # "none"
                                               /\ stopAt'[p].st # "standing"}
    BY <1>1, <1>3, <1>6
  <2> QED BY <1>1, <1>4, <2>1 DEF ToldOnce
<1> QED BY <1>5, <1>7, <1>8, <1>9 DEF StopQueryInv

LEMMA StopQueryFailsStep == ASSUME StopQueryInv, StopQueryFails PROVE StopQueryInv'
<1>1. /\ closing' = NotClosing /\ executed' = {}
      /\ UNCHANGED <<instant, heldRow, stopAt, discrepancy, unexplained, discrepancies>>
  BY DEF StopQueryFails
<1>2. StopQueryOK' /\ CycleHas'
  BY <1>1 DEF StopQueryInv, StopQueryOK, CycleHas, NotClosing
<1>3. (\A p \in Relying : StopOf(p)') /\ ToldOnce'
  BY <1>1 DEF StopQueryInv, StopOf, ToldOnce
<1> QED BY <1>2, <1>3 DEF StopQueryInv

LEMMA StopQueryStep == StopQueryInv /\ [StopQueryNext]_stopVars => StopQueryInv'
<1> SUFFICES ASSUME StopQueryInv, [StopQueryNext]_stopVars PROVE StopQueryInv'
  OBVIOUS
<1>1. ASSUME NEW p \in Relying, Protect(p) \/ OrderAdvances(p) PROVE StopQueryInv'
  BY <1>1, ProtectStep, OrderAdvancesStep
<1>2. ASSUME NEW p \in Relying, NEW st \in {"fired", "gone"}, StopGoes(p, st)
      PROVE  StopQueryInv'
  BY <1>2, StopGoesStep
<1>3. CASE AskExecuted \/ AskStanding \/ CloseExecuted \/ StopQueryFails
  BY <1>3, AskExecutedStep, AskStandingStep, CloseExecutedStep, StopQueryFailsStep
<1>4. CASE InstantPasses \/ UNCHANGED stopVars
  <2>1. /\ UNCHANGED <<heldRow, stopAt, closing, discrepancy, unexplained, discrepancies, executed>>
        /\ instant' \in Nat
    BY <1>4 DEF InstantPasses, stopVars, StopQueryInv, StopQueryOK
  <2> QED BY <2>1 DEF StopQueryInv, StopQueryOK, StopOf, CycleHas, ToldOnce
<1> QED BY <1>1, <1>2, <1>3, <1>4 DEF StopQueryNext

(* A cycle whose queries were answered has closed every position whose stop *)
(* had a fill when it asked, on whatever day the stop was placed and however *)
(* far the broker's clock is behind; and none closes one whose stop did not *)
(* execute (_close_executed in app/loops.py, get_executed_stop_fills in     *)
(* broker/client.py).                                                       *)
THEOREM ExecutedStopsAreClosed == StopQuerySpec => []ExecutedStopIsClosed
<1> QED BY StopQueryStarts, StopQueryStep, StopQueryMeans, PTL DEF StopQuerySpec

(* A stop reported missing does not stand, whichever identifiers the broker *)
(* echoes, and a discrepancy that lasts is told once (_close_executed in    *)
(* app/loops.py).                                                           *)
THEOREM DiscrepanciesAreReal == StopQuerySpec => []DiscrepancyIsReal
<1> QED BY StopQueryStarts, StopQueryStep, StopQueryMeans, PTL DEF StopQuerySpec

-----------------------------------------------------------------------------
(* What the simulation pays *)

(* A sum may be taken apart at any element, not only at the chosen one.     *)
TakesApart(g, f) == \A s \in SUBSET DOMAIN f : \A x \in s : g[s] = f[x] + g[s \ {x}]

LEMMA AnyOrder ==
  ASSUME NEW f, Numbers(f), NEW g \in [SUBSET DOMAIN f -> Int], SumsUp(g, f)
  PROVE  TakesApart(g, f)
<1> DEFINE D == DOMAIN f
           Bad == {u \in SUBSET D : \E y \in u : g[u] # f[y] + g[u \ {y}]}
<1>1. \A u \in SUBSET D : u # {} =>
        Chosen(u) \in u /\ g[u] = f[Chosen(u)] + g[u \ {Chosen(u)}]
  BY ChosenIsIn DEF SumsUp, OneMore
<1>2. Bad = {}
  <2> SUFFICES ASSUME Bad # {} PROVE FALSE
    OBVIOUS
  <2>1. Bad \subseteq SUBSET D /\ IsFiniteSet(D)
    BY DEF Numbers
  <2>2. PICK T \in Bad : \A y \in T : T \ {y} \notin Bad
    <3> HIDE DEF Bad
    <3> QED BY <2>1, SmallestSubset
  <2>3. T \in Bad
    BY <2>2
  <2>4. T \in SUBSET D /\ \E y \in T : g[T] # f[y] + g[T \ {y}]
    BY <2>3
  <2>5. PICK y \in T : g[T] # f[y] + g[T \ {y}]
    BY <2>4
  <2> DEFINE c == Chosen(T)
             u == T \ {c}
             w == T \ {y}
             v == (T \ {c}) \ {y}
  <2>6. c \in T /\ g[T] = f[c] + g[u]
    BY <1>1, <2>4
  <2>7. c # y
    BY <2>5, <2>6
  <2>8. u \in SUBSET D /\ w \in SUBSET D /\ v \in SUBSET D /\ v = w \ {c} /\ y \in u /\ c \in w
    BY <2>4, <2>5, <2>6, <2>7
  <2>9. g[u] = f[y] + g[v]
    BY <2>2, <2>5, <2>6, <2>8
  <2>10. g[w] = f[c] + g[v]
    BY <2>2, <2>5, <2>6, <2>8
  <2>11. f[c] \in Int /\ f[y] \in Int /\ g[v] \in Int
    BY <2>4, <2>5, <2>6, <2>8 DEF Numbers
  <2> HIDE DEF c, u, v, w
  <2>12. g[T] = f[y] + g[w]
    BY <2>6, <2>9, <2>10, <2>11
  <2> QED BY <2>5, <2>12 DEF w
<1> QED BY <1>2 DEF TakesApart

(* What is added at some of the arguments is added to the sum.              *)
LEMMA TotalOfBoth ==
  ASSUME NEW f, Numbers(f), NEW h, Numbers(h), DOMAIN h = DOMAIN f,
         NEW k, Numbers(k), DOMAIN k \subseteq DOMAIN f,
         \A x \in DOMAIN f : h[x] = f[x] + (IF x \in DOMAIN k THEN k[x] ELSE 0)
  PROVE  Total(h) = Total(f) + Total(k)
<1> DEFINE D == DOMAIN f
           E == DOMAIN k
<1>1. PICK gf \in [SUBSET DOMAIN f -> Int] : SumsUp(gf, f) /\ Total(f) = gf[DOMAIN f]
  BY TotalFolds
<1>2. PICK gh \in [SUBSET DOMAIN h -> Int] : SumsUp(gh, h) /\ Total(h) = gh[DOMAIN h]
  BY TotalFolds
<1>3. PICK gk \in [SUBSET DOMAIN k -> Int] : SumsUp(gk, k) /\ Total(k) = gk[DOMAIN k]
  BY TotalFolds
<1>8. TakesApart(gf, f)
  BY <1>1, AnyOrder
<1>9. TakesApart(gh, h)
  BY <1>2, AnyOrder
<1>10. TakesApart(gk, k)
  BY <1>3, AnyOrder
<1> DEFINE Bad == {u \in SUBSET D : gh[u] # gf[u] + gk[u \cap E]}
<1>4. gf[{}] = 0 /\ gh[{}] = 0 /\ gk[{}] = 0
  BY <1>1, <1>2, <1>3 DEF SumsUp, OneMore
<1>5. Bad = {}
  <2> SUFFICES ASSUME Bad # {} PROVE FALSE
    OBVIOUS
  <2>1. Bad \subseteq SUBSET D /\ IsFiniteSet(D)
    BY DEF Numbers
  <2>2. PICK T \in Bad : \A y \in T : T \ {y} \notin Bad
    <3> HIDE DEF Bad
    <3> QED BY <2>1, SmallestSubset
  <2>3. T \in Bad
    BY <2>2
  <2>4. T \in SUBSET D /\ gh[T] # gf[T] + gk[T \cap E]
    BY <2>3
  <2>5. T # {}
    <3> SUFFICES ASSUME T = {} PROVE FALSE
      OBVIOUS
    <3>1. T \cap E = {}
      OBVIOUS
    <3>2. gh[T] = 0 /\ gf[T] = 0 /\ gk[T \cap E] = 0
      BY <1>4, <3>1
    <3> QED BY <2>4, <3>2
  <2>6. PICK c : c \in T
    BY <2>5
  <2> DEFINE u == T \ {c}
             p == T \cap E
             q == u \cap E
  <2>7. u \in SUBSET D /\ c \in D /\ p \in SUBSET E /\ q \in SUBSET E
    BY <2>4, <2>6
  <2>8. gh[T] = h[c] + gh[u] /\ gf[T] = f[c] + gf[u]
    BY <1>8, <1>9, <2>4, <2>6 DEF TakesApart
  <2>9. gh[u] = gf[u] + gk[q]
    BY <2>2, <2>6, <2>7
  <2>10. gf[u] \in Int /\ gk[q] \in Int /\ f[c] \in Int
    BY <1>1, <1>3, <2>7 DEF Numbers
  <2>11. CASE c \in E
    <3>1. c \in p /\ q = p \ {c} /\ k[c] \in Int
      BY <2>6, <2>11 DEF Numbers
    <3>2. gk[p] = k[c] + gk[q]
      <4> HIDE DEF p, q
      <4> QED BY <1>10, <2>7, <3>1 DEF TakesApart
    <3>3. h[c] = f[c] + k[c]
      BY <2>7, <2>11
    <3> HIDE DEF u, p, q
    <3>4. gh[T] = gf[T] + gk[p]
      BY <2>8, <2>9, <2>10, <3>1, <3>2, <3>3
    <3> QED BY <2>4, <3>4 DEF p
  <2>12. CASE c \notin E
    <3>1. q = p
      BY <2>12
    <3>2. h[c] = f[c]
      BY <2>7, <2>10, <2>12
    <3> HIDE DEF u, p, q
    <3>3. gh[T] = gf[T] + gk[p]
      BY <2>8, <2>9, <2>10, <3>1, <3>2
    <3> QED BY <2>4, <3>3 DEF p
  <2> QED BY <2>11, <2>12
<1>6. gh[D] = gf[D] + gk[D \cap E]
  BY <1>5
<1>7. D \cap E = E
  OBVIOUS
<1> QED BY <1>1, <1>2, <1>3, <1>6, <1>7

(* A commission takes no more than a sale brings in.                        *)
FeesAreCovered ==
  FeePct <= 100 /\ \A p \in BarPrices : FeeMin <= p * (100 - SlippagePct)

Proceeds(lots, price) == lots * price - Fee(lots * price)

(* What stops brought in that the cycle has not booked.                     *)
OwedFor(fills) == [s \in Symbols |-> IF fills[s] = NoFill THEN 0
                                       ELSE Proceeds(fills[s].lots, fills[s].price)]

NothingPends == executedStops = [s \in Symbols |-> NoFill]

SimTypes ==
  /\ moment \in Nat /\ mark \in 1 .. Len(Marks)
  /\ bar \in [Symbols -> [at : Nat, open : Nat, low : Nat, high : Nat, close : Nat]]
  /\ following \in [Symbols -> BarPrices \cup {0}]
  /\ simCash \in Int /\ bookedCash \in Int
  /\ holding \in [Symbols -> Nat]
  /\ simStop \in [Symbols -> [st : {"none", "ACTIVE", "EXECUTED", "CANCELLED"},
                              lots : Nat, level : Nat, placedIn : Nat]]
  /\ executedStops \in [Symbols -> [lots : Nat, price : Nat]]
  /\ row \in [Symbols -> [lots : Nat, entry : Nat, local : BOOLEAN]]
  /\ stopsRefused \in BOOLEAN /\ tooEarly \in BOOLEAN
  /\ simStep \in {"done", "stops", "exits", "entries"}

(* The bars an account may hold are of the past and were checked.           *)
BarsChecked ==
  \A s \in Symbols :
    bar[s] = NoBar \/ (bar[s].at \in checked /\ bar[s].at <= moment /\ bar[s].open \in BarPrices)

(* A standing stop guards a position of its own size, and pays its fee.     *)
StopsGuard ==
  \A s \in Symbols : simStop[s].st = "ACTIVE" =>
    /\ row[s].lots = simStop[s].lots /\ row[s].lots > 0 /\ ~row[s].local
    /\ executedStops[s] = NoFill
    /\ simStop[s].placedIn <= moment /\ simStop[s].level >= FeeMin

(* A fill that is not booked sold the whole of a position that still stands *)
(* in the books; otherwise the shares are those of the books.               *)
FillsPend ==
  \A s \in Symbols :
    IF executedStops[s] = NoFill THEN holding[s] = row[s].lots
    ELSE /\ row[s].lots = executedStops[s].lots /\ row[s].lots > 0 /\ ~row[s].local
         /\ holding[s] = 0

CashIsOwed == simCash = bookedCash + SumFunction(OwedFor(executedStops))

BookedFirst ==
  simStep \in {"exits", "entries"} \/ (simStep = "done" /\ InLeadSession) => NothingPends

SimInv ==
  /\ SimTypes /\ BarsChecked /\ StopsGuard /\ FillsPend /\ CashIsOwed /\ BookedFirst
  /\ simCash >= 0 /\ ~tooEarly

LEMMA MaxOfTwo ==
  ASSUME NEW a \in Int, NEW b \in Int
  PROVE  Max({a, b}) \in {a, b} /\ Max({a, b}) >= a /\ Max({a, b}) >= b
<1>1. \E x \in {a, b} : \A y \in {a, b} : x >= y
  OBVIOUS
<1> QED BY <1>1 DEF Max

LEMMA SimConstants ==
  /\ SlippagePct \in Nat /\ FeePct \in Nat /\ FeeMin \in Nat /\ SimCash \in Nat /\ MaxLots \in Nat
  /\ StopPct \in 1 .. 99 /\ BarPrices \subseteq Nat /\ 0 \notin BarPrices
  /\ IsFiniteSet(Symbols)
  /\ \A p \in BarPrices : p \in Nat /\ p > 0 /\ p * (100 - StopPct) >= FeeMin
<1>1. \A p \in BarPrices : p \in Nat /\ p > 0
  BY SimBounds
<1>2. \A p \in BarPrices : p * (100 - StopPct) \in Int
  BY <1>1, SimBounds
<1> QED BY <1>1, <1>2, SimBounds

LEMMA FeeIs ==
  ASSUME NEW t \in Nat
  PROVE  /\ Fee(t) \in Nat
         /\ FeesAreCovered /\ t >= FeeMin => Fee(t) <= t
<1> DEFINE share == (t * FeePct) \div 100
<1>1. t * FeePct \in Nat
  BY SimConstants
<1>2. share \in Int /\ share * 100 <= t * FeePct /\ share >= 0
  <2> DEFINE n == t * FeePct
  <2> HIDE DEF n
  <2>1. n \in Nat => n \div 100 \in Int /\ (n \div 100) * 100 <= n /\ n \div 100 >= 0
    OBVIOUS
  <2> QED BY <1>1, <2>1 DEF n
<1>3. FeesAreCovered => t * FeePct <= t * 100
  <2> SUFFICES ASSUME FeePct <= 100 PROVE t * FeePct <= t * 100
    BY DEF FeesAreCovered
  <2>1. FeePct * t <= 100 * t
    BY SimConstants, ProductGrows
  <2> QED BY <2>1, SimConstants
<1>4. FeesAreCovered => share <= t
  <2> SUFFICES ASSUME FeesAreCovered PROVE share <= t
    OBVIOUS
  <2>1. share * 100 <= t * 100
    <3> DEFINE n == t * FeePct
    <3>1. n <= t * 100 /\ share * 100 <= n /\ n \in Int
      BY <1>1, <1>2, <1>3
    <3> HIDE DEF n, share
    <3> QED BY <1>2, <3>1
  <2> HIDE DEF share
  <2> QED BY <1>2, <2>1
<1>5. /\ Max({share, FeeMin}) \in {share, FeeMin}
      /\ Max({share, FeeMin}) >= share /\ Max({share, FeeMin}) >= FeeMin
  <2>1. share \in Int /\ FeeMin \in Int
    BY <1>2, SimConstants
  <2> HIDE DEF share
  <2> QED BY <2>1, MaxOfTwo
<1>6. Fee(t) = Max({share, FeeMin})
  BY DEF Fee
<1> HIDE DEF share
<1> QED BY <1>2, <1>4, <1>5, <1>6, SimConstants

(* What covers the smallest fee for one share covers the fee of more.       *)
LEMMA SalePays ==
  ASSUME FeesAreCovered, NEW lots \in Nat, lots > 0, NEW price \in Int, price >= FeeMin
  PROVE  Proceeds(lots, price) \in Nat
<1> DEFINE t == lots * price
<1>1. price \in Nat
  BY SimConstants
<1>2. t \in Nat /\ t >= price
  <2>1. 1 * price <= lots * price
    BY <1>1, ProductGrows
  <2> QED BY <1>1, <2>1
<1>3. Proceeds(lots, price) = t - Fee(t)
  BY DEF Proceeds
<1> HIDE DEF t
<1>4. t >= FeeMin
  BY <1>1, <1>2, SimConstants
<1>5. Fee(t) \in Nat /\ Fee(t) <= t
  BY <1>2, <1>4, FeeIs
<1> QED BY <1>2, <1>3, <1>5

LEMMA OwedNumbers ==
  ASSUME NEW fills \in [Symbols -> [lots : Nat, price : Nat]]
  PROVE  Numbers(OwedFor(fills)) /\ DOMAIN OwedFor(fills) = Symbols
<1>1. \A lots, price \in Nat : Proceeds(lots, price) \in Int
  <2> SUFFICES ASSUME NEW lots \in Nat, NEW price \in Nat PROVE Proceeds(lots, price) \in Int
    OBVIOUS
  <2> DEFINE t == lots * price
  <2>1. t \in Nat
    OBVIOUS
  <2>2. Proceeds(lots, price) = t - Fee(t)
    BY DEF Proceeds
  <2> HIDE DEF t
  <2> QED BY <2>1, <2>2, FeeIs
<1>2. DOMAIN OwedFor(fills) = Symbols /\ OwedFor(fills) \in [Symbols -> Int]
  BY <1>1 DEF OwedFor
<1> QED BY <1>2, SimConstants DEF Numbers

LEMMA NothingOwed ==
  ASSUME NEW fills \in [Symbols -> [lots : Nat, price : Nat]], \A s \in Symbols : fills[s] = NoFill
  PROVE  Total(OwedFor(fills)) = 0
<1>1. \A s \in Symbols : OwedFor(fills)[s] = 0
  BY DEF OwedFor
<1> QED BY <1>1, OwedNumbers, TotalOfZeros

LEMMA SimStarts == SimInit => SimInv
<1> SUFFICES ASSUME SimInit PROVE SimInv
  OBVIOUS
<1>1. Min(BarPrices) \in BarPrices
  BY SimBounds, LeastIsIn
<1>2. SimTypes
  <2>1. moment \in Nat /\ mark \in 1 .. Len(Marks)
    BY DEF SimInit, Marks
  <2>2. /\ bar \in [Symbols -> [at : Nat, open : Nat, low : Nat, high : Nat, close : Nat]]
        /\ following \in [Symbols -> BarPrices \cup {0}] /\ holding \in [Symbols -> Nat]
    BY <1>1 DEF SimInit, NoBar
  <2>3. simStop \in [Symbols -> [st : {"none", "ACTIVE", "EXECUTED", "CANCELLED"},
                                lots : Nat, level : Nat, placedIn : Nat]]
    BY DEF SimInit, NoSimStop
  <2>4. executedStops \in [Symbols -> [lots : Nat, price : Nat]]
    BY DEF SimInit, NoFill
  <2>5. row \in [Symbols -> [lots : Nat, entry : Nat, local : BOOLEAN]]
    BY DEF SimInit, NoRowHere
  <2>6. simCash \in Int /\ bookedCash \in Int
    BY SimConstants DEF SimInit
  <2>7. stopsRefused \in BOOLEAN /\ tooEarly \in BOOLEAN
    BY DEF SimInit
  <2>8. simStep \in {"done", "stops", "exits", "entries"}
    BY DEF SimInit
  <2> QED BY <2>1, <2>2, <2>3, <2>4, <2>5, <2>6, <2>7, <2>8 DEF SimTypes
<1>3. NothingPends /\ simCash = bookedCash
  BY DEF SimInit, NothingPends
<1>4. Total(OwedFor(executedStops)) = 0
  BY <1>2, <1>3, NothingOwed DEF SimTypes, NothingPends
<1>5. CashIsOwed
  <2>1. simCash = bookedCash + Total(OwedFor(executedStops))
    BY <1>2, <1>3, <1>4 DEF SimTypes
  <2> QED BY <2>1 DEF CashIsOwed, Total
<1>6. BarsChecked /\ StopsGuard /\ FillsPend /\ BookedFirst
  BY <1>3 DEF SimInit, BarsChecked, StopsGuard, FillsPend, BookedFirst, NoSimStop, NoRowHere, NoFill
<1> QED BY <1>2, <1>5, <1>6, SimConstants DEF SimInv, SimInit

SimBars == [at : Nat, open : Nat, low : Nat, high : Nat, close : Nat]
SimStops == [st : {"none", "ACTIVE", "EXECUTED", "CANCELLED"}, lots : Nat, level : Nat,
             placedIn : Nat]
SimFills == [lots : Nat, price : Nat]
SimRows == [lots : Nat, entry : Nat, local : BOOLEAN]

(* A bar that is entered is the same as before or is of this moment, the    *)
(* next one.                                                                *)
BarsEntered(bars) ==
  /\ bars \in [Symbols -> SimBars]
  /\ moment' \in Nat /\ moment' >= moment
  /\ \A s \in Symbols :
       bars[s] = bar[s] \/ (/\ bars[s].at = moment' /\ moment' > moment
                            /\ bars[s].open \in BarPrices)

LEMMA AdvanceKeeps ==
  ASSUME FeesAreCovered, SimInv, NEW bars, BarsEntered(bars), Advance(bars),
         mark' \in 1 .. Len(Marks), following' \in [Symbols -> BarPrices \cup {0}],
         UNCHANGED <<row, bookedCash, stopsRefused>>
  PROVE  SimInv'
<1> DEFINE fired == Fires(bars)
           fill == [s \in Symbols |-> StopFill(bars[s], simStop[s])]
           proceeds == [s \in fired |-> fill[s].lots * fill[s].price
                                          - Fee(fill[s].lots * fill[s].price)]
<1>0. /\ bar' = bars /\ checked' = CheckedAfter(bars) /\ simStep' = "stops"
      /\ simCash' = simCash + Total(proceeds)
      /\ holding' = [s \in Symbols |-> IF s \in fired THEN Max({0, holding[s] - fill[s].lots})
                                                     ELSE holding[s]]
      /\ executedStops' = [s \in Symbols |-> IF s \in fired THEN fill[s] ELSE executedStops[s]]
      /\ simStop' = [s \in Symbols |-> IF s \in fired THEN [simStop[s] EXCEPT !.st = "EXECUTED"]
                                                     ELSE simStop[s]]
      /\ tooEarly' = (tooEarly \/ \E s \in fired : bars[s].at <= simStop[s].placedIn)
  BY DEF Advance, Total
<1>1. SimTypes /\ BarsChecked /\ StopsGuard /\ FillsPend /\ CashIsOwed /\ simCash >= 0 /\ ~tooEarly
  BY DEF SimInv
<1>2. \A s \in fired :
        /\ s \in Symbols /\ simStop[s].st = "ACTIVE" /\ bars[s] # NoBar
        /\ bars[s].at \notin checked
  BY DEF Fires
<1>3. \A s \in fired :
        /\ bars[s].at = moment' /\ moment' > moment /\ bars[s].open \in BarPrices
        /\ row[s].lots = simStop[s].lots /\ row[s].lots > 0 /\ ~row[s].local
        /\ executedStops[s] = NoFill
        /\ simStop[s].placedIn <= moment /\ simStop[s].level >= FeeMin
        /\ holding[s] = row[s].lots
  BY <1>1, <1>2 DEF BarsChecked, StopsGuard, FillsPend, BarsEntered
<1>4. \A s \in fired :
        /\ fill[s].lots = simStop[s].lots /\ fill[s].lots \in Nat /\ fill[s].lots > 0
        /\ fill[s].price \in Nat /\ fill[s].price >= FeeMin
        /\ fill[s] \in SimFills /\ fill[s] # NoFill
  <2> SUFFICES ASSUME NEW s \in fired
               PROVE  /\ fill[s].lots = simStop[s].lots /\ fill[s].lots \in Nat /\ fill[s].lots > 0
                      /\ fill[s].price \in Nat /\ fill[s].price >= FeeMin
                      /\ fill[s] \in SimFills /\ fill[s] # NoFill
    OBVIOUS
  <2> DEFINE level == simStop[s].level
             open == 100 * bars[s].open
             price == Min({level, open})
             lots == simStop[s].lots
  <2>1. s \in Symbols /\ level \in Nat /\ lots \in Nat /\ lots > 0 /\ level >= FeeMin
    BY <1>1, <1>2, <1>3 DEF SimTypes
  <2>2. open \in Nat /\ open >= FeeMin
    <3> DEFINE p == bars[s].open
    <3>1. p \in Nat /\ p * (100 - StopPct) >= FeeMin
      BY <1>3, SimConstants
    <3>2. StopPct \in 1 .. 99 /\ FeeMin \in Nat
      BY SimConstants
    <3> HIDE DEF p
    <3>3. 100 - StopPct \in Int /\ 100 - StopPct <= 100
      BY <3>2
    <3>4. (100 - StopPct) * p <= 100 * p
      BY <3>1, <3>3, ProductGrows
    <3>5. (100 - StopPct) * p = p * (100 - StopPct)
      BY <3>1, <3>3
    <3>6. 100 * p >= FeeMin /\ 100 * p \in Nat
      BY <3>1, <3>2, <3>4, <3>5
    <3> QED BY <3>6 DEF p
  <2>3. fill[s] = [lots |-> lots, price |-> price]
    BY <2>1 DEF StopFill
  <2> HIDE DEF level, open, lots
  <2>4. price \in {level, open}
    <3>1. level \in Int /\ open \in Int
      BY <2>1, <2>2
    <3> QED BY <3>1, MinOfTwo
  <2> HIDE DEF price, fill
  <2>5. price \in Nat /\ price >= FeeMin
    BY <2>1, <2>2, <2>4
  <2>6. fill[s] \in SimFills /\ fill[s] # NoFill
    BY <2>1, <2>3, <2>5 DEF SimFills, NoFill
  <2> QED BY <2>1, <2>3, <2>5, <2>6 DEF lots
<1>5. proceeds \in [fired -> Nat] /\ \A s \in fired : proceeds[s] = Proceeds(fill[s].lots, fill[s].price)
  <2>1. \A s \in fired : proceeds[s] = Proceeds(fill[s].lots, fill[s].price)
    BY DEF Proceeds
  <2>2. \A s \in fired : Proceeds(fill[s].lots, fill[s].price) \in Nat
    <3> HIDE DEF fill, fired
    <3> QED BY <1>4, SalePays
  <2>3. DOMAIN proceeds = fired /\ proceeds = [s \in fired |-> proceeds[s]]
    OBVIOUS
  <2> HIDE DEF proceeds, fill, fired
  <2> QED BY <2>1, <2>2, <2>3
<1>6. fired \subseteq Symbols
  BY <1>2
<1> HIDE DEF fired, fill, proceeds
<1>7. Numbers(proceeds) /\ DOMAIN proceeds = fired /\ Total(proceeds) >= 0 /\ Total(proceeds) \in Int
  <2>1. Numbers(proceeds) /\ DOMAIN proceeds = fired /\ \A s \in fired : proceeds[s] >= 0
    BY <1>5, <1>6, SimConstants, FS_Subset DEF Numbers
  <2> QED BY <2>1, TotalNotNegative, TotalIsInt
<1>8. executedStops' \in [Symbols -> SimFills]
  BY <1>0, <1>1, <1>4, <1>6 DEF SimTypes, SimFills
<1>9. CashIsOwed'
  <2> DEFINE before == OwedFor(executedStops)
             after == OwedFor(executedStops')
  <2>1. executedStops \in [Symbols -> SimFills]
    BY <1>1 DEF SimTypes, SimFills
  <2>2. Numbers(before) /\ DOMAIN before = Symbols /\ Numbers(after) /\ DOMAIN after = Symbols
    BY <1>8, <2>1, OwedNumbers DEF SimFills
  <2>3. \A s \in Symbols : after[s] = before[s] + (IF s \in DOMAIN proceeds THEN proceeds[s] ELSE 0)
    <3> SUFFICES ASSUME NEW s \in Symbols
                 PROVE  after[s] = before[s] + (IF s \in fired THEN proceeds[s] ELSE 0)
      BY <1>7
    <3>1. CASE s \in fired
      <4>1. before[s] = 0
        BY <1>3, <3>1 DEF OwedFor
      <4>2. after[s] = proceeds[s]
        BY <1>0, <1>4, <1>5, <3>1 DEF OwedFor
      <4>3. proceeds[s] \in Int
        BY <1>5, <3>1
      <4> HIDE DEF before, after
      <4> QED BY <3>1, <4>1, <4>2, <4>3
    <3>2. CASE s \notin fired
      <4>1. after[s] = before[s]
        BY <1>0, <3>2 DEF OwedFor
      <4>2. before[s] \in Int
        BY <2>2 DEF Numbers
      <4> HIDE DEF before, after
      <4> QED BY <3>2, <4>1, <4>2
    <3> QED BY <3>1, <3>2
  <2>4. Total(after) = Total(before) + Total(proceeds)
    <3> HIDE DEF before, after
    <3> QED BY <1>6, <1>7, <2>2, <2>3, TotalOfBoth
  <2>5. Total(before) \in Int /\ simCash = bookedCash + Total(before)
    BY <1>1, <2>2, TotalIsInt DEF CashIsOwed, Total
  <2>6. bookedCash' = bookedCash /\ bookedCash \in Int
    BY <1>1 DEF SimTypes
  <2>7. simCash' = bookedCash' + Total(after)
    <3> HIDE DEF before, after
    <3> QED BY <1>0, <1>7, <2>4, <2>5, <2>6
  <2> QED BY <2>7 DEF CashIsOwed, Total
<1>10. simCash' \in Int /\ simCash' >= 0
  <2>1. simCash \in Int /\ simCash >= 0
    BY <1>1 DEF SimTypes
  <2>2. simCash' = simCash + Total(proceeds)
    BY <1>0
  <2> QED BY <1>7, <2>1, <2>2
<1>11. \A s \in fired : Max({0, holding[s] - fill[s].lots}) = 0
  <2> SUFFICES ASSUME NEW s \in fired PROVE Max({0, holding[s] - fill[s].lots}) = 0
    OBVIOUS
  <2>1. holding[s] - fill[s].lots = 0
    BY <1>3, <1>4
  <2> QED BY <2>1, MaxWithZero
<1>12. /\ holding' = [s \in Symbols |-> IF s \in fired THEN 0 ELSE holding[s]]
       /\ holding' \in [Symbols -> Nat]
  <2>1. holding' = [s \in Symbols |-> IF s \in fired THEN 0 ELSE holding[s]]
    BY <1>0, <1>11
  <2>2. holding \in [Symbols -> Nat]
    BY <1>1 DEF SimTypes
  <2> QED BY <2>1, <2>2
<1>13. SimTypes'
  <2>1. moment' \in Nat /\ bar' \in [Symbols -> SimBars]
    BY <1>0 DEF BarsEntered
  <2>2. simStop' \in [Symbols -> SimStops]
    <3>1. simStop \in [Symbols -> SimStops]
      BY <1>1 DEF SimTypes, SimStops
    <3>2. \A stop \in SimStops : [stop EXCEPT !.st = "EXECUTED"] \in SimStops
      BY DEF SimStops
    <3>3. simStop' = [s \in Symbols |-> IF s \in fired THEN [simStop[s] EXCEPT !.st = "EXECUTED"]
                                                      ELSE simStop[s]]
      BY <1>0
    <3> QED BY <3>1, <3>2, <3>3
  <2>3. tooEarly' \in BOOLEAN /\ stopsRefused' \in BOOLEAN /\ simStep' \in {"done", "stops", "exits", "entries"}
    BY <1>0, <1>1 DEF SimTypes
  <2>4. row' \in [Symbols -> SimRows] /\ bookedCash' \in Int
    BY <1>1 DEF SimTypes, SimRows
  <2> QED BY <1>8, <1>10, <1>12, <2>1, <2>2, <2>3, <2>4
          DEF SimTypes, SimBars, SimStops, SimFills, SimRows
<1>14. BarsChecked'
  <2> SUFFICES ASSUME NEW s \in Symbols
               PROVE  bars[s] = NoBar \/ (/\ bars[s].at \in CheckedAfter(bars)
                                          /\ bars[s].at <= moment' /\ bars[s].open \in BarPrices)
    BY <1>0 DEF BarsChecked
  <2>1. bars[s].at \in CheckedAfter(bars)
    BY DEF CheckedAfter
  <2>2. bars[s] = bar[s] \/ (bars[s].at = moment' /\ bars[s].open \in BarPrices)
    BY DEF BarsEntered
  <2>3. moment \in Nat /\ moment' \in Nat /\ moment <= moment' /\ bars[s].at \in Nat
    BY <1>1 DEF BarsEntered, SimTypes, SimBars
  <2>4. bar[s] = NoBar \/ (bar[s].at <= moment /\ bar[s].open \in BarPrices)
    BY <1>1 DEF BarsChecked
  <2> QED BY <2>1, <2>2, <2>3, <2>4
<1>15. StopsGuard'
  <2> SUFFICES ASSUME NEW s \in Symbols, simStop'[s].st = "ACTIVE"
               PROVE  /\ row[s].lots = simStop'[s].lots /\ row[s].lots > 0 /\ ~row[s].local
                      /\ executedStops'[s] = NoFill
                      /\ simStop'[s].placedIn <= moment' /\ simStop'[s].level >= FeeMin
    BY DEF StopsGuard
  <2>1. simStop[s] \in SimStops /\ moment \in Nat
    BY <1>1 DEF SimTypes, SimStops
  <2>2. s \notin fired
    BY <1>0, <2>1 DEF SimStops
  <2>3. simStop'[s] = simStop[s] /\ executedStops'[s] = executedStops[s]
    BY <1>0, <2>2
  <2>4. simStop[s].placedIn <= moment /\ moment <= moment' /\ moment' \in Nat
        /\ simStop[s].placedIn \in Nat
    <3>1. simStop[s].placedIn <= moment
      BY <1>1, <2>3 DEF StopsGuard
    <3>2. moment <= moment' /\ moment' \in Nat
      BY <2>1 DEF BarsEntered
    <3> QED BY <2>1, <3>1, <3>2 DEF SimStops
  <2>5. /\ row[s].lots = simStop[s].lots /\ row[s].lots > 0 /\ ~row[s].local
        /\ executedStops[s] = NoFill /\ simStop[s].level >= FeeMin
    <3>1. simStop[s].st = "ACTIVE"
      BY <2>3
    <3> QED BY <1>1, <3>1 DEF StopsGuard
  <2>6. simStop[s].placedIn <= moment'
    BY <2>1, <2>4
  <2> QED BY <2>3, <2>5, <2>6
<1>16. FillsPend'
  <2> SUFFICES ASSUME NEW s \in Symbols
               PROVE  IF executedStops'[s] = NoFill THEN holding'[s] = row[s].lots
                      ELSE /\ row[s].lots = executedStops'[s].lots /\ row[s].lots > 0 /\ ~row[s].local
                           /\ holding'[s] = 0
    BY DEF FillsPend
  <2>1. CASE s \in fired
    BY <1>0, <1>3, <1>4, <1>12, <2>1
  <2>2. CASE s \notin fired
    BY <1>0, <1>1, <1>12, <2>2 DEF FillsPend
  <2> QED BY <2>1, <2>2
<1>17. ~tooEarly'
  <2> SUFFICES ASSUME NEW s \in fired PROVE ~ (bars[s].at <= simStop[s].placedIn)
    BY <1>0, <1>1
  <2>1. simStop[s].placedIn \in Nat /\ moment \in Nat /\ moment' \in Nat
    BY <1>1, <1>6 DEF SimTypes, BarsEntered
  <2> QED BY <1>3, <2>1
<1>18. BookedFirst'
  BY <1>0 DEF BookedFirst
<1> QED BY <1>9, <1>10, <1>13, <1>14, <1>15, <1>16, <1>17, <1>18 DEF SimInv

LEMMA MomentsKeep == ASSUME FeesAreCovered, SimInv, NextMoment \/ NextMark PROVE SimInv'
<1>1. SimTypes /\ BarsChecked
  BY DEF SimInv
<1>2. CASE NextMark
  <2>1. BarsEntered(bar) /\ Advance(bar)
    BY <1>1, <1>2 DEF NextMark, BarsEntered, SimTypes, SimBars
  <2>2. mark' \in 1 .. Len(Marks)
    BY <1>1, <1>2 DEF NextMark, SimTypes, Marks
  <2>3. following' \in [Symbols -> BarPrices \cup {0}] /\ UNCHANGED <<row, bookedCash, stopsRefused>>
    BY <1>1, <1>2 DEF NextMark, SimTypes
  <2> QED BY <2>1, <2>2, <2>3, AdvanceKeeps
<1>3. CASE NextMoment
  <2>1. PICK present \in SUBSET {s \in Symbols : following[s] # 0} :
          /\ \E bars \in [Symbols -> (UNION {BarsOf(s) : s \in present}) \cup {bar[s] : s \in Symbols}] :
               /\ \A s \in Symbols :
                    IF s \in present
                      THEN bars[s] \in BarsOf(s) /\ bars[s].close \in bars[s].low .. bars[s].high
                      ELSE bars[s] = bar[s]
               /\ Advance(bars)
          /\ \E opens \in [present -> BarPrices \cup {0}] :
               following' = [s \in Symbols |-> IF s \in present THEN opens[s] ELSE following[s]]
    BY <1>3 DEF NextMoment
  <2>2. PICK bars \in [Symbols -> (UNION {BarsOf(s) : s \in present}) \cup {bar[s] : s \in Symbols}] :
          /\ \A s \in Symbols :
               IF s \in present
                 THEN bars[s] \in BarsOf(s) /\ bars[s].close \in bars[s].low .. bars[s].high
                 ELSE bars[s] = bar[s]
          /\ Advance(bars)
    BY <2>1
  <2>3. moment' = moment + 1 /\ mark' = 1 /\ UNCHANGED <<row, bookedCash, stopsRefused>>
    BY <1>3 DEF NextMoment
  <2>4. moment \in Nat /\ moment' \in Nat /\ moment' > moment /\ moment' >= moment
    BY <1>1, <2>3 DEF SimTypes
  <2>5. ASSUME NEW s \in Symbols
        PROVE  /\ bars[s] \in SimBars
               /\ bars[s] = bar[s] \/ (bars[s].at = moment' /\ bars[s].open \in BarPrices)
    <3>1. CASE s \in present
      <4>1. following[s] \in BarPrices /\ BarPrices \subseteq Nat
        BY <1>1, <2>1, <3>1, SimConstants DEF SimTypes
      <4>2. PICK l \in BarPrices, h \in BarPrices, c \in BarPrices :
              bars[s] = [at |-> moment + 1, open |-> following[s], low |-> l, high |-> h, close |-> c]
        BY <2>2, <3>1 DEF BarsOf
      <4>3. l \in Nat /\ h \in Nat /\ c \in Nat /\ following[s] \in Nat /\ moment + 1 \in Nat
        <5>1. l \in Nat /\ h \in Nat /\ c \in Nat /\ following[s] \in Nat
          BY <4>1
        <5> QED BY <2>4, <5>1
      <4>4. bars[s] \in SimBars
        BY <4>2, <4>3 DEF SimBars
      <4>5. bars[s].at = moment' /\ bars[s].open = following[s]
        BY <2>3, <4>2
      <4> QED BY <4>1, <4>4, <4>5
    <3>2. CASE s \notin present
      BY <1>1, <2>2, <3>2 DEF SimTypes, SimBars
    <3> QED BY <3>1, <3>2
  <2>6. BarsEntered(bars)
    <3>1. bars \in [Symbols -> SimBars]
      BY <2>2, <2>5
    <3> QED BY <2>4, <2>5, <3>1 DEF BarsEntered
  <2>7. following' \in [Symbols -> BarPrices \cup {0}]
    BY <1>1, <2>1 DEF SimTypes
  <2>8. mark' \in 1 .. Len(Marks)
    BY <2>3 DEF Marks
  <2> QED BY <2>2, <2>3, <2>6, <2>7, <2>8, AdvanceKeeps
<1> QED BY <1>2, <1>3

(* The parts of the invariant that only say what the exchange and the books *)
(* hold, when neither a bar nor a fill of a stop comes in.                  *)
Within == UNCHANGED <<moment, mark, bar, following, checked, stopsRefused, tooEarly>>

LEMMA SameBars == ASSUME SimInv, Within PROVE BarsChecked' /\ ~tooEarly'
BY DEF SimInv, Within, BarsChecked

LEMMA TurnsKeep ==
  ASSUME SimInv, CycleClosed \/ EndExits \/ EndEntries
  PROVE  SimInv'
<1>1. /\ SimTypes /\ BarsChecked /\ StopsGuard /\ FillsPend /\ CashIsOwed /\ BookedFirst
      /\ simCash >= 0 /\ ~tooEarly
  BY DEF SimInv
<1>2. /\ UNCHANGED <<moment, mark, bar, following, checked, simCash, holding, simStop,
                     executedStops, row, bookedCash, stopsRefused, tooEarly>>
      /\ simStep' \in {"done", "entries"}
  BY DEF CycleClosed, EndExits, EndEntries
<1>3. SimTypes'
  BY <1>1, <1>2 DEF SimTypes
<1>4. BarsChecked' /\ StopsGuard' /\ FillsPend'
  BY <1>1, <1>2 DEF BarsChecked, StopsGuard, FillsPend
<1>5. CashIsOwed'
  BY <1>1, <1>2 DEF CashIsOwed, OwedFor
<1>6. BookedFirst'
  <2>1. CASE CycleClosed
    BY <2>1 DEF CycleClosed, BookedFirst, InLeadSession
  <2>2. CASE EndExits \/ EndEntries
    BY <1>1, <2>2 DEF EndExits, EndEntries, BookedFirst, NothingPends
  <2> QED BY <2>1, <2>2
<1> QED BY <1>1, <1>2, <1>3, <1>4, <1>5, <1>6 DEF SimInv

LEMMA BookStopsKeeps == ASSUME SimInv, BookStops PROVE SimInv'
<1>1. /\ SimTypes /\ StopsGuard /\ FillsPend /\ CashIsOwed /\ simCash >= 0
  BY DEF SimInv
<1> DEFINE booked == {s \in Symbols : executedStops[s] # NoFill /\ ~row[s].local}
           took == [s \in booked |-> executedStops[s].lots * executedStops[s].price
                     - Fee(executedStops[s].lots * executedStops[s].price)]
<1>2. /\ row' = [s \in Symbols |-> IF s \in booked THEN NoRowHere ELSE row[s]]
      /\ executedStops' = [s \in Symbols |-> IF s \in booked THEN NoFill ELSE executedStops[s]]
      /\ bookedCash' = bookedCash + Total(took)
      /\ simStep' = "exits"
      /\ UNCHANGED <<moment, mark, bar, following, checked, simCash, holding, simStop,
                     stopsRefused, tooEarly>>
  BY DEF BookStops, Total
<1>3. \A s \in Symbols : s \in booked <=> executedStops[s] # NoFill
  BY <1>1 DEF FillsPend
<1>4. \A s \in booked : s \in Symbols
  OBVIOUS
<1>5. \A s \in booked : took[s] = OwedFor(executedStops)[s]
  BY DEF OwedFor, Proceeds
<1>6. DOMAIN took = booked /\ took = [s \in booked |-> took[s]]
  OBVIOUS
<1> HIDE DEF booked, took
<1>7. \A s \in Symbols : executedStops'[s] = NoFill
  BY <1>2, <1>3
<1>8. executedStops' \in [Symbols -> SimFills]
  BY <1>1, <1>2 DEF SimTypes, SimFills, NoFill
<1>9. executedStops' = [s \in Symbols |-> NoFill]
  BY <1>7, <1>8
<1>10. row' \in [Symbols -> SimRows]
  BY <1>1, <1>2 DEF SimTypes, SimRows, NoRowHere
<1>11. CashIsOwed' /\ bookedCash' \in Int
  <2> DEFINE before == OwedFor(executedStops)
             none == OwedFor(executedStops')
  <2>1. Numbers(before) /\ DOMAIN before = Symbols
    BY <1>1, OwedNumbers DEF SimTypes
  <2>2. Numbers(none) /\ DOMAIN none = Symbols /\ Total(none) = 0
    BY <1>7, <1>8, OwedNumbers, NothingOwed DEF SimFills
  <2>3. Numbers(took) /\ DOMAIN took \subseteq Symbols
    <3>1. booked \subseteq Symbols
      BY <1>4
    <3>2. \A s \in booked : before[s] \in Int
      BY <2>1, <3>1 DEF Numbers
    <3>3. took \in [booked -> Int]
      BY <1>5, <1>6, <3>2
    <3> QED BY <1>6, <3>1, <3>3, SimConstants, FS_Subset DEF Numbers
  <2>4. \A s \in Symbols : before[s] = none[s] + (IF s \in DOMAIN took THEN took[s] ELSE 0)
    <3> SUFFICES ASSUME NEW s \in Symbols
                 PROVE  before[s] = none[s] + (IF s \in booked THEN took[s] ELSE 0)
      BY <1>6
    <3>1. none[s] = 0 /\ before[s] \in Int
      BY <1>7, <2>1 DEF OwedFor, Numbers
    <3>2. s \notin booked => before[s] = 0
      BY <1>3 DEF OwedFor
    <3>3. s \in booked => took[s] = before[s]
      BY <1>5
    <3> HIDE DEF before, none
    <3> QED BY <3>1, <3>2, <3>3
  <2>5. Total(before) = Total(none) + Total(took)
    <3> HIDE DEF before, none
    <3> QED BY <2>1, <2>2, <2>3, <2>4, TotalOfBoth
  <2>6. Total(took) \in Int /\ simCash = bookedCash + Total(before)
    BY <1>1, <2>3, TotalIsInt DEF CashIsOwed, Total
  <2>7. bookedCash \in Int /\ simCash' = simCash
    BY <1>1, <1>2 DEF SimTypes
  <2>8. simCash' = bookedCash' + Total(none) /\ bookedCash' \in Int
    <3> HIDE DEF before, none
    <3> QED BY <1>2, <2>2, <2>5, <2>6, <2>7
  <2> QED BY <2>8 DEF CashIsOwed, Total
<1>12. SimTypes'
  <2>1. simCash' \in Int /\ simStep' \in {"done", "stops", "exits", "entries"}
    BY <1>1, <1>2 DEF SimTypes
  <2> QED BY <1>1, <1>2, <1>8, <1>10, <1>11, <2>1 DEF SimTypes, SimFills, SimRows
<1>13. BarsChecked' /\ ~tooEarly'
  BY <1>2, SameBars DEF Within
<1>14. StopsGuard'
  <2> SUFFICES ASSUME NEW s \in Symbols, simStop[s].st = "ACTIVE"
               PROVE  /\ row'[s].lots = simStop[s].lots /\ row'[s].lots > 0 /\ ~row'[s].local
                      /\ simStop[s].placedIn <= moment /\ simStop[s].level >= FeeMin
    BY <1>2, <1>7 DEF StopsGuard
  <2>1. s \notin booked
    BY <1>1, <1>3 DEF StopsGuard
  <2>2. row'[s] = row[s]
    BY <1>2, <2>1
  <2> QED BY <1>1, <2>2 DEF StopsGuard
<1>15. FillsPend'
  <2> SUFFICES ASSUME NEW s \in Symbols PROVE holding[s] = row'[s].lots
    BY <1>2, <1>7 DEF FillsPend
  <2>1. CASE s \in booked
    BY <1>1, <1>2, <1>3, <2>1 DEF FillsPend, NoRowHere
  <2>2. CASE s \notin booked
    BY <1>1, <1>2, <1>3, <2>2 DEF FillsPend
  <2> QED BY <2>1, <2>2
<1>16. BookedFirst'
  BY <1>9 DEF BookedFirst, NothingPends
<1> QED BY <1>1, <1>2, <1>11, <1>12, <1>13, <1>14, <1>15, <1>16 DEF SimInv

(* Nothing pends while exits and entries are decided, so the cash is that   *)
(* of the books, and stays it when both move by the same amount.            *)
LEMMA CashTogether ==
  ASSUME SimInv, NothingPends, NEW d \in Int, simCash' = simCash + d,
         bookedCash' = bookedCash + d, UNCHANGED executedStops
  PROVE  CashIsOwed' /\ simCash' \in Int /\ bookedCash' \in Int
<1>1. /\ simCash \in Int /\ bookedCash \in Int
      /\ executedStops \in [Symbols -> [lots : Nat, price : Nat]]
  BY DEF SimInv, SimTypes
<1>2. Total(OwedFor(executedStops)) = 0
  BY <1>1, NothingOwed DEF NothingPends
<1>3. simCash = bookedCash + Total(OwedFor(executedStops))
  BY DEF SimInv, CashIsOwed, Total
<1>4. simCash' = bookedCash' + Total(OwedFor(executedStops))
  BY <1>1, <1>2, <1>3
<1> QED BY <1>1, <1>4 DEF CashIsOwed, OwedFor, Total

LEMMA SellKeeps ==
  ASSUME FeesAreCovered, SimInv, NEW s \in Symbols, NEW days, Sell(s, days)
  PROVE  SimInv'
<1>1. /\ SimTypes /\ StopsGuard /\ FillsPend /\ BookedFirst /\ simCash >= 0
  BY DEF SimInv
<1> DEFINE price == SlippedSell(following[s])
           took == row[s].lots * price - Fee(row[s].lots * price)
<1>2. /\ simStep = "exits" /\ row[s].lots > 0
      /\ simStop' = [simStop EXCEPT ![s] = IF row[s].local THEN @ ELSE Cancelled(@)]
      /\ UNCHANGED <<moment, mark, bar, following, checked, executedStops,
                     stopsRefused, simStep, tooEarly>>
      /\ \/ /\ following[s] = 0 /\ ~row[s].local
            /\ row' = [row EXCEPT ![s].local = TRUE]
            /\ UNCHANGED <<simCash, holding, bookedCash>>
         \/ /\ following[s] # 0
            /\ row' = [row EXCEPT ![s] = NoRowHere]
            /\ holding' = [holding EXCEPT ![s] = Max({0, @ - row[s].lots})]
            /\ simCash' = simCash + took /\ bookedCash' = bookedCash + took
  BY DEF Sell
<1>3. NothingPends /\ \A t \in Symbols : executedStops[t] = NoFill /\ holding[t] = row[t].lots
  BY <1>1, <1>2 DEF BookedFirst, NothingPends, FillsPend
<1>4. following[s] # 0 => took \in Nat
  <2> SUFFICES ASSUME following[s] # 0 PROVE took \in Nat
    OBVIOUS
  <2>1. following[s] \in BarPrices /\ row[s].lots \in Nat
    BY <1>1 DEF SimTypes
  <2>2. price \in Int /\ price >= FeeMin
    <3>1. following[s] \in Nat /\ FeeMin <= following[s] * (100 - SlippagePct)
      BY <2>1, SimConstants DEF FeesAreCovered
    <3>2. SlippagePct \in Nat /\ FeeMin \in Nat
      BY SimConstants
    <3>3. price = following[s] * (100 - SlippagePct) /\ price \in Int
      BY <3>1, <3>2 DEF SlippedSell
    <3> HIDE DEF price
    <3> QED BY <3>1, <3>2, <3>3
  <2>3. took = Proceeds(row[s].lots, price)
    BY DEF Proceeds
  <2> HIDE DEF price, took
  <2> QED BY <1>2, <2>1, <2>2, <2>3, SalePays
<1> HIDE DEF price, took
<1>5. CashIsOwed' /\ simCash' \in Int /\ bookedCash' \in Int /\ simCash' >= 0
  <2>0. simCash \in Int /\ bookedCash \in Int
    BY <1>1 DEF SimTypes
  <2>1. CASE following[s] = 0
    <3>1. simCash' = simCash + 0 /\ bookedCash' = bookedCash + 0 /\ 0 \in Int
      BY <1>2, <2>0, <2>1
    <3> QED BY <1>1, <1>2, <1>3, <2>0, <3>1, CashTogether
  <2>2. CASE following[s] # 0
    <3>1. took \in Int /\ took >= 0
      BY <1>4, <2>2
    <3>2. simCash' = simCash + took /\ bookedCash' = bookedCash + took
      BY <1>2, <2>2
    <3>3. CashIsOwed' /\ simCash' \in Int /\ bookedCash' \in Int
      BY <1>2, <1>3, <3>1, <3>2, CashTogether
    <3> QED BY <1>1, <2>0, <3>1, <3>2, <3>3
  <2> QED BY <2>1, <2>2
<1>6. /\ row' \in [Symbols -> SimRows]
      /\ \A t \in Symbols : t # s => row'[t] = row[t]
      /\ following[s] = 0 => row'[s].lots = row[s].lots
      /\ following[s] # 0 => row'[s].lots = 0
  <2>1. row \in [Symbols -> SimRows]
    BY <1>1 DEF SimTypes, SimRows
  <2>2. [row[s] EXCEPT !.local = TRUE] \in SimRows /\ [row[s] EXCEPT !.local = TRUE].lots = row[s].lots
    BY <2>1 DEF SimRows
  <2>3. NoRowHere \in SimRows /\ NoRowHere.lots = 0
    BY DEF SimRows, NoRowHere
  <2>4. \/ following[s] = 0 /\ row' = [row EXCEPT ![s] = [row[s] EXCEPT !.local = TRUE]]
        \/ following[s] # 0 /\ row' = [row EXCEPT ![s] = NoRowHere]
    BY <1>2
  <2> QED BY <2>1, <2>2, <2>3, <2>4
<1>7. /\ simStop' \in [Symbols -> SimStops]
      /\ \A t \in Symbols : t # s => simStop'[t] = simStop[t]
      /\ simStop'[s].st # "ACTIVE"
  <2>1. simStop \in [Symbols -> SimStops]
    BY <1>1 DEF SimTypes, SimStops
  <2>2. simStop'[s] = IF row[s].local THEN simStop[s] ELSE Cancelled(simStop[s])
    BY <1>2, <2>1
  <2>3. Cancelled(simStop[s]) \in SimStops /\ Cancelled(simStop[s]).st = "CANCELLED"
    BY <2>1 DEF Cancelled, SimStops
  <2>4. row[s].local => simStop[s].st # "ACTIVE"
    BY <1>1 DEF StopsGuard
  <2> QED BY <1>2, <2>1, <2>2, <2>3, <2>4
<1>8. /\ holding' \in [Symbols -> Nat]
      /\ \A t \in Symbols : holding'[t] = row'[t].lots
  <2>0. holding \in [Symbols -> Nat]
    BY <1>1 DEF SimTypes
  <2>1. CASE following[s] = 0
    BY <1>2, <1>3, <1>6, <2>0, <2>1
  <2>2. CASE following[s] # 0
    <3>1. holding[s] - row[s].lots = 0
      BY <1>3, <2>0
    <3>2. Max({0, holding[s] - row[s].lots}) = 0
      BY <3>1, MaxWithZero
    <3>3. holding' = [holding EXCEPT ![s] = 0]
      BY <1>2, <2>2, <3>2
    <3> QED BY <1>3, <1>6, <2>0, <2>2, <3>3
  <2> QED BY <2>1, <2>2
<1>9. SimTypes'
  BY <1>1, <1>2, <1>5, <1>6, <1>7, <1>8 DEF SimTypes, SimRows, SimStops
<1>10. BarsChecked' /\ ~tooEarly'
  BY <1>2, SameBars DEF Within
<1>11. StopsGuard'
  <2> SUFFICES ASSUME NEW t \in Symbols, simStop'[t].st = "ACTIVE"
               PROVE  /\ row'[t].lots = simStop'[t].lots /\ row'[t].lots > 0 /\ ~row'[t].local
                      /\ executedStops[t] = NoFill
                      /\ simStop'[t].placedIn <= moment /\ simStop'[t].level >= FeeMin
    BY <1>2 DEF StopsGuard
  <2>1. row'[t] = row[t] /\ simStop'[t] = simStop[t]
    BY <1>6, <1>7
  <2> QED BY <1>1, <2>1 DEF StopsGuard
<1>12. FillsPend' /\ BookedFirst'
  BY <1>2, <1>3, <1>8 DEF FillsPend, BookedFirst, NothingPends
<1> QED BY <1>5, <1>9, <1>10, <1>11, <1>12 DEF SimInv

LEMMA PurchaseKeeps ==
  ASSUME SimInv, NEW s \in Symbols, NEW lots \in 1 .. MaxLots, Purchase(s, lots)
  PROVE  SimInv'
<1>1. /\ SimTypes /\ BarsChecked /\ StopsGuard /\ FillsPend /\ BookedFirst /\ simCash >= 0
  BY DEF SimInv
<1> DEFINE price == SlippedBuy(following[s])
           paid == lots * price + Fee(lots * price)
           level == StopLevel(price, StopPct) \div 100
           stop == [st |-> "ACTIVE", lots |-> lots, level |-> level, placedIn |-> bar[s].at]
<1>2. /\ simStep = "entries" /\ bar[s] # NoBar /\ row[s].lots = 0
      /\ following[s] # 0 /\ paid <= simCash
      /\ simCash' = simCash - paid /\ bookedCash' = bookedCash - paid
      /\ holding' = [holding EXCEPT ![s] = @ + lots]
      /\ row' = [row EXCEPT ![s] = [lots |-> lots, entry |-> price, local |-> stopsRefused]]
      /\ simStop' = [simStop EXCEPT ![s] = IF stopsRefused THEN @ ELSE stop]
      /\ UNCHANGED <<moment, mark, bar, following, checked, executedStops,
                     stopsRefused, simStep, tooEarly>>
  BY DEF Purchase, Costs
<1>3. NothingPends /\ \A t \in Symbols : executedStops[t] = NoFill /\ holding[t] = row[t].lots
  BY <1>1, <1>2 DEF BookedFirst, NothingPends, FillsPend
<1>4. lots \in Nat /\ lots > 0 /\ following[s] \in Nat /\ following[s] \in BarPrices
  <2>1. following[s] \in BarPrices /\ BarPrices \subseteq Nat
    BY <1>1, <1>2, SimConstants DEF SimTypes
  <2>2. lots \in Nat /\ lots > 0
    BY SimConstants
  <2> QED BY <2>1, <2>2
<1>5. price \in Nat
  BY <1>4, SimConstants DEF SlippedBuy
<1>6. paid \in Nat
  <2> DEFINE t == lots * price
  <2>1. t \in Nat
    <3> HIDE DEF price
    <3> QED BY <1>4, <1>5
  <2> HIDE DEF t
  <2>2. Fee(t) \in Nat
    BY <2>1, FeeIs
  <2> QED BY <2>1, <2>2 DEF t
<1>7. level \in Nat /\ level >= FeeMin
  <2> DEFINE p == following[s]
             f == p * (100 - StopPct)
             m == price * (100 - StopPct)
  <2>1. p \in Nat /\ f >= FeeMin /\ 100 - StopPct \in Nat /\ FeeMin \in Nat /\ SlippagePct \in Nat
    BY <1>4, SimConstants
  <2>2. price = p * (100 + SlippagePct)
    BY DEF SlippedBuy
  <2> HIDE DEF p, price
  <2>3. f \in Nat /\ m \in Nat
    BY <1>5, <2>1
  <2>4. m = (100 + SlippagePct) * f
    BY <2>1, <2>2
  <2>5. level = m \div 100
    BY DEF StopLevel
  <2> HIDE DEF f, m, level
  <2>6. 100 * f <= (100 + SlippagePct) * f
    BY <2>1, <2>3, ProductGrows
  <2>7. level \in Int /\ level * 100 <= m /\ m < level * 100 + 100
    BY <2>3, <2>5, DivisionBounds
  <2> QED BY <2>1, <2>3, <2>4, <2>6, <2>7
<1> HIDE DEF price, paid, level
<1>8. stop \in SimStops /\ bar[s].at <= moment /\ bar[s].at \in Nat
  BY <1>1, <1>2, <1>4, <1>7 DEF SimStops, SimTypes, BarsChecked
<1>9. CashIsOwed' /\ simCash' \in Int /\ bookedCash' \in Int /\ simCash' >= 0
  <2> DEFINE d == 0 - paid
  <2>1. d \in Int /\ simCash' = simCash + d /\ bookedCash' = bookedCash + d /\ simCash' >= 0
    BY <1>1, <1>2, <1>6 DEF SimTypes
  <2> HIDE DEF d
  <2> QED BY <1>2, <1>3, <2>1, CashTogether
<1>10. /\ row' \in [Symbols -> SimRows]
       /\ \A t \in Symbols : t # s => row'[t] = row[t]
       /\ row'[s] = [lots |-> lots, entry |-> price, local |-> stopsRefused]
  <2>1. row \in [Symbols -> SimRows] /\ stopsRefused \in BOOLEAN
    BY <1>1 DEF SimTypes, SimRows
  <2> QED BY <1>2, <1>4, <1>5, <2>1 DEF SimRows
<1>11. /\ simStop' \in [Symbols -> SimStops]
       /\ \A t \in Symbols : t # s => simStop'[t] = simStop[t]
       /\ simStop'[s] = IF stopsRefused THEN simStop[s] ELSE stop
  <2>1. simStop \in [Symbols -> SimStops]
    BY <1>1 DEF SimTypes, SimStops
  <2> HIDE DEF stop
  <2> QED BY <1>2, <1>8, <2>1
<1>12. /\ holding' \in [Symbols -> Nat]
       /\ \A t \in Symbols : holding'[t] = row'[t].lots
  <2>1. holding \in [Symbols -> Nat]
    BY <1>1 DEF SimTypes
  <2>2. holding[s] + lots = lots
    BY <1>2, <1>3, <1>4
  <2>3. holding' = [holding EXCEPT ![s] = lots]
    BY <1>2, <2>1, <2>2
  <2> QED BY <1>3, <1>4, <1>10, <2>1, <2>3
<1>13. SimTypes'
  BY <1>1, <1>2, <1>9, <1>10, <1>11, <1>12 DEF SimTypes, SimRows, SimStops
<1>14. BarsChecked' /\ ~tooEarly'
  BY <1>2, SameBars DEF Within
<1>15. StopsGuard'
  <2> SUFFICES ASSUME NEW t \in Symbols, simStop'[t].st = "ACTIVE"
               PROVE  /\ row'[t].lots = simStop'[t].lots /\ row'[t].lots > 0 /\ ~row'[t].local
                      /\ executedStops[t] = NoFill
                      /\ simStop'[t].placedIn <= moment /\ simStop'[t].level >= FeeMin
    BY <1>2 DEF StopsGuard
  <2>1. CASE t # s
    <3>1. row'[t] = row[t] /\ simStop'[t] = simStop[t]
      BY <1>10, <1>11, <2>1
    <3> QED BY <1>1, <3>1 DEF StopsGuard
  <2>2. CASE t = s
    <3>1. ~stopsRefused
      <4> SUFFICES ASSUME stopsRefused PROVE FALSE
        OBVIOUS
      <4>1. simStop[s].st = "ACTIVE"
        BY <1>11, <2>2
      <4>2. row[s].lots > 0
        BY <1>1, <4>1 DEF StopsGuard
      <4> QED BY <1>2, <4>2
    <3>2. simStop'[s] = stop
      BY <1>11, <3>1
    <3> QED BY <1>3, <1>4, <1>7, <1>8, <1>10, <2>2, <3>1, <3>2
  <2> QED BY <2>1, <2>2
<1>16. FillsPend' /\ BookedFirst'
  BY <1>2, <1>3, <1>12 DEF FillsPend, BookedFirst, NothingPends
<1> QED BY <1>9, <1>13, <1>14, <1>15, <1>16 DEF SimInv

LEMMA SimStep == FeesAreCovered /\ SimInv /\ [SimNext]_simVars => SimInv'
<1> SUFFICES ASSUME FeesAreCovered, SimInv, [SimNext]_simVars PROVE SimInv'
  OBVIOUS
<1>1. CASE NextMoment \/ NextMark
  BY <1>1, MomentsKeep
<1>2. CASE CycleClosed \/ EndExits \/ EndEntries
  BY <1>2, TurnsKeep
<1>3. CASE BookStops
  BY <1>3, BookStopsKeeps
<1>4. ASSUME NEW s \in Symbols, NEW days \in {Unmeasured, 0}, Sell(s, days) PROVE SimInv'
  BY <1>4, SellKeeps
<1>5. ASSUME NEW s \in Symbols, NEW lots \in 1 .. MaxLots, Purchase(s, lots) PROVE SimInv'
  BY <1>5, PurchaseKeeps
<1>6. CASE UNCHANGED simVars
  BY <1>6 DEF simVars, SimInv, SimTypes, BarsChecked, StopsGuard, FillsPend, CashIsOwed,
              OwedFor, BookedFirst, NothingPends, InLeadSession
<1> QED BY <1>1, <1>2, <1>3, <1>4, <1>5, <1>6 DEF SimNext

(* After each cycle of a session the simulated cash is that of the fills    *)
(* the bot booked and its shares are those of its positions, the account    *)
(* is never overdrawn, and no stop is filled on a bar it was placed in, for *)
(* every set of tickers and every history, where a commission takes no      *)
(* more than a sale brings in.                                              *)
THEOREM SimulationKeepsBooks ==
  ASSUME FeesAreCovered
  PROVE  SimSpec => []SimulationMatchesBooks
<1>1. SimInit => SimInv
  BY SimStarts
<1>2. SimInv /\ [SimNext]_simVars => SimInv'
  BY SimStep
<1>3. SimInv => SimulationMatchesBooks
  <2> SUFFICES ASSUME SimInv PROVE SimulationMatchesBooks
    OBVIOUS
  <2>1. simCash >= 0 /\ ~tooEarly
    BY DEF SimInv
  <2>2. ASSUME simStep = "done", InLeadSession
        PROVE  simCash = bookedCash /\ \A s \in Symbols : holding[s] = row[s].lots
    <3>1. NothingPends
      BY <2>2 DEF SimInv, BookedFirst
    <3>2. Total(OwedFor(executedStops)) = 0
      BY <3>1, NothingOwed DEF NothingPends, SimInv, SimTypes
    <3>3. simCash = bookedCash + Total(OwedFor(executedStops)) /\ bookedCash \in Int
      BY DEF SimInv, SimTypes, CashIsOwed, Total
    <3>4. \A s \in Symbols : holding[s] = row[s].lots
      BY <3>1 DEF NothingPends, SimInv, FillsPend
    <3> QED BY <3>2, <3>3, <3>4
  <2> QED BY <2>1, <2>2 DEF SimulationMatchesBooks
<1> QED BY <1>1, <1>2, <1>3, PTL DEF SimSpec
=============================================================================
