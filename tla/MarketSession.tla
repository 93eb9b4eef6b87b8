--------------------------- MODULE MarketSession ---------------------------
(***************************************************************************)
(* The session guard (market/session.py): the cached window of the         *)
(* broker's schedule, the days written down in trading_days, and what      *)
(* other parts ask of them: whether the market is open, whether the        *)
(* calendar ran out, and a position's age in trading days (clock.py).      *)
(* The broker serves `Window` days from today on and nothing earlier.      *)
(***************************************************************************)
EXTENDS Integers, FiniteSets, FiniteSetsExt

CONSTANTS
  LastSessionDay,  \* the days of a behaviour are 0 .. LastSessionDay
  TradingDays,     \* those on which the exchange trades
  Window           \* days one answer of the broker covers (fourteen)

ASSUME SessionBounds ==
  /\ LastSessionDay \in Nat /\ Window \in Nat \ {0}
  /\ TradingDays \subseteq 0..LastSessionDay

VARIABLES
  today, slot,     \* the Moscow day, and before / in / after its session
  fetchedOn,       \* the day of the answer in _cache, or Unknown
  recorded,        \* trading_days: the days written down
  known,           \* _history: what the last successful write reloaded
  sessionAlerted,  \* _alerted
  lastRecordedOn,  \* the day of the last window written down
  gapped           \* two windows written down left days between them

sessionVars == <<today, slot, fetchedOn, recorded, known, sessionAlerted,
                 lastRecordedOn, gapped>>

SessionDays == 0..LastSessionDay
Unknown == -1
Before == 0
During == 1
After == 2

WindowFrom(day) == IF day = Unknown THEN {} ELSE (day .. day + Window - 1) \cap SessionDays

SessionInit ==
  /\ today = 0 /\ slot = Before
  /\ fetchedOn = Unknown /\ known = {} /\ recorded = {}
  /\ sessionAlerted = FALSE
  /\ lastRecordedOn = Unknown /\ gapped = FALSE

-----------------------------------------------------------------------------
(* is_open: within a trading session of the cached window. *)
IsOpen == slot = During /\ today \in TradingDays \cap WindowFrom(fetchedOn)

(* cache_exhausted: no cache, or its last session has ended. *)
CacheExhausted ==
  LET sessions == TradingDays \cap WindowFrom(fetchedOn) IN
  \/ sessions = {}
  \/ today > Max(sessions)
  \/ today = Max(sessions) /\ slot = After

(* Mutant: only the live window. *)
CalendarWithoutHistory == WindowFrom(fetchedOn)

(* calendar: what is remembered and the live window, a day once. *)
Calendar == known \cup WindowFrom(fetchedOn)

(* covers: does the record reach back to the day? *)
Covers(day) == known # {} /\ day >= Min(known)

(* trading_days_between, as the calendar at hand counts it. *)
Age(entry) == Cardinality({d \in (entry + 1)..today : d \in TradingDays \cap Calendar})

(* As the exchange counts it. *)
TrueAge(entry) == Cardinality({d \in (entry + 1)..today : d \in TradingDays})

-----------------------------------------------------------------------------
(* refresh *)

(* No answer, or one without a trading session: told once, the cache stays. *)
RefreshUnavailable ==
  /\ sessionAlerted' = TRUE
  /\ UNCHANGED <<today, slot, fetchedOn, recorded, known, lastRecordedOn, gapped>>

(* An answer: cached, the incident over, and written down with _remember.   *)
(* A lost write keeps what was known, and so does a write after which the   *)
(* days cannot be read back (the two reads fail together here).             *)
RefreshAnswered(written, reloaded) ==
  /\ WindowFrom(today) \cap TradingDays # {}
  /\ fetchedOn' = today
  /\ sessionAlerted' = FALSE
  /\ IF written
       THEN /\ recorded' = recorded \cup WindowFrom(today)
            /\ known' = IF reloaded THEN recorded' ELSE known
            /\ gapped' = (gapped \/ (lastRecordedOn # Unknown /\ today > lastRecordedOn + Window))
            /\ lastRecordedOn' = today
       ELSE UNCHANGED <<recorded, known, lastRecordedOn, gapped>>
  /\ UNCHANGED <<today, slot>>

Refresh(outcome) ==
  \/ outcome = "unavailable" /\ RefreshUnavailable
  \/ outcome = "unrecorded" /\ RefreshAnswered(FALSE, FALSE)
  \/ outcome = "unreloaded" /\ RefreshAnswered(TRUE, FALSE)
  \/ outcome = "answered" /\ RefreshAnswered(TRUE, TRUE)
  \/ /\ outcome # "unavailable" /\ WindowFrom(today) \cap TradingDays = {}
     /\ RefreshUnavailable

(* Time passes. *)
SessionTick ==
  /\ IF slot = After
       THEN today < LastSessionDay /\ today' = today + 1 /\ slot' = Before
       ELSE slot' = slot + 1 /\ UNCHANGED today
  /\ UNCHANGED <<fetchedOn, recorded, known, sessionAlerted, lastRecordedOn, gapped>>

(* The process ends: the cache and what was reloaded are gone. *)
ForgetSession ==
  /\ fetchedOn' = Unknown /\ known' = {} /\ sessionAlerted' = FALSE
  /\ UNCHANGED <<today, slot, recorded, lastRecordedOn, gapped>>

-----------------------------------------------------------------------------
(* Properties *)

SessionTypeOK ==
  /\ today \in SessionDays /\ slot \in {Before, During, After}
  /\ fetchedOn \in SessionDays \cup {Unknown}
  /\ known \subseteq recorded /\ recorded \subseteq SessionDays
  /\ sessionAlerted \in BOOLEAN /\ gapped \in BOOLEAN

(* A position's age is what the exchange would count whenever covers() says *)
(* its entry is reached, if the windows written down leave no gap and the   *)
(* one at hand joins what is known: through restarts, outages, lost writes. *)
AgeIsExact ==
  \A entry \in 0..today :
    /\ Covers(entry) /\ ~gapped
    /\ today \in Calendar /\ fetchedOn <= Max(known) + 1
    => Age(entry) = TrueAge(entry)
=============================================================================
