------------------------------- MODULE Quotes -------------------------------
(***************************************************************************)
(* The last price of one instrument (broker/client.py, get_last_price).    *)
(* The trading cycle and the owner's commands ask beside each other; an    *)
(* answer is judged when its task resumes, which may be after another's.   *)
(* It is refused when it is not positive, not dated, too old, or too far   *)
(* from the last price accepted, and only an accepted one becomes that.    *)
(***************************************************************************)
EXTENDS Integers, FiniteSets

CONSTANTS
  Askers,        \* tasks that ask for the price
  Prices,        \* what a share may cost
  MaxMovePct,    \* price_max_move_pct
  MaxQuoteAge,   \* price_max_age_seconds, in ticks
  LastTick       \* ticks of a behaviour

ASSUME QuoteBounds ==
  Prices \subseteq Nat \ {0} /\ {MaxMovePct, MaxQuoteAge, LastTick} \subseteq Nat

VARIABLES
  tick,        \* the time
  asked,       \* the quote each task holds, NotAsked or Awaited
  accepted,    \* _last_accepted of the instrument, NoPrice at first
  acceptedAt   \* when that was quoted

quoteVars == <<tick, asked, accepted, acceptedAt>>

NoPrice == 0
NotAsked == [price |-> NoPrice, at |-> -1]
Awaited == [price |-> NoPrice, at |-> -2]
Undated == -3     \* no timestamp, or one without a zone

QuoteInit ==
  /\ tick = 0
  /\ asked = [t \in Askers |-> NotAsked]
  /\ accepted = NoPrice /\ acceptedAt = 0

AskPrice(t) ==
  /\ asked[t] = NotAsked
  /\ asked' = [asked EXCEPT ![t] = Awaited]
  /\ UNCHANGED <<tick, accepted, acceptedAt>>

(* The broker answers: a price of this moment or of an earlier one, or      *)
(* something that is no price.                                              *)
Quoted(t, price, at) ==
  /\ asked[t] = Awaited
  /\ asked' = [asked EXCEPT ![t] = [price |-> price, at |-> at]]
  /\ UNCHANGED <<tick, accepted, acceptedAt>>

QuoteLost(t) ==
  /\ asked[t] = Awaited
  /\ asked' = [asked EXCEPT ![t] = NotAsked]
  /\ UNCHANGED <<tick, accepted, acceptedAt>>

Distance(p, q) == IF p > q THEN p - q ELSE q - p

(* _reject_quote *)
Plausible(quote) ==
  /\ quote.price > 0
  /\ quote.at # Undated /\ tick - quote.at <= MaxQuoteAge
  /\ accepted # NoPrice => 100 * Distance(quote.price, accepted) <= MaxMovePct * accepted

(* Mutant: what was refused is remembered all the same. *)
JudgedRemembering(t) ==
  /\ asked[t].at \notin {NotAsked.at, Awaited.at}
  /\ asked' = [asked EXCEPT ![t] = NotAsked]
  /\ accepted' = asked[t].price /\ acceptedAt' = asked[t].at
  /\ UNCHANGED tick

(* The task resumes, judges and remembers without a pause. *)
Judged(t) ==
  /\ asked[t].at \notin {NotAsked.at, Awaited.at}
  /\ asked' = [asked EXCEPT ![t] = NotAsked]
  /\ IF Plausible(asked[t])
       THEN accepted' = asked[t].price /\ acceptedAt' = asked[t].at
       ELSE UNCHANGED <<accepted, acceptedAt>>
  /\ UNCHANGED tick

QuoteTick ==
  /\ tick < LastTick /\ tick' = tick + 1
  /\ UNCHANGED <<asked, accepted, acceptedAt>>

QuoteNext ==
  \/ \E t \in Askers :
       \/ AskPrice(t) \/ QuoteLost(t) \/ Judged(t)
       \/ \E price \in Prices \cup {0}, at \in {Undated} \cup (0 .. tick) : Quoted(t, price, at)
  \/ QuoteTick

QuoteSpec == QuoteInit /\ [][QuoteNext]_quoteVars

-----------------------------------------------------------------------------
(* Whatever two tasks are told and in whatever order they resume, prices    *)
(* that come into use one after the other lie within price_max_move_pct,    *)
(* and none was older than price_max_age_seconds when it came into use: one *)
(* spike of the feed can trigger no exit.                                   *)
AcceptedMovesAreBounded ==
  [][accepted' # accepted =>
       /\ accepted' > 0 /\ acceptedAt' \in (tick - MaxQuoteAge) .. tick
       /\ accepted # NoPrice =>
            100 * Distance(accepted', accepted) <= MaxMovePct * accepted]_quoteVars
=============================================================================
