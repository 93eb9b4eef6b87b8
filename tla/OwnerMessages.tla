--------------------------- MODULE OwnerMessages ---------------------------
(***************************************************************************)
(* What reaches the owner: the replies to commands and how a long one is   *)
(* cut (telegram/commands.py), the weekly report and what it leaves out    *)
(* when it is too long (reporter/weekly.py), and the sending of both       *)
(* (telegram/notifier.py).  A text is measured and not spelled: an entry   *)
(* and a section are their lengths, the lines between them included.       *)
(***************************************************************************)
EXTENDS Integers, Sequences, SequencesExt, FiniteSetsExt

CONSTANTS
  MessageLimit,    \* _LIMIT, 4096 characters
  HeaderLength,    \* of the line above the entries or the sections
  NoteLength,      \* of the note that says what was left out
  EntryLengths,    \* what a line of a reply may be long
  SectionLengths,  \* what a section of the report may be long
  MaxListed        \* entries of one reply

ASSUME MessageBounds ==
  /\ {MessageLimit, HeaderLength, NoteLength, MaxListed} \subseteq Nat
  /\ HeaderLength + NoteLength <= MessageLimit
  /\ EntryLengths \cup SectionLengths \subseteq Nat \ {0}
  /\ SectionLengths # {}

VARIABLES
  lines,     \* the entries of a reply: open positions, closed trades, strategies
  report,    \* the length of each section of the weekly report
  sending,   \* the message being sent, or NoMessage
  sent       \* how the last one ended

messageVars == <<lines, report, sending, sent>>

NoMessage == [kind |-> "none", length |-> 0, doomed |-> FALSE, attempt |-> 0]
Attempts == 3    \* _ATTEMPTS, of an alert and of a reply

-----------------------------------------------------------------------------
(* A reply: the header, the first n entries, and a note when some are left. *)
CutAfter(n) ==
  HeaderLength + FoldSeq(+, 0, SubSeq(lines, 1, n))
    + (IF n < Len(lines) THEN NoteLength ELSE 0)

(* Mutant: an entry is weighed without the note that would follow it. *)
FitsWithoutNote(n) ==
  HeaderLength + FoldSeq(+, 0, SubSeq(lines, 1, n)) <= MessageLimit

(* _join_truncated weighs an entry with the note for what would follow it. *)
Fits(n) == CutAfter(n) <= MessageLimit

(* It takes the entries one after another and stops at the first too long.  *)
Listed == Max({n \in 0 .. Len(lines) : \A m \in 1 .. n : Fits(m)})

(* What is still too long is cut off, and the note with it.                 *)
Reply ==
  [length |-> Min({CutAfter(Listed), MessageLimit}),
   listed |-> Listed,
   counted |-> IF CutAfter(Listed) <= MessageLimit THEN Len(lines) - Listed ELSE 0]

(* The report's sections, in their order, and the three that may be left    *)
(* out, the least important first (_DROP_ORDER).                            *)
Sections == {"P&L", "Per-strategy", "Win rate", "Worst trade",
             "Exit-trigger distribution", "Cooldown-blocked signals", "Gapped exits"}
DropOrder == <<"Exit-trigger distribution", "Cooldown-blocked signals", "Worst trade">>

(* _compose, without the first n of DropOrder. *)
Composed(n) ==
  HeaderLength + (IF n > 0 THEN NoteLength ELSE 0)
    + MapThenSumSet(LAMBDA s : report[s], Sections \ {DropOrder[i] : i \in 1 .. n})

(* build: another section is dropped while the text is too long. *)
Dropped ==
  Min({Len(DropOrder)} \cup {n \in 0 .. Len(DropOrder) : Composed(n) <= MessageLimit})

-----------------------------------------------------------------------------
EmptyReport == [s \in Sections |-> Min(SectionLengths)]

MessagesInit ==
  /\ lines = <<>> /\ report = EmptyReport
  /\ sending = NoMessage /\ sent = "nothing"

(* A trade, a position or a strategy more, or what a section says of it.    *)
(* A reply and a report have nothing in common: a behaviour fills one.      *)
MoreToTell ==
  /\ sending = NoMessage
  /\ \/ /\ Len(lines) < MaxListed /\ report = EmptyReport
        /\ \E n \in EntryLengths : lines' = Append(lines, n)
        /\ UNCHANGED report
     \/ /\ lines = <<>>
        /\ \E s \in Sections, n \in SectionLengths : report' = [report EXCEPT ![s] = n]
        /\ UNCHANGED lines
  /\ UNCHANGED <<sending, sent>>

(* Handed over for sending.  Telegram takes no text over its limit, and     *)
(* none at all for a wrong chat or token: such a message is doomed.         *)
HandOver(kind, length, misconfigured) ==
  /\ sending = NoMessage
  /\ sending' = [kind |-> kind, length |-> length, attempt |-> 1,
                 doomed |-> misconfigured \/ length > MessageLimit]
  /\ sent' = "nothing"
  /\ UNCHANGED <<lines, report>>

AnswerCommand(misconfigured) ==
  lines # <<>> /\ HandOver("reply", Reply.length, misconfigured)
SendReport(misconfigured) == HandOver("alert", Composed(Dropped), misconfigured)

Ends(how) == sending' = NoMessage /\ sent' = how /\ UNCHANGED <<lines, report>>

Delivered == sending # NoMessage /\ ~sending.doomed /\ Ends("delivered")

(* A reply is tried again after any TelegramError, an alert only after one  *)
(* of the transport: a BadRequest is none, though it is a NetworkError to   *)
(* the library (_is_transient).                                             *)
WorthAnotherTry == sending.kind = "reply" \/ ~sending.doomed

AttemptFails ==
  /\ sending # NoMessage
  /\ IF sending.attempt < Attempts /\ WorthAnotherTry
       THEN sending' = [sending EXCEPT !.attempt = @ + 1] /\ UNCHANGED <<lines, report, sent>>
       ELSE Ends("logged")

MessagesNext ==
  \/ MoreToTell \/ Delivered \/ AttemptFails
  \/ \E misconfigured \in BOOLEAN : AnswerCommand(misconfigured) \/ SendReport(misconfigured)

MessagesSpec == MessagesInit /\ [][MessagesNext]_messageVars

-----------------------------------------------------------------------------
(* A reply fits one message, and every entry is in it or in the count of    *)
(* those left out, whatever the lengths (_join_truncated): the cut at the   *)
(* limit never takes the note.                                              *)
RepliesAccountForAll ==
  lines # <<>> => /\ Reply.length <= MessageLimit
                  /\ Reply.listed + Reply.counted = Len(lines)

(* A report that cannot be sent was cut as far as it may be: build hands on *)
(* a text over the limit only without all three sections of DropOrder.      *)
LongReportsAreCut ==
  sending.kind = "alert" /\ sending.length > MessageLimit => Dropped = Len(DropOrder)

(* An alert Telegram will never take delays the caller for one attempt      *)
(* only, and no message for more than three (rule 13): alert is awaited in  *)
(* the middle of a trading cycle.                                           *)
DoomedAlertsTriedOnce ==
  /\ sending.attempt <= Attempts
  /\ sending.kind = "alert" /\ sending.doomed => sending.attempt = 1

(* What the owner is sent is whole, or says what it lacks, and costs the    *)
(* cycle that sends it no more than rule 13 allows.                         *)
MessagesAreWhole == RepliesAccountForAll /\ LongReportsAreCut /\ DoomedAlertsTriedOnce

(* "A response exceeding the message limit is truncated": and no other is.  *)
(* The last entries would fit, were the note for them not counted.          *)
OnlyLongRepliesAreCut ==
  Reply.listed < Len(lines) => HeaderLength + FoldSeq(+, 0, lines) > MessageLimit
=============================================================================
