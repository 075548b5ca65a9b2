---------------------------- MODULE ReviewRecord ----------------------------
(* One published review from its commands to its replay, over two          *)
(* connections to one database.  A publication commits its commands on the *)
(* ledger's connection and its verdict on the journal's; when the second   *)
(* fails the first is compensated by hand, and when the process dies it is *)
(* not.  The trade then ends on the ledger's connection and its reviews    *)
(* are replayed on the journal's.  Restarts find whatever was committed,   *)
(* rows of older versions of the program included.                         *)
EXTENDS Naturals

CONSTANTS
  MaxReviews,  \* bound: reviews that reach their publication
  MaxEdits     \* bound: edits of the levels that are under way at once

ASSUME ReviewsAssumption == MaxReviews \in Nat \ {0}
ASSUME EditsAssumption == MaxEdits \in Nat

VARIABLES
  trade,     \* its row, and whether it has a ledger and has exhausted it
  policy,    \* what each review recommends
  base,      \* management_decisions: status of each review's base command
  ext,       \* llm_shadow_manual_actions: status of its extended command
  verdicts,  \* reviews with a decision snapshot and a verdict, one transaction
  humans,    \* reviews with a frozen human decision
  replays,   \* reviews whose counterfactual replay is frozen
  pub,       \* the one publication, holding both locks while it runs
  asking,    \* a human decision between its check and its insert
  ending,    \* what the handler that ended the trade has still to do
  edits,     \* edits between the journal's transaction and the ledger's
  server,    \* "up", or a stage of the start
  recoveryError, \* the start has put a RECOVERY_ERROR on record
  stranded,  \* history: reviews whose publication, or whose edit, ended halfway
  erased,    \* history: reviews whose rows an edit of the levels deleted
  skipped,   \* history: reviews whose replay raised and was skipped
  unreplayed \* history: a handler ended the trade and died before the replays

vars == <<trade, policy, base, ext, verdicts, humans, replays, pub, asking,
          ending, edits, server, recoveryError, stranded, erased, skipped, unreplayed>>

Reviews == 1..MaxReviews
NoReview == 0

Policies == {"HOLD", "CLOSE_25", "EXIT", "TIGHTEN_STOP"}
Extended == {"TIGHTEN_STOP"}
Bases == {"none", "ledger_weighted", "manual_total_override", "legacy_manual_total"}
Statuses == {"none", "pending_execution", "not_required", "superseded", "executed",
             "recommended_not_executed", "publication_failed"}
Endings == {"no", "withdraw", "replay"}
Stages == {"idle", "begun", "registered", "extended", "alone"}

Row == [open : BOOLEAN, tracked : BOOLEAN, exhausted : BOOLEAN, basis : Bases,
        manualExit : BOOLEAN]

Pending(table) == {r \in Reviews : table[r] = "pending_execution"}

\* Mutant: the publication does not keep the ledger's lock.
NeverHeld == TRUE

\* The journal's lock is held through a publication and through a human decision;
\* the ledger's through a publication.
JournalFree == pub.stage = "idle" /\ asking = NoReview
LedgerFree == pub.stage = "idle"

Up == server = "up"

Idle == [stage |-> "idle", review |-> NoReview, pendingBase |-> {}, pendingExt |-> {}]

-----------------------------------------------------------------------------
(* What the process may find when it starts.                               *)

\* A new trade; an exit of an older version that was acknowledged and left the row open
\* or kept the total of its old form; a total entered by hand; a row closed in an older
\* version whose ledger was not, with or without a MANUAL_EXIT of its own; and a trade of
\* the past, which has no ledger.
Found ==
  [open : {TRUE}, tracked : {TRUE}, exhausted : {FALSE}, basis : {"none"}, manualExit : {FALSE}]
    \cup [open : BOOLEAN, tracked : {TRUE}, exhausted : {TRUE}, basis : {"legacy_manual_total"},
          manualExit : {FALSE}]
    \cup [open : {FALSE}, tracked : {TRUE}, exhausted : BOOLEAN,
          basis : {"legacy_manual_total", "manual_total_override"}, manualExit : BOOLEAN]
    \cup [open : {FALSE}, tracked : {FALSE}, exhausted : {FALSE},
          basis : {"legacy_manual_total", "manual_total_override"}, manualExit : {FALSE}]

\* ...with nothing published, or one review whose command is settled.
Init ==
  /\ trade \in Found
  /\ \/ verdicts = {} /\ policy = [r \in Reviews |-> "HOLD"]
          /\ base = [r \in Reviews |-> "none"]
     \/ /\ verdicts = {1} /\ trade.open
        /\ policy = [r \in Reviews |-> IF r = 1 /\ trade.exhausted THEN "EXIT" ELSE "HOLD"]
        /\ base = [r \in Reviews |-> IF r # 1 THEN "none"
                                      ELSE IF trade.exhausted THEN "executed" ELSE "not_required"]
  /\ ext = [r \in Reviews |-> "none"]
  /\ humans = {} /\ replays = {}
  /\ pub = Idle /\ asking = NoReview /\ ending = "no" /\ edits = 0
  /\ server = "starting" /\ recoveryError = FALSE
  /\ stranded = {} /\ erased = {} /\ skipped = {} /\ unreplayed = FALSE

-----------------------------------------------------------------------------
(* Publishing.                                                             *)

\* Mutant: what was superseded needs no reconciliation, and neither does an older stop.
UnresolvedDecision(r, overtaken) == Pending(base) \ {r}

\* execution_reconciliation: commands whose fate at the broker is unknown.  A superseded
\* stop is one of them until the recorded stop has overtaken it.
Unresolved(r, overtaken) ==
  {q \in Reviews \ {r} :
     \/ /\ policy[q] \notin {"HOLD"} \cup Extended
        /\ base[q] \in {"pending_execution", "superseded"}
     \/ ext[q] = "pending_execution"
     \/ ext[q] = "superseded" /\ q \notin overtaken}

\* Both locks are taken, what is pending is noted, and the trade and its unresolved
\* commands are read; a refusal has written nothing.
Begin(r, p) ==
  /\ Up /\ JournalFree /\ LedgerFree
  /\ base[r] = "none" /\ \A q \in Reviews : q < r => base[q] # "none"
  /\ trade.open
  /\ \E overtaken \in SUBSET Reviews : Unresolved(r, overtaken) = {}
  /\ trade.exhausted => p = "HOLD"
  /\ policy' = [policy EXCEPT ![r] = p]
  /\ pub' = [stage |-> "begun", review |-> r,
             pendingBase |-> Pending(base), pendingExt |-> Pending(ext)]
  /\ UNCHANGED <<trade, base, ext, verdicts, humans, replays, asking, ending, edits, server,
                 recoveryError, stranded, erased, skipped, unreplayed>>

Superseded(table, r) ==
  [q \in Reviews |-> IF q # r /\ table[q] = "pending_execution" THEN "superseded" ELSE table[q]]

\* register_decision, one transaction: an extended winner registers a HOLD beside it.
RegisterDecision ==
  /\ pub.stage = "begun"
  /\ base' = [Superseded(base, pub.review) EXCEPT ![pub.review] =
                IF policy[pub.review] \in {"HOLD"} \cup Extended
                  THEN "not_required" ELSE "pending_execution"]
  /\ pub' = [pub EXCEPT !.stage = "registered"]
  /\ UNCHANGED <<trade, policy, ext, verdicts, humans, replays, asking, ending, edits, server,
                 recoveryError, stranded, erased, skipped, unreplayed>>

\* register_shadow_action, one transaction.
RegisterShadowAction ==
  /\ pub.stage = "registered" /\ policy[pub.review] \in Extended
  /\ ext' = [Superseded(ext, pub.review) EXCEPT ![pub.review] = "pending_execution"]
  /\ pub' = [pub EXCEPT !.stage = "extended"]
  /\ UNCHANGED <<trade, policy, base, verdicts, humans, replays, asking, ending, edits, server,
                 recoveryError, stranded, erased, skipped, unreplayed>>

\* supersede_other_pending_actions, one transaction over both tables.
SupersedeOthers ==
  /\ pub.stage \in {"registered", "extended"}
  /\ pub.stage = "registered" => policy[pub.review] \notin Extended
  /\ base' = Superseded(base, pub.review)
  /\ ext' = Superseded(ext, pub.review)
  /\ pub' = [pub EXCEPT !.stage = "alone"]
  /\ UNCHANGED <<trade, policy, verdicts, humans, replays, asking, ending, edits, server,
                 recoveryError, stranded, erased, skipped, unreplayed>>

\* record_ai_verdict, one transaction of the journal, and both locks are released.
RecordVerdict ==
  /\ pub.stage = "alone"
  /\ verdicts' = verdicts \cup {pub.review}
  /\ pub' = Idle
  /\ UNCHANGED <<trade, policy, base, ext, humans, replays, asking, ending, edits, server,
                 recoveryError, stranded, erased, skipped, unreplayed>>

\* The compensation of decision_publication: what this review wrote is marked failed and
\* what was pending before it is pending again.
Compensated(table, pending) ==
  [q \in Reviews |->
     IF q = pub.review /\ table[q] \in {"pending_execution", "not_required", "superseded"}
       THEN "publication_failed"
     ELSE IF q \in pending /\ table[q] = "superseded" THEN "pending_execution"
     ELSE table[q]]

\* A step of the publication raises and is rolled back; the compensation is one transaction.
PublicationFails ==
  /\ pub.stage # "idle"
  /\ base' = Compensated(base, pub.pendingBase)
  /\ ext' = Compensated(ext, pub.pendingExt)
  /\ pub' = Idle
  /\ UNCHANGED <<trade, policy, verdicts, humans, replays, asking, ending, edits, server,
                 recoveryError, stranded, erased, skipped, unreplayed>>

\* ...or raises itself, and nothing is undone.
CompensationFails ==
  /\ pub.stage \notin {"idle", "begun"}
  /\ stranded' = stranded \cup {pub.review}
  /\ pub' = Idle
  /\ UNCHANGED <<trade, policy, base, ext, verdicts, humans, replays, asking, ending, edits,
                 server, recoveryError, erased, skipped, unreplayed>>

-----------------------------------------------------------------------------
(* Receipts and the end of the trade, on the ledger's connection.          *)

\* Mutant: rows of the old form are never settled.
SettledNewOnly(row) ==
  IF row.basis # "none" \/ ~row.exhausted THEN row
  ELSE [row EXCEPT !.open = FALSE, !.basis = "ledger_weighted"]

\* settle_from_ledger on an exhausted ledger: explicit totals are kept, and so is the
\* total of an old form that came with its own MANUAL_EXIT.
Settled(row) ==
  IF \/ row.basis = "manual_total_override" \/ ~row.exhausted
     \/ ~row.open /\ row.basis = "legacy_manual_total" /\ row.manualExit
  THEN row
  ELSE [row EXCEPT !.open = FALSE, !.basis = "ledger_weighted"]

Exhaust(row, manual) == Settled([row EXCEPT !.exhausted = TRUE, !.manualExit = @ \/ manual])

\* Mutant: only an exit through the closing form is followed by the replays.
EndedByForm(row) == ~row.open /\ row.manualExit

\* complete_ack goes on to the reviews of a trade that its receipt closed.
Ended(row) == ~row.open

\* supersede_trade
Withdrawn(table) ==
  [q \in Reviews |-> IF table[q] = "pending_execution" THEN "superseded" ELSE table[q]]

\* The newest decision that was not a failed publication.
Newest(r) == \A q \in Reviews : q > r => base[q] \in {"none", "publication_failed"}

\* acknowledge: a base command is confirmed while the position it was made for stands; an
\* EXIT ends the trade, and its handler goes on to the reviews if the row is closed.
ConfirmDecision(r) ==
  /\ Up /\ LedgerFree /\ trade.open /\ ~trade.exhausted /\ ending = "no"
  /\ base[r] = "pending_execution" /\ Newest(r)
  /\ base' = [base EXCEPT ![r] = "executed"]
  /\ trade' = IF policy[r] = "EXIT" THEN Exhaust(trade, FALSE) ELSE trade
  /\ ending' = IF Ended(trade') THEN "withdraw" ELSE "no"
  /\ UNCHANGED <<policy, ext, verdicts, humans, replays, pub, asking, edits, server,
                 recoveryError, stranded, erased, skipped, unreplayed>>

ConfirmStop(r) ==
  /\ Up /\ LedgerFree /\ trade.open /\ ~trade.exhausted
  /\ ext[r] = "pending_execution"
  /\ ext' = [ext EXCEPT ![r] = "executed"]
  /\ UNCHANGED <<trade, policy, base, verdicts, humans, replays, pub, asking, ending, edits,
                 server, recoveryError, stranded, erased, skipped, unreplayed>>

\* record_manual_fill of all that is left: no command is involved, and none is withdrawn.
ManualFill ==
  /\ Up /\ LedgerFree /\ trade.open /\ ~trade.exhausted /\ ending = "no"
  /\ trade' = Exhaust(trade, FALSE)
  /\ ending' = IF Ended(trade') THEN "withdraw" ELSE "no"
  /\ UNCHANGED <<policy, base, ext, verdicts, humans, replays, pub, asking, edits, server,
                 recoveryError, stranded, erased, skipped, unreplayed>>

\* The user reports that a command was not executed, an outdated one included, even when
\* the trade closed after the handler read it.
NotExecuted(r) ==
  /\ Up /\ LedgerFree
  /\ \/ /\ policy[r] \notin {"HOLD"} \cup Extended
        /\ base[r] \in {"pending_execution", "superseded"}
        /\ base' = [base EXCEPT ![r] = "recommended_not_executed"]
        /\ UNCHANGED ext
     \/ /\ ext[r] \in {"pending_execution", "superseded"}
        /\ ext' = [ext EXCEPT ![r] = "recommended_not_executed"]
        /\ UNCHANGED base
  /\ UNCHANGED <<trade, policy, verdicts, humans, replays, pub, asking, ending, edits, server,
                 recoveryError, stranded, erased, skipped, unreplayed>>

\* edit_trade with new levels, one transaction of the journal: the reviews of the old
\* levels are deleted with everything that was recorded about them.
EditLevels ==
  /\ Up /\ JournalFree /\ edits < MaxEdits
  /\ verdicts' = {} /\ humans' = {} /\ replays' = {}
  /\ erased' = erased \cup verdicts
  /\ edits' = edits + 1
  /\ UNCHANGED <<trade, policy, base, ext, pub, asking, ending, server, recoveryError, stranded,
                 skipped, unreplayed>>

\* The handler then withdraws what is pending, on the ledger's connection (supersede_trade).
EditSupersede ==
  /\ Up /\ LedgerFree /\ edits > 0
  /\ base' = Withdrawn(base) /\ ext' = Withdrawn(ext)
  /\ edits' = edits - 1
  /\ UNCHANGED <<trade, policy, verdicts, humans, replays, pub, asking, ending, server,
                 recoveryError, stranded, erased, skipped, unreplayed>>

\* The commands of the reviews that edits have deleted.
Orphans == erased \cap (Pending(base) \cup Pending(ext))

\* ...or it fails, or finds the levels it had read before another edit, and does not.
EditKeeps ==
  /\ Up /\ edits > 0
  /\ edits' = edits - 1 /\ stranded' = stranded \cup Orphans
  /\ UNCHANGED <<trade, policy, base, ext, verdicts, humans, replays, pub, asking, ending, server,
                 recoveryError, erased, skipped, unreplayed>>

\* terminal_exit by the close endpoint, with a total of the whole trade or without.
Exit(total) ==
  /\ Up /\ LedgerFree /\ trade.open /\ ending = "no"
  /\ trade' = IF trade.exhausted THEN trade
              ELSE IF total THEN [Exhaust(trade, TRUE) EXCEPT !.basis = "manual_total_override"]
              ELSE Exhaust(trade, TRUE)
  /\ base' = IF trade.exhausted THEN base ELSE Withdrawn(base)
  /\ ext' = IF trade.exhausted THEN ext ELSE Withdrawn(ext)
  /\ ending' = "replay"
  /\ UNCHANGED <<policy, verdicts, humans, replays, pub, asking, edits, server, recoveryError,
                 stranded, erased, skipped, unreplayed>>

\* complete_ack withdraws what is still pending, in a transaction of its own.
Withdraw ==
  /\ Up /\ LedgerFree /\ ending = "withdraw"
  /\ base' = Withdrawn(base) /\ ext' = Withdrawn(ext)
  /\ ending' = "replay"
  /\ UNCHANGED <<trade, policy, verdicts, humans, replays, pub, asking, edits, server,
                 recoveryError, stranded, erased, skipped, unreplayed>>

\* resolve_decision_replays, one transaction of the journal: a review whose replay raises
\* is skipped.
Replay ==
  \E raising \in SUBSET (verdicts \ replays) :
    /\ replays' = replays \cup (verdicts \ raising)
    /\ skipped' = skipped \cup raising

Resolve ==
  /\ Up /\ JournalFree /\ ending = "replay"
  /\ Replay
  /\ ending' = "no"
  /\ UNCHANGED <<trade, policy, base, ext, verdicts, humans, pub, asking, edits, server,
                 recoveryError, stranded, erased, unreplayed>>

\* The handler that ended the trade fails before that.
EndingFails ==
  /\ ending # "no"
  /\ ending' = "no" /\ unreplayed' = TRUE
  /\ UNCHANGED <<trade, policy, base, ext, verdicts, humans, replays, pub, asking, edits,
                 server, recoveryError, stranded, erased, skipped>>

\* edit_trade enters a total of the whole trade, or corrects it.
EnterTotal ==
  /\ Up /\ JournalFree /\ trade' = [trade EXCEPT !.basis = "manual_total_override"]
  /\ UNCHANGED <<policy, base, ext, verdicts, humans, replays, pub, asking, ending, edits,
                 server, recoveryError, stranded, erased, skipped, unreplayed>>

-----------------------------------------------------------------------------
(* The human decision: a check in autocommit, then an insert that opens    *)
(* the transaction, under the journal's lock throughout.                   *)

CheckHuman(r) ==
  /\ Up /\ JournalFree
  /\ r \in verdicts /\ trade.open /\ r \notin replays /\ r \notin humans
  /\ asking' = r
  /\ UNCHANGED <<trade, policy, base, ext, verdicts, humans, replays, pub, ending, edits,
                 server, recoveryError, stranded, erased, skipped, unreplayed>>

InsertHuman ==
  /\ asking # NoReview
  /\ humans' = humans \cup {asking} /\ asking' = NoReview
  /\ UNCHANGED <<trade, policy, base, ext, verdicts, replays, pub, ending, edits, server,
                 recoveryError, stranded, erased, skipped, unreplayed>>

-----------------------------------------------------------------------------
(* The process dies and starts again.                                      *)

Crash ==
  /\ Up
  /\ server' = "starting"
  /\ pub' = Idle /\ asking' = NoReview /\ ending' = "no" /\ edits' = 0
  /\ recoveryError' = FALSE
  /\ stranded' = stranded \cup (IF pub.stage \in {"idle", "begun"} THEN {} ELSE {pub.review})
                           \cup (IF edits = 0 THEN {} ELSE Orphans)
  /\ unreplayed' = (unreplayed \/ ending # "no")
  /\ UNCHANGED <<trade, policy, base, ext, verdicts, humans, replays, erased, skipped>>

\* reconcile_position_closures, its transaction: an exit of an older version is settled.
ReconcileClosures ==
  /\ server = "starting"
  /\ LET old == trade.exhausted /\ (trade.open \/ trade.basis = "legacy_manual_total") IN
     /\ trade' = IF old THEN Settled(trade) ELSE trade
     /\ server' = IF trade' # trade THEN "repaired" ELSE "reconciled"
  /\ UNCHANGED <<policy, base, ext, verdicts, humans, replays, pub, asking, ending, edits,
                 recoveryError, stranded, erased, skipped, unreplayed>>

\* ...and the replays of what it repaired.
ReplayRepaired ==
  /\ server = "repaired"
  /\ Replay
  /\ server' = "reconciled"
  /\ UNCHANGED <<trade, policy, base, ext, verdicts, humans, pub, asking, ending, edits,
                 recoveryError, stranded, erased, unreplayed>>

\* The process dies between the two.
CrashAtStart ==
  /\ server \in {"repaired", "reconciled"}
  /\ server' = "starting"
  /\ unreplayed' = (unreplayed \/ server = "repaired")
  /\ UNCHANGED <<trade, policy, base, ext, verdicts, humans, replays, pub, asking, ending,
                 edits, recoveryError, stranded, erased, skipped>>

\* reconcile_economic_state: a closed row with a ledger that is not exhausted is exited.
\* An exception is put on record and rolled back, and the service starts without the exit.
LeftOpen(row) == ~row.open /\ row.tracked /\ ~row.exhausted

RecoverRemainder ==
  /\ server = "reconciled"
  /\ \/ /\ LeftOpen(trade)
        /\ trade' = Exhaust(trade, TRUE)
        /\ base' = Withdrawn(base) /\ ext' = Withdrawn(ext)
        /\ UNCHANGED recoveryError
     \/ recoveryError' = TRUE /\ UNCHANGED <<trade, base, ext>>
     \/ ~LeftOpen(trade) /\ UNCHANGED <<trade, base, ext, recoveryError>>
  /\ server' = "up"
  /\ UNCHANGED <<policy, verdicts, humans, replays, pub, asking, ending, edits, stranded, erased,
                 skipped, unreplayed>>

-----------------------------------------------------------------------------

Publication ==
  \/ \E r \in Reviews, p \in Policies : Begin(r, p)
  \/ RegisterDecision \/ RegisterShadowAction \/ SupersedeOthers \/ RecordVerdict
  \/ PublicationFails \/ CompensationFails

Receipts ==
  \/ \E r \in Reviews : ConfirmDecision(r) \/ ConfirmStop(r) \/ NotExecuted(r)
  \/ ManualFill \/ EditLevels \/ EditSupersede \/ EditKeeps
  \/ (\E total \in BOOLEAN : Exit(total)) \/ Withdraw \/ Resolve \/ EndingFails \/ EnterTotal

Human == (\E r \in Reviews : CheckHuman(r)) \/ InsertHuman

Start == ReconcileClosures \/ ReplayRepaired \/ RecoverRemainder

Next == Publication \/ Receipts \/ Human \/ Start \/ Crash \/ CrashAtStart

Spec == Init /\ [][Next]_vars

-----------------------------------------------------------------------------
(* Properties.                                                             *)

TypeOK ==
  /\ trade \in Row /\ policy \in [Reviews -> Policies]
  /\ base \in [Reviews -> Statuses] /\ ext \in [Reviews -> Statuses]
  /\ verdicts \subseteq Reviews /\ humans \subseteq Reviews /\ replays \subseteq Reviews
  /\ pub \in [stage : Stages, review : Reviews \cup {NoReview},
              pendingBase : SUBSET Reviews, pendingExt : SUBSET Reviews]
  /\ asking \in Reviews \cup {NoReview} /\ ending \in Endings
  /\ server \in {"starting", "repaired", "reconciled", "up"}
  /\ edits \in 0..MaxEdits /\ recoveryError \in BOOLEAN /\ unreplayed \in BOOLEAN
  /\ stranded \subseteq Reviews /\ erased \subseteq Reviews /\ skipped \subseteq Reviews

\* Commands on the user's desk: their fate at the broker has to be reported first.
OnDesk == {q \in Reviews \ {pub.review} :
             \/ /\ policy[q] \notin {"HOLD"} \cup Extended
                /\ base[q] \in {"pending_execution", "superseded"}
             \/ ext[q] = "pending_execution"}

Desk == INSTANCE ReviewDesk WITH desk <- OnDesk, recorded <- verdicts \cup erased

\* To everyone else a publication is one step: a command appears together with its verdict
\* (or without one, when the process died), never in the middle, never beside a command
\* whose fate is unknown, and no review is recorded twice.
PublishesAtOnce == Desk!Spec

\* A command the user may act on is one whose verdict is on record: unless the process, the
\* compensation or an edit failed in between, or an edit of the levels has deleted the
\* verdict and has its command still to withdraw.  So is one the user has executed, unless
\* the levels were edited since.
ActionableIsRecorded ==
  \A r \in Reviews \ {pub.review} :
    /\ r \in Pending(base) \cup Pending(ext) =>
         r \in verdicts \cup stranded \/ (r \in erased /\ edits > 0)
    /\ "executed" \in {base[r], ext[r]} => r \in verdicts \cup stranded \cup erased

\* Both tables together never ask for more than one action, through failures and restarts.
OneCommandAtATime ==
  /\ Pending(base) \cap Pending(ext) = {}
  /\ \A q, r \in Pending(base) \cup Pending(ext) : q = r

\* When the handlers are done, every review of a closed trade has its replay, or could not
\* be replayed, unless a handler died between the exit and the replays.
ClosedReviewsAreReplayed ==
  Up /\ ending = "no" /\ ~trade.open /\ ~unreplayed => verdicts \subseteq replays \cup skipped

\* No human decision is added to a review that has been replayed.
HumanBeforeReplay == [][(humans' \ humans) \cap replays = {}]_vars

\* A started process finds no exit left in the middle: an exhausted ledger is closed unless
\* its total was entered by hand, and a closed trade that has a ledger has no remainder, or
\* its recovery raised and the error is on record.
StartupSettles ==
  Up => /\ trade.exhausted => ~trade.open \/ trade.basis = "manual_total_override"
        /\ LeftOpen(trade) => recoveryError

\* A review of a closed trade is replayed although the process dies between the exit and
\* its replays.  Known not to hold: a restart does not make up for the replays.
ReplaysSurviveCrash ==
  Up /\ ending = "no" /\ ~trade.open => verdicts \subseteq replays \cup skipped
=============================================================================
