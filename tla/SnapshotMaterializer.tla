------------------------ MODULE SnapshotMaterializer ------------------------
(* The cached deterministic snapshot a review reads.  A watcher thread       *)
(* builds it when an event asks for it; the requests only read it, check     *)
(* whether an event has happened since, and ask for a build.  The trade, the *)
(* publications and the quotes move while a build runs.                      *)
(*                                                                           *)
(* Event reasons are told apart only as far as the code does: none, no       *)
(* active trade, or any other.  The wake event is left out: it shortens a    *)
(* wait that ends by itself.  The guard around the builds is part of the     *)
(* model: after a failure it holds the next build off for a while.           *)
(* A comparison the code skips because one side is still unknown (no quote   *)
(* yet, an unreadable marker) is left out: here both sides are always known. *)
EXTENDS Naturals

CONSTANTS
  Markets,           \* bands of the price, with the chain and the instrument
  MaxTrades,         \* bound: trades opened
  MaxEdits,          \* bound: edits of a trade's levels
  MaxPublications,   \* bound: publications and completed bars
  MaxMoves,          \* bound: changes of the market and of the quote
  MaxFailures,       \* bound: builds that fail
  MaxRequests        \* bound: reviews asked for

ASSUME BoundsAssumption ==
  /\ Markets # {}
  /\ {MaxTrades, MaxEdits, MaxPublications, MaxMoves, MaxFailures, MaxRequests}
       \subseteq Nat

VARIABLES
  trade,        \* the active trade and the version of its levels
  published,    \* publication_marker and completed_bar_marker
  market,       \* the price's band, the chain marker and the instrument
  quote,        \* the quote is available, with authority
  moves, opened,
  snapshot,     \* _snapshot, with what its builder consumed
  baseline,     \* _baseline_*, _boundaries_r and _chain_marker
  invalidated,  \* _invalidated_reason is set
  watcher,      \* where the watcher thread is, and the build it holds
  backoff,      \* the guard's retry_not_before lies ahead
  failures,
  request,      \* the one review past its lock
  requests,
  condemned     \* history: an event has spoken against the snapshot that is kept

environment == <<trade, published, market, quote, moves, opened>>
cache == <<snapshot, baseline, invalidated, condemned>>
vars == <<environment, cache, watcher, backoff, failures, request, requests>>

NoTrade == 0
NoSnapshot == [trade |-> NoTrade, levels |-> 0, published |-> 0, quote |-> FALSE]
Reasons == {"NONE", "NO_ACTIVE_TRADE", "REBUILD"}
Waiting == [at |-> "waiting", reason |-> "NONE", trade |-> NoTrade, base |-> 0,
            result |-> NoSnapshot]
Snapshots == [trade : Nat, levels : Nat, published : Nat, quote : BOOLEAN]
Baselines == [published : Nat, market : Markets, quote : BOOLEAN]
NoRequest == [at |-> "idle", seen |-> {}, trade |-> NoTrade, levels |-> 0]

\* Mutant: the publications are anchored to the end of the build.
PublishedAtTheEnd(w) ==
  [published |-> published, market |-> market, quote |-> w.result.quote]

\* Mutant: the market of the previous build stays the anchor.
MarketNotAnchored(w) ==
  [published |-> w.base, market |-> baseline.market, quote |-> w.result.quote]

\* A build anchors the publications to its start, so that one arriving during
\* it asks for another; the quote to what the builder was given; the market to
\* its completion, so that a slow build does not call for the next one.
Baseline(w) == [published |-> w.base, market |-> market, quote |-> w.result.quote]

\* Mutant: the snapshot's trade is not compared.
OutdatedOfAnyTrade ==
  \/ snapshot = NoSnapshot
  \/ baseline # [published |-> published, market |-> market, quote |-> quote]

Outdated ==
  \/ snapshot = NoSnapshot
  \/ snapshot.trade # trade.id
  \/ baseline # [published |-> published, market |-> market, quote |-> quote]

\* _event_reason.
EventReason ==
  IF invalidated THEN "REBUILD"
  ELSE IF trade.id = NoTrade
       THEN IF snapshot = NoSnapshot THEN "NONE" ELSE "NO_ACTIVE_TRADE"
       ELSE IF Outdated THEN "REBUILD" ELSE "NONE"

\* request_refresh.
Refresh ==
  /\ invalidated' = TRUE
  /\ condemned' = (snapshot # NoSnapshot)
  /\ UNCHANGED <<snapshot, baseline>>

\* Mutant: the reason survives the snapshot.
ClearOnlyTheSnapshot ==
  /\ snapshot' = NoSnapshot
  /\ condemned' = FALSE
  /\ UNCHANGED <<baseline, invalidated>>

\* What the thread forgets when there is no trade to review.
Clear ==
  /\ snapshot' = NoSnapshot
  /\ invalidated' = FALSE
  /\ condemned' = FALSE
  /\ UNCHANGED baseline

TypeOK ==
  /\ trade \in [id : Nat, levels : Nat]
  /\ published \in Nat /\ market \in Markets /\ quote \in BOOLEAN
  /\ moves \in Nat /\ opened \in Nat
  /\ snapshot \in Snapshots
  /\ baseline \in Baselines
  /\ invalidated \in BOOLEAN
  /\ watcher \in [at : {"waiting", "informed", "building", "built"},
                  reason : Reasons, trade : Nat, base : Nat, result : Snapshots]
  /\ backoff \in BOOLEAN /\ failures \in Nat /\ requests \in Nat
  /\ request \in [at : {"idle", "admitted", "checked", "served", "finalized"},
                  seen : SUBSET Nat, trade : Nat, levels : Nat]
  /\ condemned \in BOOLEAN

Init ==
  /\ trade = [id |-> NoTrade, levels |-> 0]
  /\ published = 0 /\ market \in Markets /\ quote \in BOOLEAN
  /\ moves = 0 /\ opened = 0
  /\ snapshot = NoSnapshot
  /\ baseline = [published |-> 0, market |-> market, quote |-> quote]
  /\ invalidated = TRUE              \* INITIAL_BUILD
  /\ watcher = Waiting
  /\ backoff = FALSE /\ failures = 0 /\ requests = 0
  /\ request = NoRequest
  /\ condemned = FALSE

-----------------------------------------------------------------------------
(* The world.  A second trade may be opened over the first, and is then the  *)
(* active one.                                                               *)

\* A request remembers every trade that was active since its last check.
Witness ==
  request' = [request EXCEPT !.seen =
               IF request.at \in {"checked", "served"} THEN @ \union {trade'.id} ELSE @]

OpenTrade ==
  /\ opened < MaxTrades
  /\ opened' = opened + 1
  /\ trade' = [id |-> opened + 1, levels |-> 0]
  /\ Witness
  /\ UNCHANGED <<published, market, quote, moves, cache, watcher, backoff, failures, requests>>

CloseTrade ==
  /\ trade.id # NoTrade
  /\ trade' = [id |-> NoTrade, levels |-> 0]
  /\ Witness
  /\ UNCHANGED <<published, market, quote, moves, opened, cache, watcher, backoff,
                 failures, requests>>

\* The price is unmoved, and with it the distance the check measures when the
\* take is what the edit changes.
EditLevels ==
  /\ trade.id # NoTrade /\ trade.levels < MaxEdits
  /\ trade' = [trade EXCEPT !.levels = @ + 1]
  /\ UNCHANGED <<published, market, quote, moves, opened, cache, watcher, backoff, failures,
                 request, requests>>

Publish ==
  /\ published < MaxPublications
  /\ published' = published + 1
  /\ UNCHANGED <<trade, market, quote, moves, opened, cache, watcher, backoff, failures,
                 request, requests>>

Move ==
  /\ moves < MaxMoves
  /\ moves' = moves + 1
  /\ market' \in Markets /\ quote' \in BOOLEAN
  /\ UNCHANGED <<trade, published, opened, cache, watcher, backoff, failures, request,
                 requests>>

-----------------------------------------------------------------------------
(* The watcher thread: _run and _build_once.                                 *)

Watch ==
  /\ watcher.at = "waiting"
  /\ watcher' = [watcher EXCEPT !.at = "informed", !.reason = EventReason]
  /\ UNCHANGED <<environment, cache, backoff, failures, request, requests>>

NothingToDo ==
  /\ watcher.at = "informed" /\ watcher.reason = "NONE"
  /\ watcher' = Waiting
  /\ UNCHANGED <<environment, cache, backoff, failures, request, requests>>

ForgetClosedTrade ==
  /\ watcher.at = "informed" /\ watcher.reason = "NO_ACTIVE_TRADE"
  /\ Clear
  /\ watcher' = Waiting
  /\ UNCHANGED <<environment, backoff, failures, request, requests>>

\* guarded_build_once returns without a build while the backoff lasts, a closed
\* trade or not; the reason has been recorded all the same.
HoldOff ==
  /\ watcher.at = "informed" /\ watcher.reason = "REBUILD" /\ backoff
  /\ Refresh
  /\ watcher' = Waiting
  /\ UNCHANGED <<environment, backoff, failures, request, requests>>

\* The trade is read again: it may have closed since the reason was found.
BeginBuild ==
  /\ watcher.at = "informed" /\ watcher.reason = "REBUILD" /\ ~backoff
  /\ IF trade.id = NoTrade
     THEN Clear /\ watcher' = Waiting
     ELSE /\ Refresh
          /\ watcher' = [watcher EXCEPT !.at = "building", !.trade = trade.id,
                                        !.base = published]
  /\ UNCHANGED <<environment, backoff, failures, request, requests>>

\* The builder reads the trade, the quote and the publications on its own.
RunBuilder ==
  /\ watcher.at = "building"
  /\ watcher' = [watcher EXCEPT !.at = "built",
       !.result = [trade |-> trade.id, levels |-> trade.levels, published |-> published,
                   quote |-> quote]]
  /\ UNCHANGED <<environment, cache, backoff, failures, request, requests>>

\* A snapshot of another trade is an error like any other.
Matches(w) == w.result.trade = w.trade

FinishBuild ==
  /\ watcher.at = "built" /\ Matches(watcher)
  /\ snapshot' = watcher.result
  /\ baseline' = Baseline(watcher)
  /\ invalidated' = FALSE
  /\ condemned' = FALSE
  /\ watcher' = Waiting
  /\ backoff' = FALSE
  /\ UNCHANGED <<environment, failures, request, requests>>

\* Mutant: a failed build leaves no reason behind.
FailedBuildForgets ==
  /\ watcher' = Waiting
  /\ invalidated' = FALSE

\* The old snapshot stays, and stays invalidated.
FailedBuild ==
  /\ watcher' = Waiting
  /\ invalidated' = TRUE

FailBuild ==
  /\ \/ watcher.at = "built" /\ ~Matches(watcher) /\ UNCHANGED failures
     \/ /\ watcher.at \in {"building", "built"}
        /\ failures < MaxFailures /\ failures' = failures + 1
  /\ FailedBuild
  /\ backoff' = TRUE
  /\ UNCHANGED <<environment, snapshot, baseline, condemned, request, requests>>

\* The pause of the guard is over.
EndBackoff ==
  /\ backoff
  /\ backoff' = FALSE
  /\ UNCHANGED <<environment, cache, watcher, failures, request, requests>>

-----------------------------------------------------------------------------
(* A review's request: the middleware's gate, the cached read with its own   *)
(* check, the finalization and the publication.  One is past the lock at a   *)
(* time; others are refused by the gate, which only asks for a refresh.      *)

Refused ==
  /\ EventReason = "REBUILD"
  /\ Refresh
  /\ UNCHANGED <<environment, watcher, backoff, failures, request, requests>>

Admit ==
  /\ request.at = "idle" /\ requests < MaxRequests
  /\ EventReason = "NONE"
  /\ requests' = requests + 1
  /\ request' = [request EXCEPT !.at = "admitted"]
  /\ UNCHANGED <<environment, cache, watcher, backoff, failures>>

CheckCached ==
  /\ request.at = "admitted"
  /\ IF EventReason = "NONE"
     THEN /\ request' = [request EXCEPT !.at = "checked", !.seen = {trade.id}]
          /\ UNCHANGED cache
     ELSE /\ request' = NoRequest
          /\ IF EventReason = "REBUILD" THEN Refresh ELSE UNCHANGED cache
  /\ UNCHANGED <<environment, watcher, backoff, failures, requests>>

\* The snapshot is read under the lock again, after the check released it.
ReadCached ==
  /\ request.at = "checked"
  /\ IF snapshot # NoSnapshot
     THEN /\ request' = [request EXCEPT !.at = "served", !.trade = snapshot.trade]
          /\ UNCHANGED cache
     ELSE request' = NoRequest /\ Refresh
  /\ UNCHANGED <<environment, watcher, backoff, failures, requests>>

\* position_finalization: the review takes the levels the trade has now.  A
\* review of another trade is answered 409 and asks for nothing.
Finalize ==
  /\ request.at = "served"
  /\ request' = IF trade.id = request.trade
                THEN [request EXCEPT !.at = "finalized", !.levels = trade.levels]
                ELSE NoRequest
  /\ UNCHANGED <<environment, cache, watcher, backoff, failures, requests>>

\* The guards of the comparison and of the publication: the same trade, the same
\* levels and a quote the comparison can use.
Compatible == trade = [id |-> request.trade, levels |-> request.levels] /\ quote

PublishReview ==
  /\ request.at = "finalized" /\ Compatible
  /\ request' = NoRequest
  /\ UNCHANGED <<environment, cache, watcher, backoff, failures, requests>>

\* StaleDecisionError: LIVE_COMPARISON_CHANGED.  A build in flight clears it.
StaleReview ==
  /\ request.at = "finalized" /\ ~Compatible
  /\ request' = NoRequest
  /\ Refresh
  /\ UNCHANGED <<environment, watcher, backoff, failures, requests>>

-----------------------------------------------------------------------------
World == OpenTrade \/ CloseTrade \/ EditLevels \/ Publish \/ Move

Watcher == \/ Watch \/ NothingToDo \/ ForgetClosedTrade \/ HoldOff
           \/ BeginBuild \/ RunBuilder \/ FinishBuild \/ FailBuild

Request == \/ Refused \/ Admit \/ CheckCached \/ ReadCached \/ Finalize
           \/ PublishReview \/ StaleReview

Next == World \/ Watcher \/ EndBackoff \/ Request

Spec == Init /\ [][Next]_vars

\* The thread's wait ends by itself after two seconds, a build ends, and the
\* guard's pause is measured by the clock.
FairSpec == Spec /\ WF_vars(Watcher) /\ WF_vars(EndBackoff)

-----------------------------------------------------------------------------
(* Properties.                                                               *)

Accepted == EventReason = "NONE" /\ snapshot # NoSnapshot

\* A snapshot the check accepts was built for the active trade from the
\* publications and the quote that are current now, whatever arrived while it
\* was being built (_build_once, the three baselines).  Of the trade only the
\* identity is compared: see AcceptedHasLevels for what an edit leaves behind.
AcceptedIsCurrent ==
  Accepted => /\ snapshot.trade = trade.id
              /\ snapshot.published = published
              /\ snapshot.quote = quote

\* KNOWN NOT TO HOLD.  A snapshot the check accepts was built from the levels
\* the trade has now.  The module's head promises a rebuild on "a trade edit"
\* and the trigger it publishes lists TRADE_EDIT_OR_REPLACEMENT; _event_reason
\* compares the trade's id alone, and an edit of the take moves no distance.
AcceptedHasLevels == Accepted => snapshot.levels = trade.levels

\* A snapshot an event has invalidated is never accepted again: not when the
\* build that should replace it fails, and not when the price comes back.
CondemnedIsNotAccepted == Accepted => ~condemned

\* What a request is given is the snapshot of a trade that was active at its
\* check or since, although the lock is released between check and read.
ServedTradeWasActive ==
  request.at \in {"served", "finalized"} => request.trade \in request.seen

\* A build that ends while its trade is active, with no publication and no
\* change of the quote since it read them, is accepted: the price that moved
\* while it ran does not call for the next build.
CompletionIsAccepted ==
  [][/\ watcher.at = "built" /\ watcher'.at = "waiting" /\ ~invalidated'
     /\ trade'.id = snapshot'.trade
     /\ published' = watcher.base
     /\ quote' = snapshot'.quote
     => EventReason' = "NONE"]_vars

\* Once the world and the failures pause, the cache settles: either a snapshot
\* is ready for the next request or there is nothing to review.
EventuallyReady == <>[](EventReason = "NONE")

=============================================================================
