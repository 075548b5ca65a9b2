--------------------- MODULE SnapshotMaterializerProofs ---------------------
(***************************************************************************)
(* The safety of the cached snapshot for any bands, trades, edits,          *)
(* publications, market moves, failures and requests.                       *)
(***************************************************************************)
EXTENDS SnapshotMaterializer, TLAPS

Watchers == [at : {"waiting", "informed", "building", "built"},
             reason : Reasons, trade : Nat, base : Nat, result : Snapshots]
RequestRecords == [at : {"idle", "admitted", "checked", "served", "finalized"},
                   seen : SUBSET Nat, trade : Nat, levels : Nat]

\* A build is of a trade, and anchored to publications its builder then read.
\* Until it ends the cache stays invalidated, so no check passes meanwhile.
Anchored ==
  /\ watcher.at \in {"building", "built"} =>
       invalidated /\ watcher.trade # NoTrade /\ watcher.base <= published
  /\ watcher.at = "built" =>
       watcher.base <= watcher.result.published /\ watcher.result.published <= published

\* What is cached was read between its anchor and now, and with the anchored quote.
Cached ==
  snapshot # NoSnapshot =>
    /\ baseline.published <= snapshot.published /\ snapshot.published <= published
    /\ snapshot.quote = baseline.quote

\* What has been spoken against stays invalidated until it is replaced.
Condemned == condemned => invalidated

\* Between its check and its read a request has seen every active trade, the one
\* of the snapshot it may be given among them.
Seen ==
  /\ request.at \in {"checked", "served"} => trade.id \in request.seen
  /\ request.at = "checked" =>
       /\ snapshot = NoSnapshot \/ snapshot.trade \in request.seen
       /\ watcher.at = "built" => watcher.result.trade \in request.seen
  /\ ServedTradeWasActive

Safe == Anchored /\ Cached /\ Condemned /\ Seen

-----------------------------------------------------------------------------
(* Types.                                                                  *)

LEMMA NoSnapshotType == NoSnapshot \in Snapshots
BY DEF NoSnapshot, Snapshots, NoTrade

LEMMA WaitingType == Waiting \in Watchers /\ NoRequest \in RequestRecords
BY NoSnapshotType DEF Waiting, Watchers, NoRequest, RequestRecords, Reasons, NoTrade

LEMMA InitTypes == Init => TypeOK
<1> SUFFICES ASSUME Init PROVE TypeOK
  OBVIOUS
<1>1. /\ watcher \in Watchers /\ request \in RequestRecords /\ snapshot \in Snapshots
      /\ baseline \in Baselines
  BY WaitingType, NoSnapshotType DEF Init, Baselines
<1> QED BY <1>1 DEF Init, TypeOK, Watchers, RequestRecords, NoTrade

LEMMA TypeStep == TypeOK /\ [Next]_vars => TypeOK'
<1> SUFFICES ASSUME TypeOK, [Next]_vars PROVE TypeOK'
  OBVIOUS
<1> USE DEF environment, cache
<1>a. watcher \in Watchers /\ request \in RequestRecords
  BY DEF TypeOK, Watchers, RequestRecords
<1>b. EventReason \in Reasons
  BY DEF EventReason, Reasons
<1>1. CASE OpenTrade \/ CloseTrade
  <2>1. trade' \in [id : Nat, levels : Nat] /\ opened' \in Nat
    BY <1>1 DEF OpenTrade, CloseTrade, TypeOK, NoTrade
  <2>2. request' \in RequestRecords
    BY <1>1, <1>a, <2>1 DEF OpenTrade, CloseTrade, Witness, RequestRecords
  <2> QED BY <1>1, <2>1, <2>2 DEF OpenTrade, CloseTrade, TypeOK, RequestRecords
<1>2. CASE EditLevels \/ Publish \/ Move
  <2>1. trade' \in [id : Nat, levels : Nat]
    BY <1>2 DEF EditLevels, Publish, Move, TypeOK
  <2> QED BY <1>2, <2>1 DEF EditLevels, Publish, Move, TypeOK
<1>10. CASE HoldOff
  BY <1>10, WaitingType DEF HoldOff, Refresh, TypeOK, Watchers
<1>11. CASE EndBackoff
  BY <1>11 DEF EndBackoff, TypeOK
<1>3. CASE Watch \/ NothingToDo \/ ForgetClosedTrade
  <2>1. watcher' \in Watchers
    BY <1>3, <1>a, <1>b, WaitingType DEF Watch, NothingToDo, ForgetClosedTrade, Watchers
  <2> QED BY <1>3, <2>1, NoSnapshotType
      DEF Watch, NothingToDo, ForgetClosedTrade, Clear, TypeOK, Watchers
<1>4. CASE BeginBuild
  <2>1. watcher' \in Watchers
    BY <1>4, <1>a, WaitingType DEF BeginBuild, Watchers, TypeOK
  <2> QED BY <1>4, <2>1, NoSnapshotType DEF BeginBuild, Clear, Refresh, TypeOK, Watchers
<1>5. CASE RunBuilder
  <2>1. [trade |-> trade.id, levels |-> trade.levels, published |-> published, quote |-> quote]
          \in Snapshots
    BY DEF TypeOK, Snapshots
  <2>2. watcher' \in Watchers
    BY <1>5, <1>a, <2>1 DEF RunBuilder, Watchers
  <2> QED BY <1>5, <2>2 DEF RunBuilder, TypeOK, Watchers
<1>6. CASE FinishBuild
  <2>1. /\ watcher.result \in Snapshots /\ watcher.base \in Nat
        /\ watcher.result.quote \in BOOLEAN
    BY <1>a DEF Watchers, Snapshots
  <2>2. Baseline(watcher) \in Baselines
    BY <2>1 DEF Baseline, Baselines, TypeOK
  <2> QED BY <1>6, <2>1, <2>2, WaitingType DEF FinishBuild, TypeOK, Watchers
<1>7. CASE FailBuild
  BY <1>7, WaitingType DEF FailBuild, FailedBuild, TypeOK, Watchers
<1>8. CASE Request
  <2>1. request' \in RequestRecords
    <3>1. snapshot.trade \in Nat /\ trade.id \in Nat /\ trade.levels \in Nat
      BY DEF TypeOK, Snapshots
    <3>2. /\ [request EXCEPT !.at = "admitted"] \in RequestRecords
          /\ [request EXCEPT !.at = "checked", !.seen = {trade.id}] \in RequestRecords
          /\ [request EXCEPT !.at = "served", !.trade = snapshot.trade] \in RequestRecords
          /\ [request EXCEPT !.at = "finalized", !.levels = trade.levels] \in RequestRecords
      BY <1>a, <3>1 DEF RequestRecords
    <3>3. \/ request' = request \/ request' = NoRequest
          \/ request' = [request EXCEPT !.at = "admitted"]
          \/ request' = [request EXCEPT !.at = "checked", !.seen = {trade.id}]
          \/ request' = [request EXCEPT !.at = "served", !.trade = snapshot.trade]
          \/ request' = [request EXCEPT !.at = "finalized", !.levels = trade.levels]
      BY <1>8 DEF Request, Refused, Admit, CheckCached, ReadCached, Finalize, PublishReview,
         StaleReview
    <3> QED BY <1>a, <3>2, <3>3, WaitingType
  <2>2. /\ UNCHANGED <<environment, watcher, backoff, failures, snapshot, baseline>>
        /\ requests' = requests \/ requests' = requests + 1
        /\ \/ UNCHANGED <<invalidated, condemned>>
           \/ invalidated' = TRUE /\ condemned' = (snapshot # NoSnapshot)
    BY <1>8 DEF Request, Refused, Admit, CheckCached, ReadCached, Finalize, PublishReview,
       StaleReview, Refresh
  <2>3. requests' \in Nat
    BY <2>2 DEF TypeOK
  <2>4. invalidated' \in BOOLEAN
    <3>1. CASE invalidated' = invalidated
      BY <3>1 DEF TypeOK
    <3>2. CASE invalidated' = TRUE
      BY <3>2
    <3> QED BY <2>2, <3>1, <3>2
  <2>5. condemned' \in BOOLEAN
    <3>1. CASE condemned' = condemned
      BY <3>1 DEF TypeOK
    <3>2. CASE condemned' = (snapshot # NoSnapshot)
      BY <3>2
    <3> QED BY <2>2, <3>1, <3>2
  <2>6. /\ trade' = trade /\ published' = published /\ market' = market /\ quote' = quote
        /\ moves' = moves /\ opened' = opened /\ watcher' = watcher
        /\ backoff' = backoff /\ failures' = failures
        /\ snapshot' = snapshot /\ baseline' = baseline
    BY <2>2 DEF environment
  <2> QED BY <2>1, <2>3, <2>4, <2>5, <2>6 DEF TypeOK, RequestRecords
<1>9. CASE UNCHANGED vars
  BY <1>9 DEF vars, TypeOK
<1> QED BY <1>1, <1>2, <1>3, <1>4, <1>5, <1>6, <1>7, <1>8, <1>9, <1>10, <1>11 DEF Next, World, Watcher

-----------------------------------------------------------------------------
(* The invariant.                                                          *)

LEMMA InitSafe == Init => Safe
BY DEF Init, Safe, Anchored, Cached, Condemned, Seen, ServedTradeWasActive, Waiting, NoRequest

LEMMA SafeStep == TypeOK /\ TypeOK' /\ Safe /\ [Next]_vars => Safe'
<1> SUFFICES ASSUME TypeOK, TypeOK', Safe, [Next]_vars PROVE Safe'
  OBVIOUS
<1> USE DEF Safe, Anchored, Cached, Condemned, Seen, ServedTradeWasActive, environment, cache
<1>a. watcher \in Watchers /\ request \in RequestRecords /\ snapshot \in Snapshots
  BY DEF TypeOK, Watchers, RequestRecords
<1>1. CASE OpenTrade \/ CloseTrade
  <2>1. /\ request'.at = request.at /\ request'.trade = request.trade
        /\ request.seen \subseteq request'.seen
        /\ request.at \in {"checked", "served"} => trade'.id \in request'.seen
    BY <1>1, <1>a DEF OpenTrade, CloseTrade, Witness, RequestRecords
  <2>2. UNCHANGED <<published, cache, watcher>>
    BY <1>1 DEF OpenTrade, CloseTrade
  <2> QED BY <2>1, <2>2
<1>2. CASE EditLevels \/ Publish \/ Move
  <2>1. /\ trade'.id = trade.id /\ published' >= published
        /\ UNCHANGED <<cache, watcher, request>>
    BY <1>2 DEF EditLevels, Publish, Move, TypeOK
  <2>2. Anchored'
    BY <2>1, <1>a DEF TypeOK, Watchers, Snapshots
  <2>3. Cached'
    BY <2>1, <1>a DEF TypeOK, Snapshots
  <2>4. Condemned' /\ Seen'
    BY <2>1
  <2> QED BY <2>2, <2>3, <2>4
<1>3. CASE Watch \/ NothingToDo
  <2>1. watcher'.at \in {"informed", "waiting"} /\ UNCHANGED <<environment, cache, request>>
    <3>1. CASE Watch
      <4>1. watcher' = [watcher EXCEPT !.at = "informed", !.reason = EventReason]
        BY <3>1 DEF Watch
      <4>2. watcher'.at = "informed"
        BY <4>1, <1>a DEF Watchers
      <4> QED BY <3>1, <4>2 DEF Watch
    <3>2. CASE NothingToDo
      BY <3>2 DEF NothingToDo, Waiting
    <3> QED BY <1>3, <3>1, <3>2
  <2> QED BY <2>1
<1>10. CASE HoldOff
  <2>1. watcher' = Waiting /\ invalidated' /\ UNCHANGED <<environment, snapshot, baseline, request>>
    BY <1>10 DEF HoldOff, Refresh
  <2> QED BY <2>1 DEF Waiting
<1>11. CASE EndBackoff
  BY <1>11 DEF EndBackoff
<1>4. CASE ForgetClosedTrade \/ BeginBuild
  <2>1. CASE snapshot' = NoSnapshot /\ condemned' = FALSE /\ watcher' = Waiting
    BY <1>4, <2>1 DEF ForgetClosedTrade, BeginBuild, Waiting
  <2>2. CASE BeginBuild /\ trade.id # NoTrade
    <3>1. /\ watcher'.at = "building" /\ watcher'.trade = trade.id /\ watcher'.base = published
          /\ invalidated' /\ UNCHANGED <<environment, snapshot, baseline, request>>
      BY <2>2, <1>a DEF BeginBuild, Refresh, Watchers
    <3> QED BY <2>2, <3>1 DEF TypeOK
  <2> QED BY <1>4, <2>1, <2>2 DEF ForgetClosedTrade, BeginBuild, Clear
<1>5. CASE RunBuilder
  <2>1. /\ watcher.at = "building" /\ watcher'.at = "built" /\ watcher'.base = watcher.base
        /\ watcher'.trade = watcher.trade
        /\ watcher'.result.published = published /\ watcher'.result.trade = trade.id
        /\ UNCHANGED <<environment, cache, request>>
    BY <1>5, <1>a DEF RunBuilder, Watchers
  <2> QED BY <2>1 DEF TypeOK
<1>6. CASE FinishBuild
  <2>1. /\ watcher.at = "built" /\ watcher' = Waiting /\ snapshot' = watcher.result
        /\ baseline'.published = watcher.base /\ baseline'.quote = watcher.result.quote
        /\ condemned' = FALSE /\ UNCHANGED <<environment, request>>
    BY <1>6 DEF FinishBuild, Baseline
  <2> QED BY <2>1 DEF Waiting
<1>7. CASE FailBuild
  BY <1>7 DEF FailBuild, FailedBuild, Waiting
<1>8. CASE Request
  <2>1. /\ UNCHANGED <<environment, watcher, snapshot, baseline>>
        /\ \/ UNCHANGED <<invalidated, condemned>>
           \/ invalidated' = TRUE
    BY <1>8 DEF Request, Refused, Admit, CheckCached, ReadCached, Finalize, PublishReview,
       StaleReview, Refresh
  <2>2. Anchored' /\ Cached' /\ Condemned'
    BY <2>1
  <2>3. CASE request' = NoRequest \/ UNCHANGED request \/ request'.at = "admitted"
    BY <2>1, <2>2, <2>3 DEF NoRequest
  <2>4. CASE CheckCached /\ request'.at = "checked"
    <3>0. \/ EventReason = "NONE" /\ request' = [request EXCEPT !.at = "checked", !.seen = {trade.id}]
          \/ request' = NoRequest
      BY <2>4 DEF CheckCached
    <3>1. request'.seen = {trade.id} /\ EventReason = "NONE"
      <4>1. CASE request' = NoRequest
        BY <2>4, <4>1 DEF NoRequest
      <4>2. CASE EventReason = "NONE"
                 /\ request' = [request EXCEPT !.at = "checked", !.seen = {trade.id}]
        BY <4>2, <1>a DEF RequestRecords
      <4> QED BY <3>0, <4>1, <4>2
    <3>2. ~invalidated /\ (snapshot = NoSnapshot \/ snapshot.trade = trade.id)
      BY <3>1 DEF EventReason, Outdated
    <3> QED BY <2>1, <2>2, <2>4, <3>1, <3>2
  <2>5. CASE ReadCached /\ request'.at = "served"
    <3>1. /\ request.at = "checked" /\ snapshot # NoSnapshot
          /\ request'.trade = snapshot.trade /\ request'.seen = request.seen
      <4>1. \/ request' = NoRequest
            \/ /\ snapshot # NoSnapshot
               /\ request' = [request EXCEPT !.at = "served", !.trade = snapshot.trade]
        BY <2>5 DEF ReadCached
      <4>2. request.at = "checked"
        BY <2>5 DEF ReadCached
      <4>3. request' # NoRequest
        BY <2>5 DEF NoRequest
      <4>4. /\ request'.trade = snapshot.trade /\ request'.seen = request.seen
        BY <1>a, <4>1, <4>3 DEF RequestRecords
      <4> QED BY <4>1, <4>2, <4>3, <4>4
    <3> QED BY <2>1, <2>2, <2>5, <3>1
  <2>6. CASE Finalize /\ request'.at = "finalized"
    <3>1. request.at = "served" /\ request'.trade = request.trade /\ request'.seen = request.seen
      BY <2>6, <1>a DEF Finalize, RequestRecords, NoRequest
    <3> QED BY <2>1, <2>2, <2>6, <3>1
  <2> QED BY <1>8, <1>a, <2>3, <2>4, <2>5, <2>6 DEF Request, Refused, Admit, CheckCached,
       ReadCached, Finalize, PublishReview, StaleReview, RequestRecords
<1>9. CASE UNCHANGED vars
  BY <1>9 DEF vars
<1> QED BY <1>1, <1>2, <1>3, <1>4, <1>5, <1>6, <1>7, <1>8, <1>9, <1>10, <1>11 DEF Next, World, Watcher

-----------------------------------------------------------------------------
(* The theorems.                                                           *)

LEMMA SafeAlways == Spec => [](TypeOK /\ Safe)
BY InitTypes, TypeStep, InitSafe, SafeStep, PTL DEF Spec

\* Every variable keeps its type.
THEOREM TypeCorrect == Spec => []TypeOK
BY SafeAlways, PTL

\* A snapshot the event check accepts was built for the active trade, from the current
\* publications and the current quote.
THEOREM AcceptedSnapshot == Spec => []AcceptedIsCurrent
<1>1. TypeOK /\ Safe => AcceptedIsCurrent
  <2> SUFFICES ASSUME TypeOK, Safe, Accepted
               PROVE  /\ snapshot.trade = trade.id
                      /\ snapshot.published = published
                      /\ snapshot.quote = quote
    BY DEF AcceptedIsCurrent
  <2>1. /\ snapshot # NoSnapshot /\ snapshot.trade = trade.id
        /\ baseline = [published |-> published, market |-> market, quote |-> quote]
    BY DEF Accepted, EventReason, Outdated
  <2>2. baseline.published = published /\ baseline.quote = quote
    BY <2>1
  <2> QED BY <2>1, <2>2 DEF Safe, Cached, TypeOK, Snapshots
<1> QED BY <1>1, SafeAlways, PTL

\* What an event has invalidated is not accepted before it has been replaced.
THEOREM CondemnedSnapshot == Spec => []CondemnedIsNotAccepted
<1>1. Safe => CondemnedIsNotAccepted
  BY DEF Safe, Condemned, CondemnedIsNotAccepted, Accepted, EventReason
<1> QED BY <1>1, SafeAlways, PTL

\* A request is given the snapshot of a trade that was active at its check or since,
\* although the lock is released between the check and the read.
THEOREM ServedSnapshot == Spec => []ServedTradeWasActive
<1>1. Safe => ServedTradeWasActive
  BY DEF Safe, Seen
<1> QED BY <1>1, SafeAlways, PTL

\* A build that read what is current is accepted when it ends, however the price moved.
THEOREM CompletedSnapshot == Spec => CompletionIsAccepted
<1>1. TypeOK /\ Safe /\ [Next]_vars =>
        [/\ watcher.at = "built" /\ watcher'.at = "waiting" /\ ~invalidated'
         /\ trade'.id = snapshot'.trade
         /\ published' = watcher.base
         /\ quote' = snapshot'.quote
         => EventReason' = "NONE"]_vars
  <2> SUFFICES ASSUME TypeOK, Safe, Next,
                      watcher.at = "built", watcher'.at = "waiting", ~invalidated',
                      trade'.id = snapshot'.trade, published' = watcher.base,
                      quote' = snapshot'.quote
               PROVE  EventReason' = "NONE"
    BY DEF vars
  <2>1. FinishBuild
    BY DEF Next, World, Watcher, Request, OpenTrade, CloseTrade, EditLevels, Publish, Move, Watch,
       NothingToDo, ForgetClosedTrade, HoldOff, EndBackoff, BeginBuild, RunBuilder, FailBuild, FailedBuild, Refused,
       Admit, CheckCached, ReadCached, Finalize, PublishReview, StaleReview
  <2>2. trade'.id # NoTrade /\ snapshot' # NoSnapshot
    BY <2>1 DEF FinishBuild, Matches, Safe, Anchored, NoSnapshot
  <2>3. baseline' = [published |-> published', market |-> market', quote |-> quote']
    BY <2>1 DEF FinishBuild, Baseline, environment
  <2> QED BY <2>2, <2>3 DEF EventReason, Outdated
<1> QED BY <1>1, SafeAlways, PTL DEF Spec, CompletionIsAccepted
=============================================================================
