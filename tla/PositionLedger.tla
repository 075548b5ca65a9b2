--------------------------- MODULE PositionLedger ---------------------------
(***************************************************************************)
(* The economic state of a user's trade: the row of the journal that the   *)
(* ledger settles, the append-only events of position_management_events,   *)
(* the manual commands a review issues, and the threads of the HTTP server *)
(* and of the market loop that operate on them.                            *)
(*                                                                         *)
(* Sources: seiltanzer/position_state.py, seiltanzer/trade_settlement.py,  *)
(* seiltanzer/trade_delete_lifecycle.py and the trade handlers of          *)
(* seiltanzer/app.py.                                                      *)
(*                                                                         *)
(* The journal and the ledger are two connections to one database, each    *)
(* behind a lock of its own.  A handler reads the trade through the        *)
(* journal, lets go of its lock and calls the ledger with what it read:    *)
(* held[h] is that dictionary, and it may be stale when it is used.        *)
(* Position fractions are multiples of 1/Unit of the initial position.     *)
(***************************************************************************)
EXTENDS Integers, Sequences, SequencesExt

CONSTANTS
  Trades,       \* ids of journal rows, in the order of their opened_at
  Commands,     \* ids of manual commands, in the order of their created_ts
  Requests,     \* request ids of manual fills
  Handlers,     \* server threads
  Geometries,   \* the levels a trade may have: direction, entry, stop, take
  Prices,       \* prices a command, a quote or a fill may name
  Policies,     \* the management policies a review may select
  OrderParts,   \* a conditional order closes one part in so many
  Unit,         \* the initial position, in the smallest fraction modelled
  MaxEvents     \* bound: events one trade may have

ASSUME IdsAreNumbers ==
  Trades \subseteq Nat /\ Commands \subseteq Nat /\ Requests \subseteq Nat

ASSUME UnitIsPositive == Unit \in Nat \ {0} /\ OrderParts \subseteq Nat \ {0}

ASSUME NotEmpty == Trades # {} /\ Geometries # {}

ASSUME PricesAreNumbers == Prices \subseteq Nat

BasePolicies == {"HOLD", "CLOSE_10", "CLOSE_25", "CLOSE_50", "EXIT"}
ConditionalPolicies == {"SCALE_OUT_ON_SPIKE", "TIME_STOP"}
ExtendedPolicies == {"TIGHTEN_STOP", "EXTEND_TAKE", "REDUCE_TAKE"}
                      \cup ConditionalPolicies

ASSUME KnownPolicies == Policies \subseteq BasePolicies \cup ExtendedPolicies

\* Journal._validate_levels: stop and take on opposite sides of the entry.
ASSUME ValidLevels ==
  /\ Geometries \subseteq [long : BOOLEAN, entry : Prices, stop : Prices, take : Prices]
  /\ \A g \in Geometries : IF g.long THEN g.stop < g.entry /\ g.entry < g.take
                                     ELSE g.take < g.entry /\ g.entry < g.stop

VARIABLES
  trades,       \* the rows of the journal
  events,       \* trade -> its position events, oldest first
  commands,     \* management_decisions and llm_shadow_manual_actions
  held          \* handler -> its program counter and the row it read

vars == <<trades, events, commands, held>>

-----------------------------------------------------------------------------
(* Rows, events, commands.                                                 *)

Row == [status : {"none", "open", "closed"}, geo : Geometries, reached : BOOLEAN,
        basis : {"legacy", "ledger", "manual"},
        outcome : {"none", "available", "unavailable", "user"}, deleted : BOOLEAN]

EventTypes == {"TRADE_OPEN", "REDUCTION", "MANUAL_EXIT", "BE_ARM", "STOP", "TAKE",
               "ARM", "CONDITIONAL_FILL", "CANCEL"}

\* The decision_id of an event; events without one share NoKey.
Keys == ({"command", "fill", "cancel"} \X Commands) \cup ({"manual-fill"} \X Requests)
NoKey == <<"none", 0>>

Event == [type : EventTypes, key : Keys \cup {NoKey}, before : 0..Unit, closed : 0..Unit,
          after : 0..Unit, stop : Prices, take : Prices, priced : BOOLEAN]

Statuses == {"unused", "not_required", "pending_execution", "superseded", "armed",
             "executed", "cancelled", "recommended_not_executed", "publication_failed"}

Command == [status : Statuses, trade : Trades, policy : BasePolicies \cup ExtendedPolicies,
            geo : Geometries, version : Nat, price : Prices, parts : Nat \ {0}, due : BOOLEAN]

Held == [pc : {"idle", "opening", "opened", "read", "editing", "edited", "kept", "acknowledged"},
         trade : Trades, row : Row, active : BOOLEAN]

\* Placeholders: no trade, no row, no command.
NoTrade == CHOOSE t \in Trades : TRUE
SomeLevels == CHOOSE g \in Geometries : TRUE

Inserted(g, status) == [status |-> status, geo |-> g, reached |-> FALSE, basis |-> "legacy",
                        outcome |-> "none", deleted |-> FALSE]

NoRow == Inserted(SomeLevels, "none")

Unused == [status |-> "unused", trade |-> NoTrade, policy |-> "HOLD", geo |-> SomeLevels,
           version |-> 0, price |-> SomeLevels.entry, parts |-> 1, due |-> FALSE]

Live(t) == trades[t].status = "open" /\ ~trades[t].deleted

\* Journal.active_trade: the newest open trade that is not deleted.
IsActive(t) == Live(t) /\ \A u \in Trades : Live(u) => u <= t

\* close_fraction_current of a base policy.
PartsOf == [HOLD |-> 1, CLOSE_10 |-> 10, CLOSE_25 |-> 4, CLOSE_50 |-> 2, EXIT |-> 1]

\* Mutant: the part is taken of the initial position.
PortionOfInitial(before, parts) == {k \in 1..Unit : k * parts = Unit}

\* The fraction of before that closing one part in parts takes away; empty when
\* the result is not a multiple of 1/Unit (the grid is a bound of the model).
Portion(before, parts) == {k \in 1..before : k * parts = before}

MakeEvent(type, key, before, closed, stop, take, priced) ==
  [type |-> type, key |-> key, before |-> before, closed |-> closed,
   after |-> before - closed, stop |-> stop, take |-> take, priced |-> priced]

\* PositionLedger.ensure_trade: what the ledger holds once a caller has touched it.
Ensured(t, g) ==
  IF events[t] = <<>> THEN <<MakeEvent("TRADE_OPEN", NoKey, Unit, 0, g.stop, g.take, TRUE)>>
                      ELSE events[t]

\* Mutant: the remainder of the first event, as in a query without its ORDER BY.
RemainingOfFirst(evs) == evs[1].after

Remaining(evs) == evs[Len(evs)].after

\* The newest event of one of these types, 0 when there is none.
NewestOf(evs, types) ==
  LET at == {i \in 1..Len(evs) : evs[i].type \in types}
  IN IF at = {} THEN 0 ELSE CHOOSE i \in at : \A j \in at : j <= i

\* PositionLedger.state: active_stop_price and take, for a trade read with levels g.
ActiveStop(evs, g) == LET i == NewestOf(evs, {"STOP"}) IN IF i = 0 THEN g.stop ELSE evs[i].stop
ActiveTake(evs, g) == LET i == NewestOf(evs, {"TAKE"}) IN IF i = 0 THEN g.take ELSE evs[i].take

\* a protects at least as much as b.
AtLeastAsTight(g, a, b) == IF g.long THEN b <= a ELSE a <= b

\* Mutant: a stop is compared with the price alone.
IsBelowPrice(g, current, active, candidate) ==
  IF g.long THEN candidate < current ELSE current < candidate

\* _is_tighter_stop
IsTighterStop(g, current, active, candidate) ==
  IF g.long THEN active < candidate /\ candidate < current
            ELSE current < candidate /\ candidate < active

\* The take branch of acknowledge_shadow_action.
IsValidTake(g, policy, current, active, candidate) ==
  IF g.long THEN /\ current < candidate
                 /\ (policy = "REDUCE_TAKE" /\ candidate < active)
                      \/ (policy = "EXTEND_TAKE" /\ active < candidate)
            ELSE /\ candidate < current
                 /\ (policy = "REDUCE_TAKE" /\ active < candidate)
                      \/ (policy = "EXTEND_TAKE" /\ candidate < active)

Fills(evs) == {i \in 1..Len(evs) : evs[i].closed > 0}

ClosedInTotal(evs) == FoldLeft(LAMBDA sum, e : sum + e.closed, 0, evs)

\* Mutant: the result is available when the last fill has a price.
SettledByLastFill(row, evs) ==
  IF row.basis = "manual" \/ row.deleted \/ Remaining(evs) > 0 THEN row
  ELSE [row EXCEPT !.status = "closed", !.basis = "ledger",
                   !.outcome = IF evs[Len(evs)].priced THEN "available" ELSE "unavailable"]

\* Mutant: an explicit total is settled over.
SettledOverTotal(row, evs) ==
  IF row.deleted \/ Remaining(evs) > 0 THEN row
  ELSE [row EXCEPT !.status = "closed", !.basis = "ledger",
                   !.outcome = IF \A i \in Fills(evs) : evs[i].priced
                               THEN "available" ELSE "unavailable"]

\* settle_from_ledger: the row after a ledger whose newest event exhausts the
\* position.  Explicit totals, deleted rows and the ambiguous legacy exits stay.
Settled(row, evs) ==
  IF \/ row.basis = "manual"
     \/ row.deleted
     \/ Fills(evs) = {}
     \/ Remaining(evs) > 0
     \/ /\ row.status = "closed"
        /\ row.basis = "legacy"
        /\ \E i \in Fills(evs) : evs[i].type = "MANUAL_EXIT"
  THEN row
  ELSE [row EXCEPT !.status = "closed", !.basis = "ledger",
                   !.outcome = IF /\ \A i \in Fills(evs) : evs[i].priced
                                  /\ ClosedInTotal(evs) = Unit
                               THEN "available" ELSE "unavailable"]

\* Mutant: no unique index on decision_id.
AnyKey(key) == TRUE

KeyIsFree(key) == \A t \in Trades : \A i \in 1..Len(events[t]) : events[t][i].key # key

\* Mutant: the last fill does not settle the row.
RecordOnly(t, evs, e) ==
  /\ Len(evs) < MaxEvents
  /\ e.key # NoKey => KeyIsFree(e.key)
  /\ events' = [events EXCEPT ![t] = Append(evs, e)]
  /\ UNCHANGED trades

\* PositionLedger._event in the transaction of its caller: the insert, which the
\* unique index on decision_id may refuse, and the settlement of the last fill.
Record(t, evs, e) ==
  /\ Len(evs) < MaxEvents
  /\ e.key # NoKey => KeyIsFree(e.key)
  /\ events' = [events EXCEPT ![t] = Append(evs, e)]
  /\ trades' = [trades EXCEPT ![t] =
                  IF e.closed > 0 /\ e.after = 0 THEN Settled(@, Append(evs, e)) ELSE @]

\* _geometry_version: the remaining fraction and the active barriers are functions of
\* the levels read and of the events, and state_version is the number of events.
SameVersion(c, g, evs) == c.geo = g /\ c.version = Len(evs)

\* Mutant: declined commands are superseded again.
SupersedeDeclined(cmds, t, policies) ==
  [c \in Commands |->
     IF /\ cmds[c].trade = t /\ cmds[c].policy \in policies
        /\ cmds[c].status \in {"pending_execution", "recommended_not_executed"}
     THEN [cmds[c] EXCEPT !.status = "superseded"] ELSE cmds[c]]

\* The pending commands of a trade, restricted to a table, become superseded.
Supersede(cmds, t, policies) ==
  [c \in Commands |->
     IF cmds[c].trade = t /\ cmds[c].status = "pending_execution" /\ cmds[c].policy \in policies
     THEN [cmds[c] EXCEPT !.status = "superseded"] ELSE cmds[c]]

AnyPolicy == BasePolicies \cup ExtendedPolicies

\* The newest row of the table that holds command c, failed publications aside.
IsLatest(c) ==
  \A d \in Commands :
    ( /\ commands[d].status \notin {"unused", "publication_failed"}
      /\ commands[d].trade = commands[c].trade
      /\ (commands[d].policy \in BasePolicies <=> commands[c].policy \in BasePolicies) )
    => d <= c

-----------------------------------------------------------------------------
(* Handlers that open, read, edit and delete a trade.                      *)

\* A handler that is about to use only the id of the trade it serves.
At(pc, t) == [pc |-> pc, trade |-> t, row |-> NoRow, active |-> FALSE]

Leave(h) == held' = [held EXCEPT ![h] = At("idle", NoTrade)]
Acknowledged(h) == held' = [held EXCEPT ![h] = At("acknowledged", held[h].trade)]

\* Journal.open_trade looks for an open trade before it takes the lock...
OpenCheck(h) ==
  /\ held[h].pc = "idle"
  /\ \A t \in Trades : ~Live(t)
  /\ held' = [held EXCEPT ![h] = At("opening", NoTrade)]
  /\ UNCHANGED <<trades, events, commands>>

NextRow(t) == \A u \in Trades : u < t <=> trades[u].status # "none"

\* ...and inserts the row under it.
OpenInsert(h, t, g) ==
  /\ held[h].pc = "opening"
  /\ NextRow(t)
  /\ trades' = [trades EXCEPT ![t] = Inserted(g, "open")]
  /\ held' = [held EXCEPT ![h] = [At("opened", t) EXCEPT !.row = Inserted(g, "open")]]
  /\ UNCHANGED <<events, commands>>

\* The handler then opens the ledger with the row it inserted.
OpenLedger(h) ==
  LET t == held[h].trade IN
  /\ held[h].pc = "opened"
  /\ events' = [events EXCEPT ![t] = Ensured(t, held[h].row.geo)]
  /\ Leave(h)
  /\ UNCHANGED <<trades, commands>>

\* Journal.add_closed: a trade of the past, which has no ledger.
AddClosed(t, g) ==
  /\ NextRow(t)
  /\ trades' = [trades EXCEPT ![t] = Inserted(g, "closed")]
  /\ UNCHANGED <<events, commands, held>>

\* Journal.get_trade, the first step of every handler and of a market tick; the
\* acknowledgement handlers also ask whether it is the active trade.
ReadTrade(h, t) ==
  /\ held[h].pc = "idle"
  /\ trades[t].status # "none" /\ ~trades[t].deleted
  /\ held' = [held EXCEPT ![h] = [pc |-> "read", trade |-> t, row |-> trades[t],
                                  active |-> IsActive(t)]]
  /\ UNCHANGED <<trades, events, commands>>

\* A handler whose checks or price lookup fail returns without a write.  So does one
\* that finds a command stale: the UPDATE to superseded before the raise is rolled
\* back with the transaction around it.
Return(h) ==
  /\ held[h].pc \in {"opening", "read", "editing", "kept"}
  /\ Leave(h)
  /\ UNCHANGED <<trades, events, commands>>

\* Any reader of PositionLedger.state writes the missing TRADE_OPEN.
TouchLedger(h) ==
  LET t == held[h].trade IN
  /\ held[h].pc = "read"
  /\ events[t] = <<>>
  /\ events' = [events EXCEPT ![t] = Ensured(t, held[h].row.geo)]
  /\ UNCHANGED <<trades, commands, held>>

\* The edit handler first reads the trade, of which it will use the levels.
ReadForEdit(h, t) ==
  /\ held[h].pc = "idle"
  /\ trades[t].status # "none" /\ ~trades[t].deleted
  /\ held' = [held EXCEPT ![h] = [At("editing", t) EXCEPT !.row.geo = trades[t].geo]]
  /\ UNCHANGED <<trades, events, commands>>

\* Journal.edit_trade, which reads the row again under its own lock: with new levels the
\* maximum R goes.  The handler compares the result with what it had read before, and
\* supersedes, in a transaction of its own, only when the two differ.
EditLevels(h, g) ==
  LET t == held[h].trade IN
  /\ held[h].pc = "editing"
  /\ trades[t].status # "none" /\ ~trades[t].deleted
  /\ g # trades[t].geo \/ g # held[h].row.geo
  /\ trades' = [trades EXCEPT ![t].geo = g, ![t].reached = @ /\ g = trades[t].geo]
  /\ held' = [held EXCEPT ![h] = At(IF g = held[h].row.geo THEN "kept" ELSE "edited", t)]
  /\ UNCHANGED <<events, commands>>

\* Mutant: one of the two tables.
EditSupersedeDecisions(h) ==
  /\ held[h].pc = "edited"
  /\ commands' = Supersede(commands, held[h].trade, BasePolicies)
  /\ Leave(h)
  /\ UNCHANGED <<trades, events>>

EditSupersede(h) ==
  /\ held[h].pc = "edited"
  /\ commands' = Supersede(commands, held[h].trade, AnyPolicy)
  /\ Leave(h)
  /\ UNCHANGED <<trades, events>>

\* Journal.edit_trade with a result: the user's total for the whole trade.
EditResult(t) ==
  /\ trades[t].status # "none" /\ ~trades[t].deleted
  /\ trades' = [trades EXCEPT ![t].basis = "manual", ![t].outcome = "user"]
  /\ UNCHANGED <<events, commands, held>>

\* The lifecycle's delete_trade: one transaction on the journal's connection.
DeleteTrade(t) ==
  /\ trades[t].status # "none" /\ ~trades[t].deleted
  /\ trades' = [trades EXCEPT ![t].deleted = TRUE]
  /\ commands' = Supersede(commands, t, BasePolicies)
  /\ UNCHANGED <<events, held>>

\* Journal.update_max_r, which ends a market tick: it measured 1.5 R against the levels
\* it had read, whatever they are by now.
ReachTrigger(h) ==
  LET t == held[h].trade IN
  /\ held[h].pc = "read"
  /\ held[h].row.status = "open"
  /\ ~trades[t].deleted
  /\ trades' = [trades EXCEPT ![t].reached = TRUE]
  /\ Leave(h)
  /\ UNCHANGED <<events, commands>>

\* PositionLedger.sync_be: the strategy's break-even trigger, once per stop.
SyncBreakEven(h) ==
  LET t == held[h].trade
      g == held[h].row.geo
      evs == Ensured(t, g)
      i == NewestOf(evs, {"BE_ARM", "STOP"})
      active == IF i = 0 THEN g.stop ELSE evs[i].stop
  IN
  /\ held[h].pc = "read"
  /\ held[h].row.status = "open" /\ held[h].row.reached
  /\ IF g.long THEN active < g.entry ELSE g.entry < active
  /\ Record(t, evs, MakeEvent("BE_ARM", NoKey, Remaining(evs), 0,
                              g.entry, ActiveTake(evs, g), FALSE))
  /\ UNCHANGED <<commands, held>>

-----------------------------------------------------------------------------
(* Publishing a review.                                                    *)

\* execution_reconciliation: published work of a trade whose fate is unknown.
Unresolved(t, evs, g) ==
  {c \in Commands :
     /\ commands[c].trade = t
     /\ \/ /\ commands[c].policy \in BasePolicies \ {"HOLD"}
           /\ commands[c].status \in {"pending_execution", "superseded"}
        \/ /\ commands[c].policy \in ExtendedPolicies
           /\ commands[c].status = "pending_execution"
        \/ /\ commands[c].policy = "TIGHTEN_STOP"
           /\ commands[c].status = "superseded"
           /\ ~AtLeastAsTight(g, ActiveStop(evs, g), commands[c].price)}

\* register_shadow_action refuses a conditional order of a policy already armed.
AlreadyArmed(t, policy) ==
  \E c \in Commands : commands[c].trade = t /\ commands[c].policy = policy
                        /\ commands[c].status = "armed"

\* ...and a stop weaker than one the user may have installed (pending_stop_reference).
WeakensReference(t, price) ==
  \E c \in Commands :
    /\ commands[c].trade = t /\ commands[c].policy = "TIGHTEN_STOP"
    /\ commands[c].status \in {"pending_execution", "superseded"}
    /\ ~AtLeastAsTight(trades[t].geo, price, commands[c].price)

\* The price and the parts a policy may be published with; what it does not name is fixed.
Terms(policy, g) ==
  CASE policy \in BasePolicies -> {g.entry} \X {PartsOf[policy]}
    [] policy = "TIME_STOP" -> {g.entry} \X {1}
    [] policy = "SCALE_OUT_ON_SPIKE" -> Prices \X OrderParts
    [] OTHER -> Prices \X {1}

MakeCommand(t, policy, version, price, parts) ==
  [status |-> IF policy = "HOLD" THEN "not_required" ELSE "pending_execution",
   trade |-> t, policy |-> policy, geo |-> trades[t].geo, version |-> version,
   price |-> price, parts |-> parts, due |-> FALSE]

NextCommand(c) == \A d \in Commands : d < c <=> commands[d].status # "unused"

\* _publish_unified_review, when nothing fails: the position must have no unresolved
\* command, then the winner is registered and every other pending command superseded.
PublishReview(t, c, policy, price, parts) ==
  LET evs == Ensured(t, trades[t].geo) IN
  /\ IsActive(t) /\ NextCommand(c)
  /\ <<price, parts>> \in Terms(policy, trades[t].geo)
  /\ Unresolved(t, evs, trades[t].geo) = {}
  /\ policy # "HOLD" => Remaining(evs) > 0
  /\ policy \in ConditionalPolicies => ~AlreadyArmed(t, policy)
  /\ policy = "TIGHTEN_STOP" => ~WeakensReference(t, price)
  /\ events' = [events EXCEPT ![t] = evs]
  /\ commands' = [Supersede(commands, t, AnyPolicy) EXCEPT ![c] =
                    MakeCommand(t, policy, Len(evs), price, parts)]
  /\ UNCHANGED <<trades, held>>

\* The deadline of a TIME_STOP passes.
DeadlinePasses(c) ==
  /\ commands[c].status # "unused" /\ commands[c].policy = "TIME_STOP" /\ ~commands[c].due
  /\ commands' = [commands EXCEPT ![c].due = TRUE]
  /\ UNCHANGED <<trades, events, held>>

-----------------------------------------------------------------------------
(* Acknowledgements, fills and exits.  Each is one transaction under the   *)
(* ledger's lock, on the trade the handler read.                           *)

\* Mutant: the event is written, the receipt is not.
NoReceipt(c, status) == UNCHANGED commands

Receipt(c, status) == commands' = [commands EXCEPT ![c].status = status]

\* execution_trade accepted the handler's trade.
MayAcknowledge(h, c) ==
  held[h].pc = "read" /\ held[h].active /\ commands[c].status # "unused"
    /\ commands[c].trade = held[h].trade

\* A broker never executed it: accepted even for a superseded command.
AcknowledgeNotExecuted(h, c) ==
  /\ MayAcknowledge(h, c)
  /\ commands[c].status \in {"pending_execution", "superseded"}
  /\ events' = [events EXCEPT ![held[h].trade] = Ensured(held[h].trade, held[h].row.geo)]
  /\ Receipt(c, "recommended_not_executed")
  /\ Acknowledged(h)
  /\ UNCHANGED trades

\* The guards a pending command must pass to be executed or armed.
IsCurrent(c, g, evs) ==
  /\ commands[c].status = "pending_execution"
  /\ IsLatest(c)
  /\ SameVersion(commands[c], g, evs)

\* acknowledge: a confirmed reduction of the current remainder.
AcknowledgeReduction(h, c, priced) ==
  LET t == held[h].trade
      g == held[h].row.geo
      evs == Ensured(t, g)
  IN
  /\ MayAcknowledge(h, c)
  /\ commands[c].policy \in BasePolicies \ {"HOLD"}
  /\ IsCurrent(c, g, evs)
  /\ \E k \in Portion(Remaining(evs), commands[c].parts) :
       Record(t, evs, MakeEvent("REDUCTION", <<"command", c>>, Remaining(evs), k,
                                ActiveStop(evs, g), g.take, priced))
  /\ Receipt(c, "executed")
  /\ Acknowledged(h)

\* acknowledge_shadow_action on a stop or a take, at the broker's current price.
AcknowledgeBarrier(h, c, current) ==
  LET t == held[h].trade
      g == held[h].row.geo
      evs == Ensured(t, g)
      price == commands[c].price
      Move(type, stop, take) ==
        Record(t, evs, MakeEvent(type, <<"command", c>>, Remaining(evs), 0, stop, take, TRUE))
  IN
  /\ MayAcknowledge(h, c)
  /\ IsCurrent(c, g, evs)
  /\ \/ /\ commands[c].policy = "TIGHTEN_STOP"
        /\ IsTighterStop(g, current, ActiveStop(evs, g), price)
        /\ Move("STOP", price, ActiveTake(evs, g))
     \/ /\ commands[c].policy \in {"EXTEND_TAKE", "REDUCE_TAKE"}
        /\ IsValidTake(g, commands[c].policy, current, ActiveTake(evs, g), price)
        /\ Move("TAKE", ActiveStop(evs, g), price)
  /\ Receipt(c, "executed")
  /\ Acknowledged(h)

\* acknowledge_shadow_action on a conditional order: the broker holds it.
AcknowledgeArm(h, c, current) ==
  LET t == held[h].trade
      g == held[h].row.geo
      evs == Ensured(t, g)
      take == ActiveTake(evs, g)
      price == commands[c].price
  IN
  /\ MayAcknowledge(h, c)
  /\ IsCurrent(c, g, evs)
  /\ \/ /\ commands[c].policy = "SCALE_OUT_ON_SPIKE"
        /\ IF g.long THEN current < price /\ price <= take
                     ELSE take <= price /\ price < current
     \/ commands[c].policy = "TIME_STOP" /\ ~commands[c].due
  /\ Record(t, evs, MakeEvent("ARM", <<"command", c>>, Remaining(evs), 0,
                              ActiveStop(evs, g), take, TRUE))
  /\ Receipt(c, "armed")
  /\ Acknowledged(h)

\* Mutant: the size follows the position.
RemainingNow(evs, c) == {Remaining(evs)}

\* The size of an armed scale-out was fixed by the position it was armed on.
ArmedBefore(evs, c) ==
  LET arms == {i \in 1..Len(evs) : evs[i].type = "ARM" /\ evs[i].key = <<"command", c>>}
  IN {evs[i].before : i \in arms}

OrderSize(evs, c) ==
  IF commands[c].policy = "TIME_STOP" THEN {Remaining(evs)}
  ELSE UNION {Portion(b, commands[c].parts) : b \in ArmedBefore(evs, c)}

\* acknowledge_shadow_action on an armed order the broker filled at this price.
AcknowledgeConditionalFill(h, c, price, priced) ==
  LET t == held[h].trade
      g == held[h].row.geo
      evs == Ensured(t, g)
  IN
  /\ MayAcknowledge(h, c)
  /\ commands[c].status = "armed"
  /\ Remaining(evs) > 0
  /\ commands[c].policy = "TIME_STOP" => commands[c].due
  /\ commands[c].policy = "SCALE_OUT_ON_SPIKE" => AtLeastAsTight(g, price, commands[c].price)
  /\ \E k \in OrderSize(evs, c) :
       /\ k <= Remaining(evs)
       /\ Record(t, evs, MakeEvent("CONDITIONAL_FILL", <<"fill", c>>, Remaining(evs), k,
                                   ActiveStop(evs, g), ActiveTake(evs, g), priced))
  /\ Receipt(c, "executed")
  /\ Acknowledged(h)

\* acknowledge_shadow_action on an armed order the user cancelled.
AcknowledgeCancel(h, c) ==
  LET t == held[h].trade
      g == held[h].row.geo
      evs == Ensured(t, g)
  IN
  /\ MayAcknowledge(h, c)
  /\ commands[c].status = "armed"
  /\ Record(t, evs, MakeEvent("CANCEL", <<"cancel", c>>, Remaining(evs), 0,
                              ActiveStop(evs, g), ActiveTake(evs, g), FALSE))
  /\ Receipt(c, "cancelled")
  /\ Acknowledged(h)

\* record_manual_fill: any part of the remainder, once per request id.
ManualFill(h, r, k) ==
  LET t == held[h].trade
      g == held[h].row.geo
      evs == Ensured(t, g)
  IN
  /\ held[h].pc = "read"
  /\ held[h].row.status = "open"
  /\ KeyIsFree(<<"manual-fill", r>>)
  /\ k \in 1..Remaining(evs)
  /\ Record(t, evs, MakeEvent("REDUCTION", <<"manual-fill", r>>, Remaining(evs), k,
                              ActiveStop(evs, g), ActiveTake(evs, g), TRUE))
  /\ Acknowledged(h)
  /\ UNCHANGED commands

\* A network retry of a receipt or of a fill that is already recorded writes nothing
\* and goes on to complete_ack; the trade may have been closed by it meanwhile.
RetriedReceipt(h) ==
  LET t == held[h].trade IN
  /\ held[h].pc = "read"
  /\ \/ /\ held[h].active \/ held[h].row.status = "closed"
        /\ \E c \in Commands : commands[c].trade = t /\ commands[c].status = "executed"
     \/ \E r \in Requests : \E i \in 1..Len(events[t]) : events[t][i].key = <<"manual-fill", r>>
  /\ Acknowledged(h)
  /\ UNCHANGED <<trades, events, commands>>

\* Mutant: the receipt closes the trade and leaves its commands.
CompleteNothing(h) ==
  /\ held[h].pc = "acknowledged"
  /\ Leave(h)
  /\ UNCHANGED <<trades, events, commands>>

\* complete_ack: a trade the receipt closed has nothing left to execute.
CompleteAck(h) ==
  LET t == held[h].trade IN
  /\ held[h].pc = "acknowledged"
  /\ commands' = IF trades[t].status = "closed" /\ ~trades[t].deleted
                 THEN Supersede(commands, t, AnyPolicy) ELSE commands
  /\ Leave(h)
  /\ UNCHANGED <<trades, events>>

\* terminal_exit, called by the close handler: exit, settlement, the user's total when
\* there is one, and the pending commands, in one transaction.
TerminalExit(h, total, priced) ==
  LET t == held[h].trade
      g == held[h].row.geo
      evs == Ensured(t, g)
      exit == MakeEvent("MANUAL_EXIT", NoKey, Remaining(evs), Remaining(evs),
                        ActiveStop(evs, g), g.take, priced)
      settled == Settled(trades[t], Append(evs, exit))
  IN
  /\ held[h].pc = "read"
  /\ held[h].row.status = "open"
  /\ Remaining(evs) > 0 /\ Len(evs) < MaxEvents
  /\ events' = [events EXCEPT ![t] = Append(evs, exit)]
  /\ trades' = [trades EXCEPT ![t] =
                  IF total THEN [settled EXCEPT !.basis = "manual", !.outcome = "user"]
                           ELSE settled]
  /\ commands' = Supersede(commands, t, AnyPolicy)
  /\ Leave(h)

-----------------------------------------------------------------------------
Init ==
  /\ trades = [t \in Trades |-> NoRow]
  /\ events = [t \in Trades |-> <<>>]
  /\ commands = [c \in Commands |-> Unused]
  /\ held = [h \in Handlers |-> At("idle", NoTrade)]

OpeningStep(h) ==
  \/ OpenCheck(h)
  \/ \E t \in Trades, g \in Geometries : OpenInsert(h, t, g)
  \/ OpenLedger(h)

EditingStep(h) ==
  \/ \E t \in Trades : ReadForEdit(h, t)
  \/ \E g \in Geometries : EditLevels(h, g)
  \/ EditSupersede(h)

MarketStep(h) == ReachTrigger(h) \/ SyncBreakEven(h)

AcknowledgementStep(h) ==
  \/ \E c \in Commands : AcknowledgeNotExecuted(h, c) \/ AcknowledgeCancel(h, c)
  \/ \E c \in Commands, b \in BOOLEAN : AcknowledgeReduction(h, c, b)
  \/ \E c \in Commands, p \in Prices : AcknowledgeBarrier(h, c, p) \/ AcknowledgeArm(h, c, p)
  \/ \E c \in Commands, p \in Prices, b \in BOOLEAN : AcknowledgeConditionalFill(h, c, p, b)
  \/ \E r \in Requests, k \in 1..Unit : ManualFill(h, r, k)
  \/ RetriedReceipt(h) \/ CompleteAck(h)

HandlerStep(h) ==
  \/ OpeningStep(h) \/ EditingStep(h) \/ MarketStep(h) \/ AcknowledgementStep(h)
  \/ \E t \in Trades : ReadTrade(h, t)
  \/ Return(h) \/ TouchLedger(h)
  \/ \E total, priced \in BOOLEAN : TerminalExit(h, total, priced)

JournalStep ==
  \/ \E t \in Trades, g \in Geometries : AddClosed(t, g)
  \/ \E t \in Trades : EditResult(t) \/ DeleteTrade(t)

ReviewStep ==
  \/ \E t \in Trades, c \in Commands, policy \in Policies, price \in Prices, parts \in {1, 2, 4, 10} \cup OrderParts :
       PublishReview(t, c, policy, price, parts)
  \/ \E c \in Commands : DeadlinePasses(c)

\* The server process restarts: what the handlers had read is lost.
Restart ==
  /\ \E h \in Handlers : held[h].pc # "idle"
  /\ held' = [h \in Handlers |-> At("idle", NoTrade)]
  /\ UNCHANGED <<trades, events, commands>>

Step == (\E h \in Handlers : HandlerStep(h)) \/ JournalStep \/ ReviewStep

Next == Step \/ Restart

Spec == Init /\ [][Next]_vars

\* The behaviours of one life of the process, in which a handler that has written
\* goes on to its second transaction.
Uninterrupted == Init /\ [][Step]_vars

FairSpec ==
  Uninterrupted /\ \A h \in Handlers : WF_vars(EditSupersede(h)) /\ WF_vars(CompleteAck(h))

-----------------------------------------------------------------------------
(* Properties.                                                             *)

\* Every row, event, command and handler is of the shape its table declares.
TypeOK ==
  /\ trades \in [Trades -> Row]
  /\ events \in [Trades -> Seq(Event)]
  /\ commands \in [Commands -> Command]
  /\ held \in [Handlers -> Held]

\* A ledger begins with the whole position, every event starts from the fraction the
\* event before it left, and leaves what it did not close (_event is given before,
\* closed and after by six different callers).
IsChain(evs) ==
  /\ evs[1].before = Unit
  /\ \A i \in 1..Len(evs) : evs[i].after = evs[i].before - evs[i].closed
  /\ \A i \in 2..Len(evs) : evs[i].before = evs[i - 1].after

LedgerChain == \A t \in Trades : events[t] # <<>> => IsChain(events[t])

\* One decision_id creates at most one event, whichever trade a retried or doubled
\* request names.
OneEventPerDecision ==
  \A t, u \in Trades : \A i \in 1..Len(events[t]), j \in 1..Len(events[u]) :
    events[t][i].key = events[u][j].key =>
      events[t][i].key = NoKey \/ (t = u /\ i = j)

\* The events written on the strength of command c, under one kind of key.
Backing(c, kind) == {i \in 1..Len(events[commands[c].trade]) :
                       events[commands[c].trade][i].key = <<kind, c>>}

\* The status of a command and the ledger agree, after any order of receipts, retries
\* and restarts: executed, armed and cancelled each stand on their event, and no
\* command in another state has moved the position.
ReceiptMatchesLedger ==
  \A c \in Commands :
    IF commands[c].policy \in ConditionalPolicies
    THEN /\ commands[c].status = "executed" <=> Backing(c, "fill") # {}
         /\ commands[c].status = "cancelled" <=> Backing(c, "cancel") # {}
         /\ commands[c].status \in {"armed", "executed", "cancelled"}
              <=> Backing(c, "command") # {}
    ELSE commands[c].status = "executed" <=> Backing(c, "command") # {}

\* A trade whose ledger is exhausted is closed, unless the user has given its total
\* or deleted it; and one that was settled from its ledger has nothing left.
FilledTradeIsClosed ==
  \A t \in Trades :
    /\ ( /\ events[t] # <<>> /\ Remaining(events[t]) = 0
         /\ ~trades[t].deleted /\ trades[t].basis # "manual" ) => trades[t].status = "closed"
    /\ trades[t].basis = "ledger" => trades[t].status = "closed" /\ Remaining(events[t]) = 0

\* A result computed by the ledger is available exactly when every fill has a price:
\* an unpriced fill, however early, never counts as zero.
AvailableResultIsPriced ==
  \A t \in Trades : trades[t].basis = "ledger" =>
    ( trades[t].outcome = "available" <=>
        \A i \in Fills(events[t]) : events[t][i].priced )

\* A conditional scale-out fills for the part of the position it was armed on, even
\* when other fills came between the order and its fill.
ScaleOutKeepsItsSize ==
  \A c \in Commands : \A i \in Backing(c, "fill") :
    commands[c].policy = "SCALE_OUT_ON_SPIKE" =>
      \E j \in Backing(c, "command") :
        /\ j < i
        /\ events[commands[c].trade][i].closed * commands[c].parts
             = events[commands[c].trade][j].before

\* A closed trade asks for nothing: only its receipt's own handler, on its way to
\* complete_ack, may still see a pending command.
ClosedTradeHasNoPending ==
  \A c \in Commands :
    LET t == commands[c].trade IN
    commands[c].status = "pending_execution" /\ trades[t].status = "closed"
      /\ ~trades[t].deleted => \E h \in Handlers : held[h].pc = "acknowledged" /\ held[h].trade = t

\* What a receipt may still become: a superseded command can only be declined, an
\* armed order only filled or cancelled, and a final receipt nothing.
Successors ==
  [s \in Statuses |->
     CASE s = "unused" -> {"pending_execution", "not_required"}
       [] s = "pending_execution" -> {"superseded", "armed", "executed", "recommended_not_executed"}
       [] s = "superseded" -> {"recommended_not_executed"}
       [] s = "armed" -> {"executed", "cancelled"}
       [] OTHER -> {}]

ReceiptIsFinal ==
  [][\A c \in Commands : commands'[c].status # commands[c].status =>
       commands'[c].status \in Successors[commands[c].status]]_vars

\* The total the user reported for a trade survives every later fill and exit.
ExplicitTotalKept ==
  [][\A t \in Trades : trades[t].basis = "manual" =>
       trades'[t].basis = "manual" /\ trades'[t].outcome = "user"]_vars

\* While nobody edits the levels, and no handler still holds levels from before an
\* edit, no step of any actor widens the active stop.
HoldsOldLevels(t) ==
  \E h \in Handlers : held[h].pc = "read" /\ held[h].trade = t /\ held[h].row.geo # trades[t].geo

StopNeverLoosens ==
  [][\A t \in Trades :
       trades'[t].geo = trades[t].geo /\ trades[t].status # "none" /\ ~HoldsOldLevels(t) =>
         AtLeastAsTight(trades[t].geo, ActiveStop(events'[t], trades[t].geo),
                        ActiveStop(events[t], trades[t].geo))]_vars

\* A command issued for levels the user has since edited is withdrawn, however edits,
\* publications and receipts interleave, as long as no edit puts back the very levels its
\* handler had read before another edit: to that handler nothing has changed.
IssuedForOldLevels(c) ==
  commands[c].status = "pending_execution" /\ commands[c].geo # trades[commands[c].trade].geo

PutBack(t) == \E h \in Handlers : held[h].pc = "kept" /\ held[h].trade = t

OldLevelsAreWithdrawn ==
  (\A t \in Trades : []~PutBack(t)) =>
    \A c \in Commands : IssuedForOldLevels(c) ~> ~IssuedForOldLevels(c)

\* What docs/TRADE_POSITION_STATE_CONTRACT.md:5 says without that condition: a geometry
\* change supersedes the pending decisions.  Two overlapping edits break it.
GeometryChangeSupersedes ==
  \A c \in Commands : IssuedForOldLevels(c) ~> ~IssuedForOldLevels(c)

-----------------------------------------------------------------------------
(* The ledger implements the book of exposures: PositionBook.              *)

Exposure == [t \in Trades |-> IF events[t] = <<>> THEN Unit ELSE Remaining(events[t])]

Confirmed ==
  (UNION {{events[t][i].key : i \in 1..Len(events[t])} : t \in Trades}) \ {NoKey}

Book == INSTANCE PositionBook
          WITH Receipts <- Keys, exposure <- Exposure, confirmed <- Confirmed

\* Whatever the handlers interleave, the exposure of a trade is only ever reduced, by no
\* more than is left, and by a receipt at most once.
ImplementsBook == Book!Spec
=============================================================================
