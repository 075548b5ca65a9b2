------------------------ MODULE PositionLedgerProofs ------------------------
(***************************************************************************)
(* Proofs about PositionLedger for every number of trades, commands,       *)
(* requests and handlers, any levels, prices and position granularity.     *)
(***************************************************************************)
EXTENDS PositionLedger, SequenceTheorems, WellFoundedInduction, TLAPS

-----------------------------------------------------------------------------
(* Operators of the ledger.                                                *)

\* A non-empty set of positions of a sequence has a greatest one.
LEMMA GreatestPosition ==
  ASSUME NEW n \in Nat, NEW S, S \subseteq 1..n, S # {}
  PROVE  \E i \in S : \A j \in S : j <= i
<1> DEFINE T == {k \in Nat : n - k \in S}
<1>1. T # {}
  <2>1. PICK i \in S : TRUE OBVIOUS
  <2>2. n - i \in Nat /\ n - (n - i) = i BY <2>1
  <2> QED BY <2>1, <2>2
<1>2. \E x \in T : \A y \in T : ~(<<y, x>> \in OpToRel(<, Nat))
  <2>1. T \subseteq Nat OBVIOUS
  <2> QED BY <1>1, <2>1, NatLessThanWellFounded, WFMin
<1>3. PICK x \in T : \A y \in T : ~(<<y, x>> \in OpToRel(<, Nat)) BY <1>2
<1>4. \A y \in T : ~(y < x) BY <1>3 DEF OpToRel
<1>5. \A j \in S : j <= n - x
  <2> TAKE j \in S
  <2>1. j \in 1..n OBVIOUS
  <2>2. n - j \in Nat /\ n - (n - j) = j BY <2>1
  <2>3. n - j \in T BY <2>2
  <2>4. ~(n - j < x) /\ x \in Nat BY <1>4, <2>3
  <2> QED BY <2>1, <2>4
<1>6. n - x \in S BY <1>3
<1> QED BY <1>5, <1>6

\* NewestOf is 0 or the position of an event of one of the types, the last such.
LEMMA NewestOfProperties ==
  ASSUME NEW evs \in Seq(Event), NEW types
  PROVE  LET i == NewestOf(evs, types)
         IN  /\ i \in 0..Len(evs)
             /\ i # 0 => evs[i].type \in types
             /\ \A j \in 1..Len(evs) : evs[j].type \in types => j <= i
<1> DEFINE at == {i \in 1..Len(evs) : evs[i].type \in types}
<1>1. Len(evs) \in Nat OBVIOUS
<1>2. CASE at = {}
  <2>1. NewestOf(evs, types) = 0 BY <1>2 DEF NewestOf
  <2> QED BY <1>1, <1>2, <2>1
<1>3. CASE at # {}
  <2>1. \E i \in at : \A j \in at : j <= i
    <3>1. at \subseteq 1..Len(evs) OBVIOUS
    <3> HIDE DEF at
    <3> QED BY <1>1, <1>3, <3>1, GreatestPosition
  <2>2. NewestOf(evs, types) = CHOOSE i \in at : \A j \in at : j <= i BY <1>3 DEF NewestOf
  <2>3. NewestOf(evs, types) \in at /\ \A j \in at : j <= NewestOf(evs, types)
    <3> HIDE DEF at
    <3> QED BY <2>1, <2>2
  <2> QED BY <2>3
<1> QED BY <1>2, <1>3

\* The active barriers of a well-formed ledger are prices.
LEMMA ActiveBarriers ==
  ASSUME NEW evs \in Seq(Event), NEW g \in Geometries
  PROVE  ActiveStop(evs, g) \in Prices /\ ActiveTake(evs, g) \in Prices
<1>1. g.stop \in Prices /\ g.take \in Prices /\ g.entry \in Prices BY ValidLevels
<1>2. \A i \in 1..Len(evs) : evs[i].stop \in Prices /\ evs[i].take \in Prices
  <2>1. \A i \in 1..Len(evs) : evs[i] \in Event BY ElementOfSeq
  <2> QED BY <2>1 DEF Event
<1>3. NewestOf(evs, {"STOP"}) \in 0..Len(evs) /\ NewestOf(evs, {"TAKE"}) \in 0..Len(evs)
  BY NewestOfProperties
<1>4. Len(evs) \in Nat OBVIOUS
<1>5. ActiveStop(evs, g) \in Prices
  <2>1. CASE NewestOf(evs, {"STOP"}) = 0 BY <1>1, <2>1 DEF ActiveStop
  <2>2. CASE NewestOf(evs, {"STOP"}) # 0
    <3>1. NewestOf(evs, {"STOP"}) \in 1..Len(evs) BY <1>3, <1>4, <2>2
    <3> QED BY <1>2, <2>2, <3>1 DEF ActiveStop
  <2> QED BY <2>1, <2>2
<1>6. ActiveTake(evs, g) \in Prices
  <2>1. CASE NewestOf(evs, {"TAKE"}) = 0 BY <1>1, <2>1 DEF ActiveTake
  <2>2. CASE NewestOf(evs, {"TAKE"}) # 0
    <3>1. NewestOf(evs, {"TAKE"}) \in 1..Len(evs) BY <1>3, <1>4, <2>2
    <3> QED BY <1>2, <2>2, <3>1 DEF ActiveTake
  <2> QED BY <2>1, <2>2
<1> QED BY <1>5, <1>6

\* MakeEvent builds an event when it closes no more than there was.
LEMMA MakeEventType ==
  ASSUME NEW type \in EventTypes, NEW key \in Keys \cup {NoKey},
         NEW before \in 0..Unit, NEW closed \in 0..before,
         NEW stop \in Prices, NEW take \in Prices, NEW priced \in BOOLEAN
  PROVE  MakeEvent(type, key, before, closed, stop, take, priced) \in Event
<1>1. before - closed \in 0..Unit BY UnitIsPositive
<1>2. closed \in 0..Unit BY UnitIsPositive
<1> QED BY <1>1, <1>2 DEF MakeEvent, Event

\* The placeholders are of the shapes they stand in for.
LEMMA Placeholders ==
  /\ NoTrade \in Trades
  /\ SomeLevels \in Geometries
  /\ \A g \in Geometries : g.long \in BOOLEAN /\ g.entry \in Prices
                            /\ g.stop \in Prices /\ g.take \in Prices
  /\ \A g \in Geometries : \A s \in {"none", "open", "closed"} : Inserted(g, s) \in Row
  /\ NoRow \in Row
  /\ Unused \in Command
<1>1. NoTrade \in Trades BY NotEmpty DEF NoTrade
<1>2. SomeLevels \in Geometries BY NotEmpty DEF SomeLevels
<1>3. \A g \in Geometries : g.long \in BOOLEAN /\ g.entry \in Prices
                             /\ g.stop \in Prices /\ g.take \in Prices
  BY ValidLevels
<1>4. \A g \in Geometries : \A s \in {"none", "open", "closed"} : Inserted(g, s) \in Row
  BY DEF Inserted, Row
<1>5. NoRow \in Row BY <1>2, <1>4 DEF NoRow
<1>6. Unused \in Command BY <1>1, <1>2, <1>3 DEF Unused, Command, Statuses, BasePolicies
<1> QED BY <1>1, <1>2, <1>3, <1>4, <1>5, <1>6

\* What remains according to a well-formed ledger is a fraction of the position.
LEMMA RemainingType ==
  ASSUME NEW evs \in Seq(Event), evs # <<>>
  PROVE  Remaining(evs) \in 0..Unit
<1>1. Len(evs) \in 1..Len(evs) BY EmptySeq, LenProperties
<1>2. evs[Len(evs)] \in Event BY <1>1, ElementOfSeq
<1> QED BY <1>2 DEF Remaining, Event

\* Touching a ledger leaves it well-formed and never empty.
LEMMA EnsuredType ==
  ASSUME TypeOK, NEW t \in Trades, NEW g \in Geometries
  PROVE  /\ Ensured(t, g) \in Seq(Event)
         /\ Ensured(t, g) # <<>>
         /\ Remaining(Ensured(t, g)) \in 0..Unit
<1>1. events[t] \in Seq(Event) BY DEF TypeOK
<1>2. MakeEvent("TRADE_OPEN", NoKey, Unit, 0, g.stop, g.take, TRUE) \in Event
  <2>1. Unit \in 0..Unit /\ 0 \in 0..Unit BY UnitIsPositive
  <2>2. g.stop \in Prices /\ g.take \in Prices BY Placeholders
  <2>3. "TRADE_OPEN" \in EventTypes BY DEF EventTypes
  <2> QED BY <2>1, <2>2, <2>3, MakeEventType
<1>3. Ensured(t, g) \in Seq(Event) /\ Ensured(t, g) # <<>>
  <2> DEFINE opening == MakeEvent("TRADE_OPEN", NoKey, Unit, 0, g.stop, g.take, TRUE)
  <2>1. opening \in Event BY <1>2
  <2> HIDE DEF opening
  <2>2. <<opening>> \in Seq(Event) /\ <<opening>> # <<>> BY <2>1
  <2>3. Ensured(t, g) = IF events[t] = <<>> THEN <<opening>> ELSE events[t]
    BY DEF Ensured, opening
  <2> QED BY <1>1, <2>2, <2>3
<1> QED BY <1>3, RemainingType

\* Settling a row gives a row.
LEMMA SettledType ==
  ASSUME NEW row \in Row, NEW evs
  PROVE  Settled(row, evs) \in Row
BY DEF Settled, Row

\* Superseding changes statuses only.
LEMMA SupersedeType ==
  ASSUME commands \in [Commands -> Command], NEW t, NEW policies
  PROVE  Supersede(commands, t, policies) \in [Commands -> Command]
<1> SUFFICES ASSUME NEW c \in Commands
             PROVE  Supersede(commands, t, policies)[c] \in Command
  BY DEF Supersede
<1>1. commands[c] \in Command OBVIOUS
<1>2. [commands[c] EXCEPT !.status = "superseded"] \in Command
  BY <1>1 DEF Command, Statuses
<1> QED BY <1>1, <1>2 DEF Supersede

\* An event written by Record leaves rows and ledgers well-formed.
LEMMA RecordType ==
  ASSUME TypeOK, NEW t \in Trades, NEW evs \in Seq(Event), NEW e \in Event,
         Record(t, evs, e)
  PROVE  trades' \in [Trades -> Row] /\ events' \in [Trades -> Seq(Event)]
<1>1. Append(evs, e) \in Seq(Event) BY AppendProperties
<1>2. events' \in [Trades -> Seq(Event)] BY <1>1 DEF Record, TypeOK
<1>3. trades[t] \in Row BY DEF TypeOK
<1>4. Settled(trades[t], Append(evs, e)) \in Row BY <1>3, SettledType
<1>5. trades' \in [Trades -> Row] BY <1>3, <1>4 DEF Record, TypeOK
<1> QED BY <1>2, <1>5

\* Moving a handler on, and a new status, are well-typed.
LEMMA HandlerType ==
  ASSUME TypeOK, NEW h \in Handlers
  PROVE  /\ Leave(h) => held' \in [Handlers -> Held]
         /\ Acknowledged(h) => held' \in [Handlers -> Held]
         /\ \A t \in Trades, pc \in {"idle", "opening", "opened", "edited", "kept", "acknowledged"} :
              At(pc, t) \in Held
<1>1. \A t \in Trades, pc \in {"idle", "opening", "opened", "edited", "kept", "acknowledged"} :
        At(pc, t) \in Held
  BY Placeholders DEF At, Held
<1>2. held[h] \in Held BY DEF TypeOK
<1>3. held[h].trade \in Trades BY <1>2 DEF Held
<1>4. Leave(h) => held' \in [Handlers -> Held]
  BY <1>1, Placeholders DEF Leave, TypeOK
<1>5. Acknowledged(h) => held' \in [Handlers -> Held]
  BY <1>1, <1>3 DEF Acknowledged, TypeOK
<1> QED BY <1>1, <1>4, <1>5

LEMMA ReceiptType ==
  ASSUME TypeOK, NEW c \in Commands, NEW status \in Statuses, Receipt(c, status)
  PROVE  commands' \in [Commands -> Command]
<1>1. commands[c] \in Command BY DEF TypeOK
<1>2. [commands[c] EXCEPT !.status = status] \in Command BY <1>1 DEF Command
<1> QED BY <1>2 DEF Receipt, TypeOK

\* The dictionary a handler read is a row of a trade with levels the journal accepts.
LEMMA HeldRow ==
  ASSUME TypeOK, NEW h \in Handlers
  PROVE  /\ held[h].trade \in Trades
         /\ held[h].row \in Row
         /\ held[h].row.geo \in Geometries
         /\ held[h].row.geo.stop \in Prices
         /\ held[h].row.geo.take \in Prices
         /\ held[h].row.geo.entry \in Prices
<1>1. held[h] \in Held BY DEF TypeOK
<1>2. held[h].trade \in Trades /\ held[h].row \in Row BY <1>1 DEF Held
<1>3. held[h].row.geo \in Geometries BY <1>2 DEF Row
<1> QED BY <1>2, <1>3, Placeholders

-----------------------------------------------------------------------------
(* Type correctness.                                                       *)

\* Handlers that open, read, edit and delete trades keep every table well-formed.
LEMMA JournalKeepsTypes ==
  ASSUME TypeOK
  PROVE  /\ \A h \in Handlers :
              /\ OpeningStep(h) => TypeOK'
              /\ EditingStep(h) => TypeOK'
              /\ ReachTrigger(h) => TypeOK'
              /\ (\E t \in Trades : ReadTrade(h, t)) => TypeOK'
              /\ Return(h) => TypeOK'
              /\ TouchLedger(h) => TypeOK'
         /\ JournalStep => TypeOK'
         /\ Restart => TypeOK'
<1> USE DEF TypeOK
<1>0. \A t \in Trades : trades[t] \in Row OBVIOUS
<1>1. ASSUME NEW h \in Handlers, OpeningStep(h) PROVE TypeOK'
  <2>1. CASE OpenCheck(h)
    BY <2>1, HandlerType, Placeholders DEF OpenCheck
  <2>2. ASSUME NEW t \in Trades, NEW g \in Geometries, OpenInsert(h, t, g) PROVE TypeOK'
    <3>1. Inserted(g, "open") \in Row BY Placeholders
    <3>2. [At("opened", t) EXCEPT !.row = Inserted(g, "open")] \in Held
      BY <3>1 DEF Held, At
    <3> QED BY <2>2, <3>1, <3>2 DEF OpenInsert
  <2>3. CASE OpenLedger(h)
    BY <2>3, HandlerType, HeldRow, EnsuredType DEF OpenLedger
  <2> QED BY <1>1, <2>1, <2>2, <2>3 DEF OpeningStep
<1>2. ASSUME NEW h \in Handlers, EditingStep(h) PROVE TypeOK'
  <2>1. ASSUME NEW g \in Geometries, EditLevels(h, g) PROVE TypeOK'
    <3> DEFINE t == held[h].trade
               row == [trades[t] EXCEPT !.geo = g, !.reached = @ /\ g = trades[t].geo]
               next == IF g = held[h].row.geo THEN "kept" ELSE "edited"
    <3>1. t \in Trades BY HeldRow
    <3>2. row \in Row BY <1>0, <3>1 DEF Row
    <3>3. At(next, t) \in Held BY <3>1, HandlerType
    <3>4. /\ trades' = [trades EXCEPT ![t] = row] /\ held' = [held EXCEPT ![h] = At(next, t)]
          /\ UNCHANGED <<events, commands>>
      BY <2>1 DEF EditLevels
    <3> HIDE DEF t, row, next
    <3> QED BY <3>1, <3>2, <3>3, <3>4
  <2>2. CASE EditSupersede(h)
    BY <2>2, SupersedeType, HandlerType DEF EditSupersede
  <2>3. ASSUME NEW t \in Trades, ReadForEdit(h, t) PROVE TypeOK'
    <3>1. trades[t].geo \in Geometries BY <1>0 DEF Row
    <3>2. [At("editing", t) EXCEPT !.row.geo = trades[t].geo] \in Held
      BY <3>1, Placeholders DEF Held, At, Row
    <3> QED BY <2>3, <3>2 DEF ReadForEdit
  <2> QED BY <1>2, <2>1, <2>2, <2>3 DEF EditingStep
<1>3. ASSUME NEW h \in Handlers, ReachTrigger(h) PROVE TypeOK'
  <2> DEFINE t == held[h].trade
  <2>1. t \in Trades BY HeldRow
  <2>2. [trades[t] EXCEPT !.reached = TRUE] \in Row BY <1>0, <2>1 DEF Row
  <2>3. trades' = [trades EXCEPT ![t] = [trades[t] EXCEPT !.reached = TRUE]]
    BY <1>3 DEF ReachTrigger
  <2>4. held' \in [Handlers -> Held] BY <1>3, HandlerType DEF ReachTrigger
  <2> QED BY <1>3, <2>1, <2>2, <2>3, <2>4 DEF ReachTrigger
<1>4. ASSUME NEW h \in Handlers, NEW t \in Trades, ReadTrade(h, t) PROVE TypeOK'
  <2>1. IsActive(t) \in BOOLEAN BY DEF IsActive, Live
  <2>2. [pc |-> "read", trade |-> t, row |-> trades[t], active |-> IsActive(t)] \in Held
    BY <1>0, <2>1 DEF Held
  <2> QED BY <1>4, <2>2 DEF ReadTrade
<1>5. ASSUME NEW h \in Handlers, Return(h) PROVE TypeOK'
  BY <1>5, HandlerType DEF Return
<1>6. ASSUME NEW h \in Handlers, TouchLedger(h) PROVE TypeOK'
  BY <1>6, HeldRow, EnsuredType DEF TouchLedger
<1>7. ASSUME JournalStep PROVE TypeOK'
  <2>1. ASSUME NEW t \in Trades, NEW g \in Geometries, AddClosed(t, g) PROVE TypeOK'
    BY <2>1, Placeholders DEF AddClosed
  <2>2. ASSUME NEW t \in Trades, EditResult(t) PROVE TypeOK'
    <3>1. [trades[t] EXCEPT !.basis = "manual", !.outcome = "user"] \in Row BY <1>0 DEF Row
    <3>2. trades' = [trades EXCEPT ![t] = [trades[t] EXCEPT !.basis = "manual", !.outcome = "user"]]
      BY <2>2 DEF EditResult
    <3> QED BY <2>2, <3>1, <3>2 DEF EditResult
  <2>3. ASSUME NEW t \in Trades, DeleteTrade(t) PROVE TypeOK'
    <3>1. [trades[t] EXCEPT !.deleted = TRUE] \in Row BY <1>0 DEF Row
    <3>2. trades' = [trades EXCEPT ![t] = [trades[t] EXCEPT !.deleted = TRUE]]
      BY <2>3 DEF DeleteTrade
    <3> QED BY <2>3, <3>1, <3>2, SupersedeType DEF DeleteTrade
  <2> QED BY <1>7, <2>1, <2>2, <2>3 DEF JournalStep
<1>8. ASSUME Restart PROVE TypeOK'
  BY <1>8, HandlerType, Placeholders DEF Restart
<1> QED BY <1>1, <1>2, <1>3, <1>4, <1>5, <1>6, <1>7, <1>8

\* So do the reviews: the command they publish is well-formed.
LEMMA ReviewKeepsTypes ==
  ASSUME TypeOK, ReviewStep
  PROVE  TypeOK'
<1> USE DEF TypeOK
<1>1. ASSUME NEW t \in Trades, NEW c \in Commands, NEW policy \in Policies, NEW price \in Prices,
             NEW parts \in {1, 2, 4, 10} \cup OrderParts, PublishReview(t, c, policy, price, parts)
      PROVE  TypeOK'
  <2> DEFINE g == trades[t].geo
             evs == Ensured(t, g)
             command == MakeCommand(t, policy, Len(evs), price, parts)
             others == Supersede(commands, t, AnyPolicy)
  <2>1. g \in Geometries BY DEF Row
  <2>2. evs \in Seq(Event) BY <2>1, EnsuredType
  <2>3. Len(evs) \in Nat BY <2>2
  <2>4. parts \in Nat \ {0} BY UnitIsPositive
  <2>5. policy \in BasePolicies \cup ExtendedPolicies BY KnownPolicies
  <2>6. command \in Command
    <3> HIDE DEF evs
    <3> QED BY <2>1, <2>3, <2>4, <2>5 DEF MakeCommand, Command, Statuses
  <2>7. others \in [Commands -> Command] BY SupersedeType
  <2>8. commands' = [others EXCEPT ![c] = command] BY <1>1 DEF PublishReview
  <2>9. commands' \in [Commands -> Command]
    <3> HIDE DEF others, command
    <3> QED BY <2>6, <2>7, <2>8
  <2>10. events' = [events EXCEPT ![t] = evs] BY <1>1 DEF PublishReview
  <2>11. events' \in [Trades -> Seq(Event)]
    <3> HIDE DEF evs
    <3> QED BY <2>2, <2>10
  <2> QED BY <1>1, <2>9, <2>11 DEF PublishReview
<1>2. ASSUME NEW c \in Commands, DeadlinePasses(c) PROVE TypeOK'
  <2>1. commands[c] \in Command OBVIOUS
  <2>2. [commands[c] EXCEPT !.due = TRUE] \in Command BY <2>1 DEF Command
  <2>3. commands' = [commands EXCEPT ![c] = [commands[c] EXCEPT !.due = TRUE]]
    BY <1>2 DEF DeadlinePasses
  <2> QED BY <1>2, <2>2, <2>3 DEF DeadlinePasses
<1> QED BY <1>1, <1>2 DEF ReviewStep

\* What every transaction of the ledger on a held trade may take for granted.
LEMMA LedgerContext ==
  ASSUME TypeOK, NEW h \in Handlers
  PROVE  LET t == held[h].trade
             g == held[h].row.geo
             evs == Ensured(t, g)
         IN  /\ t \in Trades /\ g \in Geometries
             /\ evs \in Seq(Event) /\ evs # <<>>
             /\ Remaining(evs) \in 0..Unit
             /\ Len(evs) \in Nat
             /\ ActiveStop(evs, g) \in Prices
             /\ ActiveTake(evs, g) \in Prices
             /\ g.take \in Prices /\ g.stop \in Prices /\ g.entry \in Prices
<1> DEFINE t == held[h].trade
           g == held[h].row.geo
           evs == Ensured(t, g)
<1>1. t \in Trades /\ g \in Geometries /\ g.take \in Prices /\ g.stop \in Prices
        /\ g.entry \in Prices
  BY HeldRow
<1> HIDE DEF t, g
<1>2. evs \in Seq(Event) /\ evs # <<>> /\ Remaining(evs) \in 0..Unit BY <1>1, EnsuredType
<1> HIDE DEF evs
<1>3. Len(evs) \in Nat BY <1>2
<1>4. ActiveStop(evs, g) \in Prices /\ ActiveTake(evs, g) \in Prices
  BY <1>1, <1>2, ActiveBarriers
<1> QED BY <1>1, <1>2, <1>3, <1>4 DEF t, g, evs

\* An event is recorded on the ledger a handler touched: it starts from what remains and
\* leaves what it does not close, and an event without a decision_id closes nothing.
Recorded(t, g, e) ==
  /\ e \in Event
  /\ e.before = Remaining(Ensured(t, g))
  /\ e.after = e.before - e.closed
  /\ e.key = NoKey => e.closed = 0
  /\ Record(t, Ensured(t, g), e)

\* A transaction that makes its event with MakeEvent from what remains records it.
LEMMA MakeRecorded ==
  ASSUME NEW t \in Trades, NEW g \in Geometries, NEW type \in EventTypes,
         NEW key \in Keys \cup {NoKey}, NEW closed \in 0..Remaining(Ensured(t, g)),
         NEW stop \in Prices, NEW take \in Prices, NEW priced \in BOOLEAN,
         Remaining(Ensured(t, g)) \in 0..Unit,
         key = NoKey => closed = 0,
         Record(t, Ensured(t, g),
                MakeEvent(type, key, Remaining(Ensured(t, g)), closed, stop, take, priced))
  PROVE  \E e : Recorded(t, g, e)
<1> DEFINE before == Remaining(Ensured(t, g))
           e == MakeEvent(type, key, before, closed, stop, take, priced)
<1>1. e \in Event
  <2>1. before \in 0..Unit /\ closed \in 0..before OBVIOUS
  <2> HIDE DEF before
  <2> QED BY <2>1, MakeEventType
<1>2. e.before = before /\ e.closed = closed /\ e.after = before - closed /\ e.key = key
  <2> HIDE DEF before
  <2> QED BY DEF MakeEvent
<1>3. Record(t, Ensured(t, g), e) OBVIOUS
<1> HIDE DEF e
<1> QED BY <1>1, <1>2, <1>3 DEF Recorded

\* Each acknowledgement, fill and break-even trigger records one event.
LEMMA TransactionsRecord ==
  ASSUME TypeOK, NEW h \in Handlers
  PROVE  LET t == held[h].trade
             g == held[h].row.geo
             Records == \E e : Recorded(t, g, e)
         IN
         /\ SyncBreakEven(h) => Records
         /\ \A c \in Commands :
              /\ AcknowledgeCancel(h, c) => Records
              /\ \A b \in BOOLEAN : AcknowledgeReduction(h, c, b) => Records
              /\ \A p \in Prices : AcknowledgeBarrier(h, c, p) \/ AcknowledgeArm(h, c, p) => Records
              /\ \A p \in Prices, b \in BOOLEAN : AcknowledgeConditionalFill(h, c, p, b) => Records
         /\ \A r \in Requests, k \in 1..Unit : ManualFill(h, r, k) => Records
<1> DEFINE t == held[h].trade
           g == held[h].row.geo
           evs == Ensured(t, g)
           before == Remaining(evs)
<1>1. /\ t \in Trades /\ g \in Geometries /\ before \in 0..Unit
      /\ ActiveStop(evs, g) \in Prices /\ ActiveTake(evs, g) \in Prices
      /\ g.take \in Prices /\ g.stop \in Prices /\ g.entry \in Prices
  BY LedgerContext
<1>2. \A c \in Commands : /\ commands[c].price \in Prices /\ commands[c].parts \in Nat \ {0}
                          /\ commands[c] \in Command
  BY DEF TypeOK, Command
<1>3. \A kind \in {"command", "fill", "cancel"}, c \in Commands : <<kind, c>> \in Keys
  BY DEF Keys
<1>4. \A r \in Requests : <<"manual-fill", r>> \in Keys BY DEF Keys
<1>5. NoKey \notin Keys BY DEF NoKey, Keys
<1>6. 0 \in 0..before /\ TRUE \in BOOLEAN /\ FALSE \in BOOLEAN
        /\ NoKey \in Keys \cup {NoKey} /\ {} \subseteq Keys
  BY <1>1
<1>7. \A k : k \in 1..before => k \in 0..before BY <1>1
<1>8. EventTypes = {"TRADE_OPEN", "REDUCTION", "MANUAL_EXIT", "BE_ARM", "STOP", "TAKE",
                    "ARM", "CONDITIONAL_FILL", "CANCEL"}
  BY DEF EventTypes
<1>9. ASSUME SyncBreakEven(h) PROVE \E e : Recorded(t, g, e)
  <2>1. Record(t, evs, MakeEvent("BE_ARM", NoKey, before, 0, g.entry, ActiveTake(evs, g), FALSE))
    BY <1>9 DEF SyncBreakEven
  <2> HIDE DEF t, g
  <2> QED BY <1>1, <1>6, <1>8, <2>1, MakeRecorded
<1>10. ASSUME NEW c \in Commands, AcknowledgeCancel(h, c) PROVE \E e : Recorded(t, g, e)
  <2>1. Record(t, evs, MakeEvent("CANCEL", <<"cancel", c>>, before, 0, ActiveStop(evs, g),
                                 ActiveTake(evs, g), FALSE))
    BY <1>10 DEF AcknowledgeCancel
  <2>2. <<"cancel", c>> \in Keys BY <1>3
  <2> HIDE DEF t, g
  <2> QED BY <1>1, <1>6, <1>8, <2>1, <2>2, MakeRecorded
<1>11. ASSUME NEW c \in Commands, NEW b \in BOOLEAN, AcknowledgeReduction(h, c, b)
       PROVE  \E e : Recorded(t, g, e)
  <2>1. PICK k \in Portion(before, commands[c].parts) :
          Record(t, evs, MakeEvent("REDUCTION", <<"command", c>>, before, k,
                                   ActiveStop(evs, g), g.take, b))
    BY <1>11 DEF AcknowledgeReduction
  <2>2. k \in 0..before BY <1>7, <2>1 DEF Portion
  <2>3. <<"command", c>> \in Keys BY <1>3
  <2>4. <<"command", c>> # NoKey BY <1>5, <2>3
  <2> HIDE DEF t, g
  <2> QED BY <1>1, <1>8, <2>1, <2>2, <2>3, <2>4, MakeRecorded
<1>12. ASSUME NEW c \in Commands, NEW p \in Prices, AcknowledgeBarrier(h, c, p)
       PROVE  \E e : Recorded(t, g, e)
  <2> DEFINE price == commands[c].price
  <2>1. \/ Record(t, evs, MakeEvent("STOP", <<"command", c>>, before, 0, price,
                                    ActiveTake(evs, g), TRUE))
        \/ Record(t, evs, MakeEvent("TAKE", <<"command", c>>, before, 0, ActiveStop(evs, g),
                                    price, TRUE))
    BY <1>12 DEF AcknowledgeBarrier
  <2>2. <<"command", c>> \in Keys /\ price \in Prices BY <1>2, <1>3
  <2> HIDE DEF t, g, price
  <2>3. CASE Record(t, evs, MakeEvent("STOP", <<"command", c>>, before, 0, price,
                                      ActiveTake(evs, g), TRUE))
    BY <1>1, <1>6, <1>8, <2>2, <2>3, MakeRecorded
  <2>4. CASE Record(t, evs, MakeEvent("TAKE", <<"command", c>>, before, 0, ActiveStop(evs, g),
                                      price, TRUE))
    BY <1>1, <1>6, <1>8, <2>2, <2>4, MakeRecorded
  <2> QED BY <2>1, <2>3, <2>4
<1>13. ASSUME NEW c \in Commands, NEW p \in Prices, AcknowledgeArm(h, c, p)
       PROVE  \E e : Recorded(t, g, e)
  <2>1. Record(t, evs, MakeEvent("ARM", <<"command", c>>, before, 0, ActiveStop(evs, g),
                                 ActiveTake(evs, g), TRUE))
    BY <1>13 DEF AcknowledgeArm
  <2>2. <<"command", c>> \in Keys BY <1>3
  <2> HIDE DEF t, g
  <2> QED BY <1>1, <1>6, <1>8, <2>1, <2>2, MakeRecorded
<1>14. ASSUME NEW c \in Commands, NEW p \in Prices, NEW b \in BOOLEAN,
              AcknowledgeConditionalFill(h, c, p, b)
       PROVE  \E e : Recorded(t, g, e)
  <2>1. PICK k \in OrderSize(evs, c) :
          /\ k <= before
          /\ Record(t, evs, MakeEvent("CONDITIONAL_FILL", <<"fill", c>>, before, k,
                                      ActiveStop(evs, g), ActiveTake(evs, g), b))
    BY <1>14 DEF AcknowledgeConditionalFill
  <2>2. k \in Nat
    <3>1. CASE commands[c].policy = "TIME_STOP" BY <1>1, <2>1, <3>1 DEF OrderSize
    <3>2. CASE commands[c].policy # "TIME_STOP"
      <4>1. PICK b0 \in ArmedBefore(evs, c) : k \in Portion(b0, commands[c].parts)
        BY <2>1, <3>2 DEF OrderSize
      <4>2. evs \in Seq(Event) BY LedgerContext
      <4>3. b0 \in 0..Unit
        <5>1. \A i \in 1..Len(evs) : evs[i] \in Event BY <4>2, ElementOfSeq
        <5>2. \A i \in 1..Len(evs) : evs[i].before \in 0..Unit BY <5>1 DEF Event
        <5> HIDE DEF evs
        <5> QED BY <4>1, <5>2 DEF ArmedBefore
      <4> QED BY <4>1, <4>3 DEF Portion
    <3> QED BY <3>1, <3>2
  <2>3. k \in 0..before BY <1>1, <2>1, <2>2
  <2>4. <<"fill", c>> \in Keys BY <1>3
  <2>5. <<"fill", c>> # NoKey BY <1>5, <2>4
  <2> HIDE DEF t, g
  <2> QED BY <1>1, <1>8, <2>1, <2>3, <2>4, <2>5, MakeRecorded
<1>15. ASSUME NEW r \in Requests, NEW k \in 1..Unit, ManualFill(h, r, k)
       PROVE  \E e : Recorded(t, g, e)
  <2>1. /\ k \in 1..before
        /\ Record(t, evs, MakeEvent("REDUCTION", <<"manual-fill", r>>, before, k,
                                    ActiveStop(evs, g), ActiveTake(evs, g), TRUE))
    BY <1>15 DEF ManualFill
  <2>2. k \in 0..before BY <1>7, <2>1
  <2>3. <<"manual-fill", r>> \in Keys BY <1>4
  <2>4. <<"manual-fill", r>> # NoKey BY <1>5, <2>3
  <2> HIDE DEF t, g
  <2> QED BY <1>1, <1>6, <1>8, <2>1, <2>2, <2>3, <2>4, MakeRecorded
<1> QED BY <1>9, <1>10, <1>11, <1>12, <1>13, <1>14, <1>15

LEMMA RecordedType ==
  ASSUME TypeOK, NEW t \in Trades, NEW g \in Geometries, NEW e, Recorded(t, g, e)
  PROVE  trades' \in [Trades -> Row] /\ events' \in [Trades -> Seq(Event)]
<1>1. Ensured(t, g) \in Seq(Event) BY EnsuredType
<1> QED BY <1>1, RecordType DEF Recorded

\* Acknowledgements, fills and retries keep every table well-formed.
LEMMA AcknowledgementKeepsTypes ==
  ASSUME TypeOK, NEW h \in Handlers, AcknowledgementStep(h) \/ SyncBreakEven(h)
  PROVE  TypeOK'
<1> DEFINE t == held[h].trade
           g == held[h].row.geo
<1>1. t \in Trades /\ g \in Geometries BY HeldRow
<1>2. ASSUME \E e : Recorded(t, g, e), commands' \in [Commands -> Command],
             Leave(h) \/ Acknowledged(h)
      PROVE  TypeOK'
  <2>1. trades' \in [Trades -> Row] /\ events' \in [Trades -> Seq(Event)]
    <3> HIDE DEF t, g
    <3> QED BY <1>1, <1>2, RecordedType
  <2> QED BY <1>2, <2>1, HandlerType DEF TypeOK
<1>3. {"executed", "armed", "cancelled", "recommended_not_executed"} \subseteq Statuses
  BY DEF Statuses
<1>4. CASE SyncBreakEven(h)
  <2>1. UNCHANGED <<commands, held>> BY <1>4 DEF SyncBreakEven
  <2>2. \E e : Recorded(t, g, e) BY <1>4, TransactionsRecord
  <2>3. trades' \in [Trades -> Row] /\ events' \in [Trades -> Seq(Event)]
    <3> HIDE DEF t, g
    <3> QED BY <1>1, <2>2, RecordedType
  <2> QED BY <2>1, <2>3 DEF TypeOK
<1>5. ASSUME NEW c \in Commands, AcknowledgeNotExecuted(h, c) PROVE TypeOK'
  <2>1. events' \in [Trades -> Seq(Event)]
    BY <1>1, <1>5, EnsuredType DEF AcknowledgeNotExecuted, TypeOK
  <2>2. commands' \in [Commands -> Command] BY <1>3, <1>5, ReceiptType DEF AcknowledgeNotExecuted
  <2> QED BY <1>5, <2>1, <2>2, HandlerType DEF AcknowledgeNotExecuted, TypeOK
<1>6. ASSUME NEW c \in Commands, AcknowledgeCancel(h, c) PROVE TypeOK'
  <2>1. Acknowledged(h) /\ Receipt(c, "cancelled") BY <1>6 DEF AcknowledgeCancel
  <2> QED BY <1>2, <1>3, <1>6, <2>1, TransactionsRecord, ReceiptType
<1>7. ASSUME NEW c \in Commands, NEW b \in BOOLEAN, AcknowledgeReduction(h, c, b) PROVE TypeOK'
  <2>1. Acknowledged(h) /\ Receipt(c, "executed") BY <1>7 DEF AcknowledgeReduction
  <2> QED BY <1>2, <1>3, <1>7, <2>1, TransactionsRecord, ReceiptType
<1>8. ASSUME NEW c \in Commands, NEW p \in Prices,
             AcknowledgeBarrier(h, c, p) \/ AcknowledgeArm(h, c, p)
      PROVE  TypeOK'
  <2>1. Acknowledged(h) /\ (Receipt(c, "executed") \/ Receipt(c, "armed"))
    BY <1>8 DEF AcknowledgeBarrier, AcknowledgeArm
  <2> QED BY <1>2, <1>3, <1>8, <2>1, TransactionsRecord, ReceiptType
<1>9. ASSUME NEW c \in Commands, NEW p \in Prices, NEW b \in BOOLEAN,
             AcknowledgeConditionalFill(h, c, p, b)
      PROVE  TypeOK'
  <2>1. Acknowledged(h) /\ Receipt(c, "executed") BY <1>9 DEF AcknowledgeConditionalFill
  <2> QED BY <1>2, <1>3, <1>9, <2>1, TransactionsRecord, ReceiptType
<1>10. ASSUME NEW r \in Requests, NEW k \in 1..Unit, ManualFill(h, r, k) PROVE TypeOK'
  <2>1. Acknowledged(h) /\ UNCHANGED commands BY <1>10 DEF ManualFill
  <2> QED BY <1>2, <1>10, <2>1, TransactionsRecord DEF TypeOK
<1>11. CASE RetriedReceipt(h)
  BY <1>11, HandlerType DEF RetriedReceipt, TypeOK
<1>12. CASE CompleteAck(h)
  <2>1. commands' \in [Commands -> Command]
    BY <1>12, SupersedeType DEF CompleteAck, TypeOK
  <2> QED BY <1>12, <2>1, HandlerType DEF CompleteAck, TypeOK
<1> QED BY <1>4, <1>5, <1>6, <1>7, <1>8, <1>9, <1>10, <1>11, <1>12 DEF AcknowledgementStep

\* terminal_exit writes one event that closes all that remained.
Exited(t, g, e) ==
  /\ e \in Event
  /\ e.before = Remaining(Ensured(t, g)) /\ e.before > 0
  /\ e.closed = e.before /\ e.after = 0
  /\ e.key = NoKey
  /\ events' = [events EXCEPT ![t] = Append(Ensured(t, g), e)]

LEMMA TerminalExitWrites ==
  ASSUME TypeOK, NEW h \in Handlers, NEW total \in BOOLEAN, NEW priced \in BOOLEAN,
         TerminalExit(h, total, priced)
  PROVE  /\ \E e : Exited(held[h].trade, held[h].row.geo, e)
         /\ TypeOK'
<1> DEFINE t == held[h].trade
           g == held[h].row.geo
           evs == Ensured(t, g)
           before == Remaining(evs)
           exit == MakeEvent("MANUAL_EXIT", NoKey, before, before, ActiveStop(evs, g), g.take, priced)
           settled == Settled(trades[t], Append(evs, exit))
           row == IF total THEN [settled EXCEPT !.basis = "manual", !.outcome = "user"] ELSE settled
<1>1. /\ t \in Trades /\ g \in Geometries /\ evs \in Seq(Event) /\ before \in 0..Unit
      /\ ActiveStop(evs, g) \in Prices /\ g.take \in Prices
  BY LedgerContext
<1>2. exit \in Event
  <2>1. before \in 0..before /\ "MANUAL_EXIT" \in EventTypes BY <1>1 DEF EventTypes
  <2> HIDE DEF t, g
  <2> QED BY <1>1, <2>1, MakeEventType
<1>3. before > 0 /\ events' = [events EXCEPT ![t] = Append(evs, exit)]
        /\ trades' = [trades EXCEPT ![t] = row]
        /\ commands' = Supersede(commands, t, AnyPolicy) /\ Leave(h)
  BY DEF TerminalExit
<1>4. exit.before = before /\ exit.closed = before /\ exit.after = 0 /\ exit.key = NoKey
  <2> HIDE DEF evs
  <2> QED BY <1>1 DEF MakeEvent
<1>5. row \in Row
  <2>1. trades[t] \in Row BY <1>1 DEF TypeOK
  <2>2. settled \in Row BY <2>1, SettledType
  <2> HIDE DEF settled
  <2> QED BY <2>2 DEF Row
<1> HIDE DEF t, g, evs, before, exit, settled, row
<1>6. Append(evs, exit) \in Seq(Event) BY <1>1, <1>2
<1>7. TypeOK'
  BY <1>1, <1>3, <1>5, <1>6, SupersedeType, HandlerType DEF TypeOK
<1>8. Exited(t, g, exit)
  BY <1>2, <1>3, <1>4 DEF Exited, before, evs
<1> QED BY <1>7, <1>8 DEF t, g

\* The type invariant is inductive.
LEMMA TypeOKStep == TypeOK /\ [Next]_vars => TypeOK'
<1> SUFFICES ASSUME TypeOK, [Next]_vars PROVE TypeOK' OBVIOUS
<1>1. CASE UNCHANGED vars BY <1>1 DEF vars, TypeOK
<1>2. CASE JournalStep BY <1>2, JournalKeepsTypes
<1>3. CASE ReviewStep BY <1>3, ReviewKeepsTypes
<1>4. CASE Restart BY <1>4, JournalKeepsTypes
<1>5. ASSUME NEW h \in Handlers, HandlerStep(h) PROVE TypeOK'
  <2>1. CASE OpeningStep(h) BY <2>1, JournalKeepsTypes
  <2>2. CASE EditingStep(h) BY <2>2, JournalKeepsTypes
  <2>3. CASE MarketStep(h) BY <2>3, JournalKeepsTypes, AcknowledgementKeepsTypes DEF MarketStep
  <2>4. CASE AcknowledgementStep(h) BY <2>4, AcknowledgementKeepsTypes
  <2>5. CASE \E t \in Trades : ReadTrade(h, t) BY <2>5, JournalKeepsTypes
  <2>6. CASE Return(h) \/ TouchLedger(h) BY <2>6, JournalKeepsTypes
  <2>7. CASE \E total, priced \in BOOLEAN : TerminalExit(h, total, priced)
    BY <2>7, TerminalExitWrites
  <2> QED BY <1>5, <2>1, <2>2, <2>3, <2>4, <2>5, <2>6, <2>7 DEF HandlerStep
<1> QED BY <1>1, <1>2, <1>3, <1>4, <1>5 DEF Next, Step

\* Every row, event, command and handler always has the shape its table declares.
THEOREM TypeCorrect == Spec => []TypeOK
<1>1. Init => TypeOK
  BY Placeholders, HandlerType DEF Init, TypeOK, At, Held
<1> QED BY <1>1, TypeOKStep, PTL DEF Spec

-----------------------------------------------------------------------------
(* What a step may do to the ledgers.                                      *)

\* A step opens the ledger of a trade...
Touched(t, g) == events' = [events EXCEPT ![t] = Ensured(t, g)]

\* ...or appends one event to it.
Appended(t, g, e) ==
  /\ e \in Event
  /\ e.before = Remaining(Ensured(t, g))
  /\ e.after = e.before - e.closed
  /\ e.key = NoKey => e.closed = 0 \/ (e.closed = e.before /\ e.before > 0)
  /\ e.key # NoKey => KeyIsFree(e.key)
  /\ events' = [events EXCEPT ![t] = Append(Ensured(t, g), e)]

\* Every step leaves all ledgers alone, opens one, or appends one event to one: no step
\* rewrites or removes an event, and none touches two trades.
LEMMA LedgerSteps ==
  ASSUME TypeOK, [Next]_vars
  PROVE  \/ UNCHANGED events
         \/ \E t \in Trades, g \in Geometries : Touched(t, g)
         \/ \E t \in Trades, g \in Geometries, e \in Event : Appended(t, g, e)
<1> DEFINE Goal == \/ UNCHANGED events
                   \/ \E t \in Trades, g \in Geometries : Touched(t, g)
                   \/ \E t \in Trades, g \in Geometries, e \in Event : Appended(t, g, e)
<1>1. CASE UNCHANGED vars BY <1>1 DEF vars
<1>2. CASE JournalStep BY <1>2 DEF JournalStep, AddClosed, EditResult, DeleteTrade
<1>3. CASE Restart BY <1>3 DEF Restart
<1>4. CASE ReviewStep
  <2>1. ASSUME NEW t \in Trades, NEW c \in Commands, NEW policy \in Policies, NEW price \in Prices,
               NEW parts \in {1, 2, 4, 10} \cup OrderParts, PublishReview(t, c, policy, price, parts)
        PROVE  Goal
    <3>1. trades[t].geo \in Geometries BY DEF TypeOK, Row
    <3>2. Touched(t, trades[t].geo) BY <2>1 DEF PublishReview, Touched
    <3> QED BY <3>1, <3>2
  <2> QED BY <1>4, <2>1 DEF ReviewStep, DeadlinePasses
<1>5. ASSUME NEW h \in Handlers, HandlerStep(h) PROVE Goal
  <2> DEFINE t == held[h].trade
             g == held[h].row.geo
  <2>1. t \in Trades /\ g \in Geometries BY HeldRow
  <2>2. ASSUME \E e : Recorded(t, g, e) PROVE Goal
    <3>1. PICK e : Recorded(t, g, e) BY <2>2
    <3> HIDE DEF t, g
    <3>2. Appended(t, g, e) BY <3>1 DEF Recorded, Record, Appended
    <3>3. e \in Event BY <3>2 DEF Appended
    <3> QED BY <2>1, <3>2, <3>3
  <2>3. ASSUME \E e : Exited(t, g, e) PROVE Goal
    <3>1. PICK e : Exited(t, g, e) BY <2>3
    <3> HIDE DEF t, g
    <3>2. e.before \in Nat BY <3>1, UnitIsPositive DEF Exited, Event
    <3>3. Appended(t, g, e) BY <3>1, <3>2 DEF Exited, Appended
    <3>4. e \in Event BY <3>3 DEF Appended
    <3> QED BY <2>1, <3>3, <3>4
  <2>4. CASE OpeningStep(h)
    BY <2>1, <2>4 DEF OpeningStep, OpenCheck, OpenInsert, OpenLedger, Touched
  <2>5. CASE EditingStep(h) BY <2>5 DEF EditingStep, ReadForEdit, EditLevels, EditSupersede
  <2>6. CASE MarketStep(h)
    <3>1. CASE ReachTrigger(h) BY <3>1 DEF ReachTrigger
    <3>2. CASE SyncBreakEven(h) BY <2>2, <3>2, TransactionsRecord
    <3> QED BY <2>6, <3>1, <3>2 DEF MarketStep
  <2>7. CASE AcknowledgementStep(h)
    <3>1. ASSUME NEW c \in Commands, AcknowledgeNotExecuted(h, c) PROVE Goal
      BY <2>1, <3>1 DEF AcknowledgeNotExecuted, Touched
    <3>2. CASE RetriedReceipt(h) \/ CompleteAck(h) BY <3>2 DEF RetriedReceipt, CompleteAck
    <3> HIDE DEF t, g, Goal
    <3> QED BY <2>2, <2>7, <3>1, <3>2, TransactionsRecord DEF AcknowledgementStep, t, g
  <2>8. CASE \E t0 \in Trades : ReadTrade(h, t0) BY <2>8 DEF ReadTrade
  <2>9. CASE Return(h) BY <2>9 DEF Return
  <2>10. CASE TouchLedger(h) BY <2>1, <2>10 DEF TouchLedger, Touched
  <2>11. CASE \E total, priced \in BOOLEAN : TerminalExit(h, total, priced)
    BY <2>3, <2>11, TerminalExitWrites
  <2> QED BY <1>5, <2>4, <2>5, <2>6, <2>7, <2>8, <2>9, <2>10, <2>11 DEF HandlerStep
<1> QED BY <1>1, <1>2, <1>3, <1>4, <1>5 DEF Next, Step

\* The first event of a ledger that is opened.
Opening(g) == MakeEvent("TRADE_OPEN", NoKey, Unit, 0, g.stop, g.take, TRUE)

LEMMA OpeningFacts ==
  ASSUME NEW g \in Geometries
  PROVE  /\ Opening(g) \in Event
         /\ Opening(g).before = Unit /\ Opening(g).closed = 0 /\ Opening(g).after = Unit
         /\ Opening(g).key = NoKey
         /\ \A t \in Trades : Ensured(t, g) = IF events[t] = <<>> THEN <<Opening(g)>> ELSE events[t]
<1>1. Unit \in 0..Unit /\ 0 \in 0..Unit BY UnitIsPositive
<1>2. g.stop \in Prices /\ g.take \in Prices BY Placeholders
<1>3. "TRADE_OPEN" \in EventTypes BY DEF EventTypes
<1>4. Opening(g) \in Event BY <1>1, <1>2, <1>3, MakeEventType DEF Opening
<1>5. /\ Opening(g).before = Unit /\ Opening(g).closed = 0 /\ Opening(g).after = Unit
      /\ Opening(g).key = NoKey
  BY UnitIsPositive DEF Opening, MakeEvent
<1>6. \A t \in Trades : Ensured(t, g) = IF events[t] = <<>> THEN <<Opening(g)>> ELSE events[t]
  BY DEF Ensured, Opening
<1> QED BY <1>4, <1>5, <1>6

-----------------------------------------------------------------------------
(* The fractions of a ledger form a chain.                                 *)

\* An opened ledger is a chain of one event.
LEMMA EnsuredIsChain ==
  ASSUME TypeOK, LedgerChain, NEW t \in Trades, NEW g \in Geometries
  PROVE  IsChain(Ensured(t, g))
<1>1. CASE events[t] = <<>>
  <2> DEFINE open == Opening(g)
  <2>1. Ensured(t, g) = <<open>> BY <1>1, OpeningFacts
  <2>2. open.before = Unit /\ open.closed = 0 /\ open.after = Unit BY OpeningFacts
  <2> HIDE DEF open
  <2>3. Len(<<open>>) = 1 /\ <<open>>[1] = open OBVIOUS
  <2> QED BY <2>1, <2>2, <2>3, UnitIsPositive DEF IsChain
<1>2. CASE events[t] # <<>>
  BY <1>2, OpeningFacts DEF LedgerChain
<1> QED BY <1>1, <1>2

\* Appending an event that starts from what remains continues a chain.
LEMMA ChainContinues ==
  ASSUME NEW evs \in Seq(Event), evs # <<>>, IsChain(evs), NEW e \in Event,
         e.before = Remaining(evs), e.after = e.before - e.closed
  PROVE  IsChain(Append(evs, e))
<1> DEFINE longer == Append(evs, e)
           n == Len(evs)
<1>1. n \in Nat /\ n >= 1 BY EmptySeq, LenProperties
<1>2. Len(longer) = n + 1 /\ longer[n + 1] = e /\ \A i \in 1..n : longer[i] = evs[i]
  BY AppendProperties
<1>3. e.before = evs[n].after BY DEF Remaining
<1> HIDE DEF longer, n
<1>4. longer[1].before = Unit BY <1>1, <1>2 DEF IsChain
<1>5. \A i \in 1..(n + 1) : longer[i].after = longer[i].before - longer[i].closed
  <2> TAKE i \in 1..(n + 1)
  <2>1. CASE i = n + 1 BY <1>2, <2>1
  <2>2. CASE i # n + 1
    <3>1. i \in 1..n BY <1>1, <2>2
    <3> QED BY <1>2, <3>1 DEF IsChain, n
  <2> QED BY <2>1, <2>2
<1>6. \A i \in 2..(n + 1) : longer[i].before = longer[i - 1].after
  <2> TAKE i \in 2..(n + 1)
  <2>1. CASE i = n + 1
    <3>1. i - 1 = n /\ n \in 1..n BY <1>1, <2>1
    <3> QED BY <1>2, <1>3, <2>1, <3>1
  <2>2. CASE i # n + 1
    <3>1. i \in 2..n /\ i \in 1..n /\ i - 1 \in 1..n BY <1>1, <2>2
    <3> QED BY <1>2, <3>1 DEF IsChain, n
  <2> QED BY <2>1, <2>2
<1> QED BY <1>2, <1>4, <1>5, <1>6 DEF IsChain, longer

LEMMA LedgerChainStep == TypeOK /\ LedgerChain /\ [Next]_vars => LedgerChain'
<1> SUFFICES ASSUME TypeOK, LedgerChain, [Next]_vars PROVE LedgerChain' OBVIOUS
<1>1. CASE UNCHANGED events BY <1>1 DEF LedgerChain
<1>2. ASSUME NEW t \in Trades, NEW g \in Geometries, Touched(t, g) PROVE LedgerChain'
  <2>1. IsChain(Ensured(t, g)) BY EnsuredIsChain
  <2> QED BY <1>2, <2>1 DEF Touched, LedgerChain, TypeOK
<1>3. ASSUME NEW t \in Trades, NEW g \in Geometries, NEW e, Appended(t, g, e) PROVE LedgerChain'
  <2> DEFINE evs == Ensured(t, g)
  <2>1. evs \in Seq(Event) /\ evs # <<>> BY EnsuredType
  <2>2. IsChain(evs) BY EnsuredIsChain
  <2>3. /\ e \in Event /\ e.before = Remaining(evs) /\ e.after = e.before - e.closed
        /\ events' = [events EXCEPT ![t] = Append(evs, e)]
    BY <1>3 DEF Appended
  <2> HIDE DEF evs
  <2>4. IsChain(Append(evs, e)) BY <2>1, <2>2, <2>3, ChainContinues
  <2> QED BY <2>3, <2>4 DEF LedgerChain, TypeOK
<1> QED BY <1>1, <1>2, <1>3, LedgerSteps

\* Every ledger starts with the whole position and accounts for every fraction of it,
\* whatever the handlers interleave and wherever the process restarts.
THEOREM LedgerIsChain == Spec => []LedgerChain
<1>1. Init => LedgerChain BY DEF Init, LedgerChain
<1> QED BY <1>1, LedgerChainStep, TypeCorrect, PTL DEF Spec

-----------------------------------------------------------------------------
(* One event per decision.                                                 *)

\* The events after a step: those there were, one new event, and events without a
\* decision_id (of a ledger that was opened).
LEMMA WhereEventsComeFrom ==
  ASSUME TypeOK, NEW t \in Trades, NEW g \in Geometries, NEW e, Appended(t, g, e),
         NEW u \in Trades, NEW i \in 1..Len(events'[u])
  PROVE  \/ i \in 1..Len(events[u]) /\ events'[u][i] = events[u][i]
         \/ events'[u][i].key = NoKey
         \/ u = t /\ i = Len(Ensured(t, g)) + 1 /\ events'[u][i] = e
<1> DEFINE evs == Ensured(t, g)
           open == Opening(g)
<1>1. evs \in Seq(Event) BY EnsuredType
<1>2. events' = [events EXCEPT ![t] = Append(evs, e)] /\ e \in Event BY DEF Appended
<1>3. evs = IF events[t] = <<>> THEN <<open>> ELSE events[t] BY OpeningFacts
<1>4. open.key = NoKey BY OpeningFacts
<1>5. events \in [Trades -> Seq(Event)] BY DEF TypeOK
<1> HIDE DEF evs, open
<1>6. CASE u # t BY <1>2, <1>5, <1>6
<1>7. CASE u = t
  <2>1. events'[u] = Append(evs, e) BY <1>2, <1>5, <1>7
  <2>2. Len(evs) \in Nat /\ Len(Append(evs, e)) = Len(evs) + 1 /\ Append(evs, e)[Len(evs) + 1] = e
        /\ \A j \in 1..Len(evs) : Append(evs, e)[j] = evs[j]
    BY <1>1, <1>2, AppendProperties, LenProperties
  <2>3. CASE i = Len(evs) + 1 BY <1>7, <2>1, <2>2, <2>3 DEF evs
  <2>4. CASE i # Len(evs) + 1
    <3>1. i \in 1..Len(evs) /\ events'[u][i] = evs[i] BY <2>1, <2>2, <2>4
    <3>2. CASE events[t] = <<>>
      <4>1. evs = <<open>> BY <1>3, <3>2
      <4>2. i = 1 /\ evs[1] = open BY <3>1, <4>1
      <4> QED BY <1>4, <3>1, <4>2
    <3>3. CASE events[t] # <<>> BY <1>3, <1>7, <3>1, <3>3
    <3> QED BY <3>2, <3>3
  <2> QED BY <2>3, <2>4
<1> QED BY <1>6, <1>7

LEMMA OneEventStep == TypeOK /\ OneEventPerDecision /\ [Next]_vars => OneEventPerDecision'
<1> SUFFICES ASSUME TypeOK, OneEventPerDecision, [Next]_vars PROVE OneEventPerDecision'
  OBVIOUS
<1>1. CASE UNCHANGED events BY <1>1 DEF OneEventPerDecision
<1>2. ASSUME NEW t \in Trades, NEW g \in Geometries, Touched(t, g) PROVE OneEventPerDecision'
  <2> DEFINE open == Opening(g)
  <2>1. Ensured(t, g) = IF events[t] = <<>> THEN <<open>> ELSE events[t] BY OpeningFacts
  <2>2. open.key = NoKey BY OpeningFacts
  <2> HIDE DEF open
  <2>3. events' = [events EXCEPT ![t] = Ensured(t, g)] /\ events \in [Trades -> Seq(Event)]
    BY <1>2 DEF Touched, TypeOK
  <2>4. CASE events[t] # <<>>
    <3>1. events' = events BY <2>1, <2>3, <2>4
    <3> QED BY <3>1 DEF OneEventPerDecision
  <2>5. CASE events[t] = <<>>
    <3>1. events'[t] = <<open>> /\ \A u \in Trades \ {t} : events'[u] = events[u]
      BY <2>1, <2>3, <2>5
    <3>2. \A i \in 1..Len(events'[t]) : events'[t][i].key = NoKey BY <2>2, <3>1
    <3> QED BY <3>1, <3>2 DEF OneEventPerDecision
  <2> QED BY <2>4, <2>5
<1>3. ASSUME NEW t \in Trades, NEW g \in Geometries, NEW e, Appended(t, g, e)
      PROVE  OneEventPerDecision'
  <2> SUFFICES ASSUME NEW u \in Trades, NEW v \in Trades,
                      NEW i \in 1..Len(events'[u]), NEW j \in 1..Len(events'[v]),
                      events'[u][i].key = events'[v][j].key, events'[u][i].key # NoKey
               PROVE  u = v /\ i = j
    BY DEF OneEventPerDecision
  <2>1. e.key # NoKey => KeyIsFree(e.key) BY <1>3 DEF Appended
  <2>2. \/ i \in 1..Len(events[u]) /\ events'[u][i] = events[u][i]
        \/ u = t /\ i = Len(Ensured(t, g)) + 1 /\ events'[u][i] = e
    BY <1>3, WhereEventsComeFrom
  <2>3. \/ j \in 1..Len(events[v]) /\ events'[v][j] = events[v][j]
        \/ v = t /\ j = Len(Ensured(t, g)) + 1 /\ events'[v][j] = e
    BY <1>3, WhereEventsComeFrom
  <2>4. CASE /\ i \in 1..Len(events[u]) /\ events'[u][i] = events[u][i]
             /\ j \in 1..Len(events[v]) /\ events'[v][j] = events[v][j]
    BY <2>4 DEF OneEventPerDecision
  <2>5. CASE events'[u][i] = e /\ j \in 1..Len(events[v]) /\ events'[v][j] = events[v][j]
    BY <2>1, <2>5 DEF KeyIsFree
  <2>6. CASE events'[v][j] = e /\ i \in 1..Len(events[u]) /\ events'[u][i] = events[u][i]
    BY <2>1, <2>6 DEF KeyIsFree
  <2> QED BY <2>2, <2>3, <2>4, <2>5, <2>6
<1> QED BY <1>1, <1>2, <1>3, LedgerSteps

\* Doubled and retried receipts, on one trade or on two, never write a second event for
\* the same decision_id.
THEOREM OneEventAlways == Spec => []OneEventPerDecision
<1>1. Init => OneEventPerDecision BY DEF Init, OneEventPerDecision
<1> QED BY <1>1, OneEventStep, TypeCorrect, PTL DEF Spec

-----------------------------------------------------------------------------
(* The ledger implements the book of exposures.                            *)

\* Opening a ledger is invisible in the book.
LEMMA TouchIsInvisible ==
  ASSUME TypeOK, NEW t \in Trades, NEW g \in Geometries, Touched(t, g)
  PROVE  Exposure' = Exposure /\ Confirmed' = Confirmed
<1> DEFINE open == Opening(g)
<1>1. Ensured(t, g) = IF events[t] = <<>> THEN <<open>> ELSE events[t] BY OpeningFacts
<1>2. open.key = NoKey /\ open.after = Unit BY OpeningFacts
<1> HIDE DEF open
<1>3. events' = [events EXCEPT ![t] = Ensured(t, g)] /\ events \in [Trades -> Seq(Event)]
  BY DEF Touched, TypeOK
<1>4. CASE events[t] # <<>>
  <2>1. events' = events BY <1>1, <1>3, <1>4
  <2> QED BY <2>1 DEF Exposure, Confirmed
<1>5. CASE events[t] = <<>>
  <2>1. events'[t] = <<open>> /\ \A u \in Trades \ {t} : events'[u] = events[u]
    BY <1>1, <1>3, <1>5
  <2>2. Remaining(<<open>>) = Unit /\ <<open>> # <<>> BY <1>2 DEF Remaining
  <2>3. Exposure' = Exposure BY <1>5, <2>1, <2>2 DEF Exposure
  <2>4. \A i \in 1..Len(events'[t]) : events'[t][i].key = NoKey BY <1>2, <2>1
  <2>5. \A k : k \in Confirmed' <=> k \in Confirmed
    BY <1>5, <2>1, <2>4 DEF Confirmed
  <2> QED BY <2>3, <2>5
<1> QED BY <1>4, <1>5

\* An appended event lowers the exposure of its trade by what it closes...
LEMMA AppendLowersExposure ==
  ASSUME TypeOK, NEW t \in Trades, NEW g \in Geometries, NEW e, Appended(t, g, e)
  PROVE  /\ Exposure[t] = e.before
         /\ Exposure' = [Exposure EXCEPT ![t] = e.after]
<1> DEFINE evs == Ensured(t, g)
           open == Opening(g)
<1>1. evs \in Seq(Event) /\ evs # <<>> BY EnsuredType
<1>2. events' = [events EXCEPT ![t] = Append(evs, e)] /\ e \in Event
        /\ e.before = Remaining(evs)
  BY DEF Appended
<1>3. evs = IF events[t] = <<>> THEN <<open>> ELSE events[t] BY OpeningFacts
<1>4. open.after = Unit BY OpeningFacts
<1>5. events \in [Trades -> Seq(Event)] BY DEF TypeOK
<1> HIDE DEF evs, open
<1>6. Exposure[t] = Remaining(evs)
  <2>1. CASE events[t] = <<>>
    <3>1. evs = <<open>> BY <1>3, <2>1
    <3>2. Remaining(evs) = Unit BY <1>4, <3>1 DEF Remaining
    <3> QED BY <2>1, <3>2 DEF Exposure
  <2>2. CASE events[t] # <<>> BY <1>3, <2>2 DEF Exposure
  <2> QED BY <2>1, <2>2
<1>7. Append(evs, e) # <<>> /\ Remaining(Append(evs, e)) = e.after
  BY <1>1, <1>2, AppendProperties DEF Remaining
<1>8. Exposure' = [Exposure EXCEPT ![t] = e.after]
  BY <1>2, <1>5, <1>7 DEF Exposure
<1> QED BY <1>2, <1>6, <1>8

\* ...and confirms its receipt.
LEMMA AppendConfirms ==
  ASSUME TypeOK, NEW t \in Trades, NEW g \in Geometries, NEW e, Appended(t, g, e)
  PROVE  /\ e.key = NoKey => Confirmed' = Confirmed
         /\ e.key # NoKey => e.key \in Keys \ Confirmed /\ Confirmed' = Confirmed \cup {e.key}
<1> DEFINE evs == Ensured(t, g)
           open == Opening(g)
<1>1. evs \in Seq(Event) BY EnsuredType
<1>2. events' = [events EXCEPT ![t] = Append(evs, e)] /\ e \in Event BY DEF Appended
<1>3. evs = IF events[t] = <<>> THEN <<open>> ELSE events[t] BY OpeningFacts
<1>4. events \in [Trades -> Seq(Event)] BY DEF TypeOK
<1>5. \A u \in Trades : \A i \in 1..Len(events'[u]) :
        \/ i \in 1..Len(events[u]) /\ events'[u][i] = events[u][i]
        \/ events'[u][i].key = NoKey
        \/ events'[u][i] = e
  BY WhereEventsComeFrom
<1> HIDE DEF evs, open
<1>6. \A u \in Trades : \A i \in 1..Len(events[u]) :
        i \in 1..Len(events'[u]) /\ events'[u][i] = events[u][i]
  <2> TAKE u \in Trades
  <2> TAKE i \in 1..Len(events[u])
  <2>1. CASE u # t BY <1>2, <1>4, <2>1
  <2>2. CASE u = t
    <3>1. events[t] # <<>> BY <1>4, <2>2, EmptySeq, LenProperties
    <3>2. evs = events[u] BY <1>3, <2>2, <3>1
    <3> QED BY <1>1, <1>2, <1>4, <2>2, <3>2, AppendProperties
  <2> QED BY <2>1, <2>2
<1>7. \E i \in 1..Len(events'[t]) : events'[t][i] = e
  <2>1. events'[t] = Append(evs, e) BY <1>2, <1>4
  <2>2. Len(Append(evs, e)) = Len(evs) + 1 /\ Append(evs, e)[Len(evs) + 1] = e /\ Len(evs) \in Nat
    BY <1>1, <1>2, AppendProperties, LenProperties
  <2>3. Len(evs) + 1 \in 1..Len(events'[t]) BY <2>1, <2>2
  <2> QED BY <2>1, <2>2, <2>3
<1>8. \A k : k \in Confirmed <=>
        k # NoKey /\ \E u \in Trades : \E i \in 1..Len(events[u]) : events[u][i].key = k
  BY DEF Confirmed
<1>9. \A k : k \in Confirmed' <=>
        k # NoKey /\ \E u \in Trades : \E i \in 1..Len(events'[u]) : events'[u][i].key = k
  BY DEF Confirmed
<1>10. \A k : k \in Confirmed' <=> k \in Confirmed \/ (k # NoKey /\ k = e.key)
  <2> SUFFICES ASSUME NEW k
               PROVE  k \in Confirmed' <=> k \in Confirmed \/ (k # NoKey /\ k = e.key)
    OBVIOUS
  <2>1. ASSUME k \in Confirmed' PROVE k \in Confirmed \/ (k # NoKey /\ k = e.key)
    <3>1. k # NoKey BY <1>9, <2>1
    <3>2. PICK u \in Trades : \E i \in 1..Len(events'[u]) : events'[u][i].key = k BY <1>9, <2>1
    <3>3. PICK i \in 1..Len(events'[u]) : events'[u][i].key = k BY <3>2
    <3>4. CASE i \in 1..Len(events[u]) /\ events'[u][i] = events[u][i]
      BY <1>8, <3>1, <3>3, <3>4
    <3> QED BY <1>5, <3>1, <3>3, <3>4
  <2>2. ASSUME k \in Confirmed PROVE k \in Confirmed'
    <3>1. PICK u \in Trades : \E i \in 1..Len(events[u]) : events[u][i].key = k BY <1>8, <2>2
    <3>2. PICK i \in 1..Len(events[u]) : events[u][i].key = k BY <3>1
    <3>3. i \in 1..Len(events'[u]) /\ events'[u][i].key = k BY <1>6, <3>2
    <3> QED BY <1>8, <1>9, <2>2, <3>3
  <2>3. ASSUME k # NoKey, k = e.key PROVE k \in Confirmed' BY <1>7, <1>9, <2>3
  <2> QED BY <2>1, <2>2, <2>3
<1>11. CASE e.key = NoKey BY <1>10, <1>11
<1>12. CASE e.key # NoKey
  <2>1. e.key \in Keys BY <1>2, <1>12 DEF Event
  <2>2. KeyIsFree(e.key) BY <1>12 DEF Appended
  <2>3. e.key \notin Confirmed BY <1>8, <2>2 DEF KeyIsFree
  <2>4. Confirmed' = Confirmed \cup {e.key} BY <1>10, <1>12
  <2> QED BY <1>12, <2>1, <2>3, <2>4
<1> QED BY <1>11, <1>12

\* Every step of the handlers is a step of the book or leaves it as it was.
LEMMA BookStep ==
  ASSUME TypeOK, [Next]_vars
  PROVE  [Book!Next]_(Book!bookVars)
<1>1. CASE UNCHANGED events BY <1>1 DEF Exposure, Confirmed, Book!bookVars
<1>2. ASSUME NEW t \in Trades, NEW g \in Geometries, Touched(t, g)
      PROVE  [Book!Next]_(Book!bookVars)
  BY <1>2, TouchIsInvisible DEF Book!bookVars
<1>3. ASSUME NEW t \in Trades, NEW g \in Geometries, NEW e, Appended(t, g, e)
      PROVE  [Book!Next]_(Book!bookVars)
  <2>1. e \in Event /\ e.after = e.before - e.closed
          /\ (e.key = NoKey => e.closed = 0 \/ (e.closed = e.before /\ e.before > 0))
    BY <1>3 DEF Appended
  <2>2. e.before \in 0..Unit /\ e.closed \in 0..Unit /\ e.after \in 0..Unit BY <2>1 DEF Event
  <2>3. Exposure[t] = e.before /\ Exposure' = [Exposure EXCEPT ![t] = e.after]
    BY <1>3, AppendLowersExposure
  <2>4. Exposure \in [Trades -> {Exposure[u] : u \in Trades}] BY DEF Exposure
  <2>5. CASE e.key # NoKey
    <3>1. e.key \in Keys \ Confirmed /\ Confirmed' = Confirmed \cup {e.key}
      BY <1>3, <2>5, AppendConfirms
    <3>2. e.closed \in 0..Exposure[t] BY <2>1, <2>2, <2>3, UnitIsPositive
    <3>3. Exposure' = [Exposure EXCEPT ![t] = Exposure[t] - e.closed] BY <2>1, <2>3
    <3>4. Book!Confirm(t, e.key, e.closed) BY <3>1, <3>2, <3>3 DEF Book!Confirm
    <3> QED BY <2>2, <3>1, <3>4 DEF Book!Next
  <2>6. CASE e.key = NoKey
    <3>1. Confirmed' = Confirmed BY <1>3, <2>6, AppendConfirms
    <3>2. CASE e.closed = 0
      <4>1. e.after = Exposure[t] BY <2>1, <2>2, <2>3, <3>2
      <4>2. Exposure' = Exposure BY <2>3, <2>4, <4>1
      <4> QED BY <3>1, <4>2 DEF Book!bookVars
    <3>3. CASE e.closed = e.before /\ e.before > 0
      <4>1. e.after = 0 BY <2>1, <2>2, <3>3
      <4>2. Book!Exit(t) BY <2>3, <3>1, <3>3, <4>1 DEF Book!Exit
      <4> QED BY <4>2 DEF Book!Next
    <3> QED BY <2>1, <2>6, <3>2, <3>3
  <2> QED BY <2>5, <2>6
<1> QED BY <1>1, <1>2, <1>3, LedgerSteps

\* The ledger, with its stale readers, retries and restarts, implements the book: each
\* receipt takes effect once and exposure only falls.
THEOREM LedgerImplementsBook == Spec => ImplementsBook
<1>1. Init => Book!Init
  BY DEF Init, Book!Init, Exposure, Confirmed
<1>2. TypeOK /\ [Next]_vars => [Book!Next]_(Book!bookVars) BY BookStep
<1> QED BY <1>1, <1>2, TypeCorrect, PTL DEF Spec, ImplementsBook, Book!Spec

-----------------------------------------------------------------------------
(* A filled trade is closed.                                               *)

\* The strengthening: a ledger belongs to a row that exists, because a handler only ever
\* holds a row that exists and rows are never removed; a row settled from its ledger has one.
RowsBeforeLedgers ==
  /\ \A t \in Trades : /\ trades[t].status = "none" => events[t] = <<>>
                       /\ trades[t].basis = "ledger" => events[t] # <<>>
  /\ \A h \in Handlers : held[h].pc \in {"opened", "read"} => trades[held[h].trade].status # "none"

FilledInv == TypeOK /\ RowsBeforeLedgers /\ FilledTradeIsClosed

\* The row of a trade after a step that writes no event: it is inserted, or keeps its
\* status and either its result or the total the user gives it.
Inserts(t) ==
  /\ UNCHANGED events
  /\ trades[t].status = "none"
  /\ \E g \in Geometries, s \in {"open", "closed"} : trades' = [trades EXCEPT ![t] = Inserted(g, s)]

Rewrites(t) ==
  /\ UNCHANGED events
  /\ trades[t].status # "none"
  /\ \E row \in Row :
       /\ trades' = [trades EXCEPT ![t] = row]
       /\ row.status = trades[t].status
       /\ \/ row.basis = trades[t].basis /\ row.outcome = trades[t].outcome
          \/ row.basis = "manual" /\ row.outcome = "user"
       /\ trades[t].deleted => row.deleted

\* The row after an exit: settled, then perhaps given the total of the user.
ExitRow(t, evs) ==
  {Settled(trades[t], evs),
   [Settled(trades[t], evs) EXCEPT !.basis = "manual", !.outcome = "user"]}

\* What a step may do to a row together with its ledger.
LEMMA RowSteps ==
  ASSUME FilledInv, [Next]_vars
  PROVE  \/ UNCHANGED <<trades, events>>
         \/ \E t \in Trades : Inserts(t) \/ Rewrites(t)
         \/ \E t \in Trades, g \in Geometries :
              /\ trades[t].status # "none"
              /\ \/ Touched(t, g) /\ UNCHANGED trades
                 \/ \E e : Recorded(t, g, e)
                 \/ \E e : /\ Exited(t, g, e)
                           /\ \E row \in ExitRow(t, Append(Ensured(t, g), e)) :
                                trades' = [trades EXCEPT ![t] = row]
<1> DEFINE Writes(t, g) ==
             /\ trades[t].status # "none"
             /\ \/ Touched(t, g) /\ UNCHANGED trades
                \/ \E e : Recorded(t, g, e)
                \/ \E e : /\ Exited(t, g, e)
                          /\ \E row \in ExitRow(t, Append(Ensured(t, g), e)) :
                               trades' = [trades EXCEPT ![t] = row]
           Goal == \/ UNCHANGED <<trades, events>>
                   \/ \E t \in Trades : Inserts(t) \/ Rewrites(t)
                   \/ \E t \in Trades, g \in Geometries : Writes(t, g)
<1> SUFFICES Goal OBVIOUS
<1> USE DEF FilledInv
<1>0. \A t \in Trades : trades[t] \in Row BY DEF TypeOK
<1>1. CASE UNCHANGED vars BY <1>1 DEF vars
<1>2. CASE Restart BY <1>2 DEF Restart
<1>3. CASE JournalStep
  <2>1. ASSUME NEW t \in Trades, NEW g \in Geometries, AddClosed(t, g) PROVE Goal
    <3>1. ~(t < t) BY IdsAreNumbers
    <3>2. trades[t].status = "none" BY <2>1, <3>1 DEF AddClosed, NextRow
    <3>3. Inserts(t) BY <2>1, <3>2 DEF AddClosed, Inserts
    <3> QED BY <3>3
  <2>2. ASSUME NEW t \in Trades, EditResult(t) PROVE Goal
    <3> DEFINE row == [trades[t] EXCEPT !.basis = "manual", !.outcome = "user"]
    <3>1. row \in Row /\ row.status = trades[t].status /\ row.basis = "manual"
            /\ row.outcome = "user" /\ row.deleted = trades[t].deleted
      BY <1>0 DEF Row
    <3>2. trades' = [trades EXCEPT ![t] = row] BY <2>2 DEF EditResult
    <3> HIDE DEF row
    <3>3. Rewrites(t) BY <2>2, <3>1, <3>2 DEF EditResult, Rewrites
    <3> QED BY <3>3
  <2>3. ASSUME NEW t \in Trades, DeleteTrade(t) PROVE Goal
    <3> DEFINE row == [trades[t] EXCEPT !.deleted = TRUE]
    <3>1. row \in Row /\ row.status = trades[t].status /\ row.basis = trades[t].basis
            /\ row.outcome = trades[t].outcome /\ row.deleted
      BY <1>0 DEF Row
    <3>2. trades' = [trades EXCEPT ![t] = row] BY <2>3 DEF DeleteTrade
    <3> HIDE DEF row
    <3>3. Rewrites(t) BY <2>3, <3>1, <3>2 DEF DeleteTrade, Rewrites
    <3> QED BY <3>3
  <2> QED BY <1>3, <2>1, <2>2, <2>3 DEF JournalStep
<1>4. CASE ReviewStep
  <2>1. ASSUME NEW t \in Trades, NEW c \in Commands, NEW policy \in Policies, NEW price \in Prices,
               NEW parts \in {1, 2, 4, 10} \cup OrderParts, PublishReview(t, c, policy, price, parts)
        PROVE  Goal
    <3>1. trades[t].geo \in Geometries BY <1>0 DEF Row
    <3>2. trades[t].status # "none" BY <2>1 DEF PublishReview, IsActive, Live
    <3>3. Touched(t, trades[t].geo) /\ UNCHANGED trades BY <2>1 DEF PublishReview, Touched
    <3>4. Writes(t, trades[t].geo) BY <3>2, <3>3
    <3> HIDE DEF Writes
    <3> QED BY <3>1, <3>4
  <2> QED BY <1>4, <2>1 DEF ReviewStep, DeadlinePasses
<1>5. ASSUME NEW h \in Handlers, HandlerStep(h) PROVE Goal
  <2> DEFINE t == held[h].trade
             g == held[h].row.geo
  <2>1. t \in Trades /\ g \in Geometries BY HeldRow
  <2>2. held[h].pc \in {"opened", "read"} => trades[t].status # "none" BY DEF RowsBeforeLedgers
  <2>3. ASSUME \E e : Recorded(t, g, e), held[h].pc = "read" PROVE Goal
    <3>1. trades[t].status # "none" BY <2>2, <2>3
    <3> HIDE DEF t, g
    <3>2. Writes(t, g) BY <2>3, <3>1
    <3> HIDE DEF Writes
    <3> QED BY <2>1, <3>2
  <2>4. ASSUME Touched(t, g), UNCHANGED trades, held[h].pc \in {"opened", "read"} PROVE Goal
    <3>1. trades[t].status # "none" BY <2>2, <2>4
    <3> HIDE DEF t, g
    <3>2. Writes(t, g) BY <2>4, <3>1
    <3> HIDE DEF Writes
    <3> QED BY <2>1, <3>2
  <2>5. CASE OpeningStep(h)
    <3>1. CASE OpenCheck(h) BY <3>1 DEF OpenCheck
    <3>2. ASSUME NEW t0 \in Trades, NEW g0 \in Geometries, OpenInsert(h, t0, g0) PROVE Goal
      <4>1. ~(t0 < t0) BY IdsAreNumbers
      <4>2. trades[t0].status = "none" BY <3>2, <4>1 DEF OpenInsert, NextRow
      <4>3. Inserts(t0) BY <3>2, <4>2 DEF OpenInsert, Inserts
      <4> QED BY <4>3
    <3>3. CASE OpenLedger(h) BY <2>4, <3>3 DEF OpenLedger, Touched
    <3> HIDE DEF Goal
    <3> QED BY <2>5, <3>1, <3>2, <3>3 DEF OpeningStep
  <2>6. CASE EditingStep(h)
    <3>1. ASSUME NEW g0 \in Geometries, EditLevels(h, g0) PROVE Goal
      <4> DEFINE row == [trades[t] EXCEPT !.geo = g0, !.reached = @ /\ g0 = trades[t].geo]
      <4>1. row \in Row /\ row.status = trades[t].status /\ row.basis = trades[t].basis
              /\ row.outcome = trades[t].outcome /\ row.deleted = trades[t].deleted
        BY <1>0, <2>1 DEF Row
      <4>2. /\ trades' = [trades EXCEPT ![t] = row] /\ UNCHANGED events
            /\ trades[t].status # "none"
        BY <3>1 DEF EditLevels
      <4> HIDE DEF row, t
      <4>3. Rewrites(t) BY <4>1, <4>2 DEF Rewrites
      <4> QED BY <2>1, <4>3
    <3>2. CASE EditSupersede(h) BY <3>2 DEF EditSupersede
    <3>3. CASE \E t0 \in Trades : ReadForEdit(h, t0) BY <3>3 DEF ReadForEdit
    <3> HIDE DEF Goal
    <3> QED BY <2>6, <3>1, <3>2, <3>3 DEF EditingStep
  <2>7. CASE MarketStep(h)
    <3>1. CASE ReachTrigger(h)
      <4> DEFINE row == [trades[t] EXCEPT !.reached = TRUE]
      <4>1. row \in Row /\ row.status = trades[t].status /\ row.basis = trades[t].basis
              /\ row.outcome = trades[t].outcome /\ row.deleted = trades[t].deleted
        BY <1>0, <2>1 DEF Row
      <4>2. trades' = [trades EXCEPT ![t] = row] /\ UNCHANGED events /\ held[h].pc = "read"
        BY <3>1 DEF ReachTrigger
      <4>3. trades[t].status # "none" BY <2>2, <4>2
      <4> HIDE DEF row, t
      <4>4. Rewrites(t) BY <4>1, <4>2, <4>3 DEF Rewrites
      <4> QED BY <2>1, <4>4
    <3>2. CASE SyncBreakEven(h)
      <4>1. held[h].pc = "read" BY <3>2 DEF SyncBreakEven
      <4> QED BY <2>3, <3>2, <4>1, TransactionsRecord
    <3> QED BY <2>7, <3>1, <3>2 DEF MarketStep
  <2>8. CASE AcknowledgementStep(h)
    <3>1. ASSUME NEW c \in Commands, AcknowledgeNotExecuted(h, c) PROVE Goal
      BY <2>4, <3>1 DEF AcknowledgeNotExecuted, MayAcknowledge, Touched
    <3>2. CASE RetriedReceipt(h) \/ CompleteAck(h) BY <3>2 DEF RetriedReceipt, CompleteAck
    <3>3. CASE /\ ~(RetriedReceipt(h) \/ CompleteAck(h))
               /\ ~\E c \in Commands : AcknowledgeNotExecuted(h, c)
      <4>1. held[h].pc = "read"
        BY <2>8, <3>3 DEF AcknowledgementStep, MayAcknowledge, AcknowledgeReduction,
             AcknowledgeBarrier, AcknowledgeArm, AcknowledgeConditionalFill, AcknowledgeCancel,
             ManualFill
      <4> HIDE DEF t, g, Goal
      <4>2. \E e : Recorded(t, g, e)
        BY <2>8, <3>3, TransactionsRecord DEF AcknowledgementStep, t, g
      <4> QED BY <2>3, <4>1, <4>2
    <3> HIDE DEF Goal
    <3> QED BY <3>1, <3>2, <3>3
  <2>9. CASE \E t0 \in Trades : ReadTrade(h, t0) BY <2>9 DEF ReadTrade
  <2>10. CASE Return(h) BY <2>10 DEF Return
  <2>11. CASE TouchLedger(h) BY <2>4, <2>11 DEF TouchLedger, Touched
  <2>12. ASSUME NEW total \in BOOLEAN, NEW priced \in BOOLEAN, TerminalExit(h, total, priced)
         PROVE  Goal
    <3> DEFINE evs == Ensured(t, g)
               exit == MakeEvent("MANUAL_EXIT", NoKey, Remaining(evs), Remaining(evs),
                                 ActiveStop(evs, g), g.take, priced)
    <3>1. PICK e : Exited(t, g, e) BY <2>12, TerminalExitWrites
    <3>2. events' = [events EXCEPT ![t] = Append(evs, exit)]
            /\ \E row \in ExitRow(t, Append(evs, exit)) : trades' = [trades EXCEPT ![t] = row]
      BY <2>12 DEF TerminalExit, ExitRow
    <3>3. trades[t].status # "none" BY <2>2, <2>12 DEF TerminalExit
    <3>4. evs \in Seq(Event) /\ e \in Event BY <3>1, LedgerContext DEF Exited
    <3> HIDE DEF t, g, exit, evs
    <3>5. events \in [Trades -> Seq(Event)] BY DEF TypeOK
    <3>6. Append(evs, exit) = Append(evs, e)
      <4>1. events' = [events EXCEPT ![t] = Append(evs, e)] BY <3>1 DEF Exited, evs
      <4>2. events'[t] = Append(evs, e) BY <2>1, <3>5, <4>1
      <4>3. events'[t] = Append(evs, exit) BY <2>1, <3>2, <3>5
      <4> QED BY <4>2, <4>3
    <3>7. Writes(t, g) BY <3>1, <3>2, <3>3, <3>6 DEF evs
    <3> HIDE DEF Writes
    <3> QED BY <2>1, <3>7
  <2> HIDE DEF Goal
  <2> QED BY <1>5, <2>5, <2>6, <2>7, <2>8, <2>9, <2>10, <2>11, <2>12 DEF HandlerStep
<1> HIDE DEF Goal, Writes
<1> QED BY <1>1, <1>2, <1>3, <1>4, <1>5 DEF Next, Step

\* A handler that holds a row held it before, or the row exists now.
LEMMA HeldSteps ==
  ASSUME TypeOK, [Next]_vars, NEW k \in Handlers, held'[k].pc \in {"opened", "read"}
  PROVE  \/ held[k].pc \in {"opened", "read"} /\ held'[k].trade = held[k].trade
         \/ trades'[held'[k].trade].status # "none"
<1> DEFINE Goal == \/ held[k].pc \in {"opened", "read"} /\ held'[k].trade = held[k].trade
                   \/ trades'[held'[k].trade].status # "none"
<1> SUFFICES Goal OBVIOUS
<1>0. held \in [Handlers -> Held] /\ trades \in [Trades -> Row] BY DEF TypeOK
<1>1. CASE UNCHANGED held BY <1>1
<1>2. ASSUME NEW h \in Handlers, Leave(h) PROVE Goal
  BY <1>0, <1>2 DEF Leave, At
<1>3. ASSUME NEW h \in Handlers, Leave(h) \/ Acknowledged(h) PROVE Goal
  BY <1>0, <1>2, <1>3 DEF Acknowledged, At
<1>4. CASE UNCHANGED vars BY <1>1, <1>4 DEF vars
<1>5. CASE Restart BY <1>5 DEF Restart, At
<1>6. CASE JournalStep BY <1>1, <1>6 DEF JournalStep, AddClosed, EditResult, DeleteTrade
<1>7. CASE ReviewStep BY <1>1, <1>7 DEF ReviewStep, PublishReview, DeadlinePasses
<1>8. ASSUME NEW h \in Handlers, HandlerStep(h) PROVE Goal
  <2>1. CASE OpeningStep(h)
    <3>1. CASE OpenCheck(h) BY <1>0, <3>1 DEF OpenCheck, At
    <3>2. ASSUME NEW t \in Trades, NEW g \in Geometries, OpenInsert(h, t, g) PROVE Goal
      <4> DEFINE row == Inserted(g, "open")
                 holder == [At("opened", t) EXCEPT !.row = row]
      <4>1. row.status = "open" BY DEF Inserted
      <4>2. trades' = [trades EXCEPT ![t] = row] /\ held' = [held EXCEPT ![h] = holder]
        BY <3>2 DEF OpenInsert
      <4>3. holder.trade = t BY DEF At
      <4> HIDE DEF row, holder
      <4>4. trades'[t].status # "none" BY <1>0, <4>1, <4>2
      <4>5. CASE k = h BY <1>0, <4>2, <4>3, <4>4, <4>5
      <4>6. CASE k # h BY <1>0, <4>2, <4>6
      <4> QED BY <4>5, <4>6
    <3>3. CASE OpenLedger(h) BY <1>3, <3>3 DEF OpenLedger
    <3> HIDE DEF Goal
    <3> QED BY <2>1, <3>1, <3>2, <3>3 DEF OpeningStep
  <2>2. CASE EditingStep(h)
    <3>1. ASSUME NEW g \in Geometries, EditLevels(h, g) PROVE Goal
      BY <1>0, <3>1 DEF EditLevels, At
    <3>2. CASE EditSupersede(h) BY <1>3, <3>2 DEF EditSupersede
    <3>3. ASSUME NEW t \in Trades, ReadForEdit(h, t) PROVE Goal
      BY <1>0, <3>3 DEF ReadForEdit, At
    <3> HIDE DEF Goal
    <3> QED BY <2>2, <3>1, <3>2, <3>3 DEF EditingStep
  <2>3. CASE MarketStep(h)
    <3>1. CASE ReachTrigger(h) BY <1>3, <3>1 DEF ReachTrigger
    <3>2. CASE SyncBreakEven(h) BY <1>1, <3>2 DEF SyncBreakEven
    <3> HIDE DEF Goal
    <3> QED BY <2>3, <3>1, <3>2 DEF MarketStep
  <2>4. CASE AcknowledgementStep(h)
    <3>1. Acknowledged(h) \/ Leave(h)
      BY <2>4 DEF AcknowledgementStep, AcknowledgeNotExecuted, AcknowledgeReduction,
           AcknowledgeBarrier, AcknowledgeArm, AcknowledgeConditionalFill, AcknowledgeCancel,
           ManualFill, RetriedReceipt, CompleteAck
    <3> HIDE DEF Goal
    <3> QED BY <1>3, <3>1
  <2>5. ASSUME NEW t \in Trades, ReadTrade(h, t) PROVE Goal
    <3>1. trades[t].status # "none" /\ UNCHANGED trades BY <2>5 DEF ReadTrade
    <3>2. held' = [held EXCEPT ![h] = [pc |-> "read", trade |-> t, row |-> trades[t],
                                       active |-> IsActive(t)]]
      BY <2>5 DEF ReadTrade
    <3>3. CASE k = h BY <1>0, <3>1, <3>2, <3>3
    <3>4. CASE k # h BY <1>0, <3>2, <3>4
    <3> QED BY <3>3, <3>4
  <2>6. CASE Return(h) BY <1>3, <2>6 DEF Return
  <2>7. CASE TouchLedger(h) BY <1>1, <2>7 DEF TouchLedger
  <2>8. ASSUME NEW total \in BOOLEAN, NEW priced \in BOOLEAN, TerminalExit(h, total, priced)
        PROVE  Goal
    BY <1>3, <2>8 DEF TerminalExit
  <2> HIDE DEF Goal
  <2> QED BY <1>8, <2>1, <2>2, <2>3, <2>4, <2>5, <2>6, <2>7, <2>8 DEF HandlerStep
<1> HIDE DEF Goal
<1> QED BY <1>4, <1>5, <1>6, <1>7, <1>8 DEF Next, Step

\* What the invariants say of one row and its ledger.
RowAndLedger(row, evs) ==
  /\ row.status = "none" => evs = <<>>
  /\ row.basis = "ledger" => evs # <<>> /\ row.status = "closed" /\ Remaining(evs) = 0
  /\ ( /\ evs # <<>> /\ Remaining(evs) = 0
       /\ ~row.deleted /\ row.basis # "manual" ) => row.status = "closed"

\* Settling a row from an exhausted ledger closes it.
LEMMA SettlesRow ==
  ASSUME NEW row \in Row, NEW evs \in Seq(Event), evs # <<>>, Remaining(evs) = 0,
         Fills(evs) # {}, row.status # "none", row.basis = "ledger" => row.status = "closed"
  PROVE  /\ RowAndLedger(Settled(row, evs), evs)
         /\ RowAndLedger([Settled(row, evs) EXCEPT !.basis = "manual", !.outcome = "user"], evs)
         /\ Settled(row, evs).status # "none"
<1> DEFINE settled == Settled(row, evs)
<1>1. settled \in Row BY SettledType
<1>2. \/ settled = row /\ (row.basis = "manual" \/ row.deleted \/ row.status = "closed")
      \/ settled.status = "closed"
  BY DEF Settled, Row
<1> HIDE DEF settled
<1>3. settled.status # "none" /\ (settled.basis = "ledger" => settled.status = "closed")
  BY <1>2
<1>4. RowAndLedger(settled, evs) BY <1>2, <1>3 DEF RowAndLedger
<1>5. RowAndLedger([settled EXCEPT !.basis = "manual", !.outcome = "user"], evs)
  <2> DEFINE given == [settled EXCEPT !.basis = "manual", !.outcome = "user"]
  <2>1. given.basis = "manual" /\ given.status = settled.status BY <1>1 DEF Row
  <2> HIDE DEF given
  <2>2. RowAndLedger(given, evs) BY <1>3, <2>1 DEF RowAndLedger
  <2> QED BY <2>2 DEF given
<1> QED BY <1>3, <1>4, <1>5 DEF settled

\* An appended event keeps the row and its ledger in step: the last fill closes the row,
\* and an event on an exhausted ledger finds it closed.
LEMMA AppendKeepsRow ==
  ASSUME TypeOK, NEW t \in Trades, NEW g \in Geometries, NEW e \in Event,
         RowAndLedger(trades[t], events[t]), trades[t].status # "none",
         e.before = Remaining(Ensured(t, g)), e.after = e.before - e.closed
  PROVE  LET longer == Append(Ensured(t, g), e) IN
         /\ longer \in Seq(Event) /\ longer # <<>>
         /\ Remaining(longer) = e.after
         /\ e.closed > 0 /\ e.after = 0 =>
              \A row \in ExitRow(t, longer) : RowAndLedger(row, longer)
         /\ ~(e.closed > 0 /\ e.after = 0) => RowAndLedger(trades[t], longer)
<1> DEFINE evs == Ensured(t, g)
           longer == Append(evs, e)
           open == Opening(g)
           row == trades[t]
<1>1. evs \in Seq(Event) /\ evs # <<>> BY EnsuredType
<1>2. evs = IF events[t] = <<>> THEN <<open>> ELSE events[t] BY OpeningFacts
<1>3. open.after = Unit BY OpeningFacts
<1>4. row \in Row BY DEF TypeOK
<1>5. e.before \in 0..Unit /\ e.closed \in 0..Unit /\ e.after \in 0..Unit BY DEF Event
<1>6. e.before = Remaining(evs) OBVIOUS
<1> HIDE DEF evs, open
<1>7. /\ longer \in Seq(Event) /\ longer # <<>> /\ Remaining(longer) = e.after
      /\ Len(longer) \in 1..Len(longer) /\ longer[Len(longer)] = e
  BY <1>1, AppendProperties DEF Remaining
<1> HIDE DEF longer, row
<1>8. ASSUME e.before = 0 PROVE events[t] # <<>> /\ Remaining(events[t]) = 0
  <2>1. CASE events[t] = <<>>
    <3>1. evs = <<open>> BY <1>2, <2>1
    <3>2. Remaining(evs) = Unit BY <1>3, <3>1 DEF Remaining
    <3> QED BY <1>6, <1>8, <3>2, UnitIsPositive
  <2>2. CASE events[t] # <<>> BY <1>2, <1>6, <1>8, <2>2
  <2> QED BY <2>1, <2>2
<1>9. row.basis = "ledger" => e.before = 0 /\ row.status = "closed"
  BY <1>2, <1>6 DEF RowAndLedger, row
<1>10. ASSUME e.closed > 0, e.after = 0
       PROVE  \A r \in ExitRow(t, longer) : RowAndLedger(r, longer)
  <2>1. Fills(longer) # {} BY <1>7, <1>10 DEF Fills
  <2>2. /\ RowAndLedger(Settled(row, longer), longer)
        /\ RowAndLedger([Settled(row, longer) EXCEPT !.basis = "manual", !.outcome = "user"], longer)
    BY <1>4, <1>7, <1>9, <1>10, <2>1, SettlesRow DEF row
  <2> QED BY <2>2 DEF ExitRow, row
<1>11. ASSUME ~(e.closed > 0 /\ e.after = 0) PROVE RowAndLedger(row, longer)
  <2>1. CASE e.after = 0
    <3>1. e.before = 0 BY <1>5, <1>11, <2>1
    <3>2. events[t] # <<>> /\ Remaining(events[t]) = 0 BY <1>8, <3>1
    <3> QED BY <1>7, <2>1, <3>2 DEF RowAndLedger, row
  <2>2. CASE e.after # 0
    <3>1. row.basis # "ledger"
      <4>1. e.before = 0 => e.after = 0 BY <1>5
      <4> QED BY <1>9, <2>2, <4>1
    <3> QED BY <1>7, <2>2, <3>1 DEF RowAndLedger, row
  <2> QED BY <2>1, <2>2
<1> QED BY <1>7, <1>10, <1>11 DEF longer, evs, row

LEMMA FilledStep == FilledInv /\ [Next]_vars => FilledInv'
<1> SUFFICES ASSUME FilledInv, [Next]_vars PROVE FilledInv' OBVIOUS
<1> DEFINE Holds == \A u \in Trades : RowAndLedger(trades[u], events[u])
           Persist == \A u \in Trades : trades[u].status # "none" => trades'[u].status # "none"
<1>0. TypeOK /\ trades \in [Trades -> Row] /\ events \in [Trades -> Seq(Event)]
  BY DEF FilledInv, TypeOK
<1>1. Holds BY DEF FilledInv, RowsBeforeLedgers, FilledTradeIsClosed, RowAndLedger
<1>2. ASSUME UNCHANGED <<trades, events>> PROVE Holds' /\ Persist BY <1>1, <1>2
<1>3. ASSUME NEW t \in Trades, Inserts(t) PROVE Holds' /\ Persist
  <2>1. PICK g \in Geometries, s \in {"open", "closed"} : trades' = [trades EXCEPT ![t] = Inserted(g, s)]
    BY <1>3 DEF Inserts
  <2>2. events[t] = <<>> /\ UNCHANGED events BY <1>1, <1>3 DEF Inserts, RowAndLedger
  <2>3. RowAndLedger(Inserted(g, s), events[t]) /\ Inserted(g, s).status # "none"
    BY <2>2 DEF Inserted, RowAndLedger
  <2> QED BY <1>0, <1>1, <2>1, <2>2, <2>3
<1>4. ASSUME NEW t \in Trades, Rewrites(t) PROVE Holds' /\ Persist
  <2>1. PICK row \in Row :
          /\ trades' = [trades EXCEPT ![t] = row]
          /\ row.status = trades[t].status
          /\ \/ row.basis = trades[t].basis /\ row.outcome = trades[t].outcome
             \/ row.basis = "manual" /\ row.outcome = "user"
          /\ trades[t].deleted => row.deleted
    BY <1>4 DEF Rewrites
  <2>2. RowAndLedger(row, events[t]) BY <1>1, <2>1 DEF RowAndLedger
  <2> QED BY <1>0, <1>1, <1>4, <2>1, <2>2 DEF Rewrites
<1>5. ASSUME NEW t \in Trades, NEW g \in Geometries, trades[t].status # "none",
             Touched(t, g), UNCHANGED trades
      PROVE  Holds' /\ Persist
  <2>1. CASE events[t] # <<>> BY <1>0, <1>1, <1>5, <2>1, OpeningFacts DEF Touched
  <2>2. CASE events[t] = <<>>
    <3> DEFINE open == Opening(g)
    <3>1. Ensured(t, g) = <<open>> /\ open.after = Unit BY <2>2, OpeningFacts
    <3> HIDE DEF open
    <3>2. Remaining(<<open>>) # 0 /\ <<open>> # <<>> BY <3>1, UnitIsPositive DEF Remaining
    <3>3. RowAndLedger(trades[t], <<open>>) BY <1>1, <1>5, <2>2, <3>2 DEF RowAndLedger
    <3> QED BY <1>0, <1>1, <1>5, <3>1, <3>3 DEF Touched
  <2> QED BY <2>1, <2>2
<1>6. ASSUME NEW t \in Trades, NEW g \in Geometries, NEW e, trades[t].status # "none",
             Recorded(t, g, e)
      PROVE  Holds' /\ Persist
  <2> DEFINE longer == Append(Ensured(t, g), e)
             row == IF e.closed > 0 /\ e.after = 0 THEN Settled(trades[t], longer) ELSE trades[t]
  <2>1. e \in Event /\ e.before = Remaining(Ensured(t, g)) /\ e.after = e.before - e.closed
    BY <1>6 DEF Recorded
  <2>2. events' = [events EXCEPT ![t] = longer] /\ trades' = [trades EXCEPT ![t] = row]
    BY <1>0, <1>6 DEF Recorded, Record
  <2>3. RowAndLedger(row, longer) /\ longer # <<>>
    BY <1>0, <1>1, <1>6, <2>1, AppendKeepsRow DEF ExitRow
  <2> HIDE DEF row, longer
  <2>4. row.status # "none" BY <2>3 DEF RowAndLedger
  <2> QED BY <1>0, <1>1, <2>2, <2>3, <2>4
<1>7. ASSUME NEW t \in Trades, NEW g \in Geometries, NEW e, trades[t].status # "none",
             Exited(t, g, e), NEW row \in ExitRow(t, Append(Ensured(t, g), e)),
             trades' = [trades EXCEPT ![t] = row]
      PROVE  Holds' /\ Persist
  <2> DEFINE longer == Append(Ensured(t, g), e)
  <2>1. e \in Event /\ e.before = Remaining(Ensured(t, g)) /\ e.closed > 0 /\ e.after = 0
          /\ e.after = e.before - e.closed
    BY <1>7, UnitIsPositive DEF Exited, Event
  <2>2. events' = [events EXCEPT ![t] = longer] BY <1>7 DEF Exited
  <2>3. RowAndLedger(row, longer) /\ longer # <<>>
    BY <1>0, <1>1, <1>7, <2>1, AppendKeepsRow
  <2> HIDE DEF longer
  <2>4. row.status # "none" BY <2>3 DEF RowAndLedger
  <2> QED BY <1>0, <1>1, <1>7, <2>2, <2>3, <2>4
<1>8. Holds' /\ Persist
  <2> HIDE DEF Holds, Persist
  <2> QED BY <1>2, <1>3, <1>4, <1>5, <1>6, <1>7, RowSteps
<1>9. \A h \in Handlers : held'[h].pc \in {"opened", "read"} => trades'[held'[h].trade].status # "none"
  <2> TAKE h \in Handlers
  <2> HAVE held'[h].pc \in {"opened", "read"}
  <2>1. held[h].trade \in Trades BY <1>0, HeldRow
  <2>2. held[h].pc \in {"opened", "read"} => trades[held[h].trade].status # "none"
    BY DEF FilledInv, RowsBeforeLedgers
  <2> QED BY <1>0, <1>8, <2>1, <2>2, HeldSteps
<1>10. TypeOK' BY <1>0, TypeOKStep
<1> QED BY <1>8, <1>9, <1>10 DEF FilledInv, RowsBeforeLedgers, FilledTradeIsClosed, RowAndLedger

\* Whatever the handlers interleave and wherever a restart falls, an exhausted ledger has
\* closed its row, unless the user gave the total or deleted the trade.
THEOREM FilledTradesClose == Spec => []FilledTradeIsClosed
<1>1. Init => FilledInv
  <2> SUFFICES ASSUME Init PROVE FilledInv OBVIOUS
  <2>1. TypeOK BY Placeholders, HandlerType DEF Init, TypeOK, At, Held
  <2>2. RowsBeforeLedgers /\ FilledTradeIsClosed
    BY DEF Init, RowsBeforeLedgers, FilledTradeIsClosed, NoRow, Inserted, At
  <2> QED BY <2>1, <2>2 DEF FilledInv
<1>2. FilledInv /\ [Next]_vars => FilledInv' BY FilledStep
<1>3. FilledInv => FilledTradeIsClosed BY DEF FilledInv
<1> QED BY <1>1, <1>2, <1>3, PTL DEF Spec
=============================================================================
