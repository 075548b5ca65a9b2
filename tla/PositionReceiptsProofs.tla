------------------------ MODULE PositionReceiptsProofs ------------------------
(***************************************************************************)
(* More proofs about PositionLedger: what a settled trade earns, what the  *)
(* receipts of the manual commands stand on, and which stop is active.     *)
(***************************************************************************)
EXTENDS PositionLedgerProofs

-----------------------------------------------------------------------------
(* The sum of a ledger.                                                    *)

\* A set that holds zero and every successor holds every number.
LEMMA NumbersByInduction ==
  ASSUME NEW S, 0 \in S, \A k \in Nat : k \in S => k + 1 \in S
  PROVE  \A k \in Nat : k \in S
<1> DEFINE T == Nat \ S
<1> SUFFICES ASSUME T # {} PROVE FALSE OBVIOUS
<1>1. PICK x \in T : \A y \in T : ~(<<y, x>> \in OpToRel(<, Nat))
  <2>1. T \subseteq Nat OBVIOUS
  <2> HIDE DEF T
  <2> QED BY <2>1, NatLessThanWellFounded, WFMin
<1>2. \A y \in T : ~(y < x) BY <1>1 DEF OpToRel
<1>3. x # 0 /\ x - 1 \in Nat /\ x - 1 < x /\ (x - 1) + 1 = x OBVIOUS
<1>4. x - 1 \in S BY <1>2, <1>3
<1> QED BY <1>3, <1>4

\* F[s] is what the events at the positions s close, for every set s of the first n.
Sums(F, evs, n) ==
  F = [s \in SUBSET (1..n) |->
         IF s = {} THEN 0 ELSE F[s \ {Max(s)}] + evs[Max(s)].closed]

\* The greatest position of a set that holds the last one.
LEMMA GreatestOf ==
  ASSUME NEW n \in Nat, NEW s, s \subseteq 1..(n + 1), n + 1 \in s
  PROVE  Max(s) = n + 1
<1>1. \A y \in s : n + 1 >= y OBVIOUS
<1>2. ASSUME NEW x \in s, \A y \in s : x >= y PROVE x = n + 1
  <2>1. x \in Nat /\ x >= n + 1 /\ n + 1 >= x BY <1>2
  <2> QED BY <2>1
<1> QED BY <1>1, <1>2 DEF Max

\* Such sums exist: position by position.
LEMMA SumsExist ==
  ASSUME NEW evs, NEW n \in Nat
  PROVE  \E F : Sums(F, evs, n)
<1> DEFINE S == {k \in Nat : \E F : Sums(F, evs, k)}
<1>1. 0 \in S
  <2> DEFINE F == [s \in SUBSET (1..0) |-> 0]
  <2>1. Sums(F, evs, 0) BY DEF Sums
  <2> QED BY <2>1
<1>2. ASSUME NEW k \in Nat, k \in S PROVE k + 1 \in S
  <2>1. PICK F : Sums(F, evs, k) BY <1>2
  <2> DEFINE G == [s \in SUBSET (1..(k + 1)) |->
                     IF k + 1 \in s THEN F[s \ {k + 1}] + evs[k + 1].closed ELSE F[s]]
  <2>2. ASSUME NEW s \in SUBSET (1..(k + 1))
        PROVE  G[s] = IF s = {} THEN 0 ELSE G[s \ {Max(s)}] + evs[Max(s)].closed
    <3>1. CASE k + 1 \in s
      <4>1. Max(s) = k + 1 BY <3>1, GreatestOf
      <4>2. s \ {k + 1} \in SUBSET (1..(k + 1)) /\ k + 1 \notin s \ {k + 1} OBVIOUS
      <4>3. G[s \ {k + 1}] = F[s \ {k + 1}] BY <4>2
      <4> QED BY <3>1, <4>1, <4>3
    <3>2. CASE k + 1 \notin s
      <4>1. s \in SUBSET (1..k) /\ s \ {Max(s)} \in SUBSET (1..(k + 1)) /\ k + 1 \notin s \ {Max(s)}
        <5>1. \A i \in 1..(k + 1) : i # k + 1 => i \in 1..k OBVIOUS
        <5>2. s \in SUBSET (1..k) BY <3>2, <5>1
        <5> QED BY <3>2, <5>2
      <4>2. G[s] = F[s] /\ G[s \ {Max(s)}] = F[s \ {Max(s)}] BY <3>2, <4>1
      <4>3. F[s] = IF s = {} THEN 0 ELSE F[s \ {Max(s)}] + evs[Max(s)].closed
        BY <2>1, <4>1 DEF Sums
      <4> QED BY <4>2, <4>3
    <3> QED BY <3>1, <3>2
  <2>3. Sums(G, evs, k + 1)
    <3>1. G = [s \in SUBSET (1..(k + 1)) |-> G[s]] OBVIOUS
    <3> HIDE DEF G
    <3> QED BY <2>2, <3>1 DEF Sums
  <2> QED BY <2>3
<1> HIDE DEF S
<1>3. \A k \in Nat : k \in S BY <1>1, <1>2, NumbersByInduction
<1> QED BY <1>3 DEF S

\* ClosedInTotal is the sum over all positions.
LEMMA FoldIsSum ==
  ASSUME NEW evs \in Seq(Event)
  PROVE  \E F : Sums(F, evs, Len(evs)) /\ ClosedInTotal(evs) = F[1..Len(evs)]
<1> DEFINE n == Len(evs)
           F == CHOOSE f : Sums(f, evs, n)
<1>1. n \in Nat /\ DOMAIN evs = 1..n OBVIOUS
<1>2. Sums(F, evs, n) BY <1>1, SumsExist
<1>3. ClosedInTotal(evs) = F[1..n]
  BY <1>1 DEF ClosedInTotal, FoldLeft, MapThenFoldSet, Sums
<1> QED BY <1>2, <1>3

\* What the events of a chain close, together, is what no longer remains of the position.
LEMMA ChainAccounts ==
  ASSUME NEW evs \in Seq(Event), evs # <<>>, IsChain(evs)
  PROVE  ClosedInTotal(evs) = Unit - Remaining(evs)
<1> DEFINE n == Len(evs)
<1>1. n \in Nat /\ n >= 1 /\ \A i \in 1..n : evs[i] \in Event BY EmptySeq, ElementOfSeq
<1>2. PICK F : Sums(F, evs, n) /\ ClosedInTotal(evs) = F[1..n] BY FoldIsSum
<1> HIDE DEF n
<1>3. F[{}] = 0 BY <1>2 DEF Sums
<1>4. ASSUME NEW k \in 1..n PROVE F[1..k] = F[1..(k - 1)] + evs[k].closed
  <2>1. k - 1 \in Nat /\ (k - 1) + 1 = k /\ 1..k \subseteq 1..n BY <1>1
  <2>2. Max(1..k) = k
    <3> DEFINE j == k - 1
    <3>1. j \in Nat /\ j + 1 = k /\ 1..k \subseteq 1..(j + 1) /\ j + 1 \in 1..k BY <1>1
    <3> HIDE DEF j
    <3> QED BY <3>1, GreatestOf
  <2>3. (1..k) \ {k} = 1..(k - 1) BY <2>1
  <2>4. k \in 1..k BY <1>1
  <2> QED BY <1>2, <2>1, <2>2, <2>3, <2>4 DEF Sums
<1>5. \A i \in 1..n : evs[i].before \in 0..Unit /\ evs[i].closed \in 0..Unit /\ evs[i].after \in 0..Unit
  BY <1>1 DEF Event
<1> DEFINE S == {k \in Nat : k + 1 \in 1..n => F[1..(k + 1)] = Unit - evs[k + 1].after}
<1>6. 0 \in S
  <2>1. 1 \in 1..n /\ 1..(1 - 1) = {} /\ 0 + 1 = 1 BY <1>1
  <2>2. F[1..1] = evs[1].closed
    <3>1. F[1..1] = F[1..(1 - 1)] + evs[1].closed BY <1>4, <2>1
    <3>2. F[1..(1 - 1)] = 0 BY <1>3, <2>1
    <3> QED BY <1>5, <2>1, <3>1, <3>2
  <2>3. evs[1].before = Unit /\ evs[1].after = evs[1].before - evs[1].closed BY <2>1 DEF IsChain, n
  <2> QED BY <1>5, <2>1, <2>2, <2>3, UnitIsPositive
<1>7. ASSUME NEW k \in Nat, k \in S PROVE k + 1 \in S
  <2> SUFFICES ASSUME k + 2 \in 1..n PROVE F[1..(k + 2)] = Unit - evs[k + 2].after OBVIOUS
  <2>1. k + 1 \in 1..n /\ (k + 2) - 1 = k + 1 /\ k + 2 \in 2..n BY <1>1
  <2>2. F[1..(k + 1)] = Unit - evs[k + 1].after BY <1>7, <2>1
  <2>3. F[1..(k + 2)] = F[1..(k + 1)] + evs[k + 2].closed BY <1>4, <2>1
  <2>4. evs[k + 2].before = evs[k + 1].after /\ evs[k + 2].after = evs[k + 2].before - evs[k + 2].closed
    BY <2>1 DEF IsChain, n
  <2> QED BY <1>5, <2>1, <2>2, <2>3, <2>4, UnitIsPositive
<1> HIDE DEF S
<1>8. n - 1 \in S BY <1>1, <1>6, <1>7, NumbersByInduction
<1>9. F[1..n] = Unit - evs[n].after BY <1>1, <1>8 DEF S
<1> QED BY <1>2, <1>9 DEF Remaining, n

-----------------------------------------------------------------------------
(* What a settled trade earns.                                             *)

\* A row settled from these events is available just when all their fills are priced.
IsPriced(row, evs) ==
  row.basis = "ledger" =>
    (row.outcome = "available" <=> \A i \in Fills(evs) : evs[i].priced)

\* Settling an exhausted chain: the sum that settle_from_ledger also compares is the
\* whole position, so only prices can be missing.
LEMMA SettlesPriced ==
  ASSUME NEW row \in Row, NEW evs \in Seq(Event), evs # <<>>, IsChain(evs),
         Remaining(evs) = 0, row.basis # "ledger"
  PROVE  IsPriced(Settled(row, evs), evs)
<1>1. ClosedInTotal(evs) = Unit BY ChainAccounts, UnitIsPositive
<1>2. CASE Settled(row, evs) = row BY <1>2 DEF IsPriced
<1>3. CASE Settled(row, evs) # row
  <2> DEFINE priced == \A i \in Fills(evs) : evs[i].priced
  <2>1. Settled(row, evs) = [row EXCEPT !.status = "closed", !.basis = "ledger",
                               !.outcome = IF priced THEN "available" ELSE "unavailable"]
    BY <1>1, <1>3 DEF Settled
  <2> HIDE DEF priced
  <2>2. Settled(row, evs).outcome = IF priced THEN "available" ELSE "unavailable"
    BY <2>1 DEF Row
  <2> QED BY <2>2 DEF IsPriced, priced
<1> QED BY <1>2, <1>3

\* An event that closes nothing adds no fill.
LEMMA NoNewFill ==
  ASSUME NEW evs \in Seq(Event), NEW e \in Event, ~(e.closed > 0)
  PROVE  /\ Fills(Append(evs, e)) = Fills(evs)
         /\ \A i \in Fills(evs) : Append(evs, e)[i] = evs[i]
<1>1. /\ Len(evs) \in Nat /\ Len(Append(evs, e)) = Len(evs) + 1
      /\ Append(evs, e)[Len(evs) + 1] = e
      /\ \A i \in 1..Len(evs) : Append(evs, e)[i] = evs[i]
  BY AppendProperties, LenProperties
<1>2. \A i \in 1..(Len(evs) + 1) : i \in 1..Len(evs) \/ i = Len(evs) + 1 BY <1>1
<1> QED BY <1>1, <1>2 DEF Fills

AvailableInv == FilledInv /\ LedgerChain /\ AvailableResultIsPriced

LEMMA AvailableStep == AvailableInv /\ [Next]_vars => AvailableInv'
<1> SUFFICES ASSUME AvailableInv, [Next]_vars PROVE AvailableInv' OBVIOUS
<1> DEFINE Holds == \A u \in Trades : IsPriced(trades[u], events[u])
<1>1. FilledInv /\ TypeOK /\ LedgerChain /\ trades \in [Trades -> Row]
        /\ events \in [Trades -> Seq(Event)]
  BY DEF AvailableInv, FilledInv, TypeOK
<1>2. Holds BY DEF AvailableInv, AvailableResultIsPriced, IsPriced
<1>3. \A t \in Trades : trades[t].basis = "ledger" => events[t] # <<>> /\ Remaining(events[t]) = 0
  BY <1>1 DEF FilledInv, RowsBeforeLedgers, FilledTradeIsClosed
<1>4. ASSUME UNCHANGED <<trades, events>> PROVE Holds' BY <1>2, <1>4
<1>5. ASSUME NEW t \in Trades, Inserts(t) PROVE Holds'
  <2>1. PICK g \in Geometries, s \in {"open", "closed"} : trades' = [trades EXCEPT ![t] = Inserted(g, s)]
    BY <1>5 DEF Inserts
  <2>2. IsPriced(Inserted(g, s), events[t]) BY DEF Inserted, IsPriced
  <2> QED BY <1>1, <1>2, <1>5, <2>1, <2>2 DEF Inserts
<1>6. ASSUME NEW t \in Trades, Rewrites(t) PROVE Holds'
  <2>1. PICK row \in Row :
          /\ trades' = [trades EXCEPT ![t] = row]
          /\ \/ row.basis = trades[t].basis /\ row.outcome = trades[t].outcome
             \/ row.basis = "manual" /\ row.outcome = "user"
    BY <1>6 DEF Rewrites
  <2>2. IsPriced(row, events[t]) BY <1>2, <2>1 DEF IsPriced
  <2> QED BY <1>1, <1>2, <1>6, <2>1, <2>2 DEF Rewrites
<1>7. ASSUME NEW t \in Trades, NEW g \in Geometries, Touched(t, g), UNCHANGED trades
      PROVE  Holds'
  <2>1. trades[t].basis = "ledger" => Ensured(t, g) = events[t] BY <1>3 DEF Ensured
  <2>2. IsPriced(trades[t], Ensured(t, g)) BY <1>2, <2>1 DEF IsPriced
  <2> QED BY <1>1, <1>2, <1>7, <2>2 DEF Touched
<1>8. ASSUME NEW t \in Trades, NEW g \in Geometries, NEW e \in Event,
             e.before = Remaining(Ensured(t, g)), e.after = e.before - e.closed,
             e.closed > 0, e.after = 0,
             events' = [events EXCEPT ![t] = Append(Ensured(t, g), e)],
             NEW row \in ExitRow(t, Append(Ensured(t, g), e)),
             trades' = [trades EXCEPT ![t] = row]
      PROVE  Holds'
  <2> DEFINE evs == Ensured(t, g)
             longer == Append(evs, e)
             settled == Settled(trades[t], longer)
  <2>1. evs \in Seq(Event) /\ evs # <<>> BY <1>1, EnsuredType
  <2>2. IsChain(evs) BY <1>1, EnsuredIsChain
  <2>3. trades[t].basis # "ledger"
    <3>1. e.before > 0 BY <1>8 DEF Event
    <3> QED BY <1>3, <1>8, <3>1 DEF Ensured
  <2>4. e.before = Remaining(evs) BY <1>8
  <2> HIDE DEF evs
  <2>5. longer \in Seq(Event) /\ longer # <<>> /\ Remaining(longer) = 0
    BY <1>8, <2>1, AppendProperties DEF Remaining
  <2>6. IsChain(longer) BY <1>8, <2>1, <2>2, <2>4, ChainContinues
  <2> HIDE DEF longer
  <2>7. trades[t] \in Row BY <1>1
  <2>8. IsPriced(settled, longer) BY <2>3, <2>5, <2>6, <2>7, SettlesPriced
  <2>9. settled \in Row BY <2>7, SettledType
  <2>10. row = settled \/ row = [settled EXCEPT !.basis = "manual", !.outcome = "user"]
    BY <1>8 DEF ExitRow, longer, evs
  <2> HIDE DEF settled
  <2>11. IsPriced(row, longer) BY <2>8, <2>9, <2>10 DEF IsPriced, Row
  <2> QED BY <1>1, <1>2, <1>8, <2>11 DEF longer, evs
<1>9. ASSUME NEW t \in Trades, NEW g \in Geometries, NEW e, Recorded(t, g, e) PROVE Holds'
  <2> DEFINE evs == Ensured(t, g)
             longer == Append(evs, e)
  <2>1. e \in Event /\ e.before = Remaining(evs) /\ e.after = e.before - e.closed
    BY <1>9 DEF Recorded
  <2>2. events' = [events EXCEPT ![t] = longer]
        /\ trades' = [trades EXCEPT ![t] = IF e.closed > 0 /\ e.after = 0
                                           THEN Settled(trades[t], longer) ELSE trades[t]]
    BY <1>1, <1>9 DEF Recorded, Record
  <2>3. CASE e.closed > 0 /\ e.after = 0
    <3>1. Settled(trades[t], longer) \in ExitRow(t, longer) BY DEF ExitRow
    <3> QED BY <1>8, <2>1, <2>2, <2>3, <3>1
  <2>4. CASE ~(e.closed > 0 /\ e.after = 0)
    <3>1. trades' = trades BY <1>1, <2>2, <2>4
    <3>2. IsPriced(trades[t], longer)
      <4>1. CASE trades[t].basis # "ledger" BY <4>1 DEF IsPriced
      <4>2. CASE trades[t].basis = "ledger"
        <5>1. evs = events[t] /\ Remaining(evs) = 0 BY <1>3, <4>2 DEF Ensured
        <5>2. ~(e.closed > 0) BY <2>1, <2>4, <5>1 DEF Event
        <5>3. evs \in Seq(Event) BY <1>1, <5>1
        <5> HIDE DEF evs
        <5>4. Fills(longer) = Fills(evs) /\ \A i \in Fills(evs) : longer[i] = evs[i]
          BY <2>1, <5>2, <5>3, NoNewFill
        <5> QED BY <1>2, <5>1, <5>4 DEF IsPriced
      <4> QED BY <4>1, <4>2
    <3> QED BY <1>1, <1>2, <2>2, <3>1, <3>2
  <2> QED BY <2>3, <2>4
<1>10. ASSUME NEW t \in Trades, NEW g \in Geometries, NEW e, Exited(t, g, e),
              NEW row \in ExitRow(t, Append(Ensured(t, g), e)),
              trades' = [trades EXCEPT ![t] = row]
       PROVE  Holds'
  <2>1. e \in Event /\ e.before = Remaining(Ensured(t, g)) /\ e.closed > 0 /\ e.after = 0
          /\ e.after = e.before - e.closed
    BY <1>10, UnitIsPositive DEF Exited, Event
  <2> QED BY <1>8, <1>10, <2>1 DEF Exited
<1>11. Holds'
  <2> HIDE DEF Holds
  <2> QED BY <1>1, <1>4, <1>5, <1>6, <1>7, <1>9, <1>10, RowSteps
<1>12. FilledInv' /\ LedgerChain' BY <1>1, FilledStep, LedgerChainStep
<1> QED BY <1>11, <1>12 DEF AvailableInv, AvailableResultIsPriced, IsPriced

LEMMA FilledInit == Init => FilledInv
<1> SUFFICES ASSUME Init PROVE FilledInv OBVIOUS
<1>1. TypeOK BY Placeholders, HandlerType DEF Init, TypeOK, At, Held
<1>2. RowsBeforeLedgers /\ FilledTradeIsClosed
  BY DEF Init, RowsBeforeLedgers, FilledTradeIsClosed, NoRow, Inserted, At
<1> QED BY <1>1, <1>2 DEF FilledInv

\* A result computed by the ledger is available exactly when every fill has a price: the
\* comparison of the closed fractions with the whole, in the same condition, never fails.
THEOREM ResultsArePriced == Spec => []AvailableResultIsPriced
<1>1. Init => AvailableInv
  BY FilledInit DEF Init, AvailableInv, LedgerChain, AvailableResultIsPriced, NoRow, Inserted
<1>2. AvailableInv /\ [Next]_vars => AvailableInv' BY AvailableStep
<1>3. AvailableInv => AvailableResultIsPriced BY DEF AvailableInv
<1> QED BY <1>1, <1>2, <1>3, PTL DEF Spec

\* The total of a row marked manual is the user's, and a row not yet inserted has none.
TotalsAreUsers ==
  \A t \in Trades : /\ trades[t].basis = "manual" => trades[t].outcome = "user"
                    /\ trades[t].status = "none" => trades[t].basis # "manual"

TotalInv == FilledInv /\ TotalsAreUsers

\* An exit keeps the total a row has, and may give it one.
LEMMA ExitKeepsTotal ==
  ASSUME NEW row \in Row, NEW evs
  PROVE  /\ row.basis = "manual" => Settled(row, evs) = row
         /\ Settled(row, evs).basis = "manual" => row.basis = "manual"
BY DEF Settled, Row

LEMMA TotalStep ==
  ASSUME TotalInv, [Next]_vars
  PROVE  /\ TotalInv'
         /\ \A t \in Trades : trades[t].basis = "manual" =>
              trades'[t].basis = "manual" /\ trades'[t].outcome = "user"
<1> DEFINE Keeps(old, new) == old.basis = "manual" => new.basis = "manual" /\ new.outcome = "user"
           Fits(new) == /\ new.basis = "manual" => new.outcome = "user"
                        /\ new.status = "none" => new.basis # "manual"
           Goal == \A u \in Trades : Keeps(trades[u], trades'[u]) /\ Fits(trades'[u])
<1>1. FilledInv /\ TypeOK /\ trades \in [Trades -> Row] BY DEF TotalInv, FilledInv, TypeOK
<1>2. \A u \in Trades : Fits(trades[u]) BY DEF TotalInv, TotalsAreUsers
<1>3. ASSUME UNCHANGED trades PROVE Goal BY <1>2, <1>3
<1>4. ASSUME NEW t \in Trades, NEW row \in Row, trades' = [trades EXCEPT ![t] = row],
             Keeps(trades[t], row), Fits(row)
      PROVE  Goal
  BY <1>1, <1>2, <1>4
<1>5. ASSUME NEW t \in Trades, Inserts(t) PROVE Goal
  <2>1. PICK g \in Geometries, s \in {"open", "closed"} : trades' = [trades EXCEPT ![t] = Inserted(g, s)]
    BY <1>5 DEF Inserts
  <2>2. Inserted(g, s) \in Row /\ Fits(Inserted(g, s)) BY Placeholders DEF Inserted
  <2>3. Keeps(trades[t], Inserted(g, s)) BY <1>2, <1>5 DEF Inserts
  <2> QED BY <1>4, <2>1, <2>2, <2>3
<1>6. ASSUME NEW t \in Trades, Rewrites(t) PROVE Goal
  <2>1. PICK row \in Row :
          /\ trades' = [trades EXCEPT ![t] = row]
          /\ row.status = trades[t].status /\ trades[t].status # "none"
          /\ \/ row.basis = trades[t].basis /\ row.outcome = trades[t].outcome
             \/ row.basis = "manual" /\ row.outcome = "user"
    BY <1>6 DEF Rewrites
  <2> QED BY <1>2, <1>4, <2>1
<1>7. ASSUME NEW t \in Trades, trades[t].status # "none", NEW evs,
             NEW row \in ExitRow(t, evs), trades' = [trades EXCEPT ![t] = row]
      PROVE  Goal
  <2> DEFINE settled == Settled(trades[t], evs)
             given == [settled EXCEPT !.basis = "manual", !.outcome = "user"]
  <2>1. trades[t] \in Row BY <1>1
  <2>2. settled \in Row BY <2>1, SettledType
  <2>3. settled.status # "none" BY <1>7, <2>1 DEF Settled, Row
  <2>4. /\ trades[t].basis = "manual" => settled = trades[t]
        /\ settled.basis = "manual" => trades[t].basis = "manual"
    BY <2>1, ExitKeepsTotal
  <2>5. row = settled \/ row = given BY <1>7 DEF ExitRow
  <2> HIDE DEF settled
  <2>6. given \in Row /\ given.status = settled.status /\ given.basis = "manual"
          /\ given.outcome = "user"
    BY <2>2 DEF Row
  <2> HIDE DEF given
  <2>7. CASE row = given
    <3>1. Keeps(trades[t], row) /\ Fits(row) BY <2>3, <2>6, <2>7
    <3>2. row \in Row BY <2>6, <2>7
    <3> QED BY <1>4, <1>7, <3>1, <3>2
  <2>8. CASE row = settled BY <1>2, <1>4, <1>7, <2>2, <2>3, <2>4, <2>8
  <2> QED BY <2>5, <2>7, <2>8
<1>8. ASSUME NEW t \in Trades, NEW g \in Geometries, NEW e, Recorded(t, g, e),
             trades[t].status # "none"
      PROVE  Goal
  <2> DEFINE longer == Append(Ensured(t, g), e)
  <2>1. trades' = [trades EXCEPT ![t] = IF e.closed > 0 /\ e.after = 0
                                        THEN Settled(trades[t], longer) ELSE trades[t]]
    BY <1>1, <1>8 DEF Recorded, Record
  <2> HIDE DEF longer
  <2>2. CASE e.closed > 0 /\ e.after = 0
    <3>1. Settled(trades[t], longer) \in ExitRow(t, longer) BY DEF ExitRow
    <3> QED BY <1>7, <1>8, <2>1, <2>2, <3>1
  <2>3. CASE ~(e.closed > 0 /\ e.after = 0)
    <3>1. trades' = trades BY <1>1, <2>1, <2>3
    <3> QED BY <1>3, <3>1
  <2> QED BY <2>2, <2>3
<1>9. Goal
  <2> HIDE DEF Goal
  <2> QED BY <1>1, <1>3, <1>5, <1>6, <1>7, <1>8, RowSteps
<1>10. FilledInv' BY <1>1, FilledStep
<1> QED BY <1>9, <1>10 DEF TotalInv, TotalsAreUsers

\* No later fill, exit, edit or settlement of any handler replaces the total the user
\* reported for a trade.
THEOREM TotalsAreKept == Spec => ExplicitTotalKept
<1>1. Init => TotalInv BY FilledInit DEF Init, TotalInv, TotalsAreUsers, NoRow, Inserted
<1>2. TotalInv /\ [Next]_vars =>
        TotalInv' /\ \A t \in Trades : trades[t].basis = "manual" =>
                       trades'[t].basis = "manual" /\ trades'[t].outcome = "user"
  BY TotalStep
<1> QED BY <1>1, <1>2, PTL DEF Spec, ExplicitTotalKept

-----------------------------------------------------------------------------
(* What a step may do to the commands and to the decision_ids.             *)

Names(evs, k) == \E i \in 1..Len(evs) : evs[i].key = k

\* A ledger that is touched keeps its events at their places.
LEMMA TouchKeepsEvents ==
  ASSUME TypeOK, NEW t \in Trades, NEW g \in Geometries, Touched(t, g), NEW u \in Trades
  PROVE  /\ \A i \in 1..Len(events[u]) : i \in 1..Len(events'[u]) /\ events'[u][i] = events[u][i]
         /\ \A i \in 1..Len(events'[u]) : \/ i \in 1..Len(events[u])
                                          \/ events'[u][i].key = NoKey
<1> DEFINE open == Opening(g)
<1>1. Ensured(t, g) = IF events[t] = <<>> THEN <<open>> ELSE events[t] BY OpeningFacts
<1>2. open.key = NoKey BY OpeningFacts
<1> HIDE DEF open
<1>3. events' = [events EXCEPT ![t] = Ensured(t, g)] /\ events \in [Trades -> Seq(Event)]
  BY DEF Touched, TypeOK
<1>4. CASE u # t \/ events[t] # <<>>
  <2>1. events'[u] = events[u] BY <1>1, <1>3, <1>4
  <2> QED BY <2>1
<1>5. CASE u = t /\ events[t] = <<>>
  <2>1. events'[u] = <<open>> /\ Len(events[u]) = 0 BY <1>1, <1>3, <1>5
  <2>2. Len(<<open>>) = 1 /\ <<open>>[1] = open OBVIOUS
  <2> QED BY <1>2, <2>1, <2>2
<1> QED BY <1>4, <1>5

\* So does a ledger that an event is appended to.
LEMMA AppendKeepsEvents ==
  ASSUME TypeOK, NEW t \in Trades, NEW g \in Geometries, NEW e, Appended(t, g, e),
         NEW u \in Trades
  PROVE  /\ \A i \in 1..Len(events[u]) : i \in 1..Len(events'[u]) /\ events'[u][i] = events[u][i]
         /\ LET n == Len(Ensured(t, g))
            IN  /\ n \in Nat
                /\ Len(events'[t]) = n + 1
                /\ events'[t][n + 1] = e
                /\ \A i \in 1..n : events'[t][i] = Ensured(t, g)[i]
<1> DEFINE evs == Ensured(t, g)
           open == Opening(g)
<1>1. evs \in Seq(Event) BY EnsuredType
<1>2. events' = [events EXCEPT ![t] = Append(evs, e)] /\ e \in Event BY DEF Appended
<1>3. evs = IF events[t] = <<>> THEN <<open>> ELSE events[t] BY OpeningFacts
<1>4. events \in [Trades -> Seq(Event)] BY DEF TypeOK
<1> HIDE DEF evs, open
<1>5. events'[t] = Append(evs, e) BY <1>2, <1>4
<1>6. Len(evs) \in Nat /\ Len(Append(evs, e)) = Len(evs) + 1 /\ Append(evs, e)[Len(evs) + 1] = e
        /\ \A j \in 1..Len(evs) : Append(evs, e)[j] = evs[j]
  BY <1>1, <1>2, AppendProperties, LenProperties
<1>7. \A i \in 1..Len(events[u]) : i \in 1..Len(events'[u]) /\ events'[u][i] = events[u][i]
  <2> TAKE i \in 1..Len(events[u])
  <2>1. CASE u # t BY <1>2, <1>4, <2>1
  <2>2. CASE u = t
    <3>1. events[t] # <<>> BY <1>4, <2>2, EmptySeq, LenProperties
    <3>2. evs = events[u] BY <1>3, <2>2, <3>1
    <3> QED BY <1>5, <1>6, <2>2, <3>2
  <2> QED BY <2>1, <2>2
<1> QED BY <1>5, <1>6, <1>7 DEF evs

\* Touching brings no decision_id, and an appended event brings its own.
LEMMA KeysAfterTouch ==
  ASSUME TypeOK, NEW t \in Trades, NEW g \in Geometries, Touched(t, g), NEW u \in Trades,
         NEW k, k # NoKey
  PROVE  Names(events'[u], k) <=> Names(events[u], k)
<1>1. \A i \in 1..Len(events[u]) : i \in 1..Len(events'[u]) /\ events'[u][i] = events[u][i]
  BY TouchKeepsEvents
<1>2. \A i \in 1..Len(events'[u]) : i \in 1..Len(events[u]) \/ events'[u][i].key = NoKey
  BY TouchKeepsEvents
<1> QED BY <1>1, <1>2 DEF Names

LEMMA KeysAfterAppend ==
  ASSUME TypeOK, NEW t \in Trades, NEW g \in Geometries, NEW e, Appended(t, g, e),
         NEW u \in Trades, NEW k, k # NoKey
  PROVE  Names(events'[u], k) <=> Names(events[u], k) \/ (u = t /\ e.key = k)
<1>1. \A i \in 1..Len(events[u]) : i \in 1..Len(events'[u]) /\ events'[u][i] = events[u][i]
  BY AppendKeepsEvents
<1>2. \A i \in 1..Len(events'[u]) :
        \/ i \in 1..Len(events[u]) /\ events'[u][i] = events[u][i]
        \/ events'[u][i].key = NoKey
        \/ u = t /\ events'[u][i] = e
  BY WhereEventsComeFrom
<1>3. \E i \in 1..Len(events'[t]) : events'[t][i] = e
  <2> DEFINE n == Len(Ensured(t, g))
  <2>1. n \in Nat /\ Len(events'[t]) = n + 1 /\ events'[t][n + 1] = e BY AppendKeepsEvents
  <2> HIDE DEF n
  <2>2. n + 1 \in 1..Len(events'[t]) BY <2>1
  <2> QED BY <2>1, <2>2
<1>4. ASSUME Names(events'[u], k) PROVE Names(events[u], k) \/ (u = t /\ e.key = k)
  <2>1. PICK i \in 1..Len(events'[u]) : events'[u][i].key = k BY <1>4 DEF Names
  <2> QED BY <1>2, <2>1 DEF Names
<1>5. ASSUME Names(events[u], k) PROVE Names(events'[u], k)
  <2>1. PICK i \in 1..Len(events[u]) : events[u][i].key = k BY <1>5 DEF Names
  <2> QED BY <1>1, <2>1 DEF Names
<1>6. ASSUME u = t, e.key = k PROVE Names(events'[u], k) BY <1>3, <1>6 DEF Names
<1> QED BY <1>4, <1>5, <1>6

\* A ledger grows by one event in one way.
LEMMA OneAppend ==
  ASSUME TypeOK, NEW t \in Trades, NEW g \in Geometries, NEW e \in Event, NEW f,
         events' = [events EXCEPT ![t] = Append(Ensured(t, g), e)],
         events' = [events EXCEPT ![t] = Append(Ensured(t, g), f)]
  PROVE  e = f
<1> DEFINE evs == Ensured(t, g)
<1>1. evs \in Seq(Event) BY EnsuredType
<1>2. events \in [Trades -> Seq(Event)] BY DEF TypeOK
<1> HIDE DEF evs
<1>3. Append(evs, e) = Append(evs, f) BY <1>2 DEF evs
<1>4. evs \in Seq(Event \cup {f}) BY <1>1, SeqMonotonic
<1>5. Append(evs, e)[Len(evs) + 1] = e BY <1>1, AppendProperties
<1>6. Append(evs, f)[Len(evs) + 1] = f BY <1>4, AppendProperties
<1> QED BY <1>3, <1>5, <1>6

\* The event a transaction records is the one it made.
LEMMA RecordsWhatItMade ==
  ASSUME TypeOK, NEW t \in Trades, NEW g \in Geometries, NEW f,
         \E e : Recorded(t, g, e), Record(t, Ensured(t, g), f)
  PROVE  f \in Event /\ Appended(t, g, f)
<1>1. PICK e : Recorded(t, g, e) OBVIOUS
<1>2. e \in Event /\ Appended(t, g, e) BY <1>1 DEF Recorded, Record, Appended
<1>3. /\ events' = [events EXCEPT ![t] = Append(Ensured(t, g), e)]
      /\ events' = [events EXCEPT ![t] = Append(Ensured(t, g), f)]
  BY <1>1 DEF Recorded, Record
<1>4. e = f BY <1>2, <1>3, OneAppend
<1> QED BY <1>2, <1>4

\* The keys that a command may stand on.
ReceiptKinds == {"command", "fill", "cancel"}

\* A command as it was, apart from its deadline, or withdrawn, or declined.
Withdrawn(old, new) ==
  /\ new.trade = old.trade /\ new.policy = old.policy /\ new.parts = old.parts
  /\ \/ new.status = old.status
     \/ old.status = "pending_execution"
          /\ new.status \in {"superseded", "recommended_not_executed"}
     \/ old.status = "superseded" /\ new.status = "recommended_not_executed"

\* A step that receives nothing on the strength of a command.
Quiet ==
  /\ \A c \in Commands : Withdrawn(commands[c], commands'[c])
  /\ \/ UNCHANGED events
     \/ \E t \in Trades, g \in Geometries : Touched(t, g)
     \/ \E t \in Trades, g \in Geometries, e \in Event :
          Appended(t, g, e) /\ \A kind \in ReceiptKinds, c \in Commands : e.key # <<kind, c>>

\* A step that publishes command c, unused until now, for the active trade.
Published(t, c) ==
  /\ commands[c].status = "unused"
  /\ IsActive(t) /\ UNCHANGED trades
  /\ commands'[c].trade = t
  /\ commands'[c].status \in {"not_required", "pending_execution"}
  /\ \A d \in Commands \ {c} : Withdrawn(commands[d], commands'[d])
  /\ Touched(t, trades[t].geo)

\* What each kind of receipt asks of the command, and the status it gives it.
Transition(c, kind, status) ==
  \/ /\ kind = "command" /\ commands[c].status = "pending_execution"
     /\ status = IF commands[c].policy \in ConditionalPolicies THEN "armed" ELSE "executed"
  \/ kind = "fill" /\ commands[c].status = "armed" /\ status = "executed"
  \/ kind = "cancel" /\ commands[c].status = "armed" /\ status = "cancelled"

\* A scale-out is sized by the event it was armed with.
SizedByItsArm(c, evs, e) ==
  commands[c].policy # "TIME_STOP" =>
    \E j \in 1..Len(evs) : /\ evs[j].key = <<"command", c>>
                           /\ e.closed * commands[c].parts = evs[j].before

\* A step that receives the execution, the order, the fill or the cancellation of c.
Received(c, g, e, kind, status) ==
  /\ Appended(commands[c].trade, g, e) /\ e.key = <<kind, c>>
  /\ Transition(c, kind, status)
  /\ kind = "fill" => SizedByItsArm(c, Ensured(commands[c].trade, g), e)
  /\ commands' = [commands EXCEPT ![c].status = status]

LEMMA SupersedeWithdraws ==
  ASSUME TypeOK, NEW t, NEW policies, NEW c \in Commands
  PROVE  Withdrawn(commands[c], Supersede(commands, t, policies)[c])
<1>1. commands[c] \in Command BY DEF TypeOK
<1> QED BY <1>1 DEF Supersede, Withdrawn, Command

LEMMA SameIsWithdrawn ==
  ASSUME UNCHANGED commands
  PROVE  \A c \in Commands : Withdrawn(commands[c], commands'[c])
BY DEF Withdrawn

\* The decision_ids of receipts, of fills without a command and of nothing differ.
LEMMA KeysDiffer ==
  /\ \A kind \in ReceiptKinds, c \in Commands : <<kind, c>> # NoKey
  /\ \A kind \in ReceiptKinds, c \in Commands, r \in Requests : <<"manual-fill", r>> # <<kind, c>>
  /\ \A kind, other \in ReceiptKinds : \A c, d \in Commands :
       <<kind, c>> = <<other, d>> => kind = other /\ c = d
BY DEF ReceiptKinds, NoKey

\* The steps outside the acknowledgements.
LEMMA PlainSteps ==
  ASSUME TypeOK,
         \/ UNCHANGED vars \/ JournalStep \/ Restart
         \/ \E c \in Commands : DeadlinePasses(c)
         \/ \E h \in Handlers :
              \/ OpeningStep(h) \/ EditingStep(h) \/ MarketStep(h)
              \/ Return(h) \/ TouchLedger(h) \/ RetriedReceipt(h) \/ CompleteAck(h)
              \/ \E t \in Trades : ReadTrade(h, t)
              \/ \E r \in Requests, k \in 1..Unit : ManualFill(h, r, k)
              \/ \E total, priced \in BOOLEAN : TerminalExit(h, total, priced)
  PROVE  Quiet
<1>1. ASSUME UNCHANGED <<events, commands>> PROVE Quiet
  BY <1>1, SameIsWithdrawn DEF Quiet
<1>2. ASSUME NEW t, NEW policies, UNCHANGED events, commands' = Supersede(commands, t, policies)
      PROVE  Quiet
  BY <1>2, SupersedeWithdraws DEF Quiet
<1>3. ASSUME NEW t \in Trades, NEW g \in Geometries, NEW e \in Event, Appended(t, g, e), e.key = NoKey,
             UNCHANGED commands \/ \E u, policies : commands' = Supersede(commands, u, policies)
      PROVE  Quiet
  <2>1. \A c \in Commands : Withdrawn(commands[c], commands'[c])
    BY <1>3, SameIsWithdrawn, SupersedeWithdraws
  <2>2. \A kind \in ReceiptKinds, c \in Commands : e.key # <<kind, c>>
    BY <1>3, KeysDiffer
  <2>3. Appended(t, g, e) BY <1>3
  <2> QED BY <2>1, <2>2, <2>3 DEF Quiet
<1>4. CASE UNCHANGED vars BY <1>1, <1>4 DEF vars
<1>5. ASSUME Restart PROVE Quiet
  <2>1. UNCHANGED <<events, commands>> BY <1>5 DEF Restart
  <2> QED BY <1>1, <2>1
<1>6. CASE JournalStep
  <2>1. \A t \in Trades, g \in Geometries : AddClosed(t, g) => Quiet BY <1>1 DEF AddClosed
  <2>2. \A t \in Trades : EditResult(t) => Quiet BY <1>1 DEF EditResult
  <2>3. \A t \in Trades : DeleteTrade(t) => Quiet BY <1>2 DEF DeleteTrade
  <2> HIDE DEF Quiet
  <2> QED BY <1>6, <2>1, <2>2, <2>3 DEF JournalStep
<1>7. ASSUME NEW c \in Commands, DeadlinePasses(c) PROVE Quiet
  <2>1. \A d \in Commands : commands[d] \in Command BY DEF TypeOK
  <2>2. \A d \in Commands : Withdrawn(commands[d], commands'[d])
    BY <1>7, <2>1 DEF DeadlinePasses, Withdrawn, TypeOK, Command
  <2> QED BY <1>7, <2>2 DEF Quiet, DeadlinePasses
<1>8. ASSUME NEW h \in Handlers PROVE
        /\ OpeningStep(h) => Quiet
        /\ EditingStep(h) => Quiet
        /\ MarketStep(h) => Quiet
        /\ Return(h) \/ TouchLedger(h) \/ RetriedReceipt(h) \/ CompleteAck(h) => Quiet
        /\ (\E t \in Trades : ReadTrade(h, t)) => Quiet
        /\ (\E r \in Requests, k \in 1..Unit : ManualFill(h, r, k)) => Quiet
        /\ (\E total, priced \in BOOLEAN : TerminalExit(h, total, priced)) => Quiet
  <2> DEFINE t == held[h].trade
             g == held[h].row.geo
             evs == Ensured(t, g)
  <2>1. t \in Trades /\ g \in Geometries BY HeldRow
  <2>2. ASSUME Touched(t, g), UNCHANGED commands PROVE Quiet
    <3> HIDE DEF t, g
    <3> QED BY <2>1, <2>2, SameIsWithdrawn DEF Quiet
  <2>3. OpeningStep(h) => Quiet
    <3>1. OpenCheck(h) => Quiet BY <1>1 DEF OpenCheck
    <3>2. \A u \in Trades, f \in Geometries : OpenInsert(h, u, f) => Quiet BY <1>1 DEF OpenInsert
    <3>3. OpenLedger(h) => Quiet BY <2>2 DEF OpenLedger, Touched
    <3> QED BY <3>1, <3>2, <3>3 DEF OpeningStep
  <2>4. EditingStep(h) => Quiet
    BY <1>1, <1>2 DEF EditingStep, ReadForEdit, EditLevels, EditSupersede
  <2>5. MarketStep(h) => Quiet
    <3>1. ReachTrigger(h) => Quiet BY <1>1 DEF ReachTrigger
    <3>2. ASSUME SyncBreakEven(h) PROVE Quiet
      <4> DEFINE f == MakeEvent("BE_ARM", NoKey, Remaining(evs), 0, g.entry, ActiveTake(evs, g), FALSE)
      <4>1. Record(t, evs, f) /\ UNCHANGED commands BY <3>2 DEF SyncBreakEven
      <4>2. \E e : Recorded(t, g, e) BY <3>2, TransactionsRecord
      <4>3. f.key = NoKey BY DEF MakeEvent
      <4> HIDE DEF t, g, f
      <4>4. f \in Event /\ Appended(t, g, f) BY <2>1, <4>1, <4>2, RecordsWhatItMade
      <4> QED BY <1>3, <2>1, <4>1, <4>3, <4>4
    <3> QED BY <3>1, <3>2 DEF MarketStep
  <2>6. Return(h) \/ TouchLedger(h) \/ RetriedReceipt(h) \/ CompleteAck(h) => Quiet
    BY <1>1, <1>2, <2>2 DEF Return, TouchLedger, Touched, RetriedReceipt, CompleteAck
  <2>7. (\E u \in Trades : ReadTrade(h, u)) => Quiet BY <1>1 DEF ReadTrade
  <2>8. ASSUME NEW r \in Requests, NEW k \in 1..Unit, ManualFill(h, r, k) PROVE Quiet
    <3> DEFINE f == MakeEvent("REDUCTION", <<"manual-fill", r>>, Remaining(evs), k,
                              ActiveStop(evs, g), ActiveTake(evs, g), TRUE)
    <3>1. Record(t, evs, f) /\ UNCHANGED commands BY <2>8 DEF ManualFill
    <3>2. \E e : Recorded(t, g, e) BY <2>8, TransactionsRecord
    <3>3. f.key = <<"manual-fill", r>> BY DEF MakeEvent
    <3> HIDE DEF t, g, f
    <3>4. f \in Event /\ Appended(t, g, f) BY <2>1, <3>1, <3>2, RecordsWhatItMade
    <3> QED BY <2>1, <3>1, <3>3, <3>4, KeysDiffer, SameIsWithdrawn DEF Quiet
  <2>9. ASSUME NEW total \in BOOLEAN, NEW priced \in BOOLEAN, TerminalExit(h, total, priced)
        PROVE  Quiet
    <3>1. PICK e : Exited(t, g, e) BY <2>9, TerminalExitWrites
    <3>2. commands' = Supersede(commands, t, AnyPolicy) BY <2>9 DEF TerminalExit
    <3> HIDE DEF t, g
    <3>3. e.before \in Nat BY <3>1, UnitIsPositive DEF Exited, Event
    <3>4. Appended(t, g, e) /\ e \in Event /\ e.key = NoKey BY <3>1, <3>3 DEF Exited, Appended
    <3> QED BY <1>3, <2>1, <3>2, <3>4
  <2> QED BY <2>3, <2>4, <2>5, <2>6, <2>7, <2>8, <2>9
<1> HIDE DEF Quiet
<1> QED BY <1>4, <1>5, <1>6, <1>7, <1>8

\* A review publishes one unused command for the active trade and withdraws others.
LEMMA ReviewPublishes ==
  ASSUME TypeOK, NEW t \in Trades, NEW c \in Commands, NEW policy, NEW price, NEW parts,
         PublishReview(t, c, policy, price, parts)
  PROVE  Published(t, c)
<1> DEFINE g == trades[t].geo
           others == Supersede(commands, t, AnyPolicy)
           command == MakeCommand(t, policy, Len(Ensured(t, g)), price, parts)
<1>1. ~(c < c) BY IdsAreNumbers
<1>2. commands[c].status = "unused" BY <1>1 DEF PublishReview, NextCommand
<1>3. command.trade = t /\ command.status \in {"not_required", "pending_execution"}
  BY DEF MakeCommand
<1>4. commands' = [others EXCEPT ![c] = command] BY DEF PublishReview
<1>5. \A d \in Commands : Withdrawn(commands[d], others[d]) BY SupersedeWithdraws
<1>6. others = [d \in Commands |-> others[d]] BY DEF Supersede
<1>7. IsActive(t) /\ UNCHANGED trades /\ Touched(t, g) BY DEF PublishReview, Touched
<1> HIDE DEF g, others, command
<1>8. commands'[c] = command /\ \A d \in Commands \ {c} : commands'[d] = others[d] BY <1>4, <1>6
<1> QED BY <1>2, <1>3, <1>5, <1>7, <1>8 DEF Published, g

\* The receipts: each names its command in the key of the one event it appends.
LEMMA ReceiptSteps ==
  ASSUME TypeOK, NEW h \in Handlers, NEW c \in Commands
  PROVE  LET Receives == \E g \in Geometries, e \in Event, kind \in ReceiptKinds, status \in Statuses :
                           Received(c, g, e, kind, status)
         IN  /\ AcknowledgeNotExecuted(h, c) => Quiet
             /\ AcknowledgeCancel(h, c) => Receives
             /\ \A b \in BOOLEAN : AcknowledgeReduction(h, c, b) => Receives
             /\ \A p \in Prices : AcknowledgeBarrier(h, c, p) \/ AcknowledgeArm(h, c, p) => Receives
             /\ \A p \in Prices, b \in BOOLEAN : AcknowledgeConditionalFill(h, c, p, b) => Receives
<1> DEFINE t == held[h].trade
           g == held[h].row.geo
           evs == Ensured(t, g)
           before == Remaining(evs)
           Receives == \E f \in Geometries, e \in Event, kind \in ReceiptKinds, status \in Statuses :
                         Received(c, f, e, kind, status)
<1>1. t \in Trades /\ g \in Geometries /\ evs \in Seq(Event) BY LedgerContext
<1>2. {"executed", "armed", "cancelled"} \subseteq Statuses
        /\ {"command", "fill", "cancel"} \subseteq ReceiptKinds
  BY DEF Statuses, ReceiptKinds
<1>3. MayAcknowledge(h, c) => commands[c].trade = t BY DEF MayAcknowledge
<1>4. ASSUME NEW f, NEW kind \in ReceiptKinds, NEW status \in Statuses, \E e : Recorded(t, g, e),
             Record(t, evs, f), f.key = <<kind, c>>, commands[c].trade = t, Receipt(c, status),
             Transition(c, kind, status), kind = "fill" => SizedByItsArm(c, evs, f)
      PROVE  Receives
  <2> HIDE DEF t, g
  <2>1. f \in Event /\ Appended(t, g, f) BY <1>1, <1>4, RecordsWhatItMade
  <2>2. Received(c, g, f, kind, status) BY <1>4, <2>1 DEF Received, Receipt
  <2> QED BY <1>1, <2>1, <2>2
<1>5. ASSUME AcknowledgeNotExecuted(h, c) PROVE Quiet
  <2>1. Touched(t, g) BY <1>5 DEF AcknowledgeNotExecuted, Touched
  <2>2. \A d \in Commands : commands[d] \in Command BY DEF TypeOK
  <2>3. /\ commands[c].status \in {"pending_execution", "superseded"}
        /\ commands' = [commands EXCEPT ![c].status = "recommended_not_executed"]
    BY <1>5 DEF AcknowledgeNotExecuted, Receipt
  <2>4. \A d \in Commands : Withdrawn(commands[d], commands'[d])
    BY <2>2, <2>3 DEF Withdrawn, TypeOK, Command
  <2> HIDE DEF t, g
  <2> QED BY <1>1, <2>1, <2>4 DEF Quiet
<1>6. ASSUME AcknowledgeCancel(h, c) PROVE Receives
  <2> DEFINE f == MakeEvent("CANCEL", <<"cancel", c>>, before, 0, ActiveStop(evs, g),
                            ActiveTake(evs, g), FALSE)
  <2>1. f.key = <<"cancel", c>> BY DEF MakeEvent
  <2>2. Record(t, evs, f) /\ Receipt(c, "cancelled") /\ Transition(c, "cancel", "cancelled")
          /\ commands[c].trade = t
    BY <1>3, <1>6 DEF AcknowledgeCancel, Transition
  <2>3. \E e : Recorded(t, g, e) BY <1>6, TransactionsRecord
  <2> HIDE DEF t, g, f, Receives
  <2> QED BY <1>2, <1>4, <2>1, <2>2, <2>3
<1>7. ASSUME NEW b \in BOOLEAN, AcknowledgeReduction(h, c, b) PROVE Receives
  <2>1. PICK k \in Portion(before, commands[c].parts) :
          Record(t, evs, MakeEvent("REDUCTION", <<"command", c>>, before, k,
                                   ActiveStop(evs, g), g.take, b))
    BY <1>7 DEF AcknowledgeReduction
  <2> DEFINE f == MakeEvent("REDUCTION", <<"command", c>>, before, k, ActiveStop(evs, g), g.take, b)
  <2>2. f.key = <<"command", c>> BY DEF MakeEvent
  <2>3. commands[c].policy \notin ConditionalPolicies
    BY <1>7 DEF AcknowledgeReduction, BasePolicies, ConditionalPolicies
  <2>4. Receipt(c, "executed") /\ commands[c].trade = t /\ commands[c].status = "pending_execution"
    BY <1>3, <1>7 DEF AcknowledgeReduction, IsCurrent
  <2>5. Transition(c, "command", "executed") BY <2>3, <2>4 DEF Transition
  <2>6. \E e : Recorded(t, g, e) BY <1>7, TransactionsRecord
  <2> HIDE DEF t, g, f, Receives
  <2>7. Record(t, evs, f) BY <2>1 DEF f
  <2> QED BY <1>2, <1>4, <2>2, <2>4, <2>5, <2>6, <2>7
<1>8. ASSUME NEW p \in Prices, AcknowledgeBarrier(h, c, p) PROVE Receives
  <2> DEFINE s == MakeEvent("STOP", <<"command", c>>, before, 0, commands[c].price,
                            ActiveTake(evs, g), TRUE)
             k == MakeEvent("TAKE", <<"command", c>>, before, 0, ActiveStop(evs, g),
                            commands[c].price, TRUE)
  <2>1. s.key = <<"command", c>> /\ k.key = <<"command", c>> BY DEF MakeEvent
  <2>2. Record(t, evs, s) \/ Record(t, evs, k) BY <1>8 DEF AcknowledgeBarrier
  <2>3. commands[c].policy \notin ConditionalPolicies
    BY <1>8 DEF AcknowledgeBarrier, ConditionalPolicies
  <2>4. Receipt(c, "executed") /\ commands[c].trade = t /\ commands[c].status = "pending_execution"
    BY <1>3, <1>8 DEF AcknowledgeBarrier, IsCurrent
  <2>5. Transition(c, "command", "executed") BY <2>3, <2>4 DEF Transition
  <2>6. \E e : Recorded(t, g, e) BY <1>8, TransactionsRecord
  <2> HIDE DEF t, g, s, k, Receives
  <2> QED BY <1>2, <1>4, <2>1, <2>2, <2>4, <2>5, <2>6
<1>9. ASSUME NEW p \in Prices, AcknowledgeArm(h, c, p) PROVE Receives
  <2> DEFINE f == MakeEvent("ARM", <<"command", c>>, before, 0, ActiveStop(evs, g),
                            ActiveTake(evs, g), TRUE)
  <2>1. f.key = <<"command", c>> BY DEF MakeEvent
  <2>2. Record(t, evs, f) BY <1>9 DEF AcknowledgeArm
  <2>3. commands[c].policy \in ConditionalPolicies
    BY <1>9 DEF AcknowledgeArm, ConditionalPolicies
  <2>4. Receipt(c, "armed") /\ commands[c].trade = t /\ commands[c].status = "pending_execution"
    BY <1>3, <1>9 DEF AcknowledgeArm, IsCurrent
  <2>5. Transition(c, "command", "armed") BY <2>3, <2>4 DEF Transition
  <2>6. \E e : Recorded(t, g, e) BY <1>9, TransactionsRecord
  <2> HIDE DEF t, g, f, Receives
  <2> QED BY <1>2, <1>4, <2>1, <2>2, <2>4, <2>5, <2>6
<1>10. ASSUME NEW p \in Prices, NEW b \in BOOLEAN, AcknowledgeConditionalFill(h, c, p, b)
       PROVE  Receives
  <2>1. PICK k \in OrderSize(evs, c) :
          Record(t, evs, MakeEvent("CONDITIONAL_FILL", <<"fill", c>>, before, k,
                                   ActiveStop(evs, g), ActiveTake(evs, g), b))
    BY <1>10 DEF AcknowledgeConditionalFill
  <2> DEFINE f == MakeEvent("CONDITIONAL_FILL", <<"fill", c>>, before, k,
                            ActiveStop(evs, g), ActiveTake(evs, g), b)
  <2>2. f.key = <<"fill", c>> /\ f.closed = k BY DEF MakeEvent
  <2>3. Receipt(c, "executed") /\ commands[c].trade = t /\ commands[c].status = "armed"
    BY <1>3, <1>10 DEF AcknowledgeConditionalFill
  <2>4. Transition(c, "fill", "executed") BY <2>3 DEF Transition
  <2>5. \E e : Recorded(t, g, e) BY <1>10, TransactionsRecord
  <2> HIDE DEF t, g, f, Receives
  <2>6. Record(t, evs, f) BY <2>1 DEF f
  <2>7. SizedByItsArm(c, evs, f)
    <3> HIDE DEF evs
    <3> SUFFICES ASSUME commands[c].policy # "TIME_STOP"
                 PROVE  \E j \in 1..Len(evs) : /\ evs[j].key = <<"command", c>>
                                               /\ k * commands[c].parts = evs[j].before
      BY <2>2 DEF SizedByItsArm
    <3>1. PICK b0 \in ArmedBefore(evs, c) : k \in Portion(b0, commands[c].parts)
      BY <2>1 DEF OrderSize
    <3>2. PICK j \in 1..Len(evs) : evs[j].key = <<"command", c>> /\ b0 = evs[j].before
      BY <3>1 DEF ArmedBefore
    <3>3. k * commands[c].parts = b0 BY <3>1 DEF Portion
    <3> QED BY <3>2, <3>3
  <2> QED BY <1>2, <1>4, <2>2, <2>3, <2>4, <2>5, <2>6, <2>7
<1> HIDE DEF Receives
<1>11. /\ AcknowledgeNotExecuted(h, c) => Quiet
       /\ AcknowledgeCancel(h, c) => Receives
       /\ \A b \in BOOLEAN : AcknowledgeReduction(h, c, b) => Receives
       /\ \A p \in Prices : AcknowledgeBarrier(h, c, p) \/ AcknowledgeArm(h, c, p) => Receives
       /\ \A p \in Prices, b \in BOOLEAN : AcknowledgeConditionalFill(h, c, p, b) => Receives
  BY <1>5, <1>6, <1>7, <1>8, <1>9, <1>10
<1> QED BY <1>11 DEF Receives

\* Every step of every actor is quiet, publishes one command, or receives one.
LEMMA CommandSteps ==
  ASSUME TypeOK, [Next]_vars
  PROVE  \/ Quiet
         \/ \E t \in Trades, c \in Commands : Published(t, c)
         \/ \E c \in Commands, g \in Geometries, e \in Event, kind \in ReceiptKinds, status \in Statuses :
              Received(c, g, e, kind, status)
<1> DEFINE Publishes == \E t \in Trades, c \in Commands : Published(t, c)
           Receives == \E c \in Commands, g \in Geometries, e \in Event, kind \in ReceiptKinds,
                          status \in Statuses : Received(c, g, e, kind, status)
           Goal == Quiet \/ Publishes \/ Receives
<1> SUFFICES Goal OBVIOUS
<1>1. CASE UNCHANGED vars \/ JournalStep \/ Restart BY <1>1, PlainSteps
<1>2. CASE ReviewStep
  <2>1. CASE \E c \in Commands : DeadlinePasses(c) BY <2>1, PlainSteps
  <2>2. CASE \E t \in Trades, c \in Commands, policy \in Policies, price \in Prices,
                parts \in {1, 2, 4, 10} \cup OrderParts : PublishReview(t, c, policy, price, parts)
    BY <2>2, ReviewPublishes
  <2> QED BY <1>2, <2>1, <2>2 DEF ReviewStep
<1>3. ASSUME NEW h \in Handlers, HandlerStep(h) PROVE Goal
  <2>1. CASE \/ OpeningStep(h) \/ EditingStep(h) \/ MarketStep(h)
             \/ Return(h) \/ TouchLedger(h)
             \/ \E t \in Trades : ReadTrade(h, t)
             \/ \E total, priced \in BOOLEAN : TerminalExit(h, total, priced)
    BY <2>1, PlainSteps
  <2>2. CASE AcknowledgementStep(h)
    <3>1. CASE \/ RetriedReceipt(h) \/ CompleteAck(h)
               \/ \E r \in Requests, k \in 1..Unit : ManualFill(h, r, k)
      BY <3>1, PlainSteps
    <3>2. CASE \E c \in Commands :
                 \/ AcknowledgeNotExecuted(h, c) \/ AcknowledgeCancel(h, c)
                 \/ \E b \in BOOLEAN : AcknowledgeReduction(h, c, b)
                 \/ \E p \in Prices : AcknowledgeBarrier(h, c, p) \/ AcknowledgeArm(h, c, p)
                 \/ \E p \in Prices, b \in BOOLEAN : AcknowledgeConditionalFill(h, c, p, b)
      <4>1. PICK c \in Commands :
                 \/ AcknowledgeNotExecuted(h, c) \/ AcknowledgeCancel(h, c)
                 \/ \E b \in BOOLEAN : AcknowledgeReduction(h, c, b)
                 \/ \E p \in Prices : AcknowledgeBarrier(h, c, p) \/ AcknowledgeArm(h, c, p)
                 \/ \E p \in Prices, b \in BOOLEAN : AcknowledgeConditionalFill(h, c, p, b)
        BY <3>2
      <4>2. Quiet \/ \E g \in Geometries, e \in Event, kind \in ReceiptKinds, status \in Statuses :
                       Received(c, g, e, kind, status)
        BY <4>1, ReceiptSteps
      <4> QED BY <4>2
    <3> HIDE DEF Goal
    <3> QED BY <2>2, <3>1, <3>2 DEF AcknowledgementStep
  <2> HIDE DEF Goal
  <2> QED BY <1>3, <2>1, <2>2 DEF HandlerStep
<1> HIDE DEF Goal, Publishes, Receives
<1> QED BY <1>1, <1>2, <1>3 DEF Next, Step

-----------------------------------------------------------------------------
(* What the receipts stand on.                                             *)

LEMMA SuccessorsOf ==
  /\ Successors["unused"] = {"pending_execution", "not_required"}
  /\ Successors["pending_execution"] = {"superseded", "armed", "executed", "recommended_not_executed"}
  /\ Successors["superseded"] = {"recommended_not_executed"}
  /\ Successors["armed"] = {"executed", "cancelled"}
BY DEF Successors, Statuses

\* A received command has its new status and no other command changes.
LEMMA ReceivedCommands ==
  ASSUME TypeOK, NEW c \in Commands, NEW g, NEW e, NEW kind, NEW status, Received(c, g, e, kind, status)
  PROVE  /\ commands'[c].status = status
         /\ commands'[c].trade = commands[c].trade /\ commands'[c].policy = commands[c].policy
         /\ commands'[c].parts = commands[c].parts
         /\ \A d \in Commands \ {c} : commands'[d] = commands[d]
<1>1. commands' = [commands EXCEPT ![c] = [commands[c] EXCEPT !.status = status]]
  BY DEF Received
<1>2. commands \in [Commands -> Command] /\ commands[c] \in Command BY DEF TypeOK
<1>3. commands'[c] = [commands[c] EXCEPT !.status = status] BY <1>1, <1>2
<1> QED BY <1>1, <1>2, <1>3 DEF Command

LEMMA FinalStep ==
  ASSUME TypeOK, [Next]_vars, NEW c \in Commands, commands'[c].status # commands[c].status
  PROVE  commands'[c].status \in Successors[commands[c].status]
<1>1. ASSUME NEW d \in Commands, Withdrawn(commands[d], commands'[d]),
             commands'[d].status # commands[d].status
      PROVE  commands'[d].status \in Successors[commands[d].status]
  BY <1>1, SuccessorsOf DEF Withdrawn
<1>2. CASE Quiet BY <1>1, <1>2 DEF Quiet
<1>3. ASSUME NEW t \in Trades, NEW d \in Commands, Published(t, d)
      PROVE  commands'[c].status \in Successors[commands[c].status]
  BY <1>1, <1>3, SuccessorsOf DEF Published
<1>4. ASSUME NEW d \in Commands, NEW g, NEW e, NEW kind, NEW status, Received(d, g, e, kind, status)
      PROVE  commands'[c].status \in Successors[commands[c].status]
  <2>1. commands'[d].status = status /\ \A f \in Commands \ {d} : commands'[f] = commands[f]
    BY <1>4, ReceivedCommands
  <2>2. c = d BY <2>1
  <2>3. Transition(c, kind, status) BY <1>4, <2>2 DEF Received
  <2> QED BY <2>1, <2>2, <2>3, SuccessorsOf DEF Transition
<1> QED BY <1>2, <1>3, <1>4, CommandSteps

\* After any order of receipts, retries, withdrawals and restarts a receipt that is final
\* stays, and a command that was withdrawn can only be declined.
THEOREM ReceiptsAreFinal == Spec => ReceiptIsFinal
<1>1. TypeOK /\ [Next]_vars =>
        \A c \in Commands : commands'[c].status # commands[c].status =>
          commands'[c].status \in Successors[commands[c].status]
  BY FinalStep
<1> QED BY <1>1, TypeCorrect, PTL DEF Spec, ReceiptIsFinal

\* The strengthening: an event that names a command lies on the trade the command was
\* published for, and only a conditional order is ever armed or cancelled.
KeysOwned ==
  \A t \in Trades, c \in Commands, kind \in ReceiptKinds :
    Names(events[t], <<kind, c>>) => commands[c].trade = t /\ commands[c].status # "unused"

OrdersAreConditional ==
  \A c \in Commands :
    commands[c].status \in {"armed", "cancelled"} => commands[c].policy \in ConditionalPolicies

\* ReceiptMatchesLedger, for one command and the ledger of its trade.
Backed(command, c, evs) ==
  IF command.policy \in ConditionalPolicies
  THEN /\ command.status = "executed" <=> Names(evs, <<"fill", c>>)
       /\ command.status = "cancelled" <=> Names(evs, <<"cancel", c>>)
       /\ command.status \in {"armed", "executed", "cancelled"} <=> Names(evs, <<"command", c>>)
  ELSE command.status = "executed" <=> Names(evs, <<"command", c>>)

ReceiptInv ==
  /\ TypeOK /\ KeysOwned /\ OrdersAreConditional
  /\ \A c \in Commands : Backed(commands[c], c, events[commands[c].trade])

LEMMA BackedIsReceiptMatchesLedger ==
  ReceiptMatchesLedger <=> \A c \in Commands : Backed(commands[c], c, events[commands[c].trade])
<1>1. \A c \in Commands : \A kind :
        Backing(c, kind) # {} <=> Names(events[commands[c].trade], <<kind, c>>)
  BY DEF Backing, Names
<1> QED BY <1>1 DEF ReceiptMatchesLedger, Backed

\* A command that is withdrawn or untouched, and whose keys stay, is as well backed.
LEMMA WithdrawnStaysBacked ==
  ASSUME NEW c, NEW old, NEW new, NEW evs, NEW longer, Withdrawn(old, new), Backed(old, c, evs),
         \A kind \in ReceiptKinds : Names(longer, <<kind, c>>) <=> Names(evs, <<kind, c>>)
  PROVE  Backed(new, c, longer)
<1>1. \A kind \in {"command", "fill", "cancel"} :
        Names(longer, <<kind, c>>) <=> Names(evs, <<kind, c>>)
  BY DEF ReceiptKinds
<1> QED BY <1>1 DEF Backed, Withdrawn

\* What each kind of step does to the keys that name commands.
LEMMA KeysAfterQuiet ==
  ASSUME TypeOK, Quiet, NEW u \in Trades, NEW kind \in ReceiptKinds, NEW c \in Commands
  PROVE  Names(events'[u], <<kind, c>>) <=> Names(events[u], <<kind, c>>)
<1>1. <<kind, c>> # NoKey BY KeysDiffer
<1>2. CASE UNCHANGED events BY <1>2
<1>3. CASE \E t \in Trades, g \in Geometries : Touched(t, g) BY <1>1, <1>3, KeysAfterTouch
<1>4. ASSUME NEW t \in Trades, NEW g \in Geometries, NEW e \in Event, Appended(t, g, e),
             \A other \in ReceiptKinds, d \in Commands : e.key # <<other, d>>
      PROVE  Names(events'[u], <<kind, c>>) <=> Names(events[u], <<kind, c>>)
  <2>1. e.key # <<kind, c>> BY <1>4
  <2> QED BY <1>1, <1>4, <2>1, KeysAfterAppend
<1> QED BY <1>2, <1>3, <1>4 DEF Quiet

LEMMA KeysAfterReceived ==
  ASSUME TypeOK, NEW c \in Commands, NEW g \in Geometries, NEW e, NEW kind \in ReceiptKinds,
         NEW status, Received(c, g, e, kind, status),
         NEW u \in Trades, NEW other \in ReceiptKinds, NEW d \in Commands
  PROVE  Names(events'[u], <<other, d>>) <=>
           Names(events[u], <<other, d>>) \/ (u = commands[c].trade /\ other = kind /\ d = c)
<1>1. <<other, d>> # NoKey /\ (<<kind, c>> = <<other, d>> <=> kind = other /\ c = d)
  BY KeysDiffer
<1>2. commands[c].trade \in Trades BY DEF TypeOK, Command
<1>3. Appended(commands[c].trade, g, e) /\ e.key = <<kind, c>> BY DEF Received
<1>4. Names(events'[u], <<other, d>>) <=>
        Names(events[u], <<other, d>>) \/ (u = commands[c].trade /\ e.key = <<other, d>>)
  BY <1>1, <1>2, <1>3, KeysAfterAppend
<1> QED BY <1>1, <1>3, <1>4

LEMMA KeysOwnedStep ==
  ASSUME TypeOK, KeysOwned, [Next]_vars
  PROVE  KeysOwned'
<1> SUFFICES ASSUME NEW u \in Trades, NEW d \in Commands, NEW other \in ReceiptKinds,
                    Names(events'[u], <<other, d>>)
             PROVE  commands'[d].trade = u /\ commands'[d].status # "unused"
  BY DEF KeysOwned
<1>1. ASSUME Withdrawn(commands[d], commands'[d]), Names(events[u], <<other, d>>)
      PROVE  commands'[d].trade = u /\ commands'[d].status # "unused"
  <2>1. commands[d].trade = u /\ commands[d].status # "unused" BY <1>1 DEF KeysOwned
  <2> QED BY <1>1, <2>1 DEF Withdrawn
<1>2. CASE Quiet
  <2>1. Names(events[u], <<other, d>>) BY <1>2, KeysAfterQuiet
  <2>2. Withdrawn(commands[d], commands'[d]) BY <1>2 DEF Quiet
  <2> QED BY <1>1, <2>1, <2>2
<1>3. ASSUME NEW t \in Trades, NEW c \in Commands, Published(t, c)
      PROVE  commands'[d].trade = u /\ commands'[d].status # "unused"
  <2>1. trades[t].geo \in Geometries BY DEF TypeOK, Row
  <2>2. Touched(t, trades[t].geo) /\ commands[c].status = "unused" BY <1>3 DEF Published
  <2>3. Names(events[u], <<other, d>>) BY <2>1, <2>2, KeysDiffer, KeysAfterTouch
  <2>4. d # c BY <2>2, <2>3 DEF KeysOwned
  <2>5. Withdrawn(commands[d], commands'[d]) BY <1>3, <2>4 DEF Published
  <2> QED BY <1>1, <2>3, <2>5
<1>4. ASSUME NEW c \in Commands, NEW g \in Geometries, NEW e, NEW kind \in ReceiptKinds,
             NEW status, Received(c, g, e, kind, status)
      PROVE  commands'[d].trade = u /\ commands'[d].status # "unused"
  <2>1. /\ commands'[c].status = status /\ commands'[c].trade = commands[c].trade
        /\ \A f \in Commands \ {c} : commands'[f] = commands[f]
    BY <1>4, ReceivedCommands
  <2>2. status # "unused" BY <1>4 DEF Received, Transition
  <2>3. CASE Names(events[u], <<other, d>>)
    <3>1. commands[d].trade = u /\ commands[d].status # "unused" BY <2>3 DEF KeysOwned
    <3> QED BY <2>1, <2>2, <3>1
  <2>4. CASE u = commands[c].trade /\ d = c BY <2>1, <2>2, <2>4
  <2> QED BY <1>4, <2>3, <2>4, KeysAfterReceived
<1> QED BY <1>2, <1>3, <1>4, CommandSteps

LEMMA OrdersStep ==
  ASSUME TypeOK, OrdersAreConditional, [Next]_vars
  PROVE  OrdersAreConditional'
<1> SUFFICES ASSUME NEW d \in Commands, commands'[d].status \in {"armed", "cancelled"}
             PROVE  commands'[d].policy \in ConditionalPolicies
  BY DEF OrdersAreConditional
<1>1. ASSUME Withdrawn(commands[d], commands'[d])
      PROVE  commands'[d].policy \in ConditionalPolicies
  BY <1>1 DEF Withdrawn, OrdersAreConditional
<1>2. CASE Quiet BY <1>1, <1>2 DEF Quiet
<1>3. ASSUME NEW t \in Trades, NEW c \in Commands, Published(t, c)
      PROVE  commands'[d].policy \in ConditionalPolicies
  BY <1>1, <1>3 DEF Published
<1>4. ASSUME NEW c \in Commands, NEW g \in Geometries, NEW e, NEW kind, NEW status,
             Received(c, g, e, kind, status)
      PROVE  commands'[d].policy \in ConditionalPolicies
  <2>1. /\ commands'[c].status = status /\ commands'[c].policy = commands[c].policy
        /\ \A f \in Commands \ {c} : commands'[f] = commands[f]
    BY <1>4, ReceivedCommands
  <2>2. CASE d # c BY <2>1, <2>2 DEF OrdersAreConditional
  <2>3. CASE d = c
    <3>1. Transition(c, kind, status) BY <1>4 DEF Received
    <3> QED BY <2>1, <2>3, <3>1 DEF Transition, OrdersAreConditional
  <2> QED BY <2>2, <2>3
<1> QED BY <1>2, <1>3, <1>4, CommandSteps

LEMMA BackedStep ==
  ASSUME ReceiptInv, [Next]_vars, NEW d \in Commands
  PROVE  Backed(commands'[d], d, events'[commands'[d].trade])
<1> DEFINE Goal == Backed(commands'[d], d, events'[commands'[d].trade])
<1> SUFFICES Goal OBVIOUS
<1>1. TypeOK /\ Backed(commands[d], d, events[commands[d].trade]) BY DEF ReceiptInv
<1>2. commands[d].trade \in Trades /\ commands[d] \in Command BY <1>1 DEF TypeOK, Command
<1>3. ASSUME Withdrawn(commands[d], commands'[d]),
             \A u \in Trades, kind \in ReceiptKinds :
               Names(events'[u], <<kind, d>>) <=> Names(events[u], <<kind, d>>)
      PROVE  Goal
  <2>1. commands'[d].trade = commands[d].trade BY <1>3 DEF Withdrawn
  <2> QED BY <1>1, <1>2, <1>3, <2>1, WithdrawnStaysBacked
<1>4. CASE Quiet
  <2>1. \A u \in Trades, kind \in ReceiptKinds :
          Names(events'[u], <<kind, d>>) <=> Names(events[u], <<kind, d>>)
    BY <1>1, <1>4, KeysAfterQuiet
  <2>2. Withdrawn(commands[d], commands'[d]) BY <1>4 DEF Quiet
  <2> QED BY <1>3, <2>1, <2>2
<1>5. ASSUME NEW t \in Trades, NEW c \in Commands, Published(t, c) PROVE Goal
  <2>1. trades[t].geo \in Geometries BY <1>1 DEF TypeOK, Row
  <2>2. Touched(t, trades[t].geo) BY <1>5 DEF Published
  <2>3. \A u \in Trades, kind \in ReceiptKinds :
          Names(events'[u], <<kind, d>>) <=> Names(events[u], <<kind, d>>)
    BY <1>1, <2>1, <2>2, KeysDiffer, KeysAfterTouch
  <2>4. CASE d # c
    <3>1. Withdrawn(commands[d], commands'[d]) BY <1>5, <2>4 DEF Published
    <3> QED BY <1>3, <2>3, <3>1
  <2>5. CASE d = c
    <3>1. /\ commands[d].status = "unused" /\ commands'[d].trade = t
          /\ commands'[d].status \in {"not_required", "pending_execution"}
      BY <1>5, <2>5 DEF Published
    <3>2. \A kind \in ReceiptKinds : ~Names(events[t], <<kind, d>>)
      BY <3>1 DEF ReceiptInv, KeysOwned
    <3>3. \A kind \in {"command", "fill", "cancel"} : ~Names(events'[t], <<kind, d>>)
      BY <2>3, <3>2 DEF ReceiptKinds
    <3> QED BY <3>1, <3>3 DEF Backed
  <2> QED BY <2>4, <2>5
<1>6. ASSUME NEW c \in Commands, NEW g \in Geometries, NEW e, NEW kind \in ReceiptKinds,
             NEW status, Received(c, g, e, kind, status)
      PROVE  Goal
  <2>1. /\ commands'[c].status = status /\ commands'[c].trade = commands[c].trade
        /\ commands'[c].policy = commands[c].policy
        /\ \A f \in Commands \ {c} : commands'[f] = commands[f]
    BY <1>1, <1>6, ReceivedCommands
  <2>2. \A u \in Trades, other \in ReceiptKinds :
          Names(events'[u], <<other, d>>) <=>
            Names(events[u], <<other, d>>) \/ (u = commands[c].trade /\ other = kind /\ d = c)
    BY <1>1, <1>6, KeysAfterReceived
  <2>3. CASE d # c
    <3>1. commands'[d] = commands[d] BY <2>1, <2>3
    <3>2. Withdrawn(commands[d], commands'[d]) BY <3>1 DEF Withdrawn
    <3> QED BY <1>3, <2>2, <2>3, <3>2
  <2>4. CASE d = c
    <3> DEFINE evs == events[commands[d].trade]
               longer == events'[commands[d].trade]
    <3>1. Transition(d, kind, status) BY <1>6, <2>4 DEF Received
    <3>2. \A other \in {"command", "fill", "cancel"} :
            Names(longer, <<other, d>>) <=> Names(evs, <<other, d>>) \/ other = kind
      BY <1>2, <2>2, <2>4 DEF ReceiptKinds
    <3>3. /\ commands'[d].status = status /\ commands'[d].trade = commands[d].trade
          /\ commands'[d].policy = commands[d].policy
      BY <2>1, <2>4
    <3>4. commands[d].status = "armed" => commands[d].policy \in ConditionalPolicies
      BY DEF ReceiptInv, OrdersAreConditional
    <3>5. Backed(commands[d], d, evs) BY <1>1
    <3> HIDE DEF evs, longer
    <3>6. Backed(commands'[d], d, longer)
      <4>1. CASE kind = "command" /\ commands[d].policy \in ConditionalPolicies
        BY <3>1, <3>2, <3>3, <3>5, <4>1 DEF Transition, Backed
      <4>2. CASE kind = "command" /\ commands[d].policy \notin ConditionalPolicies
        BY <3>1, <3>2, <3>3, <3>5, <4>2 DEF Transition, Backed
      <4>3. CASE kind = "fill"
        BY <3>1, <3>2, <3>3, <3>4, <3>5, <4>3 DEF Transition, Backed
      <4>4. CASE kind = "cancel"
        BY <3>1, <3>2, <3>3, <3>4, <3>5, <4>4 DEF Transition, Backed
      <4> QED BY <4>1, <4>2, <4>3, <4>4 DEF ReceiptKinds
    <3> QED BY <3>3, <3>6 DEF longer
  <2> QED BY <2>3, <2>4
<1> HIDE DEF Goal
<1> QED BY <1>1, <1>4, <1>5, <1>6, CommandSteps

LEMMA ReceiptStep == ReceiptInv /\ [Next]_vars => ReceiptInv'
<1> SUFFICES ASSUME ReceiptInv, [Next]_vars PROVE ReceiptInv' OBVIOUS
<1>1. TypeOK /\ KeysOwned /\ OrdersAreConditional BY DEF ReceiptInv
<1>2. TypeOK' /\ KeysOwned' /\ OrdersAreConditional'
  BY <1>1, TypeOKStep, KeysOwnedStep, OrdersStep
<1>3. \A d \in Commands : Backed(commands'[d], d, events'[commands'[d].trade]) BY BackedStep
<1>4. (\A d \in Commands : Backed(commands[d], d, events[commands[d].trade]))'
  BY <1>3 DEF Backed
<1> QED BY <1>2, <1>4 DEF ReceiptInv

LEMMA ReceiptInit == Init => ReceiptInv
<1> SUFFICES ASSUME Init PROVE ReceiptInv OBVIOUS
<1>1. TypeOK BY FilledInit DEF FilledInv
<1>2. \A t \in Trades : Len(events[t]) = 0 BY DEF Init
<1>3. \A t \in Trades : \A k : ~Names(events[t], k) BY <1>2 DEF Names
<1>4. \A c \in Commands : commands[c] = Unused /\ commands[c].status = "unused"
  BY DEF Init, Unused
<1>5. \A c \in Commands : commands[c].trade \in Trades BY <1>1 DEF TypeOK, Command
<1> QED BY <1>1, <1>3, <1>4, <1>5 DEF ReceiptInv, KeysOwned, OrdersAreConditional, Backed

\* Whatever interleaves with a receipt, the table of commands and the ledger tell one
\* story: executed, armed and cancelled commands have their events, and no other has one.
THEOREM ReceiptsMatchLedger == Spec => []ReceiptMatchesLedger
<1>1. ReceiptInv => ReceiptMatchesLedger BY BackedIsReceiptMatchesLedger DEF ReceiptInv
<1> QED BY <1>1, ReceiptInit, ReceiptStep, PTL DEF Spec

\* ScaleOutKeepsItsSize, for one command and the ledger of its trade.
Sized(command, c, evs) ==
  command.policy = "SCALE_OUT_ON_SPIKE" =>
    \A i \in 1..Len(evs) : evs[i].key = <<"fill", c>> =>
      \E j \in 1..Len(evs) : /\ evs[j].key = <<"command", c>> /\ j < i
                             /\ evs[i].closed * command.parts = evs[j].before

SizeInv == ReceiptInv /\ \A c \in Commands : Sized(commands[c], c, events[commands[c].trade])

\* A ledger that grows by other events than the fill of c leaves it sized as it was.
LEMMA SizeStays ==
  ASSUME NEW c, NEW old, NEW new, NEW evs, NEW longer, Sized(old, c, evs),
         new.policy = old.policy, new.parts = old.parts,
         \A i \in 1..Len(evs) : i \in 1..Len(longer) /\ longer[i] = evs[i],
         \A i \in 1..Len(longer) : longer[i].key = <<"fill", c>> => i \in 1..Len(evs)
  PROVE  Sized(new, c, longer)
<1> SUFFICES ASSUME new.policy = "SCALE_OUT_ON_SPIKE", NEW i \in 1..Len(longer),
                    longer[i].key = <<"fill", c>>
             PROVE  \E j \in 1..Len(longer) : /\ longer[j].key = <<"command", c>> /\ j < i
                                              /\ longer[i].closed * new.parts = longer[j].before
  BY DEF Sized
<1>1. i \in 1..Len(evs) /\ longer[i] = evs[i] OBVIOUS
<1>2. PICK j \in 1..Len(evs) : /\ evs[j].key = <<"command", c>> /\ j < i
                               /\ evs[i].closed * old.parts = evs[j].before
  BY <1>1 DEF Sized
<1>3. j \in 1..Len(longer) /\ longer[j] = evs[j] BY <1>2
<1> QED BY <1>1, <1>2, <1>3

\* What each kind of step may add to a ledger.
LEMMA FillsAfterTouch ==
  ASSUME TypeOK, NEW t \in Trades, NEW g \in Geometries, Touched(t, g), NEW u \in Trades,
         NEW c \in Commands
  PROVE  \A i \in 1..Len(events'[u]) : events'[u][i].key = <<"fill", c>> => i \in 1..Len(events[u])
<1>1. <<"fill", c>> # NoKey BY DEF NoKey
<1> QED BY <1>1, TouchKeepsEvents

LEMMA FillsAfterAppend ==
  ASSUME TypeOK, NEW t \in Trades, NEW g \in Geometries, NEW e, Appended(t, g, e),
         NEW u \in Trades, NEW c \in Commands
  PROVE  \A i \in 1..Len(events'[u]) : events'[u][i].key = <<"fill", c>> =>
           i \in 1..Len(events[u]) \/ (u = t /\ i = Len(Ensured(t, g)) + 1 /\ e.key = <<"fill", c>>)
<1>1. <<"fill", c>> # NoKey BY DEF NoKey
<1>2. \A i \in 1..Len(events'[u]) :
        \/ i \in 1..Len(events[u]) /\ events'[u][i] = events[u][i]
        \/ events'[u][i].key = NoKey
        \/ u = t /\ i = Len(Ensured(t, g)) + 1 /\ events'[u][i] = e
  BY WhereEventsComeFrom
<1> QED BY <1>1, <1>2

LEMMA SizedStep ==
  ASSUME SizeInv, [Next]_vars, NEW d \in Commands
  PROVE  Sized(commands'[d], d, events'[commands'[d].trade])
<1> DEFINE Goal == Sized(commands'[d], d, events'[commands'[d].trade])
           t == commands[d].trade
           evs == events[t]
           longer == events'[t]
           Grows == /\ \A i \in 1..Len(evs) : i \in 1..Len(longer) /\ longer[i] = evs[i]
                    /\ \A i \in 1..Len(longer) : longer[i].key = <<"fill", d>> => i \in 1..Len(evs)
<1> SUFFICES Goal OBVIOUS
<1>1. TypeOK /\ KeysOwned /\ Sized(commands[d], d, evs) BY DEF SizeInv, ReceiptInv
<1>2. t \in Trades /\ commands[d] \in Command BY <1>1 DEF TypeOK, Command
<1>3. ASSUME Withdrawn(commands[d], commands'[d]), Grows PROVE Goal
  <2>1. /\ commands'[d].trade = t /\ commands'[d].policy = commands[d].policy
        /\ commands'[d].parts = commands[d].parts
    BY <1>3 DEF Withdrawn
  <2>2. Grows /\ Sized(commands[d], d, evs) BY <1>1, <1>3
  <2> HIDE DEF t, evs, longer
  <2>3. Sized(commands'[d], d, longer) BY <2>1, <2>2, SizeStays
  <2> QED BY <2>1, <2>3 DEF longer
<1>4. ASSUME NEW u \in Trades, NEW g \in Geometries, Touched(u, g) PROVE Grows
  BY <1>1, <1>2, <1>4, TouchKeepsEvents, FillsAfterTouch
<1>5. ASSUME NEW u \in Trades, NEW g \in Geometries, NEW e, Appended(u, g, e),
             e.key # <<"fill", d>>
      PROVE  Grows
  <2>1. \A i \in 1..Len(evs) : i \in 1..Len(longer) /\ longer[i] = evs[i]
    BY <1>1, <1>2, <1>5, AppendKeepsEvents
  <2>2. \A i \in 1..Len(longer) : longer[i].key = <<"fill", d>> => i \in 1..Len(evs)
    BY <1>1, <1>2, <1>5, FillsAfterAppend
  <2> QED BY <2>1, <2>2
<1>6. CASE Quiet
  <2>1. Withdrawn(commands[d], commands'[d]) BY <1>6 DEF Quiet
  <2>2. UNCHANGED events => Grows OBVIOUS
  <2>3. "fill" \in ReceiptKinds BY DEF ReceiptKinds
  <2> HIDE DEF Grows
  <2>4. Grows BY <1>4, <1>5, <1>6, <2>2, <2>3 DEF Quiet
  <2> QED BY <1>3, <2>1, <2>4
<1>7. ASSUME NEW u \in Trades, NEW c \in Commands, Published(u, c) PROVE Goal
  <2>1. trades[u].geo \in Geometries BY <1>1 DEF TypeOK, Row
  <2>2. Touched(u, trades[u].geo) BY <1>7 DEF Published
  <2>3. CASE d # c
    <3>1. Withdrawn(commands[d], commands'[d]) BY <1>7, <2>3 DEF Published
    <3>2. Grows BY <1>4, <2>1, <2>2
    <3> QED BY <1>3, <3>1, <3>2
  <2>4. CASE d = c
    <3>1. commands[d].status = "unused" /\ commands'[d].trade = u BY <1>7, <2>4 DEF Published
    <3>2. "fill" \in ReceiptKinds BY DEF ReceiptKinds
    <3>3. ~Names(events[u], <<"fill", d>>) BY <1>1, <3>1, <3>2 DEF KeysOwned
    <3>4. ~Names(events'[u], <<"fill", d>>)
      BY <1>1, <2>1, <2>2, <3>2, <3>3, KeysDiffer, KeysAfterTouch
    <3> QED BY <3>1, <3>4 DEF Sized, Names
  <2> QED BY <2>3, <2>4
<1>8. ASSUME NEW c \in Commands, NEW g \in Geometries, NEW e, NEW kind \in ReceiptKinds,
             NEW status, Received(c, g, e, kind, status)
      PROVE  Goal
  <2>1. /\ commands'[c].trade = commands[c].trade /\ commands'[c].policy = commands[c].policy
        /\ commands'[c].parts = commands[c].parts
        /\ \A f \in Commands \ {c} : commands'[f] = commands[f]
    BY <1>1, <1>8, ReceivedCommands
  <2>2. Appended(commands[c].trade, g, e) /\ e.key = <<kind, c>> BY <1>8 DEF Received
  <2>3. commands[c].trade \in Trades BY <1>1 DEF TypeOK, Command
  <2>4. /\ commands'[d].trade = t /\ commands'[d].policy = commands[d].policy
        /\ commands'[d].parts = commands[d].parts
    BY <2>1
  <2>5. CASE ~(d = c /\ kind = "fill")
    <3>1. e.key # <<"fill", d>> BY <2>2, <2>5
    <3>2. Grows BY <1>5, <2>2, <2>3, <3>1
    <3>3. Sized(commands[d], d, evs) BY <1>1
    <3> HIDE DEF t, evs, longer
    <3>4. Sized(commands'[d], d, longer) BY <2>4, <3>2, <3>3, SizeStays
    <3> QED BY <2>4, <3>4 DEF longer
  <2>6. CASE d = c /\ kind = "fill"
    <3> DEFINE from == Ensured(t, g)
               n == Len(from)
               parts == commands[d].parts
    <3>1. Appended(t, g, e) /\ SizedByItsArm(d, from, e) BY <1>8, <2>2, <2>6 DEF Received
    <3>2. /\ \A i \in 1..Len(evs) : i \in 1..Len(longer) /\ longer[i] = evs[i]
          /\ n \in Nat /\ Len(longer) = n + 1 /\ longer[n + 1] = e
          /\ \A i \in 1..n : longer[i] = from[i]
      BY <1>1, <1>2, <3>1, AppendKeepsEvents
    <3>3. \A i \in 1..Len(longer) : longer[i].key = <<"fill", d>> =>
            i \in 1..Len(evs) \/ i = n + 1
      BY <1>1, <1>2, <3>1, FillsAfterAppend
    <3>4. Sized(commands[d], d, evs) BY <1>1
    <3> HIDE DEF from, n, evs, longer
    <3>5. ASSUME commands[d].policy = "SCALE_OUT_ON_SPIKE", NEW i \in 1..Len(longer),
                 longer[i].key = <<"fill", d>>
          PROVE  \E j \in 1..Len(longer) : /\ longer[j].key = <<"command", d>> /\ j < i
                                           /\ longer[i].closed * parts = longer[j].before
      <4>1. CASE i \in 1..Len(evs)
        <5>1. longer[i] = evs[i] /\ evs[i].key = <<"fill", d>> BY <3>2, <3>5, <4>1
        <5>2. PICK j \in 1..Len(evs) : /\ evs[j].key = <<"command", d>> /\ j < i
                                       /\ evs[i].closed * parts = evs[j].before
          BY <3>4, <3>5, <4>1, <5>1 DEF Sized
        <5>3. j \in 1..Len(longer) /\ longer[j] = evs[j] BY <3>2
        <5> QED BY <5>1, <5>2, <5>3
      <4>2. CASE i = n + 1
        <5>1. PICK j \in 1..n : from[j].key = <<"command", d>> /\ e.closed * parts = from[j].before
          BY <3>1, <3>5 DEF SizedByItsArm, n
        <5>2. j \in 1..Len(longer) /\ j < i /\ longer[j] = from[j] BY <3>2, <4>2
        <5> QED BY <3>2, <4>2, <5>1, <5>2
      <4> QED BY <3>3, <3>5, <4>1, <4>2
    <3>6. Sized(commands'[d], d, longer) BY <2>4, <3>5 DEF Sized
    <3> QED BY <2>4, <3>6 DEF longer
  <2> QED BY <2>5, <2>6
<1> HIDE DEF Goal
<1> QED BY <1>1, <1>6, <1>7, <1>8, CommandSteps

LEMMA SizeStep == SizeInv /\ [Next]_vars => SizeInv'
<1> SUFFICES ASSUME SizeInv, [Next]_vars PROVE SizeInv' OBVIOUS
<1>1. ReceiptInv' BY ReceiptStep DEF SizeInv
<1>2. \A d \in Commands : Sized(commands'[d], d, events'[commands'[d].trade]) BY SizedStep
<1>3. (\A d \in Commands : Sized(commands[d], d, events[commands[d].trade]))'
  BY <1>2 DEF Sized
<1> QED BY <1>1, <1>3 DEF SizeInv

LEMMA SizedIsScaleOutKeepsItsSize ==
  (\A c \in Commands : Sized(commands[c], c, events[commands[c].trade])) => ScaleOutKeepsItsSize
<1> SUFFICES ASSUME NEW c \in Commands, Sized(commands[c], c, events[commands[c].trade]),
                    NEW i \in Backing(c, "fill"), commands[c].policy = "SCALE_OUT_ON_SPIKE"
             PROVE  \E j \in Backing(c, "command") :
                      /\ j < i
                      /\ events[commands[c].trade][i].closed * commands[c].parts
                           = events[commands[c].trade][j].before
  BY DEF ScaleOutKeepsItsSize
<1> QED BY DEF Sized, Backing

\* However many fills come between an armed scale-out and its own fill, it closes the part
\* of the position it was armed on.
THEOREM ScaleOutsKeepTheirSize == Spec => []ScaleOutKeepsItsSize
<1>1. Init => SizeInv
  <2> SUFFICES ASSUME Init PROVE SizeInv OBVIOUS
  <2>1. ReceiptInv BY ReceiptInit
  <2>2. \A c \in Commands : commands[c].policy = "HOLD" BY DEF Init, Unused
  <2> QED BY <2>1, <2>2 DEF SizeInv, Sized
<1>2. SizeInv => ScaleOutKeepsItsSize BY SizedIsScaleOutKeepsItsSize DEF SizeInv
<1> QED BY <1>1, <1>2, SizeStep, PTL DEF Spec

-----------------------------------------------------------------------------
(* A closed trade asks for nothing.                                        *)

\* The strengthening: a command is published for a row that exists.
CommandsHaveRows ==
  \A c \in Commands :
    commands[c].status # "unused" => trades[commands[c].trade].status # "none"

PendingInv == FilledInv /\ CommandsHaveRows /\ ClosedTradeHasNoPending

\* A row that exists stays, and stays deleted.
LEMMA RowsStay ==
  ASSUME FilledInv, [Next]_vars, NEW t \in Trades, trades[t].status # "none"
  PROVE  trades'[t].status # "none" /\ (trades[t].deleted => trades'[t].deleted)
<1> DEFINE Stays(row) == row.status # "none" /\ (trades[t].deleted => row.deleted)
<1> SUFFICES Stays(trades'[t]) OBVIOUS
<1>1. TypeOK /\ trades \in [Trades -> Row] /\ trades[t] \in Row BY DEF FilledInv, TypeOK
<1>2. Stays(trades[t]) OBVIOUS
<1>3. ASSUME NEW evs PROVE Stays(Settled(trades[t], evs)) BY <1>1 DEF Settled, Row
<1>4. ASSUME NEW evs, NEW row \in ExitRow(t, evs) PROVE Stays(row)
  <2> DEFINE settled == Settled(trades[t], evs)
             given == [settled EXCEPT !.basis = "manual", !.outcome = "user"]
  <2>1. settled \in Row /\ Stays(settled) BY <1>1, <1>3, SettledType
  <2>2. row = settled \/ row = given BY <1>4 DEF ExitRow
  <2> HIDE DEF settled
  <2>3. given.status = settled.status /\ given.deleted = settled.deleted BY <2>1 DEF Row
  <2> HIDE DEF given
  <2> QED BY <2>1, <2>2, <2>3
<1>5. ASSUME NEW u \in Trades, Inserts(u) PROVE Stays(trades'[t])
  <2>1. u # t BY <1>5 DEF Inserts
  <2> QED BY <1>1, <1>2, <1>5, <2>1 DEF Inserts
<1>6. ASSUME NEW u \in Trades, Rewrites(u) PROVE Stays(trades'[t])
  <2>1. PICK row \in Row : /\ trades' = [trades EXCEPT ![u] = row]
                           /\ row.status = trades[u].status
                           /\ trades[u].deleted => row.deleted
    BY <1>6 DEF Rewrites
  <2> QED BY <1>1, <2>1
<1>7. ASSUME NEW u \in Trades, NEW g \in Geometries, NEW e, Recorded(u, g, e)
      PROVE  Stays(trades'[t])
  <2> DEFINE longer == Append(Ensured(u, g), e)
  <2>1. trades' = [trades EXCEPT ![u] = IF e.closed > 0 /\ e.after = 0
                                        THEN Settled(trades[u], longer) ELSE trades[u]]
    BY <1>1, <1>7 DEF Recorded, Record
  <2> HIDE DEF longer, Stays
  <2> QED BY <1>1, <1>2, <1>3, <2>1
<1>8. ASSUME NEW u \in Trades, NEW evs, NEW row \in ExitRow(u, evs),
             trades' = [trades EXCEPT ![u] = row]
      PROVE  Stays(trades'[t])
  <2> HIDE DEF Stays
  <2> QED BY <1>1, <1>2, <1>4, <1>8
<1> HIDE DEF Stays
<1> QED BY <1>2, <1>5, <1>6, <1>7, <1>8, RowSteps

LEMMA CommandsHaveRowsStep ==
  ASSUME FilledInv, CommandsHaveRows, [Next]_vars
  PROVE  CommandsHaveRows'
<1> SUFFICES ASSUME NEW d \in Commands, commands'[d].status # "unused"
             PROVE  trades'[commands'[d].trade].status # "none"
  BY DEF CommandsHaveRows
<1>1. TypeOK /\ \A c \in Commands : commands[c] \in Command /\ commands[c].trade \in Trades
  BY DEF FilledInv, TypeOK, Command
<1>2. \A t \in Trades : trades[t].status # "none" => trades'[t].status # "none" BY RowsStay
<1>3. ASSUME commands[d].status # "unused", commands'[d].trade = commands[d].trade
      PROVE  trades'[commands'[d].trade].status # "none"
  BY <1>1, <1>2, <1>3 DEF CommandsHaveRows
<1>4. ASSUME Withdrawn(commands[d], commands'[d])
      PROVE  trades'[commands'[d].trade].status # "none"
  <2>1. commands[d].status # "unused" /\ commands'[d].trade = commands[d].trade
    BY <1>4 DEF Withdrawn
  <2> QED BY <1>3, <2>1
<1>5. CASE Quiet BY <1>4, <1>5 DEF Quiet
<1>6. ASSUME NEW t \in Trades, NEW c \in Commands, Published(t, c)
      PROVE  trades'[commands'[d].trade].status # "none"
  <2>1. CASE d # c BY <1>4, <1>6, <2>1 DEF Published
  <2>2. CASE d = c BY <1>6, <2>2 DEF Published, IsActive, Live
  <2> QED BY <2>1, <2>2
<1>7. ASSUME NEW c \in Commands, NEW g, NEW e, NEW kind, NEW status, Received(c, g, e, kind, status)
      PROVE  trades'[commands'[d].trade].status # "none"
  <2>1. /\ commands'[c].trade = commands[c].trade
        /\ \A f \in Commands \ {c} : commands'[f] = commands[f]
    BY <1>1, <1>7, ReceivedCommands
  <2>2. commands[c].status # "unused" BY <1>7 DEF Received, Transition
  <2> QED BY <1>3, <2>1, <2>2
<1> QED BY <1>1, <1>5, <1>6, <1>7, CommandSteps

\* A command that is pending was pending for the same trade, or is published by this step
\* for an open one.
LEMMA WasPending ==
  ASSUME TypeOK, [Next]_vars, NEW c \in Commands, commands'[c].status = "pending_execution"
  PROVE  \/ /\ commands[c].status = "pending_execution"
            /\ commands'[c].trade = commands[c].trade
         \/ Live(commands'[c].trade) /\ UNCHANGED trades
<1> DEFINE Goal == \/ /\ commands[c].status = "pending_execution"
                      /\ commands'[c].trade = commands[c].trade
                   \/ Live(commands'[c].trade) /\ UNCHANGED trades
<1> SUFFICES Goal OBVIOUS
<1>1. ASSUME Withdrawn(commands[c], commands'[c]) PROVE Goal BY <1>1 DEF Withdrawn
<1>2. CASE Quiet BY <1>1, <1>2 DEF Quiet
<1>3. ASSUME NEW t \in Trades, NEW d \in Commands, Published(t, d) PROVE Goal
  <2>1. CASE c # d BY <1>1, <1>3, <2>1 DEF Published
  <2>2. CASE c = d BY <1>3, <2>2 DEF Published, IsActive
  <2> QED BY <2>1, <2>2
<1>4. ASSUME NEW d \in Commands, NEW g, NEW e, NEW kind, NEW status, Received(d, g, e, kind, status)
      PROVE  Goal
  <2>1. /\ commands'[d].status = status
        /\ \A f \in Commands \ {d} : commands'[f] = commands[f]
    BY <1>4, ReceivedCommands
  <2>2. status # "pending_execution" BY <1>4 DEF Received, Transition
  <2> QED BY <2>1, <2>2
<1> HIDE DEF Goal
<1> QED BY <1>2, <1>3, <1>4, CommandSteps

\* Only complete_ack takes a handler that has written its receipt away from its trade.
LEMMA AcknowledgedStays ==
  ASSUME TypeOK, [Step]_vars, NEW k \in Handlers, held[k].pc = "acknowledged"
  PROVE  held'[k] = held[k] \/ CompleteAck(k)
<1> DEFINE Goal == held'[k] = held[k] \/ CompleteAck(k)
<1> SUFFICES Goal OBVIOUS
<1>0. held \in [Handlers -> Held] BY DEF TypeOK
<1>1. CASE UNCHANGED held BY <1>1
<1>2. ASSUME NEW h \in Handlers, held[h].pc # "acknowledged",
             \E x : held' = [held EXCEPT ![h] = x]
      PROVE  Goal
  BY <1>0, <1>2
<1>3. CASE UNCHANGED vars BY <1>1, <1>3 DEF vars
<1>4. CASE JournalStep BY <1>1, <1>4 DEF JournalStep, AddClosed, EditResult, DeleteTrade
<1>5. CASE ReviewStep BY <1>1, <1>5 DEF ReviewStep, PublishReview, DeadlinePasses
<1>6. ASSUME NEW h \in Handlers, HandlerStep(h) PROVE Goal
  <2> DEFINE Moves == held[h].pc # "acknowledged" /\ \E x : held' = [held EXCEPT ![h] = x]
  <2>1. OpeningStep(h) => Moves
    BY DEF OpeningStep, OpenCheck, OpenInsert, OpenLedger, Leave
  <2>2. EditingStep(h) => Moves BY DEF EditingStep, ReadForEdit, EditLevels, EditSupersede, Leave
  <2>3. MarketStep(h) => Moves \/ UNCHANGED held
    BY DEF MarketStep, ReachTrigger, SyncBreakEven, Leave
  <2>4. AcknowledgementStep(h) => Moves \/ CompleteAck(h)
    BY DEF AcknowledgementStep, MayAcknowledge, Acknowledged, AcknowledgeNotExecuted,
         AcknowledgeReduction, AcknowledgeBarrier, AcknowledgeArm, AcknowledgeConditionalFill,
         AcknowledgeCancel, ManualFill, RetriedReceipt
  <2>5. (\E t \in Trades : ReadTrade(h, t)) => Moves BY DEF ReadTrade
  <2>6. Return(h) \/ TouchLedger(h) => Moves \/ UNCHANGED held BY DEF Return, TouchLedger, Leave
  <2>7. (\E total, priced \in BOOLEAN : TerminalExit(h, total, priced)) => Moves
    BY DEF TerminalExit, Leave
  <2>8. CompleteAck(h) => Goal BY <1>0 DEF CompleteAck, Leave
  <2>9. Moves => Goal BY <1>2
  <2> HIDE DEF Moves, Goal
  <2> QED BY <1>1, <1>6, <2>1, <2>2, <2>3, <2>4, <2>5, <2>6, <2>7, <2>8, <2>9 DEF HandlerStep
<1> HIDE DEF Goal
<1> QED BY <1>3, <1>4, <1>5, <1>6 DEF Step

\* A step that closes a trade withdraws its commands, or its handler is about to.
LEMMA WhoClosesATrade ==
  ASSUME TypeOK, [Step]_vars, NEW t \in Trades, trades[t].status = "open",
         trades'[t].status = "closed"
  PROVE  \/ commands' = Supersede(commands, t, AnyPolicy)
         \/ \E h \in Handlers : held'[h].pc = "acknowledged" /\ held'[h].trade = t
<1> DEFINE Goal == \/ commands' = Supersede(commands, t, AnyPolicy)
                   \/ \E h \in Handlers : held'[h].pc = "acknowledged" /\ held'[h].trade = t
<1> SUFFICES Goal OBVIOUS
<1>0. trades \in [Trades -> Row] /\ held \in [Handlers -> Held] BY DEF TypeOK
<1>1. ASSUME UNCHANGED trades PROVE FALSE BY <1>1
<1>2. ASSUME NEW u \in Trades, NEW row, trades' = [trades EXCEPT ![u] = row],
             row.status = trades[u].status \/ row.status # "closed"
      PROVE  FALSE
  BY <1>0, <1>2
<1>3. CASE UNCHANGED vars BY <1>1, <1>3 DEF vars
<1>4. CASE JournalStep
  <2>1. ASSUME NEW u \in Trades, NEW g \in Geometries, AddClosed(u, g) PROVE FALSE
    <3>1. ~(u < u) BY IdsAreNumbers
    <3>2. trades[u].status = "none" /\ trades' = [trades EXCEPT ![u] = Inserted(g, "closed")]
      BY <2>1, <3>1 DEF AddClosed, NextRow
    <3> QED BY <1>0, <3>2
  <2>2. ASSUME NEW u \in Trades, EditResult(u) PROVE FALSE
    BY <1>0, <2>2 DEF EditResult, Row
  <2>3. ASSUME NEW u \in Trades, DeleteTrade(u) PROVE FALSE
    BY <1>0, <2>3 DEF DeleteTrade, Row
  <2> QED BY <1>4, <2>1, <2>2, <2>3 DEF JournalStep
<1>5. CASE ReviewStep BY <1>1, <1>5 DEF ReviewStep, PublishReview, DeadlinePasses
<1>6. ASSUME NEW h \in Handlers, HandlerStep(h) PROVE Goal
  <2> DEFINE s == held[h].trade
             g == held[h].row.geo
  <2>1. s \in Trades /\ g \in Geometries BY HeldRow
  <2>2. CASE OpeningStep(h)
    <3>1. ASSUME NEW u \in Trades, NEW f \in Geometries, OpenInsert(h, u, f) PROVE FALSE
      BY <1>0, <3>1 DEF OpenInsert, Inserted
    <3> QED BY <1>1, <2>2, <3>1 DEF OpeningStep, OpenCheck, OpenLedger
  <2>3. CASE EditingStep(h)
    <3>1. ASSUME NEW f \in Geometries, EditLevels(h, f) PROVE FALSE
      BY <1>0, <2>1, <3>1 DEF EditLevels, Row
    <3> QED BY <1>1, <2>3, <3>1 DEF EditingStep, ReadForEdit, EditSupersede
  <2>4. CASE MarketStep(h)
    <3>1. ASSUME ReachTrigger(h) PROVE FALSE BY <1>0, <2>1, <3>1 DEF ReachTrigger, Row
    <3>2. ASSUME SyncBreakEven(h) PROVE FALSE
      <4> DEFINE e == MakeEvent("BE_ARM", NoKey, Remaining(Ensured(s, g)), 0, g.entry,
                                ActiveTake(Ensured(s, g), g), FALSE)
      <4>1. Record(s, Ensured(s, g), e) BY <3>2 DEF SyncBreakEven
      <4>2. ~(e.closed > 0) BY DEF MakeEvent
      <4> HIDE DEF e, s, g
      <4>3. trades' = trades BY <1>0, <2>1, <4>1, <4>2 DEF Record
      <4> QED BY <1>1, <4>3
    <3> QED BY <2>4, <3>1, <3>2 DEF MarketStep
  <2>5. CASE AcknowledgementStep(h)
    <3>1. ASSUME \E e : Recorded(s, g, e), Acknowledged(h) PROVE Goal
      <4>1. PICK row : trades' = [trades EXCEPT ![s] = row]
        BY <3>1 DEF Recorded, Record
      <4>2. s = t BY <1>0, <4>1
      <4>3. held'[h] = At("acknowledged", s) BY <1>0, <3>1 DEF Acknowledged
      <4> QED BY <4>2, <4>3 DEF At
    <3>2. RetriedReceipt(h) \/ CompleteAck(h) => UNCHANGED trades
      BY DEF RetriedReceipt, CompleteAck
    <3>3. \A c \in Commands : AcknowledgeNotExecuted(h, c) => UNCHANGED trades
      BY DEF AcknowledgeNotExecuted
    <3>4. CASE /\ ~(RetriedReceipt(h) \/ CompleteAck(h))
               /\ ~\E c \in Commands : AcknowledgeNotExecuted(h, c)
      <4>1. Acknowledged(h)
        BY <2>5, <3>4 DEF AcknowledgementStep, AcknowledgeReduction,
             AcknowledgeBarrier, AcknowledgeArm, AcknowledgeConditionalFill, AcknowledgeCancel,
             ManualFill
      <4> HIDE DEF s, g, Goal
      <4>2. \E e : Recorded(s, g, e)
        BY <2>5, <3>4, TransactionsRecord DEF AcknowledgementStep, s, g
      <4> QED BY <3>1, <4>1, <4>2
    <3> HIDE DEF Goal
    <3> QED BY <1>1, <3>2, <3>3, <3>4
  <2>6. CASE \/ Return(h) \/ TouchLedger(h) \/ \E u \in Trades : ReadTrade(h, u)
    BY <1>1, <2>6 DEF Return, TouchLedger, ReadTrade
  <2>7. ASSUME NEW total \in BOOLEAN, NEW priced \in BOOLEAN, TerminalExit(h, total, priced)
        PROVE  Goal
    <3>1. /\ \E row : trades' = [trades EXCEPT ![s] = row]
          /\ commands' = Supersede(commands, s, AnyPolicy)
      BY <2>7 DEF TerminalExit
    <3>2. s = t BY <1>0, <3>1
    <3> QED BY <3>1, <3>2
  <2> HIDE DEF Goal
  <2> QED BY <1>6, <2>2, <2>3, <2>4, <2>5, <2>6, <2>7 DEF HandlerStep
<1> HIDE DEF Goal
<1> QED BY <1>3, <1>4, <1>5, <1>6 DEF Step

\* Superseding the commands of a trade leaves none of them pending.
LEMMA SupersededTrade ==
  ASSUME TypeOK, NEW c \in Commands, commands' = Supersede(commands, commands[c].trade, AnyPolicy)
  PROVE  commands'[c].status # "pending_execution"
<1>1. commands[c] \in Command BY DEF TypeOK
<1>2. commands[c].policy \in AnyPolicy BY <1>1 DEF Command, AnyPolicy
<1> QED BY <1>1, <1>2 DEF Supersede, Command

LEMMA PendingStep == PendingInv /\ [Step]_vars => PendingInv'
<1> SUFFICES ASSUME PendingInv, [Step]_vars PROVE PendingInv' OBVIOUS
<1>1. [Next]_vars BY DEF Next
<1>2. FilledInv /\ TypeOK /\ CommandsHaveRows BY DEF PendingInv, FilledInv
<1>3. FilledInv' /\ CommandsHaveRows' BY <1>1, <1>2, FilledStep, CommandsHaveRowsStep
<1>4. ASSUME NEW c \in Commands, commands'[c].status = "pending_execution",
             trades'[commands'[c].trade].status = "closed", ~trades'[commands'[c].trade].deleted
      PROVE  \E h \in Handlers : held'[h].pc = "acknowledged" /\ held'[h].trade = commands'[c].trade
  <2> DEFINE t == commands[c].trade
  <2>1. commands[c].status = "pending_execution" /\ commands'[c].trade = t
    BY <1>1, <1>2, <1>4, WasPending DEF Live
  <2>2. t \in Trades /\ trades[t] \in Row BY <1>2 DEF TypeOK, Command
  <2>3. trades[t].status # "none" BY <1>2, <2>1 DEF CommandsHaveRows
  <2>4. ~trades[t].deleted BY <1>1, <1>2, <1>4, <2>1, <2>2, <2>3, RowsStay
  <2>5. commands' # Supersede(commands, t, AnyPolicy) BY <1>2, <1>4, SupersededTrade
  <2>6. CASE trades[t].status = "open"
    <3>1. trades'[t].status = "closed" BY <1>4, <2>1
    <3> HIDE DEF t
    <3> QED BY <1>2, <2>1, <2>2, <2>5, <2>6, <3>1, WhoClosesATrade
  <2>7. CASE trades[t].status = "closed"
    <3>1. PICK h \in Handlers : held[h].pc = "acknowledged" /\ held[h].trade = t
      BY <2>1, <2>4, <2>7 DEF PendingInv, ClosedTradeHasNoPending
    <3>2. ~CompleteAck(h) BY <2>4, <2>5, <2>7, <3>1 DEF CompleteAck
    <3>3. held'[h] = held[h] BY <1>2, <3>1, <3>2, AcknowledgedStays
    <3> QED BY <2>1, <3>1, <3>3
  <2> QED BY <2>2, <2>3, <2>6, <2>7 DEF Row
<1>5. ClosedTradeHasNoPending' BY <1>4 DEF ClosedTradeHasNoPending
<1> QED BY <1>3, <1>5 DEF PendingInv

\* In one life of the process a closed trade has a pending command only while the handler
\* whose receipt closed it is on its way to withdraw it.
THEOREM ClosedTradesAskNothing == Uninterrupted => []ClosedTradeHasNoPending
<1>1. Init => PendingInv
  <2> SUFFICES ASSUME Init PROVE PendingInv OBVIOUS
  <2>1. \A c \in Commands : commands[c].status = "unused" BY DEF Init, Unused
  <2> QED BY <2>1, FilledInit DEF PendingInv, CommandsHaveRows, ClosedTradeHasNoPending
<1>2. PendingInv => ClosedTradeHasNoPending BY DEF PendingInv
<1> QED BY <1>1, <1>2, PendingStep, PTL DEF Uninterrupted

-----------------------------------------------------------------------------
(* The active stop.                                                        *)

\* The newest event of a kind in a longer ledger.
LEMMA NewestAfterAppend ==
  ASSUME NEW evs \in Seq(Event), NEW e \in Event, NEW types
  PROVE  NewestOf(Append(evs, e), types) =
           IF e.type \in types THEN Len(evs) + 1 ELSE NewestOf(evs, types)
<1> DEFINE longer == Append(evs, e)
           n == Len(evs)
<1>1. n \in Nat /\ longer \in Seq(Event) /\ Len(longer) = n + 1 /\ longer[n + 1] = e
        /\ \A j \in 1..n : longer[j] = evs[j]
  BY AppendProperties, LenProperties
<1>2. CASE e.type \in types
  <2> DEFINE i == NewestOf(longer, types)
  <2>1. i \in 0..Len(longer) /\ \A j \in 1..Len(longer) : longer[j].type \in types => j <= i
    BY <1>1, NewestOfProperties
  <2> HIDE DEF i, longer, n
  <2>2. n + 1 \in 1..Len(longer) BY <1>1
  <2>3. n + 1 <= i BY <1>1, <1>2, <2>1, <2>2
  <2>4. i = n + 1 BY <1>1, <2>1, <2>3
  <2> QED BY <1>2, <2>4 DEF i, longer, n
<1>3. CASE e.type \notin types
  <2> HIDE DEF longer, n
  <2>1. {j \in 1..Len(longer) : longer[j].type \in types} = {j \in 1..n : evs[j].type \in types}
    <3>1. \A j \in 1..(n + 1) : j \in 1..n \/ j = n + 1 BY <1>1
    <3>2. \A j \in 1..n : j \in 1..(n + 1) BY <1>1
    <3> QED BY <1>1, <1>3, <3>1, <3>2
  <2> DEFINE Newest(s) == IF s = {} THEN 0 ELSE CHOOSE i \in s : \A j \in s : j <= i
             before == {j \in 1..n : evs[j].type \in types}
             after == {j \in 1..Len(longer) : longer[j].type \in types}
  <2>2. NewestOf(longer, types) = Newest(after) BY DEF NewestOf
  <2>3. NewestOf(evs, types) = Newest(before) BY DEF NewestOf, n
  <2>4. after = before BY <2>1
  <2> HIDE DEF Newest, before, after
  <2>5. NewestOf(longer, types) = NewestOf(evs, types) BY <2>2, <2>3, <2>4
  <2> QED BY <1>3, <2>5 DEF longer
<1> QED BY <1>2, <1>3

\* Opening a ledger moves no stop, and appending moves it to that of a STOP event.
LEMMA StopOfOpened ==
  ASSUME NEW t \in Trades, NEW g \in Geometries, NEW levels \in Geometries
  PROVE  ActiveStop(Ensured(t, g), levels) = ActiveStop(events[t], levels)
<1> DEFINE open == Opening(g)
<1>1. Ensured(t, g) = IF events[t] = <<>> THEN <<open>> ELSE events[t] BY OpeningFacts
<1>2. open.type = "TRADE_OPEN" BY DEF Opening, MakeEvent
<1> HIDE DEF open
<1>3. CASE events[t] = <<>>
  <2>1. Len(<<open>>) = 1 /\ <<open>>[1] = open /\ Len(events[t]) = 0 BY <1>3
  <2>2. {i \in 1..Len(<<open>>) : <<open>>[i].type \in {"STOP"}} = {} BY <1>2, <2>1
  <2>3. {i \in 1..Len(events[t]) : events[t][i].type \in {"STOP"}} = {} BY <2>1
  <2>4. NewestOf(<<open>>, {"STOP"}) = 0 /\ NewestOf(events[t], {"STOP"}) = 0
    BY <2>2, <2>3 DEF NewestOf
  <2> QED BY <1>1, <1>3, <2>4 DEF ActiveStop
<1>4. CASE events[t] # <<>> BY <1>1, <1>4
<1> QED BY <1>3, <1>4

LEMMA StopAfterAppend ==
  ASSUME NEW evs \in Seq(Event), NEW e \in Event, NEW levels \in Geometries
  PROVE  ActiveStop(Append(evs, e), levels) =
           IF e.type = "STOP" THEN e.stop ELSE ActiveStop(evs, levels)
<1> DEFINE longer == Append(evs, e)
           n == Len(evs)
           i == NewestOf(evs, {"STOP"})
<1>1. n \in Nat /\ longer[n + 1] = e /\ \A j \in 1..n : longer[j] = evs[j]
  BY AppendProperties, LenProperties
<1>2. NewestOf(longer, {"STOP"}) = IF e.type = "STOP" THEN n + 1 ELSE i BY NewestAfterAppend
<1>3. i \in 0..n BY NewestOfProperties
<1> HIDE DEF longer, n, i
<1>4. CASE e.type = "STOP"
  <2>1. n + 1 # 0 BY <1>1
  <2>2. ActiveStop(longer, levels) = longer[n + 1].stop BY <1>2, <1>4, <2>1 DEF ActiveStop
  <2> QED BY <1>1, <1>4, <2>2 DEF longer
<1>5. CASE e.type # "STOP"
  <2>1. i = 0 \/ longer[i] = evs[i] BY <1>1, <1>3
  <2>2. ActiveStop(longer, levels) = ActiveStop(evs, levels) BY <1>2, <1>5, <2>1 DEF ActiveStop, i
  <2> QED BY <1>5, <2>2 DEF longer
<1> QED BY <1>4, <1>5

\* A STOP event is one that a handler compared with the stop active in the levels it read.
StopsOnlyTighter(t, g, e) ==
  e.type = "STOP" =>
    \E h \in Handlers : /\ held[h].pc = "read" /\ held[h].trade = t /\ held[h].row.geo = g
                        /\ AtLeastAsTight(g, e.stop, ActiveStop(Ensured(t, g), g))

LEMMA StopSteps ==
  ASSUME TypeOK, [Next]_vars
  PROVE  \/ UNCHANGED events
         \/ \E t \in Trades, g \in Geometries : Touched(t, g)
         \/ \E t \in Trades, g \in Geometries, e \in Event :
              Appended(t, g, e) /\ StopsOnlyTighter(t, g, e)
<1> DEFINE Goal == \/ UNCHANGED events
                   \/ \E t \in Trades, g \in Geometries : Touched(t, g)
                   \/ \E t \in Trades, g \in Geometries, e \in Event :
                        Appended(t, g, e) /\ StopsOnlyTighter(t, g, e)
<1> SUFFICES Goal OBVIOUS
<1>1. CASE UNCHANGED vars \/ JournalStep \/ Restart
  BY <1>1 DEF vars, JournalStep, AddClosed, EditResult, DeleteTrade, Restart
<1>2. CASE ReviewStep
  <2>1. ASSUME NEW t \in Trades, NEW c \in Commands, NEW policy \in Policies, NEW price \in Prices,
               NEW parts \in {1, 2, 4, 10} \cup OrderParts, PublishReview(t, c, policy, price, parts)
        PROVE  Goal
    <3>1. trades[t].geo \in Geometries BY DEF TypeOK, Row
    <3>2. Touched(t, trades[t].geo) BY <2>1 DEF PublishReview, Touched
    <3> QED BY <3>1, <3>2
  <2> QED BY <1>2, <2>1 DEF ReviewStep, DeadlinePasses
<1>3. ASSUME NEW h \in Handlers, HandlerStep(h) PROVE Goal
  <2> DEFINE t == held[h].trade
             g == held[h].row.geo
             evs == Ensured(t, g)
             before == Remaining(evs)
  <2>1. /\ t \in Trades /\ g \in Geometries /\ before \in 0..Unit /\ evs \in Seq(Event)
        /\ ActiveStop(evs, g) \in Prices
    BY LedgerContext
  <2>2. ASSUME NEW e, \E r : Recorded(t, g, r), Record(t, evs, e), StopsOnlyTighter(t, g, e)
        PROVE  Goal
    <3> HIDE DEF t, g
    <3>1. e \in Event /\ Appended(t, g, e) BY <2>1, <2>2, RecordsWhatItMade
    <3> QED BY <2>1, <2>2, <3>1
  <2>3. ASSUME NEW type, NEW key, NEW closed, NEW stop, NEW take, NEW priced,
               \E r : Recorded(t, g, r), type # "STOP",
               Record(t, evs, MakeEvent(type, key, before, closed, stop, take, priced))
        PROVE  Goal
    <3> DEFINE e == MakeEvent(type, key, before, closed, stop, take, priced)
    <3>1. e.type = type BY DEF MakeEvent
    <3> HIDE DEF e
    <3>2. StopsOnlyTighter(t, g, e) BY <2>3, <3>1 DEF StopsOnlyTighter
    <3> HIDE DEF t, g, Goal
    <3> QED BY <2>2, <2>3, <3>2 DEF e
  <2>4. CASE OpeningStep(h)
    BY <2>1, <2>4 DEF OpeningStep, OpenCheck, OpenInsert, OpenLedger, Touched
  <2>5. CASE EditingStep(h) BY <2>5 DEF EditingStep, ReadForEdit, EditLevels, EditSupersede
  <2>6. CASE MarketStep(h)
    <3>1. CASE ReachTrigger(h) BY <3>1 DEF ReachTrigger
    <3>2. ASSUME SyncBreakEven(h) PROVE Goal
      <4>1. /\ \E r : Recorded(t, g, r)
            /\ Record(t, evs, MakeEvent("BE_ARM", NoKey, before, 0, g.entry, ActiveTake(evs, g), FALSE))
        BY <3>2, TransactionsRecord DEF SyncBreakEven
      <4> HIDE DEF t, g, evs, before, Goal
      <4> QED BY <2>3, <4>1
    <3> QED BY <2>6, <3>1, <3>2 DEF MarketStep
  <2>7. CASE AcknowledgementStep(h)
    <3>1. ASSUME NEW c \in Commands, AcknowledgeNotExecuted(h, c) PROVE Goal
      BY <2>1, <3>1 DEF AcknowledgeNotExecuted, Touched
    <3>2. CASE RetriedReceipt(h) \/ CompleteAck(h) BY <3>2 DEF RetriedReceipt, CompleteAck
    <3>3. ASSUME NEW c \in Commands, AcknowledgeCancel(h, c) PROVE Goal
      <4>1. /\ \E r : Recorded(t, g, r)
            /\ Record(t, evs, MakeEvent("CANCEL", <<"cancel", c>>, before, 0, ActiveStop(evs, g),
                                        ActiveTake(evs, g), FALSE))
        BY <3>3, TransactionsRecord DEF AcknowledgeCancel
      <4> HIDE DEF t, g, evs, before, Goal
      <4> QED BY <2>3, <4>1
    <3>4. ASSUME NEW c \in Commands, NEW b \in BOOLEAN, AcknowledgeReduction(h, c, b) PROVE Goal
      <4>1. /\ \E r : Recorded(t, g, r)
            /\ \E k : Record(t, evs, MakeEvent("REDUCTION", <<"command", c>>, before, k,
                                               ActiveStop(evs, g), g.take, b))
        BY <3>4, TransactionsRecord DEF AcknowledgeReduction
      <4> HIDE DEF t, g, evs, before, Goal
      <4> QED BY <2>3, <4>1
    <3>5. ASSUME NEW c \in Commands, NEW p \in Prices, AcknowledgeBarrier(h, c, p) PROVE Goal
      <4> DEFINE price == commands[c].price
                 s == MakeEvent("STOP", <<"command", c>>, before, 0, price, ActiveTake(evs, g), TRUE)
      <4>1. \E r : Recorded(t, g, r) BY <3>5, TransactionsRecord
      <4>2. \/ /\ IsTighterStop(g, p, ActiveStop(evs, g), price)
               /\ Record(t, evs, s)
            \/ Record(t, evs, MakeEvent("TAKE", <<"command", c>>, before, 0, ActiveStop(evs, g),
                                        price, TRUE))
        BY <3>5 DEF AcknowledgeBarrier
      <4>3. price \in Nat /\ ActiveStop(evs, g) \in Nat
        BY <2>1, PricesAreNumbers DEF TypeOK, Command
      <4>4. s.stop = price BY DEF MakeEvent
      <4>5. held[h].pc = "read" BY <3>5 DEF AcknowledgeBarrier, MayAcknowledge
      <4> HIDE DEF price, s, evs
      <4>6. IsTighterStop(g, p, ActiveStop(evs, g), price) => StopsOnlyTighter(t, g, s)
        <5> SUFFICES ASSUME IsTighterStop(g, p, ActiveStop(evs, g), price)
                     PROVE  StopsOnlyTighter(t, g, s)
          OBVIOUS
        <5>1. AtLeastAsTight(g, s.stop, ActiveStop(evs, g))
          BY <4>3, <4>4 DEF IsTighterStop, AtLeastAsTight
        <5> QED BY <4>5, <5>1 DEF StopsOnlyTighter, evs
      <4> HIDE DEF t, g, before, Goal
      <4> QED BY <2>2, <2>3, <4>1, <4>2, <4>6
    <3>6. ASSUME NEW c \in Commands, NEW p \in Prices, AcknowledgeArm(h, c, p) PROVE Goal
      <4>1. /\ \E r : Recorded(t, g, r)
            /\ Record(t, evs, MakeEvent("ARM", <<"command", c>>, before, 0, ActiveStop(evs, g),
                                        ActiveTake(evs, g), TRUE))
        BY <3>6, TransactionsRecord DEF AcknowledgeArm
      <4> HIDE DEF t, g, evs, before, Goal
      <4> QED BY <2>3, <4>1
    <3>7. ASSUME NEW c \in Commands, NEW p \in Prices, NEW b \in BOOLEAN,
                 AcknowledgeConditionalFill(h, c, p, b)
          PROVE  Goal
      <4>1. /\ \E r : Recorded(t, g, r)
            /\ \E k : Record(t, evs, MakeEvent("CONDITIONAL_FILL", <<"fill", c>>, before, k,
                                               ActiveStop(evs, g), ActiveTake(evs, g), b))
        BY <3>7, TransactionsRecord DEF AcknowledgeConditionalFill
      <4> HIDE DEF t, g, evs, before, Goal
      <4> QED BY <2>3, <4>1
    <3>8. ASSUME NEW r \in Requests, NEW k \in 1..Unit, ManualFill(h, r, k) PROVE Goal
      <4>1. /\ \E x : Recorded(t, g, x)
            /\ Record(t, evs, MakeEvent("REDUCTION", <<"manual-fill", r>>, before, k,
                                        ActiveStop(evs, g), ActiveTake(evs, g), TRUE))
        BY <3>8, TransactionsRecord DEF ManualFill
      <4> HIDE DEF t, g, evs, before, Goal
      <4> QED BY <2>3, <4>1
    <3> HIDE DEF Goal
    <3> QED BY <2>7, <3>1, <3>2, <3>3, <3>4, <3>5, <3>6, <3>7, <3>8 DEF AcknowledgementStep
  <2>8. CASE Return(h) \/ TouchLedger(h) \/ \E u \in Trades : ReadTrade(h, u)
    BY <2>1, <2>8 DEF Return, TouchLedger, Touched, ReadTrade
  <2>9. ASSUME NEW total \in BOOLEAN, NEW priced \in BOOLEAN, TerminalExit(h, total, priced)
        PROVE  Goal
    <3> DEFINE exit == MakeEvent("MANUAL_EXIT", NoKey, before, before, ActiveStop(evs, g),
                                 g.take, priced)
    <3>1. PICK e : Exited(t, g, e) BY <2>9, TerminalExitWrites
    <3>2. events' = [events EXCEPT ![t] = Append(evs, exit)] BY <2>9 DEF TerminalExit
    <3>3. exit.type = "MANUAL_EXIT" BY DEF MakeEvent
    <3> HIDE DEF t, g, exit
    <3>4. e \in Event /\ e.before \in Nat BY <3>1, UnitIsPositive DEF Exited, Event
    <3>5. e = exit BY <2>1, <3>1, <3>2, <3>4, OneAppend DEF Exited
    <3>6. Appended(t, g, e) BY <3>1, <3>4 DEF Exited, Appended
    <3>7. StopsOnlyTighter(t, g, e) BY <3>3, <3>5 DEF StopsOnlyTighter
    <3> QED BY <2>1, <3>4, <3>6, <3>7
  <2> HIDE DEF Goal
  <2> QED BY <1>3, <2>4, <2>5, <2>6, <2>7, <2>8, <2>9 DEF HandlerStep
<1> HIDE DEF Goal
<1> QED BY <1>1, <1>2, <1>3 DEF Next, Step

LEMMA StopStep ==
  ASSUME TypeOK, [Next]_vars, NEW t \in Trades, ~HoldsOldLevels(t)
  PROVE  AtLeastAsTight(trades[t].geo, ActiveStop(events'[t], trades[t].geo),
                        ActiveStop(events[t], trades[t].geo))
<1> DEFINE levels == trades[t].geo
           active == ActiveStop(events[t], levels)
           Goal == AtLeastAsTight(levels, ActiveStop(events'[t], levels), active)
<1> SUFFICES Goal OBVIOUS
<1>1. levels \in Geometries /\ events \in [Trades -> Seq(Event)] BY DEF TypeOK, Row
<1>2. active \in Nat BY <1>1, ActiveBarriers, PricesAreNumbers
<1>3. ASSUME ActiveStop(events'[t], levels) = active PROVE Goal
  BY <1>2, <1>3 DEF AtLeastAsTight
<1>4. ASSUME NEW u \in Trades, NEW g \in Geometries, Touched(u, g) PROVE Goal
  <2> HIDE DEF levels
  <2>1. CASE u # t BY <1>1, <1>3, <1>4, <2>1 DEF Touched
  <2>2. CASE u = t
    <3>1. events'[t] = Ensured(t, g) BY <1>1, <1>4, <2>2 DEF Touched
    <3> QED BY <1>1, <1>3, <3>1, StopOfOpened
  <2> QED BY <2>1, <2>2
<1>5. ASSUME NEW u \in Trades, NEW g \in Geometries, NEW e \in Event, Appended(u, g, e),
             StopsOnlyTighter(u, g, e)
      PROVE  Goal
  <2>1. CASE u # t
    <3>1. events'[t] = events[t] BY <1>1, <1>5, <2>1 DEF Appended
    <3> QED BY <1>3, <3>1
  <2>2. CASE u = t
    <3> DEFINE evs == Ensured(t, g)
    <3>1. evs \in Seq(Event) BY EnsuredType
    <3>2. events'[t] = Append(evs, e) BY <1>1, <1>5, <2>2 DEF Appended
    <3>3. ActiveStop(evs, levels) = active BY <1>1, StopOfOpened
    <3> HIDE DEF evs, Goal, levels, active
    <3>4. ActiveStop(events'[t], levels) = IF e.type = "STOP" THEN e.stop ELSE active
      BY <1>1, <3>1, <3>2, <3>3, StopAfterAppend
    <3>5. CASE e.type # "STOP" BY <1>3, <3>4, <3>5
    <3>6. CASE e.type = "STOP"
      <4>1. PICK h \in Handlers :
              /\ held[h].pc = "read" /\ held[h].trade = t /\ held[h].row.geo = g
              /\ AtLeastAsTight(g, e.stop, ActiveStop(evs, g))
        BY <1>5, <2>2, <3>6 DEF StopsOnlyTighter, evs
      <4>2. g = levels BY <4>1 DEF HoldsOldLevels, levels
      <4> QED BY <3>3, <3>4, <3>6, <4>1, <4>2 DEF Goal
    <3> QED BY <3>5, <3>6
  <2> QED BY <2>1, <2>2
<1>6. UNCHANGED events => Goal BY <1>3
<1> HIDE DEF Goal
<1> QED BY <1>4, <1>5, <1>6, StopSteps

\* While nobody edits the levels of a trade and no handler holds older ones, no receipt,
\* fill, break-even trigger or exit of any handler widens its active stop.
THEOREM StopsOnlyTighten == Spec => StopNeverLoosens
<1>1. TypeOK /\ [Next]_vars =>
        \A t \in Trades :
          trades'[t].geo = trades[t].geo /\ trades[t].status # "none" /\ ~HoldsOldLevels(t) =>
            AtLeastAsTight(trades[t].geo, ActiveStop(events'[t], trades[t].geo),
                           ActiveStop(events[t], trades[t].geo))
  BY StopStep
<1> QED BY <1>1, TypeCorrect, PTL DEF Spec, StopNeverLoosens
=============================================================================
