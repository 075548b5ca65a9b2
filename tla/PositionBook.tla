---------------------------- MODULE PositionBook ----------------------------
(***************************************************************************)
(* What position_management_events promises to the rest of the program:    *)
(* the exposure of a trade starts whole, each confirmed receipt takes part *)
(* of it once, an exit takes the rest, and nothing gives any of it back.   *)
(***************************************************************************)
EXTENDS Integers

CONSTANTS Trades, Receipts, Unit

VARIABLES
  exposure,     \* trade -> what is left of it, in parts of 1/Unit
  confirmed     \* receipts that have taken effect

bookVars == <<exposure, confirmed>>

Init ==
  /\ exposure = [t \in Trades |-> Unit]
  /\ confirmed = {}

\* A broker confirmed receipt r on trade t, which closed k.
Confirm(t, r, k) ==
  /\ r \notin confirmed
  /\ k \in 0..exposure[t]
  /\ exposure' = [exposure EXCEPT ![t] = @ - k]
  /\ confirmed' = confirmed \cup {r}

\* The user closed what was left of t.
Exit(t) ==
  /\ exposure[t] > 0
  /\ exposure' = [exposure EXCEPT ![t] = 0]
  /\ UNCHANGED confirmed

Next == \E t \in Trades : Exit(t) \/ \E r \in Receipts, k \in 0..Unit : Confirm(t, r, k)

Spec == Init /\ [][Next]_bookVars
=============================================================================
