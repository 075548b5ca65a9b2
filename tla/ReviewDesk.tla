----------------------------- MODULE ReviewDesk -----------------------------
(* What publishing a review promises to whoever reads the tables: there is *)
(* a desk that holds at most one command, a review puts its verdict on     *)
(* record together with the command it leaves there, and the next one      *)
(* waits until the desk is empty.  A process that dies may leave a command *)
(* without its verdict, and never a second one.  What was recorded counts  *)
(* as recorded here even if an edit of the levels deletes its rows later.  *)
EXTENDS Naturals

CONSTANT MaxReviews

VARIABLES desk, recorded

Reviews == 1..MaxReviews

Init == desk = {} /\ recorded \in {{}, {1}}

Publish(r) ==
  /\ desk = {} /\ r \notin recorded
  /\ recorded' = recorded \cup {r}
  /\ desk' \in {{}, {r}}

\* The publication dies after its command is stored and before its verdict is.
Strand(r) ==
  /\ desk = {} /\ r \notin recorded
  /\ desk' = {r} /\ UNCHANGED recorded

\* The user reports its fate; a stop also leaves when something newer supersedes it.
Clear == desk # {} /\ desk' = {} /\ UNCHANGED recorded

Next == Clear \/ \E r \in Reviews : Publish(r) \/ Strand(r)

Spec == Init /\ [][Next]_<<desk, recorded>>
=============================================================================
