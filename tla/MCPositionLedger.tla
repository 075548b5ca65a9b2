-------------------------- MODULE MCPositionLedger --------------------------
(* Small instances of PositionLedger for TLC. *)
EXTENDS PositionLedger, TLC

\* Sound for invariants and action properties: no definition chooses a handler.
HandlerSymmetry == Permutations(Handlers)

Levels(long, entry, stop, take) == [long |-> long, entry |-> entry, stop |-> stop, take |-> take]

\* A long and a short trade, and the short one with its take moved by the user.
Long == Levels(TRUE, 3, 1, 4)
Short == Levels(FALSE, 3, 4, 2)
ShortEdited == Levels(FALSE, 3, 4, 1)

LongOnly == {Long}
ShortAndEdited == {Short, ShortEdited}
=============================================================================
