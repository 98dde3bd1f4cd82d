------------------------------- MODULE Mirror -------------------------------
(***************************************************************************)
(* What the rows of table device promise of the things they stand for:     *)
(* a row lags behind, and never goes back.  The value of a thing, and of   *)
(* its row, is the number of times the thing changed.                      *)
(***************************************************************************)
EXTENDS Naturals

CONSTANT Thing
VARIABLES thing, copy
vars == <<thing, copy>>

Init == thing = [t \in Thing |-> 0] /\ copy = thing

Change(t) == thing' = [thing EXCEPT ![t] = @ + 1] /\ UNCHANGED copy

\* Any number of rows catch up, some of them or all the way.
Copy ==
  /\ copy' \in [Thing -> Nat]
  /\ \A t \in Thing : copy[t] <= copy'[t] /\ copy'[t] <= thing[t]
  /\ UNCHANGED thing

Next == Copy \/ \E t \in Thing : Change(t)
Spec == Init /\ [][Next]_vars
=============================================================================
