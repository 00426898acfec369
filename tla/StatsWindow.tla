----------------------------- MODULE StatsWindow -----------------------------
(***************************************************************************)
(* What statsQueue promises: the last requests, at most Capacity of them,  *)
(* since it was last cleared, in the order they were inserted, and the sum *)
(* of their sizes.                                                         *)
(***************************************************************************)
EXTENDS Naturals, Sequences

CONSTANTS Capacity, Request

VARIABLES window, total

Sum(w) ==
  LET upTo[i \in 0..Len(w)] == IF i = 0 THEN 0 ELSE upTo[i - 1] + w[i].size
  IN  upTo[Len(w)]

Insert(p) ==
  LET longer == Append(window, p)
  IN window' = IF Len(longer) > Capacity THEN Tail(longer) ELSE longer

Clear == window' = <<>>

Init == window = <<>> /\ total = 0

Next == (Clear \/ \E p \in Request : Insert(p)) /\ total' = Sum(window')

Spec == Init /\ [][Next]_<<window, total>>
=============================================================================
