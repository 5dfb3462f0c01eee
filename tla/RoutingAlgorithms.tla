------------------------- MODULE RoutingAlgorithms -------------------------
(***************************************************************************)
(* The two pure picks of routing/algorithms.ts.  A user id is a positive   *)
(* number, so that < is the localeCompare order both algorithms sort by;   *)
(* 0 stands for the null cursor, below every id.                           *)
(***************************************************************************)
EXTENDS Naturals, FiniteSetsExt

NoUser == 0

(* Mutant: the cursor's own user counts as the next.                       *)
PickFromCursor(candidates, cursor) ==
  LET rest == {u \in candidates : u >= cursor}
  IN  Min(IF rest = {} THEN candidates ELSE rest)

(* The next candidate after the cursor in id order, wrapping to the first. *)
PickRoundRobin(candidates, cursor) ==
  LET above == {u \in candidates : u > cursor}
  IN  Min(IF above = {} THEN candidates ELSE above)

(* The candidate with the fewest open assignments, ties broken by id.      *)
PickLeastLoaded(candidates, open) ==
  Min({u \in candidates : \A v \in candidates : open[u] <= open[v]})
=============================================================================
