-------------------------- MODULE MCStatusRouting --------------------------
(* Bounded instances of StatusRouting for TLC. *)
EXTENDS StatusRouting, TLC

CONSTANTS p1, p2, routed, other, x1, x2, m1

(* User 2 holds an instance and has left the user pool with the cursor.    *)
OneHeld == (p1 :> 2) @@ (p2 :> NoUser)
OneInstance == p1 :> 2

UserPool == [active |-> TRUE, team |-> FALSE, users |-> {1, 3}, cursor |-> 2]
TeamPool == [active |-> TRUE, team |-> TRUE, users |-> {}, cursor |-> NoUser]
NoRuleYet == [active |-> FALSE, team |-> FALSE, users |-> {}, cursor |-> NoUser]

UserRule == (routed :> UserPool) @@ (other :> NoRuleYet)
TwoRules == (routed :> UserPool) @@ (other :> TeamPool)
TeamOfTwo == [active |-> TRUE, members |-> {1, 2}]

MCSymmetry == Permutations({x1, x2})
=============================================================================
