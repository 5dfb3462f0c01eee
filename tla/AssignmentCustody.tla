-------------------------- MODULE AssignmentCustody --------------------------
(***************************************************************************)
(* What routing and reassignment promise about who holds an instance: one   *)
(* user at a time, replaced in one step that the instance's activities tell *)
(* as it happened.  Nothing is said of locks, rules, cursors or requests.   *)
(***************************************************************************)
EXTENDS Sequences

CONSTANTS User, Instance, FirstHolder, NoUser

VARIABLES
  holder,   \* NoUser until the first assignment
  told      \* the 'reassignment' activities, in order

custody == <<holder, told>>

HandOver(p, u) ==
  /\ holder' = [holder EXCEPT ![p] = u]
  /\ told' = [told EXCEPT ![p] = Append(@, [old |-> holder[p], new |-> u])]

Begin ==
  /\ holder = FirstHolder
  /\ told = [p \in Instance |->
       IF FirstHolder[p] = NoUser THEN <<>>
       ELSE <<[old |-> NoUser, new |-> FirstHolder[p]]>>]

Step == \E p \in Instance, u \in User : HandOver(p, u)

Custody == Begin /\ [][Step]_custody
=============================================================================
