----------------------- MODULE JourneyStatuses_proofs -----------------------
(***************************************************************************)
(* Two things about the statuses of a journey, for any statuses, instances, *)
(* rules, users and requests.  The default is the status that was chosen    *)
(* last unless that request was overtaken: whatever the defaults were, it   *)
(* unsets those it read.  And round robin goes round as long as retirements *)
(* move one instance at a time.                                             *)
(***************************************************************************)
EXTENDS JourneyStatuses, FiniteSetTheorems, WellFoundedInduction, TLAPS

(* What a request is about to set is none of what it is about to unset.     *)
Apart(x) ==
  session[x].at # "idle" =>
    session[x].to \in Status /\ session[x].to \notin session[x].siblings

ChoiceInv ==
  /\ DOMAIN session = Session
  /\ live \subseteq Status
  /\ LastChoiceStands
  /\ \A x \in SetDefault : Apart(x)

LEMMA SameDefaults ==
  ASSUME ChoiceInv, UNCHANGED defaults, DOMAIN session' = Session, live' \subseteq live,
         \A x \in SetDefault : session'[x] = session[x] \/ session'[x].at = "idle"
  PROVE  ChoiceInv'
<1>1. LastChoiceStands'
  BY DEF ChoiceInv, LastChoiceStands, defaults
<1> QED
  BY <1>1 DEF ChoiceInv, Apart

(* A step of a session of another kind. *)
LEMMA OthersLeaveDefaults ==
  ASSUME ChoiceInv, NEW y \in Session \ SetDefault, UNCHANGED defaults, live' \subseteq live,
         NEW s, session' = [session EXCEPT ![y] = s]
  PROVE  ChoiceInv'
<1>1. DOMAIN session' = Session
  BY DEF ChoiceInv
<1>2. \A x \in SetDefault : session'[x] = session[x]
  BY DEF ChoiceInv, Session
<1> QED
  BY <1>1, <1>2, SameDefaults

(* A step of a request that sets the default, other than its commit.        *)
LEMMA SetterLeavesDefaults ==
  ASSUME ChoiceInv, NEW x \in SetDefault, UNCHANGED <<defaults, live>>,
         NEW s, session' = [session EXCEPT ![x] = s],
         s.to \in Status, s.to \notin s.siblings
  PROVE  ChoiceInv'
<1>1. DOMAIN session' = Session /\ session'[x] = s
  BY DEF ChoiceInv, Session
<1>2. LastChoiceStands'
  BY DEF ChoiceInv, LastChoiceStands, defaults
<1>3. \A y \in SetDefault : Apart(y)'
  BY <1>1 DEF ChoiceInv, Apart
<1> QED
  BY <1>1, <1>2, <1>3 DEF ChoiceInv

LEMMA StepKeepsChoice ==
  ASSUME ChoiceInv, [Next]_vars
  PROVE  ChoiceInv'
<1> USE DEF Goes, Begin
<1>1. ASSUME NEW x \in Retire, ListInstances(x) \/ Retiring(x) PROVE ChoiceInv'
  <2>1. x \in Session \ SetDefault
    BY SessionAssumption DEF Session
  <2>2. UNCHANGED defaults /\ live' \subseteq live
    BY <1>1 DEF ListInstances, Retiring, CheckReplacement, MatchRows, MoveRows, ReadRule, Assign,
                Deactivate, CommitRetire
  <2>3. \E s : session' = [session EXCEPT ![x] = s]
    BY <1>1 DEF ListInstances, Retiring, CheckReplacement, MatchRows, MoveRows, ReadRule, Assign,
                Deactivate, CommitRetire
  <2> QED
    BY <2>1, <2>2, <2>3, OthersLeaveDefaults
<1>2. ASSUME NEW x \in Change, ReadTarget(x) \/ Changing(x) PROVE ChoiceInv'
  <2>1. x \in Session \ SetDefault
    BY SessionAssumption DEF Session
  <2>2. UNCHANGED <<defaults, live>>
    BY <1>2 DEF ReadTarget, Changing, WriteRow, CommitChange
  <2>3. \E s : session' = [session EXCEPT ![x] = s]
    BY <1>2 DEF ReadTarget, Changing, WriteRow, CommitChange
  <2> QED
    BY <2>1, <2>2, <2>3, OthersLeaveDefaults
<1>3. ASSUME NEW x \in SetDefault, ReadDefaults(x) PROVE ChoiceInv'
  <2>1. PICK s \in live :
          Begin(x, [Idle EXCEPT !.at = "unset", !.to = s, !.siblings = default \ {s},
                                !.already = (s \in default)])
    BY <1>3 DEF ReadDefaults
  <2> DEFINE is == s \in default
             t == [Idle EXCEPT !.at = "unset", !.to = s, !.siblings = default \ {s}, !.already = is]
  <2>2. t.to \in Status /\ t.to \notin t.siblings
    <3> HIDE DEF is
    <3> QED
      BY DEF Idle, ChoiceInv
  <2>3. session' = [session EXCEPT ![x] = t] /\ UNCHANGED <<defaults, live>>
    BY <2>1
  <2> HIDE DEF t
  <2> QED
    BY <2>2, <2>3, SetterLeavesDefaults
<1>4. ASSUME NEW x \in SetDefault, UnsetSiblings(x) \/ SetStatus(x) PROVE ChoiceInv'
  <2>1. PICK at : /\ session' = [session EXCEPT ![x] = [session[x] EXCEPT !.at = at]]
                  /\ UNCHANGED <<defaults, live>> /\ session[x].at # "idle"
    BY <1>4 DEF UnsetSiblings, SetStatus
  <2> DEFINE t == [session[x] EXCEPT !.at = at]
  <2>2. t.to = session[x].to /\ t.siblings = session[x].siblings
    OBVIOUS
  <2>3. t.to \in Status /\ t.to \notin t.siblings
    BY <2>1, <2>2 DEF ChoiceInv, Apart
  <2>4. session' = [session EXCEPT ![x] = t] /\ UNCHANGED <<defaults, live>>
    BY <2>1
  <2> HIDE DEF t
  <2> QED
    BY <2>3, <2>4, SetterLeavesDefaults
<1>5. ASSUME NEW x \in SetDefault, CommitDefault(x) PROVE ChoiceInv'
  <2> DEFINE t == session[x]
  <2>1. t.to \in Status /\ t.to \notin t.siblings
    BY <1>5 DEF CommitDefault, ChoiceInv, Apart
  <2>2. LastChoiceStands'
    <3>1. chosen' = t.to /\ t.to # NoStatus
      BY <1>5, <2>1, NullAssumption DEF CommitDefault
    <3>2. CASE default # ReadAs(t)
      BY <1>5, <3>2 DEF CommitDefault, LastChoiceStands
    <3>3. CASE default = ReadAs(t)
      <4>1. default' = {t.to}
        BY <1>5, <2>1, <3>3 DEF CommitDefault, ReadAs
      <4> QED
        BY <3>1, <4>1 DEF LastChoiceStands
    <3> QED
      BY <3>2, <3>3
  <2>3. DOMAIN session' = Session /\ UNCHANGED live
        /\ \A y \in SetDefault : session'[y] = session[y] \/ session'[y].at = "idle"
    BY <1>5 DEF CommitDefault, ChoiceInv, Session, Idle
  <2> QED
    BY <2>2, <2>3 DEF ChoiceInv, Apart
<1>6. ASSUME NEW x \in Session, Fail(x) PROVE ChoiceInv'
  <2>1. DOMAIN session' = Session /\ UNCHANGED <<defaults, live>>
    BY <1>6 DEF Fail, ChoiceInv
  <2>2. \A y \in SetDefault : session'[y] = session[y] \/ session'[y].at = "idle"
    BY <1>6 DEF Fail, ChoiceInv, Session, Idle
  <2> QED
    BY <2>1, <2>2, SameDefaults
<1>7. CASE UNCHANGED vars
  BY <1>7, SameDefaults DEF vars, ChoiceInv
<1> QED
  BY <1>1, <1>2, <1>3, <1>4, <1>5, <1>6, <1>7 DEF Next, Setting

(* However many requests set the default at once: it is the status that the *)
(* last of them chose, and no other, unless the defaults had changed since  *)
(* that one read them.  Retirements and status changes never disturb it,    *)
(* and a request that nothing overtakes mends what others left.             *)
THEOREM LastChoiceAlwaysStands == Spec => []LastChoiceStands
<1>1. Init => ChoiceInv
  BY DEF Init, ChoiceInv, LastChoiceStands, Apart, Idle, Session
<1>2. ChoiceInv /\ [Next]_vars => ChoiceInv'
  BY StepKeepsChoice
<1>3. ChoiceInv => LastChoiceStands
  BY DEF ChoiceInv
<1> QED
  BY <1>1, <1>2, <1>3, PTL DEF Spec

-----------------------------------------------------------------------------
(* Turns.                                                                   *)

(* Round robin takes a minimum: there is one.                               *)
LEMMA MinOfNaturals ==
  ASSUME NEW S \in SUBSET Nat, S # {}
  PROVE  Min(S) \in S /\ \A y \in S : Min(S) <= y
<1> DEFINE R == OpToRel(<, Nat)
<1>1. \A a, b \in Nat : a < b => <<a, b>> \in R
  BY DEF OpToRel
<1>2. IsWellFoundedOn(R, Nat)
  BY NatLessThanWellFounded
<1> HIDE DEF R
<1>3. PICK x \in S : \A y \in S : ~ (<<y, x>> \in R)
  BY <1>2, WFMin
<1>4. \A y \in S : ~ (y < x)
  BY <1>1, <1>3, Zenon
<1>5. \A y \in S : x <= y
  BY <1>4
<1> QED
  BY <1>5 DEF Min

LEMMA RoundRobinGoesOn ==
  ASSUME NEW C \in SUBSET Nat, C # {}, NEW at \in Nat
  PROVE  LET next == PickRoundRobin(C, at)
         IN  /\ next \in C
             /\ \/ at < next /\ \A u \in C : u <= at \/ next <= u
                \/ \A u \in C : u <= at /\ next <= u
<1> DEFINE above == {u \in C : u > at}
<1>1. above \in SUBSET Nat
  OBVIOUS
<1>2. CASE above = {}
  <2>1. \A u \in C : u <= at
    BY <1>2
  <2> QED
    BY <1>2, <2>1, MinOfNaturals DEF PickRoundRobin
<1>3. CASE above # {}
  <2>1. Min(above) \in above /\ \A u \in above : Min(above) <= u
    <3> HIDE DEF above
    <3> QED
      BY <1>1, <1>3, MinOfNaturals
  <2>2. \A u \in C : u <= at \/ u \in above
    OBVIOUS
  <2>3. PickRoundRobin(C, at) = Min(above)
    BY <1>3 DEF PickRoundRobin
  <2> QED
    BY <2>1, <2>2, <2>3
<1> QED
  BY <1>2, <1>3

(* Cursors start before every user: in the round under way those up to the  *)
(* cursor have had their turn.                                              *)
Rounds(at, taken) ==
  \E k \in Nat : \A u \in User : taken[u] = IF u <= at THEN k + 1 ELSE k

LEMMA NextTurn ==
  ASSUME NEW at \in Nat, NEW taken, Rounds(at, taken), NEW after,
         \A u \in User : after[u] = taken[u] + IF u = PickRoundRobin(User, at) THEN 1 ELSE 0
  PROVE  Rounds(PickRoundRobin(User, at), after)
<1> DEFINE next == PickRoundRobin(User, at)
<1>1. PICK k \in Nat : \A u \in User : taken[u] = IF u <= at THEN k + 1 ELSE k
  BY DEF Rounds
<1>2. User \in SUBSET Nat /\ User # {}
  BY UserAssumption
<1>3. /\ next \in User
      /\ \/ at < next /\ \A u \in User : u <= at \/ next <= u
         \/ \A u \in User : u <= at /\ next <= u
  BY <1>2, RoundRobinGoesOn
<1>4. \A u \in User : after[u] = taken[u] + IF u = next THEN 1 ELSE 0
  OBVIOUS
<1> HIDE DEF next
<1>5. CASE at < next
  <2>1. \A u \in User : u <= next <=> u <= at \/ u = next
    BY <1>2, <1>3, <1>5
  <2>2. \A u \in User : after[u] = IF u <= next THEN k + 1 ELSE k
    BY <1>1, <1>2, <1>3, <1>4, <1>5, <2>1
  <2> QED
    BY <2>2 DEF Rounds, next
<1>6. CASE ~ (at < next)
  <2>1. \A u \in User : u <= at /\ (u <= next <=> u = next)
    BY <1>2, <1>3, <1>6
  <2>2. \A u \in User : after[u] = IF u <= next THEN (k + 1) + 1 ELSE k + 1
    BY <1>1, <1>2, <1>4, <2>1
  <2> QED
    BY <2>2 DEF Rounds, next
<1> QED
  BY <1>5, <1>6

(* A setDefaultStatus names a status. *)
Named == \A x \in SetDefault : session[x].at # "idle" => session[x].to \in Status

ShapeInv == TypeOK /\ Named

LEMMA PicksAUser ==
  ASSUME NEW at
  PROVE  PickRoundRobin(User, at) \in User
<1> DEFINE above == {u \in User : u > at}
<1>1. User \in SUBSET Nat /\ User # {} /\ above \in SUBSET Nat
  BY UserAssumption
<1>2. CASE above = {}
  BY <1>1, <1>2, MinOfNaturals DEF PickRoundRobin
<1>3. CASE above # {}
  <2>1. Min(above) \in above
    BY <1>1, <1>3, MinOfNaturals
  <2> QED
    BY <1>3, <2>1 DEF PickRoundRobin
<1> QED
  BY <1>2, <1>3

LEMMA IdleTyped == Idle \in Locals /\ Idle.at = "idle"
  BY DEF Idle, Locals, At, NoUser

(* A step that only its session can observe so far. *)
LEMMA OwnStep ==
  ASSUME ShapeInv, NEW x \in Session, NEW t \in Locals, session' = [session EXCEPT ![x] = t],
         UNCHANGED <<live, defaults, status, told, rules>>, requests' \in 0 .. MaxRequest,
         x \in SetDefault /\ t.at # "idle" => t.to \in Status
  PROVE  ShapeInv'
<1>1. TypeOK'
  BY DEF ShapeInv, TypeOK, rules, defaults
<1>2. Named'
  BY DEF ShapeInv, TypeOK, Named, Session
<1> QED
  BY <1>1, <1>2 DEF ShapeInv

(* A commit: what becomes visible has its type.                             *)
LEMMA CommitStep ==
  ASSUME ShapeInv, NEW x \in Session, session' = [session EXCEPT ![x] = Idle],
         UNCHANGED requests, live' \subseteq Status, default' \subseteq Status,
         status' \in [Instance -> Status \cup {NoStatus}],
         told' \in [Instance -> Status \cup {NoStatus}],
         cursor' \in [Ruled -> User \cup {NoUser}], turns' \in [Ruled -> [User -> Nat]],
         bulk' \in BOOLEAN, chosen' \in Status \cup {NoStatus}, overtaken' \in BOOLEAN
  PROVE  ShapeInv'
<1>1. TypeOK'
  BY IdleTyped DEF ShapeInv, TypeOK
<1>2. Named'
  BY IdleTyped DEF ShapeInv, TypeOK, Named, Session
<1> QED
  BY <1>1, <1>2 DEF ShapeInv

LEMMA RetireShaped ==
  ASSUME ShapeInv, NEW x \in Retire, ListInstances(x) \/ Retiring(x)
  PROVE  ShapeInv'
<1>1. x \in Session /\ x \notin SetDefault /\ session[x] \in Locals /\ requests \in 0 .. MaxRequest
  BY SessionAssumption DEF Session, ShapeInv, TypeOK
<1>2. ASSUME NEW t \in Locals, Goes(x, t) PROVE ShapeInv'
  BY <1>1, <1>2, OwnStep DEF Goes
<1>3. CASE ListInstances(x)
  <2>1. PICK s \in Status, r \in Status \cup {NoStatus} :
          LET found == {p \in Instance : status[p] = s}
          IN  Begin(x, [Idle EXCEPT !.at = IF r = NoStatus THEN "deactivate" ELSE "replacement",
                                    !.from = s, !.to = r, !.listed = found])
    BY <1>3 DEF ListInstances
  <2> DEFINE found == {p \in Instance : status[p] = s}
             where == IF r = NoStatus THEN "deactivate" ELSE "replacement"
             t == [Idle EXCEPT !.at = where, !.from = s, !.to = r, !.listed = found]
  <2>2. t \in Locals
    <3>1. found \in SUBSET Instance /\ where \in At
      BY DEF At
    <3> HIDE DEF found, where
    <3> QED
      BY <3>1, IdleTyped DEF Locals
  <2>3. Begin(x, t)
    BY <2>1
  <2>4. requests' \in 0 .. MaxRequest
    BY <1>1, <2>3, BoundAssumption DEF Begin
  <2> HIDE DEF t
  <2> QED
    BY <1>1, <2>2, <2>3, <2>4, OwnStep DEF Begin
<1>4. CASE CheckReplacement(x)
  <2>1. [session[x] EXCEPT !.at = "match"] \in Locals
    BY <1>1 DEF Locals, At
  <2> QED
    BY <1>2, <1>4, <2>1, IdleTyped DEF CheckReplacement
<1>5. CASE MatchRows(x)
  <2> DEFINE rows == {p \in Instance : status[p] = session[x].from}
             t == [session[x] EXCEPT !.at = "move", !.matched = rows]
  <2>1. rows \in SUBSET Instance
    OBVIOUS
  <2>2. Goes(x, t)
    BY <1>5 DEF MatchRows
  <2> HIDE DEF rows
  <2>3. t \in Locals
    BY <1>1, <2>1 DEF Locals, At
  <2> QED
    BY <1>2, <2>2, <2>3
<1>6. CASE MoveRows(x)
  <2> DEFINE rows == {p \in session[x].matched : status[p] = session[x].from}
             where == IF session[x].listed # {} /\ session[x].to \in Ruled
                      THEN "fan" ELSE "deactivate"
             t == [session[x] EXCEPT !.at = where, !.moved = rows]
  <2>1. rows \in SUBSET Instance /\ where \in At
    BY <1>1 DEF Locals, At
  <2>2. Goes(x, t)
    BY <1>6 DEF MoveRows
  <2> HIDE DEF rows, where
  <2>3. t \in Locals
    BY <1>1, <2>1 DEF Locals
  <2> QED
    BY <1>2, <2>2, <2>3
<1>7. ASSUME NEW p \in Instance, ReadRule(x, p) PROVE ShapeInv'
  <2> DEFINE seen == IF session[x].done = {} THEN cursor[session[x].to] ELSE session[x].cursor
             u == PickRoundRobin(User, seen)
             pick == [session[x].pick EXCEPT ![p] = u]
             t == [session[x] EXCEPT !.pick = pick]
  <2>1. Goes(x, t)
    BY <1>7 DEF ReadRule
  <2>2. u \in User
    BY PicksAUser
  <2> HIDE DEF u
  <2>3. pick \in [Instance -> User \cup {NoUser}]
    BY <1>1, <2>2 DEF Locals
  <2> HIDE DEF pick
  <2>4. t \in Locals
    BY <1>1, <2>3 DEF Locals
  <2> QED
    BY <1>2, <2>1, <2>4
<1>8. ASSUME NEW p \in Instance, Assign(x, p) PROVE ShapeInv'
  <2> DEFINE u == session[x].pick[p]
             done == session[x].done \cup {p}
             taken == [session[x].turns EXCEPT ![u] = session[x].turns[u] + 1]
             where == IF session[x].listed = done THEN "deactivate" ELSE session[x].at
             t == [session[x] EXCEPT !.done = done, !.cursor = u, !.turns = taken, !.at = where]
  <2>1. Goes(x, t) /\ u # NoUser
    BY <1>8 DEF Assign
  <2>2. u \in User
    BY <1>1, <2>1 DEF Locals
  <2> HIDE DEF u
  <2>3. done \in SUBSET Instance /\ taken \in [User -> Nat] /\ where \in At
    BY <1>1, <2>2 DEF Locals, At
  <2> HIDE DEF done, taken, where
  <2>4. t \in Locals
    BY <1>1, <2>2, <2>3 DEF Locals
  <2> QED
    BY <1>2, <2>1, <2>4
<1>9. CASE Deactivate(x)
  <2>1. [session[x] EXCEPT !.at = "commit"] \in Locals
    BY <1>1 DEF Locals, At
  <2> QED
    BY <1>2, <1>9, <2>1, IdleTyped DEF Deactivate
<1>10. CASE CommitRetire(x)
  <2> DEFINE t == session[x]
  <2>1. t.to \in Status \cup {NoStatus} /\ t.turns \in [User -> Nat] /\ t.cursor \in User \cup {NoUser}
    BY <1>1 DEF Locals
  <2>2. /\ live' \subseteq Status /\ default' \subseteq Status
        /\ chosen' \in Status \cup {NoStatus} /\ overtaken' \in BOOLEAN
    BY <1>10 DEF CommitRetire, ShapeInv, TypeOK, defaults
  <2>3. status' \in [Instance -> Status \cup {NoStatus}]
    BY <1>10, <2>1 DEF CommitRetire, SeenIn, ShapeInv, TypeOK
  <2>4. told' \in [Instance -> Status \cup {NoStatus}]
    BY <1>10, <2>1 DEF CommitRetire, ShapeInv, TypeOK
  <2>5. cursor' \in [Ruled -> User \cup {NoUser}]
    BY <1>10, <2>1 DEF CommitRetire, ShapeInv, TypeOK
  <2>6. turns' \in [Ruled -> [User -> Nat]]
    <3>1. CASE turns' = turns
      BY <3>1 DEF ShapeInv, TypeOK
    <3>2. CASE t.to \in Ruled /\
               turns' = [turns EXCEPT ![t.to] = [u \in User |-> turns[t.to][u] + t.turns[u]]]
      <4>1. [u \in User |-> turns[t.to][u] + t.turns[u]] \in [User -> Nat]
        BY <2>1, <3>2 DEF ShapeInv, TypeOK
      <4> QED
        BY <3>2, <4>1 DEF ShapeInv, TypeOK
    <3>3. CASE t.to \notin Ruled
      BY <1>10, <3>3 DEF CommitRetire, ShapeInv, TypeOK
    <3> QED
      BY <1>10, <3>1, <3>2, <3>3 DEF CommitRetire
  <2>7. bulk' \in BOOLEAN /\ requests' = requests /\ session' = [session EXCEPT ![x] = Idle]
    BY <1>10 DEF CommitRetire, ShapeInv, TypeOK
  <2> QED
    BY <1>1, <2>2, <2>3, <2>4, <2>5, <2>6, <2>7, CommitStep
<1> QED
  BY <1>3, <1>4, <1>5, <1>6, <1>7, <1>8, <1>9, <1>10 DEF Retiring

LEMMA SettingShaped ==
  ASSUME ShapeInv, NEW x \in SetDefault, ReadDefaults(x) \/ Setting(x)
  PROVE  ShapeInv'
<1>1. /\ x \in Session /\ session[x] \in Locals /\ requests \in 0 .. MaxRequest
      /\ session[x].at # "idle" => session[x].to \in Status
  BY DEF Session, ShapeInv, TypeOK, Named
<1>2. CASE ReadDefaults(x)
  <2>1. PICK s \in live :
          Begin(x, [Idle EXCEPT !.at = "unset", !.to = s, !.siblings = default \ {s},
                                !.already = (s \in default)])
    BY <1>2 DEF ReadDefaults
  <2> DEFINE rest == default \ {s}
             is == s \in default
             t == [Idle EXCEPT !.at = "unset", !.to = s, !.siblings = rest, !.already = is]
  <2>2. rest \in SUBSET Status /\ is \in BOOLEAN /\ s \in Status
    BY DEF ShapeInv, TypeOK
  <2>3. Begin(x, t)
    BY <2>1
  <2> HIDE DEF rest, is
  <2>4. t \in Locals /\ t.to \in Status
    BY <2>2, IdleTyped DEF Locals, At
  <2>5. requests' \in 0 .. MaxRequest
    BY <1>1, <2>3, BoundAssumption DEF Begin
  <2> HIDE DEF t
  <2> QED
    BY <1>1, <2>3, <2>4, <2>5, OwnStep DEF Begin
<1>3. CASE UnsetSiblings(x) \/ SetStatus(x)
  <2>1. PICK a \in {"set", "commit"} : Goes(x, [session[x] EXCEPT !.at = a])
    BY <1>3 DEF UnsetSiblings, SetStatus
  <2>2. session[x].at # "idle"
    BY <1>3 DEF UnsetSiblings, SetStatus
  <2> DEFINE t == [session[x] EXCEPT !.at = a]
  <2>3. t \in Locals /\ t.to \in Status
    BY <1>1, <2>2 DEF Locals, At
  <2> HIDE DEF t
  <2> QED
    BY <1>1, <2>1, <2>3, OwnStep DEF Goes, t
<1>4. CASE CommitDefault(x)
  <2>1. default' \subseteq Status
    BY <1>1, <1>4 DEF CommitDefault, ShapeInv, TypeOK
  <2>2. chosen' \in Status \cup {NoStatus} /\ overtaken' \in BOOLEAN
    BY <1>1, <1>4 DEF CommitDefault
  <2> QED
    BY <1>1, <1>4, <2>1, <2>2, CommitStep DEF CommitDefault, ShapeInv, TypeOK, rules
<1> QED
  BY <1>2, <1>3, <1>4 DEF Setting

LEMMA ChangeShaped ==
  ASSUME ShapeInv, NEW x \in Change, ReadTarget(x) \/ Changing(x)
  PROVE  ShapeInv'
<1>1. x \in Session /\ x \notin SetDefault /\ session[x] \in Locals /\ requests \in 0 .. MaxRequest
  BY SessionAssumption DEF Session, ShapeInv, TypeOK
<1>2. CASE ReadTarget(x)
  <2>1. PICK p \in Instance, s \in live :
          Begin(x, [Idle EXCEPT !.at = "update", !.pi = p, !.from = status[p], !.to = s])
    BY <1>2 DEF ReadTarget
  <2> DEFINE f == status[p]
             t == [Idle EXCEPT !.at = "update", !.pi = p, !.from = f, !.to = s]
  <2>2. f \in Status \cup {NoStatus} /\ s \in Status
    BY DEF ShapeInv, TypeOK
  <2>3. Begin(x, t)
    BY <2>1
  <2> HIDE DEF f
  <2>4. t \in Locals
    BY <2>2, IdleTyped DEF Locals, At
  <2>5. requests' \in 0 .. MaxRequest
    BY <1>1, <2>3, BoundAssumption DEF Begin
  <2> HIDE DEF t
  <2> QED
    BY <1>1, <2>3, <2>4, <2>5, OwnStep DEF Begin
<1>3. CASE WriteRow(x)
  <2>1. [session[x] EXCEPT !.at = "commit"] \in Locals
    BY <1>1 DEF Locals, At
  <2>2. PICK t \in Locals : Goes(x, t)
    BY <1>3, <2>1, IdleTyped DEF WriteRow
  <2> QED
    BY <1>1, <2>2, OwnStep DEF Goes
<1>4. CASE CommitChange(x)
  <2> DEFINE t == session[x]
             u == PickRoundRobin(User, cursor[t.to])
  <2>1. t.to \in Status \cup {NoStatus}
    BY <1>1 DEF Locals
  <2>2. /\ status' \in [Instance -> Status \cup {NoStatus}]
        /\ told' \in [Instance -> Status \cup {NoStatus}]
    BY <1>4, <2>1 DEF CommitChange, ShapeInv, TypeOK
  <2>3. cursor' \in [Ruled -> User \cup {NoUser}] /\ turns' \in [Ruled -> [User -> Nat]]
    <3>1. CASE UNCHANGED <<cursor, turns>>
      BY <3>1 DEF ShapeInv, TypeOK
    <3>2. CASE /\ t.to \in Ruled
               /\ cursor' = [cursor EXCEPT ![t.to] = u]
               /\ turns' = [turns EXCEPT ![t.to][u] = turns[t.to][u] + 1]
      <4>1. u \in User
        BY PicksAUser
      <4> HIDE DEF u
      <4> QED
        BY <3>2, <4>1 DEF ShapeInv, TypeOK
    <3> QED
      BY <1>4, <3>1, <3>2 DEF CommitChange
  <2>4. /\ live' \subseteq Status /\ default' \subseteq Status /\ bulk' \in BOOLEAN
        /\ chosen' \in Status \cup {NoStatus} /\ overtaken' \in BOOLEAN
    BY <1>4 DEF CommitChange, ShapeInv, TypeOK, defaults
  <2> QED
    BY <1>1, <1>4, <2>2, <2>3, <2>4, CommitStep DEF CommitChange
<1> QED
  BY <1>2, <1>3, <1>4 DEF Changing

LEMMA ShapeStart == Init => ShapeInv
<1> SUFFICES ASSUME Init PROVE ShapeInv
  OBVIOUS
<1>1. TypeOK
  <2>1. chosen \in Status \cup {NoStatus} /\ overtaken \in BOOLEAN
    BY BoundAssumption DEF Init
  <2>2. default \subseteq Status
    BY <2>1 DEF Init
  <2>3. status \in [Instance -> Status \cup {NoStatus}]
    BY FirstAssumption DEF Init
  <2> QED
    <3>1. told \in [Instance -> Status \cup {NoStatus}]
      BY <2>3 DEF Init
    <3>2. cursor \in [Ruled -> User \cup {NoUser}] /\ turns \in [Ruled -> [User -> Nat]]
      BY DEF Init
    <3>3. session \in [Session -> Locals]
      BY IdleTyped DEF Init
    <3>4. bulk \in BOOLEAN /\ live \in SUBSET Status
      BY DEF Init
    <3>5. requests \in 0 .. MaxRequest
      <4>1. requests = 0
        BY DEF Init
      <4> QED
        BY <4>1, BoundAssumption
    <3> QED
      BY <2>1, <2>2, <2>3, <3>1, <3>2, <3>3, <3>4, <3>5 DEF TypeOK
<1>2. Named
  BY IdleTyped DEF Init, Named, Session
<1> QED
  BY <1>1, <1>2 DEF ShapeInv

LEMMA ShapeStep == ShapeInv /\ [Next]_vars => ShapeInv'
<1> SUFFICES ASSUME ShapeInv, [Next]_vars PROVE ShapeInv'
  OBVIOUS
<1>1. ASSUME NEW x \in Session, Fail(x) PROVE ShapeInv'
  BY <1>1, IdleTyped, OwnStep DEF Fail, Goes, ShapeInv, TypeOK
<1>2. CASE UNCHANGED vars
  BY <1>2 DEF vars, rules, defaults, ShapeInv, TypeOK, Named
<1> QED
  BY <1>1, <1>2, RetireShaped, SettingShaped, ChangeShaped DEF Next

(* Every status, instance, rule and request record keeps its shape.         *)
THEOREM TypeCorrect == Spec => []TypeOK
<1>1. Spec => []ShapeInv
  BY ShapeStart, ShapeStep, PTL DEF Spec
<1>2. ShapeInv => TypeOK
  BY DEF ShapeInv
<1> QED
  BY <1>1, <1>2, PTL

-----------------------------------------------------------------------------
(* A retirement of one instance picks as a status change does: the rule is  *)
(* its own from the pick to the commit, and what it picked is what anyone   *)
(* would pick next.                                                         *)
Single(t) == \A p, q \in t.listed : p = q

Picked(t) == \E p \in Instance : t.pick[p] # NoUser

Way(t) ==
  /\ t.at \notin {"fan", "deactivate", "commit"} => ~ Picked(t)
  /\ t.at = "fan" => t.to \in Ruled
  /\ \A p \in Instance : t.pick[p] # NoUser =>
       /\ p \in t.listed /\ t.to \in Ruled
       /\ Single(t) => t.pick[p] = PickRoundRobin(User, cursor[t.to])
  /\ \A p \in t.done : /\ t.pick[p] # NoUser
                       /\ Single(t) => t.cursor = t.pick[p]
  /\ t.done = {} => \A u \in User : t.turns[u] = 0
  /\ Single(t) /\ t.done # {} =>
       \A u \in User : t.turns[u] = IF u = t.cursor THEN 1 ELSE 0

TurnInv ==
  /\ \A x \in Retire : Way(session[x])
  /\ \A x, y \in Retire :
       Picked(session[x]) /\ Picked(session[y]) /\ session[x].to = session[y].to => x = y
  /\ ~ bulk => \A s \in Ruled : Rounds(cursor[s], turns[s])

EvenInv == ShapeInv /\ TurnInv

(* A step that moves no cursor and picks for nobody.                        *)
LEMMA TurnsWait ==
  ASSUME EvenInv, NEW x \in Session, NEW t, session' = [session EXCEPT ![x] = t],
         UNCHANGED rules,
         x \in Retire => Way(t) /\ (Picked(t) => Picked(session[x]) /\ t.to = session[x].to)
  PROVE  TurnInv'
<1>1. \A y \in Session : session'[y] = IF y = x THEN t ELSE session[y]
  BY DEF EvenInv, ShapeInv, TypeOK
<1>2. ASSUME NEW y \in Retire PROVE Way(session[y])'
  <2>1. Way(session'[y])
    BY <1>1 DEF EvenInv, TurnInv, Session
  <2> QED
    BY <2>1 DEF Way, Picked, Single, rules
<1>3. ASSUME NEW y \in Retire, NEW z \in Retire, Picked(session'[y]), Picked(session'[z]),
             session'[y].to = session'[z].to
      PROVE  y = z
  BY <1>1, <1>3 DEF EvenInv, TurnInv, Session
<1>4. \A y, z \in Retire :
        (Picked(session[y]) /\ Picked(session[z]) /\ session[y].to = session[z].to)' => y = z
  BY <1>3 DEF Picked
<1> QED
  BY <1>2, <1>4 DEF EvenInv, TurnInv, rules, Rounds

LEMMA IdleWay == Way(Idle) /\ ~ Picked(Idle)
  BY DEF Way, Picked, Idle, Single

(* The statements before and after the fibers.                              *)
LEMMA WayOn ==
  ASSUME EvenInv, NEW x \in Retire, NEW t \in Locals, t.pick = session[x].pick,
         t.to = session[x].to, t.listed = session[x].listed, t.done = session[x].done,
         t.turns = session[x].turns, t.cursor = session[x].cursor,
         t.at = "fan" => t.to \in Ruled,
         session[x].at \in {"fan", "deactivate", "commit"} =>
           t.at \in {"fan", "deactivate", "commit"}
  PROVE  Way(t) /\ (Picked(t) <=> Picked(session[x]))
<1>1. Way(session[x])
  BY DEF EvenInv, TurnInv
<1> QED
  BY <1>1 DEF Way, Picked, Single

LEMMA RetiringTurns ==
  ASSUME EvenInv, NEW x \in Retire,
         \/ ListInstances(x) \/ CheckReplacement(x) \/ MatchRows(x) \/ MoveRows(x)
         \/ Deactivate(x)
  PROVE  TurnInv'
<1>1. /\ x \in Session /\ session[x] \in Locals /\ Way(session[x])
      /\ UNCHANGED rules
  BY DEF Session, EvenInv, ShapeInv, TypeOK, TurnInv, ListInstances, CheckReplacement, MatchRows,
         MoveRows, Deactivate, Begin, Goes
<1>2. CASE ListInstances(x)
  <2>1. PICK s \in Status, r \in Status \cup {NoStatus} :
          LET found == {p \in Instance : status[p] = s}
          IN  Begin(x, [Idle EXCEPT !.at = IF r = NoStatus THEN "deactivate" ELSE "replacement",
                                    !.from = s, !.to = r, !.listed = found])
    BY <1>2 DEF ListInstances
  <2> DEFINE found == {p \in Instance : status[p] = s}
             where == IF r = NoStatus THEN "deactivate" ELSE "replacement"
             t == [Idle EXCEPT !.at = where, !.from = s, !.to = r, !.listed = found]
  <2>2. session' = [session EXCEPT ![x] = t]
    BY <2>1 DEF Begin
  <2>3. where # "fan"
    OBVIOUS
  <2> HIDE DEF found, where
  <2>4. /\ t.at = where /\ t.pick = Idle.pick /\ t.done = Idle.done /\ t.turns = Idle.turns
    BY DEF Idle
  <2> HIDE DEF t
  <2>5. Way(t) /\ ~ Picked(t)
    BY <2>3, <2>4 DEF Idle, Way, Picked
  <2> QED
    BY <1>1, <2>2, <2>5, TurnsWait
<1>3. ASSUME NEW t \in Locals, session' = [session EXCEPT ![x] = t],
             t.pick = session[x].pick,
             t.to = session[x].to, t.listed = session[x].listed, t.done = session[x].done,
             t.turns = session[x].turns, t.cursor = session[x].cursor,
             t.at = "fan" => t.to \in Ruled,
             session[x].at \in {"fan", "deactivate", "commit"} =>
               t.at \in {"fan", "deactivate", "commit"}
      PROVE  TurnInv'
  BY <1>1, <1>3, WayOn, TurnsWait
<1>4. ASSUME session' = [session EXCEPT ![x] = Idle] PROVE TurnInv'
  BY <1>1, <1>4, IdleWay, TurnsWait
<1>5. CASE CheckReplacement(x)
  <2> DEFINE t == [session[x] EXCEPT !.at = "match"]
  <2>1. /\ t \in Locals /\ t.at = "match" /\ t.pick = session[x].pick /\ t.to = session[x].to
        /\ t.listed = session[x].listed /\ t.done = session[x].done
        /\ t.turns = session[x].turns /\ t.cursor = session[x].cursor
    BY <1>1 DEF Locals, At
  <2>2. session[x].at = "replacement"
        /\ (session' = [session EXCEPT ![x] = t] \/ session' = [session EXCEPT ![x] = Idle])
    BY <1>5 DEF CheckReplacement, Goes
  <2> HIDE DEF t
  <2> QED
    BY <1>3, <1>4, <2>1, <2>2
<1>6. CASE MatchRows(x)
  <2> DEFINE rows == {p \in Instance : status[p] = session[x].from}
             t == [session[x] EXCEPT !.at = "move", !.matched = rows]
  <2>1. rows \in SUBSET Instance /\ session[x].at = "match" /\ session' = [session EXCEPT ![x] = t]
    BY <1>6 DEF MatchRows, Goes
  <2> HIDE DEF rows
  <2>2. /\ t \in Locals /\ t.at = "move" /\ t.pick = session[x].pick /\ t.to = session[x].to
        /\ t.listed = session[x].listed /\ t.done = session[x].done
        /\ t.turns = session[x].turns /\ t.cursor = session[x].cursor
    BY <1>1, <2>1 DEF Locals, At
  <2> HIDE DEF t
  <2> QED
    BY <1>3, <2>1, <2>2
<1>7. CASE MoveRows(x)
  <2> DEFINE rows == {p \in session[x].matched : status[p] = session[x].from}
             where == IF session[x].listed # {} /\ session[x].to \in Ruled
                      THEN "fan" ELSE "deactivate"
             t == [session[x] EXCEPT !.at = where, !.moved = rows]
  <2>1. /\ rows \in SUBSET Instance /\ where \in At /\ session' = [session EXCEPT ![x] = t]
        /\ where = "fan" => session[x].to \in Ruled
        /\ where \in {"fan", "deactivate", "commit"}
    BY <1>1, <1>7 DEF MoveRows, Goes, Locals, At
  <2> HIDE DEF rows, where
  <2>2. /\ t \in Locals /\ t.at = where /\ t.pick = session[x].pick /\ t.to = session[x].to
        /\ t.listed = session[x].listed /\ t.done = session[x].done
        /\ t.turns = session[x].turns /\ t.cursor = session[x].cursor
    BY <1>1, <2>1 DEF Locals
  <2> HIDE DEF t
  <2> QED
    BY <1>3, <2>1, <2>2
<1>8. CASE Deactivate(x)
  <2> DEFINE t == [session[x] EXCEPT !.at = "commit"]
  <2>1. /\ t \in Locals /\ t.at = "commit" /\ t.pick = session[x].pick /\ t.to = session[x].to
        /\ t.listed = session[x].listed /\ t.done = session[x].done
        /\ t.turns = session[x].turns /\ t.cursor = session[x].cursor
    BY <1>1 DEF Locals, At
  <2>2. session' = [session EXCEPT ![x] = t] \/ session' = [session EXCEPT ![x] = Idle]
    BY <1>8 DEF Deactivate, Goes
  <2> HIDE DEF t
  <2> QED
    BY <1>3, <1>4, <2>1, <2>2
<1> QED
  BY <1>2, <1>5, <1>6, <1>7, <1>8

(* The first fiber of a single retirement reads the cursor under the lock.  *)
LEMMA ReadingTurns ==
  ASSUME EvenInv, NEW x \in Retire, NEW p \in Instance, ReadRule(x, p)
  PROVE  TurnInv'
<1> DEFINE l == session[x]
           seen == IF l.done = {} THEN cursor[l.to] ELSE l.cursor
           u == PickRoundRobin(User, seen)
           pick == [l.pick EXCEPT ![p] = u]
           t == [l EXCEPT !.pick = pick]
<1>1. x \in Session /\ l \in Locals /\ Way(l)
  BY DEF Session, EvenInv, ShapeInv, TypeOK, TurnInv
<1>2. /\ l.at = "fan" /\ p \in l.listed /\ l.pick[p] = NoUser /\ RuleFree(x, l.to)
      /\ session' = [session EXCEPT ![x] = t] /\ UNCHANGED rules
  BY DEF ReadRule, Goes
<1>3. Single(l) => u = PickRoundRobin(User, cursor[l.to])
  <2>1. l.done # {} => \E q \in l.done : q \in l.listed /\ q # p
    BY <1>1, <1>2 DEF Way, Locals
  <2> QED
    BY <1>2, <2>1 DEF Single
<1>4. l.to \in Ruled
  BY <1>1, <1>2 DEF Way
<1> HIDE DEF u
<1>5. \A q \in Instance : pick[q] = IF q = p THEN u ELSE l.pick[q]
  BY <1>1 DEF Locals
<1> HIDE DEF pick
<1>6. /\ t.at = "fan" /\ t.to = l.to /\ t.listed = l.listed /\ t.done = l.done
      /\ t.turns = l.turns /\ t.cursor = l.cursor /\ t.pick = pick
  BY <1>1, <1>2 DEF Locals
<1> HIDE DEF t
<1>7. p \notin l.done /\ l.done \subseteq Instance
  BY <1>1, <1>2 DEF Way, Locals
<1>8. Way(t)
  <2>1. Single(t) <=> Single(l)
    BY <1>6 DEF Single
  <2>2. ASSUME NEW q \in Instance, pick[q] # NoUser
        PROVE  /\ q \in l.listed /\ l.to \in Ruled
               /\ Single(l) => pick[q] = PickRoundRobin(User, cursor[l.to])
    BY <1>1, <1>2, <1>3, <1>4, <1>5, <2>2 DEF Way
  <2>3. ASSUME NEW q \in l.done
        PROVE  pick[q] # NoUser /\ (Single(l) => l.cursor = pick[q])
    BY <1>1, <1>5, <1>7, <2>3 DEF Way
  <2>4. /\ l.done = {} => \A w \in User : l.turns[w] = 0
        /\ Single(l) /\ l.done # {} => \A w \in User : l.turns[w] = IF w = l.cursor THEN 1 ELSE 0
    BY <1>1 DEF Way
  <2> QED
    BY <1>4, <1>6, <2>1, <2>2, <2>3, <2>4 DEF Way
<1>9. \A y \in Session : session'[y] = IF y = x THEN t ELSE session[y]
  BY <1>1, <1>2 DEF EvenInv, ShapeInv, TypeOK
<1>10. ASSUME NEW y \in Retire PROVE Way(session[y])'
  <2>1. Way(session'[y])
    BY <1>8, <1>9 DEF EvenInv, TurnInv, Session
  <2> QED
    BY <1>2, <2>1 DEF Way, Picked, Single, rules
<1>11. ASSUME NEW y \in Retire, y # x, session[y].to = l.to PROVE ~ Picked(session[y])
  BY <1>2, <1>11 DEF RuleFree, Picked
<1>12. ASSUME NEW y \in Retire, NEW z \in Retire, Picked(session'[y]), Picked(session'[z]),
              session'[y].to = session'[z].to
       PROVE  y = z
  BY <1>6, <1>9, <1>11, <1>12 DEF EvenInv, TurnInv, Session
<1>13. \A y, z \in Retire :
         (Picked(session[y]) /\ Picked(session[z]) /\ session[y].to = session[z].to)' => y = z
  BY <1>12 DEF Picked
<1> QED
  BY <1>2, <1>10, <1>13 DEF EvenInv, TurnInv, rules, Rounds

LEMMA AssigningTurns ==
  ASSUME EvenInv, NEW x \in Retire, NEW p \in Instance, Assign(x, p)
  PROVE  TurnInv'
<1> DEFINE l == session[x]
           u == l.pick[p]
           done == l.done \cup {p}
           taken == [l.turns EXCEPT ![u] = l.turns[u] + 1]
           where == IF l.listed = done THEN "deactivate" ELSE l.at
           t == [l EXCEPT !.done = done, !.cursor = u, !.turns = taken, !.at = where]
<1>1. x \in Session /\ l \in Locals /\ Way(l)
  BY DEF Session, EvenInv, ShapeInv, TypeOK, TurnInv
<1>2. /\ l.at = "fan" /\ u # NoUser /\ p \notin l.done
      /\ session' = [session EXCEPT ![x] = t] /\ UNCHANGED rules
  BY DEF Assign, Goes
<1>3. where \in {"fan", "deactivate"} /\ l.to \in Ruled /\ p \in l.listed /\ u \in User
      /\ (Single(l) => u = PickRoundRobin(User, cursor[l.to]))
  BY <1>1, <1>2 DEF Way, Locals
<1>4. ASSUME Single(l) PROVE l.done = {}
  <2>1. \A q \in l.done : q \in Instance /\ q \in l.listed /\ q # p
    BY <1>1, <1>2 DEF Way, Locals
  <2> QED
    BY <1>3, <1>4, <2>1 DEF Single
<1>5. ASSUME Single(l), NEW w \in User PROVE taken[w] = IF w = u THEN 1 ELSE 0
  <2>1. l.turns \in [User -> Nat] /\ \A v \in User : l.turns[v] = 0
    BY <1>1, <1>4, <1>5 DEF Way, Locals
  <2> QED
    BY <1>3, <2>1
<1>6. ASSUME Single(l), NEW q \in done PROVE u = l.pick[q]
  BY <1>4, <1>6
<1>7. \A q \in done : l.pick[q] # NoUser
  BY <1>1, <1>2 DEF Way
<1>8. done # {}
  OBVIOUS
<1> HIDE DEF u, done, taken, where
<1>9. /\ t.at = where /\ t.to = l.to /\ t.listed = l.listed /\ t.done = done
      /\ t.turns = taken /\ t.cursor = u /\ t.pick = l.pick
  BY <1>1 DEF Locals
<1> HIDE DEF t
<1>10. Way(t)
  <2>1. Single(t) <=> Single(l)
    BY <1>9 DEF Single
  <2>2. \A q \in Instance : l.pick[q] # NoUser =>
          /\ q \in l.listed /\ l.to \in Ruled
          /\ Single(l) => l.pick[q] = PickRoundRobin(User, cursor[l.to])
    BY <1>1 DEF Way
  <2> QED
    BY <1>3, <1>5, <1>6, <1>7, <1>8, <1>9, <2>1, <2>2 DEF Way
<1>11. Picked(t) => Picked(l) /\ t.to = l.to
  BY <1>9 DEF Picked
<1> QED
  BY <1>1, <1>2, <1>10, <1>11, TurnsWait

(* A commit moves the cursor of a rule that no other retirement holds.      *)
LEMMA CommitTurns ==
  ASSUME EvenInv, NEW x \in Session, session' = [session EXCEPT ![x] = Idle],
         NEW s, NEW u, NEW taken,
         cursor' = [cursor EXCEPT ![s] = u], turns' = [turns EXCEPT ![s] = taken],
         \A y \in Retire \ {x} : session[y].to = s => ~ Picked(session[y]),
         bulk => bulk', ~ bulk' /\ s \in Ruled => Rounds(u, taken)
  PROVE  TurnInv'
<1>1. \A y \in Session : session'[y] = IF y = x THEN Idle ELSE session[y]
  BY DEF EvenInv, ShapeInv, TypeOK
<1>2. \A r \in Ruled : /\ r # s => cursor'[r] = cursor[r] /\ turns'[r] = turns[r]
                       /\ r = s => cursor'[r] = u /\ turns'[r] = taken
  BY DEF EvenInv, ShapeInv, TypeOK
<1>3. ASSUME NEW y \in Retire PROVE Way(session[y])'
  <2>1. CASE y = x
    <3>1. session'[y] = Idle
      BY <1>1, <2>1
    <3> QED
      BY <3>1 DEF Way, Picked, Single, Idle
  <2>2. CASE y # x
    <3>1. session'[y] = session[y] /\ Way(session[y])
      BY <1>1, <2>2 DEF Session, EvenInv, TurnInv
    <3>2. \A p \in Instance : session[y].pick[p] # NoUser =>
            cursor'[session[y].to] = cursor[session[y].to]
      BY <1>2, <2>2, <3>1 DEF Way, Picked
    <3> QED
      BY <3>1, <3>2 DEF Way, Picked, Single
  <2> QED
    BY <2>1, <2>2
<1>4. ASSUME NEW y \in Retire, NEW z \in Retire, Picked(session'[y]), Picked(session'[z]),
             session'[y].to = session'[z].to
      PROVE  y = z
  BY <1>1, <1>4, IdleWay DEF EvenInv, TurnInv, Session
<1>5. \A y, z \in Retire :
        (Picked(session[y]) /\ Picked(session[z]) /\ session[y].to = session[z].to)' => y = z
  BY <1>4 DEF Picked
<1>6. ASSUME ~ bulk', NEW r \in Ruled PROVE Rounds(cursor[r], turns[r])'
  <2>1. Rounds(cursor'[r], turns'[r])
    BY <1>2, <1>6 DEF EvenInv, TurnInv
  <2> QED
    BY <2>1 DEF Rounds
<1> QED
  BY <1>3, <1>5, <1>6 DEF TurnInv

LEMMA CursorsAreNumbers ==
  ASSUME EvenInv
  PROVE  /\ User \cup {NoUser} \subseteq Nat
         /\ \A s \in Ruled : cursor[s] \in Nat
         /\ \A x \in Session : session[x].cursor \in Nat
<1>1. User \cup {NoUser} \subseteq Nat
  BY UserAssumption DEF NoUser
<1>2. \A s \in Ruled : cursor[s] \in User \cup {NoUser}
  BY DEF EvenInv, ShapeInv, TypeOK
<1>3. \A x \in Session : session[x].cursor \in User \cup {NoUser}
  BY DEF EvenInv, ShapeInv, TypeOK, Locals
<1> QED
  BY <1>1, <1>2, <1>3

LEMMA RetiredTurns ==
  ASSUME EvenInv, NEW x \in Retire, CommitRetire(x)
  PROVE  TurnInv'
<1> DEFINE t == session[x]
           taken == [u \in User |-> turns[t.to][u] + t.turns[u]]
<1>1. x \in Session /\ t \in Locals /\ Way(t)
  BY DEF Session, EvenInv, ShapeInv, TypeOK, TurnInv
<1>2. /\ session' = [session EXCEPT ![x] = Idle]
      /\ bulk' = (bulk \/ \E p, q \in t.listed : p # q)
  BY DEF CommitRetire
<1>3. CASE t.done = {}
  <2>1. UNCHANGED <<cursor, turns>>
    BY <1>3 DEF CommitRetire
  <2>2. cursor' = [cursor EXCEPT ![NoStatus] = NoUser] /\ turns' = [turns EXCEPT ![NoStatus] = NoUser]
        /\ NoStatus \notin Ruled
    BY <2>1, NullAssumption, RuledAssumption DEF EvenInv, ShapeInv, TypeOK
  <2>3. \A y \in Retire \ {x} : session[y].to = NoStatus => ~ Picked(session[y])
    BY <2>2 DEF EvenInv, TurnInv, Way, Picked
  <2> QED
    BY <1>1, <1>2, <2>2, <2>3, CommitTurns
<1>4. CASE t.done # {}
  <2>1. PICK p \in t.done : p \in Instance /\ t.pick[p] # NoUser
    BY <1>1, <1>4 DEF Way, Locals
  <2>2. t.to \in Ruled /\ Picked(t)
    BY <1>1, <2>1 DEF Way, Picked
  <2>3. cursor' = [cursor EXCEPT ![t.to] = t.cursor] /\ turns' = [turns EXCEPT ![t.to] = taken]
    BY <1>4, <2>2 DEF CommitRetire, EvenInv, ShapeInv, TypeOK
  <2>4. \A y \in Retire \ {x} : session[y].to = t.to => ~ Picked(session[y])
    BY <2>2 DEF EvenInv, TurnInv
  <2>5. ASSUME ~ bulk' PROVE Rounds(t.cursor, taken)
    <3>1. Single(t) /\ ~ bulk
      BY <1>2, <2>5 DEF Single
    <3>2. /\ t.cursor = PickRoundRobin(User, cursor[t.to])
          /\ \A u \in User : t.turns[u] = IF u = t.cursor THEN 1 ELSE 0
      BY <1>1, <1>4, <2>1, <3>1 DEF Way
    <3>3. Rounds(cursor[t.to], turns[t.to]) /\ cursor[t.to] \in Nat
      BY <2>2, <3>1, CursorsAreNumbers DEF EvenInv, TurnInv
    <3>4. \A u \in User :
            taken[u] = turns[t.to][u] + IF u = PickRoundRobin(User, cursor[t.to]) THEN 1 ELSE 0
      BY <3>2
    <3> HIDE DEF taken
    <3>5. Rounds(PickRoundRobin(User, cursor[t.to]), taken)
      BY <3>3, <3>4, NextTurn
    <3> QED
      BY <3>2, <3>5
  <2>6. bulk => bulk'
    BY <1>2
  <2> HIDE DEF taken
  <2> QED
    BY <1>1, <1>2, <2>3, <2>4, <2>5, <2>6, CommitTurns
<1> QED
  BY <1>3, <1>4

LEMMA ChangedTurns ==
  ASSUME EvenInv, NEW x \in Change, CommitChange(x)
  PROVE  TurnInv'
<1> DEFINE t == session[x]
           s == t.to
           u == PickRoundRobin(User, cursor[s])
<1>1. x \in Session /\ x \notin Retire
  BY SessionAssumption DEF Session
<1>2. session' = [session EXCEPT ![x] = Idle] /\ bulk' = bulk
  BY DEF CommitChange
<1>3. CASE UNCHANGED <<cursor, turns>>
  BY <1>1, <1>2, <1>3, TurnsWait DEF rules
<1>4. CASE /\ s \in Ruled /\ RuleFree(x, s) /\ cursor' = [cursor EXCEPT ![s] = u]
           /\ turns' = [turns EXCEPT ![s][u] = turns[s][u] + 1]
  <2> DEFINE taken == [turns[s] EXCEPT ![u] = turns[s][u] + 1]
  <2>1. turns' = [turns EXCEPT ![s] = taken]
    BY <1>4
  <2>2. \A y \in Retire \ {x} : session[y].to = s => ~ Picked(session[y])
    BY <1>4 DEF RuleFree, Picked
  <2>3. turns[s] \in [User -> Nat] /\ cursor[s] \in Nat
    BY <1>4, CursorsAreNumbers DEF EvenInv, ShapeInv, TypeOK
  <2>4. \A w \in User : taken[w] = turns[s][w] + IF w = u THEN 1 ELSE 0
    BY <2>3
  <2> HIDE DEF taken
  <2>5. ASSUME ~ bulk' PROVE Rounds(u, taken)
    <3>1. Rounds(cursor[s], turns[s])
      BY <1>2, <1>4, <2>5 DEF EvenInv, TurnInv
    <3> QED
      BY <2>3, <2>4, <3>1, NextTurn
  <2>6. cursor' = [cursor EXCEPT ![s] = u] /\ (bulk => bulk')
    BY <1>2, <1>4
  <2> HIDE DEF u
  <2> QED
    BY <1>1, <1>2, <2>1, <2>2, <2>5, <2>6, CommitTurns
<1> QED
  BY <1>3, <1>4 DEF CommitChange

LEMMA EvenStart == Init => EvenInv
<1> SUFFICES ASSUME Init PROVE TurnInv
  BY ShapeStart DEF EvenInv
<1>1. \A x \in Retire : session[x] = Idle
  BY DEF Init, Session
<1>2. ASSUME NEW s \in Ruled PROVE Rounds(cursor[s], turns[s])
  <2>1. cursor[s] = 0 /\ \A u \in User : turns[s][u] = 0 /\ ~ (u <= 0)
    BY UserAssumption DEF Init, NoUser
  <2> QED
    BY <2>1 DEF Rounds
<1> QED
  BY <1>1, <1>2, IdleWay DEF TurnInv

LEMMA EvenStep == EvenInv /\ [Next]_vars => EvenInv'
<1> SUFFICES ASSUME EvenInv, [Next]_vars PROVE TurnInv'
  BY ShapeStep DEF EvenInv
<1>1. ASSUME NEW x \in Retire, ListInstances(x) \/ Retiring(x) PROVE TurnInv'
  BY <1>1, RetiringTurns, ReadingTurns, AssigningTurns, RetiredTurns DEF Retiring
<1>2. ASSUME NEW x \in Session \ Retire, NEW t, session' = [session EXCEPT ![x] = t],
             UNCHANGED rules
      PROVE  TurnInv'
  BY <1>2, TurnsWait
<1>3. ASSUME NEW x \in SetDefault, ReadDefaults(x) \/ Setting(x) PROVE TurnInv'
  <2>1. x \in Session \ Retire
    BY SessionAssumption DEF Session
  <2>2. (\E t : session' = [session EXCEPT ![x] = t]) /\ UNCHANGED rules
    BY <1>3 DEF ReadDefaults, Setting, UnsetSiblings, SetStatus, CommitDefault, Begin, Goes
  <2> QED
    BY <1>2, <2>1, <2>2
<1>4. ASSUME NEW x \in Change, ReadTarget(x) \/ Changing(x) PROVE TurnInv'
  <2>1. x \in Session \ Retire
    BY SessionAssumption DEF Session
  <2>2. CASE ReadTarget(x) \/ WriteRow(x)
    <3>1. (\E t : session' = [session EXCEPT ![x] = t]) /\ UNCHANGED rules
      BY <2>2 DEF ReadTarget, WriteRow, Begin, Goes
    <3> QED
      BY <1>2, <2>1, <3>1
  <2> QED
    BY <1>4, <2>2, ChangedTurns DEF Changing
<1>5. ASSUME NEW x \in Session, Fail(x) PROVE TurnInv'
  BY <1>5, IdleWay, TurnsWait DEF Fail, Goes
<1>6. CASE UNCHANGED vars
  BY <1>6 DEF vars, rules, EvenInv, TurnInv, Way, Picked, Single, Rounds
<1> QED
  BY <1>1, <1>3, <1>4, <1>5, <1>6 DEF Next

(* Round robin goes round as long as retirements move one instance at a     *)
(* time: for any users, rules, retirements, status changes and failures, no *)
(* user is ahead of another by more than one turn.                          *)
THEOREM SinglesAlwaysTakeTurns == Spec => []SinglesTakeTurns
<1>1. EvenInv => SinglesTakeTurns
  <2> SUFFICES ASSUME EvenInv, ~ bulk, NEW s \in Ruled, NEW u \in User, NEW v \in User
               PROVE  turns[s][u] <= turns[s][v] + 1
    BY DEF SinglesTakeTurns, TurnsAreEven
  <2>1. PICK k \in Nat : \A w \in User : turns[s][w] \in {k, k + 1}
    BY DEF EvenInv, TurnInv, Rounds
  <2> QED
    BY <2>1
<1> QED
  BY <1>1, EvenStart, EvenStep, PTL DEF Spec
=============================================================================
