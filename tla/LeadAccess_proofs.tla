------------------------- MODULE LeadAccess_proofs -------------------------
(***************************************************************************)
(* That the two forms of the access rule agree about an active lead, for    *)
(* any users, journeys, statuses, assignment types, roles and charts.      *)
(*                                                                         *)
(* The two differ in where they look: the decision for one record takes    *)
(* the assignments of every instance in the journey, the list takes each   *)
(* active instance by itself.  What makes them one rule is that an active  *)
(* lead has only active instances, no two of them in a journey: that is the *)
(* inductive invariant.                                                    *)
(***************************************************************************)
EXTENDS LeadAccess, FiniteSetTheorems, WellFoundedInduction, TLAPS

OneOpenPerJourney == \A i, k \in open : JourneyIn(i) = JourneyIn(k) => i = k

OpenWhileActive == leadActive => open = made

IInv == TypeOK /\ OneOpenPerJourney /\ OpenWhileActive

-----------------------------------------------------------------------------
(* The invariant is inductive. *)

LEMMA HandoverType ==
  ASSUME TypeOK, NEW i \in made, NEW t \in Type, NEW u \in User, Handover(i, t, u)
  PROVE  /\ holder' \in [made -> Holders]
         /\ shared' \in SUBSET User
<1>1. [holder[i] EXCEPT ![t] = u] \in Holders
  BY DEF TypeOK, Holders
<1>2. holder' \in [made -> Holders]
  BY <1>1 DEF TypeOK, Handover
<1>3. shared' \in SUBSET User
  BY DEF TypeOK, Handover
<1> QED
  BY <1>2, <1>3

LEMMA StepType ==
  ASSUME TypeOK, [Next]_vars
  PROVE  TypeOK'
<1> USE DEF people, lead
<1>1. ASSUME NEW i \in Instance, NEW s \in Status, NEW h \in Assignments, Create(i, s, h)
      PROVE  TypeOK'
  BY <1>1 DEF TypeOK, Create, Assignments
<1>2. ASSUME NEW i \in Instance, NEW s \in Status, Move(i, s) PROVE TypeOK'
  BY <1>2 DEF TypeOK, Move
<1>3. ASSUME NEW i \in Instance, NEW s \in Status, ChangeStatus(i, s) PROVE TypeOK'
  <2>1. i \in made /\ status' \in [made -> Status] /\ made' = made
    BY <1>3 DEF ChangeStatus, TypeOK
  <2>2. holder' \in [made -> Holders] /\ shared' \in SUBSET User
    <3>1. CASE UNCHANGED <<holder, shared>>
      BY <3>1 DEF TypeOK
    <3>2. ASSUME NEW t \in Type, NEW u \in active, Handover(i, t, u)
          PROVE  holder' \in [made -> Holders] /\ shared' \in SUBSET User
      <4>1. u \in User
        BY DEF TypeOK
      <4> QED
        BY <2>1, <3>2, <4>1, HandoverType
    <3> QED
      BY <1>3, <3>1, <3>2 DEF ChangeStatus
  <2> QED
    BY <1>3, <2>1, <2>2 DEF TypeOK, ChangeStatus
<1>4. ASSUME NEW i \in Instance, NEW t \in Type, NEW u \in User, Reassign(i, t, u)
      PROVE  TypeOK'
  <2>1. holder' \in [made -> Holders] /\ shared' \in SUBSET User
    BY <1>4, HandoverType DEF Reassign
  <2> QED
    BY <1>4, <2>1 DEF TypeOK, Reassign
<1>5. ASSUME NEW u \in User, Share(u) \/ Unshare(u) \/ DeactivateUser(u) PROVE TypeOK'
  BY <1>5 DEF TypeOK, Share, Unshare, DeactivateUser
<1>6. ASSUME NEW s \in Status, ConfigureRule(s) PROVE TypeOK'
  BY <1>6 DEF TypeOK, ConfigureRule
<1>7. CASE UpdateUsers
  BY <1>7 DEF TypeOK, UpdateUsers
<1>8. CASE DeactivateLead
  BY <1>8 DEF TypeOK, DeactivateLead
<1>9. CASE UNCHANGED vars
  BY <1>9 DEF TypeOK, vars
<1>10. ASSUME NEW i \in Instance, NEW t \in Type, NEW u \in User \cup {NoUser},
              i \in made, holder' = [holder EXCEPT ![i][t] = u],
              UNCHANGED <<people, routed, leadActive, made, open, status, shared>>
       PROVE  TypeOK'
  <2>1. [holder[i] EXCEPT ![t] = u] \in Holders
    BY <1>10 DEF TypeOK, Holders
  <2> QED
    BY <1>10, <2>1 DEF TypeOK
<1>11. ASSUME NEW i \in Instance, NEW t \in Type,
              EndAssignment(i, t) \/ \E u \in User : CreateAssignment(i, t, u)
       PROVE  TypeOK'
  BY <1>10, <1>11 DEF EndAssignment, CreateAssignment
<1> QED
  BY <1>1, <1>2, <1>3, <1>4, <1>5, <1>6, <1>7, <1>8, <1>9, <1>11 DEF Next

(* A step that leaves the instances and their statuses alone. *)
LEMMA SameInstances ==
  ASSUME OneOpenPerJourney, UNCHANGED <<open, status>>
  PROVE  OneOpenPerJourney'
  BY DEF OneOpenPerJourney, JourneyIn

LEMMA StepOneOpen ==
  ASSUME TypeOK, OneOpenPerJourney, [Next]_vars
  PROVE  OneOpenPerJourney'
<1> USE DEF people, lead
<1>1. ASSUME NEW i \in Instance, NEW s \in Status, NEW h \in Assignments, Create(i, s, h)
      PROVE  OneOpenPerJourney'
  <2>1. \A k \in open : k # i /\ status'[k] = status[k]
    BY <1>1 DEF Create, TypeOK
  <2>2. status'[i] = s /\ open' = open \cup {i}
    BY <1>1 DEF Create
  <2>3. \A k \in open : JourneyOf[status[k]] # JourneyOf[s]
    BY <1>1 DEF Create, JourneyIn
  <2> QED
    BY <2>1, <2>2, <2>3 DEF OneOpenPerJourney, JourneyIn
<1>2. ASSUME NEW i \in Instance, NEW s \in Status, Move(i, s) PROVE OneOpenPerJourney'
  <2>1. \A k \in open \ {i} : status'[k] = status[k]
    BY <1>2 DEF Move, TypeOK
  <2>2. status'[i] = s /\ open' = open
    BY <1>2 DEF Move, TypeOK
  <2>3. \A k \in open : JourneyOf[status[k]] # JourneyOf[s]
    BY <1>2 DEF Move, JourneyIn
  <2> QED
    BY <2>1, <2>2, <2>3 DEF OneOpenPerJourney, JourneyIn
<1>3. ASSUME NEW i \in Instance, NEW s \in Status, ChangeStatus(i, s)
      PROVE  OneOpenPerJourney'
  <2>1. \A k \in open : JourneyOf[status'[k]] = JourneyOf[status[k]]
    BY <1>3 DEF ChangeStatus, TypeOK, JourneyIn
  <2> QED
    BY <1>3, <2>1 DEF ChangeStatus, OneOpenPerJourney, JourneyIn
<1>4. ASSUME NEW i \in Instance, NEW t \in Type, NEW u \in User, Reassign(i, t, u)
      PROVE  OneOpenPerJourney'
  BY <1>4, SameInstances DEF Reassign
<1>5. ASSUME NEW u \in User, Share(u) \/ Unshare(u) \/ DeactivateUser(u)
      PROVE  OneOpenPerJourney'
  BY <1>5, SameInstances DEF Share, Unshare, DeactivateUser
<1>6. ASSUME NEW s \in Status, ConfigureRule(s) PROVE OneOpenPerJourney'
  BY <1>6, SameInstances DEF ConfigureRule
<1>7. CASE UpdateUsers
  BY <1>7, SameInstances DEF UpdateUsers
<1>8. CASE DeactivateLead
  BY <1>8 DEF DeactivateLead, OneOpenPerJourney
<1>9. CASE UNCHANGED vars
  BY <1>9, SameInstances DEF vars
<1>10. ASSUME NEW i \in Instance, NEW t \in Type,
              EndAssignment(i, t) \/ \E u \in User : CreateAssignment(i, t, u)
       PROVE  OneOpenPerJourney'
  BY <1>10, SameInstances DEF EndAssignment, CreateAssignment
<1> QED
  BY <1>1, <1>2, <1>3, <1>4, <1>5, <1>6, <1>7, <1>8, <1>9, <1>10 DEF Next

LEMMA StepOpenWhileActive ==
  ASSUME OpenWhileActive, [Next]_vars
  PROVE  OpenWhileActive'
  BY DEF OpenWhileActive, Next, vars, people, lead, Create, Move, ChangeStatus, Reassign,
         EndAssignment, CreateAssignment, Share, Unshare, DeactivateUser, ConfigureRule,
         UpdateUsers, DeactivateLead

LEMMA InitInvariant ==
  ASSUME Init
  PROVE  IInv
<1>1. PICK i \in Instance, s \in Status, h \in Assignments :
        /\ made = {i} /\ open = {i}
        /\ status = [k \in {i} |-> s]
        /\ holder = [k \in {i} |-> h]
  BY DEF Init
<1>2. TypeOK
  BY <1>1 DEF Init, TypeOK, Assignments
<1> QED
  BY <1>1, <1>2 DEF Init, IInv, OneOpenPerJourney, OpenWhileActive

(* In every reachable state no two open instances of a lead are in the same *)
(* journey, and while the lead is active all of its instances are open.    *)
THEOREM Invariant == Spec => []IInv
<1>1. IInv /\ [Next]_vars => IInv'
  BY StepType, StepOneOpen, StepOpenWhileActive DEF IInv
<1> QED
  BY InitInvariant, <1>1, PTL DEF Spec

-----------------------------------------------------------------------------
(* Every reachable state is of the declared types. *)
THEOREM TypeCorrect == Spec => []TypeOK
  BY Invariant, PTL DEF IInv

(* While the lead is active, an instance is judged by its own assignments. *)
LEMMA OwnAssignmentsDecide ==
  ASSUME IInv, leadActive, NEW i \in open
  PROVE  Considered(i) = {i}
  BY DEF IInv, OneOpenPerJourney, OpenWhileActive, Considered

LEMMA SetsOfUsers ==
  ASSUME TypeOK, NEW v \in User
  PROVE  Team(v) \subseteq User /\ AllowedUsers(v) \subseteq User
<1>1. Team(v) \subseteq User
  BY DEF TypeOK, Team
<1>2. DepartmentUsers(v) \subseteq User
  BY DEF TypeOK, DepartmentUsers
<1> QED
  BY <1>1, <1>2 DEF AllowedUsers

(* Naming the types an instance has a holder for is naming none. *)
LEMMA SameAssignments ==
  ASSUME IInv, leadActive, NEW i \in open, NEW U \in SUBSET User
  PROVE  AssignmentScopeAllows(i, U) <=> Assigned(i, {}, U)
<1>1. AssignmentScopeAllows(i, U) <=> Assigned(i, TypesOf(i), U)
  BY OwnAssignmentsDecide DEF AssignmentScopeAllows
<1>2. \A t \in Type : holder[i][t] \in U => t \in TypesOf(i)
  BY NoUserAssumption DEF TypesOf
<1> QED
  BY <1>1, <1>2 DEF Assigned, Named

LEMMA HeldBySomebody ==
  ASSUME TypeOK, NEW i \in made
  PROVE  Assigned(i, {}, User) <=> ~Unheld(i)
<1>1. holder[i] \in [Type -> User \cup {NoUser}]
  BY DEF TypeOK, Holders
<1> QED
  BY <1>1, NoUserAssumption DEF Unheld, TypesOf, Assigned, Named

(* What the detail shows, in the words of the list: the instances that bring *)
(* the lead into it, and to a scope of the organization the unheld ones.     *)
LEMMA OpensAsListed ==
  ASSUME IInv, leadActive, NEW v \in User, Permitted(v)
  PROVE  /\ v \in shared => VisibleInstances(v) = InJourneys(v)
         /\ v \notin shared => Matching(v) = {i \in VisibleInstances(v) : ~Unheld(i)}
         /\ v \notin shared /\ role[v].scope # "ORGANIZATION" =>
              \A i \in VisibleInstances(v) : ~Unheld(i)
<1>1. TypeOK /\ \A i \in open : i \in made
  BY DEF IInv, TypeOK
<1>2. ASSUME NEW i \in open
      PROVE  AssignmentScopeAllows(i, Team(v)) <=> Assigned(i, {}, Team(v))
  BY <1>1, SetsOfUsers, SameAssignments
<1>3. ASSUME NEW i \in open
      PROVE  /\ AssignmentScopeAllows(i, AllowedUsers(v)) <=> Assigned(i, {}, AllowedUsers(v))
             /\ Assigned(i, {}, AllowedUsers(v)) => ~Unheld(i)
             /\ role[v].scope = "ORGANIZATION" => (Assigned(i, {}, AllowedUsers(v)) <=> ~Unheld(i))
  <2>1. role[v].scope = "ORGANIZATION" => AllowedUsers(v) = User
    BY DEF AllowedUsers
  <2>2. Assigned(i, {}, AllowedUsers(v)) => Assigned(i, {}, User)
    BY <1>1, SetsOfUsers DEF Assigned
  <2> QED
    BY <1>1, <2>1, <2>2, SetsOfUsers, SameAssignments, HeldBySomebody
<1>4. CASE v \in shared
  BY <1>4 DEF VisibleInstances, Opens, StatusVisible, RecordAllowed, InJourneys
<1>5. CASE v \notin shared
  <2>1. ASSUME NEW i \in open
        PROVE  /\ i \in Matching(v) <=> i \in VisibleInstances(v) /\ ~Unheld(i)
               /\ i \in VisibleInstances(v) /\ role[v].scope # "ORGANIZATION" => ~Unheld(i)
    BY <1>2, <1>3, <1>5
       DEF VisibleInstances, Opens, StatusVisible, RecordAllowed, InJourneys, Matching,
           StatusClause
  <2>2. Matching(v) \subseteq open /\ VisibleInstances(v) \subseteq open
    BY DEF Matching, InJourneys, VisibleInstances
  <2> QED
    BY <1>5, <2>1, <2>2
<1> QED
  BY <1>4, <1>5

(* The list and the detail agree about every active lead, for every user,   *)
(* whatever their scope, team, journeys and shares and whatever the rules,  *)
(* but for instances without a holder, which a scope of the organization    *)
(* opens and the list does not count.                                       *)
THEOREM SurfacesAlwaysAgree == Spec => []SurfacesAgree
<1>1. IInv => SurfacesAgree
  <2> SUFFICES ASSUME IInv, leadActive, NEW v \in User
               PROVE  /\ Listed(v) <=> \E i \in VisibleInstances(v) : v \in shared \/ ~Unheld(i)
                      /\ \A i \in VisibleInstances(v) :
                           v \in shared \/ ~Unheld(i) \/ role[v].scope = "ORGANIZATION"
    BY DEF SurfacesAgree
  <2>1. CASE Permitted(v)
    <3>1. Matching(v) \subseteq InJourneys(v)
      BY DEF Matching
    <3> QED
      BY <2>1, <3>1, OpensAsListed DEF Listed
  <2>2. CASE ~Permitted(v)
    BY <2>2 DEF Listed, VisibleInstances, Opens
  <2> QED
    BY <2>1, <2>2
<1> QED
  BY Invariant, <1>1, PTL

(* In a routed status only the line of the instance's own holder gets in,   *)
(* whatever other instances the lead has.                                   *)
THEOREM RoutingNarrows == Spec => []RoutedIsForTheLine
<1>1. IInv => RoutedIsForTheLine
  <2> SUFFICES ASSUME IInv, leadActive, NEW v \in User, NEW i \in VisibleInstances(v),
                      status[i] \in routed, ~role[v].bypass, v \notin shared
               PROVE  \E t \in Type : holder[i][t] \in Team(v)
    BY DEF RoutedIsForTheLine
  <2>1. i \in open /\ AssignmentScopeAllows(i, Team(v))
    BY DEF VisibleInstances, Opens, StatusVisible
  <2>2. Considered(i) = {i}
    BY <2>1, OwnAssignmentsDecide
  <2> QED
    BY <2>1, <2>2 DEF AssignmentScopeAllows, Assigned
<1> QED
  BY Invariant, <1>1, PTL

(* When somebody leaves, nobody else loses sight of an instance that the    *)
(* leaver does not hold: the walk down the reporting line passes through    *)
(* inactive users.                                                          *)
THEOREM DeparturesHideLittle == Spec => DeparturesHideOnlyTheirOwn
<1> DEFINE Gone == active \ active'
           Little == \A u \in active' : \A i \in VisibleInstances(u) \ VisibleInstances(u)' :
                       \E t \in Type : holder[i][t] \in Gone
<1>1. ASSUME IInv, leadActive, NEW w \in User, DeactivateUser(w) PROVE Little
  <2> SUFFICES ASSUME NEW u \in active', NEW i \in open, Opens(u, i),
                      \A t \in Type : holder[i][t] \notin Gone
               PROVE  Opens(u, i)'
    BY <1>1 DEF DeactivateUser, lead, VisibleInstances
  <2>1. u \in active /\ u \in User /\ active' \subseteq active
    BY <1>1 DEF DeactivateUser, IInv, TypeOK
  <2>2. UNCHANGED <<manager, role, routed, made, open, status, holder, shared>>
    BY <1>1 DEF DeactivateUser, lead
  <2>3. Team(u) \ Gone \subseteq Team(u)'
    BY <2>1, <2>2 DEF Team
  <2>4. AllowedUsers(u) \ Gone \subseteq AllowedUsers(u)'
    <3>1. DepartmentUsers(u) \ Gone \subseteq DepartmentUsers(u)'
      BY <2>1 DEF DepartmentUsers
    <3> QED
      BY <2>2, <2>3, <3>1 DEF AllowedUsers
  <2>5. Considered(i) = {i} /\ Considered(i)' = {i}
    <3>1. Considered(i) = {i}
      BY <1>1, OwnAssignmentsDecide
    <3> QED
      BY <2>2, <3>1 DEF Considered, JourneyIn
  <2>6. ASSUME NEW U, NEW V, U \ Gone \subseteq V, AssignmentScopeAllows(i, U)
        PROVE  \E t \in Type : Named(TypesOf(i), t) /\ holder[i][t] \in V
    BY <2>5, <2>6 DEF AssignmentScopeAllows, Assigned
  <2>7. TypesOf(i)' = TypesOf(i)
    BY <2>2 DEF TypesOf
  <2>8. AssignmentScopeAllows(i, Team(u)) => AssignmentScopeAllows(i, Team(u))'
    BY <2>2, <2>3, <2>5, <2>6, <2>7 DEF AssignmentScopeAllows, Assigned, Named
  <2>9. AssignmentScopeAllows(i, AllowedUsers(u)) => AssignmentScopeAllows(i, AllowedUsers(u))'
    BY <2>2, <2>4, <2>5, <2>6, <2>7 DEF AssignmentScopeAllows, Assigned, Named
  <2> QED
    BY <2>1, <2>2, <2>8, <2>9
       DEF Opens, Permitted, StatusVisible, RecordAllowed, JourneyIn
<1>2. ASSUME [Next]_vars, active' # active PROVE \E w \in User : DeactivateUser(w)
  BY <1>2 DEF Next, vars, people, lead, Create, Move, ChangeStatus, Reassign,
         EndAssignment, CreateAssignment, Share, Unshare, ConfigureRule, UpdateUsers, DeactivateLead
<1>3. IInv /\ [Next]_vars => [leadActive /\ active' # active => Little]_vars
  BY <1>1, <1>2
<1> QED
  BY Invariant, <1>3, PTL DEF Spec, DeparturesHideOnlyTheirOwn

-----------------------------------------------------------------------------
(* The queries.  The properties are of single states; they rest on the      *)
(* types, and that a row shows what opens also on the invariant: while the  *)
(* lead is active an instance is judged by its own assignments.             *)

(* What chooses a row by an instance, chooses the instance to be shown.     *)
LEMMA ChosenAreShown ==
  ASSUME TypeOK, NEW u \in User, NEW q \in Query, Permitted(u)
  PROVE  processExists(u, q) \subseteq processWhere(u, q)
<1> SUFFICES ASSUME NEW i \in processExists(u, q)
             PROVE  i \in processWhere(u, q)
  OBVIOUS
<1>1. /\ i \in open
      /\ JourneyIn(i) \in Journeys(u, q)
      /\ StatusAsked(q, i)
      /\ statusVisibilityClause(u, q, i)
  BY DEF processExists
<1>2. PICK t \in Type : Named(q.types, t) /\ OwnerAsked(q, holder[i][t]) /\ holder[i][t] \in AllowedUsers(u)
  BY DEF processExists
<1>3. holder[i][t] \in UserCondition(u, q)
  <2>1. holder[i][t] \in User
    BY <1>2, SetsOfUsers
  <2> QED
    BY <1>2, <2>1 DEF UserCondition, OwnerAsked
<1>4. Assigned(i, q.types, UserCondition(u, q))
  BY <1>2, <1>3 DEF Assigned
<1>5. statusVisibleOr(u, q, i)
  BY <1>1 DEF statusVisibilityClause, statusVisibleOr
<1> QED
  BY <1>1, <1>4, <1>5 DEF processWhere

(* The converse, where the Prisma form does not lose the owner.             *)
LEMMA ShownAreChosen ==
  ASSUME TypeOK, NEW u \in User, NEW q \in Query, Permitted(u),
         q.owner = NoUser \/ role[u].scope = "ORGANIZATION"
  PROVE  processWhere(u, q) \subseteq processExists(u, q)
<1> SUFFICES ASSUME NEW i \in processWhere(u, q)
             PROVE  i \in processExists(u, q)
  OBVIOUS
<1>1. /\ i \in open
      /\ JourneyIn(i) \in Journeys(u, q)
      /\ StatusAsked(q, i)
      /\ statusVisibleOr(u, q, i)
      /\ Assigned(i, q.types, UserCondition(u, q))
  BY DEF processWhere
<1>2. PICK t \in Type : Named(q.types, t) /\ holder[i][t] \in UserCondition(u, q)
  BY <1>1 DEF Assigned
<1>3. q.owner \in User \cup {NoUser}
  BY QueryAssumption
<1>4. role[u].scope = "ORGANIZATION" => AllowedUsers(u) = User
  BY DEF AllowedUsers
<1>5. OwnerAsked(q, holder[i][t]) /\ holder[i][t] \in AllowedUsers(u)
  BY <1>2, <1>3, <1>4 DEF UserCondition, OwnerAsked
<1>6. statusVisibilityClause(u, q, i)
  BY <1>1 DEF statusVisibilityClause, statusVisibleOr
<1> QED
  BY <1>1, <1>2, <1>5, <1>6 DEF processExists

(* The two forms of the list's predicate select the same leads, without an  *)
(* owner or with a scope of the organization.                               *)
THEOREM FormsAlwaysAgree == Spec => []FormsAgree
<1>1. TypeOK => FormsAgree
  <2> SUFFICES ASSUME TypeOK, NEW u \in User, NEW q \in Query, Answered(u, q),
                      q.owner = NoUser \/ role[u].scope = "ORGANIZATION"
               PROVE  Selected(u, q) <=> sellerWhere(u, q)
    BY DEF FormsAgree
  <2>1. processExists(u, q) = processWhere(u, q)
    BY ChosenAreShown, ShownAreChosen DEF Answered
  <2>2. q.mode \in Modes
    BY QueryAssumption
  <2>3. CASE q.mode = "mine"
    BY <2>1, <2>3 DEF Selected, accessClause, sellerWhere
  <2>4. CASE q.mode = "shared_with_me"
    BY <2>4 DEF Selected, accessClause, sellerWhere
  <2>5. CASE q.mode = "all"
    BY <2>1, <2>5 DEF Selected, accessClause, sellerWhere
  <2> QED
    BY <2>2, <2>3, <2>4, <2>5 DEF Modes
<1> QED
  BY <1>1, TypeCorrect, PTL

(* Naming a journey, a status, an owner or types brings nothing new in.     *)
THEOREM FiltersAlwaysNarrow == Spec => []FiltersOnlyNarrow
<1>1. FiltersOnlyNarrow
  <2> SUFFICES ASSUME NEW u \in User, NEW q \in Query, Selected(u, q)
               PROVE  Selected(u, Unfiltered(q))
    BY DEF FiltersOnlyNarrow
  <2> DEFINE all == Unfiltered(q)
  <2>1. /\ all.mode = q.mode /\ all.journey = NoJourney /\ all.status = NoStatus
        /\ all.owner = NoUser /\ all.types = {}
    BY QueryAssumption DEF Unfiltered
  <2>2. Answered(u, q) /\ leadActive /\ accessClause(u, q) /\ Answered(u, all)
    BY <2>1 DEF Selected, Answered
  <2>3. Journeys(u, q) \subseteq Journeys(u, all)
    BY <2>1, <2>2 DEF Journeys, Answered
  <2>4. ASSUME NEW i \in open, statusVisibilityClause(u, q, i)
        PROVE  statusVisibilityClause(u, all, i)
    BY <2>1, <2>4 DEF statusVisibilityClause, Assigned, Named
  <2>5. processExists(u, q) \subseteq processExists(u, all)
    <3> SUFFICES ASSUME NEW i \in processExists(u, q)
                 PROVE  i \in processExists(u, all)
      OBVIOUS
    <3>1. i \in open /\ JourneyIn(i) \in Journeys(u, all) /\ statusVisibilityClause(u, all, i)
      BY <2>3, <2>4 DEF processExists
    <3>2. \E t \in Type : holder[i][t] \in AllowedUsers(u)
      BY DEF processExists
    <3> QED
      BY <2>1, <3>1, <3>2 DEF processExists, StatusAsked, OwnerAsked, Named
  <2>6. accessClause(u, all)
    <3>1. q.mode \in Modes
      BY QueryAssumption
    <3>2. CASE q.mode = "shared_with_me"
      BY <2>1, <2>2, <3>2 DEF accessClause
    <3>3. CASE q.mode = "mine"
      BY <2>1, <2>2, <2>5, <3>3 DEF accessClause
    <3>4. CASE q.mode = "all"
      BY <2>1, <2>2, <2>3, <2>5, <3>4 DEF accessClause
    <3> QED
      BY <3>1, <3>2, <3>3, <3>4 DEF Modes
  <2> QED
    BY <2>2, <2>6 DEF Selected
<1> QED
  BY <1>1, PTL

(* A row of one's own leads shows some instance, and only what opens.       *)
THEOREM MineAlwaysOpens == Spec => []MineShowsWhatOpens
<1>1. IInv => MineShowsWhatOpens
  <2> SUFFICES ASSUME IInv, NEW u \in User, NEW q \in Query, q.mode = "mine", Selected(u, q)
               PROVE  Shown(u, q) # {} /\ Shown(u, q) \subseteq VisibleInstances(u)
    BY DEF MineShowsWhatOpens
  <2>1. TypeOK /\ leadActive /\ Permitted(u) /\ Answered(u, q)
    BY DEF IInv, Selected, Answered
  <2>2. processExists(u, q) # {} /\ Shown(u, q) = processWhere(u, q)
    BY DEF Selected, accessClause, Shown
  <2>3. Shown(u, q) # {}
    BY <2>1, <2>2, ChosenAreShown
  <2>4. ASSUME NEW i \in processWhere(u, q)
        PROVE  i \in VisibleInstances(u)
    <3>1. /\ i \in open
          /\ JourneyIn(i) \in Journeys(u, q)
          /\ statusVisibleOr(u, q, i)
          /\ Assigned(i, q.types, UserCondition(u, q))
      BY <2>4 DEF processWhere
    <3>2. JourneyIn(i) \in role[u].journeys
      BY <2>1, <3>1 DEF Answered, Journeys
    <3>3. \A U \in SUBSET User : Assigned(i, q.types, U) => AssignmentScopeAllows(i, U)
      <4> SUFFICES ASSUME NEW U \in SUBSET User, Assigned(i, q.types, U)
                   PROVE  AssignmentScopeAllows(i, U)
        OBVIOUS
      <4>1. Assigned(i, {}, U)
        BY DEF Assigned, Named
      <4> QED
        BY <2>1, <3>1, <4>1, SameAssignments
    <3>4. Team(u) \subseteq User /\ AllowedUsers(u) \subseteq User
      BY <2>1, SetsOfUsers
    <3>5. StatusVisible(u, i)
      BY <3>1, <3>3, <3>4 DEF statusVisibleOr, StatusVisible
    <3>6. RecordAllowed(u, i)
      BY <3>1, <3>3, <3>4 DEF UserCondition, RecordAllowed
    <3> QED
      BY <2>1, <3>1, <3>2, <3>5, <3>6 DEF VisibleInstances, Opens
  <2> QED
    BY <2>2, <2>3, <2>4
<1> QED
  BY <1>1, Invariant, PTL

(* One rule of access for the list, the detail and the routed statuses.      *)
THEOREM AccessStaysOne == Spec => []AccessIsOne
<1>1. SurfacesAgree /\ RoutedIsForTheLine => AccessIsOne
  BY DEF AccessIsOne
<1> QED
  BY <1>1, SurfacesAlwaysAgree, RoutingNarrows, PTL

(* Whatever a list is asked for, in whichever form of its predicate, it      *)
(* shows nothing that the rule of access does not admit.                     *)
THEOREM QueriesAlwaysStayWithin == Spec => []QueriesStayWithin
<1>1. FormsAgree /\ FiltersOnlyNarrow /\ MineShowsWhatOpens => QueriesStayWithin
  BY DEF QueriesStayWithin
<1> QED
  BY <1>1, FormsAlwaysAgree, FiltersAlwaysNarrow, MineAlwaysOpens, PTL

-----------------------------------------------------------------------------
(* The walk down the reporting line and the chains that lead up it.        *)
Size == Cardinality(User)
Up(w) == IF w = NoUser THEN NoUser ELSE manager[w]
Below(W) == {u \in User : manager[u] \in W}

IsChain(c, u, N) ==
  c = [n \in 0 .. N |-> IF n = 0 THEN u
                        ELSE IF c[n - 1] = NoUser THEN NoUser ELSE manager[c[n - 1]]]
IsWalk(w, v, N) ==
  w = [n \in 0 .. N |-> IF n = 0 THEN {v}
                        ELSE w[n - 1] \cup {u \in User : manager[u] \in w[n - 1]}]

Chain(u) == CHOOSE c : IsChain(c, u, Size)
Walk(v) == CHOOSE w : IsWalk(w, v, Size)

LEMMA Upward ==
  ASSUME NEW T, 0 \in T, \A n \in Nat : n \in T => n + 1 \in T
  PROVE  Nat \subseteq T
<1> SUFFICES ASSUME Nat \ T # {} PROVE FALSE
  OBVIOUS
<1> DEFINE R == OpToRel(<, Nat)
<1>1. \A x, y \in Nat : <<y, x>> \in R <=> y < x
  BY DEF OpToRel
<1>2. IsWellFoundedOn(R, Nat)
  BY NatLessThanWellFounded
<1> HIDE DEF R
<1>3. PICK n \in Nat \ T : \A m \in Nat \ T : ~(<<m, n>> \in R)
  BY <1>2, WFMin
<1>4. n \in Nat \ {0} /\ n \notin T
  BY <1>3
<1>5. n - 1 \in Nat /\ n - 1 < n /\ (n - 1) + 1 = n
  BY <1>4
<1>6. n - 1 \in T
  BY <1>1, <1>3, <1>5
<1> QED
  BY <1>4, <1>5, <1>6

LEMMA SizeIsNat == Size \in Nat
  BY UsersAreFinite, FS_CardinalityType DEF Size

LEMMA AboveIsOfTheChain ==
  ASSUME NEW u
  PROVE  Above(u) = {Chain(u)[n] : n \in 1 .. Size}
  BY DEF Above, Chain, IsChain, Size

LEMMA TeamIsOfTheWalk ==
  ASSUME NEW v
  PROVE  Team(v) = {v} \cup (Walk(v)[Size] \cap active)
  BY DEF Team, Walk, IsWalk, Size

(* Both recursions have a value: a piece of it of every length exists.     *)
LEMMA ChainsExist ==
  ASSUME TypeOK, NEW u \in User
  PROVE  /\ Chain(u) \in [0 .. Size -> User \cup {NoUser}]
         /\ Chain(u)[0] = u
         /\ \A n \in 1 .. Size : Chain(u)[n] = Up(Chain(u)[n - 1])
<1> DEFINE T == {n \in Nat : \E c \in [0 .. n -> User \cup {NoUser}] : IsChain(c, u, n)}
<1>1. manager \in [User -> User \cup {NoUser}]
  BY ChartAssumption DEF TypeOK
<1>2. 0 \in T
  <2>1. IsChain([n \in 0 .. 0 |-> u], u, 0)
    BY DEF IsChain
  <2> QED
    BY <2>1
<1>3. ASSUME NEW n \in Nat, n \in T
      PROVE  n + 1 \in T
  <2>1. PICK c \in [0 .. n -> User \cup {NoUser}] : IsChain(c, u, n)
    BY <1>3
  <2> DEFINE d == [k \in 0 .. n + 1 |-> IF k <= n THEN c[k] ELSE Up(c[n])]
  <2>2. d \in [0 .. n + 1 -> User \cup {NoUser}]
    BY <1>1 DEF Up
  <2>3. \A k \in 0 .. n + 1 : d[k] = IF k = 0 THEN u ELSE IF d[k - 1] = NoUser THEN NoUser ELSE manager[d[k - 1]]
    BY <2>1 DEF IsChain, Up
  <2>4. IsChain(d, u, n + 1)
    BY <2>3 DEF IsChain
  <2> QED
    BY <2>2, <2>4
<1>4. Size \in T
  <2> HIDE DEF T
  <2> QED
    BY <1>2, <1>3, Upward, SizeIsNat
<1>5. \E c : IsChain(c, u, Size)
  BY <1>4
<1>6. IsChain(Chain(u), u, Size)
  BY <1>5 DEF Chain
<1>7. DOMAIN Chain(u) = 0 .. Size
  BY <1>6 DEF IsChain
<1>8. Chain(u)[0] = u /\ \A n \in 1 .. Size : Chain(u)[n] = Up(Chain(u)[n - 1])
  BY <1>6, SizeIsNat DEF IsChain, Up
<1> DEFINE K == {n \in Nat : n <= Size => Chain(u)[n] \in User \cup {NoUser}}
<1>9. 0 \in K
  BY <1>8
<1>10. ASSUME NEW n \in Nat, n \in K
       PROVE  n + 1 \in K
  <2> SUFFICES ASSUME n + 1 <= Size PROVE Chain(u)[n + 1] \in User \cup {NoUser}
    OBVIOUS
  <2>1. n + 1 \in 1 .. Size /\ (n + 1) - 1 = n
    BY SizeIsNat
  <2>2. Chain(u)[n + 1] = Up(Chain(u)[n])
    BY <1>8, <2>1
  <2>3. Chain(u)[n] \in User \cup {NoUser}
    BY <1>10, SizeIsNat
  <2> QED
    BY <1>1, <2>2, <2>3 DEF Up
<1>11. \A n \in 0 .. Size : Chain(u)[n] \in User \cup {NoUser}
  <2>1. Nat \subseteq K
    <3> HIDE DEF K
    <3> QED
      BY <1>9, <1>10, Upward
  <2> QED
    BY <2>1, SizeIsNat
<1>12. Chain(u) = [n \in 0 .. Size |-> Chain(u)[n]]
  BY <1>6 DEF IsChain
<1>13. Chain(u) \in [0 .. Size -> User \cup {NoUser}]
  BY <1>11, <1>12
<1> QED
  BY <1>8, <1>13

LEMMA WalksExist ==
  ASSUME TypeOK, NEW v \in User
  PROVE  /\ Walk(v)[0] = {v}
         /\ \A n \in 1 .. Size : Walk(v)[n] = Walk(v)[n - 1] \cup Below(Walk(v)[n - 1])
<1> DEFINE T == {n \in Nat : \E w : w = [k \in 0 .. n |-> w[k]] /\ IsWalk(w, v, n)}
<1>1. 0 \in T
  <2>1. IsWalk([n \in 0 .. 0 |-> {v}], v, 0)
    BY DEF IsWalk
  <2> QED
    BY <2>1
<1>2. ASSUME NEW n \in Nat, n \in T
      PROVE  n + 1 \in T
  <2>1. PICK w : w = [k \in 0 .. n |-> w[k]] /\ IsWalk(w, v, n)
    BY <1>2
  <2> DEFINE d == [k \in 0 .. n + 1 |-> IF k <= n THEN w[k] ELSE w[n] \cup {u \in User : manager[u] \in w[n]}]
  <2>2. \A k \in 0 .. n : w[k] = IF k = 0 THEN {v} ELSE w[k - 1] \cup {u \in User : manager[u] \in w[k - 1]}
    BY <2>1 DEF IsWalk
  <2>3. \A k \in 0 .. n + 1 : d[k] = IF k = 0 THEN {v} ELSE d[k - 1] \cup {u \in User : manager[u] \in d[k - 1]}
    <3> TAKE k \in 0 .. n + 1
    <3>1. CASE k = 0
      <4>1. d[0] = w[0] /\ 0 \in 0 .. n
        OBVIOUS
      <4>2. w[0] = {v}
        BY <2>2, <4>1
      <4> HIDE DEF d
      <4> QED
        BY <3>1, <4>1, <4>2
    <3>2. CASE k \in 1 .. n
      <4>1. d[k] = w[k] /\ d[k - 1] = w[k - 1] /\ k \in 0 .. n /\ k # 0
        BY <3>2
      <4> HIDE DEF d
      <4> QED
        BY <2>2, <4>1
    <3>3. CASE k = n + 1
      <4>1. d[k] = w[n] \cup {u \in User : manager[u] \in w[n]} /\ d[k - 1] = w[n] /\ k # 0
        BY <3>3
      <4> HIDE DEF d
      <4> QED
        BY <4>1
    <3> QED
      BY <3>1, <3>2, <3>3
  <2>4. d = [k \in 0 .. n + 1 |-> d[k]]
    OBVIOUS
  <2>5. IsWalk(d, v, n + 1)
    <3> HIDE DEF d
    <3> QED
      BY <2>3, <2>4 DEF IsWalk
  <2>6. \E w1 : w1 = [k \in 0 .. n + 1 |-> w1[k]] /\ IsWalk(w1, v, n + 1)
    BY <2>4, <2>5
  <2> QED
    BY <2>6
<1>3. Size \in T
  <2> HIDE DEF T
  <2> QED
    BY <1>1, <1>2, Upward, SizeIsNat
<1>4. \E w : IsWalk(w, v, Size)
  BY <1>3
<1>5. IsWalk(Walk(v), v, Size)
  BY <1>4 DEF Walk
<1>6. \A n \in 0 .. Size : Walk(v)[n] = IF n = 0 THEN {v}
                           ELSE Walk(v)[n - 1] \cup {u \in User : manager[u] \in Walk(v)[n - 1]}
  BY <1>5 DEF IsWalk
<1>7. 0 \in 0 .. Size /\ \A n \in 1 .. Size : n \in 0 .. Size /\ n # 0
  BY SizeIsNat
<1>8. Walk(v)[0] = {v}
  BY <1>6, <1>7
<1>9. \A n \in 1 .. Size : Walk(v)[n] = Walk(v)[n - 1] \cup {u \in User : manager[u] \in Walk(v)[n - 1]}
  BY <1>6, <1>7
<1> QED
  BY <1>8, <1>9 DEF Below

(* One step up first: the chain of a user is that of the manager, later.   *)
LEMMA ChainsAreShared ==
  ASSUME TypeOK, NEW u \in User
  PROVE  /\ manager[u] \in User =>
              \A n \in 1 .. Size : Chain(u)[n] = Chain(manager[u])[n - 1]
         /\ manager[u] = NoUser => \A n \in 1 .. Size : Chain(u)[n] = NoUser
<1>1. /\ Chain(u)[0] = u
      /\ \A n \in 1 .. Size : Chain(u)[n] = Up(Chain(u)[n - 1])
  BY ChainsExist
<1>2. 1 <= Size => Chain(u)[1] = manager[u]
  BY <1>1, SizeIsNat, NoUserAssumption DEF Up
<1>3. ASSUME manager[u] \in User
      PROVE  \A n \in 1 .. Size : Chain(u)[n] = Chain(manager[u])[n - 1]
  <2> DEFINE m == manager[u]
             T == {n \in Nat : n + 1 <= Size => Chain(u)[n + 1] = Chain(m)[n]}
  <2>1. Chain(m)[0] = m /\ \A n \in 1 .. Size : Chain(m)[n] = Up(Chain(m)[n - 1])
    BY <1>3, ChainsExist
  <2>2. 0 \in T
    BY <1>2, <2>1
  <2>3. ASSUME NEW n \in Nat, n \in T PROVE n + 1 \in T
    <3> SUFFICES ASSUME n + 2 <= Size PROVE Chain(u)[n + 2] = Chain(m)[n + 1]
      BY <2>2
    <3>1. Chain(u)[n + 1] = Chain(m)[n]
      BY <2>3, SizeIsNat
    <3>2. n + 2 \in 1 .. Size /\ n + 1 \in 1 .. Size /\ (n + 2) - 1 = n + 1 /\ (n + 1) - 1 = n
      BY SizeIsNat
    <3> QED
      BY <1>1, <2>1, <3>1, <3>2
  <2>4. Nat \subseteq T
    <3> HIDE DEF T
    <3> QED
      BY <2>2, <2>3, Upward
  <2>5. \A n \in 1 .. Size : n - 1 \in Nat /\ (n - 1) + 1 = n /\ n <= Size
    BY SizeIsNat
  <2> QED
    BY <2>4, <2>5
<1>4. ASSUME manager[u] = NoUser
      PROVE  \A n \in 1 .. Size : Chain(u)[n] = NoUser
  <2> DEFINE T == {n \in Nat : n + 1 <= Size => Chain(u)[n + 1] = NoUser}
  <2>1. 0 \in T
    BY <1>2, <1>4
  <2>2. ASSUME NEW n \in Nat, n \in T PROVE n + 1 \in T
    <3> SUFFICES ASSUME n + 2 <= Size PROVE Chain(u)[n + 2] = NoUser
      BY <2>1
    <3>1. Chain(u)[n + 1] = NoUser
      BY <2>2, SizeIsNat
    <3>2. n + 2 \in 1 .. Size /\ (n + 2) - 1 = n + 1
      BY SizeIsNat
    <3> QED
      BY <1>1, <3>1, <3>2 DEF Up
  <2>3. Nat \subseteq T
    <3> HIDE DEF T
    <3> QED
      BY <2>1, <2>2, Upward
  <2>4. \A n \in 1 .. Size : n - 1 \in Nat /\ (n - 1) + 1 = n /\ n <= Size
    BY SizeIsNat
  <2> QED
    BY <2>3, <2>4
<1> QED
  BY <1>3, <1>4

(* The walk down finds after n steps whose chain leads up within n.        *)
LEMMA WalksMeetChains ==
  ASSUME TypeOK, NEW v \in User, NEW n \in 0 .. Size
  PROVE  Walk(v)[n] = {u \in User : \E k \in 0 .. n : Chain(u)[k] = v}
<1> DEFINE Reached(m) == {u \in User : \E k \in 0 .. m : Chain(u)[k] = v}
           T == {m \in Nat : m <= Size => Walk(v)[m] = Reached(m)}
<1>1. /\ Walk(v)[0] = {v}
      /\ \A m \in 1 .. Size : Walk(v)[m] = Walk(v)[m - 1] \cup Below(Walk(v)[m - 1])
  BY WalksExist
<1>2. 0 \in T
  <2>1. \A u \in User : Chain(u)[0] = u
    BY ChainsExist
  <2>2. Reached(0) = {v}
    BY <2>1
  <2> QED
    BY <1>1, <2>2
<1>3. ASSUME NEW m \in Nat, m \in T PROVE m + 1 \in T
  <2> SUFFICES ASSUME m + 1 <= Size PROVE Walk(v)[m + 1] = Reached(m + 1)
    OBVIOUS
  <2>1. Walk(v)[m] = Reached(m)
    BY <1>3, SizeIsNat
  <2>2. m + 1 \in 1 .. Size /\ (m + 1) - 1 = m
    BY SizeIsNat
  <2>3. Walk(v)[m + 1] = Walk(v)[m] \cup Below(Walk(v)[m])
    BY <1>1, <2>2
  <2>4. ASSUME NEW u \in User
        PROVE  u \in Reached(m + 1) <=> u \in Reached(m) \/ manager[u] \in Reached(m)
    <3>1. manager[u] \in User \cup {NoUser}
      BY ChartAssumption DEF TypeOK
    <3>2. CASE manager[u] \in User
      <4>1. \A k \in 1 .. Size : Chain(u)[k] = Chain(manager[u])[k - 1]
        BY <3>2, ChainsAreShared
      <4>2. ASSUME NEW k \in 0 .. m + 1, Chain(u)[k] = v
            PROVE  u \in Reached(m) \/ manager[u] \in Reached(m)
        <5>1. CASE k = 0
          BY <4>2, <5>1
        <5>2. CASE k \in 1 .. m + 1
          <6>1. k \in 1 .. Size /\ k - 1 \in 0 .. m
            BY <5>2, SizeIsNat
          <6> QED
            BY <3>2, <4>1, <4>2, <6>1
        <5> QED
          BY <5>1, <5>2
      <4>3. ASSUME NEW k \in 0 .. m, Chain(manager[u])[k] = v
            PROVE  u \in Reached(m + 1)
        <5>1. k + 1 \in 1 .. Size /\ (k + 1) - 1 = k /\ k + 1 \in 0 .. m + 1
          BY SizeIsNat
        <5> QED
          BY <4>1, <4>3, <5>1
      <4>4. 0 .. m \subseteq 0 .. m + 1
        OBVIOUS
      <4> QED
        BY <4>2, <4>3, <4>4
    <3>3. CASE manager[u] = NoUser
      <4>1. \A k \in 1 .. Size : Chain(u)[k] = NoUser
        BY <3>3, ChainsAreShared
      <4>2. \A k \in 0 .. m + 1 : k \in 0 .. m \/ k \in 1 .. Size
        BY SizeIsNat
      <4>3. 0 .. m \subseteq 0 .. m + 1
        OBVIOUS
      <4>4. NoUser \notin Reached(m) /\ v # NoUser
        BY NoUserAssumption
      <4> QED
        BY <3>3, <4>1, <4>2, <4>3, <4>4
    <3> QED
      BY <3>1, <3>2, <3>3
  <2>5. Reached(m) \subseteq User /\ Reached(m + 1) \subseteq User
    OBVIOUS
  <2> HIDE DEF Reached
  <2>6. \A u \in User : u \in Reached(m + 1) <=> u \in Reached(m) \cup Below(Reached(m))
    BY <2>4 DEF Below
  <2> QED
    BY <2>1, <2>3, <2>5, <2>6 DEF Below
<1>4. Nat \subseteq T
  <2> HIDE DEF T
  <2> QED
    BY <1>2, <1>3, Upward
<1> QED
  BY <1>4, SizeIsNat

(* The walk down the reporting line finds exactly those whose chain of      *)
(* managers leads up to the user, for any chart, with any loops, and        *)
(* whoever in between has left (scope.ts, expandTeamUserIds).               *)
THEOREM TeamStaysTheLineBelow == Spec => []TeamIsTheLineBelow
<1>1. IInv => TeamIsTheLineBelow
  <2> SUFFICES ASSUME IInv, NEW v \in User
               PROVE  Team(v) = {v} \cup {u \in active : v \in Above(u)}
    BY DEF TeamIsTheLineBelow
  <2>1. TypeOK /\ active \subseteq User
    BY DEF IInv, TypeOK
  <2>2. Walk(v)[Size] = {u \in User : \E k \in 0 .. Size : Chain(u)[k] = v}
    <3>1. Size \in 0 .. Size
      BY SizeIsNat
    <3> QED
      BY <2>1, <3>1, WalksMeetChains
  <2>3. \A u \in User : Chain(u)[0] = u
    BY <2>1, ChainsExist
  <2>4. \A u \in User : u # v => (u \in Walk(v)[Size] <=> v \in Above(u))
    <3>1. \A k \in 0 .. Size : k = 0 \/ k \in 1 .. Size
      BY SizeIsNat
    <3>2. 1 .. Size \subseteq 0 .. Size
      BY SizeIsNat
    <3> QED
      BY <2>2, <2>3, <3>1, <3>2, AboveIsOfTheChain
  <2> QED
    BY <2>1, <2>4, TeamIsOfTheWalk
<1> QED
  BY <1>1, Invariant, PTL
=============================================================================
