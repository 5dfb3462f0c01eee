----------------------------- MODULE LeadAccess -----------------------------
(***************************************************************************)
(* Who may see one lead.  The rule is written twice in the code: once for   *)
(* a single record (resolveAuthorization, asked for every process instance *)
(* of a lead by resolveLeadAccess) and once as SQL for the list, its count, *)
(* exports and campaign audiences (buildSellerListQuery).                   *)
(*                                                                         *)
(* The lead, its assignments, its shares, the routing rules, the users and  *)
(* the roles change under them, one committed transaction at a time.  The   *)
(* decisions keep no state: they are operators of the state.               *)
(***************************************************************************)
EXTENDS Integers, FiniteSets

CONSTANTS
  User,
  DepartmentOf, \* department of a user, or NoDepartment
  Journey,
  Status,
  JourneyOf,    \* the journey of a status
  Type,         \* assignment types
  Instance,     \* bound: ids of the process instances the lead ever has
  Charts,       \* bound: the reporting lines considered
  Roles,        \* bound: the roles users are given, a set of functions of users
  MaxLeavers,   \* bound: users deactivated
  MaxShares,    \* bound: live grants
  NoUser, NoDepartment

Scope == {"SELF", "TEAM", "DEPARTMENT", "ORGANIZATION"}

(* What of a user's role matters here: the scope of leads:view ("none" when *)
(* it is not granted), the journeys and leads:bypass_status_visibility.     *)
RoleType == [scope : Scope \cup {"none"}, journeys : SUBSET Journey, bypass : BOOLEAN,
             live : BOOLEAN]

ASSUME UsersAreFinite == IsFiniteSet(User)
ASSUME NoUserAssumption == NoUser \notin User
ASSUME JourneyAssumption == JourneyOf \in [Status -> Journey]
ASSUME ChartAssumption == Charts \subseteq [User -> User \cup {NoUser}]
ASSUME RoleAssumption == Roles \subseteq [User -> RoleType]

VARIABLES
  (* users and roles *)
  active,      \* users
  manager,     \* users.manager_id
  role,
  (* status_routing_rules *)
  routed,      \* statuses with an active rule
  (* the lead *)
  leadActive,
  made,        \* its process instances ...
  open,        \* ... those with active set
  status,      \* current_status_id, and with it journey_id
  holder,      \* whose assignment of a type is current
  shared       \* users with a live grant for 'view'

people == <<active, manager, role>>
lead == <<leadActive, made, open, status, holder, shared>>
vars == <<people, routed, lead>>

(* The current holders of an instance. *)
Holders == [Type -> User \cup {NoUser}]

(* validateAssignments: a new instance is assigned to somebody. *)
Assignments == {h \in Holders : \E t \in Type : h[t] # NoUser}

TypeOK ==
  /\ active \in SUBSET User
  /\ manager \in Charts
  /\ role \in Roles
  /\ routed \in SUBSET Status
  /\ leadActive \in BOOLEAN
  /\ made \in SUBSET Instance
  /\ open \in SUBSET made
  /\ status \in [made -> Status]
  /\ holder \in [made -> Holders]
  /\ shared \in SUBSET User

JourneyIn(i) == JourneyOf[status[i]]
TypesOf(i) == {t \in Type : holder[i][t] # NoUser}
Unheld(i) == TypesOf(i) = {}

-----------------------------------------------------------------------------
(* What both forms of the rule start from.                                  *)

(* Mutant: the walk down the reporting line stops at inactive users. *)
TeamSevered(v) ==
  LET walk[n \in 0 .. Cardinality(User)] ==
        IF n = 0 THEN {v}
        ELSE walk[n - 1] \cup {u \in active : manager[u] \in walk[n - 1]}
  IN  walk[Cardinality(User)]

(* expandTeamUserIds: everybody reached through manager_id is visited, only *)
(* the active are included.                                                 *)
Team(v) ==
  LET walk[n \in 0 .. Cardinality(User)] ==
        IF n = 0 THEN {v}
        ELSE walk[n - 1] \cup {u \in User : manager[u] \in walk[n - 1]}
  IN  {v} \cup (walk[Cardinality(User)] \cap active)

DepartmentUsers(v) ==
  IF DepartmentOf[v] = NoDepartment
    THEN {v} ELSE {u \in active : DepartmentOf[u] = DepartmentOf[v]}

AllowedUsers(v) ==
  CASE role[v].scope = "SELF" -> {v}
    [] role[v].scope = "TEAM" -> Team(v)
    [] role[v].scope = "DEPARTMENT" -> DepartmentUsers(v)
    [] OTHER -> User

Permitted(v) == v \in active /\ role[v].live /\ role[v].scope # "none"

(* Mutant: no types named means none, as it once did. *)
NamedOnly(types, t) == t \in types

Named(types, t) == types = {} \/ t \in types

Assigned(i, types, users) == \E t \in Type : Named(types, t) /\ holder[i][t] \in users

-----------------------------------------------------------------------------
(* One record.                                                              *)

(* listCurrentAssignments: those in the journey asked about, whether their  *)
(* instance is active or not.                                               *)
Considered(i) == {k \in made : JourneyIn(k) = JourneyIn(i)}

AssignmentScopeAllows(i, users) == \E k \in Considered(i) : Assigned(k, TypesOf(i), users)

StatusVisible(v, i) ==
  \/ role[v].bypass
  \/ status[i] \notin routed
  \/ v \in shared
  \/ AssignmentScopeAllows(i, Team(v))

RecordAllowed(v, i) ==
  \/ role[v].scope = "ORGANIZATION"
  \/ AssignmentScopeAllows(i, AllowedUsers(v))
  \/ v \in shared

Opens(v, i) ==
  /\ Permitted(v)
  /\ JourneyIn(i) \in role[v].journeys
  /\ StatusVisible(v, i)
  /\ RecordAllowed(v, i)

VisibleInstances(v) == {i \in open : Opens(v, i)}

-----------------------------------------------------------------------------
(* The list, asked for without naming assignment types. *)

StatusClause(v, i) ==
  role[v].bypass \/ status[i] \notin routed \/ Assigned(i, {}, Team(v))

InJourneys(v) == {i \in open : JourneyIn(i) \in role[v].journeys}

(* processExists: the instances that bring a lead into the list. *)
Matching(v) ==
  {i \in InJourneys(v) : StatusClause(v, i) /\ Assigned(i, {}, AllowedUsers(v))}

Listed(v) ==
  /\ Permitted(v)
  /\ leadActive
  /\ Matching(v) # {} \/ (v \in shared /\ InJourneys(v) # {})

(* The instances the row of a listed lead comes with. *)
Displayed(v) == Matching(v) \cup InJourneys(v)

-----------------------------------------------------------------------------

(* The lead: createLead for this lead, first or again.  Whether it is still *)
(* active is not looked at; one active instance per journey is              *)
(* process_instances_active_membership_uq.                                  *)
Create(i, s, h) ==
  /\ i \in Instance \ made
  /\ \A k \in open : JourneyIn(k) # JourneyOf[s]
  /\ made' = made \cup {i}
  /\ open' = open \cup {i}
  /\ status' = [k \in made \cup {i} |-> IF k = i THEN s ELSE status[k]]
  /\ holder' = [k \in made \cup {i} |-> IF k = i THEN h ELSE holder[k]]
  /\ UNCHANGED <<people, routed, leadActive, shared>>

(* moveJourney. *)
Move(i, s) ==
  /\ i \in open
  /\ \A k \in open : JourneyIn(k) # JourneyOf[s]
  /\ status' = [status EXCEPT ![i] = s]
  /\ UNCHANGED <<people, routed, leadActive, made, open, holder, shared>>

(* A new current holder; the previous one may be left a grace grant. *)
Handover(i, t, u) ==
  /\ holder' = [holder EXCEPT ![i][t] = u]
  /\ \/ UNCHANGED shared
     \/ /\ holder[i][t] \in active \ {u}
        /\ Cardinality(shared) < MaxShares
        /\ shared' = shared \cup {holder[i][t]}

(* editLead with a status, or deactivateStatus with a replacement: entering *)
(* a routed one assigns somebody, unless its pool has nobody.               *)
ChangeStatus(i, s) ==
  /\ i \in open
  /\ s # status[i] /\ JourneyOf[s] = JourneyIn(i)
  /\ status' = [status EXCEPT ![i] = s]
  /\ \/ UNCHANGED <<holder, shared>>
     \/ s \in routed /\ \E t \in Type, u \in active : Handover(i, t, u)
  /\ UNCHANGED <<people, routed, leadActive, made, open>>

(* reassign, of a type that has a holder. *)
Reassign(i, t, u) ==
  /\ i \in made
  /\ holder[i][t] # NoUser /\ u \in active
  /\ Handover(i, t, u)
  /\ UNCHANGED <<people, routed, leadActive, made, open, status>>

(* routing-assign, outside of any transaction: it ends the assignment in one *)
(* statement and creates the next in another, which may fail or be           *)
(* forestalled.  Its grace grant is a statement of its own, like Share.      *)
EndAssignment(i, t) ==
  /\ i \in made
  /\ holder[i][t] # NoUser /\ routed # {}
  /\ holder' = [holder EXCEPT ![i][t] = NoUser]
  /\ UNCHANGED <<people, routed, leadActive, made, open, status, shared>>

CreateAssignment(i, t, u) ==
  /\ i \in made
  /\ holder[i][t] = NoUser
  /\ holder' = [holder EXCEPT ![i][t] = u]
  /\ UNCHANGED <<people, routed, leadActive, made, open, status, shared>>

Share(u) ==
  /\ leadActive /\ u \in active
  /\ Cardinality(shared) < MaxShares
  /\ shared' = shared \cup {u}
  /\ UNCHANGED <<people, routed, leadActive, made, open, status, holder>>

(* A share is revoked or runs out. *)
Unshare(u) ==
  /\ u \in shared
  /\ shared' = shared \ {u}
  /\ UNCHANGED <<people, routed, leadActive, made, open, status, holder>>

DeactivateLead ==
  /\ leadActive
  /\ leadActive' = FALSE
  /\ open' = {}
  /\ shared' = {}
  /\ UNCHANGED <<people, routed, made, status, holder>>

(* Administration: a rule is set or cleared, the reporting line and the     *)
(* roles change, users leave for good.                                      *)
ConfigureRule(s) ==
  /\ routed' = IF s \in routed THEN routed \ {s} ELSE routed \cup {s}
  /\ UNCHANGED <<people, lead>>

UpdateUsers ==
  /\ manager' \in Charts
  /\ role' \in Roles
  /\ UNCHANGED <<active, routed, lead>>

DeactivateUser(u) ==
  /\ u \in active
  /\ Cardinality(User \ active) < MaxLeavers
  /\ active' = active \ {u}
  /\ UNCHANGED <<manager, role, routed, lead>>

Init ==
  /\ active = User
  /\ manager \in Charts
  /\ role \in Roles
  /\ routed = {}
  /\ leadActive = TRUE
  /\ \E i \in Instance, s \in Status, h \in Assignments :
       /\ made = {i} /\ open = {i}
       /\ status = [k \in {i} |-> s]
       /\ holder = [k \in {i} |-> h]
  /\ shared = {}

Next ==
  \/ \E i \in Instance :
       \/ \E s \in Status, h \in Assignments : Create(i, s, h)
       \/ \E s \in Status : Move(i, s) \/ ChangeStatus(i, s)
       \/ \E t \in Type, u \in User : Reassign(i, t, u) \/ CreateAssignment(i, t, u)
       \/ \E t \in Type : EndAssignment(i, t)
  \/ \E u \in User : Share(u) \/ Unshare(u) \/ DeactivateUser(u)
  \/ \E s \in Status : ConfigureRule(s)
  \/ UpdateUsers
  \/ DeactivateLead

Spec == Init /\ [][Next]_vars

-----------------------------------------------------------------------------
(* Properties.                                                              *)

(* prisma-permission-repository.ts: the single-record decision and the list *)
(* "must agree with this same rule or the surfaces would disagree about one *)
(* lead".  An active lead is in a user's list exactly when it opens for     *)
(* them through an instance that somebody holds, or by a share.  What else  *)
(* opens is an instance that a routing-assign left without a holder, and    *)
(* only to a scope of the organization: the list asks for some assignment,  *)
(* the decision does not.                                                   *)
SurfacesAgree ==
  leadActive =>
    \A v \in User :
      /\ Listed(v) <=> \E i \in VisibleInstances(v) : v \in shared \/ ~Unheld(i)
      /\ \A i \in VisibleInstances(v) :
           v \in shared \/ ~Unheld(i) \/ role[v].scope = "ORGANIZATION"

(* Without that exception, which routing/service.ts:250-263 opens.          *)
SurfacesAgreeOnTheUnheld ==
  leadActive => \A v \in User : Listed(v) <=> VisibleInstances(v) # {}

(* access-model.md: in a status with an active rule "visibility narrows to  *)
(* the lead's current assignee plus everyone above the assignee".  No other *)
(* instance of the lead, past or present, lets anybody else in.             *)
RoutedIsForTheLine ==
  leadActive =>
    \A v \in User : \A i \in VisibleInstances(v) :
      status[i] \in routed /\ ~role[v].bypass /\ v \notin shared
      => \E t \in Type : holder[i][t] \in Team(v)

(* One rule of access, whatever shows the lead: the list, the detail and    *)
(* what a routing rule makes of both.                                       *)
AccessIsOne == SurfacesAgree /\ RoutedIsForTheLine

(* scope.ts: a deactivated manager "must not sever the reports' own manager *)
(* chain".  The walk down finds exactly the active users whose chain of     *)
(* managers leads up to the user, whatever loops the chart has.             *)
Above(u) ==
  LET chain[n \in 0 .. Cardinality(User)] ==
        IF n = 0 THEN u
        ELSE IF chain[n - 1] = NoUser THEN NoUser ELSE manager[chain[n - 1]]
  IN  {chain[n] : n \in 1 .. Cardinality(User)}

TeamIsTheLineBelow ==
  \A v \in User : Team(v) = {v} \cup {u \in active : v \in Above(u)}

(* ADR-0006's amendment: offboarding a manager must not cut "that whole     *)
(* remaining branch off from the rest of the hierarchy".  When somebody     *)
(* leaves, nobody else loses sight of an instance of an active lead except  *)
(* of one the leaver holds.                                                 *)
DeparturesHideOnlyTheirOwn ==
  [][leadActive /\ active' # active =>
       \A u \in active' : \A i \in VisibleInstances(u) \ VisibleInstances(u)' :
         \E t \in Type : holder[i][t] \in active \ active']_vars

(* ADR-0020: in a routed status a lead is visible to "the lead's current    *)
(* assignee, plus everyone above the assignee in the reporting hierarchy".  *)
TheLineAboveSees ==
  \A u \in active : \A i \in open, t \in Type :
    holder[i][t] # NoUser /\ u \in Above(holder[i][t]) => StatusVisible(u, i)

(* prisma-lead-repository.ts: a row "shows exactly the processes that       *)
(* justified including it", as the detail does.                             *)
RowsShowWhatOpens ==
  leadActive =>
    \A v \in User : Listed(v) => Displayed(v) \subseteq VisibleInstances(v)

-----------------------------------------------------------------------------
(* What a list of sellers may be asked for: a view (mine, shared with me,   *)
(* all), one journey, one status, one owner, some assignment types.  The    *)
(* predicate is written twice, too: buildSellerListQuery's SQL chooses the  *)
(* rows, and the Prisma form it replaced (sellerWhere, processWhere) is     *)
(* kept to compare it with and chooses what a row shows.                    *)
CONSTANTS Query,             \* bound: the queries considered
          NoJourney, NoStatus \* the query does not say

Modes == {"mine", "shared_with_me", "all"}

ASSUME QueryAssumption ==
  Query \subseteq [mode : Modes, journey : Journey \cup {NoJourney}, status : Status \cup {NoStatus},
                   owner : User \cup {NoUser}, types : SUBSET Type]

(* listSellers asks for leads:view in the journey named, and refuses the    *)
(* query when it is denied.  A status alone is never refused: no lead is    *)
(* named.                                                                   *)
Answered(u, q) == Permitted(u) /\ q.journey \in role[u].journeys \cup {NoJourney}

Journeys(u, q) == IF q.journey = NoJourney THEN role[u].journeys ELSE {q.journey}

StatusAsked(q, i) == q.status \in {NoStatus, status[i]}
OwnerAsked(q, u) == q.owner \in {NoUser, u}

-----------------------------------------------------------------------------
(* The SQL.                                                                 *)

statusVisibilityClause(u, q, i) ==
  role[u].bypass \/ status[i] \notin routed \/ Assigned(i, q.types, Team(u))

(* Mutant: the owner asked for is looked at in place of the scope. *)
OwnerInPlaceOfScope(u, q) ==
  {i \in open :
     /\ JourneyIn(i) \in Journeys(u, q)
     /\ StatusAsked(q, i)
     /\ statusVisibilityClause(u, q, i)
     /\ \E t \in Type : /\ Named(q.types, t)
                        /\ holder[i][t] \in IF q.owner = NoUser THEN AllowedUsers(u) ELSE {q.owner}}

processExists(u, q) ==
  {i \in open :
     /\ JourneyIn(i) \in Journeys(u, q)
     /\ StatusAsked(q, i)
     /\ statusVisibilityClause(u, q, i)
     /\ \E t \in Type : Named(q.types, t) /\ OwnerAsked(q, holder[i][t]) /\ holder[i][t] \in AllowedUsers(u)}

accessClause(u, q) ==
  CASE q.mode = "shared_with_me" -> u \in shared /\ open # {}
    [] q.mode = "mine" -> processExists(u, q) # {}
    [] q.mode = "all" -> \/ processExists(u, q) # {}
                         \/ u \in shared /\ \E i \in open : JourneyIn(i) \in Journeys(u, q)

Selected(u, q) == Answered(u, q) /\ leadActive /\ accessClause(u, q)

-----------------------------------------------------------------------------
(* The Prisma form.                                                         *)

statusVisibleOr(u, q, i) ==
  \/ role[u].bypass
  \/ ~(status[i] \in routed)
  \/ status[i] \in routed /\ Assigned(i, q.types, Team(u))

(* The scope and the owner are two values of one key, and a scope of all    *)
(* sets none: the owner counts only then.                                   *)
UserCondition(u, q) ==
  IF role[u].scope # "ORGANIZATION" THEN AllowedUsers(u)
  ELSE IF q.owner # NoUser THEN {q.owner} ELSE User

processWhere(u, q) ==
  {i \in open :
     /\ JourneyIn(i) \in Journeys(u, q)
     /\ StatusAsked(q, i)
     /\ statusVisibleOr(u, q, i)
     /\ Assigned(i, q.types, UserCondition(u, q))}

sellerWhere(u, q) ==
  /\ leadActive
  /\ \/ q.mode # "shared_with_me" /\ processWhere(u, q) # {}
     \/ q.mode # "mine" /\ u \in shared
        /\ \E i \in open : q.mode = "all" => JourneyIn(i) \in Journeys(u, q)

(* What the row of a selected lead comes with.                              *)
(* Mutant: mine shows whatever is in a journey of the role, as all does. *)

Shown(u, q) ==
  CASE q.mode = "shared_with_me" -> open
    [] q.mode = "mine" -> processWhere(u, q)
    [] q.mode = "all" -> processWhere(u, q) \cup {i \in open : JourneyIn(i) \in Journeys(u, q)}

-----------------------------------------------------------------------------
(* prisma-lead-repository.ts: the Prisma form "must stay in lockstep with   *)
(* filter-sql.ts's SQL form".  They select the same leads for everybody who *)
(* asks without an owner, or with one and a scope of the organization.      *)
FormsAgree ==
  \A u \in User, q \in Query :
    Answered(u, q) /\ (q.owner = NoUser \/ role[u].scope = "ORGANIZATION") =>
      (Selected(u, q) <=> sellerWhere(u, q))

(* filter-sql.ts: "no filter can reach a record the caller's scope          *)
(* excludes".  Naming a journey, a status, an owner or types brings no lead *)
(* into a view that is not in it without.                                   *)
Unfiltered(q) == [q EXCEPT !.journey = NoJourney, !.status = NoStatus, !.owner = NoUser, !.types = {}]

FiltersOnlyNarrow ==
  \A u \in User, q \in Query : Selected(u, q) => Selected(u, Unfiltered(q))

(* prisma-lead-repository.ts: a row "shows exactly the processes that       *)
(* justified including it".  A row of mine shows some instance, and none    *)
(* that the detail of the lead would keep from the same user.               *)
MineShowsWhatOpens ==
  \A u \in User, q \in Query :
    q.mode = "mine" /\ Selected(u, q) =>
      Shown(u, q) # {} /\ Shown(u, q) \subseteq VisibleInstances(u)

(* What a list is asked for changes what it shows of what may be seen, and   *)
(* never what may be seen, in either form of its predicate.                 *)
QueriesStayWithin == FormsAgree /\ FiltersOnlyNarrow /\ MineShowsWhatOpens

(* phase13b.postgres.integration.test.ts compares the two forms for equal   *)
(* rows; with an owner and a narrower scope they differ.                    *)
FormsAgreeOnOwners ==
  \A u \in User, q \in Query : Answered(u, q) => (Selected(u, q) <=> sellerWhere(u, q))
=============================================================================
