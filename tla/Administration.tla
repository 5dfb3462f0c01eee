-------------------------- MODULE Administration --------------------------
(***************************************************************************)
(* Users, roles and teams as the administration requests change them       *)
(* (prisma-admin-repository.ts): who holds which role, who reports to whom, *)
(* who is in which team and which team is active.                          *)
(*                                                                         *)
(* Each request is one READ COMMITTED transaction.  The reads its checks    *)
(* rest on are a step of their own, each row lock it waits for is a step,   *)
(* and its writes are one step, since nobody sees them before the commit.   *)
(***************************************************************************)
EXTENDS Integers, FiniteSets, FiniteSetsExt

CONSTANTS
  User, Role, Department,
  Team,            \* team ids; endTeamMemberships locks them in this order
  TeamDepartment,  \* the department a team is created in
  Session,         \* request handlers that run at the same time
  Organizations,   \* what the organization may look like at first
  MaxRequest,      \* bound: requests ever begun
  NoUser, NoRole, NoDepartment, NoTeam

ASSUME UsersAreFinite == IsFiniteSet(User)
ASSUME TeamAssumption == Team \subseteq Nat /\ TeamDepartment \in [Team -> Department]
ASSUME AbsentAssumption ==
  NoUser \notin User /\ NoRole \notin Role /\ NoDepartment \notin Department /\ NoTeam \notin Team
ASSUME MaxRequestAssumption == MaxRequest \in Nat

VARIABLES
  person,   \* users
  role,     \* roles
  manages,  \* roles with a role_permissions row roles_permissions:edit
  team,     \* teams and team_members
  session,  \* requests
  begun,    \* how many there have been
  late      \* history: teams given a member who was already on the way out

rows == <<person, role, manages, team>>
vars == <<rows, session, begun, late>>

Life == {"none", "active", "inactive"}
PersonType == [life : Life, role : Role \cup {NoRole},
               department : Department \cup {NoDepartment}, manager : User \cup {NoUser}]
TeamType == [life : Life, members : SUBSET User, leaders : SUBSET User]

(* An organization the database can hold: roles that exist, teams of live   *)
(* users of their department, and a leader in each active one.              *)
Legal(o) ==
  /\ o.person \in [User -> PersonType] /\ o.role \in [Role -> Life]
  /\ o.manages \subseteq Role /\ o.team \in [Team -> TeamType]
  /\ \A u \in User : o.person[u].life # "none" => o.person[u].role \in Role
  /\ \A t \in Team :
       /\ o.team[t].leaders \subseteq o.team[t].members
       /\ o.team[t].life = "active" => o.team[t].leaders # {}
       /\ o.team[t].life = "none" => o.team[t].members = {}
       /\ \A u \in o.team[t].members :
            o.person[u].life = "active" /\ o.person[u].department = TeamDepartment[t]

ASSUME OrganizationsAssumption == \A o \in Organizations : Legal(o)

Idle == [at |-> "idle", kind |-> "none", user |-> NoUser, role |-> NoRole,
         department |-> NoDepartment, manager |-> NoUser, team |-> NoTeam,
         members |-> {}, leaders |-> {}, into |-> NoRole, keeps |-> FALSE,
         found |-> {}, held |-> {}, left |-> {}, unled |-> {}, stale |-> FALSE]

SessionType ==
  [at : {"idle", "memberships", "lock", "leave", "user", "set", "retire", "permit"},
   kind : {"none", "create", "update", "deactivate", "team", "members", "role", "permissions"},
   user : User \cup {NoUser}, role : Role \cup {NoRole},
   department : Department \cup {NoDepartment}, manager : User \cup {NoUser},
   team : Team \cup {NoTeam}, members : SUBSET User, leaders : SUBSET User,
   into : Role \cup {NoRole}, keeps : BOOLEAN,
   found : SUBSET Team, held : SUBSET Team,
   left : SUBSET Team, unled : SUBSET Team, stale : BOOLEAN]

Active(u) == person[u].life = "active"
MemberOf(u) == {t \in Team : u \in team[t].members}
Manages(u) == person[u].role \in manages
(* Whom the permission engine lets edit roles: a live user in a live role.  *)
Administers(u) == Active(u) /\ Manages(u) /\ role[person[u].role] = "active"
HasAdministrator == \E u \in User : Administers(u)

At(x, place) == session[x].at = place
Others(x) == Session \ {x}
TeamHeld(x, t) == \E y \in Others(x) : t \in session[y].held
RoleHeld(x, r) == \E y \in Others(x) : At(y, "permit") /\ session[y].role = r

(* A request comes with the session of a live user.                         *)
Ready(x) == At(x, "idle") /\ begun < MaxRequest /\ \E u \in User : Active(u)

Begin(x, request) ==
  /\ session' = [session EXCEPT ![x] = request]
  /\ begun' = begun + 1
  /\ UNCHANGED <<rows, late>>

(* A commit: every other request's reads are from before it.                *)
Commits(x) ==
  session' = [y \in Session |->
                IF y = x THEN Idle
                ELSE IF At(y, "idle") THEN session[y] ELSE [session[y] EXCEPT !.stale = TRUE]]
Aborts(x) == session' = [session EXCEPT ![x] = Idle]

-----------------------------------------------------------------------------
(* validateUserRefs: an active role, and a line of active managers that     *)
(* ends without meeting the user.                                           *)
Line(b) ==
  LET up[n \in 0 .. Cardinality(User)] ==
        IF n = 0 THEN b ELSE IF up[n - 1] = NoUser THEN NoUser ELSE person[up[n - 1]].manager
  IN  up

(* Mutant: only the manager itself is compared with the user.               *)
ManagerIsFit(u, b) == b # NoUser => b # u /\ Active(b)

LineIsSound(u, b) ==
  LET up == Line(b)
  IN  /\ up[Cardinality(User)] = NoUser
      /\ \A n \in DOMAIN up : up[n] # NoUser => up[n] # u /\ Active(up[n])

(* Mutant: any role of the organization will do.                           *)
UserInputInAnyRole(u, r, d, b) == role[r] # "none" /\ LineIsSound(u, b)

UserInput(u, r, d, b) == role[r] = "active" /\ LineIsSound(u, b)

(* The id is a new one: nobody else is creating the same user.              *)
CreateUser(x, u, r, d, b) ==
  /\ person[u].life = "none"
  /\ \A y \in Others(x) : session[y].kind = "create" => session[y].user # u
  /\ UserInput(u, r, d, b)
  /\ Begin(x, [Idle EXCEPT !.at = "user", !.kind = "create", !.user = u, !.role = r,
                           !.department = d, !.manager = b])

(* Nothing asks whether the user is active, or administers alone.           *)
UpdateUser(x, u, r, d, b) ==
  /\ person[u].life # "none"
  /\ UserInput(u, r, d, b)
  /\ Begin(x, [Idle EXCEPT !.at = IF d # person[u].department THEN "memberships" ELSE "user",
                           !.kind = "update", !.user = u, !.role = r,
                           !.department = d, !.manager = b])

(* Mutant: the count of administrators that remain includes the leaver.     *)
AnotherManages(u) == Manages(u) => \E w \in User : Active(w) /\ Manages(w)

(* The remaining administrators are counted whatever state their role is in. *)
NotTheLastAdministrator(u) == Manages(u) => \E w \in User \ {u} : Active(w) /\ Manages(w)

DeactivateUser(x, u) ==
  /\ Active(u)
  /\ NotTheLastAdministrator(u)
  /\ Begin(x, [Idle EXCEPT !.at = "memberships", !.kind = "deactivate", !.user = u])

(* endTeamMemberships: no membership, nothing to end ...                    *)
ReadMemberships(x) ==
  LET found == MemberOf(session[x].user)
  IN  /\ At(x, "memberships")
      /\ session' = [session EXCEPT ![x].at = IF found = {} THEN "user" ELSE "lock",
                                    ![x].found = found]
      /\ UNCHANGED <<rows, begun, late>>

Locks(x, t) ==
  /\ ~TeamHeld(x, t)
  /\ session' = [session EXCEPT
       ![x].held = @ \cup {t},
       ![x].at = IF session[x].found = session[x].held \cup {t} THEN "leave" ELSE "lock"]
  /\ UNCHANGED <<rows, begun, late>>

(* Mutant: the teams are locked in whatever order the query returned them.  *)
LockAnyTeam(x) ==
  At(x, "lock") /\ \E t \in session[x].found \ session[x].held : Locks(x, t)

(* Mutant: the teams are not locked at all.                                 *)
LockNoTeam(x) ==
  /\ At(x, "lock")
  /\ session' = [session EXCEPT ![x].at = "leave"]
  /\ UNCHANGED <<rows, begun, late>>

(* ... else the teams found are locked one after the other ...              *)
LockTeam(x) ==
  At(x, "lock") /\ Locks(x, Min(session[x].found \ session[x].held))

Unled(u, t) == team[t].life = "active" /\ team[t].leaders \ {u} = {}

(* ... every membership of the user is deleted, those in teams that were    *)
(* not found included, and a found team this leaves without a leader is     *)
(* deactivated; all of it unseen until the commit.                          *)
LeaveTeams(x) ==
  LET u == session[x].user
  IN  /\ At(x, "leave")
      /\ session' = [session EXCEPT ![x].at = "user", ![x].left = MemberOf(u),
                                    ![x].unled = {t \in session[x].found : Unled(u, t)}]
      /\ UNCHANGED <<rows, begun, late>>

TeamLeft(x, t) ==
  LET without(U) == IF t \in session[x].left THEN U \ {session[x].user} ELSE U
  IN  [life |-> IF t \in session[x].unled THEN "inactive" ELSE team[t].life,
       members |-> without(team[t].members), leaders |-> without(team[t].leaders)]

(* The keys of team_members refuse a new department while a row with the    *)
(* old one is left.                                                         *)
KeysAllow(x) ==
  session[x].kind = "update" /\ session[x].department # person[session[x].user].department
    => MemberOf(session[x].user) \subseteq session[x].left

Written(s) ==
  CASE s.kind = "create" ->
         [life |-> "active", role |-> s.role, department |-> s.department, manager |-> s.manager]
    [] s.kind = "update" ->
         [person[s.user] EXCEPT !.role = s.role, !.department = s.department,
                                !.manager = s.manager]
    [] s.kind = "deactivate" -> [person[s.user] EXCEPT !.life = "inactive"]

WriteUser(x) ==
  LET s == session[x]
      row == Written(s)
  IN  /\ At(x, "user")
      /\ row.role # person[s.user].role => ~RoleHeld(x, row.role)
      /\ IF KeysAllow(x)
           THEN /\ person' = [person EXCEPT ![s.user] = row]
                /\ team' = [t \in Team |-> TeamLeft(x, t)]
                /\ Commits(x)
           ELSE Aborts(x) /\ UNCHANGED <<person, team>>
      /\ UNCHANGED <<role, manages, begun, late>>

-----------------------------------------------------------------------------
(* validateTeamMembers, after teamMembers: at least one leader, and active  *)
(* members of the department.                                               *)
MembersFit(t, M, L) ==
  /\ L \subseteq M /\ L # {}
  /\ \A u \in M : Active(u) /\ person[u].department = TeamDepartment[t]

CreateTeam(x, t, M, L) ==
  /\ team[t].life = "none"
  /\ MembersFit(t, M, L)
  /\ Begin(x, [Idle EXCEPT !.at = "set", !.kind = "team", !.team = t,
                           !.members = M, !.leaders = L])

(* The team's row is locked before anything is read.                        *)
ReplaceTeamMembers(x, t, M, L) ==
  /\ ~TeamHeld(x, t)
  /\ team[t].life = "active"
  /\ MembersFit(t, M, L)
  /\ Begin(x, [Idle EXCEPT !.at = "set", !.kind = "members", !.team = t,
                           !.members = M, !.leaders = L, !.held = {t}])

(* On the way out: gone, or past the read of the teams to leave.            *)
Departing(u, t) ==
  \/ ~Active(u)
  \/ \E y \in Session :
       /\ session[y].user = u /\ session[y].kind \in {"update", "deactivate"}
       /\ ~At(y, "memberships") /\ t \notin session[y].found

(* A row somebody has deleted and not yet committed.                        *)
RowsHeld(t) == \E y \in Session : t \in session[y].left

(* Mutant: the row's department is the one the members had when checked.    *)
KeepsNothing(t, M) == TRUE

(* The keys of team_members hold the members to the department, and nothing *)
(* holds them to being active.                                              *)
KeepsDepartment(t, M) == \A u \in M : person[u].department = TeamDepartment[t]

WriteTeam(x) ==
  LET s == session[x]
  IN  /\ At(x, "set")
      /\ ~RowsHeld(s.team)
      /\ IF KeepsDepartment(s.team, s.members) /\ (s.kind = "team" => team[s.team].life = "none")
           THEN /\ team' = [team EXCEPT ![s.team] =
                     [life |-> "active", members |-> s.members, leaders |-> s.leaders]]
                /\ late' = IF \E u \in s.members : Departing(u, s.team)
                             THEN late \cup {s.team} ELSE late \ {s.team}
                /\ Commits(x)
           ELSE Aborts(x) /\ UNCHANGED <<team, late>>
      /\ UNCHANGED <<person, role, manages, begun>>

DeactivateTeam(x, t) ==
  /\ ~TeamHeld(x, t)
  /\ team[t].life = "active"
  /\ team' = [team EXCEPT ![t].life = "inactive"]
  /\ begun' = begun + 1
  /\ Commits(x)
  /\ UNCHANGED <<person, role, manages, late>>

-----------------------------------------------------------------------------
(* bootstrapFirstAdmin: under an advisory lock, in an organization without  *)
(* users, one role with every grant and one user in it.                     *)
Bootstrap(u, r) ==
  /\ \A w \in User : person[w].life = "none"
  /\ role[r] = "none"
  /\ role' = [role EXCEPT ![r] = "active"]
  /\ manages' = manages \cup {r}
  /\ person' = [person EXCEPT ![u] = [life |-> "active", role |-> r,
                                      department |-> NoDepartment, manager |-> NoUser]]
  /\ UNCHANGED <<team, session, begun, late>>

CreateRole(x, r) ==
  /\ HasAdministrator
  /\ role[r] = "none"
  /\ role' = [role EXCEPT ![r] = "active"]
  /\ begun' = begun + 1
  /\ Commits(x)
  /\ UNCHANGED <<person, manages, team, late>>

InRole(r) == {u \in User : Active(u) /\ person[u].role = r}

(* A replacement has to be another active role, and to manage roles itself  *)
(* if the retired role does and nobody outside the two roles does.          *)
ReplacementFits(r, into) ==
  /\ role[into] = "active" /\ into # r
  /\ r \in manages /\ into \notin manages =>
       \E u \in User : Active(u) /\ Manages(u) /\ person[u].role \notin {r, into}

DeactivateRole(x, r, into) ==
  /\ HasAdministrator
  /\ role[r] # "none"
  /\ IF into = NoRole THEN InRole(r) = {} ELSE ReplacementFits(r, into)
  /\ Begin(x, [Idle EXCEPT !.at = "retire", !.kind = "role", !.role = r, !.into = into])

(* Whoever is in the role by now moves to the replacement, if there is one. *)
WriteRole(x) ==
  LET r == session[x].role
      into == session[x].into
      moved == IF into = NoRole THEN {} ELSE InRole(r)
  IN  /\ At(x, "retire")
      /\ ~RoleHeld(x, r) /\ (moved # {} => ~RoleHeld(x, into))
      /\ person' = [u \in User |-> IF u \in moved THEN [person[u] EXCEPT !.role = into]
                                                  ELSE person[u]]
      /\ role' = [role EXCEPT ![r] = "inactive"]
      /\ Commits(x)
      /\ UNCHANGED <<manages, team, begun, late>>

ReplacePermissions(x, r, keeps) ==
  LET others == {u \in User : Administers(u) /\ person[u].role # r}
  IN  /\ HasAdministrator
      /\ ~RoleHeld(x, r)
      /\ role[r] = "active"
      /\ others # {} \/ (keeps /\ InRole(r) # {})
      /\ Begin(x, [Idle EXCEPT !.at = "permit", !.kind = "permissions", !.role = r,
                               !.keeps = keeps])

WritePermissions(x) ==
  LET r == session[x].role
  IN  /\ At(x, "permit")
      /\ manages' = IF session[x].keeps THEN manages \cup {r} ELSE manages \ {r}
      /\ Commits(x)
      /\ UNCHANGED <<person, role, team, begun, late>>
-----------------------------------------------------------------------------
Init ==
  /\ \E o \in Organizations :
       person = o.person /\ role = o.role /\ manages = o.manages /\ team = o.team
  /\ session = [x \in Session |-> Idle]
  /\ begun = 0
  /\ late = {}

Step(x) ==
  \/ ReadMemberships(x) \/ LockTeam(x) \/ LeaveTeams(x) \/ WriteUser(x)
  \/ WriteTeam(x) \/ WriteRole(x) \/ WritePermissions(x)

UserRequest(x) ==
  \E u \in User :
    \/ DeactivateUser(x, u)
    \/ \E r \in Role, d \in Department \cup {NoDepartment}, b \in User \cup {NoUser} :
         CreateUser(x, u, r, d, b) \/ UpdateUser(x, u, r, d, b)

TeamRequest(x) ==
  \E t \in Team :
    \/ DeactivateTeam(x, t)
    \/ \E M \in SUBSET User : \E L \in SUBSET M :
         CreateTeam(x, t, M, L) \/ ReplaceTeamMembers(x, t, M, L)

RoleRequest(x) ==
  \E r \in Role :
    \/ CreateRole(x, r)
    \/ \E into \in Role \cup {NoRole} : DeactivateRole(x, r, into)
    \/ \E keeps \in BOOLEAN : ReplacePermissions(x, r, keeps)

Next ==
  \/ \E x \in Session :
       \/ Step(x)
       \/ Ready(x) /\ (UserRequest(x) \/ TeamRequest(x) \/ RoleRequest(x))
  \/ \E u \in User, r \in Role : Bootstrap(u, r)

Spec == Init /\ [][Next]_vars

-----------------------------------------------------------------------------
(* Properties.                                                              *)

TypeOK ==
  /\ person \in [User -> PersonType]
  /\ \A u \in User : person[u].life # "none" => person[u].role \in Role
  /\ role \in [Role -> Life]
  /\ manages \in SUBSET Role
  /\ team \in [Team -> TeamType]
  /\ \A t \in Team : team[t].leaders \subseteq team[t].members
  /\ session \in [Session -> SessionType]
  /\ begun \in 0 .. MaxRequest
  /\ late \in SUBSET Team

(* endTeamMemberships: whoever leaves and in whatever overlap, an active    *)
(* team has a leader, unless it was given a member who was already past the *)
(* read of the teams to leave.                                              *)
TeamsAreLed ==
  \A t \in Team : team[t].life = "active" => team[t].leaders # {} \/ t \in late

(* team_members' keys and the cascade: a membership is one of the team's    *)
(* department, and of a live user except in such a team.                    *)
MembersServe ==
  \A t \in Team : \A u \in team[t].members :
    /\ person[u].department = TeamDepartment[t]
    /\ Active(u) \/ t \in late

(* "Teams are locked in sorted id order so two of these running at once     *)
(* queue instead of deadlocking": nobody holds what another waits for while *)
(* waiting for what that other holds.                                       *)
WaitsFor(x) ==
  IF At(x, "lock") THEN {Min(session[x].found \ session[x].held)} ELSE {}
NoDeadlock ==
  \A x \in Session : \A y \in Others(x) :
    ~(WaitsFor(x) \cap session[y].held # {} /\ WaitsFor(y) \cap session[x].held # {})

(* A live user is in a live role, unless a request that something overtook  *)
(* put them there or retired it.                                            *)
RolesServe == \A u \in User : Active(u) => role[person[u].role] = "active"
RolesKeepServing ==
  [][RolesServe /\ ~RolesServe' =>
       \E x \in Session : session[x].stale /\ session'[x].at = "idle"]_vars

(* While live users are in live roles, the last administrator is never lost *)
(* to a guarded request whose reads were still true when it committed:      *)
(* updateUser, which has no guard, and a request that something overtook    *)
(* are the only ways.                                                       *)
AdministratorsRemain ==
  [][RolesServe /\ HasAdministrator /\ ~HasAdministrator' =>
       \E x \in Session :
         /\ session[x].at # "idle" /\ session'[x].at = "idle"
         /\ session[x].kind = "update" \/ session[x].stale]_vars

(* validateUserRefs: the reporting lines stay free of loops, unless a       *)
(* request that something overtook closes one.                              *)
Loopless == \A u \in User : Line(u)[Cardinality(User)] = NoUser
ChartStaysLoopless ==
  [][Loopless /\ ~Loopless' =>
       \E x \in Session : At(x, "user") /\ session[x].stale /\ session'[x].at = "idle"]_vars

(* ADR-0014: active implies led "holds at every commit".                    *)
EveryActiveTeamIsLed == \A t \in Team : team[t].life = "active" => team[t].leaders # {}
=============================================================================
