----------------------- MODULE Administration_proofs -----------------------
(***************************************************************************)
(* What the row locks, the keys of team_members and the checks at the      *)
(* start of each administration request guarantee for any users, roles,    *)
(* teams and requests, in whatever overlap, and what the pages that edit a *)
(* whole set of grants keep of it.                                         *)
(***************************************************************************)
EXTENDS Administration, RoleEditor, FiniteSetTheorems, SequenceTheorems,
        WellFoundedInduction, TLAPS

(* field_visibility: its roles are those above, its requests its own.       *)
CONSTANTS Field, Editor, MaxEdit, NoField
VARIABLES level, version, edit, edits
INSTANCE FieldVisibility

(* What a request's fields are at each of its statements.                  *)
Shape(s) ==
  /\ s.at = "idle" => s = Idle
  /\ s.at \in {"memberships", "lock", "leave"} => s.kind \in {"update", "deactivate"}
  /\ s.at = "user" => s.kind \in {"create", "update", "deactivate"}
  /\ s.kind \in {"create", "update", "deactivate"} => s.user \in User
  /\ s.kind \in {"create", "update"} => s.role \in Role
  /\ s.kind = "create" => s.at = "user" /\ s.found = {}
  /\ s.at = "set" => /\ s.kind \in {"team", "members"} /\ s.team \in Team
                     /\ s.leaders \subseteq s.members /\ s.leaders # {}
  /\ s.at = "set" => s.held = IF s.kind = "members" THEN {s.team} ELSE {}
  /\ s.at = "retire" => s.kind = "role" /\ s.role \in Role
  /\ s.at = "permit" => s.kind = "permissions" /\ s.role \in Role
  /\ s.at \in {"memberships", "retire", "permit"} => s.held = {}
  /\ s.at \in {"leave", "user"} => s.held = s.found
  /\ s.at \notin {"lock", "leave", "user"} => s.found = {}
  /\ s.at # "user" => s.left = {} /\ s.unled = {}
  /\ s.unled \subseteq s.found
  /\ s.at = "lock" => /\ s.held \subseteq s.found /\ s.found \ s.held # {}
                      /\ \A h \in s.held, w \in s.found \ s.held : h < w

Shapes == \A x \in Session : Shape(session[x])

(* A team's row is locked by one request at a time.                        *)
HeldOnce == \A x \in Session : \A y \in Others(x) : session[x].held \cap session[y].held = {}

(* Who and what is named exists, and never ceases to.                      *)
Exists(u) == person[u].life # "none"
Existing ==
  /\ \A t \in Team : /\ team[t].life = "none" => team[t].members = {}
                     /\ \A u \in team[t].members : Exists(u)
  /\ \A x \in Session :
       /\ \A t \in session[x].found \cup session[x].held : team[t].life # "none"
       /\ session[x].at = "set" => \A u \in session[x].members : Exists(u)
       /\ session[x].kind \in {"update", "deactivate"} => Exists(session[x].user)
       /\ session[x].at # "idle" => \E u \in User : Exists(u)

(* A user being created is nobody yet, and is created once.                *)
NewIds ==
  \A x \in Session : session[x].kind = "create" =>
    /\ ~Exists(session[x].user)
    /\ \A y \in Others(x) : session[y].kind = "create" => session[y].user # session[x].user

(* A team that a leaving user is in and that was not found is late.        *)
Leaving(s) == s.at \in {"lock", "leave"} \/ (s.at = "user" /\ s.kind = "deactivate")
JoinedLate ==
  \A x \in Session : Leaving(session[x]) =>
    \A t \in Team \ session[x].found : session[x].user \in team[t].members => t \in late

(* Of the memberships deleted and not committed, those in teams that were   *)
(* not locked are in late teams; in the others none is left.               *)
LeftKnown ==
  \A x \in Session : session[x].at = "user" =>
    /\ session[x].left \ session[x].found \subseteq late
    /\ \A t \in session[x].found : session[x].user \in team[t].members => t \in session[x].left

(* ... and a locked team that is not going to be deactivated keeps a leader *)
(* who is not the one that leaves.                                         *)
StillLed ==
  \A x \in Session : session[x].at = "user" =>
    \A t \in session[x].found \ late :
      team[t].life = "active" => t \in session[x].unled \/ team[t].leaders \ {session[x].user} # {}

IInv ==
  /\ TypeOK /\ Shapes /\ HeldOnce /\ Existing /\ NewIds
  /\ JoinedLate /\ LeftKnown /\ StillLed /\ TeamsAreLed /\ MembersServe

(* Everything but whether something was committed since.                   *)
Like(s, t) ==
  /\ s.at = t.at /\ s.kind = t.kind /\ s.user = t.user /\ s.role = t.role
  /\ s.department = t.department /\ s.manager = t.manager /\ s.team = t.team
  /\ s.members = t.members /\ s.leaders = t.leaders /\ s.into = t.into /\ s.keeps = t.keeps
  /\ s.found = t.found /\ s.held = t.held /\ s.left = t.left /\ s.unled = t.unled

-----------------------------------------------------------------------------
(* What the ways to move one request do to all of them.                    *)
LEMMA IdleIsTyped == Idle \in SessionType
BY DEF Idle, SessionType

LEMMA StaleIsTyped ==
  ASSUME NEW s \in SessionType
  PROVE  [s EXCEPT !.stale = TRUE] \in SessionType
BY DEF SessionType

LEMMA CommitFacts ==
  ASSUME session \in [Session -> SessionType], NEW x \in Session, Commits(x)
  PROVE  /\ session' \in [Session -> SessionType]
         /\ session'[x] = Idle
         /\ \A y \in Others(x) :
              /\ Like(session'[y], session[y])
              /\ session[y].at # "idle" => session'[y].stale
              /\ session[y].at = "idle" => session'[y] = session[y]
<1>1. session'[x] = Idle
  BY DEF Commits
<1>2. \A y \in Session : [session[y] EXCEPT !.stale = TRUE] \in SessionType
  BY StaleIsTyped
<1>3. session' \in [Session -> SessionType]
  BY <1>2, IdleIsTyped DEF Commits
<1>4. ASSUME NEW y \in Others(x)
      PROVE  /\ Like(session'[y], session[y])
             /\ session[y].at # "idle" => session'[y].stale
             /\ session[y].at = "idle" => session'[y] = session[y]
  <2>1. y \in Session /\ y # x /\ session[y] \in SessionType
    BY <1>4 DEF Others
  <2>2. CASE session[y].at = "idle"
    BY <2>1, <2>2 DEF Commits, At, Like
  <2>3. CASE session[y].at # "idle"
    <3>1. session'[y] = [session[y] EXCEPT !.stale = TRUE]
      BY <2>1, <2>3 DEF Commits, At
    <3> QED
      BY <2>1, <2>3, <3>1 DEF Like, SessionType
  <2> QED
    BY <2>2, <2>3
<1> QED
  BY <1>1, <1>3, <1>4

LEMMA LikeShape ==
  ASSUME NEW s \in SessionType, NEW t \in SessionType, Like(s, t), Shape(t), t.at # "idle"
  PROVE  Shape(s)
BY DEF Like, Shape

(* What is named in the invariant of a request is not changed by the mark   *)
(* of another's commit: a step that commits keeps the others' part of it.   *)
Beside(x) == \A y \in Others(x) : session'[y] = session[y] \/
               (Like(session'[y], session[y]) /\ session[y].at # "idle")

LEMMA CommitBeside ==
  ASSUME session \in [Session -> SessionType], NEW x \in Session, Commits(x)
  PROVE  session' \in [Session -> SessionType] /\ session'[x] = Idle /\ Beside(x)
BY CommitFacts DEF Beside

LEMMA AbortBeside ==
  ASSUME session \in [Session -> SessionType], NEW x \in Session, Aborts(x)
  PROVE  session' \in [Session -> SessionType] /\ session'[x] = Idle /\ Beside(x)
BY IdleIsTyped DEF Aborts, Beside, Others

LEMMA BeginBeside ==
  ASSUME session \in [Session -> SessionType], NEW x \in Session, NEW r \in SessionType, Begin(x, r)
  PROVE  session' \in [Session -> SessionType] /\ session'[x] = r /\ Beside(x)
BY DEF Begin, Beside, Others

LEMMA BesideShapes ==
  ASSUME session \in [Session -> SessionType], session' \in [Session -> SessionType],
         Shapes, NEW x \in Session, Beside(x), Shape(session'[x])
  PROVE  Shapes'
<1> SUFFICES ASSUME NEW y \in Session PROVE Shape(session'[y])
  BY DEF Shapes
<1>1. CASE y = x
  BY <1>1
<1>2. CASE y # x
  <2>1. y \in Others(x) /\ Shape(session[y])
    BY <1>2 DEF Others, Shapes
  <2> QED
    BY <2>1, LikeShape DEF Beside
<1> QED
  BY <1>1, <1>2

(* The statements on the way to the write keep the request and its user.    *)
LEMMA MoveBeside ==
  ASSUME session \in [Session -> SessionType], NEW x \in Session, NEW r \in SessionType,
         session' = [session EXCEPT ![x] = r]
  PROVE  session' \in [Session -> SessionType] /\ session'[x] = r /\ Beside(x)
BY DEF Beside, Others

-----------------------------------------------------------------------------
(* A request begins.                                                       *)
LEMMA BeginKeeps ==
  ASSUME IInv, NEW x \in Session, NEW r \in SessionType, Ready(x), Begin(x, r),
         Shape(r), r.at # "idle", ~Leaving(r), r.found = {}, r.left = {},
         \A t \in r.held : ~TeamHeld(x, t) /\ team[t].life # "none",
         r.at = "set" => \A u \in r.members : Exists(u),
         r.kind \in {"update", "deactivate"} => Exists(r.user),
         r.kind = "create" => /\ ~Exists(r.user)
                              /\ \A y \in Others(x) : session[y].kind = "create" => session[y].user # r.user
  PROVE  IInv'
<1>1. session \in [Session -> SessionType] /\ UNCHANGED <<person, role, manages, team, late>>
  BY DEF IInv, TypeOK, Begin, rows
<1>2. session' \in [Session -> SessionType] /\ session'[x] = r
      /\ \A y \in Others(x) : session'[y] = session[y]
  BY <1>1 DEF Begin, Others
<1>3. TypeOK'
  <2>1. begun' \in 0 .. MaxRequest
    BY MaxRequestAssumption DEF IInv, TypeOK, Begin, Ready
  <2> QED
    BY <1>1, <1>2, <2>1 DEF IInv, TypeOK
<1>4. Shapes'
  BY <1>1, <1>2, BesideShapes DEF Beside, IInv
<1>5. HeldOnce'
  BY <1>2 DEF IInv, HeldOnce, TeamHeld, Others
<1>6. Existing'
  BY <1>1, <1>2 DEF IInv, Existing, Exists, Others, Ready, Active
<1>7. NewIds'
  BY <1>1, <1>2 DEF IInv, NewIds, Exists, Others
<1>8. JoinedLate'
  BY <1>1, <1>2 DEF IInv, JoinedLate, Leaving, Others
<1>9. LeftKnown' /\ StillLed'
  BY <1>1, <1>2 DEF IInv, LeftKnown, StillLed, Others
<1>10. TeamsAreLed' /\ MembersServe'
  BY <1>1 DEF IInv, TeamsAreLed, MembersServe, Active
<1> QED
  BY <1>3, <1>4, <1>5, <1>6, <1>7, <1>8, <1>9, <1>10 DEF IInv

LEMMA UserRequestKeeps ==
  ASSUME IInv, NEW x \in Session, Ready(x), UserRequest(x)
  PROVE  IInv'
<1>1. PICK u \in User :
        \/ DeactivateUser(x, u)
        \/ \E r \in Role, d \in Department \cup {NoDepartment}, b \in User \cup {NoUser} :
             CreateUser(x, u, r, d, b) \/ UpdateUser(x, u, r, d, b)
  BY DEF UserRequest
<1>2. CASE DeactivateUser(x, u)
  <2> DEFINE q == [Idle EXCEPT !.at = "memberships", !.kind = "deactivate", !.user = u]
  <2>1. q \in SessionType /\ Shape(q) /\ ~Leaving(q)
    <3>1. q \in SessionType
      BY DEF Idle, SessionType
    <3>2. Shape(q)
      BY DEF Idle, Shape
    <3>3. ~Leaving(q)
      BY DEF Idle, Leaving
    <3> QED
      BY <3>1, <3>2, <3>3
  <2>2. /\ q.at = "memberships" /\ q.kind = "deactivate" /\ q.user = u
        /\ q.found = {} /\ q.left = {} /\ q.held = {}
    BY DEF Idle
  <2>3. Begin(x, q) /\ Exists(u)
    BY <1>2 DEF DeactivateUser, Active, Exists
  <2> HIDE DEF q
  <2> QED
    BY <2>1, <2>2, <2>3, BeginKeeps
<1>3. ASSUME NEW r \in Role, NEW d \in Department \cup {NoDepartment}, NEW b \in User \cup {NoUser},
             CreateUser(x, u, r, d, b)
      PROVE  IInv'
  <2> DEFINE q == [Idle EXCEPT !.at = "user", !.kind = "create", !.user = u, !.role = r,
                               !.department = d, !.manager = b]
  <2>1. q \in SessionType /\ Shape(q) /\ ~Leaving(q)
    <3>1. q \in SessionType
      BY DEF Idle, SessionType
    <3>2. Shape(q)
      BY DEF Idle, Shape
    <3>3. ~Leaving(q)
      BY DEF Idle, Leaving
    <3> QED
      BY <3>1, <3>2, <3>3
  <2>2. /\ q.at = "user" /\ q.kind = "create" /\ q.user = u
        /\ q.found = {} /\ q.left = {} /\ q.held = {}
    BY DEF Idle
  <2>3. Begin(x, q) /\ ~Exists(u)
        /\ \A y \in Others(x) : session[y].kind = "create" => session[y].user # u
    BY <1>3 DEF CreateUser, Exists
  <2> HIDE DEF q
  <2> QED
    BY <2>1, <2>2, <2>3, BeginKeeps
<1>4. ASSUME NEW r \in Role, NEW d \in Department \cup {NoDepartment}, NEW b \in User \cup {NoUser},
             UpdateUser(x, u, r, d, b)
      PROVE  IInv'
  <2> DEFINE a == IF d # person[u].department THEN "memberships" ELSE "user"
             q == [Idle EXCEPT !.at = a, !.kind = "update", !.user = u, !.role = r,
                               !.department = d, !.manager = b]
  <2>1. q \in SessionType /\ Shape(q) /\ ~Leaving(q)
    <3>1. q \in SessionType
      BY DEF Idle, SessionType
    <3>2. Shape(q)
      BY DEF Idle, Shape
    <3>3. ~Leaving(q)
      BY DEF Idle, Leaving
    <3> QED
      BY <3>1, <3>2, <3>3
  <2>2. /\ q.at \in {"memberships", "user"} /\ q.kind = "update" /\ q.user = u
        /\ q.found = {} /\ q.left = {} /\ q.held = {}
    BY DEF Idle
  <2>3. Begin(x, q) /\ Exists(u)
    BY <1>4 DEF UpdateUser, Exists
  <2> HIDE DEF q
  <2> QED
    BY <2>1, <2>2, <2>3, BeginKeeps
<1> QED
  BY <1>1, <1>2, <1>3, <1>4

LEMMA RoleRequestsKeep ==
  ASSUME IInv, NEW x \in Session, Ready(x), NEW r \in Role,
         \/ \E into \in Role \cup {NoRole} : DeactivateRole(x, r, into)
         \/ \E keeps \in BOOLEAN : ReplacePermissions(x, r, keeps)
  PROVE  IInv'
<1>1. ASSUME NEW into \in Role \cup {NoRole}, DeactivateRole(x, r, into)
      PROVE  IInv'
  <2> DEFINE q == [Idle EXCEPT !.at = "retire", !.kind = "role", !.role = r, !.into = into]
  <2>1. q \in SessionType /\ Shape(q) /\ ~Leaving(q)
    <3>1. q \in SessionType
      BY DEF Idle, SessionType
    <3>2. Shape(q)
      BY DEF Idle, Shape
    <3>3. ~Leaving(q)
      BY DEF Idle, Leaving
    <3> QED
      BY <3>1, <3>2, <3>3
  <2>2. q.at = "retire" /\ q.kind = "role" /\ q.found = {} /\ q.left = {} /\ q.held = {}
    BY DEF Idle
  <2>3. Begin(x, q)
    BY <1>1 DEF DeactivateRole
  <2> HIDE DEF q
  <2> QED
    BY <2>1, <2>2, <2>3, BeginKeeps
<1>2. ASSUME NEW keeps \in BOOLEAN, ReplacePermissions(x, r, keeps)
      PROVE  IInv'
  <2> DEFINE q == [Idle EXCEPT !.at = "permit", !.kind = "permissions", !.role = r, !.keeps = keeps]
  <2>1. q \in SessionType /\ Shape(q) /\ ~Leaving(q)
    <3>1. q \in SessionType
      BY DEF Idle, SessionType
    <3>2. Shape(q)
      BY DEF Idle, Shape
    <3>3. ~Leaving(q)
      BY DEF Idle, Leaving
    <3> QED
      BY <3>1, <3>2, <3>3
  <2>2. q.at = "permit" /\ q.kind = "permissions" /\ q.found = {} /\ q.left = {} /\ q.held = {}
    BY DEF Idle
  <2>3. Begin(x, q)
    BY <1>2 DEF ReplacePermissions
  <2> HIDE DEF q
  <2> QED
    BY <2>1, <2>2, <2>3, BeginKeeps
<1> QED
  BY <1>1, <1>2

LEMMA TeamRequestsKeep ==
  ASSUME IInv, NEW x \in Session, Ready(x), NEW t \in Team,
         NEW M \in SUBSET User, NEW L \in SUBSET M,
         CreateTeam(x, t, M, L) \/ ReplaceTeamMembers(x, t, M, L)
  PROVE  IInv'
<1>1. CASE CreateTeam(x, t, M, L)
  <2> DEFINE q == [Idle EXCEPT !.at = "set", !.kind = "team", !.team = t,
                               !.members = M, !.leaders = L]
  <2>1. L # {} /\ \A u \in M : Exists(u)
    BY <1>1 DEF CreateTeam, MembersFit, Exists, Active
  <2>2. q \in SessionType /\ Shape(q) /\ ~Leaving(q)
    BY <2>1 DEF Idle, SessionType, Shape, Leaving
  <2>3. /\ q.at = "set" /\ q.kind = "team" /\ q.members = M
        /\ q.found = {} /\ q.left = {} /\ q.held = {}
    BY DEF Idle
  <2>4. Begin(x, q)
    BY <1>1 DEF CreateTeam
  <2> HIDE DEF q
  <2> QED
    BY <2>1, <2>2, <2>3, <2>4, BeginKeeps
<1>2. CASE ReplaceTeamMembers(x, t, M, L)
  <2> DEFINE q == [Idle EXCEPT !.at = "set", !.kind = "members", !.team = t,
                               !.members = M, !.leaders = L, !.held = {t}]
  <2>1. /\ L # {} /\ \A u \in M : Exists(u)
        /\ ~TeamHeld(x, t) /\ team[t].life # "none"
    BY <1>2 DEF ReplaceTeamMembers, MembersFit, Exists, Active
  <2>2. q \in SessionType /\ Shape(q) /\ ~Leaving(q)
    BY <2>1 DEF Idle, SessionType, Shape, Leaving
  <2>3. /\ q.at = "set" /\ q.kind = "members" /\ q.members = M
        /\ q.found = {} /\ q.left = {} /\ q.held = {t}
    BY DEF Idle
  <2>4. Begin(x, q)
    BY <1>2 DEF ReplaceTeamMembers
  <2> HIDE DEF q
  <2> QED
    BY <2>1, <2>2, <2>3, <2>4, BeginKeeps
<1> QED
  BY <1>1, <1>2

-----------------------------------------------------------------------------
(* A request moves on, and nothing is written yet.                         *)
LEMMA MoveKeeps ==
  ASSUME IInv, NEW x \in Session, NEW r \in SessionType,
         session' = [session EXCEPT ![x] = r], UNCHANGED <<rows, begun, late>>,
         Shape(r), session[x].at # "idle", r.at # "set",
         r.kind = session[x].kind, r.user = session[x].user,
         \A y \in Others(x) : r.held \cap session[y].held = {},
         \A t \in r.found \cup r.held : team[t].life # "none",
         Leaving(r) => \A t \in Team \ r.found : r.user \in team[t].members => t \in late,
         r.at = "user" =>
           /\ r.left \ r.found \subseteq late
           /\ \A t \in r.found : r.user \in team[t].members => t \in r.left
           /\ \A t \in r.found \ late :
                team[t].life = "active" => t \in r.unled \/ team[t].leaders \ {r.user} # {}
  PROVE  IInv'
<1>1. session \in [Session -> SessionType] /\ UNCHANGED <<person, role, manages, team, late, begun>>
  BY DEF IInv, TypeOK, rows
<1>2. session' \in [Session -> SessionType] /\ session'[x] = r
      /\ \A y \in Others(x) : session'[y] = session[y]
  BY <1>1 DEF Others
<1>3. TypeOK'
  BY <1>1, <1>2 DEF IInv, TypeOK
<1>4. Shapes'
  BY <1>1, <1>2, BesideShapes DEF Beside, IInv
<1>5. HeldOnce'
  BY <1>2 DEF IInv, HeldOnce, Others
<1>6. Existing'
  BY <1>1, <1>2 DEF IInv, Existing, Exists, Others
<1>7. NewIds'
  BY <1>1, <1>2 DEF IInv, NewIds, Exists, Others
<1>8. JoinedLate'
  BY <1>1, <1>2 DEF IInv, JoinedLate, Leaving, Others
<1>9. LeftKnown'
  BY <1>1, <1>2 DEF IInv, LeftKnown, Others
<1>10. StillLed'
  BY <1>1, <1>2 DEF IInv, StillLed, Others
<1>11. TeamsAreLed' /\ MembersServe'
  BY <1>1 DEF IInv, TeamsAreLed, MembersServe, Active
<1> QED
  BY <1>3, <1>4, <1>5, <1>6, <1>7, <1>8, <1>9, <1>10, <1>11 DEF IInv

LEMMA MovedIsTyped ==
  ASSUME NEW s \in SessionType, NEW a \in {"lock", "leave", "user"},
         NEW F \in SUBSET Team, NEW W \in SUBSET Team
  PROVE  /\ [s EXCEPT !.at = a, !.found = F] \in SessionType
         /\ [s EXCEPT !.held = F, !.at = a] \in SessionType
         /\ [s EXCEPT !.at = a, !.left = F, !.unled = W] \in SessionType
<1>1. [s EXCEPT !.at = a, !.found = F] \in SessionType
  BY DEF SessionType
<1>2. [s EXCEPT !.held = F, !.at = a] \in SessionType
  BY DEF SessionType
<1>3. [s EXCEPT !.at = a, !.left = F, !.unled = W] \in SessionType
  BY DEF SessionType
<1> QED
  BY <1>1, <1>2, <1>3

LEMMA ReadMembershipsKeeps ==
  ASSUME IInv, NEW x \in Session, ReadMemberships(x)
  PROVE  IInv'
<1> DEFINE s == session[x]
           F == MemberOf(s.user)
           r == [s EXCEPT !.at = IF F = {} THEN "user" ELSE "lock", !.found = F]
<1>1. s \in SessionType /\ Shape(s) /\ s.at = "memberships"
  BY DEF IInv, TypeOK, Shapes, ReadMemberships, At
<1>2. F \subseteq Team /\ \A t \in Team : t \in F <=> s.user \in team[t].members
  BY DEF MemberOf
<1>3. r \in SessionType
  BY <1>1, <1>2, MovedIsTyped
<1>4. /\ r.at = (IF F = {} THEN "user" ELSE "lock") /\ r.found = F
      /\ r.kind = s.kind /\ r.user = s.user /\ r.role = s.role /\ r.team = s.team
      /\ r.held = s.held /\ r.left = s.left /\ r.unled = s.unled
  BY <1>1 DEF SessionType
<1>5. s.held = {} /\ s.left = {} /\ s.unled = {} /\ s.kind \in {"update", "deactivate"}
  BY <1>1 DEF Shape
<1>6. Shape(r)
  <2> HIDE DEF r, F
  <2>1. CASE F = {}
    BY <2>1, <1>1, <1>4, <1>5 DEF Shape
  <2>2. CASE F # {}
    BY <2>2, <1>1, <1>4, <1>5 DEF Shape
  <2> QED
    BY <2>1, <2>2
<1>7. session' = [session EXCEPT ![x] = r] /\ UNCHANGED <<rows, begun, late>>
  BY DEF ReadMemberships
<1>8. \A t \in F : team[t].life # "none"
  BY <1>2 DEF IInv, Existing
<1> HIDE DEF r, F
<1> QED
  BY <1>1, <1>2, <1>3, <1>4, <1>5, <1>6, <1>7, <1>8, MoveKeeps

(* The least of the rows not yet locked.                                   *)
LEMMA LeastOf ==
  ASSUME NEW S \in SUBSET Nat, S # {}
  PROVE  Min(S) \in S /\ \A t \in S : Min(S) <= t
<1> DEFINE R == OpToRel(<, Nat)
<1>1. \A a, b \in Nat : a < b => <<a, b>> \in R
  BY DEF OpToRel
<1>2. IsWellFoundedOn(R, Nat)
  BY NatLessThanWellFounded
<1> HIDE DEF R
<1>3. PICK t \in S : \A w \in S : ~(<<w, t>> \in R)
  BY <1>2, WFMin
<1>4. \A w \in S : ~(w < t)
  BY <1>1, <1>3, Zenon
<1>5. \A w \in S : t <= w
  BY <1>4
<1> QED
  BY <1>5 DEF Min

LEMMA LockTeamKeeps ==
  ASSUME IInv, NEW x \in Session, LockTeam(x)
  PROVE  IInv'
<1> DEFINE s == session[x]
           w == Min(s.found \ s.held)
           H == s.held \cup {w}
           r == [s EXCEPT !.held = H, !.at = IF s.found = H THEN "leave" ELSE "lock"]
<1>1. s \in SessionType /\ Shape(s) /\ s.at = "lock"
  BY DEF IInv, TypeOK, Shapes, LockTeam, At
<1>2. /\ s.found \subseteq Team /\ s.held \subseteq s.found /\ s.found \ s.held # {}
      /\ \A h \in s.held, v \in s.found \ s.held : h < v
      /\ s.left = {} /\ s.unled = {} /\ s.kind \in {"update", "deactivate"}
  BY <1>1 DEF SessionType, Shape
<1>3. w \in s.found \ s.held /\ \A v \in s.found \ s.held : w <= v
  BY <1>2, LeastOf, TeamAssumption
<1>4. r \in SessionType
  <2>1. H \in SUBSET Team
    BY <1>2, <1>3
  <2> HIDE DEF H
  <2> QED
    BY <1>1, <2>1, MovedIsTyped
<1>5. /\ r.at = (IF s.found = H THEN "leave" ELSE "lock") /\ r.found = s.found
      /\ r.kind = s.kind /\ r.user = s.user /\ r.role = s.role /\ r.team = s.team
      /\ r.held = H /\ r.left = s.left /\ r.unled = s.unled
  BY <1>1 DEF SessionType
<1>6. \A h \in H, v \in s.found \ H : h < v
  <2> SUFFICES ASSUME NEW h \in H, NEW v \in s.found \ H PROVE h < v
    OBVIOUS
  <2>1. v \in s.found \ s.held /\ v # w /\ w <= v
    BY <1>3
  <2>2. v \in Nat /\ w \in Nat
    BY <1>2, <1>3, TeamAssumption
  <2>3. CASE h = w
    BY <2>1, <2>2, <2>3
  <2>4. CASE h \in s.held
    BY <1>2, <2>1, <2>4
  <2> QED
    BY <2>3, <2>4
<1>7. Shape(r)
  BY <1>1, <1>2, <1>3, <1>5, <1>6 DEF Shape
<1>8. /\ session' = [session EXCEPT ![x] = r] /\ UNCHANGED <<rows, begun, late>>
      /\ ~TeamHeld(x, w)
  BY DEF LockTeam, Locks
<1>9. \A y \in Others(x) : H \cap session[y].held = {}
  BY <1>8 DEF IInv, HeldOnce, TeamHeld
<1>10. \A t \in s.found : team[t].life # "none"
  BY DEF IInv, Existing
<1>11. \A t \in Team \ s.found : s.user \in team[t].members => t \in late
  BY <1>1 DEF IInv, JoinedLate, Leaving
<1>12. H \subseteq s.found
  BY <1>2, <1>3
<1> HIDE DEF r, H, w
<1> QED
  BY <1>1, <1>4, <1>5, <1>7, <1>8, <1>9, <1>10, <1>11, <1>12, MoveKeeps

LEMMA LeaveTeamsKeeps ==
  ASSUME IInv, NEW x \in Session, LeaveTeams(x)
  PROVE  IInv'
<1> DEFINE s == session[x]
           A == MemberOf(s.user)
           W == {t \in s.found : Unled(s.user, t)}
           r == [s EXCEPT !.at = "user", !.left = A, !.unled = W]
<1>1. s \in SessionType /\ Shape(s) /\ s.at = "leave"
  BY DEF IInv, TypeOK, Shapes, LeaveTeams, At
<1>2. A \subseteq Team /\ \A t \in Team : t \in A <=> s.user \in team[t].members
  BY DEF MemberOf
<1>3. s.found \subseteq Team /\ W \subseteq s.found /\ s.held = s.found
      /\ s.kind \in {"update", "deactivate"}
  BY <1>1 DEF SessionType, Shape
<1>4. r \in SessionType
  BY <1>1, <1>2, <1>3 DEF SessionType
<1>5. /\ r.at = "user" /\ r.found = s.found
      /\ r.kind = s.kind /\ r.user = s.user /\ r.role = s.role /\ r.team = s.team
      /\ r.held = s.held /\ r.left = A /\ r.unled = W
  BY <1>1 DEF SessionType
<1>6. Shape(r)
  BY <1>1, <1>3, <1>5 DEF Shape
<1>7. session' = [session EXCEPT ![x] = r] /\ UNCHANGED <<rows, begun, late>>
  BY DEF LeaveTeams
<1>8. \A y \in Others(x) : s.held \cap session[y].held = {}
  BY DEF IInv, HeldOnce
<1>9. \A t \in s.found : team[t].life # "none"
  BY DEF IInv, Existing
<1>10. \A t \in Team \ s.found : s.user \in team[t].members => t \in late
  BY <1>1 DEF IInv, JoinedLate, Leaving
<1>11. \A t \in s.found :
         team[t].life = "active" => t \in W \/ team[t].leaders \ {s.user} # {}
  BY DEF Unled
<1> HIDE DEF r, A, W
<1> QED
  BY <1>1, <1>2, <1>3, <1>4, <1>5, <1>6, <1>7, <1>8, <1>9, <1>10, <1>11, MoveKeeps

-----------------------------------------------------------------------------
(* A request ends: what the others hold and know of each other stays true.  *)
Named ==
  \A x \in Session :
    /\ \A t \in session[x].found \cup session[x].held : team[t].life # "none"
    /\ session[x].at = "set" => \A u \in session[x].members : Exists(u)
    /\ session[x].kind \in {"update", "deactivate"} => Exists(session[x].user)
    /\ session[x].at # "idle" => \E u \in User : Exists(u)

LEMMA EndFrame ==
  ASSUME IInv, NEW x \in Session,
         session' \in [Session -> SessionType], session'[x] = Idle, Beside(x),
         \A u \in User : person[u].life # "none" => person'[u].life # "none",
         \A u \in User : person'[u].life # "none" =>
            person[u].life # "none" \/ (session[x].kind = "create" /\ u = session[x].user),
         \A t \in Team : team[t].life # "none" => team'[t].life # "none"
  PROVE  Shapes' /\ HeldOnce' /\ Named' /\ NewIds'
<1>1. session \in [Session -> SessionType] /\ Shapes
  BY DEF IInv, TypeOK
<1>2. \A y \in Others(x) : y \in Session /\ y # x /\ (session'[y] = session[y] \/ Like(session'[y], session[y]))
  BY DEF Beside, Others
<1>3. \A y \in Others(x) :
        /\ session'[y].at = session[y].at /\ session'[y].kind = session[y].kind
        /\ session'[y].user = session[y].user /\ session'[y].held = session[y].held
        /\ session'[y].found = session[y].found /\ session'[y].members = session[y].members
  BY <1>2 DEF Like
<1>4. /\ Idle.at = "idle" /\ Idle.kind = "none" /\ Idle.held = {} /\ Idle.found = {}
  BY DEF Idle
<1>5. Shapes'
  <2>1. Shape(Idle)
    BY DEF Idle, Shape
  <2> QED
    BY <1>1, <2>1, BesideShapes
<1>6. HeldOnce'
  <2> SUFFICES ASSUME NEW y \in Session, NEW z \in Others(y)
               PROVE  session'[y].held \cap session'[z].held = {}
    BY DEF HeldOnce, Others
  <2>1. z \in Session /\ z # y /\ session[y].held \cap session[z].held = {}
    BY DEF IInv, HeldOnce, Others
  <2>2. CASE y = x \/ z = x
    BY <1>4, <2>2
  <2>3. CASE y # x /\ z # x
    BY <1>3, <2>1, <2>3 DEF Others
  <2> QED
    BY <2>2, <2>3
<1>7. Named'
  <2> SUFFICES ASSUME NEW y \in Session
               PROVE  /\ \A t \in session'[y].found \cup session'[y].held : team'[t].life # "none"
                      /\ session'[y].at = "set" => \A u \in session'[y].members : person'[u].life # "none"
                      /\ session'[y].kind \in {"update", "deactivate"} => person'[session'[y].user].life # "none"
                      /\ session'[y].at # "idle" => \E u \in User : person'[u].life # "none"
    BY DEF Named, Exists
  <2>1. CASE y = x
    BY <1>4, <2>1
  <2>2. CASE y # x
    <3>1. y \in Others(x) /\ session[y] \in SessionType
      BY <1>1, <2>2 DEF Others
    <3>2. /\ session[y].found \subseteq Team /\ session[y].held \subseteq Team /\ session[y].members \subseteq User
          /\ session[y].kind \in {"update", "deactivate"} => session[y].user \in User
      BY <1>1, <3>1 DEF SessionType, Shapes, Shape
    <3>3. /\ \A t \in session[y].found \cup session[y].held : team[t].life # "none"
          /\ session[y].at = "set" => \A u \in session[y].members : person[u].life # "none"
          /\ session[y].kind \in {"update", "deactivate"} => person[session[y].user].life # "none"
          /\ session[y].at # "idle" => \E u \in User : person[u].life # "none"
      BY DEF IInv, Existing, Exists
    <3> QED
      BY <1>3, <3>1, <3>2, <3>3
  <2> QED
    BY <2>1, <2>2
<1>8. NewIds'
  <2> SUFFICES ASSUME NEW y \in Session, session'[y].kind = "create"
               PROVE  /\ person'[session'[y].user].life = "none"
                      /\ \A z \in Others(y) : session'[z].kind = "create" =>
                           session'[z].user # session'[y].user
    BY DEF NewIds, Exists, Others
  <2>1. y \in Others(x) /\ session[y].kind = "create" /\ session[y] \in SessionType /\ Shape(session[y])
    BY <1>1, <1>3, <1>4 DEF Others, Shapes
  <2>2. session[y].user \in User /\ session'[y].user = session[y].user
    BY <1>3, <2>1 DEF Shape
  <2>3. /\ person[session[y].user].life = "none"
        /\ \A z \in Others(y) : session[z].kind = "create" => session[z].user # session[y].user
    BY <2>1 DEF IInv, NewIds, Exists
  <2>4. person'[session[y].user].life = "none"
    BY <2>1, <2>2, <2>3 DEF Others
  <2>5. ASSUME NEW z \in Others(y), session'[z].kind = "create"
        PROVE  session'[z].user # session'[y].user
    <3>1. z # x
      BY <1>4, <2>5
    <3>2. z \in Others(x)
      BY <3>1 DEF Others
    <3> QED
      BY <1>3, <2>2, <2>3, <2>5, <3>2
  <2> QED
    BY <2>2, <2>4, <2>5
<1> QED
  BY <1>5, <1>6, <1>7, <1>8

(* Where no team changes, nothing else is to be shown of the teams.         *)
LEMMA EndKeeps ==
  ASSUME IInv, NEW x \in Session, TypeOK',
         session' \in [Session -> SessionType], session'[x] = Idle, Beside(x),
         UNCHANGED <<team, late>>,
         \A u \in User : /\ person'[u].life = person[u].life
                         /\ person'[u].department = person[u].department
  PROVE  IInv'
<1>1. Shapes' /\ HeldOnce' /\ Named' /\ NewIds'
  BY EndFrame
<1>2. /\ Idle.at = "idle" /\ Idle.kind = "none"
  BY DEF Idle
<1>3. \A y \in Others(x) :
        /\ session'[y].at = session[y].at /\ session'[y].kind = session[y].kind
        /\ session'[y].user = session[y].user /\ session'[y].left = session[y].left
        /\ session'[y].found = session[y].found /\ session'[y].unled = session[y].unled
  BY DEF Beside, Like
<1>4. \A t \in Team : team[t].members \subseteq User
  BY DEF IInv, TypeOK, TeamType
<1>5. Existing'
  BY <1>1, <1>4 DEF IInv, Existing, Named, Exists
<1>6. JoinedLate'
  BY <1>2, <1>3 DEF IInv, JoinedLate, Leaving, Others
<1>7. LeftKnown'
  BY <1>2, <1>3 DEF IInv, LeftKnown, Others
<1>8. StillLed'
  BY <1>2, <1>3 DEF IInv, StillLed, Others
<1>9. TeamsAreLed' /\ MembersServe'
  BY <1>4 DEF IInv, TeamsAreLed, MembersServe, Active
<1> QED
  BY <1>1, <1>5, <1>6, <1>7, <1>8, <1>9 DEF IInv

LEMMA WriteRoleKeeps ==
  ASSUME IInv, NEW x \in Session, WriteRole(x)
  PROVE  IInv'
<1> DEFINE s == session[x]
           moved == IF s.into = NoRole THEN {} ELSE InRole(s.role)
<1>1. session \in [Session -> SessionType] /\ s \in SessionType /\ Shape(s) /\ s.at = "retire" /\ Commits(x)
      /\ person \in [User -> PersonType] /\ role \in [Role -> Life]
  BY DEF IInv, TypeOK, Shapes, WriteRole, At
<1>2. session' \in [Session -> SessionType] /\ session'[x] = Idle /\ Beside(x)
  BY <1>1, CommitBeside
<1>3. /\ person' = [u \in User |-> IF u \in moved THEN [person[u] EXCEPT !.role = s.into] ELSE person[u]]
      /\ role' = [role EXCEPT ![s.role] = "inactive"]
      /\ UNCHANGED <<manages, team, begun, late>>
  BY DEF WriteRole
<1>4. moved = {} \/ s.into \in Role
  BY <1>1 DEF SessionType
<1>5. \A u \in User : /\ person[u] \in PersonType
                      /\ s.into \in Role => [person[u] EXCEPT !.role = s.into] \in PersonType
  BY <1>1 DEF PersonType
<1> HIDE DEF moved
<1>6. person' \in [User -> PersonType]
  BY <1>3, <1>4, <1>5
<1>7. \A u \in User : /\ person'[u].life = person[u].life
                      /\ person'[u].department = person[u].department
                      /\ person'[u].role = person[u].role \/ person'[u].role \in Role
  <2> SUFFICES ASSUME NEW u \in User
               PROVE  /\ person'[u].life = person[u].life
                      /\ person'[u].department = person[u].department
                      /\ person'[u].role = person[u].role \/ person'[u].role \in Role
    OBVIOUS
  <2>1. CASE u \in moved
    <3>1. person'[u] = [person[u] EXCEPT !.role = s.into] /\ s.into \in Role
      BY <1>3, <1>4, <2>1
    <3> QED
      BY <1>5, <3>1 DEF PersonType
  <2>2. CASE u \notin moved
    BY <1>3, <2>2
  <2> QED
    BY <2>1, <2>2
<1>8. role' \in [Role -> Life]
  BY <1>1, <1>3 DEF Life
<1>9. TypeOK'
  BY <1>2, <1>3, <1>6, <1>7, <1>8 DEF IInv, TypeOK
<1> QED
  BY <1>2, <1>3, <1>7, <1>9, EndKeeps

LEMMA WritePermissionsKeeps ==
  ASSUME IInv, NEW x \in Session, WritePermissions(x)
  PROVE  IInv'
<1>1. session \in [Session -> SessionType] /\ session[x] \in SessionType /\ Shape(session[x])
      /\ session[x].at = "permit" /\ Commits(x)
  BY DEF IInv, TypeOK, Shapes, WritePermissions, At
<1>2. session' \in [Session -> SessionType] /\ session'[x] = Idle /\ Beside(x)
  BY <1>1, CommitBeside
<1>3. session[x].role \in Role
  BY <1>1 DEF Shape
<1>4. manages' \in SUBSET Role /\ UNCHANGED <<person, role, team, begun, late>>
  BY <1>3 DEF WritePermissions, IInv, TypeOK
<1>5. TypeOK'
  BY <1>2, <1>4 DEF IInv, TypeOK
<1> QED
  BY <1>2, <1>4, <1>5, EndKeeps

LEMMA CreateRoleKeeps ==
  ASSUME IInv, NEW x \in Session, NEW r \in Role, Ready(x), CreateRole(x, r)
  PROVE  IInv'
<1>1. session \in [Session -> SessionType] /\ Commits(x)
  BY DEF IInv, TypeOK, CreateRole
<1>2. session' \in [Session -> SessionType] /\ session'[x] = Idle /\ Beside(x)
  BY <1>1, CommitBeside
<1>3. role' \in [Role -> Life] /\ begun' \in 0 .. MaxRequest /\ UNCHANGED <<person, manages, team, late>>
  BY MaxRequestAssumption DEF CreateRole, Ready, IInv, TypeOK, Life
<1>4. TypeOK'
  BY <1>2, <1>3 DEF IInv, TypeOK
<1> QED
  BY <1>2, <1>3, <1>4, EndKeeps

LEMMA DeactivateTeamKeeps ==
  ASSUME IInv, NEW x \in Session, NEW t \in Team, Ready(x), DeactivateTeam(x, t)
  PROVE  IInv'
<1>1. session \in [Session -> SessionType] /\ Commits(x) /\ team \in [Team -> TeamType]
      /\ session[x].at = "idle"
  BY DEF IInv, TypeOK, DeactivateTeam, Ready, At
<1>2. session' \in [Session -> SessionType] /\ session'[x] = Idle /\ Beside(x)
  BY <1>1, CommitBeside
<1>3. begun' \in 0 .. MaxRequest /\ UNCHANGED <<person, role, manages, late>>
      /\ team' = [team EXCEPT ![t].life = "inactive"] /\ ~TeamHeld(x, t)
  BY MaxRequestAssumption DEF DeactivateTeam, Ready, IInv, TypeOK
<1>4. team' \in [Team -> TeamType]
      /\ \A w \in Team : /\ team'[w].members = team[w].members /\ team'[w].leaders = team[w].leaders
                          /\ team'[w].life = IF w = t THEN "inactive" ELSE team[w].life
  BY <1>1, <1>3 DEF TeamType, Life
<1>5. TypeOK'
  BY <1>2, <1>3, <1>4 DEF IInv, TypeOK
<1>6. Shapes' /\ HeldOnce' /\ Named' /\ NewIds'
  BY <1>2, <1>3, <1>4, EndFrame
<1>7. /\ Idle.at = "idle" /\ Idle.kind = "none"
  BY DEF Idle
<1>8. \A y \in Others(x) :
        /\ session'[y].at = session[y].at /\ session'[y].kind = session[y].kind
        /\ session'[y].user = session[y].user /\ session'[y].left = session[y].left
        /\ session'[y].found = session[y].found /\ session'[y].unled = session[y].unled
  BY <1>2 DEF Beside, Like
<1>9. Existing'
  BY <1>3, <1>4, <1>6 DEF IInv, Existing, Named, Exists
<1>10. JoinedLate'
  BY <1>2, <1>3, <1>4, <1>7, <1>8 DEF IInv, JoinedLate, Leaving, Others
<1>11. \A y \in Others(x) : session[y].found \subseteq Team
  BY <1>1 DEF Others, SessionType
<1>12. LeftKnown'
  BY <1>2, <1>3, <1>4, <1>7, <1>8, <1>11 DEF IInv, LeftKnown, Others
<1>13. StillLed'
  BY <1>2, <1>3, <1>4, <1>7, <1>8, <1>11 DEF IInv, StillLed, Others
<1>14. TeamsAreLed' /\ MembersServe'
  BY <1>3, <1>4 DEF IInv, TeamsAreLed, MembersServe, Active
<1> QED
  BY <1>5, <1>6, <1>9, <1>10, <1>12, <1>13, <1>14 DEF IInv

(* The first administrator: nobody exists, so no request is under way.     *)
LEMMA BootstrapKeeps ==
  ASSUME IInv, NEW u \in User, NEW r \in Role, Bootstrap(u, r)
  PROVE  IInv'
<1>1. /\ person' = [person EXCEPT ![u] = [life |-> "active", role |-> r,
                                         department |-> NoDepartment, manager |-> NoUser]]
      /\ role' = [role EXCEPT ![r] = "active"] /\ manages' = manages \cup {r}
      /\ UNCHANGED <<team, session, begun, late>>
      /\ \A w \in User : person[w].life = "none"
  BY DEF Bootstrap
<1>2. \A x \in Session : session[x].at = "idle" /\ session[x] = Idle
  BY <1>1 DEF IInv, Existing, Exists, Shapes, Shape
<1>3. \A t \in Team : team[t].members \subseteq User /\ team[t].members = {}
  BY <1>1 DEF IInv, TypeOK, TeamType, Existing, Exists
<1>4. TypeOK'
  <2>1. [life |-> "active", role |-> r, department |-> NoDepartment, manager |-> NoUser] \in PersonType
    BY DEF PersonType, Life
  <2>2. person' \in [User -> PersonType] /\ role' \in [Role -> Life]
    BY <1>1, <2>1 DEF IInv, TypeOK, Life
  <2>3. \A w \in User : person'[w].life # "none" => person'[w].role \in Role
    BY <1>1 DEF IInv, TypeOK
  <2> QED
    BY <1>1, <2>2, <2>3 DEF IInv, TypeOK
<1>5. /\ Idle.at = "idle" /\ Idle.kind = "none" /\ Idle.found = {} /\ Idle.held = {}
  BY DEF Idle
<1>6. Shapes' /\ HeldOnce' /\ NewIds'
  BY <1>1, <1>2, <1>5 DEF IInv, Shapes, Shape, HeldOnce, NewIds, Others
<1>7. Existing'
  BY <1>1, <1>2, <1>3, <1>5 DEF IInv, Existing
<1>8. JoinedLate' /\ LeftKnown' /\ StillLed'
  BY <1>1, <1>2, <1>5 DEF JoinedLate, Leaving, LeftKnown, StillLed
<1>9. TeamsAreLed' /\ MembersServe'
  BY <1>1, <1>3 DEF IInv, TeamsAreLed, MembersServe
<1> QED
  BY <1>4, <1>6, <1>7, <1>8, <1>9 DEF IInv

-----------------------------------------------------------------------------
(* A user is written, and leaves the teams that were found or deleted.     *)
LEMMA WriteUserFacts ==
  ASSUME IInv, NEW x \in Session, WriteUser(x), KeysAllow(x)
  PROVE  LET s == session[x] IN
         /\ s \in SessionType /\ Shape(s) /\ s.at = "user" /\ s.user \in User
         /\ s.kind \in {"create", "update", "deactivate"}
         /\ session' \in [Session -> SessionType] /\ session'[x] = Idle /\ Beside(x)
         /\ UNCHANGED <<role, manages, begun, late>>
         /\ Written(s) \in PersonType /\ Written(s).role \in Role
         /\ person' = [person EXCEPT ![s.user] = Written(s)]
         /\ s.kind = "create" => Written(s).life = "active"
         /\ s.kind = "update" => /\ Written(s).life = person[s.user].life
                                 /\ Written(s).department = s.department
         /\ s.kind = "deactivate" => /\ Written(s).life = "inactive"
                                     /\ Written(s).department = person[s.user].department
         /\ team' \in [Team -> TeamType]
         /\ \A t \in Team :
              /\ team'[t].life = IF t \in s.unled THEN "inactive" ELSE team[t].life
              /\ team'[t].members = IF t \in s.left THEN team[t].members \ {s.user} ELSE team[t].members
              /\ team'[t].leaders = IF t \in s.left THEN team[t].leaders \ {s.user} ELSE team[t].leaders
<1> DEFINE s == session[x]
<1>1. session \in [Session -> SessionType] /\ s \in SessionType /\ Shape(s) /\ s.at = "user"
      /\ person \in [User -> PersonType] /\ team \in [Team -> TeamType]
  BY DEF IInv, TypeOK, Shapes, WriteUser, At
<1>2. /\ person' = [person EXCEPT ![s.user] = Written(s)]
      /\ team' = [t \in Team |-> TeamLeft(x, t)] /\ Commits(x)
      /\ UNCHANGED <<role, manages, begun, late>>
  BY DEF WriteUser
<1>3. session' \in [Session -> SessionType] /\ session'[x] = Idle /\ Beside(x)
  BY <1>1, <1>2, CommitBeside
<1>4. s.user \in User /\ s.kind \in {"create", "update", "deactivate"}
      /\ (s.kind \in {"create", "update"} => s.role \in Role)
      /\ s.department \in Department \cup {NoDepartment} /\ s.manager \in User \cup {NoUser}
  BY <1>1 DEF Shape, SessionType
<1>5. person[s.user] \in PersonType /\ (person[s.user].life # "none" => person[s.user].role \in Role)
  BY <1>1, <1>4 DEF IInv, TypeOK
<1> DEFINE Right == /\ Written(s) \in PersonType /\ Written(s).role \in Role
                    /\ s.kind = "create" => Written(s).life = "active"
                    /\ s.kind = "update" => /\ Written(s).life = person[s.user].life
                                            /\ Written(s).department = s.department
                    /\ s.kind = "deactivate" => /\ Written(s).life = "inactive"
                                                /\ Written(s).department = person[s.user].department
<1>6. ASSUME s.kind = "create" PROVE Right
  <2>1. Written(s) = [life |-> "active", role |-> s.role, department |-> s.department, manager |-> s.manager]
    BY <1>6 DEF Written
  <2>2. Written(s) \in PersonType /\ Written(s).life = "active" /\ Written(s).role \in Role
    BY <1>4, <1>6, <2>1 DEF PersonType, Life
  <2> QED
    BY <1>6, <2>2
<1>7. ASSUME s.kind = "update" PROVE Right
  <2>1. Written(s) = [person[s.user] EXCEPT !.role = s.role, !.department = s.department, !.manager = s.manager]
    BY <1>7 DEF Written
  <2>2. /\ Written(s) \in PersonType /\ Written(s).role \in Role
        /\ Written(s).life = person[s.user].life /\ Written(s).department = s.department
    BY <1>4, <1>5, <1>7, <2>1 DEF PersonType
  <2> QED
    BY <1>7, <2>2
<1>8. ASSUME s.kind = "deactivate" PROVE Right
  <2>1. Written(s) = [person[s.user] EXCEPT !.life = "inactive"]
    BY <1>8 DEF Written
  <2>2. /\ Written(s) \in PersonType /\ Written(s).role = person[s.user].role
        /\ Written(s).life = "inactive" /\ Written(s).department = person[s.user].department
    BY <1>5, <2>1 DEF PersonType, Life
  <2>3. person[s.user].life # "none"
    BY <1>8 DEF IInv, Existing, Exists
  <2> QED
    BY <1>5, <1>8, <2>2, <2>3
<1>9. Right
  BY <1>4, <1>6, <1>7, <1>8
<1>10. ASSUME NEW t \in Team
       PROVE  /\ team'[t] \in TeamType
              /\ team'[t].life = IF t \in s.unled THEN "inactive" ELSE team[t].life
              /\ team'[t].members = IF t \in s.left THEN team[t].members \ {s.user} ELSE team[t].members
              /\ team'[t].leaders = IF t \in s.left THEN team[t].leaders \ {s.user} ELSE team[t].leaders
  <2>1. team[t] \in TeamType /\ team'[t] = TeamLeft(x, t)
    BY <1>1, <1>2
  <2> QED
    BY <2>1 DEF TeamLeft, TeamType, Life
<1>11. team' \in [Team -> TeamType]
  BY <1>2, <1>10
<1> HIDE DEF Right
<1>12. Right => /\ Written(s) \in PersonType /\ Written(s).role \in Role
                /\ s.kind = "create" => Written(s).life = "active"
                /\ s.kind = "update" => /\ Written(s).life = person[s.user].life
                                        /\ Written(s).department = s.department
                /\ s.kind = "deactivate" => /\ Written(s).life = "inactive"
                                            /\ Written(s).department = person[s.user].department
  BY DEF Right
<1> QED
  BY <1>1, <1>2, <1>3, <1>4, <1>9, <1>10, <1>11, <1>12

LEMMA WriteUserKeeps ==
  ASSUME IInv, NEW x \in Session, WriteUser(x)
  PROVE  IInv'
<1> DEFINE s == session[x]
           row == Written(s)
<1>1. CASE ~KeysAllow(x)
  <2>1. session \in [Session -> SessionType] /\ Aborts(x) /\ UNCHANGED <<rows, begun, late>>
    BY <1>1 DEF IInv, TypeOK, WriteUser, rows
  <2>2. session' \in [Session -> SessionType] /\ session'[x] = Idle /\ Beside(x)
    BY <2>1, AbortBeside
  <2>3. TypeOK'
    BY <2>1, <2>2 DEF IInv, TypeOK, rows
  <2> QED
    BY <2>1, <2>2, <2>3, EndKeeps DEF rows
<1>2. CASE KeysAllow(x)
  <2>1. /\ s \in SessionType /\ Shape(s) /\ s.at = "user" /\ s.user \in User
        /\ s.kind \in {"create", "update", "deactivate"}
        /\ session' \in [Session -> SessionType] /\ session'[x] = Idle /\ Beside(x)
        /\ UNCHANGED <<role, manages, begun, late>>
        /\ row \in PersonType /\ row.role \in Role
        /\ person' = [person EXCEPT ![s.user] = row]
        /\ s.kind = "create" => row.life = "active"
        /\ s.kind = "update" => /\ row.life = person[s.user].life
                                /\ row.department = s.department
        /\ s.kind = "deactivate" => /\ row.life = "inactive"
                                    /\ row.department = person[s.user].department
        /\ team' \in [Team -> TeamType]
    BY <1>2, WriteUserFacts
  <2>2. \A t \in Team :
          /\ team'[t].life = IF t \in s.unled THEN "inactive" ELSE team[t].life
          /\ team'[t].members = IF t \in s.left THEN team[t].members \ {s.user} ELSE team[t].members
          /\ team'[t].leaders = IF t \in s.left THEN team[t].leaders \ {s.user} ELSE team[t].leaders
    BY <1>2, WriteUserFacts
  <2> HIDE DEF row
  <2>3. person \in [User -> PersonType] /\ team \in [Team -> TeamType] /\ session \in [Session -> SessionType]
    BY DEF IInv, TypeOK
  <2>4. \A u \in User : person'[u] = IF u = s.user THEN row ELSE person[u]
    BY <2>1, <2>3
  <2>5. /\ s.kind = "create" => person[s.user].life = "none"
        /\ s.kind \in {"update", "deactivate"} => person[s.user].life # "none"
    BY DEF IInv, NewIds, Existing, Exists
  <2>6. /\ \A u \in User : person[u].life # "none" => person'[u].life # "none"
        /\ \A u \in User : person'[u].life # "none" =>
             person[u].life # "none" \/ (s.kind = "create" /\ u = s.user)
    BY <2>1, <2>4, <2>5
  <2>7. \A t \in Team : team[t].life # "none" => team'[t].life # "none"
    BY <2>2
  <2>8. Shapes' /\ HeldOnce' /\ Named' /\ NewIds'
    BY <2>1, <2>6, <2>7, EndFrame
  <2>9. TypeOK'
    <3>1. person' \in [User -> PersonType]
      BY <2>1, <2>3
    <3>2. \A u \in User : person'[u].life # "none" => person'[u].role \in Role
      BY <2>1, <2>4 DEF IInv, TypeOK
    <3>3. \A t \in Team : team'[t].leaders \subseteq team'[t].members
      BY <2>2 DEF IInv, TypeOK
    <3> QED
      BY <2>1, <3>1, <3>2, <3>3 DEF IInv, TypeOK
  <2>10. \A t \in Team : team[t].members \subseteq User /\ team'[t].members \subseteq team[t].members
    BY <2>2, <2>3 DEF TeamType
  <2>11. Existing'
    <3>1. \A t \in Team : team'[t].life = "none" => team'[t].members = {}
      BY <2>2, <2>10 DEF IInv, Existing
    <3>2. \A t \in Team : \A u \in team'[t].members : person'[u].life # "none"
      BY <2>6, <2>10 DEF IInv, Existing, Exists
    <3> QED
      BY <2>8, <3>1, <3>2 DEF Existing, Named, Exists
  <2>12. /\ Idle.at = "idle"
         /\ \A y \in Session : y = x \/ y \in Others(x)
         /\ \A y \in Others(x) :
              /\ session'[y].at = session[y].at /\ session'[y].kind = session[y].kind
              /\ session'[y].user = session[y].user /\ session'[y].left = session[y].left
              /\ session'[y].found = session[y].found /\ session'[y].unled = session[y].unled
    BY <2>1 DEF Beside, Like, Idle, Others
  <2>13. \A y \in Others(x) : y \in Session /\ session[y].found \subseteq Team
    BY <2>3 DEF Others, SessionType
  <2>14. JoinedLate'
    BY <2>1, <2>10, <2>12 DEF IInv, JoinedLate, Leaving, Others
  <2>15. LeftKnown'
    BY <2>1, <2>10, <2>12, <2>13 DEF IInv, LeftKnown
  <2>16. StillLed'
    <3> SUFFICES ASSUME NEW y \in Session, session'[y].at = "user",
                        NEW t \in session'[y].found \ late', team'[t].life = "active"
                 PROVE  t \in session'[y].unled \/ team'[t].leaders \ {session'[y].user} # {}
      BY DEF StillLed
    <3>1. y \in Others(x) /\ session[y].at = "user" /\ t \in session[y].found \ late /\ t \in Team
      BY <2>1, <2>12, <2>13
    <3>2. team[t].life = "active"
      BY <2>2, <3>1
    <3>3. t \in session[y].unled \/ team[t].leaders \ {session[y].user} # {}
      BY <3>1, <3>2 DEF IInv, StillLed, Others
    <3>4. t \notin s.left
      <4>1. s.held = s.found /\ session[y].held = session[y].found
        BY <2>1, <2>13, <3>1 DEF IInv, Shapes, Shape
      <4>2. t \notin s.found
        BY <3>1, <4>1 DEF IInv, HeldOnce
      <4> QED
        BY <2>1, <3>1, <4>2 DEF IInv, LeftKnown
    <3> QED
      BY <2>2, <2>12, <3>1, <3>3, <3>4
  <2>17. TeamsAreLed'
    <3> SUFFICES ASSUME NEW t \in Team, team'[t].life = "active", t \notin late
                 PROVE  team'[t].leaders # {}
      BY <2>1 DEF TeamsAreLed
    <3>1. team[t].life = "active" /\ t \notin s.unled
      BY <2>2
    <3>2. CASE t \in s.left
      <4>1. t \in s.found \ late
        BY <2>1, <3>2 DEF IInv, LeftKnown
      <4>2. team[t].leaders \ {s.user} # {}
        BY <2>1, <3>1, <4>1 DEF IInv, StillLed
      <4> QED
        BY <2>2, <3>2, <4>2
    <3>3. CASE t \notin s.left
      BY <2>2, <3>1, <3>3 DEF IInv, TeamsAreLed
    <3> QED
      BY <3>2, <3>3
  <2>18. MembersServe'
    <3> SUFFICES ASSUME NEW t \in Team, NEW v \in team'[t].members
                 PROVE  /\ person'[v].department = TeamDepartment[t]
                        /\ person'[v].life = "active" \/ t \in late
      BY <2>1 DEF MembersServe, Active
    <3>1. v \in User /\ v \in team[t].members /\ (v = s.user => t \notin s.left)
      BY <2>2, <2>10
    <3>2. /\ person[v].department = TeamDepartment[t]
          /\ person[v].life = "active" \/ t \in late
          /\ person[v].life # "none"
      BY <3>1 DEF IInv, MembersServe, Active, Existing, Exists
    <3>3. CASE v # s.user
      BY <2>4, <3>1, <3>2, <3>3
    <3>4. CASE v = s.user /\ s.kind = "update"
      <4>1. v \in team[t].members /\ t \notin s.left
        BY <3>1, <3>4
      <4>2. s.department = person[s.user].department
        BY <1>2, <3>4, <4>1 DEF KeysAllow, MemberOf
      <4> QED
        BY <2>1, <2>4, <3>1, <3>2, <3>4, <4>2
    <3>5. CASE v = s.user /\ s.kind = "deactivate"
      <4>1. t \notin s.found
        BY <2>1, <3>1, <3>5 DEF IInv, LeftKnown
      <4>2. t \in late
        BY <2>1, <3>1, <3>5, <4>1 DEF IInv, JoinedLate, Leaving
      <4> QED
        BY <2>1, <2>4, <3>1, <3>2, <3>5, <4>2
    <3> QED
      BY <2>1, <2>5, <3>2, <3>3, <3>4, <3>5
  <2> QED
    BY <2>8, <2>9, <2>11, <2>14, <2>15, <2>16, <2>17, <2>18 DEF IInv
<1> QED
  BY <1>1, <1>2

(* A team's members are written: its row is locked or new, so nobody who is *)
(* leaving it has deleted anything of it or is about to deactivate it.      *)
LEMMA WriteTeamKeeps ==
  ASSUME IInv, NEW x \in Session, WriteTeam(x)
  PROVE  IInv'
<1> DEFINE s == session[x]
           goes == KeepsDepartment(s.team, s.members) /\ (s.kind = "team" => team[s.team].life = "none")
<1>1. /\ session \in [Session -> SessionType] /\ s \in SessionType /\ Shape(s) /\ s.at = "set"
      /\ person \in [User -> PersonType] /\ team \in [Team -> TeamType] /\ late \in SUBSET Team
  BY DEF IInv, TypeOK, Shapes, WriteTeam, At
<1>2. CASE ~goes
  <2>1. Aborts(x) /\ UNCHANGED <<rows, begun, late>>
    BY <1>2 DEF WriteTeam, rows
  <2>2. session' \in [Session -> SessionType] /\ session'[x] = Idle /\ Beside(x)
    BY <1>1, <2>1, AbortBeside
  <2>3. TypeOK'
    BY <2>1, <2>2 DEF IInv, TypeOK, rows
  <2> QED
    BY <2>1, <2>2, <2>3, EndKeeps DEF rows
<1>3. CASE goes
  <2> DEFINE q == s.team
             joins == \E u \in s.members : Departing(u, q)
  <2>1. /\ team' = [team EXCEPT ![q] = [life |-> "active", members |-> s.members, leaders |-> s.leaders]]
        /\ late' = (IF joins THEN late \cup {q} ELSE late \ {q})
        /\ Commits(x)
        /\ UNCHANGED <<person, role, manages, begun>>
        /\ ~RowsHeld(q)
    BY <1>3 DEF WriteTeam
  <2>2. session' \in [Session -> SessionType] /\ session'[x] = Idle /\ Beside(x)
    BY <1>1, <2>1, CommitBeside
  <2>3. /\ q \in Team /\ s.kind \in {"team", "members"} /\ s.members \in SUBSET User
        /\ s.leaders \subseteq s.members /\ s.leaders # {}
        /\ s.held = IF s.kind = "members" THEN {q} ELSE {}
    BY <1>1 DEF Shape, SessionType
  <2>4. [life |-> "active", members |-> s.members, leaders |-> s.leaders] \in TeamType
    BY <2>3 DEF TeamType, Life
  <2>5. /\ team' \in [Team -> TeamType]
        /\ team'[q].life = "active" /\ team'[q].members = s.members /\ team'[q].leaders = s.leaders
        /\ \A t \in Team : t # q => team'[t] = team[t]
    BY <1>1, <2>1, <2>3, <2>4
  <2>6. /\ late' \in SUBSET Team
        /\ joins => q \in late'
        /\ \A t \in Team : t # q => (t \in late' <=> t \in late)
    BY <1>1, <2>1, <2>3
  <2>7. \A t \in Team : team[t].life # "none" => team'[t].life # "none"
    BY <2>5
  <2>8. Shapes' /\ HeldOnce' /\ Named' /\ NewIds'
    BY <2>1, <2>2, <2>7, EndFrame
  <2>9. TypeOK'
    <3>1. \A t \in Team : team'[t].leaders \subseteq team'[t].members
      BY <2>3, <2>5 DEF IInv, TypeOK
    <3> QED
      BY <2>1, <2>2, <2>5, <2>6, <3>1 DEF IInv, TypeOK
  <2>10. Existing'
    <3>1. \A u \in s.members : person[u].life # "none"
      BY <1>1 DEF IInv, Existing, Exists
    <3>2. \A t \in Team : /\ team'[t].life = "none" => team'[t].members = {}
                          /\ \A u \in team'[t].members : person'[u].life # "none"
      BY <2>1, <2>5, <3>1 DEF IInv, Existing, Exists
    <3> QED
      BY <2>8, <3>2 DEF Existing, Named, Exists
  <2>11. /\ Idle.at = "idle"
         /\ \A y \in Session : y = x \/ y \in Others(x)
         /\ \A y \in Others(x) :
              /\ session'[y].at = session[y].at /\ session'[y].kind = session[y].kind
              /\ session'[y].user = session[y].user /\ session'[y].left = session[y].left
              /\ session'[y].found = session[y].found /\ session'[y].unled = session[y].unled
    BY <2>2 DEF Beside, Like, Idle, Others
  <2>12. \A y \in Others(x) : /\ y \in Session /\ Shape(session[y])
                              /\ session[y].found \subseteq Team /\ session[y].left \subseteq Team
    BY <1>1 DEF Others, SessionType, IInv, Shapes
  <2>13. \A y \in Others(x) : session[y].at = "user" => q \notin session[y].found
    <3> SUFFICES ASSUME NEW y \in Others(x), session[y].at = "user", q \in session[y].found
                 PROVE  FALSE
      OBVIOUS
    <3>1. session[y].held = session[y].found
      BY <2>12 DEF Shape
    <3>2. team[q].life # "none"
      BY <2>12 DEF IInv, Existing
    <3>3. s.kind = "members"
      BY <1>3, <2>3, <3>2
    <3> QED
      BY <2>3, <3>1, <3>3 DEF IInv, HeldOnce
  <2>14. JoinedLate'
    <3> SUFFICES ASSUME NEW y \in Session, Leaving(session'[y]),
                        NEW t \in Team \ session'[y].found, session'[y].user \in team'[t].members
                 PROVE  t \in late'
      BY DEF JoinedLate
    <3>1. /\ y \in Others(x) /\ Leaving(session[y]) /\ t \notin session[y].found
          /\ session[y].user \in team'[t].members
      BY <2>2, <2>11 DEF Leaving
    <3>2. CASE t # q
      BY <2>5, <2>6, <3>1, <3>2 DEF IInv, JoinedLate, Others
    <3>3. CASE t = q
      <4>1. session[y].kind \in {"update", "deactivate"} /\ ~At(y, "memberships")
        BY <2>12, <3>1 DEF Leaving, Shape, At
      <4>2. Departing(session[y].user, q)
        BY <2>12, <3>1, <3>3, <4>1 DEF Departing
      <4> QED
        BY <2>5, <2>6, <3>1, <3>3, <4>2
    <3> QED
      BY <3>2, <3>3
  <2>15. LeftKnown'
    <3> SUFFICES ASSUME NEW y \in Session, session'[y].at = "user"
                 PROVE  /\ session'[y].left \ session'[y].found \subseteq late'
                        /\ \A t \in session'[y].found :
                             session'[y].user \in team'[t].members => t \in session'[y].left
      BY DEF LeftKnown
    <3>1. y \in Others(x) /\ y \in Session /\ session[y].at = "user"
      BY <2>2, <2>11
    <3>2. q \notin session[y].left /\ q \notin session[y].found
      BY <2>1, <2>13, <3>1 DEF RowsHeld
    <3>3. /\ session[y].left \ session[y].found \subseteq late
          /\ \A t \in session[y].found : session[y].user \in team[t].members => t \in session[y].left
      BY <3>1 DEF IInv, LeftKnown
    <3>4. session[y].left \ session[y].found \subseteq late'
      BY <2>6, <2>12, <3>1, <3>2, <3>3
    <3>5. \A t \in session[y].found : team'[t] = team[t]
      BY <2>5, <2>12, <3>1, <3>2
    <3> QED
      BY <2>11, <3>1, <3>3, <3>4, <3>5
  <2>16. StillLed'
    <3> SUFFICES ASSUME NEW y \in Session, session'[y].at = "user",
                        NEW t \in session'[y].found \ late', team'[t].life = "active"
                 PROVE  t \in session'[y].unled \/ team'[t].leaders \ {session'[y].user} # {}
      BY DEF StillLed
    <3>1. y \in Others(x) /\ y \in Session /\ session[y].at = "user" /\ t \in session[y].found
      BY <2>2, <2>11
    <3>2. t # q /\ t \in Team
      BY <2>12, <2>13, <3>1
    <3>3. team'[t] = team[t] /\ t \notin late
      BY <2>5, <2>6, <3>2
    <3>4. t \in session[y].unled \/ team[t].leaders \ {session[y].user} # {}
      BY <3>1, <3>3 DEF IInv, StillLed
    <3> QED
      BY <2>11, <3>1, <3>3, <3>4
  <2>17. TeamsAreLed'
    BY <2>3, <2>5, <2>6 DEF IInv, TeamsAreLed
  <2>18. MembersServe'
    <3> SUFFICES ASSUME NEW t \in Team, NEW v \in team'[t].members
                 PROVE  /\ person[v].department = TeamDepartment[t]
                        /\ person[v].life = "active" \/ t \in late'
      BY <2>1 DEF MembersServe, Active
    <3>1. CASE t # q
      BY <2>5, <2>6, <3>1 DEF IInv, MembersServe, Active
    <3>2. CASE t = q
      BY <1>3, <2>5, <2>6, <3>2 DEF KeepsDepartment, Departing, Active
    <3> QED
      BY <3>1, <3>2
  <2> QED
    BY <2>8, <2>9, <2>10, <2>14, <2>15, <2>16, <2>17, <2>18 DEF IInv
<1> QED
  BY <1>2, <1>3

-----------------------------------------------------------------------------
LEMMA InitIInv == Init => IInv
<1> SUFFICES ASSUME Init PROVE IInv
  OBVIOUS
<1>1. PICK o \in Organizations :
        Legal(o) /\ person = o.person /\ role = o.role /\ manages = o.manages /\ team = o.team
  BY OrganizationsAssumption DEF Init
<1>2. /\ person \in [User -> PersonType] /\ role \in [Role -> Life]
      /\ manages \subseteq Role /\ team \in [Team -> TeamType]
      /\ \A u \in User : person[u].life # "none" => person[u].role \in Role
      /\ \A t \in Team :
           /\ team[t].leaders \subseteq team[t].members
           /\ team[t].life = "active" => team[t].leaders # {}
           /\ team[t].life = "none" => team[t].members = {}
           /\ \A u \in team[t].members :
                person[u].life = "active" /\ person[u].department = TeamDepartment[t]
  BY <1>1 DEF Legal
<1>3. /\ \A x \in Session : session[x] = Idle
      /\ session \in [Session -> SessionType] /\ begun = 0 /\ late = {}
  BY IdleIsTyped DEF Init
<1>4. TypeOK
  BY <1>2, <1>3, MaxRequestAssumption DEF TypeOK
<1>5. /\ Idle.at = "idle" /\ Idle.kind = "none" /\ Idle.held = {} /\ Idle.found = {}
  BY DEF Idle
<1>6. Shapes
  <2>1. Shape(Idle)
    BY DEF Idle, Shape
  <2> QED
    BY <1>3, <2>1 DEF Shapes
<1>7. HeldOnce /\ NewIds /\ JoinedLate /\ LeftKnown /\ StillLed
  BY <1>3, <1>5 DEF HeldOnce, NewIds, JoinedLate, Leaving, LeftKnown, StillLed, Others
<1>8. Existing
  BY <1>2, <1>3, <1>5 DEF Existing, Exists
<1>9. TeamsAreLed /\ MembersServe
  BY <1>2 DEF TeamsAreLed, MembersServe, Active
<1> QED
  BY <1>4, <1>6, <1>7, <1>8, <1>9 DEF IInv

(* One request at a time takes one step, or the organization is bootstrapped. *)
LEMMA NextKeeps ==
  ASSUME IInv, [Next]_vars
  PROVE  IInv'
<1>1. ASSUME NEW x \in Session, Step(x) PROVE IInv'
  BY <1>1, ReadMembershipsKeeps, LockTeamKeeps, LeaveTeamsKeeps, WriteUserKeeps, WriteTeamKeeps,
     WriteRoleKeeps, WritePermissionsKeeps DEF Step
<1>2. ASSUME NEW x \in Session, Ready(x), UserRequest(x) PROVE IInv'
  BY <1>2, UserRequestKeeps
<1>3. ASSUME NEW x \in Session, Ready(x), TeamRequest(x) PROVE IInv'
  BY <1>3, TeamRequestsKeep, DeactivateTeamKeeps DEF TeamRequest
<1>4. ASSUME NEW x \in Session, Ready(x), RoleRequest(x) PROVE IInv'
  BY <1>4, RoleRequestsKeep, CreateRoleKeeps DEF RoleRequest
<1>5. ASSUME NEW u \in User, NEW r \in Role, Bootstrap(u, r) PROVE IInv'
  BY <1>5, BootstrapKeeps
<1>6. CASE UNCHANGED vars
  BY <1>6 DEF vars, rows, IInv, TypeOK, Shapes, HeldOnce, Others, Existing, Exists, NewIds,
              JoinedLate, LeftKnown, StillLed, TeamsAreLed, MembersServe, Active
<1> QED
  BY <1>1, <1>2, <1>3, <1>4, <1>5, <1>6 DEF Next

(* What each request on users, teams and roles knows at each of its         *)
(* statements holds in every reachable state, and a row lock has one holder. *)
THEOREM Invariant == Spec => []IInv
BY InitIInv, NextKeeps, PTL DEF Spec

(* Every row and every request under way stays of its type.                *)
THEOREM TypeCorrect == Spec => []TypeOK
<1>1. IInv => TypeOK
  BY DEF IInv
<1> QED
  BY <1>1, Invariant, PTL

(* endTeamMemberships: an active team keeps a leader, however departures,   *)
(* new member lists and deactivations overlap, unless somebody already on   *)
(* the way out was written into it.                                        *)
THEOREM TeamsStayLed == Spec => []TeamsAreLed
<1>1. IInv => TeamsAreLed
  BY DEF IInv
<1> QED
  BY <1>1, Invariant, PTL

(* team_members' keys: a membership is one of the team's department, and of *)
(* a live user with the same exception.                                    *)
THEOREM MembersKeepServing == Spec => []MembersServe
<1>1. IInv => MembersServe
  BY DEF IInv
<1> QED
  BY <1>1, Invariant, PTL

(* "Teams are locked in sorted id order so two of these running at once     *)
(* queue instead of deadlocking": of two requests that wait for a team the  *)
(* other holds, each waits for a higher one than it holds.                 *)
THEOREM LocksNeverDeadlock == Spec => []NoDeadlock
<1>1. IInv => NoDeadlock
  <2> SUFFICES ASSUME IInv, NEW x \in Session, NEW y \in Others(x),
                      NEW a \in WaitsFor(x) \cap session[y].held,
                      NEW b \in WaitsFor(y) \cap session[x].held
               PROVE  FALSE
    BY DEF NoDeadlock
  <2>1. y \in Session /\ session[x].at = "lock" /\ session[y].at = "lock"
    BY DEF WaitsFor, At, Others
  <2>2. /\ session[x] \in SessionType /\ session[y] \in SessionType
        /\ Shape(session[x]) /\ Shape(session[y])
    BY <2>1 DEF IInv, TypeOK, Shapes
  <2>3. /\ session[x].found \ session[x].held \subseteq Nat /\ session[x].found \ session[x].held # {}
        /\ session[y].found \ session[y].held \subseteq Nat /\ session[y].found \ session[y].held # {}
        /\ session[x].held \subseteq Nat /\ session[y].held \subseteq Nat
    BY <2>1, <2>2, TeamAssumption DEF Shape, SessionType
  <2>4. a \in session[x].found \ session[x].held /\ b \in session[y].found \ session[y].held
    <3> DEFINE A == session[x].found \ session[x].held
               B == session[y].found \ session[y].held
    <3>1. A \in SUBSET Team /\ A # {} /\ B \in SUBSET Team /\ B # {}
      BY <2>2, <2>3 DEF SessionType
    <3>2. a = Min(A) /\ b = Min(B)
      BY <2>1 DEF WaitsFor, At
    <3> HIDE DEF A, B
    <3>3. a \in A /\ b \in B
      BY <3>1, <3>2, LeastOf, TeamAssumption
    <3> QED
      BY <3>3 DEF A, B
  <2>5. b < a /\ a < b
    BY <2>1, <2>2, <2>4 DEF Shape
  <2> QED
    BY <2>3, <2>4, <2>5
<1> QED
  BY <1>1, Invariant, PTL

-----------------------------------------------------------------------------
(* The reporting lines: who is n steps above x in the chart c.              *)
Chart == [User -> User \cup {NoUser}]
Managers == [u \in User |-> person[u].manager]
Up(c, w) == IF w = NoUser THEN NoUser ELSE c[w]
IsChain(f, c, x, k) ==
  f = [n \in 0 .. k |-> IF n = 0 THEN x ELSE IF f[n - 1] = NoUser THEN NoUser ELSE c[f[n - 1]]]
Chain(c, x, k) == CHOOSE f : IsChain(f, c, x, k)
Nth(c, x, n) == Chain(c, x, n)[n]
Size == Cardinality(User)

LEMMA Upward ==
  ASSUME NEW T, 0 \in T, \A n \in Nat : n \in T => n + 1 \in T
  PROVE  Nat \subseteq T
<1> SUFFICES ASSUME Nat \ T # {} PROVE FALSE
  OBVIOUS
<1>1. PICK n \in Nat \ T : \A m \in Nat \ T : n <= m
  BY LeastOf
<1>2. n # 0 /\ n - 1 \in Nat /\ n - 1 < n /\ (n - 1) + 1 = n
  BY <1>1
<1>3. n - 1 \in T
  BY <1>1, <1>2
<1> QED
  BY <1>1, <1>2, <1>3

LEMMA SizeIsNat == Size \in Nat
  BY UsersAreFinite, FS_CardinalityType DEF Size

(* A line of every length has a value, for longer pieces extend it.        *)
LEMMA ChainsAre ==
  ASSUME NEW c \in Chart, NEW x \in User \cup {NoUser}, NEW k \in Nat
  PROVE  /\ Chain(c, x, k) \in [0 .. k -> User \cup {NoUser}]
         /\ Chain(c, x, k)[0] = x
         /\ \A n \in 1 .. k : Chain(c, x, k)[n] = Up(c, Chain(c, x, k)[n - 1])
<1> DEFINE T == {n \in Nat : \E f \in [0 .. n -> User \cup {NoUser}] : IsChain(f, c, x, n)}
<1>1. 0 \in T
  <2>1. IsChain([n \in 0 .. 0 |-> x], c, x, 0)
    BY DEF IsChain
  <2> QED
    BY <2>1
<1>2. ASSUME NEW n \in Nat, n \in T
      PROVE  n + 1 \in T
  <2>1. PICK f \in [0 .. n -> User \cup {NoUser}] : IsChain(f, c, x, n)
    BY <1>2
  <2> DEFINE d == [m \in 0 .. n + 1 |-> IF m <= n THEN f[m] ELSE Up(c, f[n])]
  <2>2. d \in [0 .. n + 1 -> User \cup {NoUser}]
    BY DEF Up, Chart
  <2>3. \A m \in 0 .. n + 1 : d[m] = IF m = 0 THEN x ELSE IF d[m - 1] = NoUser THEN NoUser ELSE c[d[m - 1]]
    BY <2>1 DEF IsChain, Up
  <2>4. IsChain(d, c, x, n + 1)
    BY <2>3 DEF IsChain
  <2> QED
    BY <2>2, <2>4
<1>3. k \in T
  <2> HIDE DEF T
  <2> QED
    BY <1>1, <1>2, Upward
<1>4. \E f : IsChain(f, c, x, k)
  BY <1>3
<1>5. IsChain(Chain(c, x, k), c, x, k)
  BY <1>4 DEF Chain
<1>6. /\ Chain(c, x, k)[0] = x
      /\ \A n \in 1 .. k : Chain(c, x, k)[n] = Up(c, Chain(c, x, k)[n - 1])
  <2> DEFINE g == Chain(c, x, k)
  <2>1. IsChain(g, c, x, k)
    BY <1>5
  <2> HIDE DEF g
  <2>2. g[0] = x
    BY <2>1 DEF IsChain
  <2>3. ASSUME NEW n \in 1 .. k
        PROVE  g[n] = Up(c, g[n - 1])
    <3>1. n \in 0 .. k /\ n # 0
      OBVIOUS
    <3> QED
      BY <2>1, <3>1 DEF IsChain, Up
  <2> QED
    BY <2>2, <2>3 DEF g
<1> DEFINE K == {n \in Nat : n <= k => Chain(c, x, k)[n] \in User \cup {NoUser}}
<1>7. 0 \in K
  BY <1>6
<1>8. ASSUME NEW n \in Nat, n \in K
      PROVE  n + 1 \in K
  <2> SUFFICES ASSUME n + 1 <= k PROVE Chain(c, x, k)[n + 1] \in User \cup {NoUser}
    OBVIOUS
  <2>1. n + 1 \in 1 .. k /\ (n + 1) - 1 = n
    OBVIOUS
  <2>2. Chain(c, x, k)[n + 1] = Up(c, Chain(c, x, k)[n])
    BY <1>6, <2>1
  <2>3. Chain(c, x, k)[n] \in User \cup {NoUser}
    BY <1>8
  <2> QED
    BY <2>2, <2>3 DEF Up, Chart
<1>9. \A n \in 0 .. k : Chain(c, x, k)[n] \in User \cup {NoUser}
  <2>1. Nat \subseteq K
    <3> HIDE DEF K
    <3> QED
      BY <1>7, <1>8, Upward
  <2> QED
    BY <2>1
<1>10. Chain(c, x, k) = [n \in 0 .. k |-> Chain(c, x, k)[n]]
  BY <1>5 DEF IsChain
<1> QED
  BY <1>6, <1>9, <1>10

(* Whatever is made step by step like a line is that line.                  *)
LEMMA StepByStep ==
  ASSUME NEW c \in Chart, NEW x \in User \cup {NoUser}, NEW k \in Nat, NEW f, f[0] = x,
         \A n \in 1 .. k : f[n] = Up(c, f[n - 1])
  PROVE  \A n \in 0 .. k : f[n] = Nth(c, x, n)
<1> DEFINE S == {n \in Nat : n <= k => \A m \in n .. k : f[n] = Chain(c, x, m)[n]}
<1>1. 0 \in S
  <2>1. \A m \in Nat : Chain(c, x, m)[0] = x
    BY ChainsAre
  <2>2. 0 .. k \subseteq Nat
    OBVIOUS
  <2> QED
    BY <2>1, <2>2
<1>2. ASSUME NEW n \in Nat, n \in S PROVE n + 1 \in S
  <2> SUFFICES ASSUME n + 1 <= k, NEW m \in (n + 1) .. k PROVE f[n + 1] = Chain(c, x, m)[n + 1]
    OBVIOUS
  <2>1. f[n] = Chain(c, x, m)[n]
    BY <1>2
  <2>2. n + 1 \in 1 .. k /\ n + 1 \in 1 .. m /\ (n + 1) - 1 = n /\ m \in Nat
    OBVIOUS
  <2>3. Chain(c, x, m)[n + 1] = Up(c, Chain(c, x, m)[n])
    BY <2>2, ChainsAre
  <2>4. f[n + 1] = Up(c, f[n])
    BY <2>2
  <2> QED
    BY <2>1, <2>3, <2>4
<1>3. Nat \subseteq S
  <2> HIDE DEF S
  <2> QED
    BY <1>1, <1>2, Upward
<1> QED
  BY <1>3 DEF Nth

LEMMA NthIs ==
  ASSUME NEW c \in Chart, NEW x \in User \cup {NoUser}
  PROVE  /\ Nth(c, x, 0) = x
         /\ \A n \in Nat : /\ Nth(c, x, n) \in User \cup {NoUser}
                           /\ Nth(c, x, n + 1) = Up(c, Nth(c, x, n))
<1>1. Nth(c, x, 0) = x
  BY ChainsAre DEF Nth
<1>2. ASSUME NEW n \in Nat
      PROVE  Nth(c, x, n) \in User \cup {NoUser} /\ Nth(c, x, n + 1) = Up(c, Nth(c, x, n))
  <2> DEFINE f == Chain(c, x, n + 1)
  <2>1. f[0] = x /\ \A m \in 1 .. n + 1 : f[m] = Up(c, f[m - 1])
    BY ChainsAre
  <2>2. \A m \in 0 .. n + 1 : f[m] = Nth(c, x, m)
    <3> DEFINE j == n + 1
    <3>1. j \in Nat
      OBVIOUS
    <3> HIDE DEF f
    <3>2. f[0] = x /\ \A m \in 1 .. j : f[m] = Up(c, f[m - 1])
      BY <2>1
    <3> HIDE DEF j
    <3>3. \A m \in 0 .. j : f[m] = Nth(c, x, m)
      BY <3>1, <3>2, StepByStep
    <3> QED
      BY <3>3 DEF j
  <2>3. f[n] \in User \cup {NoUser}
    BY ChainsAre
  <2>4. n + 1 \in 1 .. n + 1 /\ n + 1 \in 0 .. n + 1 /\ n \in 0 .. n + 1 /\ (n + 1) - 1 = n
    OBVIOUS
  <2> HIDE DEF f
  <2> QED
    BY <2>1, <2>2, <2>3, <2>4
<1> QED
  BY <1>1, <1>2

(* What is above a member of a line is above its start, further up.        *)
LEMMA LinesGoOn ==
  ASSUME NEW c \in Chart, NEW x \in User \cup {NoUser}, NEW m \in Nat, NEW n \in Nat
  PROVE  Nth(c, x, m + n) = Nth(c, Nth(c, x, m), n)
<1> DEFINE y == Nth(c, x, m)
           T == {k \in Nat : Nth(c, x, m + k) = Nth(c, y, k)}
<1>1. y \in User \cup {NoUser}
  BY NthIs
<1>2. 0 \in T
  BY <1>1, NthIs
<1>3. ASSUME NEW k \in Nat, k \in T PROVE k + 1 \in T
  <2>1. m + k \in Nat /\ m + (k + 1) = (m + k) + 1
    OBVIOUS
  <2>2. Nth(c, x, (m + k) + 1) = Up(c, Nth(c, x, m + k))
    BY <2>1, NthIs
  <2>3. Nth(c, y, k + 1) = Up(c, Nth(c, y, k))
    BY <1>1, NthIs
  <2> QED
    BY <1>3, <2>1, <2>2, <2>3
<1>4. Nat \subseteq T
  <2> HIDE DEF T
  <2> QED
    BY <1>2, <1>3, Upward
<1> QED
  BY <1>4

LEMMA NobodyIsAboveNobody ==
  ASSUME NEW c \in Chart, NEW n \in Nat
  PROVE  Nth(c, NoUser, n) = NoUser
<1> DEFINE T == {k \in Nat : Nth(c, NoUser, k) = NoUser}
<1>1. 0 \in T
  BY NthIs
<1>2. ASSUME NEW k \in Nat, k \in T PROVE k + 1 \in T
  <2>1. Nth(c, NoUser, k + 1) = Up(c, Nth(c, NoUser, k))
    BY NthIs
  <2> QED
    BY <1>2, <2>1 DEF Up
<1>3. Nat \subseteq T
  <2> HIDE DEF T
  <2> QED
    BY <1>1, <1>2, Upward
<1> QED
  BY <1>3

(* A line that ends, ends within as many steps as there are users: one     *)
(* that took more would meet somebody twice, and so for ever.              *)
Ends(c, x) == \E n \in Nat : Nth(c, x, n) = NoUser

LEMMA EndedStays ==
  ASSUME NEW c \in Chart, NEW x \in User \cup {NoUser}, NEW m \in Nat, NEW n \in Nat,
         m <= n, Nth(c, x, m) = NoUser
  PROVE  Nth(c, x, n) = NoUser
<1>1. n - m \in Nat /\ m + (n - m) = n
  OBVIOUS
<1>2. Nth(c, x, m + (n - m)) = Nth(c, NoUser, n - m)
  BY <1>1, LinesGoOn
<1> QED
  BY <1>1, <1>2, NobodyIsAboveNobody

LEMMA EndsWithinSize ==
  ASSUME NEW c \in Chart, NEW x \in User \cup {NoUser}, Ends(c, x)
  PROVE  Nth(c, x, Size) = NoUser
<1> DEFINE E == {n \in Nat : Nth(c, x, n) = NoUser}
<1>1. PICK n \in E : \A m \in E : n <= m
  <2>1. E # {} /\ E \in SUBSET Nat
    BY DEF Ends
  <2> HIDE DEF E
  <2> QED
    BY <2>1, LeastOf
<1>2. n \in Nat /\ Nth(c, x, n) = NoUser /\ \A m \in Nat : Nth(c, x, m) = NoUser => n <= m
  BY <1>1
<1> HIDE DEF E
<1>3. CASE n <= Size
  BY <1>2, <1>3, SizeIsNat, EndedStays
<1>4. CASE n > Size
  <2> DEFINE f == [i \in 0 .. Size |-> Nth(c, x, i)]
  <2>1. f \in [0 .. Size -> User]
    <3>1. \A i \in 0 .. Size : i \in Nat /\ i < n
      BY <1>2, <1>4, SizeIsNat
    <3>2. \A i \in 0 .. Size : Nth(c, x, i) \in User
      BY <1>2, <3>1, NthIs
    <3> QED
      BY <3>2
  <2>2. IsFiniteSet(0 .. Size) /\ Cardinality(0 .. Size) = Size + 1
    <3>1. 0 \in Int /\ Size \in Int /\ ~(0 > Size) /\ Size - 0 + 1 = Size + 1
      BY SizeIsNat
    <3> QED
      BY <3>1, FS_Interval
  <2>3. Cardinality(User) < Cardinality(0 .. Size)
    BY <2>2, SizeIsNat DEF Size
  <2>4. \E i, j \in 0 .. Size : i # j /\ f[i] = f[j]
    <3> HIDE DEF f
    <3> QED
      BY <2>1, <2>2, <2>3, UsersAreFinite, FS_PigeonHole
  <2>5. PICK i \in 0 .. Size, j \in 0 .. Size : i < j /\ Nth(c, x, i) = Nth(c, x, j)
    <3>1. PICK i \in 0 .. Size, j \in 0 .. Size : i # j /\ Nth(c, x, i) = Nth(c, x, j)
      BY <2>4
    <3>2. i < j \/ j < i
      BY <3>1, SizeIsNat
    <3> QED
      BY <3>1, <3>2
  <2>6. i \in Nat /\ j \in Nat /\ n - j \in Nat /\ j + (n - j) = n /\ i + (n - j) \in Nat /\ i + (n - j) < n
    BY <1>2, <1>4, <2>5, SizeIsNat
  <2>7. Nth(c, x, j + (n - j)) = Nth(c, x, i + (n - j))
    BY <2>5, <2>6, LinesGoOn
  <2> QED
    BY <1>2, <2>6, <2>7
<1> QED
  BY <1>2, <1>3, <1>4, SizeIsNat

(* A user whose new manager's line does not meet the user closes no loop.  *)
LEMMA NoLoopIsClosed ==
  ASSUME NEW c \in Chart, NEW u \in User, NEW b \in User \cup {NoUser},
         \A x \in User : Ends(c, x),
         \A n \in Nat : Nth(c, b, n) # u
  PROVE  LET d == [c EXCEPT ![u] = b] IN d \in Chart /\ \A x \in User : Ends(d, x)
<1> DEFINE d == [c EXCEPT ![u] = b]
<1>1. d \in Chart /\ d[u] = b /\ \A w \in User \ {u} : d[w] = c[w]
  BY DEF Chart
<1> HIDE DEF d
<1>2. \A w \in User \cup {NoUser} : w # u => Up(d, w) = Up(c, w)
  BY <1>1 DEF Up
(* Up to where a line meets the user it is what it was.                    *)
<1>3. ASSUME NEW x \in User \cup {NoUser}, NEW k \in Nat, \A i \in 0 .. k : i # k => Nth(c, x, i) # u
      PROVE  Nth(d, x, k) = Nth(c, x, k)
  <2> DEFINE T == {i \in Nat : i <= k => Nth(d, x, i) = Nth(c, x, i)}
  <2>1. 0 \in T
    BY <1>1, NthIs
  <2>2. ASSUME NEW i \in Nat, i \in T PROVE i + 1 \in T
    <3> SUFFICES ASSUME i + 1 <= k PROVE Nth(d, x, i + 1) = Nth(c, x, i + 1)
      OBVIOUS
    <3>1. Nth(d, x, i) = Nth(c, x, i)
      BY <2>2
    <3>2. Nth(d, x, i + 1) = Up(d, Nth(d, x, i)) /\ Nth(c, x, i + 1) = Up(c, Nth(c, x, i))
      BY <1>1, NthIs
    <3>3. Nth(c, x, i) \in User \cup {NoUser} /\ Nth(c, x, i) # u
      <4>1. i \in 0 .. k /\ i # k
        OBVIOUS
      <4> QED
        BY <1>3, <4>1, NthIs
    <3> QED
      BY <1>2, <3>1, <3>2, <3>3
  <2>3. Nat \subseteq T
    <3> HIDE DEF T
    <3> QED
      BY <2>1, <2>2, Upward
  <2> QED
    BY <2>3
<1>4. Ends(d, b)
  <2>1. PICK n \in Nat : Nth(c, b, n) = NoUser
    <3>1. CASE b \in User
      BY <3>1 DEF Ends
    <3>2. CASE b = NoUser
      BY <3>2, NthIs
    <3> QED
      BY <3>1, <3>2
  <2>2. Nth(d, b, n) = Nth(c, b, n)
    <3>1. \A i \in 0 .. n : i \in Nat
      OBVIOUS
    <3> QED
      BY <1>3, <3>1
  <2> QED
    BY <2>1, <2>2 DEF Ends
<1>5. Ends(d, u)
  <2>1. PICK n \in Nat : Nth(d, b, n) = NoUser
    BY <1>4 DEF Ends
  <2>2. Nth(d, u, 0) = u /\ Nth(d, u, 0 + 1) = Up(d, Nth(d, u, 0))
    BY <1>1, NthIs
  <2>3. Nth(d, u, 1) = b
    BY <1>1, <2>2, AbsentAssumption DEF Up
  <2>4. Nth(d, u, 1 + n) = Nth(d, b, n)
    BY <1>1, <2>3, LinesGoOn
  <2>5. 1 + n \in Nat
    OBVIOUS
  <2> QED
    BY <2>1, <2>4, <2>5 DEF Ends
<1>6. ASSUME NEW x \in User PROVE Ends(d, x)
  <2> DEFINE M == {i \in Nat : Nth(c, x, i) = u}
  <2>1. CASE M = {}
    <3>1. PICK n \in Nat : Nth(c, x, n) = NoUser
      BY DEF Ends
    <3>2. \A i \in 0 .. n : i \in Nat
      OBVIOUS
    <3>3. Nth(d, x, n) = Nth(c, x, n)
      BY <1>3, <2>1, <3>2
    <3> QED
      BY <3>1, <3>3 DEF Ends
  <2>2. CASE M # {}
    <3>1. PICK m \in M : \A i \in M : m <= i
      <4>1. M \in SUBSET Nat
        OBVIOUS
      <4> HIDE DEF M
      <4> QED
        BY <2>2, <4>1, LeastOf
    <3>2. \A i \in 0 .. m : i # m => Nth(c, x, i) # u
      <4>1. \A i \in 0 .. m : i \in Nat /\ (i # m => i < m)
        BY <3>1
      <4> QED
        BY <3>1, <4>1
    <3>3. Nth(d, x, m) = u
      BY <1>3, <3>1, <3>2
    <3>4. PICK n \in Nat : Nth(d, u, n) = NoUser
      BY <1>5 DEF Ends
    <3>5. Nth(d, x, m + n) = Nth(d, u, n)
      BY <1>1, <3>1, <3>3, LinesGoOn
    <3>6. m + n \in Nat
      BY <3>1
    <3> QED
      BY <3>4, <3>5, <3>6 DEF Ends
  <2> QED
    BY <2>1, <2>2
<1> QED
  BY <1>1, <1>6 DEF d

(* The walk of a request is a line of the chart as it is.                  *)
LEMMA LineIs ==
  ASSUME TypeOK, NEW b \in User \cup {NoUser}
  PROVE  /\ Managers \in Chart
         /\ DOMAIN Line(b) = 0 .. Size
         /\ \A n \in 0 .. Size : Line(b)[n] = Nth(Managers, b, n)
<1>1. Managers \in Chart
  BY DEF TypeOK, PersonType, Managers, Chart
<1> DEFINE IsLine(f) == f = [n \in 0 .. Size |-> IF n = 0 THEN b
                              ELSE IF f[n - 1] = NoUser THEN NoUser ELSE person[f[n - 1]].manager]
<1>2. Line(b) = CHOOSE f : IsLine(f)
  BY DEF Line, Size
<1>3. IsLine(Chain(Managers, b, Size))
  <2> DEFINE f == Chain(Managers, b, Size)
  <2>1. /\ f \in [0 .. Size -> User \cup {NoUser}] /\ f[0] = b
        /\ \A n \in 1 .. Size : f[n] = Up(Managers, f[n - 1])
    BY <1>1, SizeIsNat, ChainsAre
  <2> HIDE DEF f
  <2>2. \A n \in 0 .. Size : n = 0 \/ (n \in 1 .. Size /\ n - 1 \in 0 .. Size /\ n # 0)
    BY SizeIsNat
  <2>3. \A n \in 0 .. Size : f[n] = IF n = 0 THEN b
                              ELSE IF f[n - 1] = NoUser THEN NoUser ELSE person[f[n - 1]].manager
    BY <2>1, <2>2, AbsentAssumption DEF Up, Managers
  <2>4. IsLine(f)
    BY <2>1, <2>3
  <2> QED
    BY <2>4 DEF f
<1>4. IsLine(Line(b))
  <2> HIDE DEF IsLine
  <2> QED
    BY <1>2, <1>3, Zenon
<1>5. DOMAIN Line(b) = 0 .. Size
  BY <1>4
<1>6. \A n \in 0 .. Size : n = 0 \/ (n \in 1 .. Size /\ n - 1 \in 0 .. Size /\ n # 0)
  BY SizeIsNat
<1>7. \A n \in 0 .. Size : Line(b)[n] \in User \cup {NoUser}
  <2> DEFINE T == {n \in Nat : n <= Size => Line(b)[n] \in User \cup {NoUser}}
  <2>1. 0 \in T
    BY <1>4, SizeIsNat
  <2>2. ASSUME NEW n \in Nat, n \in T PROVE n + 1 \in T
    <3> SUFFICES ASSUME n + 1 <= Size PROVE Line(b)[n + 1] \in User \cup {NoUser}
      OBVIOUS
    <3>1. n + 1 \in 0 .. Size /\ n + 1 # 0 /\ (n + 1) - 1 = n
      BY SizeIsNat
    <3>2. Line(b)[n + 1] = IF Line(b)[n] = NoUser THEN NoUser ELSE person[Line(b)[n]].manager
      BY <1>4, <3>1
    <3>3. Line(b)[n] \in User \cup {NoUser}
      BY <2>2, SizeIsNat
    <3> QED
      BY <3>2, <3>3 DEF TypeOK, PersonType
  <2>3. Nat \subseteq T
    <3> HIDE DEF T
    <3> QED
      BY <2>1, <2>2, Upward
  <2> QED
    BY <2>3, SizeIsNat
<1>8. Line(b)[0] = b /\ \A n \in 1 .. Size : Line(b)[n] = Up(Managers, Line(b)[n - 1])
  <2>1. Line(b)[0] = b
    BY <1>4, SizeIsNat
  <2>2. ASSUME NEW n \in 1 .. Size PROVE Line(b)[n] = Up(Managers, Line(b)[n - 1])
    <3>1. n \in 0 .. Size /\ n # 0 /\ n - 1 \in 0 .. Size
      BY SizeIsNat
    <3>2. Line(b)[n] = IF Line(b)[n - 1] = NoUser THEN NoUser ELSE person[Line(b)[n - 1]].manager
      BY <1>4, <3>1
    <3>3. Line(b)[n - 1] \in User \cup {NoUser}
      BY <1>7, <3>1
    <3> QED
      BY <3>2, <3>3 DEF Up, Managers
  <2> QED
    BY <2>1, <2>2
<1>9. \A n \in 0 .. Size : Line(b)[n] = Nth(Managers, b, n)
  BY <1>1, <1>8, SizeIsNat, StepByStep
<1> QED
  BY <1>1, <1>5, <1>9

-----------------------------------------------------------------------------
(* What a request has read of roles, of who holds them and of the line      *)
(* above a user is still true when nothing was committed since.             *)
Reads(s) ==
  ~s.stale =>
    /\ s.kind \in {"create", "update"} => role[s.role] = "active" /\ LineIsSound(s.user, s.manager)
    /\ s.kind = "deactivate" => NotTheLastAdministrator(s.user)
    /\ s.kind = "role" => IF s.into = NoRole THEN InRole(s.role) = {}
                                             ELSE ReplacementFits(s.role, s.into)
    /\ s.kind = "permissions" =>
         /\ role[s.role] = "active"
         /\ \/ \E u \in User : Administers(u) /\ person[u].role # s.role
            \/ s.keeps /\ InRole(s.role) # {}
ReadsHold == \A x \in Session : Reads(session[x])

Roles == <<person, role, manages>>

LEMMA KeptReads ==
  ASSUME UNCHANGED Roles, NEW y \in Session, Reads(session[y]),
         session'[y].kind = session[y].kind, session'[y].user = session[y].user,
         session'[y].role = session[y].role, session'[y].into = session[y].into,
         session'[y].manager = session[y].manager,
         session'[y].keeps = session[y].keeps, session'[y].stale = session[y].stale
  PROVE  Reads(session[y])'
<1>1. UNCHANGED <<person, role, manages>>
  BY DEF Roles
<1>2. \A u \in User : (Active(u)' <=> Active(u)) /\ (Manages(u)' <=> Manages(u))
                      /\ (Administers(u)' <=> Administers(u))
  BY <1>1 DEF Active, Manages, Administers
<1>3. NotTheLastAdministrator(session[y].user)' <=> NotTheLastAdministrator(session[y].user)
  BY <1>1 DEF NotTheLastAdministrator, Active, Manages
<1>4. InRole(session[y].role)' = InRole(session[y].role)
  BY <1>1 DEF InRole, Active
<1>5. ReplacementFits(session[y].role, session[y].into)'
        <=> ReplacementFits(session[y].role, session[y].into)
  BY <1>1 DEF ReplacementFits, Active, Manages
<1>6. LineIsSound(session[y].user, session[y].manager)'
        <=> LineIsSound(session[y].user, session[y].manager)
  BY <1>1 DEF LineIsSound, Line, Active
<1> QED
  BY <1>1, <1>2, <1>3, <1>4, <1>5, <1>6 DEF Reads

LEMMA NoReads ==
  ASSUME NEW y \in Session, session'[y].kind = "none" \/ session'[y].stale
  PROVE  Reads(session[y])'
BY DEF Reads

(* A commit leaves nobody with reads that are still good.                   *)
LEMMA CommitReads ==
  ASSUME IInv, NEW x \in Session, Commits(x)
  PROVE  ReadsHold'
<1> SUFFICES ASSUME NEW y \in Session PROVE Reads(session[y])'
  BY DEF ReadsHold
<1>1. session \in [Session -> SessionType] /\ Shape(session[y]) /\ Idle.kind = "none"
  BY DEF IInv, TypeOK, Shapes, Idle
<1>2. CASE y = x
  BY <1>1, <1>2, CommitFacts, NoReads
<1>3. CASE y # x /\ session[y].at = "idle"
  <2>1. session'[y] = Idle
    BY <1>1, <1>3, CommitFacts DEF Others, Shape
  <2> QED
    BY <1>1, <2>1, NoReads
<1>4. CASE y # x /\ session[y].at # "idle"
  BY <1>1, <1>4, CommitFacts, NoReads DEF Others
<1> QED
  BY <1>2, <1>3, <1>4

(* A request that moves on or gives up changes nothing that was read.       *)
LEMMA MoveReads ==
  ASSUME IInv, ReadsHold, UNCHANGED Roles, NEW x \in Session,
         \A y \in Others(x) : session'[y] = session[y],
         \/ session'[x] = Idle
         \/ /\ session'[x].kind = session[x].kind /\ session'[x].user = session[x].user
            /\ session'[x].role = session[x].role /\ session'[x].into = session[x].into
            /\ session'[x].manager = session[x].manager
            /\ session'[x].keeps = session[x].keeps /\ session'[x].stale = session[x].stale
  PROVE  ReadsHold'
<1> SUFFICES ASSUME NEW y \in Session PROVE Reads(session[y])'
  BY DEF ReadsHold
<1>1. Idle.kind = "none"
  BY DEF Idle
<1>2. CASE y = x /\ session'[x] = Idle
  BY <1>1, <1>2, NoReads
<1>3. CASE y = x /\ session'[x] # Idle
  BY <1>3, KeptReads DEF ReadsHold
<1>4. CASE y # x
  BY <1>4, KeptReads DEF ReadsHold, Others
<1> QED
  BY <1>2, <1>3, <1>4

(* A request that begins has just read.                                    *)
LEMMA BeginReads ==
  ASSUME IInv, ReadsHold, NEW x \in Session, NEW r, Begin(x, r), Reads(r)
  PROVE  ReadsHold'
<1> SUFFICES ASSUME NEW y \in Session PROVE Reads(session[y])'
  BY DEF ReadsHold
<1>1. UNCHANGED Roles /\ session' = [session EXCEPT ![x] = r] /\ session \in [Session -> SessionType]
  BY DEF Begin, rows, Roles, IInv, TypeOK
<1>2. CASE y # x
  BY <1>1, <1>2, KeptReads DEF ReadsHold
<1>3. CASE y = x
  <2>1. session'[y] = r
    BY <1>1, <1>3
  <2>2. LineIsSound(r.user, r.manager)' <=> LineIsSound(r.user, r.manager)
    BY <1>1 DEF Roles, LineIsSound, Line, Active
  <2> QED
    BY <1>1, <2>1, <2>2 DEF Roles, Reads, NotTheLastAdministrator, InRole, ReplacementFits,
                            Active, Manages, Administers
<1> QED
  BY <1>2, <1>3

LEMMA RequestReads ==
  ASSUME IInv, ReadsHold, NEW x \in Session, UserRequest(x) \/ TeamRequest(x) \/ RoleRequest(x)
  PROVE  ReadsHold'
<1>1. ASSUME NEW u \in User, DeactivateUser(x, u) PROVE ReadsHold'
  <2> DEFINE q == [Idle EXCEPT !.at = "memberships", !.kind = "deactivate", !.user = u]
  <2>1. q.kind = "deactivate" /\ q.user = u
    BY DEF Idle
  <2>2. Begin(x, q) /\ NotTheLastAdministrator(u)
    BY <1>1 DEF DeactivateUser
  <2> HIDE DEF q
  <2>3. Reads(q)
    BY <2>1, <2>2 DEF Reads
  <2> QED
    BY <2>2, <2>3, BeginReads
<1>2. ASSUME NEW u \in User, NEW r \in Role,
             NEW d \in Department \cup {NoDepartment}, NEW b \in User \cup {NoUser},
             CreateUser(x, u, r, d, b)
      PROVE  ReadsHold'
  <2> DEFINE q == [Idle EXCEPT !.at = "user", !.kind = "create", !.user = u, !.role = r,
                               !.department = d, !.manager = b]
  <2>1. q.kind = "create" /\ q.role = r /\ q.user = u /\ q.manager = b
    BY DEF Idle
  <2>2. Begin(x, q) /\ role[r] = "active" /\ LineIsSound(u, b)
    BY <1>2 DEF CreateUser, UserInput
  <2> HIDE DEF q
  <2>3. Reads(q)
    BY <2>1, <2>2 DEF Reads
  <2> QED
    BY <2>2, <2>3, BeginReads
<1>3. ASSUME NEW u \in User, NEW r \in Role,
             NEW d \in Department \cup {NoDepartment}, NEW b \in User \cup {NoUser},
             UpdateUser(x, u, r, d, b)
      PROVE  ReadsHold'
  <2> DEFINE q == [Idle EXCEPT !.at = IF d # person[u].department THEN "memberships" ELSE "user",
                               !.kind = "update", !.user = u, !.role = r,
                               !.department = d, !.manager = b]
  <2>1. q.kind = "update" /\ q.role = r /\ q.user = u /\ q.manager = b
    BY DEF Idle
  <2>2. Begin(x, q) /\ role[r] = "active" /\ LineIsSound(u, b)
    BY <1>3 DEF UpdateUser, UserInput
  <2> HIDE DEF q
  <2>3. Reads(q)
    BY <2>1, <2>2 DEF Reads
  <2> QED
    BY <2>2, <2>3, BeginReads
<1>4. ASSUME NEW t \in Team, NEW M \in SUBSET User, NEW L \in SUBSET M,
             CreateTeam(x, t, M, L) \/ ReplaceTeamMembers(x, t, M, L)
      PROVE  ReadsHold'
  <2>1. ASSUME NEW q, q.kind \in {"team", "members"}, Begin(x, q) PROVE ReadsHold'
    BY <2>1, BeginReads DEF Reads
  <2>2. CASE CreateTeam(x, t, M, L)
    <3> DEFINE q == [Idle EXCEPT !.at = "set", !.kind = "team", !.team = t,
                                 !.members = M, !.leaders = L]
    <3>1. q.kind = "team"
      BY DEF Idle
    <3>2. Begin(x, q)
      BY <2>2 DEF CreateTeam
    <3> HIDE DEF q
    <3> QED
      BY <2>1, <3>1, <3>2
  <2>3. CASE ReplaceTeamMembers(x, t, M, L)
    <3> DEFINE q == [Idle EXCEPT !.at = "set", !.kind = "members", !.team = t,
                                 !.members = M, !.leaders = L, !.held = {t}]
    <3>1. q.kind = "members"
      BY DEF Idle
    <3>2. Begin(x, q)
      BY <2>3 DEF ReplaceTeamMembers
    <3> HIDE DEF q
    <3> QED
      BY <2>1, <3>1, <3>2
  <2> QED
    BY <1>4, <2>2, <2>3
<1>5. ASSUME NEW r \in Role, NEW into \in Role \cup {NoRole}, DeactivateRole(x, r, into)
      PROVE  ReadsHold'
  <2> DEFINE q == [Idle EXCEPT !.at = "retire", !.kind = "role", !.role = r, !.into = into]
  <2>1. q.kind = "role" /\ q.role = r /\ q.into = into
    BY DEF Idle
  <2>2. Begin(x, q) /\ IF into = NoRole THEN InRole(r) = {} ELSE ReplacementFits(r, into)
    BY <1>5 DEF DeactivateRole
  <2> HIDE DEF q
  <2>3. Reads(q)
    BY <2>1, <2>2 DEF Reads
  <2> QED
    BY <2>2, <2>3, BeginReads
<1>6. ASSUME NEW r \in Role, NEW keeps \in BOOLEAN, ReplacePermissions(x, r, keeps)
      PROVE  ReadsHold'
  <2> DEFINE q == [Idle EXCEPT !.at = "permit", !.kind = "permissions", !.role = r, !.keeps = keeps]
  <2>1. q.kind = "permissions" /\ q.role = r /\ q.keeps = keeps
    BY DEF Idle
  <2>2. /\ Begin(x, q) /\ role[r] = "active"
        /\ \/ \E u \in User : Administers(u) /\ person[u].role # r
           \/ keeps /\ InRole(r) # {}
    BY <1>6 DEF ReplacePermissions
  <2> HIDE DEF q
  <2>3. Reads(q)
    BY <2>1, <2>2 DEF Reads
  <2> QED
    BY <2>2, <2>3, BeginReads
<1>7. ASSUME NEW r \in Role, CreateRole(x, r) PROVE ReadsHold'
  BY <1>7, CommitReads DEF CreateRole
<1>8. ASSUME NEW t \in Team, DeactivateTeam(x, t) PROVE ReadsHold'
  BY <1>8, CommitReads DEF DeactivateTeam
<1> QED
  BY <1>1, <1>2, <1>3, <1>4, <1>5, <1>6, <1>7, <1>8 DEF UserRequest, TeamRequest, RoleRequest

LEMMA StepReads ==
  ASSUME IInv, ReadsHold, NEW x \in Session, Step(x)
  PROVE  ReadsHold'
<1>1. session \in [Session -> SessionType]
  BY DEF IInv, TypeOK
<1> DEFINE Same(r) == /\ r.kind = session[x].kind /\ r.user = session[x].user
                      /\ r.role = session[x].role /\ r.into = session[x].into
                      /\ r.manager = session[x].manager
                      /\ r.keeps = session[x].keeps /\ r.stale = session[x].stale
<1>2. ASSUME NEW r, Same(r), session' = [session EXCEPT ![x] = r], UNCHANGED rows
      PROVE  ReadsHold'
  <2>1. session'[x] = r /\ (\A y \in Others(x) : session'[y] = session[y]) /\ UNCHANGED Roles
    BY <1>1, <1>2 DEF Others, rows, Roles
  <2> QED
    BY <1>2, <2>1, MoveReads
<1>3. CASE ReadMemberships(x)
  <2> DEFINE r == [session[x] EXCEPT !.at = IF MemberOf(session[x].user) = {} THEN "user" ELSE "lock",
                                     !.found = MemberOf(session[x].user)]
  <2>1. Same(r)
    BY <1>1 DEF SessionType
  <2>2. session' = [session EXCEPT ![x] = r] /\ UNCHANGED rows
    BY <1>3 DEF ReadMemberships
  <2> QED
    BY <1>2, <2>1, <2>2
<1>4. CASE LockTeam(x)
  <2> DEFINE H == session[x].held \cup {Min(session[x].found \ session[x].held)}
             r == [session[x] EXCEPT !.held = H, !.at = IF session[x].found = H THEN "leave" ELSE "lock"]
  <2>1. Same(r)
    BY <1>1 DEF SessionType
  <2>2. session' = [session EXCEPT ![x] = r] /\ UNCHANGED rows
    BY <1>4 DEF LockTeam, Locks
  <2> QED
    BY <1>2, <2>1, <2>2
<1>5. CASE LeaveTeams(x)
  <2> DEFINE u == session[x].user
             r == [session[x] EXCEPT !.at = "user", !.left = MemberOf(u),
                                     !.unled = {t \in session[x].found : Unled(u, t)}]
  <2>1. Same(r)
    BY <1>1 DEF SessionType
  <2>2. session' = [session EXCEPT ![x] = r] /\ UNCHANGED rows
    BY <1>5 DEF LeaveTeams
  <2> QED
    BY <1>2, <2>1, <2>2
<1>6. CASE WriteUser(x) /\ ~KeysAllow(x)
  BY <1>1, <1>6, MoveReads DEF WriteUser, Aborts, Others, Roles
<1>7. CASE WriteTeam(x) /\ Aborts(x) /\ UNCHANGED person
  BY <1>1, <1>7, MoveReads DEF WriteTeam, Aborts, Others, Roles
<1>8. CASE Commits(x)
  BY <1>8, CommitReads
<1> QED
  BY <1>3, <1>4, <1>5, <1>6, <1>7, <1>8 DEF Step, WriteUser, WriteTeam, WriteRole, WritePermissions

LEMMA NextReads ==
  ASSUME IInv, ReadsHold, [Next]_vars
  PROVE  ReadsHold'
<1>1. ASSUME NEW x \in Session, Step(x) PROVE ReadsHold'
  BY <1>1, StepReads
<1>2. ASSUME NEW x \in Session, UserRequest(x) \/ TeamRequest(x) \/ RoleRequest(x) PROVE ReadsHold'
  BY <1>2, RequestReads
<1>3. ASSUME NEW u \in User, NEW r \in Role, Bootstrap(u, r) PROVE ReadsHold'
  <2>1. \A x \in Session : session[x] = Idle /\ session' = session
    BY <1>3 DEF Bootstrap, IInv, Existing, Exists, Shapes, Shape
  <2>2. Idle.kind = "none"
    BY DEF Idle
  <2> QED
    BY <2>1, <2>2, NoReads DEF ReadsHold
<1>4. CASE UNCHANGED vars
  BY <1>4, KeptReads DEF vars, rows, Roles, ReadsHold
<1> QED
  BY <1>1, <1>2, <1>3, <1>4 DEF Next

(* The checks of a request on roles, administrators and lines stay true until *)
(* something else commits, which marks the request as stale.               *)
THEOREM ReadsStayGood == Spec => [](IInv /\ ReadsHold)
<1>1. Init => ReadsHold
  BY DEF Init, ReadsHold, Reads, Idle
<1>2. Init => IInv
  BY InitIInv
<1>3. IInv /\ ReadsHold /\ [Next]_vars => (IInv /\ ReadsHold)'
  BY NextKeeps, NextReads
<1> QED
  BY <1>1, <1>2, <1>3, PTL DEF Spec

-----------------------------------------------------------------------------
(* Everybody who is live, wherever a step moves them, is in a live role:    *)
(* the writes that touch roles, one by one.                                *)
Overtaken(x) == session[x].stale /\ session'[x].at = "idle"

LEMMA WrittenServes ==
  ASSUME IInv, ReadsHold, RolesServe, NEW x \in Session, WriteUser(x), ~session[x].stale
  PROVE  RolesServe'
<1> DEFINE s == session[x]
<1>1. CASE ~KeysAllow(x)
  BY <1>1 DEF WriteUser, RolesServe, Active
<1>2. CASE KeysAllow(x)
  <2>1. /\ s.user \in User /\ s.kind \in {"create", "update", "deactivate"}
        /\ person' = [person EXCEPT ![s.user] = Written(s)] /\ UNCHANGED role
        /\ s.kind = "deactivate" => Written(s).life = "inactive"
    BY <1>2, WriteUserFacts
  <2>2. person \in [User -> PersonType]
    BY DEF IInv, TypeOK
  <2>3. s.kind \in {"create", "update"} => Written(s).role = s.role /\ role[s.role] = "active"
    BY <2>1, <2>2 DEF ReadsHold, Reads, Written, PersonType
  <2> SUFFICES ASSUME NEW u \in User, person'[u].life = "active"
               PROVE  role[person'[u].role] = "active"
    BY <2>1 DEF RolesServe, Active
  <2>4. CASE u = s.user
    BY <2>1, <2>2, <2>3, <2>4
  <2>5. CASE u # s.user
    BY <2>1, <2>2, <2>5 DEF RolesServe, Active
  <2> QED
    BY <2>4, <2>5
<1> QED
  BY <1>1, <1>2

LEMMA RetiredServes ==
  ASSUME IInv, ReadsHold, RolesServe, NEW x \in Session, WriteRole(x), ~session[x].stale
  PROVE  RolesServe'
<1> DEFINE s == session[x]
           moved == IF s.into = NoRole THEN {} ELSE InRole(s.role)
<1>1. /\ s.kind = "role" /\ s.role \in Role /\ s.into \in Role \cup {NoRole}
      /\ person \in [User -> PersonType] /\ role \in [Role -> Life]
      /\ \A u \in User : person[u].life # "none" => person[u].role \in Role
  BY DEF WriteRole, At, IInv, TypeOK, Shapes, Shape, SessionType
<1>2. IF s.into = NoRole THEN InRole(s.role) = {} ELSE role[s.into] = "active" /\ s.into # s.role
  BY <1>1 DEF ReadsHold, Reads, ReplacementFits
<1>3. /\ person' = [u \in User |-> IF u \in moved THEN [person[u] EXCEPT !.role = s.into] ELSE person[u]]
      /\ role' = [role EXCEPT ![s.role] = "inactive"]
  BY DEF WriteRole
<1> SUFFICES ASSUME NEW u \in User, person'[u].life = "active"
             PROVE  role'[person'[u].role] = "active"
  BY DEF RolesServe, Active
<1>4. CASE u \in moved
  <2>1. person[u] \in PersonType /\ person'[u] = [person[u] EXCEPT !.role = s.into]
    BY <1>1, <1>3, <1>4
  <2>2. person'[u].role = s.into
    BY <2>1 DEF PersonType
  <2>3. role[s.into] = "active" /\ s.into # s.role /\ s.into \in Role
    BY <1>1, <1>2, <1>4
  <2> QED
    BY <1>1, <1>3, <2>2, <2>3
<1>5. CASE u \notin moved
  <2>1. person'[u] = person[u] /\ u \notin InRole(s.role)
    BY <1>2, <1>3, <1>5
  <2>2. person[u].life = "active" /\ person[u].role \in Role /\ person[u].role # s.role
    BY <1>1, <2>1 DEF InRole, Active
  <2>3. role[person[u].role] = "active"
    BY <2>2 DEF RolesServe, Active
  <2> QED
    BY <1>1, <1>3, <2>1, <2>2, <2>3
<1> QED
  BY <1>4, <1>5

LEMMA BootstrappedServes ==
  ASSUME IInv, NEW u \in User, NEW r \in Role, Bootstrap(u, r)
  PROVE  RolesServe'
BY DEF Bootstrap, RolesServe, Active, IInv, TypeOK

(* A live user leaves a live role only by a request that somebody overtook. *)
THEOREM RolesServeUnlessOvertaken == Spec => RolesKeepServing
<1>1. ASSUME IInv, ReadsHold, [Next]_vars, RolesServe, ~RolesServe'
      PROVE  \E x \in Session : session[x].stale /\ session'[x].at = "idle"
  <2>1. ASSUME UNCHANGED <<person, role>> PROVE FALSE
    BY <1>1, <2>1 DEF RolesServe, Active
  <2>2. ASSUME NEW x \in Session, WriteUser(x) \/ WriteRole(x)
        PROVE  Overtaken(x)
    <3>1. session[x].stale
      BY <1>1, <2>2, WrittenServes, RetiredServes
    <3>2. session'[x] = Idle
      BY <1>1, <2>2, CommitFacts DEF WriteUser, WriteRole, Aborts, IInv, TypeOK
    <3> QED
      BY <3>1, <3>2 DEF Overtaken, Idle
  <2>3. ASSUME NEW x \in Session, Step(x), ~WriteUser(x), ~WriteRole(x) PROVE FALSE
    BY <2>1, <2>3 DEF Step, ReadMemberships, LockTeam, Locks, LeaveTeams, WriteTeam,
                      WritePermissions, rows
  <2>4. ASSUME NEW x \in Session, UserRequest(x) \/ TeamRequest(x) PROVE FALSE
    <3>1. CASE UserRequest(x)
      BY <2>1, <3>1 DEF UserRequest, DeactivateUser, CreateUser, UpdateUser, Begin, rows
    <3>2. CASE TeamRequest(x)
      BY <2>1, <3>2 DEF TeamRequest, CreateTeam, ReplaceTeamMembers, DeactivateTeam, Begin, rows
    <3> QED
      BY <2>4, <3>1, <3>2
  <2>5. ASSUME NEW x \in Session, RoleRequest(x) PROVE FALSE
    <3>1. PICK r \in Role : CreateRole(x, r)
      BY <2>1, <2>5 DEF RoleRequest, DeactivateRole, ReplacePermissions, Begin, rows
    <3>2. UNCHANGED person /\ role' = [role EXCEPT ![r] = "active"]
      BY <3>1 DEF CreateRole
    <3> QED
      BY <1>1, <3>2 DEF RolesServe, Active, IInv, TypeOK
  <2>6. ASSUME NEW u \in User, NEW r \in Role, Bootstrap(u, r) PROVE FALSE
    BY <1>1, <2>6, BootstrappedServes
  <2>7. CASE UNCHANGED vars
    BY <2>1, <2>7 DEF vars, rows
  <2> QED
    BY <1>1, <2>2, <2>3, <2>4, <2>5, <2>6, <2>7 DEF Next, Overtaken
<1> QED
  BY <1>1, ReadsStayGood, PTL DEF RolesKeepServing, Spec

-----------------------------------------------------------------------------
(* The reporting lines stay free of loops.                                 *)
LEMMA LooplessIs == TypeOK => (Loopless <=> \A x \in User : Ends(Managers, x))
<1> SUFFICES ASSUME TypeOK PROVE Loopless <=> \A x \in User : Ends(Managers, x)
  OBVIOUS
<1>1. Managers \in Chart
  BY LineIs
<1>2. Size \in 0 .. Size
  BY SizeIsNat
<1>3. \A u \in User : Line(u)[Size] = Nth(Managers, u, Size)
  BY <1>2, LineIs
<1>4. \A u \in User : Ends(Managers, u) <=> Nth(Managers, u, Size) = NoUser
  BY <1>1, SizeIsNat, EndsWithinSize DEF Ends
<1> QED
  BY <1>3, <1>4 DEF Loopless, Size

LEMMA LooplessNext == TypeOK' => (Loopless' <=> \A x \in User : Ends(Managers', x))
<1>1. (TypeOK => (Loopless <=> \A x \in User : Ends(Managers, x)))'
  BY LooplessIs, PTL
<1> QED
  BY <1>1 DEF Ends, Nth, Chain, IsChain

LEMMA SoundLineMisses ==
  ASSUME TypeOK, NEW u \in User, NEW b \in User \cup {NoUser}, LineIsSound(u, b)
  PROVE  \A n \in Nat : Nth(Managers, b, n) # u
<1>1. /\ Managers \in Chart /\ DOMAIN Line(b) = 0 .. Size
      /\ \A n \in 0 .. Size : Line(b)[n] = Nth(Managers, b, n)
  BY LineIs
<1>2. /\ Line(b)[Size] = NoUser
      /\ \A n \in 0 .. Size : Line(b)[n] # NoUser => Line(b)[n] # u
  BY <1>1 DEF LineIsSound, Size
<1>3. Nth(Managers, b, Size) = NoUser
  <2>1. Size \in 0 .. Size
    BY SizeIsNat
  <2> QED
    BY <1>1, <1>2, <2>1
<1> SUFFICES ASSUME NEW n \in Nat PROVE Nth(Managers, b, n) # u
  OBVIOUS
<1>4. CASE n <= Size
  <2>1. n \in 0 .. Size
    BY <1>4, SizeIsNat
  <2> QED
    BY <1>1, <1>2, <2>1, AbsentAssumption
<1>5. CASE n > Size
  <2>1. Nth(Managers, b, n) = NoUser
    BY <1>1, <1>3, <1>5, SizeIsNat, EndedStays
  <2> QED
    BY <2>1, AbsentAssumption
<1> QED
  BY <1>4, <1>5, SizeIsNat

(* One user is given a manager and the others keep theirs.                  *)
LEMMA ManagerGiven ==
  ASSUME TypeOK, TypeOK', NEW u \in User, NEW b \in User \cup {NoUser},
         Managers' = [Managers EXCEPT ![u] = b],
         \A n \in Nat : Nth(Managers, b, n) # u, Loopless
  PROVE  Loopless'
<1>1. Managers \in Chart
  BY LineIs
<1>2. \A x \in User : Ends(Managers, x)
  BY LooplessIs
<1>3. \A x \in User : Ends(Managers', x)
  BY <1>1, <1>2, NoLoopIsClosed
<1> QED
  BY <1>3, LooplessNext

LEMMA WrittenIsLoopless ==
  ASSUME IInv, IInv', ReadsHold, Loopless, NEW x \in Session, WriteUser(x), ~session[x].stale
  PROVE  Loopless'
<1> DEFINE s == session[x]
<1>1. CASE ~KeysAllow(x)
  BY <1>1 DEF WriteUser, Loopless, Line
<1>2. CASE KeysAllow(x)
  <2>1. /\ s \in SessionType /\ s.user \in User /\ s.kind \in {"create", "update", "deactivate"}
        /\ person' = [person EXCEPT ![s.user] = Written(s)]
    BY <1>2, WriteUserFacts
  <2>2. TypeOK /\ TypeOK' /\ person \in [User -> PersonType]
    BY DEF IInv, TypeOK
  <2>3. CASE s.kind = "deactivate"
    <3>1. Written(s).manager = person[s.user].manager
      BY <2>1, <2>2, <2>3 DEF Written, PersonType
    <3>2. \A u \in User : person'[u].manager = person[u].manager
      BY <2>1, <2>2, <3>1
    <3>3. Managers' = Managers
      BY <3>2 DEF Managers
    <3> QED
      BY <2>2, <3>3, LooplessIs, LooplessNext
  <2>4. CASE s.kind \in {"create", "update"}
    <3>1. Written(s).manager = s.manager /\ s.manager \in User \cup {NoUser}
      BY <2>1, <2>2, <2>4 DEF Written, PersonType, SessionType
    <3>2. Managers' = [Managers EXCEPT ![s.user] = s.manager]
      BY <2>1, <2>2, <3>1 DEF Managers
    <3>3. LineIsSound(s.user, s.manager)
      BY <2>4 DEF ReadsHold, Reads
    <3>4. \A n \in Nat : Nth(Managers, s.manager, n) # s.user
      BY <2>1, <2>2, <3>1, <3>3, SoundLineMisses
    <3> QED
      BY <2>1, <2>2, <3>1, <3>2, <3>4, ManagerGiven
  <2> QED
    BY <2>1, <2>3, <2>4
<1> QED
  BY <1>1, <1>2

LEMMA BootstrappedIsLoopless ==
  ASSUME IInv, IInv', Loopless, NEW u \in User, NEW r \in Role, Bootstrap(u, r)
  PROVE  Loopless'
<1>1. TypeOK /\ TypeOK' /\ person \in [User -> PersonType]
  BY DEF IInv, TypeOK
<1>2. Managers' = [Managers EXCEPT ![u] = NoUser]
  BY <1>1 DEF Bootstrap, Managers
<1>3. \A n \in Nat : Nth(Managers, NoUser, n) # u
  BY <1>1, LineIs, NobodyIsAboveNobody, AbsentAssumption
<1> QED
  BY <1>1, <1>2, <1>3, ManagerGiven

(* No request closes a loop of managers, unless something was committed     *)
(* after it had walked up the line (validateUserRefs).                      *)
THEOREM ChartAlwaysStaysLoopless == Spec => ChartStaysLoopless
<1>1. ASSUME IInv, IInv', ReadsHold, [Next]_vars, Loopless, ~Loopless'
      PROVE  \E x \in Session : At(x, "user") /\ session[x].stale /\ session'[x].at = "idle"
  <2>1. ASSUME \A u \in User : person'[u].manager = person[u].manager PROVE FALSE
    <3>1. Managers' = Managers
      BY <2>1 DEF Managers
    <3> QED
      BY <1>1, <3>1, LooplessIs, LooplessNext DEF IInv
  <2>2. ASSUME NEW x \in Session, WriteUser(x)
        PROVE  At(x, "user") /\ session[x].stale /\ session'[x].at = "idle"
    <3>1. session[x].stale
      BY <1>1, <2>2, WrittenIsLoopless
    <3>2. session'[x] = Idle
      BY <1>1, <2>2, CommitFacts DEF WriteUser, Aborts, IInv, TypeOK
    <3> QED
      BY <2>2, <3>1, <3>2 DEF WriteUser, Idle
  <2>3. ASSUME NEW x \in Session, WriteRole(x) PROVE FALSE
    <3>1. person \in [User -> PersonType]
      BY <1>1 DEF IInv, TypeOK
    <3>2. ASSUME NEW u \in User, NEW into
          PROVE  [person[u] EXCEPT !.role = into].manager = person[u].manager
      BY <3>1 DEF PersonType
    <3>3. \A u \in User : person'[u].manager = person[u].manager
      BY <2>3, <3>2 DEF WriteRole
    <3> QED
      BY <2>1, <3>3
  <2>4. ASSUME UNCHANGED person PROVE FALSE
    BY <2>1, <2>4
  <2>5. ASSUME NEW x \in Session, Step(x), ~WriteUser(x), ~WriteRole(x) PROVE FALSE
    BY <2>4, <2>5 DEF Step, ReadMemberships, LockTeam, Locks, LeaveTeams, WriteTeam,
                      WritePermissions, rows
  <2>6. ASSUME NEW x \in Session, UserRequest(x) \/ TeamRequest(x) \/ RoleRequest(x) PROVE FALSE
    <3>1. CASE UserRequest(x)
      BY <2>4, <3>1 DEF UserRequest, DeactivateUser, CreateUser, UpdateUser, Begin, rows
    <3>2. CASE TeamRequest(x)
      BY <2>4, <3>2 DEF TeamRequest, CreateTeam, ReplaceTeamMembers, DeactivateTeam, Begin, rows
    <3>3. CASE RoleRequest(x)
      BY <2>4, <3>3 DEF RoleRequest, CreateRole, DeactivateRole, ReplacePermissions, Begin, rows
    <3> QED
      BY <2>6, <3>1, <3>2, <3>3
  <2>7. ASSUME NEW u \in User, NEW r \in Role, Bootstrap(u, r) PROVE FALSE
    BY <1>1, <2>7, BootstrappedIsLoopless
  <2>8. CASE UNCHANGED vars
    BY <2>4, <2>8 DEF vars, rows
  <2> QED
    BY <1>1, <2>2, <2>3, <2>5, <2>6, <2>7, <2>8 DEF Next
<1> QED
  BY <1>1, ReadsStayGood, PTL DEF ChartStaysLoopless, Spec

-----------------------------------------------------------------------------
(* An administrator remains: the same writes again.                        *)
LEMMA WrittenAdministered ==
  ASSUME IInv, ReadsHold, RolesServe, HasAdministrator, NEW x \in Session, WriteUser(x),
         ~session[x].stale, session[x].kind # "update"
  PROVE  HasAdministrator'
<1> DEFINE s == session[x]
<1>1. CASE ~KeysAllow(x)
  BY <1>1 DEF WriteUser, HasAdministrator, Administers, Active, Manages
<1>2. CASE KeysAllow(x)
  <2>1. /\ s.user \in User /\ s.kind \in {"create", "deactivate"}
        /\ person' = [person EXCEPT ![s.user] = Written(s)] /\ UNCHANGED <<role, manages>>
    BY <1>2, WriteUserFacts
  <2>2. person \in [User -> PersonType]
    BY DEF IInv, TypeOK
  <2>3. PICK w \in User : Administers(w)
    BY DEF HasAdministrator
  <2>4. ASSUME NEW v \in User, v # s.user, Administers(v) PROVE HasAdministrator'
    <3>1. person'[v] = person[v]
      BY <2>1, <2>2, <2>4
    <3> QED
      BY <2>1, <2>4, <3>1 DEF HasAdministrator, Administers, Active, Manages
  <2>5. CASE w # s.user
    BY <2>3, <2>4, <2>5
  <2>6. CASE w = s.user /\ s.kind = "create"
    BY <2>3, <2>6 DEF IInv, NewIds, Exists, Administers, Active
  <2>7. CASE w = s.user /\ s.kind = "deactivate"
    <3>1. PICK v \in User \ {s.user} : Active(v) /\ Manages(v)
      BY <2>3, <2>7 DEF ReadsHold, Reads, NotTheLastAdministrator, Administers
    <3>2. Administers(v)
      BY <3>1 DEF Administers, RolesServe
    <3> QED
      BY <2>4, <3>1, <3>2
  <2> QED
    BY <2>1, <2>5, <2>6, <2>7
<1> QED
  BY <1>1, <1>2

LEMMA RetiredAdministered ==
  ASSUME IInv, ReadsHold, RolesServe, HasAdministrator, NEW x \in Session, WriteRole(x),
         ~session[x].stale
  PROVE  HasAdministrator'
<1> DEFINE s == session[x]
           moved == IF s.into = NoRole THEN {} ELSE InRole(s.role)
<1>1. /\ s.kind = "role" /\ s.role \in Role /\ s.into \in Role \cup {NoRole}
      /\ person \in [User -> PersonType] /\ role \in [Role -> Life] /\ UNCHANGED manages
      /\ \A u \in User : person[u].life # "none" => person[u].role \in Role
  BY DEF WriteRole, At, IInv, TypeOK, Shapes, Shape, SessionType
<1>2. IF s.into = NoRole THEN InRole(s.role) = {} ELSE ReplacementFits(s.role, s.into)
  BY <1>1 DEF ReadsHold, Reads
<1>3. /\ person' = [u \in User |-> IF u \in moved THEN [person[u] EXCEPT !.role = s.into] ELSE person[u]]
      /\ role' = [role EXCEPT ![s.role] = "inactive"]
  BY DEF WriteRole
<1>4. PICK w \in User : Administers(w)
  BY DEF HasAdministrator
<1>5. ASSUME NEW v \in User, Administers(v), person[v].role # s.role PROVE HasAdministrator'
  <2>1. v \notin moved
    BY <1>5 DEF InRole
  <2>2. person'[v] = person[v] /\ person[v].role \in Role
    BY <1>1, <1>3, <1>5, <2>1 DEF Administers, Active
  <2>3. role'[person'[v].role] = "active"
    BY <1>1, <1>3, <1>5, <2>2 DEF Administers
  <2> QED
    BY <1>1, <1>5, <2>2, <2>3 DEF HasAdministrator, Administers, Active, Manages
<1>6. CASE person[w].role # s.role
  BY <1>4, <1>5, <1>6
<1>7. CASE person[w].role = s.role
  <2>1. w \in InRole(s.role) /\ s.role \in manages
    BY <1>4, <1>7 DEF InRole, Administers, Manages
  <2>2. ReplacementFits(s.role, s.into) /\ s.into \in Role /\ w \in moved
    BY <1>1, <1>2, <2>1
  <2>3. CASE s.into \in manages
    <3>1. person[w] \in PersonType /\ person'[w] = [person[w] EXCEPT !.role = s.into]
      BY <1>1, <1>3, <2>2
    <3>2. person'[w].role = s.into /\ person'[w].life = person[w].life
      BY <3>1 DEF PersonType
    <3>3. role'[s.into] = "active"
      BY <1>1, <1>3, <2>2 DEF ReplacementFits
    <3> QED
      BY <1>1, <1>4, <2>3, <3>2, <3>3 DEF HasAdministrator, Administers, Active, Manages
  <2>4. CASE s.into \notin manages
    <3>1. PICK v \in User : Active(v) /\ Manages(v) /\ person[v].role # s.role
      BY <2>1, <2>2, <2>4 DEF ReplacementFits
    <3>2. Administers(v)
      BY <3>1 DEF Administers, RolesServe
    <3> QED
      BY <1>5, <3>1, <3>2
  <2> QED
    BY <2>3, <2>4
<1> QED
  BY <1>6, <1>7

LEMMA PermittedAdministered ==
  ASSUME IInv, ReadsHold, NEW x \in Session, WritePermissions(x), ~session[x].stale
  PROVE  HasAdministrator'
<1> DEFINE s == session[x]
<1>1. /\ s.kind = "permissions" /\ UNCHANGED <<person, role>>
      /\ manages' = IF s.keeps THEN manages \cup {s.role} ELSE manages \ {s.role}
  BY DEF WritePermissions, At, IInv, Shapes, Shape
<1>2. /\ role[s.role] = "active"
      /\ \/ \E u \in User : Administers(u) /\ person[u].role # s.role
         \/ s.keeps /\ InRole(s.role) # {}
  BY <1>1 DEF ReadsHold, Reads
<1>3. CASE \E u \in User : Administers(u) /\ person[u].role # s.role
  BY <1>1, <1>3 DEF HasAdministrator, Administers, Active, Manages
<1>4. CASE s.keeps /\ InRole(s.role) # {}
  BY <1>1, <1>2, <1>4 DEF HasAdministrator, Administers, Active, Manages, InRole
<1> QED
  BY <1>2, <1>3, <1>4

(* The last administrator is lost only by updateUser, which asks nothing,   *)
(* or by a request that somebody overtook.                                 *)
THEOREM AdministratorsStay == Spec => AdministratorsRemain
<1> DEFINE Guarded(x) == /\ session[x].at # "idle" /\ session'[x].at = "idle"
                         /\ session[x].kind = "update" \/ session[x].stale
<1>1. ASSUME IInv, ReadsHold, [Next]_vars, RolesServe, HasAdministrator, ~HasAdministrator'
      PROVE  \E x \in Session :
               /\ session[x].at # "idle" /\ session'[x].at = "idle"
               /\ session[x].kind = "update" \/ session[x].stale
  <2>1. ASSUME UNCHANGED <<person, role, manages>> PROVE FALSE
    BY <1>1, <2>1 DEF HasAdministrator, Administers, Active, Manages
  <2>2. ASSUME NEW x \in Session, WriteUser(x) \/ WriteRole(x) \/ WritePermissions(x)
        PROVE  Guarded(x)
    <3>1. session[x].kind = "update" \/ session[x].stale
      BY <1>1, <2>2, WrittenAdministered, RetiredAdministered, PermittedAdministered
         DEF WriteRole, At, IInv, Shapes, Shape
    <3>2. session'[x] = Idle
      BY <1>1, <2>2, CommitFacts DEF WriteUser, WriteRole, WritePermissions, Aborts, IInv, TypeOK
    <3>3. session[x].at # "idle" /\ Idle.at = "idle"
      BY <2>2 DEF WriteUser, WriteRole, WritePermissions, At, Idle
    <3> QED
      BY <3>1, <3>2, <3>3
  <2>3. ASSUME NEW x \in Session, Step(x), ~WriteUser(x), ~WriteRole(x), ~WritePermissions(x)
        PROVE FALSE
    BY <2>1, <2>3 DEF Step, ReadMemberships, LockTeam, Locks, LeaveTeams, WriteTeam, rows
  <2>4. ASSUME NEW x \in Session, UserRequest(x) \/ TeamRequest(x) PROVE FALSE
    <3>1. CASE UserRequest(x)
      BY <2>1, <3>1 DEF UserRequest, DeactivateUser, CreateUser, UpdateUser, Begin, rows
    <3>2. CASE TeamRequest(x)
      BY <2>1, <3>2 DEF TeamRequest, CreateTeam, ReplaceTeamMembers, DeactivateTeam, Begin, rows
    <3> QED
      BY <2>4, <3>1, <3>2
  <2>5. ASSUME NEW x \in Session, RoleRequest(x) PROVE FALSE
    <3>1. PICK r \in Role : CreateRole(x, r)
      BY <2>1, <2>5 DEF RoleRequest, DeactivateRole, ReplacePermissions, Begin, rows
    <3>2. UNCHANGED <<person, manages>> /\ role' = [role EXCEPT ![r] = "active"]
      BY <3>1 DEF CreateRole
    <3>3. \A u \in User : Administers(u) => Administers(u)'
      BY <3>2 DEF Administers, Active, Manages, IInv, TypeOK
    <3> QED
      BY <1>1, <3>3 DEF HasAdministrator
  <2>6. ASSUME NEW u \in User, NEW r \in Role, Bootstrap(u, r) PROVE FALSE
    BY <1>1, <2>6 DEF Bootstrap, HasAdministrator, Administers, Active
  <2>7. ASSUME UNCHANGED vars PROVE FALSE
    BY <2>1, <2>7 DEF vars, rows
  <2> HIDE DEF Guarded
  <2>8. \E x \in Session : Guarded(x)
    <3>1. PICK x \in Session : Step(x)
      BY <1>1, <2>4, <2>5, <2>6, <2>7 DEF Next
    <3>2. Guarded(x)
      BY <2>2, <2>3, <3>1
    <3> QED
      BY <3>2
  <2> QED
    BY <2>8 DEF Guarded
<1> QED
  BY <1>1, ReadsStayGood, PTL DEF AdministratorsRemain, Spec
-----------------------------------------------------------------------------
(* What the fields of a request are at each of its statements.             *)
EditType ==
  [at : {"idle", "insert", "affected", "lock"}, role : Role \cup {NoRole},
   field : Field \cup {NoField}, access : {<<>>} \cup [Field -> Access] \cup [Role -> Access],
   roles : SUBSET Role, fields : SUBSET Field, affected : SUBSET Role]

Proper(e) ==
  /\ e.at = "idle" => e = Absent
  /\ e.at = "insert" => /\ e.role \in Role /\ e.access \in [Field -> Access]
                        /\ e.roles = {e.role} /\ e.field = NoField
  /\ e.at \in {"affected", "lock"} => /\ e.field \in Field /\ e.access \in [Role -> Access]
                                      /\ e.fields = {}
  /\ e.at = "affected" => e.roles = {}
  /\ e.at = "lock" => /\ e.roles \subseteq e.affected
                      /\ \A h \in e.roles, w \in e.affected \ e.roles : h < w

(* Whose access a field's side is about to change, it has found.           *)
Found(e, table) ==
  e.at = "lock" => \A r \in Role :
    e.access[r] # None \/ table[r][e.field] # None => r \in e.affected

(* Row locks: of two requests' roles, and of a field with everybody.       *)
Apart(d, e) ==
  /\ d.roles \cap e.roles = {}
  /\ d.field \in Field => e.field # d.field /\ d.field \notin e.fields

SidesInv ==
  /\ level \in [Role -> [Field -> Access]]
  /\ version \in [Role -> Nat]
  /\ edits \in 0 .. MaxEdit
  /\ edit \in [Editor -> EditType]
  /\ \A x \in Editor : Proper(edit[x]) /\ Found(edit[x], level)
  /\ \A x \in Editor : \A y \in Editor \ {x} : Apart(edit[x], edit[y])

LEMMA AbsentIsProper ==
  ASSUME VisibilityAssumption
  PROVE  Absent \in EditType /\ Proper(Absent) /\ \A table : Found(Absent, table)
         /\ \A e : Apart(Absent, e)
BY DEF Absent, EditType, Proper, Found, Apart, VisibilityAssumption

LEMMA SidesInit == VisibilityAssumption /\ VInit => SidesInv
BY AbsentIsProper DEF VInit, SidesInv, VisibilityAssumption

(* A request that moves alone.                                             *)
LEMMA OneMoves ==
  ASSUME SidesInv, NEW x \in Editor, NEW e \in EditType,
         edit' = [edit EXCEPT ![x] = e], Proper(e), Found(e, level), level' = level,
         version' \in [Role -> Nat], edits' \in 0 .. MaxEdit,
         \A y \in Editor \ {x} : Apart(e, edit[y]) /\ Apart(edit[y], e)
  PROVE  SidesInv'
<1>1. edit' \in [Editor -> EditType] /\ edit'[x] = e
      /\ \A y \in Editor \ {x} : edit'[y] = edit[y]
  BY DEF SidesInv
<1>2. \A y \in Editor : Proper(edit'[y]) /\ Found(edit'[y], level')
  BY <1>1 DEF SidesInv
<1>3. \A y \in Editor : \A z \in Editor \ {y} : Apart(edit'[y], edit'[z])
  BY <1>1 DEF SidesInv
<1> QED
  BY <1>1, <1>2, <1>3 DEF SidesInv

(* A request that leaves: nobody is nearer to anybody.                     *)
LEMMA LeavesApart ==
  ASSUME SidesInv, VisibilityAssumption, NEW x \in Editor,
         edit' = [edit EXCEPT ![x] = Absent]
  PROVE  /\ edit' \in [Editor -> EditType] /\ edit'[x] = Absent
         /\ \A y \in Editor \ {x} : edit'[y] = edit[y]
         /\ \A y \in Editor : Proper(edit'[y])
         /\ \A y \in Editor : \A z \in Editor \ {y} : Apart(edit'[y], edit'[z])
<1>1. edit' \in [Editor -> EditType] /\ edit'[x] = Absent
      /\ \A y \in Editor \ {x} : edit'[y] = edit[y]
  BY AbsentIsProper DEF SidesInv
<1>2. \A y \in Editor : Proper(edit'[y])
  BY <1>1, AbsentIsProper DEF SidesInv
<1>3. \A y \in Editor \ {x} : Apart(edit[y], Absent)
  BY DEF Apart, Absent, VisibilityAssumption
<1>4. \A y \in Editor : \A z \in Editor \ {y} : Apart(edit'[y], edit'[z])
  BY <1>1, <1>3, AbsentIsProper DEF SidesInv
<1> QED
  BY <1>1, <1>2, <1>4

(* ... and, if nothing was written, nothing is missed.                     *)
LEMMA LeavesQuietly ==
  ASSUME SidesInv, VisibilityAssumption, NEW x \in Editor,
         edit' = [edit EXCEPT ![x] = Absent], UNCHANGED <<visibility, edits>>
  PROVE  SidesInv'
<1>1. \A y \in Editor : Found(edit'[y], level')
  BY LeavesApart, AbsentIsProper DEF SidesInv, visibility
<1> QED
  BY <1>1, LeavesApart DEF SidesInv, visibility

LEMMA InsertKeeps ==
  ASSUME SidesInv, VisibilityAssumption, NEW x \in Editor, InsertRow(x)
  PROVE  SidesInv'
<1> DEFINE f == Min(ToInsert(x))
           e == [edit[x] EXCEPT !.fields = @ \cup {f}]
<1>1. edit[x] \in EditType /\ Proper(edit[x]) /\ edit[x].at = "insert"
  BY DEF SidesInv, InsertRow, Is
<1>2. f \in Field
  <2>1. ToInsert(x) \subseteq Field /\ ToInsert(x) # {}
    BY DEF ToInsert, InsertRow
  <2>2. f \in ToInsert(x)
    BY <2>1, LeastOf DEF VisibilityAssumption
  <2> QED
    BY <2>1, <2>2
<1>3. edit' = [edit EXCEPT ![x] = e]
  BY DEF InsertRow
<1>4. \A y \in Editor \ {x} : edit[y].field # f
  BY DEF InsertRow, FieldFree
<1> HIDE DEF f
<1>5. e \in EditType /\ Proper(e) /\ Found(e, level)
  BY <1>1, <1>2 DEF EditType, Proper, Found
<1>6. \A y \in Editor \ {x} : Apart(e, edit[y]) /\ Apart(edit[y], e)
  BY <1>1, <1>2, <1>4 DEF SidesInv, Apart, EditType, Proper, VisibilityAssumption
<1>7. UNCHANGED <<visibility, edits>>
  BY DEF InsertRow
<1>8. level' = level /\ version' \in [Role -> Nat] /\ edits' \in 0 .. MaxEdit
  BY <1>7 DEF SidesInv, visibility
<1> HIDE DEF e
<1> QED
  BY <1>3, <1>5, <1>6, <1>8, OneMoves

LEMMA RoleOpens ==
  ASSUME SidesInv, VisibilityAssumption, NEW x \in Editor, NEW r \in Role,
         NEW row \in [Field -> Access], ReplaceFieldVisibility(x, r, row)
  PROVE  SidesInv'
<1> DEFINE e == [Absent EXCEPT !.at = "insert", !.role = r, !.access = row, !.roles = {r}]
<1>1. edit' = [edit EXCEPT ![x] = e] /\ edits' = edits + 1 /\ edits < MaxEdit /\ RoleFree(x, r)
      /\ UNCHANGED visibility
  BY DEF ReplaceFieldVisibility, Opens
<1>2. e \in EditType /\ Proper(e) /\ Found(e, level)
  BY DEF EditType, Proper, Found, Absent, Access
<1>3. \A y \in Editor \ {x} : Apart(e, edit[y]) /\ Apart(edit[y], e)
  BY <1>1 DEF SidesInv, Apart, Absent, RoleFree, RolesHeld, VisibilityAssumption
<1> QED
  BY <1>1, <1>2, <1>3, OneMoves DEF SidesInv, visibility, VisibilityAssumption

LEMMA FieldOpens ==
  ASSUME SidesInv, VisibilityAssumption, NEW x \in Editor, NEW f \in Field,
         NEW column \in [Role -> Access], ReplaceRoleVisibilityForField(x, f, column)
  PROVE  SidesInv'
<1> DEFINE e == [Absent EXCEPT !.at = "affected", !.field = f, !.access = column]
<1>1. edit' = [edit EXCEPT ![x] = e] /\ edits' = edits + 1 /\ edits < MaxEdit /\ FieldUnused(x, f)
      /\ UNCHANGED visibility
  BY DEF ReplaceRoleVisibilityForField, Opens
<1>2. e \in EditType /\ Proper(e) /\ Found(e, level)
  BY DEF EditType, Proper, Found, Absent, Access
<1>3. \A y \in Editor \ {x} : Apart(e, edit[y]) /\ Apart(edit[y], e)
  BY <1>1 DEF Apart, Absent, FieldUnused, FieldFree, FieldsHeld
<1> QED
  BY <1>1, <1>2, <1>3, OneMoves DEF SidesInv, visibility, VisibilityAssumption

LEMMA OtherKeeps ==
  ASSUME SidesInv, VisibilityAssumption, NEW x \in Editor, NEW r \in Role, OtherEdit(x, r)
  PROVE  SidesInv'
BY DEF SidesInv, OtherEdit, VisibilityAssumption

LEMMA AffectedKeeps ==
  ASSUME SidesInv, VisibilityAssumption, NEW x \in Editor, ReadAffected(x)
  PROVE  SidesInv'
<1> DEFINE e == [edit[x] EXCEPT !.at = "lock", !.affected = Affected(x)]
<1>1. edit[x] \in EditType /\ Proper(edit[x]) /\ edit[x].at = "affected"
  BY DEF SidesInv, ReadAffected, Is
<1>2. edit' = [edit EXCEPT ![x] = e] /\ UNCHANGED <<visibility, edits>>
  BY DEF ReadAffected
<1>3. Affected(x) = {r \in Role : edit[x].access[r] # None} \cup {r \in Role : level[r][edit[x].field] # None}
  BY DEF Affected, Receiving, Granted
<1>4. e \in EditType /\ Proper(e) /\ Found(e, level)
  BY <1>1, <1>3 DEF EditType, Proper, Found
<1>5. \A y \in Editor \ {x} : Apart(e, edit[y]) /\ Apart(edit[y], e)
  BY <1>1 DEF SidesInv, Apart, EditType
<1> QED
  BY <1>2, <1>4, <1>5, OneMoves DEF SidesInv, visibility

LEMMA LockKeeps ==
  ASSUME SidesInv, VisibilityAssumption, NEW x \in Editor, LockRole(x)
  PROVE  SidesInv'
<1> DEFINE S == edit[x].affected \ edit[x].roles
           r == Min(S)
           e == [edit[x] EXCEPT !.roles = @ \cup {r}]
<1>1. edit[x] \in EditType /\ Proper(edit[x]) /\ edit[x].at = "lock" /\ Found(edit[x], level)
  BY DEF SidesInv, LockRole, Is
<1>2. S \subseteq Role /\ S # {}
  BY <1>1 DEF LockRole, RolesHeld, EditType, Proper
<1>3. r \in S /\ \A w \in S : r <= w
  BY <1>2, LeastOf DEF VisibilityAssumption
<1>4. edit' = [edit EXCEPT ![x] = e] /\ RoleFree(x, r) /\ UNCHANGED <<visibility, edits>>
  BY DEF LockRole, NextRole, RolesHeld
<1> HIDE DEF r
<1>5. ASSUME NEW h \in edit[x].roles \cup {r}, NEW w \in S \ {r} PROVE h < w
  <2>1. CASE h = r
    <3>1. w \in S /\ w # r
      OBVIOUS
    <3>2. r \in Nat /\ w \in Nat
      BY <3>1, <1>2, <1>3 DEF VisibilityAssumption
    <3>3. r <= w
      BY <3>1, <1>3
    <3> QED
      BY <2>1, <3>1, <3>2, <3>3
  <2>2. CASE h \in edit[x].roles
    BY <2>2, <1>1 DEF Proper
  <2> QED
    BY <2>1, <2>2
<1>6. e \in EditType
  BY <1>1, <1>2, <1>3 DEF EditType
<1>7. Proper(e) /\ Found(e, level)
  BY <1>1, <1>3, <1>5, <1>6 DEF EditType, Proper, Found
<1>8. \A y \in Editor \ {x} : Apart(e, edit[y]) /\ Apart(edit[y], e)
  BY <1>1, <1>4 DEF SidesInv, Apart, EditType, RoleFree, RolesHeld
<1> QED
  BY <1>4, <1>6, <1>7, <1>8, OneMoves DEF SidesInv, visibility

(* A role's rows come where no field's side is at work: each row of a field *)
(* was held from its insert on.                                            *)
LEMMA CommitRoleKeeps ==
  ASSUME SidesInv, VisibilityAssumption, NEW x \in Editor, CommitRole(x)
  PROVE  SidesInv'
<1> DEFINE r == edit[x].role
<1>1. edit[x] \in EditType /\ Proper(edit[x]) /\ edit[x].at = "insert" /\ ToInsert(x) = {}
  BY DEF SidesInv, CommitRole, Is
<1>2. r \in Role /\ edit[x].access \in [Field -> Access]
  <2>1. r \in Role
    BY <1>1 DEF Proper
  <2>2. edit[x].access \in [Field -> Access]
    BY <1>1 DEF Proper
  <2> QED
    BY <2>1, <2>2
<1>3. /\ level' = [level EXCEPT ![r] = edit[x].access] /\ version' = [version EXCEPT ![r] = @ + 1]
      /\ edit' = [edit EXCEPT ![x] = Absent] /\ UNCHANGED edits
  BY DEF CommitRole, Closes
<1>4. level' \in [Role -> [Field -> Access]] /\ version' \in [Role -> Nat]
  BY <1>2, <1>3 DEF SidesInv
<1>5. ASSUME NEW y \in Editor PROVE Found(edit'[y], level')
  <2>1. CASE y = x
    BY <2>1, <1>3, LeavesApart, AbsentIsProper
  <2>2. CASE y # x
    <3>1. edit'[y] = edit[y] /\ Found(edit[y], level) /\ Proper(edit[y]) /\ Apart(edit[y], edit[x])
      BY <2>2, <1>3, LeavesApart DEF SidesInv
    <3>2. edit[y].at = "lock" => edit[y].field \in Field /\ edit[y].field \notin edit[x].fields
      BY <3>1 DEF Proper, Apart
    <3>3. edit[y].at = "lock" => edit[x].access[edit[y].field] = None
      BY <3>2, <1>1 DEF ToInsert, FieldsHeld
    <3>4. edit[y].at = "lock" => \A q \in Role : level'[q][edit[y].field] # None => level[q][edit[y].field] # None
      BY <3>3, <1>2, <1>3 DEF SidesInv
    <3> QED
      BY <3>1, <3>4 DEF Found
  <2> QED
    BY <2>1, <2>2
<1> QED
  BY <1>3, <1>4, <1>5, LeavesApart DEF SidesInv

(* A field's rows are nothing to another field.                             *)
LEMMA CommitFieldKeeps ==
  ASSUME SidesInv, VisibilityAssumption, NEW x \in Editor, CommitField(x)
  PROVE  SidesInv'
<1> DEFINE f == edit[x].field
<1>1. edit[x] \in EditType /\ Proper(edit[x]) /\ edit[x].at = "lock"
  BY DEF SidesInv, CommitField, Is
<1>2. f \in Field /\ edit[x].access \in [Role -> Access]
  BY <1>1 DEF Proper
<1>3. /\ level' = [r \in Role |-> [level[r] EXCEPT ![f] = edit[x].access[r]]]
      /\ version' = [r \in Role |-> IF r \in edit[x].affected THEN version[r] + 1 ELSE version[r]]
      /\ edit' = [edit EXCEPT ![x] = Absent] /\ UNCHANGED edits
  BY DEF CommitField, Closes
<1>4. level' \in [Role -> [Field -> Access]] /\ version' \in [Role -> Nat]
  BY <1>2, <1>3 DEF SidesInv
<1>5. ASSUME NEW y \in Editor PROVE Found(edit'[y], level')
  <2>1. CASE y = x
    BY <2>1, <1>3, LeavesApart, AbsentIsProper
  <2>2. CASE y # x
    <3>1. edit'[y] = edit[y] /\ Found(edit[y], level) /\ Proper(edit[y]) /\ Apart(edit[x], edit[y])
      BY <2>2, <1>3, LeavesApart DEF SidesInv
    <3>2. edit[y].at = "lock" => edit[y].field \in Field /\ edit[y].field # f
      BY <3>1, <1>2 DEF Proper, Apart
    <3>3. edit[y].at = "lock" => \A q \in Role : level'[q][edit[y].field] = level[q][edit[y].field]
      BY <3>2, <1>2, <1>3 DEF SidesInv
    <3> QED
      BY <3>1, <3>3 DEF Found
  <2> QED
    BY <2>1, <2>2
<1> QED
  BY <1>3, <1>4, <1>5, LeavesApart DEF SidesInv

LEMMA SidesStep ==
  ASSUME SidesInv, VisibilityAssumption, [VNext]_vvars
  PROVE  SidesInv'
<1>1. ASSUME NEW x \in Editor, Proceed(x) PROVE SidesInv'
  <2>1. CASE BreakDeadlock(x)
    BY <2>1, LeavesQuietly DEF BreakDeadlock, Closes
  <2> QED
    BY <1>1, <2>1, InsertKeeps, CommitRoleKeeps, AffectedKeeps, LockKeeps, CommitFieldKeeps DEF Proceed
<1>2. CASE UNCHANGED vvars
  BY <1>2 DEF vvars, SidesInv
<1> QED
  BY <1>1, <1>2, RoleOpens, FieldOpens, OtherKeeps DEF VNext

LEMMA SidesQueueNow ==
  ASSUME SidesInv, VisibilityAssumption PROVE VTypeOK /\ SidesWaitOneWay
<1>1. VTypeOK
  BY DEF SidesInv, VTypeOK, EditType, Apart, RolesHeld, FieldsHeld
<1>2. ASSUME NEW x \in Editor, NEW y \in Editor, WaitsForRole(x, y), WaitsForRole(y, x) PROVE FALSE
  <2> DEFINE S(z) == edit[z].affected \ edit[z].roles
  <2>1. ASSUME NEW z \in {x, y}
        PROVE  /\ S(z) \subseteq Role /\ S(z) # {} /\ NextRole(z) = {Min(S(z))}
               /\ Proper(edit[z]) /\ edit[z].at = "lock" /\ edit[z].roles \subseteq Role
    <3>1. edit[z] \in EditType /\ Proper(edit[z])
      BY DEF SidesInv
    <3>2. edit[z].at = "lock" /\ edit[z].affected # edit[z].roles
      BY <1>2 DEF WaitsForRole, RolesHeld, Is
    <3>3. edit[z].roles \subseteq edit[z].affected
      BY <3>1, <3>2 DEF Proper
    <3>4. S(z) \subseteq Role /\ edit[z].roles \subseteq Role
      BY <3>1 DEF EditType
    <3>5. S(z) # {}
      BY <3>2, <3>3
    <3>6. NextRole(z) = {Min(S(z))}
      BY DEF NextRole, RolesHeld
    <3> QED
      BY <3>1, <3>2, <3>4, <3>5, <3>6
  <2>2. \A z \in {x, y} : Min(S(z)) \in S(z)
    BY <2>1, LeastOf DEF VisibilityAssumption
  <2>3. Min(S(x)) \in edit[y].roles /\ Min(S(y)) \in edit[x].roles
    BY <1>2, <2>1 DEF WaitsForRole, RolesHeld
  <2> DEFINE a == Min(S(x))
             b == Min(S(y))
  <2>4. a \in S(x) /\ b \in S(y) /\ a \in edit[y].roles /\ b \in edit[x].roles
    BY <2>2, <2>3
  <2>5. S(x) \subseteq Nat /\ S(y) \subseteq Nat
    BY <2>1 DEF VisibilityAssumption
  <2> HIDE DEF a, b
  <2>6. b < a
    BY <2>1, <2>4 DEF Proper
  <2>7. a < b
    BY <2>1, <2>4 DEF Proper
  <2> QED
    BY <2>4, <2>5, <2>6, <2>7
<1> QED
  BY <1>1, <1>2 DEF SidesWaitOneWay

LEMMA ChangesAreTold ==
  ASSUME SidesInv, VisibilityAssumption, [VNext]_vvars, NEW r \in Role, level'[r] # level[r]
  PROVE  version'[r] > version[r]
<1>1. ASSUME NEW x \in Editor, CommitRole(x) PROVE version'[r] > version[r]
  BY <1>1 DEF SidesInv, CommitRole
<1>2. ASSUME NEW x \in Editor, CommitField(x) PROVE version'[r] > version[r]
  <2>1. edit[x].at = "lock" /\ Found(edit[x], level) /\ edit[x].field \in Field
    BY <1>2 DEF SidesInv, CommitField, Is, Proper
  <2>2. level'[r] = [level[r] EXCEPT ![edit[x].field] = edit[x].access[r]]
    BY <1>2 DEF CommitField
  <2>3. level[r] \in [Field -> Access] /\ version[r] \in Nat
    BY DEF SidesInv
  <2>4. level[r][edit[x].field] # edit[x].access[r]
    BY <2>1, <2>2, <2>3
  <2>5. r \in edit[x].affected
    BY <2>1, <2>4 DEF Found
  <2> QED
    BY <1>2, <2>3, <2>5 DEF CommitField
<1> QED
  BY <1>1, <1>2 DEF VNext, Proceed, InsertRow, ReadAffected, LockRole, BreakDeadlock, OtherEdit,
       ReplaceFieldVisibility, ReplaceRoleVisibilityForField, Opens, visibility, vvars

THEOREM SidesStayApart ==
  ASSUME VisibilityAssumption
  PROVE  VSpec => []SidesInv
<1>1. VInit => SidesInv
  BY SidesInit
<1>2. SidesInv /\ [VNext]_vvars => SidesInv'
  BY SidesStep
<1> QED
  BY <1>1, <1>2, PTL DEF VSpec

(* FieldSidesQueue: for any roles, fields, levels and requests at once, two *)
(* replacements from the field's side never wait for each other, and the    *)
(* version of a role goes up with every change of what it may see.          *)
THEOREM FieldSidesAlwaysQueue ==
  ASSUME VisibilityAssumption
  PROVE  VSpec => FieldSidesQueue
<1>1. SidesInv => VTypeOK /\ SidesWaitOneWay
  BY SidesQueueNow
<1>2. SidesInv /\ [VNext]_vvars => [\A r \in Role : level'[r] # level[r] => version'[r] > version[r]]_vvars
  BY ChangesAreTold
<1> QED
  BY <1>1, <1>2, SidesStayApart, PTL DEF VSpec, FieldSidesQueue, EveryChangeIsTold

-----------------------------------------------------------------------------
(* The rows of a draft.                                                    *)
LEMMA RowIs ==
  ASSUME NEW k \in Every, NEW s \in Scope
  PROVE  Row(k, s) \in Permission /\ Key(Row(k, s)) = k /\ Row(k, s).scope = s
<1>1. k = <<k[1], k[2]>>
  BY RoleEditorAssumption
<1> QED
  BY <1>1 DEF Row, Key, Permission

LEMMA PermissionIs ==
  ASSUME NEW r \in Permission
  PROVE  Key(r) \in Every /\ r.scope \in Scope /\ r = Row(Key(r), r.scope)
<1>1. PICK k \in Every, s \in Scope : r = Row(k, s)
  BY DEF Permission
<1> QED
  BY <1>1, RowIs

LEMMA RowsAre ==
  ASSUME NEW matrix, IsRows(matrix)
  PROVE  /\ matrix \in Seq(Permission) /\ Len(matrix) \in Nat /\ DOMAIN matrix = 1 .. Len(matrix)
         /\ \A i \in 1 .. Len(matrix) : matrix[i] \in Permission /\ matrix[i] \in Range(matrix)
         /\ \A i, k \in 1 .. Len(matrix) : Key(matrix[i]) = Key(matrix[k]) => i = k
         /\ \A r \in Range(matrix) : r \in Permission /\ \E i \in 1 .. Len(matrix) : r = matrix[i]
<1>1. matrix \in Seq(Permission) /\ \A i, k \in DOMAIN matrix : Key(matrix[i]) = Key(matrix[k]) => i = k
  BY DEF IsRows
<1>2. Len(matrix) \in Nat /\ DOMAIN matrix = 1 .. Len(matrix) /\ \A i \in 1 .. Len(matrix) : matrix[i] \in Permission
  BY <1>1
<1> QED
  BY <1>1, <1>2 DEF Range

(* The function that Only is the last value of.                             *)
Keeps(f, s, K, n) ==
  f = [i \in 0 .. n |-> IF i = 0 THEN <<>> ELSE IF Key(s[i]) \in K THEN Append(f[i - 1], s[i]) ELSE f[i - 1]]
Those(s, K) == CHOOSE f : Keeps(f, s, K, Len(s))

LEMMA ThoseAre ==
  ASSUME NEW s, NEW K, Len(s) \in Nat
  PROVE  /\ Those(s, K)[0] = <<>>
         /\ \A i \in 1 .. Len(s) :
              Those(s, K)[i] = IF Key(s[i]) \in K THEN Append(Those(s, K)[i - 1], s[i]) ELSE Those(s, K)[i - 1]
         /\ Only(s, K) = Those(s, K)[Len(s)]
<1> DEFINE T == {n \in Nat : n <= Len(s) => \E f : Keeps(f, s, K, n)}
<1>1. 0 \in T
  <2>1. Keeps([i \in 0 .. 0 |-> <<>>], s, K, 0)
    BY DEF Keeps
  <2> QED
    BY <2>1
<1>2. ASSUME NEW n \in Nat, n \in T
      PROVE  n + 1 \in T
  <2> SUFFICES ASSUME n + 1 <= Len(s) PROVE \E f : Keeps(f, s, K, n + 1)
    OBVIOUS
  <2>1. PICK f : Keeps(f, s, K, n)
    BY <1>2
  <2> DEFINE next == IF Key(s[n + 1]) \in K THEN Append(f[n], s[n + 1]) ELSE f[n]
             g == [i \in 0 .. n + 1 |-> IF i <= n THEN f[i] ELSE next]
             h == [i \in 0 .. n + 1 |-> IF i = 0 THEN <<>>
                                        ELSE IF Key(s[i]) \in K THEN Append(g[i - 1], s[i]) ELSE g[i - 1]]
  <2>2. \A i \in 0 .. n : f[i] = IF i = 0 THEN <<>>
                                 ELSE IF Key(s[i]) \in K THEN Append(f[i - 1], s[i]) ELSE f[i - 1]
    BY <2>1 DEF Keeps
  <2>3. \A i \in 0 .. n + 1 : g[i] = h[i]
    <3> TAKE i \in 0 .. n + 1
    <3>1. CASE i = 0
      <4>1. g[i] = f[0]
        BY <3>1
      <4>2. f[0] = <<>>
        BY <2>2
      <4> QED
        BY <3>1, <4>1, <4>2
    <3>2. CASE i \in 1 .. n
      <4>1. i - 1 \in 0 .. n /\ i \in 0 .. n /\ i - 1 \in 0 .. n + 1 /\ i # 0 /\ i <= n /\ i - 1 <= n
        BY <3>2
      <4>2. g[i - 1] = f[i - 1] /\ g[i] = f[i]
        BY <4>1
      <4> HIDE DEF g
      <4> QED
        BY <2>2, <4>1, <4>2
    <3>3. CASE i = n + 1
      <4>1. g[i] = next /\ g[i - 1] = f[n] /\ i # 0
        BY <3>3
      <4> HIDE DEF g
      <4> QED
        BY <3>3, <4>1
    <3> QED
      BY <3>1, <3>2, <3>3
  <2>4. g = h
    <3>1. g = [i \in 0 .. n + 1 |-> g[i]] /\ h = [i \in 0 .. n + 1 |-> h[i]]
      OBVIOUS
    <3> HIDE DEF g, h
    <3> QED
      BY <2>3, <3>1
  <2> HIDE DEF g
  <2>5. Keeps(g, s, K, n + 1)
    BY <2>4 DEF Keeps
  <2> QED
    BY <2>5
<1>3. Len(s) \in T
  <2> HIDE DEF T
  <2> QED
    BY <1>1, <1>2, Upward
<1>4. \E f : Keeps(f, s, K, Len(s))
  BY <1>3
<1>5. Keeps(Those(s, K), s, K, Len(s))
  BY <1>4 DEF Those
<1>6. \A i \in 0 .. Len(s) :
        Those(s, K)[i] = IF i = 0 THEN <<>>
                         ELSE IF Key(s[i]) \in K THEN Append(Those(s, K)[i - 1], s[i]) ELSE Those(s, K)[i - 1]
  BY <1>5 DEF Keeps
<1>7. Only(s, K) = Those(s, K)[Len(s)]
  BY DEF Only, Those, Keeps
<1>8. 0 \in 0 .. Len(s) /\ \A i \in 1 .. Len(s) : i \in 0 .. Len(s) /\ i # 0
  OBVIOUS
<1> QED
  BY <1>6, <1>7, <1>8

LEMMA NoRows == IsRows(<<>>) /\ Range(<<>>) = {}
BY DEF IsRows, Range

(* Only keeps each row at the keys, once, and no other.                     *)
LEMMA OnlyIs ==
  ASSUME NEW matrix, IsRows(matrix), NEW K
  PROVE  IsRows(Only(matrix, K)) /\ Range(Only(matrix, K)) = {r \in Range(matrix) : Key(r) \in K}
<1> DEFINE f == Those(matrix, K)
           Upto(n) == {i \in 1 .. n : Key(matrix[i]) \in K}
           Done(n) == IsRows(f[n]) /\ Range(f[n]) = {matrix[i] : i \in Upto(n)}
           T == {n \in Nat : n <= Len(matrix) => Done(n)}
<1>1. /\ matrix \in Seq(Permission) /\ Len(matrix) \in Nat
      /\ \A i \in 1 .. Len(matrix) : matrix[i] \in Permission
      /\ \A i, k \in 1 .. Len(matrix) : Key(matrix[i]) = Key(matrix[k]) => i = k
  BY RowsAre
<1>2. /\ f[0] = <<>> /\ Only(matrix, K) = f[Len(matrix)]
      /\ \A i \in 1 .. Len(matrix) : f[i] = IF Key(matrix[i]) \in K THEN Append(f[i - 1], matrix[i]) ELSE f[i - 1]
  BY <1>1, ThoseAre
<1> HIDE DEF f
<1>3. 0 \in T
  <2>1. Upto(0) = {} /\ Done(0)
    BY <1>2, NoRows
  <2> QED
    BY <2>1
<1>4. ASSUME NEW n \in Nat, n \in T
      PROVE  n + 1 \in T
  <2> SUFFICES ASSUME n + 1 <= Len(matrix) PROVE Done(n + 1)
    OBVIOUS
  <2>1. n + 1 \in 1 .. Len(matrix) /\ (n + 1) - 1 = n /\ n <= Len(matrix)
    BY <1>1
  <2>2. Done(n)
    BY <1>4, <2>1
  <2>3. f[n + 1] = IF Key(matrix[n + 1]) \in K THEN Append(f[n], matrix[n + 1]) ELSE f[n]
    BY <1>2, <2>1
  <2>4. CASE Key(matrix[n + 1]) \notin K
    <3>1. Upto(n + 1) = Upto(n)
      BY <2>1, <2>4
    <3> QED
      BY <2>2, <2>3, <2>4, <3>1
  <2>5. CASE Key(matrix[n + 1]) \in K
    <3>1. Upto(n + 1) = Upto(n) \cup {n + 1}
      BY <2>1, <2>5
    <3>2. f[n + 1] = Append(f[n], matrix[n + 1]) /\ f[n] \in Seq(Permission) /\ matrix[n + 1] \in Permission
      BY <1>1, <2>1, <2>2, <2>3, <2>5 DEF IsRows
    <3>3. /\ f[n + 1] \in Seq(Permission) /\ DOMAIN f[n + 1] = 1 .. Len(f[n]) + 1 /\ Len(f[n]) \in Nat
          /\ DOMAIN f[n] = 1 .. Len(f[n])
          /\ (\A i \in 1 .. Len(f[n]) : f[n + 1][i] = f[n][i]) /\ f[n + 1][Len(f[n]) + 1] = matrix[n + 1]
      BY <3>2
    <3>4. \A i \in 1 .. Len(f[n]) : Key(f[n][i]) # Key(matrix[n + 1])
      <4> TAKE i \in 1 .. Len(f[n])
      <4>1. f[n][i] \in Range(f[n])
        BY <3>3 DEF Range
      <4>2. PICK j \in 1 .. n : f[n][i] = matrix[j]
        BY <2>2, <4>1
      <4>3. j \in 1 .. Len(matrix) /\ j # n + 1
        BY <1>1, <2>1
      <4> QED
        BY <1>1, <2>1, <4>2, <4>3
    <3>5. IsRows(f[n + 1])
      <4> SUFFICES ASSUME NEW i \in 1 .. Len(f[n]) + 1, NEW k \in 1 .. Len(f[n]) + 1,
                          Key(f[n + 1][i]) = Key(f[n + 1][k])
                   PROVE  i = k
        BY <3>3 DEF IsRows
      <4>1. (i \in 1 .. Len(f[n]) \/ i = Len(f[n]) + 1) /\ (k \in 1 .. Len(f[n]) \/ k = Len(f[n]) + 1)
        BY <3>3
      <4>2. \A a, b \in 1 .. Len(f[n]) : Key(f[n][a]) = Key(f[n][b]) => a = b
        BY <2>2, <3>3 DEF IsRows
      <4> QED
        BY <3>3, <3>4, <4>1, <4>2
    <3>6. Range(f[n + 1]) = Range(f[n]) \cup {matrix[n + 1]}
      <4> DEFINE g == f[n + 1]
                 e == f[n]
                 z == matrix[n + 1]
                 m == Len(e)
      <4>1. /\ m \in Nat /\ DOMAIN g = 1 .. m + 1 /\ DOMAIN e = 1 .. m
            /\ (\A i \in 1 .. m : g[i] = e[i]) /\ g[m + 1] = z
        BY <3>3
      <4> HIDE DEF g, e, z, m
      <4>2. \A i \in 1 .. m + 1 : i \in 1 .. m \/ i = m + 1
        BY <4>1
      <4>3. m + 1 \in 1 .. m + 1 /\ \A i \in 1 .. m : i \in 1 .. m + 1
        BY <4>1
      <4>4. Range(g) \subseteq Range(e) \cup {z}
        BY <4>1, <4>2 DEF Range
      <4>5. Range(e) \cup {z} \subseteq Range(g)
        BY <4>1, <4>3 DEF Range
      <4> QED
        BY <4>4, <4>5 DEF g, e, z
    <3> QED
      BY <2>2, <3>1, <3>5, <3>6
  <2> QED
    BY <2>4, <2>5
<1>5. Done(Len(matrix))
  <2>1. Len(matrix) \in T
    <3> HIDE DEF T
    <3> QED
      BY <1>1, <1>3, <1>4, Upward
  <2> QED
    BY <1>1, <2>1
<1>6. {matrix[i] : i \in Upto(Len(matrix))} = {r \in Range(matrix) : Key(r) \in K}
  BY RowsAre
<1> QED
  BY <1>2, <1>5, <1>6

(* Two lists of rows that share no key.                                     *)
LEMMA JoinIs ==
  ASSUME NEW a, NEW b, IsRows(a), IsRows(b), \A x \in Range(a), y \in Range(b) : Key(x) # Key(y)
  PROVE  IsRows(a \o b) /\ Range(a \o b) = Range(a) \cup Range(b)
<1>1. /\ a \in Seq(Permission) /\ b \in Seq(Permission) /\ Len(a) \in Nat /\ Len(b) \in Nat
      /\ \A i, k \in 1 .. Len(a) : Key(a[i]) = Key(a[k]) => i = k
      /\ \A i, k \in 1 .. Len(b) : Key(b[i]) = Key(b[k]) => i = k
      /\ (\A i \in 1 .. Len(a) : a[i] \in Range(a)) /\ \A i \in 1 .. Len(b) : b[i] \in Range(b)
  BY RowsAre
<1>2. Range(a \o b) = Range(a) \cup Range(b)
  BY <1>1, RangeConcatenation
<1>3. /\ a \o b \in Seq(Permission) /\ DOMAIN (a \o b) = 1 .. Len(a) + Len(b)
      /\ \A i \in 1 .. Len(a) + Len(b) : (a \o b)[i] = IF i <= Len(a) THEN a[i] ELSE b[i - Len(a)]
  <2>1. a \o b \in Seq(Permission) /\ Len(a \o b) = Len(a) + Len(b)
    BY <1>1
  <2> QED
    BY <1>1, <2>1, ConcatProperties
<1>4. ASSUME NEW i \in 1 .. Len(a) + Len(b), NEW k \in 1 .. Len(a) + Len(b), Key((a \o b)[i]) = Key((a \o b)[k])
      PROVE  i = k
  <2>1. ASSUME NEW j \in 1 .. Len(a) + Len(b)
        PROVE  (j <= Len(a) => j \in 1 .. Len(a)) /\ (~(j <= Len(a)) => j - Len(a) \in 1 .. Len(b))
    <3>1. j \in Int /\ 1 <= j /\ j <= Len(a) + Len(b) /\ Len(a) \in Int /\ Len(b) \in Int
      BY <1>1
    <3> QED
      BY <3>1
  <2>2. CASE i <= Len(a) /\ k <= Len(a)
    BY <1>1, <1>3, <1>4, <2>1, <2>2
  <2>3. CASE ~(i <= Len(a)) /\ ~(k <= Len(a))
    <3>1. i - Len(a) = k - Len(a)
      BY <1>1, <1>3, <1>4, <2>1, <2>3
    <3> QED
      BY <1>1, <3>1
  <2>4. CASE i <= Len(a) /\ ~(k <= Len(a))
    BY <1>1, <1>3, <1>4, <2>1, <2>4
  <2>5. CASE ~(i <= Len(a)) /\ k <= Len(a)
    BY <1>1, <1>3, <1>4, <2>1, <2>5
  <2> QED
    BY <2>2, <2>3, <2>4, <2>5
<1> QED
  BY <1>2, <1>3, <1>4 DEF IsRows

LEMMA OneRow ==
  ASSUME NEW k \in Every, NEW s \in Scope
  PROVE  IsRows(<<Row(k, s)>>) /\ Range(<<Row(k, s)>>) = {Row(k, s)}
BY RowIs DEF IsRows, Range

(* Changing scopes keeps rows rows.                                         *)
LEMMA RescopedAre ==
  ASSUME NEW matrix, IsRows(matrix), NEW g, DOMAIN g = DOMAIN matrix, g = [i \in DOMAIN matrix |-> g[i]],
         \A i \in DOMAIN matrix : g[i] \in Permission /\ Key(g[i]) = Key(matrix[i])
  PROVE  IsRows(g)
<1>1. Len(matrix) \in Nat /\ DOMAIN matrix = 1 .. Len(matrix)
  BY RowsAre
<1>2. g \in [1 .. Len(matrix) -> Permission]
  BY <1>1
<1>3. g \in Seq(Permission)
  BY <1>1, <1>2, IsASeq
<1> QED
  BY <1>3 DEF IsRows


(* The scope shown at a key is one there is.                                *)
LEMMA ChosenIs ==
  ASSUME NEW matrix, IsRows(matrix), NEW k \in Every
  PROVE  Chosen(matrix, k) \in Scope
<1>1. Default \in Scope
  BY RoleEditorAssumption
<1>2. ASSUME hasPermission(matrix, k) PROVE Chosen(matrix, k) \in Scope
  <2> DEFINE i == CHOOSE j \in DOMAIN matrix : Key(matrix[j]) = k
  <2>1. i \in DOMAIN matrix
    BY <1>2 DEF hasPermission
  <2>2. matrix[i].scope \in Scope
    <3> HIDE DEF i
    <3> QED
      BY <2>1, RowsAre, PermissionIs
  <2> QED
    BY <1>2, <2>2 DEF Chosen
<1> QED
  BY <1>1, <1>2 DEF Chosen

(* A row at every key of the catalog, in either order.                      *)
LEMMA RowsOverIs ==
  ASSUME NEW list \in {Catalog, Sorted}, NEW t \in [Every -> Scope]
  PROVE  IsRows([i \in DOMAIN list |-> Row(list[i], t[list[i]])])
<1> DEFINE g == [i \in DOMAIN list |-> Row(list[i], t[list[i]])]
<1>1. /\ list \in Seq(Every) /\ \A i, k \in DOMAIN list : list[i] = list[k] => i = k
  BY RoleEditorAssumption
<1>2. Len(list) \in Nat /\ DOMAIN list = 1 .. Len(list) /\ \A i \in 1 .. Len(list) : list[i] \in Every
  BY <1>1
<1>3. \A i \in 1 .. Len(list) : Row(list[i], t[list[i]]) \in Permission
                               /\ Key(Row(list[i], t[list[i]])) = list[i]
  BY <1>2, RowIs
<1>4. g \in [1 .. Len(list) -> Permission] /\ \A i \in 1 .. Len(list) : Key(g[i]) = list[i]
  BY <1>2, <1>3
<1> HIDE DEF g
<1>5. g \in Seq(Permission)
  BY <1>2, <1>4, IsASeq
<1>6. \A i, k \in DOMAIN g : Key(g[i]) = Key(g[k]) => i = k
  BY <1>1, <1>2, <1>4
<1> QED
  BY <1>5, <1>6 DEF IsRows, g

LEMMA RowsAtIs ==
  ASSUME NEW list \in {Catalog, Sorted}, NEW matrix, IsRows(matrix)
  PROVE  IsRows(RowsAt(list, matrix))
<1> DEFINE t == [k \in Every |-> Chosen(matrix, k)]
<1>1. t \in [Every -> Scope]
  BY ChosenIs
<1>2. \A i \in DOMAIN list : list[i] \in Every
  BY RoleEditorAssumption
<1>3. RowsAt(list, matrix) = [i \in DOMAIN list |-> Row(list[i], t[list[i]])]
  BY <1>2 DEF RowsAt
<1> HIDE DEF t
<1> QED
  BY <1>1, <1>3, RowsOverIs

LEMMA InOrderIs ==
  ASSUME NEW matrix, IsRows(matrix)
  PROVE  IsRows(InOrder(matrix))
BY RowsAtIs, OnlyIs DEF InOrder

-----------------------------------------------------------------------------
(* A control over the permissions leaves the rows it does not name.         *)
Outside(matrix, K) == {r \in Range(matrix) : Key(r) \notin K}
Edits(matrix, new, K) == IsRows(new) /\ Outside(new, K) = Outside(matrix, K)

LEMMA NothingOutside ==
  ASSUME NEW matrix, IsRows(matrix)
  PROVE  Outside(matrix, Every) = {}
BY RowsAre, PermissionIs DEF Outside

LEMMA TickEdits ==
  ASSUME NEW matrix, IsRows(matrix), NEW k \in Every, NEW granted \in BOOLEAN
  PROVE  Edits(matrix, setPermission(matrix, k, granted), {k})
<1> DEFINE rest == Only(matrix, Every \ {k})
           more == IF granted THEN <<Row(k, Default)>> ELSE <<>>
<1>1. IsRows(rest) /\ Range(rest) = {r \in Range(matrix) : Key(r) \in Every \ {k}}
  BY OnlyIs
<1>2. Default \in Scope
  BY RoleEditorAssumption
<1>3. IsRows(more) /\ \A r \in Range(more) : Key(r) = k
  BY <1>2, NoRows, OneRow, RowIs
<1> HIDE DEF rest, more
<1>4. IsRows(rest \o more) /\ Range(rest \o more) = Range(rest) \cup Range(more)
  BY <1>1, <1>3, JoinIs
<1>5. \A r \in Range(matrix) : Key(r) \in Every
  BY RowsAre, PermissionIs
<1>6. Outside(rest \o more, {k}) = Outside(matrix, {k})
  BY <1>1, <1>3, <1>4, <1>5 DEF Outside
<1> QED
  BY <1>4, <1>6 DEF Edits, setPermission, rest, more

LEMMA ModuleEdits ==
  ASSUME NEW matrix, IsRows(matrix), NEW m, NEW granted \in BOOLEAN
  PROVE  Edits(matrix, setModule(matrix, m, granted), KeysOf(m))
<1> DEFINE rest == Only(matrix, Every \ KeysOf(m))
           more == IF granted THEN Only(setAll(matrix), KeysOf(m)) ELSE <<>>
<1>1. IsRows(rest) /\ Range(rest) = {r \in Range(matrix) : Key(r) \in Every \ KeysOf(m)}
  BY OnlyIs
<1>2. IsRows(setAll(matrix))
  BY RowsAtIs DEF setAll
<1>3. IsRows(more) /\ \A r \in Range(more) : Key(r) \in KeysOf(m)
  BY <1>2, NoRows, OnlyIs
<1> HIDE DEF rest, more
<1>4. IsRows(rest \o more) /\ Range(rest \o more) = Range(rest) \cup Range(more)
  BY <1>1, <1>3, JoinIs
<1>5. \A r \in Range(matrix) : Key(r) \in Every
  BY RowsAre, PermissionIs
<1>6. Outside(rest \o more, KeysOf(m)) = Outside(matrix, KeysOf(m))
  BY <1>1, <1>3, <1>4, <1>5 DEF Outside
<1> QED
  BY <1>4, <1>6 DEF Edits, setModule, rest, more

LEMMA AllEdits ==
  ASSUME NEW matrix, IsRows(matrix)
  PROVE  Edits(matrix, setAll(matrix), Every) /\ Edits(matrix, <<>>, Every)
<1>1. IsRows(setAll(matrix))
  BY RowsAtIs DEF setAll
<1> QED
  BY <1>1, NoRows, NothingOutside DEF Edits

(* A row with another scope is a row of the same key.                       *)
LEMMA ScopeIs ==
  ASSUME NEW r \in Permission, NEW s \in Scope
  PROVE  [r EXCEPT !.scope = s] \in Permission /\ Key([r EXCEPT !.scope = s]) = Key(r)
<1>1. PICK k \in Every, t \in Scope : r = Row(k, t)
  BY DEF Permission
<1>2. [r EXCEPT !.scope = s] = Row(k, s)
  BY <1>1 DEF Row
<1> QED
  BY <1>1, <1>2, RowIs

LEMMA ScopeEdits ==
  ASSUME NEW matrix, IsRows(matrix), NEW k, NEW s \in Scope
  PROVE  Edits(matrix, setScope(matrix, k, s), {k})
<1> DEFINE g == setScope(matrix, k, s)
<1>1. /\ DOMAIN matrix = 1 .. Len(matrix) /\ \A i \in 1 .. Len(matrix) : matrix[i] \in Permission
  BY RowsAre
<1>2. /\ DOMAIN g = DOMAIN matrix /\ g = [i \in DOMAIN matrix |-> g[i]]
      /\ \A i \in DOMAIN matrix : g[i] = IF Key(matrix[i]) = k THEN [matrix[i] EXCEPT !.scope = s] ELSE matrix[i]
  BY DEF setScope
<1> HIDE DEF g
<1>3. \A i \in DOMAIN matrix : g[i] \in Permission /\ Key(g[i]) = Key(matrix[i])
  BY <1>1, <1>2, ScopeIs
<1>4. IsRows(g)
  BY <1>2, <1>3, RescopedAre
<1>5. \A i \in DOMAIN matrix : Key(matrix[i]) # k => g[i] = matrix[i]
  BY <1>2
<1>6. Outside(g, {k}) = Outside(matrix, {k})
  BY <1>2, <1>3, <1>5 DEF Outside, Range
<1> QED
  BY <1>4, <1>6 DEF Edits, g

LEMMA ScopesEdit ==
  ASSUME NEW matrix, IsRows(matrix), NEW s \in Scope
  PROVE  Edits(matrix, setScopeForAll(matrix, s), Every)
<1> DEFINE g == setScopeForAll(matrix, s)
<1>1. /\ DOMAIN matrix = 1 .. Len(matrix) /\ \A i \in 1 .. Len(matrix) : matrix[i] \in Permission
  BY RowsAre
<1>2. /\ DOMAIN g = DOMAIN matrix /\ g = [i \in DOMAIN matrix |-> g[i]]
      /\ \A i \in DOMAIN matrix : g[i] = [matrix[i] EXCEPT !.scope = s]
  BY DEF setScopeForAll
<1> HIDE DEF g
<1>3. \A i \in DOMAIN matrix : g[i] \in Permission /\ Key(g[i]) = Key(matrix[i])
  BY <1>1, <1>2, ScopeIs
<1>4. IsRows(g)
  BY <1>2, <1>3, RescopedAre
<1> QED
  BY <1>4, NothingOutside DEF Edits, g

(* Normalizing what agrees outside some keys agrees there.                  *)
LEMMA NormalIs ==
  ASSUME NEW matrix, IsRows(matrix)
  PROVE  /\ IsRows(normalizeScopes(matrix))
         /\ \A K : Outside(normalizeScopes(matrix), K) =
              {IF Key(r) \in Scoped THEN r ELSE [r EXCEPT !.scope = Widest] : r \in Outside(matrix, K)}
<1> DEFINE g == normalizeScopes(matrix)
           N(r) == IF Key(r) \in Scoped THEN r ELSE [r EXCEPT !.scope = Widest]
<1>1. /\ DOMAIN matrix = 1 .. Len(matrix) /\ \A i \in 1 .. Len(matrix) : matrix[i] \in Permission
  BY RowsAre
<1>2. DOMAIN g = DOMAIN matrix /\ g = [i \in DOMAIN matrix |-> g[i]] /\ \A i \in DOMAIN matrix : g[i] = N(matrix[i])
  BY DEF normalizeScopes
<1>3. ASSUME NEW r \in Permission PROVE N(r) \in Permission /\ Key(N(r)) = Key(r)
  <2>1. Widest \in Scope
    BY RoleEditorAssumption
  <2> QED
    BY <2>1, ScopeIs
<1> HIDE DEF g, N
<1>4. \A i \in DOMAIN matrix : g[i] \in Permission /\ Key(g[i]) = Key(matrix[i])
  BY <1>1, <1>2, <1>3
<1>5. IsRows(g)
  BY <1>2, <1>4, RescopedAre
<1>6. ASSUME NEW K PROVE Outside(g, K) = {N(r) : r \in Outside(matrix, K)}
  BY <1>2, <1>4 DEF Outside, Range
<1> QED
  BY <1>5, <1>6 DEF g, N


-----------------------------------------------------------------------------
(* The three axes.                                                          *)
Fits(a, v) == CASE a = "permissions" -> IsRows(v)
                [] a = "journeys" -> v \subseteq Journey
                [] a = "visibility" -> v \subseteq FieldId \X Level
IsRole(r) == r \in Axes /\ IsRows(r.permissions)
Agree(a, v, w, K) == Without(a, v, K) = Without(a, w, K)
Fix(a, v) == IF a = "permissions" THEN normalizeScopes(v) ELSE v

With(r, a, v) == [r EXCEPT ![a] = v]
Moved(f, a, at) == [f EXCEPT ![a].at = at]

LEMMA RoleFits ==
  ASSUME NEW r, IsRole(r), NEW a \in Axis
  PROVE  Fits(a, r[a])
BY DEF IsRole, Axes, Axis, Fits

LEMMA RoleChanges ==
  ASSUME NEW r, IsRole(r), NEW a \in Axis, NEW v, Fits(a, v)
  PROVE  IsRole(With(r, a, v)) /\ With(r, a, v)[a] = v /\ \A b \in Axis : b # a => With(r, a, v)[b] = r[b]
<1> DEFINE new == [r EXCEPT ![a] = v]
<1> USE DEF With
<1>1. CASE a = "permissions"
  <2>1. new \in Axes /\ new.permissions = v
    BY <1>1 DEF IsRole, Axes, Fits, IsRows
  <2> QED
    BY <1>1, <2>1 DEF IsRole, Axes, Axis, Fits
<1>2. CASE a = "journeys"
  <2>1. new \in Axes /\ new.permissions = r.permissions
    BY <1>2 DEF IsRole, Axes, Fits
  <2> QED
    BY <1>2, <2>1 DEF IsRole, Axes, Axis
<1>3. CASE a = "visibility"
  <2>1. new \in Axes /\ new.permissions = r.permissions
    BY <1>3 DEF IsRole, Axes, Fits
  <2> QED
    BY <1>3, <2>1 DEF IsRole, Axes, Axis
<1> QED
  BY <1>1, <1>2, <1>3 DEF Axis

LEMMA EmptyRole == IsRole(Nothing)
BY NoRows DEF IsRole, Nothing, Axes

(* What agrees outside some keys agrees outside more.                       *)
LEMMA AgreeMore ==
  ASSUME NEW a, NEW v, NEW w, NEW K, NEW L, Agree(a, v, w, K), K \subseteq L
  PROVE  Agree(a, v, w, L)
BY DEF Agree, Without

(* Edits in a row: what is changed at K, then at L, is changed at both.     *)
LEMMA AgreeOn ==
  ASSUME NEW a, NEW u, NEW v, NEW w, NEW K, NEW L, Agree(a, v, w, K), Agree(a, u, v, L)
  PROVE  Agree(a, u, w, K \cup L)
<1>1. Agree(a, v, w, K \cup L) /\ Agree(a, u, v, K \cup L)
  BY AgreeMore
<1> QED
  BY <1>1 DEF Agree

LEMMA EditsAgree ==
  ASSUME NEW matrix, NEW new, NEW K, Edits(matrix, new, K)
  PROVE  Fits("permissions", new) /\ Agree("permissions", new, matrix, K)
BY DEF Edits, Fits, Agree, Without, Outside

(* What a save writes.                                                      *)
LEMMA FixFits ==
  ASSUME NEW a \in Axis, NEW v, Fits(a, v)
  PROVE  Fits(a, Fix(a, v))
BY NormalIs DEF Axis, Fits, Fix

LEMMA FixAgrees ==
  ASSUME NEW a \in Axis, NEW v, NEW w, Fits(a, v), Fits(a, w), NEW K, Agree(a, v, w, K)
  PROVE  Agree(a, Fix(a, v), Fix(a, w), K)
<1>1. CASE a = "permissions"
  <2>1. Outside(v, K) = Outside(w, K)
    BY <1>1 DEF Agree, Without, Outside
  <2>2. IsRows(v) /\ IsRows(w)
    BY <1>1 DEF Fits
  <2>3. Outside(normalizeScopes(v), K) = Outside(normalizeScopes(w), K)
    BY <2>1, <2>2, NormalIs
  <2> QED
    BY <1>1, <2>3 DEF Agree, Without, Outside, Fix
<1>2. CASE a # "permissions"
  BY <1>2 DEF Fix
<1> QED
  BY <1>1, <1>2

-----------------------------------------------------------------------------
(* The invariant of the page.                                               *)
Value == Seq(Permission) \cup (SUBSET Journey) \cup (SUBSET (FieldId \X Level))
Put == [at : {"idle", "asked", "written", "refreshing"}, seeded : BOOLEAN,
        keys : SUBSET (Every \cup Journey \cup FieldId), read : Value, value : Value]

(* Shapes, of the whole state and of what a save carries.                   *)
ShapesInv ==
  /\ IsRole(kept) /\ IsRole(drafts) /\ (cached # None => IsRole(cached))
  /\ edited \in [Axis -> SUBSET (Every \cup Journey \cup FieldId)]
  /\ puts \in [Axis -> Put]
  /\ IsRows(capabilities) /\ strokes \in 0 .. MaxEdits /\ sent \in 0 .. MaxPuts
  /\ mounted \in BOOLEAN /\ seeded \in BOOLEAN

(* The drafts that were taken from a role differ from the one last read     *)
(* where they were edited; a draft of a page that is gone was taken from    *)
(* none.                                                                    *)
DraftsInv ==
  /\ seeded => mounted /\ cached # None
  /\ seeded => \A a \in Axis : Agree(a, drafts[a], cached[a], edited[a])

(* A save carries what the draft was against what it was taken from.        *)
PutsInv ==
  \A a \in Axis : /\ puts[a].at = "asked" => Fits(a, puts[a].value)
                  /\ puts[a].seeded => Agree(a, puts[a].value, Fix(a, puts[a].read), puts[a].keys)

(* A read of the grants belongs to a save that waits for it.  With one read *)
(* at a time, an answer is what the role grants, unless a newer save of     *)
(* them is yet to ask; and so is what the client believes, unless one is    *)
(* yet to ask or to be answered.                                            *)
GrantsInv ==
  /\ \A x \in answers : /\ x[1] \in Axis /\ puts[x[1]].at = "refreshing"
                        /\ x[2] # None => IsRows(x[2])
  /\ \A x, y \in answers : x[1] = y[1] => x = y
  /\ ~muddled =>
       /\ \A x, y \in answers : x = y
       /\ puts["permissions"].at # "written" =>
            \A x \in answers : x[2] \in {None, kept.permissions}
       /\ \/ capabilities = kept.permissions
          \/ puts["permissions"].at \in {"written", "refreshing"}

RoleInv == ShapesInv /\ DraftsInv /\ PutsInv /\ GrantsInv

LEMMA RoleInvGives ==
  ASSUME RoleInv
  PROVE  RoleTypeOK /\ PutsKeepTheRest /\ CapabilitiesFollow
<1>1. IsRole(Shown)
  BY EmptyRole DEF RoleInv, ShapesInv, Shown
<1>2. RoleTypeOK
  BY <1>1 DEF RoleInv, ShapesInv, GrantsInv, RoleTypeOK, IsRole
<1>3. PutsKeepTheRest
  BY DEF RoleInv, PutsInv, PutsKeepTheRest, Agree, Fix
<1>4. CapabilitiesFollow
  BY DEF RoleInv, GrantsInv, CapabilitiesFollow, NoPut, Axis
<1> QED
  BY <1>2, <1>3, <1>4

(* A save's steps change where it is, and nothing it carries.               *)
LEMMA PutMoves ==
  ASSUME NEW f \in [Axis -> Put], NEW a \in Axis, NEW s \in {"idle", "asked", "written", "refreshing"}
  PROVE  LET g == Moved(f, a, s)
         IN  /\ g \in [Axis -> Put] /\ g[a].at = s /\ \A b \in Axis : b # a => g[b] = f[b]
             /\ \A b \in Axis : /\ g[b].seeded = f[b].seeded /\ g[b].keys = f[b].keys
                                /\ g[b].read = f[b].read /\ g[b].value = f[b].value
<1> DEFINE g == Moved(f, a, s)
           p == [f[a] EXCEPT !.at = s]
<1> USE DEF Moved
<1>1. f[a] \in Put
  OBVIOUS
<1>2. p \in Put /\ p.at = s /\ p.seeded = f[a].seeded /\ p.keys = f[a].keys /\ p.read = f[a].read /\ p.value = f[a].value
  BY <1>1 DEF Put
<1>3. g = [f EXCEPT ![a] = p]
  OBVIOUS
<1> HIDE DEF p
<1>4. g \in [Axis -> Put] /\ g[a] = p /\ \A b \in Axis : b # a => g[b] = f[b]
  BY <1>2, <1>3
<1> QED
  BY <1>2, <1>4

LEMMA PutEnds ==
  ASSUME NEW f \in [Axis -> Put], NEW a \in Axis
  PROVE  LET g == [f EXCEPT ![a] = NoPut]
         IN  g \in [Axis -> Put] /\ g[a] = NoPut /\ \A b \in Axis : b # a => g[b] = f[b]
<1>1. NoPut \in Put
  BY DEF NoPut, Put, Value
<1> QED
  BY <1>1


LEMMA RoleStarts ==
  ASSUME RoleInit
  PROVE  RoleInv
<1>1. PICK K \in SUBSET Every, t \in [Every -> Scope], J \in SUBSET Journey, v \in SUBSET (FieldId \X Level) :
        kept = [permissions |-> Only([i \in DOMAIN Sorted |-> Row(Sorted[i], t[Sorted[i]])], K),
                journeys |-> J, visibility |-> v]
  BY DEF RoleInit
<1>2. IsRows(kept.permissions)
  BY <1>1, RowsOverIs, OnlyIs
<1>3. IsRole(kept)
  BY <1>1, <1>2 DEF IsRole, Axes, IsRows
<1>4. puts \in [Axis -> Put] /\ \A a \in Axis : puts[a].at = "idle" /\ ~puts[a].seeded
  BY DEF RoleInit, Put, NoPut, Value
<1>5. ShapesInv
  <2>1. edited \in [Axis -> SUBSET (Every \cup Journey \cup FieldId)]
    BY DEF RoleInit, Untouched
  <2>2. IsRole(drafts) /\ cached = None /\ IsRows(capabilities)
    BY <1>2, EmptyRole DEF RoleInit
  <2>3. strokes \in 0 .. MaxEdits /\ sent \in 0 .. MaxPuts /\ mounted \in BOOLEAN /\ seeded \in BOOLEAN
    <3>1. MaxEdits \in Nat /\ MaxPuts \in Nat
      BY RoleEditorAssumption
    <3>2. strokes = 0 /\ sent = 0 /\ mounted = FALSE /\ seeded = FALSE
      BY DEF RoleInit
    <3>3. 0 \in 0 .. MaxEdits /\ 0 \in 0 .. MaxPuts
      BY <3>1
    <3> QED
      BY <3>2, <3>3, Zenon
  <2> QED
    BY <1>3, <1>4, <2>1, <2>2, <2>3 DEF ShapesInv
<1>6. DraftsInv /\ PutsInv /\ GrantsInv
  BY <1>4 DEF RoleInit, DraftsInv, PutsInv, GrantsInv
<1> QED
  BY <1>5, <1>6 DEF RoleInv

(* The page is opened, or left: its drafts start empty.                     *)
LEMMA MountKeeps ==
  ASSUME RoleInv, (\E b \in BOOLEAN : Mount(b)) \/ Unmount
  PROVE  RoleInv'
<1>1. /\ mounted' \in BOOLEAN /\ drafts' = Nothing /\ edited' = Untouched /\ seeded' = FALSE
      /\ UNCHANGED <<kept, cached, puts, capabilities, answers, muddled, strokes, sent>>
  BY DEF Mount, Unmount
<1>2. IsRole(drafts') /\ edited' \in [Axis -> SUBSET (Every \cup Journey \cup FieldId)]
  BY <1>1, EmptyRole DEF Untouched
<1>3. ShapesInv'
  BY <1>1, <1>2 DEF RoleInv, ShapesInv
<1>4. DraftsInv'
  BY <1>1 DEF DraftsInv
<1>5. PutsInv' /\ GrantsInv'
  BY <1>1 DEF RoleInv, PutsInv, GrantsInv
<1> QED
  BY <1>3, <1>4, <1>5 DEF RoleInv

(* The role arrives: the drafts are it, or stay because it did not change.  *)
LEMMA ReadKeeps ==
  ASSUME RoleInv, ReadRole
  PROVE  RoleInv'
<1>1. cached' = kept /\ UNCHANGED <<kept, mounted, puts, capabilities, answers, muddled, strokes, sent>>
  BY DEF ReadRole
<1>2. PutsInv' /\ GrantsInv'
  BY <1>1 DEF RoleInv, PutsInv, GrantsInv
<1>3. CASE mounted /\ kept # cached
  <2>1. drafts' = kept /\ edited' = Untouched /\ seeded' = TRUE
    BY <1>3 DEF ReadRole
  <2>2. edited' \in [Axis -> SUBSET (Every \cup Journey \cup FieldId)]
    BY <2>1 DEF Untouched
  <2>3. ShapesInv'
    BY <1>1, <2>1, <2>2 DEF RoleInv, ShapesInv
  <2>4. kept # None
    BY RoleEditorAssumption DEF RoleInv, ShapesInv, IsRole
  <2>5. DraftsInv'
    BY <1>1, <1>3, <2>1, <2>4 DEF DraftsInv, Agree
  <2> QED
    BY <1>2, <2>3, <2>5 DEF RoleInv
<1>4. CASE ~(mounted /\ kept # cached)
  <2>1. UNCHANGED <<drafts, edited, seeded>>
    BY <1>4 DEF ReadRole
  <2>2. ShapesInv'
    BY <1>1, <2>1 DEF RoleInv, ShapesInv
  <2>3. seeded => cached' = cached
    BY <1>1, <1>4 DEF RoleInv, DraftsInv
  <2>4. DraftsInv'
    BY <1>1, <2>1, <2>3 DEF RoleInv, DraftsInv
  <2> QED
    BY <1>2, <2>2, <2>4 DEF RoleInv
<1> QED
  BY <1>3, <1>4

(* A control of a section.                                                  *)
LEMMA EditKeeps ==
  ASSUME RoleInv, NEW a \in Axis, NEW value, NEW keys \in SUBSET (Every \cup Journey \cup FieldId),
         Edit(a, value, keys), Fits(a, value), Agree(a, value, drafts[a], keys)
  PROVE  RoleInv'
<1>1. /\ drafts' = [drafts EXCEPT ![a] = value] /\ edited' = [edited EXCEPT ![a] = @ \cup keys]
      /\ strokes < MaxEdits /\ strokes' = strokes + 1
      /\ UNCHANGED <<kept, cached, mounted, seeded, puts, capabilities, answers, muddled, sent>>
  BY DEF Edit
<1>2. IsRole(drafts') /\ drafts'[a] = value /\ \A b \in Axis : b # a => drafts'[b] = drafts[b]
  <2>1. IsRole(drafts)
    BY DEF RoleInv, ShapesInv
  <2>2. drafts' = With(drafts, a, value)
    BY <1>1 DEF With
  <2> QED
    BY <2>1, <2>2, RoleChanges
<1>3. /\ edited' \in [Axis -> SUBSET (Every \cup Journey \cup FieldId)]
      /\ edited'[a] = edited[a] \cup keys /\ \A b \in Axis : b # a => edited'[b] = edited[b]
  BY <1>1 DEF RoleInv, ShapesInv
<1>4. strokes' \in 0 .. MaxEdits
  BY <1>1, RoleEditorAssumption DEF RoleInv, ShapesInv
<1>5. ShapesInv'
  BY <1>1, <1>2, <1>3, <1>4 DEF RoleInv, ShapesInv
<1>6. ASSUME seeded, NEW b \in Axis
      PROVE  Agree(b, drafts'[b], cached[b], edited'[b])
  <2>1. Agree(b, drafts[b], cached[b], edited[b])
    BY <1>6 DEF RoleInv, DraftsInv
  <2>2. CASE b = a
    BY <1>2, <1>3, <2>1, <2>2, AgreeOn
  <2>3. CASE b # a
    BY <1>2, <1>3, <2>1, <2>3
  <2> QED
    BY <2>2, <2>3
<1>7. DraftsInv'
  BY <1>1, <1>6 DEF RoleInv, DraftsInv
<1>8. PutsInv' /\ GrantsInv'
  BY <1>1 DEF RoleInv, PutsInv, GrantsInv
<1> QED
  BY <1>5, <1>7, <1>8 DEF RoleInv

LEMMA PermissionsKeep ==
  ASSUME RoleInv, EditPermissions
  PROVE  RoleInv'
<1> DEFINE matrix == drafts.permissions
<1>1. IsRows(matrix) /\ matrix = drafts["permissions"] /\ "permissions" \in Axis
  BY DEF RoleInv, ShapesInv, IsRole, Axis
<1>2. ASSUME NEW new, NEW K \in SUBSET Every, Edits(matrix, new, K), Edit("permissions", new, K)
      PROVE  RoleInv'
  <2>1. Fits("permissions", new) /\ Agree("permissions", new, drafts["permissions"], K)
    BY <1>1, <1>2, EditsAgree
  <2>2. K \in SUBSET (Every \cup Journey \cup FieldId)
    OBVIOUS
  <2> HIDE DEF matrix
  <2> QED
    BY <1>1, <1>2, <2>1, <2>2, EditKeeps
<1>3. ASSUME NEW k \in Every, NEW granted \in BOOLEAN,
             Edit("permissions", setPermission(matrix, k, granted), {k})
      PROVE  RoleInv'
  <2> HIDE DEF matrix
  <2>1. Edits(matrix, setPermission(matrix, k, granted), {k})
    BY <1>1, TickEdits
  <2> QED
    BY <1>2, <1>3, <2>1
<1>4. ASSUME NEW k \in Scoped, NEW t \in Scope, Edit("permissions", setScope(matrix, k, t), {k})
      PROVE  RoleInv'
  <2> HIDE DEF matrix
  <2>1. Edits(matrix, setScope(matrix, k, t), {k}) /\ k \in Every
    BY <1>1, ScopeEdits, RoleEditorAssumption
  <2> QED
    BY <1>2, <1>4, <2>1
<1>5. ASSUME NEW m \in Module,
             Edit("permissions", setModule(matrix, m, moduleSelection(matrix, m) # "all"), KeysOf(m))
      PROVE  RoleInv'
  <2> DEFINE granted == moduleSelection(matrix, m) # "all"
  <2>1. granted \in BOOLEAN /\ KeysOf(m) \in SUBSET Every
    BY DEF KeysOf
  <2> HIDE DEF matrix, granted
  <2>2. Edits(matrix, setModule(matrix, m, granted), KeysOf(m))
    BY <1>1, <2>1, ModuleEdits
  <2> QED
    BY <1>2, <1>5, <2>1, <2>2 DEF granted
<1>6. ASSUME NEW new, new \in {setAll(matrix), <<>>} \cup {setScopeForAll(matrix, t) : t \in Scope},
             Edit("permissions", new, Every)
      PROVE  RoleInv'
  <2> HIDE DEF matrix
  <2>1. Edits(matrix, new, Every)
    BY <1>1, <1>6, AllEdits, ScopesEdit
  <2> QED
    BY <1>2, <1>6, <2>1
<1> QED
  BY <1>3, <1>4, <1>5, <1>6 DEF EditPermissions

LEMMA JourneysKeep ==
  ASSUME RoleInv, EditJourneys
  PROVE  RoleInv'
<1>1. drafts.journeys \subseteq Journey /\ drafts.journeys = drafts["journeys"] /\ "journeys" \in Axis
  BY DEF RoleInv, ShapesInv, IsRole, Axes, Axis
<1>2. ASSUME NEW new, NEW K \in SUBSET Journey, Edit("journeys", new, K),
             new \subseteq Journey, new \ K = drafts.journeys \ K
      PROVE  RoleInv'
  <2>1. Fits("journeys", new) /\ Agree("journeys", new, drafts["journeys"], K)
    BY <1>1, <1>2 DEF Fits, Agree, Without
  <2> QED
    BY <1>1, <1>2, <2>1, EditKeeps
<1>3. ASSUME NEW j \in Journey, NEW ticked \in BOOLEAN,
             Edit("journeys", IF ticked THEN drafts.journeys \cup {j} ELSE drafts.journeys \ {j}, {j})
      PROVE  RoleInv'
  <2> DEFINE new == IF ticked THEN drafts.journeys \cup {j} ELSE drafts.journeys \ {j}
  <2>1. new \subseteq Journey /\ new \ {j} = drafts.journeys \ {j}
    BY <1>1
  <2> HIDE DEF new
  <2> QED
    BY <1>2, <1>3, <2>1 DEF new
<1>4. ASSUME Edit("journeys", IF drafts.journeys = Journey THEN {} ELSE Journey, Journey)
      PROVE  RoleInv'
  <2> DEFINE new == IF drafts.journeys = Journey THEN {} ELSE Journey
  <2>1. new \subseteq Journey /\ new \ Journey = drafts.journeys \ Journey
    BY <1>1
  <2> HIDE DEF new
  <2> QED
    BY <1>2, <1>4, <2>1 DEF new
<1> QED
  BY <1>3, <1>4 DEF EditJourneys

LEMMA VisibilityKeeps ==
  ASSUME RoleInv, EditVisibility
  PROVE  RoleInv'
<1> DEFINE old == drafts.visibility
           Rest(v, K) == {r \in v : r[1] \notin K}
<1>1. old \subseteq FieldId \X Level /\ old = drafts["visibility"] /\ "visibility" \in Axis
  BY DEF RoleInv, ShapesInv, IsRole, Axes, Axis
<1>2. ASSUME NEW new, NEW K \in SUBSET FieldId, Edit("visibility", new, K),
             new \subseteq FieldId \X Level, Rest(new, K) = Rest(old, K)
      PROVE  RoleInv'
  <2>1. Fits("visibility", new) /\ Agree("visibility", new, drafts["visibility"], K)
    BY <1>1, <1>2 DEF Fits, Agree, Without
  <2> QED
    BY <1>1, <1>2, <2>1, EditKeeps
<1>3. ASSUME NEW f \in FieldId, NEW l \in Level \cup {None},
             Edit("visibility", {r \in old : r[1] # f} \cup (IF l = None THEN {} ELSE {<<f, l>>}), {f})
      PROVE  RoleInv'
  <2> DEFINE new == {r \in old : r[1] # f} \cup (IF l = None THEN {} ELSE {<<f, l>>})
  <2>1. new \subseteq FieldId \X Level
    BY <1>1
  <2>2. Rest(new, {f}) = Rest(old, {f})
    OBVIOUS
  <2> HIDE DEF new, old, Rest
  <2> QED
    BY <1>2, <1>3, <2>1, <2>2 DEF new
<1>4. ASSUME NEW l \in Level \cup {None},
             Edit("visibility", IF l = None THEN {} ELSE FieldId \X {l}, FieldId)
      PROVE  RoleInv'
  <2> DEFINE new == IF l = None THEN {} ELSE FieldId \X {l}
  <2>1. new \subseteq FieldId \X Level
    OBVIOUS
  <2>2. Rest(new, FieldId) = {} /\ Rest(old, FieldId) = {}
    BY <1>1, <2>1
  <2> HIDE DEF new, old, Rest
  <2> QED
    BY <1>2, <1>4, <2>1, <2>2 DEF new
<1> QED
  BY <1>3, <1>4 DEF EditVisibility


LEMMA ResetKeeps ==
  ASSUME RoleInv, NEW a \in Axis, Reset(a)
  PROVE  RoleInv'
<1>1. /\ drafts' = [drafts EXCEPT ![a] = Shown[a]] /\ edited' = [edited EXCEPT ![a] = {}]
      /\ UNCHANGED <<kept, cached, mounted, seeded, puts, capabilities, answers, muddled, strokes, sent>>
  BY DEF Reset
<1>2. IsRole(drafts) /\ IsRole(Shown)
  BY EmptyRole DEF RoleInv, ShapesInv, Shown
<1>3. Fits(a, Shown[a])
  BY <1>2, RoleFits
<1>4. IsRole(drafts') /\ drafts'[a] = Shown[a] /\ \A b \in Axis : b # a => drafts'[b] = drafts[b]
  <2>1. drafts' = With(drafts, a, Shown[a])
    BY <1>1 DEF With
  <2> QED
    BY <1>2, <1>3, <2>1, RoleChanges
<1>5. /\ edited' \in [Axis -> SUBSET (Every \cup Journey \cup FieldId)]
      /\ \A b \in Axis : b # a => edited'[b] = edited[b]
  BY <1>1 DEF RoleInv, ShapesInv
<1>6. ShapesInv'
  BY <1>1, <1>4, <1>5 DEF RoleInv, ShapesInv
<1>7. ASSUME seeded, NEW b \in Axis
      PROVE  Agree(b, drafts'[b], cached[b], edited'[b])
  <2>1. CASE b = a
    <3>1. drafts'[b] = cached[b]
      BY <1>4, <1>7, <2>1 DEF RoleInv, DraftsInv, Shown
    <3> QED
      BY <3>1 DEF Agree
  <2>2. CASE b # a
    BY <1>4, <1>5, <1>7, <2>2 DEF RoleInv, DraftsInv
  <2> QED
    BY <2>1, <2>2
<1>8. DraftsInv'
  BY <1>1, <1>7 DEF RoleInv, DraftsInv
<1>9. PutsInv' /\ GrantsInv'
  BY <1>1 DEF RoleInv, PutsInv, GrantsInv
<1> QED
  BY <1>6, <1>8, <1>9 DEF RoleInv

LEMMA ValueIs ==
  ASSUME NEW a \in Axis, NEW v, Fits(a, v)
  PROVE  v \in Value
<1>1. CASE a = "permissions"
  BY <1>1 DEF Fits, IsRows, Value
<1>2. CASE a = "journeys"
  BY <1>2 DEF Fits, Value
<1>3. CASE a = "visibility"
  BY <1>3 DEF Fits, Value
<1> QED
  BY <1>1, <1>2, <1>3 DEF Axis

(* A save takes the draft, and what it was taken from, as they are.         *)
LEMMA SaveKeeps ==
  ASSUME RoleInv, NEW a \in Axis, SaveAxis(a)
  PROVE  RoleInv'
<1> DEFINE p == [at |-> "asked", seeded |-> seeded, keys |-> edited[a], read |-> Shown[a],
                 value |-> Fix(a, drafts[a])]
<1>1. /\ puts[a] = NoPut /\ puts' = [puts EXCEPT ![a] = p] /\ sent < MaxPuts /\ sent' = sent + 1
      /\ UNCHANGED <<kept, cached, mounted, drafts, edited, seeded, capabilities, answers, muddled, strokes>>
  BY DEF SaveAxis, Fix
<1>2. IsRole(drafts) /\ IsRole(Shown)
  BY EmptyRole DEF RoleInv, ShapesInv, Shown
<1>3. Fits(a, drafts[a]) /\ Fits(a, Shown[a])
  BY <1>2, RoleFits
<1>4. Fits(a, Fix(a, drafts[a]))
  BY <1>3, FixFits
<1>5. p \in Put
  <2>1. Shown[a] \in Value /\ Fix(a, drafts[a]) \in Value
    BY <1>3, <1>4, ValueIs
  <2>2. edited[a] \in SUBSET (Every \cup Journey \cup FieldId) /\ seeded \in BOOLEAN
    BY DEF RoleInv, ShapesInv
  <2> QED
    BY <2>1, <2>2 DEF Put
<1>6. seeded => Agree(a, p.value, Fix(a, p.read), p.keys)
  <2>1. ASSUME seeded
        PROVE  Agree(a, Fix(a, drafts[a]), Fix(a, Shown[a]), edited[a])
    <3>1. Agree(a, drafts[a], Shown[a], edited[a])
      BY <2>1 DEF RoleInv, DraftsInv, Shown
    <3> QED
      BY <1>3, <3>1, FixAgrees
  <2> QED
    BY <2>1
<1>7. p.at = "asked" /\ p.value = Fix(a, drafts[a]) /\ p.seeded = seeded
  OBVIOUS
<1> HIDE DEF p
<1>8. puts' \in [Axis -> Put] /\ puts'[a] = p /\ \A b \in Axis : b # a => puts'[b] = puts[b]
  BY <1>1, <1>5 DEF RoleInv, ShapesInv
<1>9. sent' \in 0 .. MaxPuts
  BY <1>1, RoleEditorAssumption DEF RoleInv, ShapesInv
<1>10. ShapesInv' /\ DraftsInv'
  BY <1>1, <1>8, <1>9 DEF RoleInv, ShapesInv, DraftsInv
<1>11. PutsInv'
  BY <1>4, <1>6, <1>7, <1>8 DEF RoleInv, PutsInv
<1>12. puts[a].at = "idle"
  BY <1>1 DEF NoPut
<1>13. GrantsInv'
  <2>1. \A b \in Axis : puts'[b].at # puts[b].at => puts[b].at = "idle" /\ puts'[b].at = "asked"
    BY <1>7, <1>8, <1>12
  <2>2. "permissions" \in Axis
    BY DEF Axis
  <2> QED
    BY <1>1, <2>1, <2>2 DEF RoleInv, GrantsInv
<1> QED
  BY <1>10, <1>11, <1>13 DEF RoleInv

(* The server replaces the axis.                                            *)
LEMMA WriteKeeps ==
  ASSUME RoleInv, NEW a \in Axis, WriteAxis(a)
  PROVE  RoleInv'
<1> DEFINE v == IF a = "permissions" THEN InOrder(puts[a].value) ELSE puts[a].value
<1>1. /\ puts[a].at = "asked" /\ kept' = [kept EXCEPT ![a] = v] /\ puts' = [puts EXCEPT ![a].at = "written"]
      /\ UNCHANGED <<cached, mounted, drafts, edited, seeded, capabilities, answers, muddled, strokes, sent>>
  BY DEF WriteAxis
<1>2. Fits(a, puts[a].value)
  BY <1>1 DEF RoleInv, PutsInv
<1>3. Fits(a, v)
  BY <1>2, InOrderIs DEF Fits
<1> HIDE DEF v
<1>4. IsRole(kept') /\ (a # "permissions" => kept'.permissions = kept.permissions)
  <2>1. IsRole(kept) /\ "permissions" \in Axis
    BY DEF RoleInv, ShapesInv, Axis
  <2>2. IsRole(kept') /\ \A b \in Axis : b # a => kept'[b] = kept[b]
    <3>1. kept' = With(kept, a, v)
      BY <1>1 DEF With
    <3> QED
      BY <1>3, <2>1, <3>1, RoleChanges
  <2> QED
    BY <2>1, <2>2
<1>5. puts \in [Axis -> Put]
  BY DEF RoleInv, ShapesInv
<1>6. /\ puts' \in [Axis -> Put] /\ puts'[a].at = "written" /\ \A b \in Axis : b # a => puts'[b] = puts[b]
      /\ \A b \in Axis : /\ puts'[b].seeded = puts[b].seeded /\ puts'[b].keys = puts[b].keys
                         /\ puts'[b].read = puts[b].read /\ puts'[b].value = puts[b].value
  <2>1. puts' = Moved(puts, a, "written")
    BY <1>1 DEF Moved
  <2> QED
    BY <1>5, <2>1, PutMoves
<1>7. ShapesInv' /\ DraftsInv'
  BY <1>1, <1>4, <1>6 DEF RoleInv, ShapesInv, DraftsInv
<1>8. PutsInv'
  BY <1>6 DEF RoleInv, PutsInv
<1>9. GrantsInv'
  <2>1. \A x \in answers : puts'[x[1]].at = "refreshing"
    BY <1>1, <1>6 DEF RoleInv, GrantsInv
  <2>2. CASE a = "permissions"
    BY <1>1, <1>6, <2>1, <2>2 DEF RoleInv, GrantsInv
  <2>3. CASE a # "permissions"
    <3>1. kept'.permissions = kept.permissions /\ puts'["permissions"] = puts["permissions"]
      BY <1>4, <1>6, <2>3 DEF Axis
    <3> QED
      BY <1>1, <2>1, <3>1 DEF RoleInv, GrantsInv
  <2> QED
    BY <2>2, <2>3
<1> QED
  BY <1>7, <1>8, <1>9 DEF RoleInv

LEMMA RefuseKeeps ==
  ASSUME RoleInv, NEW a \in Axis, RefuseAxis(a)
  PROVE  RoleInv'
<1>1. /\ puts[a].at = "asked" /\ puts' = [puts EXCEPT ![a] = NoPut]
      /\ UNCHANGED <<kept, cached, mounted, drafts, edited, seeded, capabilities, answers, muddled, strokes,
                     sent>>
  BY DEF RefuseAxis
<1>2. puts' \in [Axis -> Put] /\ puts'[a] = NoPut /\ \A b \in Axis : b # a => puts'[b] = puts[b]
  BY <1>1, PutEnds DEF RoleInv, ShapesInv
<1>3. NoPut.at = "idle" /\ ~NoPut.seeded
  BY DEF NoPut
<1>4. ShapesInv' /\ DraftsInv'
  BY <1>1, <1>2 DEF RoleInv, ShapesInv, DraftsInv
<1>5. PutsInv'
  BY <1>2, <1>3 DEF RoleInv, PutsInv
<1>6. GrantsInv'
  <2>1. \A b \in Axis : puts'[b].at # puts[b].at => puts[b].at = "asked" /\ puts'[b].at = "idle"
    BY <1>1, <1>2, <1>3
  <2>2. "permissions" \in Axis
    BY DEF Axis
  <2> QED
    BY <1>1, <2>1, <2>2 DEF RoleInv, GrantsInv
<1> QED
  BY <1>4, <1>5, <1>6 DEF RoleInv

-----------------------------------------------------------------------------
(* The user's own grants are asked for, answered and taken.                 *)
LEMMA AskKeeps ==
  ASSUME RoleInv, NEW a \in Axis, AskCapabilities(a)
  PROVE  RoleInv'
<1>1. /\ puts[a].at = "written" /\ puts' = [puts EXCEPT ![a].at = "refreshing"]
      /\ answers' = answers \cup {<<a, None>>} /\ muddled' = (muddled \/ answers # {})
      /\ UNCHANGED <<kept, cached, mounted, drafts, edited, seeded, capabilities, strokes, sent>>
  BY DEF AskCapabilities, Waiting
<1>2. puts \in [Axis -> Put]
  BY DEF RoleInv, ShapesInv
<1>3. /\ puts' \in [Axis -> Put] /\ puts'[a].at = "refreshing" /\ \A b \in Axis : b # a => puts'[b] = puts[b]
      /\ \A b \in Axis : /\ puts'[b].seeded = puts[b].seeded /\ puts'[b].keys = puts[b].keys
                         /\ puts'[b].read = puts[b].read /\ puts'[b].value = puts[b].value
  <2>1. puts' = Moved(puts, a, "refreshing")
    BY <1>1 DEF Moved
  <2> QED
    BY <1>2, <2>1, PutMoves
<1>4. ShapesInv' /\ DraftsInv'
  BY <1>1, <1>3 DEF RoleInv, ShapesInv, DraftsInv
<1>5. PutsInv'
  BY <1>3 DEF RoleInv, PutsInv
<1>6. \A x \in answers : x[1] \in Axis \ {a}
  BY <1>1 DEF RoleInv, GrantsInv
<1>7. /\ \A x \in answers' : /\ x[1] \in Axis /\ puts'[x[1]].at = "refreshing"
                             /\ x[2] # None => IsRows(x[2])
      /\ \A x, y \in answers' : x[1] = y[1] => x = y
  BY <1>1, <1>3, <1>6 DEF RoleInv, GrantsInv
<1>8. ASSUME ~muddled'
      PROVE  /\ \A x, y \in answers' : x = y
             /\ \A x \in answers' : x[2] = None
             /\ \/ capabilities = kept.permissions
                \/ puts'["permissions"].at \in {"written", "refreshing"}
  <2>1. ~muddled /\ answers' = {<<a, None>>}
    BY <1>1, <1>8
  <2>2. puts'["permissions"].at = puts["permissions"].at \/ puts'["permissions"].at = "refreshing"
    BY <1>3 DEF Axis
  <2> QED
    BY <2>1, <2>2 DEF RoleInv, GrantsInv
<1>9. GrantsInv'
  BY <1>1, <1>7, <1>8 DEF GrantsInv
<1> QED
  BY <1>4, <1>5, <1>9 DEF RoleInv

LEMMA AnswerKeeps ==
  ASSUME RoleInv, NEW a \in Axis, AnswerCapabilities(a)
  PROVE  RoleInv'
<1>1. /\ <<a, None>> \in answers
      /\ answers' = (answers \ {<<a, None>>}) \cup {<<a, kept.permissions>>}
      /\ UNCHANGED <<kept, cached, mounted, drafts, edited, seeded, puts, capabilities, muddled, strokes, sent>>
  BY DEF AnswerCapabilities
<1>2. ShapesInv' /\ DraftsInv' /\ PutsInv'
  BY <1>1 DEF RoleInv, ShapesInv, DraftsInv, PutsInv
<1>3. IsRows(kept.permissions)
  BY DEF RoleInv, ShapesInv, IsRole
<1>4. /\ a \in Axis /\ puts[a].at = "refreshing"
      /\ \A x \in answers : x # <<a, None>> => x[1] # a
  BY <1>1 DEF RoleInv, GrantsInv
<1>5. /\ \A x \in answers' : /\ x[1] \in Axis /\ puts[x[1]].at = "refreshing"
                             /\ x[2] # None => IsRows(x[2])
      /\ \A x, y \in answers' : x[1] = y[1] => x = y
  BY <1>1, <1>3, <1>4 DEF RoleInv, GrantsInv
<1>6. ASSUME ~muddled
      PROVE  /\ \A x, y \in answers' : x = y
             /\ puts["permissions"].at # "written" =>
                  \A x \in answers' : x[2] \in {None, kept.permissions}
  BY <1>1, <1>6 DEF RoleInv, GrantsInv
<1>7. GrantsInv'
  BY <1>1, <1>5, <1>6 DEF RoleInv, GrantsInv
<1> QED
  BY <1>2, <1>7 DEF RoleInv

LEMMA TakeKeeps ==
  ASSUME RoleInv, NEW a \in Axis, NEW failed \in BOOLEAN, TakeCapabilities(a, failed)
  PROVE  RoleInv'
<1>1. PICK x \in answers :
        /\ x[1] = a /\ (x[2] # None \/ failed) /\ answers' = answers \ {x}
        /\ capabilities' = (IF failed THEN capabilities ELSE x[2]) /\ muddled' = (muddled \/ failed)
        /\ puts' = [puts EXCEPT ![a] = NoPut]
        /\ UNCHANGED <<kept, cached, mounted, drafts, edited, seeded, strokes, sent>>
  BY DEF TakeCapabilities
<1>2. puts' \in [Axis -> Put] /\ puts'[a] = NoPut /\ \A b \in Axis : b # a => puts'[b] = puts[b]
  BY <1>1, PutEnds DEF RoleInv, ShapesInv
<1>3. NoPut.at = "idle" /\ ~NoPut.seeded
  BY DEF NoPut
<1>4. puts[a].at = "refreshing" /\ \A y \in answers' : y[1] # a
  BY <1>1 DEF RoleInv, GrantsInv
<1>5. IsRows(capabilities')
  BY <1>1 DEF RoleInv, ShapesInv, GrantsInv
<1>6. ShapesInv' /\ DraftsInv'
  BY <1>1, <1>2, <1>5 DEF RoleInv, ShapesInv, DraftsInv
<1>7. PutsInv'
  BY <1>2, <1>3 DEF RoleInv, PutsInv
<1>8. /\ \A y \in answers' : /\ y[1] \in Axis /\ puts'[y[1]].at = "refreshing"
                             /\ y[2] # None => IsRows(y[2])
      /\ \A y, z \in answers' : y[1] = z[1] => y = z
  BY <1>1, <1>2, <1>4 DEF RoleInv, GrantsInv
<1>9. ASSUME ~muddled'
      PROVE  /\ answers' = {}
             /\ \/ capabilities' = kept.permissions
                \/ puts'["permissions"].at \in {"written", "refreshing"}
  <2>1. ~muddled /\ ~failed /\ capabilities' = x[2] /\ x[2] # None
    BY <1>1, <1>9
  <2>2. \A y \in answers : y = x
    BY <2>1 DEF RoleInv, GrantsInv
  <2>3. answers' = {}
    BY <1>1, <2>2
  <2>4. puts["permissions"].at # "written" => x[2] = kept.permissions
    BY <2>1 DEF RoleInv, GrantsInv
  <2>5. puts["permissions"].at = "written" => puts'["permissions"].at = "written"
    BY <1>2, <1>4 DEF Axis
  <2> QED
    BY <2>1, <2>3, <2>4, <2>5
<1>10. GrantsInv'
  BY <1>1, <1>8, <1>9 DEF GrantsInv
<1> QED
  BY <1>6, <1>7, <1>10 DEF RoleInv

LEMMA RoleSteps ==
  ASSUME RoleInv, [RoleNext]_roleVars
  PROVE  RoleInv'
<1>1. CASE UNCHANGED roleVars
  BY <1>1 DEF roleVars, RoleInv, ShapesInv, DraftsInv, PutsInv, GrantsInv
<1>2. CASE RoleNext
  BY <1>2, MountKeeps, ReadKeeps, PermissionsKeep, JourneysKeep, VisibilityKeeps, ResetKeeps, SaveKeeps,
     WriteKeeps, RefuseKeeps, AskKeeps, AnswerKeeps, TakeKeeps DEF RoleNext
<1> QED
  BY <1>1, <1>2

LEMMA RoleAlways == RoleSpec => []RoleInv
<1> QED
  BY RoleStarts, RoleSteps, PTL DEF RoleSpec


-----------------------------------------------------------------------------
(* The editors that read the grants after they open.  Of s the grants       *)
(* stored, h what each record has had, n how many records there are.        *)
StoreFits(s, h) ==
  /\ s \in Seq(Grants) /\ Len(s) \in 1 .. MaxRecords
  /\ h \in Seq(SUBSET Grants) /\ Len(h) = Len(s)
  /\ \A r \in 1 .. Len(s) : s[r] \in h[r]

CacheFits(cache, n, h) ==
  /\ cache \in [Record -> Grants \cup {None}]
  /\ \A r \in Record : cache[r] # None => r \in 1 .. n /\ cache[r] \in h[r]

(* An untouched draft holds what its record has had once it was read into   *)
(* it, and nobody when the record is new.                                   *)
DraftFits(d, read, mine, n, h) ==
  d # None => /\ d \in Draft /\ d.id <= n
              /\ ~mine => IF d.id = 0 THEN d.grants = Nobody ELSE read => d.grants \in h[d.id]

SaveFits(w, n, h) ==
  w # None => /\ w \in Saving /\ w.id <= n
              /\ w.at = "grants" => w.write
              /\ w.at # "record" => w.id # 0
              /\ w.write /\ ~w.touched => w.id # 0 /\ w.grants \in h[w.id]

Grows(n, h, m, k) == n <= m /\ \A r \in 1 .. n : h[r] \subseteq k[r]

EditorInv ==
  /\ StoreFits(stored, had) /\ CacheFits(held, Len(stored), had)
  /\ stale \subseteq Cached /\ reading \subseteq DOMAIN stored
  /\ DraftFits(draft, synced, touched, Len(stored), had) /\ SaveFits(saving, Len(stored), had)
  /\ synced \in BOOLEAN /\ touched \in BOOLEAN

LEMMA EditorInvGives ==
  ASSUME EditorInv
  PROVE  EditorTypeOK /\ SavesWriteWhatWasRead
<1>1. EditorTypeOK
  BY DEF EditorInv, StoreFits, CacheFits, DraftFits, SaveFits, EditorTypeOK
<1>2. SavesWriteWhatWasRead
  BY DEF EditorInv, SaveFits, SavesWriteWhatWasRead
<1> QED
  BY <1>1, <1>2

LEMMA StoreIs ==
  ASSUME NEW s, NEW h, StoreFits(s, h)
  PROVE  /\ Len(s) \in Nat /\ Len(s) >= 1 /\ Len(s) <= MaxRecords /\ MaxRecords \in Nat
         /\ DOMAIN s = 1 .. Len(s) /\ DOMAIN h = 1 .. Len(s)
         /\ \A r \in 1 .. Len(s) : s[r] \in Grants /\ h[r] \in SUBSET Grants /\ s[r] \in h[r] /\ r \in Record
BY FieldEditorAssumption DEF StoreFits, Record

LEMMA StoreGrows ==
  ASSUME NEW n \in Nat, NEW m \in Nat, NEW h, NEW k, Grows(n, h, m, k), n <= MaxRecords
  PROVE  /\ \A cache : CacheFits(cache, n, h) => CacheFits(cache, m, k)
         /\ \A d, read, mine : DraftFits(d, read, mine, n, h) => DraftFits(d, read, mine, m, k)
         /\ \A w : SaveFits(w, n, h) => SaveFits(w, m, k)
<1>1. \A r \in 1 .. n : r \in 1 .. m /\ h[r] \subseteq k[r]
  BY DEF Grows
<1>2. \A i \in Nat : i <= n => i <= m /\ (i # 0 => h[i] \subseteq k[i])
  BY <1>1 DEF Grows
<1>3. ASSUME NEW cache, CacheFits(cache, n, h)
      PROVE  CacheFits(cache, m, k)
  BY <1>1, <1>3 DEF CacheFits
<1>4. ASSUME NEW d, NEW read, NEW mine, DraftFits(d, read, mine, n, h)
      PROVE  DraftFits(d, read, mine, m, k)
  <2>1. d \in Draft => d.id \in Nat
    BY FieldEditorAssumption DEF Draft
  <2> QED
    BY <1>2, <1>4, <2>1 DEF DraftFits
<1>5. ASSUME NEW w, SaveFits(w, n, h)
      PROVE  SaveFits(w, m, k)
  <2>1. w \in Saving => w.id \in Nat
    BY FieldEditorAssumption DEF Saving
  <2> QED
    BY <1>2, <1>5, <2>1 DEF SaveFits
<1> QED
  BY <1>3, <1>4, <1>5

(* The grants of one record are replaced; a record is added.                *)
Had(h, r, g) == [h EXCEPT ![r] = @ \cup {g}]

LEMMA WriteFits ==
  ASSUME NEW s, NEW h, StoreFits(s, h), NEW r \in 1 .. Len(s), NEW g \in Grants
  PROVE  /\ StoreFits(With(s, r, g), Had(h, r, g)) /\ Len(With(s, r, g)) = Len(s)
         /\ Grows(Len(s), h, Len(s), Had(h, r, g))
<1> DEFINE t == With(s, r, g)
           k == Had(h, r, g)
<1>1. /\ Len(s) \in Nat /\ Len(s) \in 1 .. MaxRecords /\ s \in Seq(Grants) /\ h \in Seq(SUBSET Grants)
      /\ Len(h) = Len(s) /\ h[r] \in SUBSET Grants /\ \A q \in 1 .. Len(s) : s[q] \in h[q]
  BY StoreIs DEF StoreFits
<1>2. t \in Seq(Grants) /\ Len(t) = Len(s) /\ \A q \in 1 .. Len(s) : t[q] = IF q = r THEN g ELSE s[q]
  BY <1>1, ExceptSeq DEF With
<1>3. k = [h EXCEPT ![r] = h[r] \cup {g}]
  BY DEF Had
<1> HIDE DEF k, t
<1>4. h[r] \cup {g} \in SUBSET Grants /\ r \in 1 .. Len(h)
  BY <1>1
<1>5. k \in Seq(SUBSET Grants) /\ Len(k) = Len(h) /\ \A q \in 1 .. Len(h) : k[q] = IF q = r THEN h[r] \cup {g} ELSE h[q]
  BY <1>1, <1>3, <1>4, ExceptSeq
<1>6. StoreFits(t, k)
  BY <1>1, <1>2, <1>5 DEF StoreFits
<1>7. Grows(Len(s), h, Len(s), k)
  BY <1>1, <1>5 DEF Grows
<1> QED
  BY <1>2, <1>6, <1>7 DEF t, k

LEMMA AddFits ==
  ASSUME NEW s, NEW h, StoreFits(s, h), Len(s) < MaxRecords
  PROVE  /\ StoreFits(Append(s, Nobody), Append(h, {Nobody})) /\ Len(Append(s, Nobody)) = Len(s) + 1
         /\ Grows(Len(s), h, Len(s) + 1, Append(h, {Nobody}))
<1> DEFINE t == Append(s, Nobody)
           k == Append(h, {Nobody})
<1>1. /\ Len(s) \in Nat /\ MaxRecords \in Nat /\ s \in Seq(Grants) /\ h \in Seq(SUBSET Grants)
      /\ Len(h) = Len(s) /\ \A q \in 1 .. Len(s) : s[q] \in h[q]
  BY StoreIs DEF StoreFits
<1>2. Nobody \in Grants /\ {Nobody} \in SUBSET Grants
  BY FieldEditorAssumption
<1>3. /\ t \in Seq(Grants) /\ Len(t) = Len(s) + 1 /\ t[Len(s) + 1] = Nobody
      /\ \A q \in 1 .. Len(s) : t[q] = s[q]
  BY <1>1, <1>2, AppendProperties
<1>4. /\ k \in Seq(SUBSET Grants) /\ Len(k) = Len(s) + 1 /\ k[Len(s) + 1] = {Nobody}
      /\ \A q \in 1 .. Len(s) : k[q] = h[q]
  BY <1>1, <1>2, AppendProperties
<1> HIDE DEF t, k
<1>5. \A q \in 1 .. Len(s) + 1 : q \in 1 .. Len(s) \/ q = Len(s) + 1
  BY <1>1
<1>6. \A q \in 1 .. Len(t) : t[q] \in k[q]
  BY <1>1, <1>3, <1>4, <1>5
<1>7. StoreFits(t, k)
  BY <1>1, <1>3, <1>4, <1>6 DEF StoreFits
<1>8. Grows(Len(s), h, Len(s) + 1, k)
  BY <1>1, <1>4 DEF Grows
<1> QED
  BY <1>3, <1>7, <1>8 DEF t, k

LEMMA HydrateFits ==
  ASSUME NEW n, NEW h, NEW d, NEW read \in BOOLEAN, NEW mine \in BOOLEAN, NEW cache,
         CacheFits(cache, n, h), DraftFits(d, read, mine, n, h), Hydrate(d, read, cache)
  PROVE  DraftFits(draft', synced', mine, n, h) /\ synced' \in BOOLEAN
<1>1. CASE d # None /\ d.id # 0 /\ ~read /\ cache[d.id] # None
  <2>1. draft' = [d EXCEPT !.grants = cache[d.id]] /\ synced' = TRUE
    BY <1>1 DEF Hydrate
  <2>2. d \in Draft /\ d.id <= n
    BY <1>1 DEF DraftFits
  <2>3. d.id \in Record
    BY <1>1, <2>2, FieldEditorAssumption DEF Draft, Record
  <2>4. cache[d.id] \in Grants /\ cache[d.id] \in h[d.id]
    BY <1>1, <2>3 DEF CacheFits
  <2>5. draft' \in Draft /\ draft'.id = d.id /\ draft'.grants = cache[d.id]
    BY <2>1, <2>2, <2>4 DEF Draft
  <2> QED
    BY <1>1, <2>1, <2>2, <2>4, <2>5 DEF DraftFits
<1>2. CASE ~(d # None /\ d.id # 0 /\ ~read /\ cache[d.id] # None)
  <2>1. draft' = d /\ synced' = read
    BY <1>2 DEF Hydrate
  <2> QED
    BY <2>1
<1> QED
  BY <1>1, <1>2

LEMMA EditorStarts ==
  ASSUME EditorInit
  PROVE  EditorInv
<1>1. PICK g \in Grants : stored = <<g>> /\ had = <<{g}>>
  BY DEF EditorInit
<1>2. StoreFits(stored, had)
  BY <1>1, FieldEditorAssumption DEF StoreFits
<1>3. CacheFits(held, Len(stored), had) /\ Cached = {}
  BY DEF EditorInit, CacheFits, Cached
<1> QED
  BY <1>2, <1>3 DEF EditorInit, EditorInv, DraftFits, SaveFits


-----------------------------------------------------------------------------
(* An editor opens: the entry that is cached is in it at once.              *)
LEMMA OpenKeeps ==
  ASSUME EditorInv, OpenNew \/ \E r \in Record, again \in BOOLEAN : Open(r, again)
  PROVE  EditorInv'
<1> DEFINE Shows(r) == /\ r \in 0 .. MaxRecords /\ r <= Len(stored) /\ Hydrate(Opened(r), FALSE, held)
                       /\ touched' = FALSE /\ reading' \subseteq reading \cup (DOMAIN stored)
                       /\ UNCHANGED <<stored, held, stale, saving, had>>
<1>1. PICK r \in 0 .. MaxRecords : Shows(r)
  <2>1. /\ 1 <= Len(stored) /\ DOMAIN stored = 1 .. Len(stored) /\ Len(stored) \in Nat
        /\ MaxRecords \in Nat
    BY StoreIs DEF EditorInv
  <2>2. ASSUME OpenNew
        PROVE  Shows(0)
    <3>1. 0 \in 0 .. MaxRecords /\ 0 <= Len(stored)
      BY <2>1
    <3> QED
      BY <2>2, <3>1 DEF OpenNew
  <2>3. ASSUME NEW r \in Record, NEW again \in BOOLEAN, Open(r, again)
        PROVE  Shows(r)
    <3>1. r \in DOMAIN stored
      BY <2>3 DEF Open
    <3>2. r \in 0 .. MaxRecords /\ r <= Len(stored)
      BY <2>1, <3>1 DEF Record
    <3>3. reading' \subseteq reading \cup (DOMAIN stored)
      BY <2>3, <3>1 DEF Open
    <3>4. /\ Hydrate(Opened(r), FALSE, held) /\ touched' = FALSE
          /\ UNCHANGED <<stored, held, stale, saving, had>>
      BY <2>3 DEF Open
    <3> QED
      BY <3>2, <3>3, <3>4
  <2> HIDE DEF Shows
  <2>4. \A r : Shows(r) => r \in 0 .. MaxRecords
    BY DEF Shows
  <2> QED
    BY <2>2, <2>3, <2>4
<1>2. Nobody \in Grants
  BY FieldEditorAssumption
<1>3. Opened(r) \in Draft /\ Opened(r).id = r /\ Opened(r).grants = Nobody
  BY <1>2 DEF Opened, Draft
<1>4. DraftFits(Opened(r), FALSE, FALSE, Len(stored), had)
  BY <1>1, <1>3 DEF DraftFits
<1>5. DraftFits(draft', synced', FALSE, Len(stored), had) /\ synced' \in BOOLEAN
  BY <1>1, <1>4, HydrateFits DEF EditorInv
<1> QED
  BY <1>1, <1>5 DEF EditorInv, Cached

(* The read that was asked for, or a refused one, or a dropped entry.       *)
LEMMA ReadsKeep ==
  ASSUME EditorInv, NEW r \in Record, ReadGrants(r) \/ FailRead(r) \/ Forget(r)
  PROVE  EditorInv'
<1>1. CASE ReadGrants(r)
  <2>1. /\ r \in reading /\ reading' = reading \ {r} /\ held' = [held EXCEPT ![r] = stored[r]]
        /\ stale' = stale \ {r} /\ Hydrate(draft, synced, held')
        /\ UNCHANGED <<stored, touched, saving, had>>
    BY <1>1 DEF ReadGrants
  <2>2. r \in 1 .. Len(stored) /\ stored[r] \in Grants /\ stored[r] \in had[r]
    BY <2>1, StoreIs DEF EditorInv
  <2>3. held'[r] = stored[r] /\ \A q \in Record : q # r => held'[q] = held[q]
    BY <2>1 DEF EditorInv, CacheFits
  <2>4. held' \in [Record -> Grants \cup {None}]
    BY <2>1, <2>2 DEF EditorInv, CacheFits
  <2>5. CacheFits(held', Len(stored), had)
    BY <2>2, <2>3, <2>4 DEF EditorInv, CacheFits
  <2>6. DraftFits(draft', synced', touched, Len(stored), had) /\ synced' \in BOOLEAN
    BY <2>1, <2>5, HydrateFits DEF EditorInv
  <2>7. stale' \subseteq Cached'
    BY <2>1, <2>3 DEF EditorInv, Cached
  <2> QED
    BY <2>1, <2>5, <2>6, <2>7 DEF EditorInv
<1>2. CASE FailRead(r)
  BY <1>2 DEF FailRead, EditorInv, Cached
<1>3. CASE Forget(r)
  <2>1. /\ held' = [held EXCEPT ![r] = None] /\ stale' = stale \ {r}
        /\ UNCHANGED <<stored, reading, draft, synced, touched, saving, had>>
    BY <1>3 DEF Forget
  <2>2. CacheFits(held', Len(stored), had) /\ stale' \subseteq Cached'
    BY <2>1 DEF EditorInv, CacheFits, Cached
  <2> QED
    BY <2>1, <2>2 DEF EditorInv
<1> QED
  BY <1>1, <1>2, <1>3

LEMMA HandsKeep ==
  ASSUME EditorInv, Cancel \/ \E g \in Grants : EditGrants(g)
  PROVE  EditorInv'
<1>1. CASE Cancel
  BY <1>1 DEF Cancel, EditorInv, Cached, DraftFits
<1>2. ASSUME NEW g \in Grants, EditGrants(g)
      PROVE  EditorInv'
  <2>1. /\ draft # None /\ draft' = [draft EXCEPT !.grants = g] /\ touched' = TRUE
        /\ UNCHANGED <<stored, held, stale, reading, synced, saving, had>>
    BY <1>2 DEF EditGrants
  <2>2. draft \in Draft /\ draft.id <= Len(stored)
    BY <2>1 DEF EditorInv, DraftFits
  <2>3. draft' \in Draft /\ draft'.id = draft.id
    BY <2>1, <2>2 DEF Draft
  <2> QED
    BY <2>1, <2>2, <2>3 DEF EditorInv, DraftFits, Cached
<1> QED
  BY <1>1, <1>2

(* A save takes the draft as it is: an untouched one that writes its grants *)
(* has read them.                                                           *)
LEMMA SavesKeep ==
  ASSUME EditorInv, Save \/ FailSave \/ Finish
  PROVE  EditorInv'
<1>1. CASE Save
  <2> DEFINE w == [at |-> "record", id |-> draft.id, grants |-> draft.grants,
                   write |-> writeGrants, touched |-> touched, calm |-> draft.calm]
  <2>1. /\ draft # None /\ saving' = w
        /\ UNCHANGED <<stored, held, stale, reading, draft, synced, touched, had>>
    BY <1>1 DEF Save
  <2>2. draft \in Draft /\ draft.id <= Len(stored) /\ touched \in BOOLEAN
    BY <2>1 DEF EditorInv, DraftFits
  <2>3. writeGrants \in BOOLEAN
    BY DEF writeGrants
  <2>4. w \in Saving
    BY <2>2, <2>3 DEF Draft, Saving
  <2>5. writeGrants /\ ~touched => draft.id # 0 /\ draft.grants \in had[draft.id]
    BY <2>1 DEF writeGrants, visibilityKnown, EditorInv, DraftFits
  <2>6. SaveFits(w, Len(stored), had)
    <3>1. /\ w.at = "record" /\ w.id = draft.id /\ w.grants = draft.grants /\ w.write = writeGrants
          /\ w.touched = touched
      OBVIOUS
    <3> HIDE DEF w
    <3> QED
      BY <2>2, <2>4, <2>5, <3>1 DEF SaveFits
  <2> QED
    BY <2>1, <2>6 DEF EditorInv, Cached
<1>2. CASE FailSave
  BY <1>2 DEF FailSave, EditorInv, Cached, SaveFits
<1>3. CASE Finish
  <2>1. /\ saving' = None /\ draft' = None /\ touched' = FALSE /\ stale' = Cached
        /\ reading' = reading \cup OnScreen /\ UNCHANGED <<stored, held, synced, had>>
    BY <1>3 DEF Finish
  <2>2. OnScreen \subseteq DOMAIN stored
    <3>1. draft # None => draft.id \in Nat /\ draft.id <= Len(stored)
      BY FieldEditorAssumption DEF EditorInv, DraftFits, Draft
    <3>2. DOMAIN stored = 1 .. Len(stored) /\ Len(stored) \in Nat
      BY StoreIs DEF EditorInv
    <3> QED
      BY <3>1, <3>2 DEF OnScreen
  <2> QED
    BY <2>1, <2>2 DEF EditorInv, Cached, DraftFits, SaveFits
<1> QED
  BY <1>1, <1>2, <1>3

(* What a write leaves alone stays true of grants that were had before.     *)
LEMMA OthersStay ==
  ASSUME EditorInv, StoreFits(stored', had'), Grows(Len(stored), had, Len(stored'), had'),
         UNCHANGED <<held, stale, reading, draft, synced, touched>>,
         SaveFits(saving', Len(stored'), had')
  PROVE  EditorInv'
<1>1. /\ Len(stored) \in Nat /\ Len(stored') \in Nat /\ Len(stored) <= MaxRecords
      /\ DOMAIN stored = 1 .. Len(stored) /\ DOMAIN stored' = 1 .. Len(stored') /\ Len(stored) <= Len(stored')
  BY StoreIs DEF EditorInv, Grows
<1>2. CacheFits(held, Len(stored'), had') /\ DraftFits(draft, synced, touched, Len(stored'), had')
  BY <1>1, StoreGrows DEF EditorInv
<1>3. reading' \subseteq DOMAIN stored'
  BY <1>1 DEF EditorInv
<1> QED
  BY <1>2, <1>3 DEF EditorInv, Cached

LEMMA WritesKeep ==
  ASSUME EditorInv, NEW answered \in BOOLEAN, WriteRecord(answered)
  PROVE  EditorInv'
<1>1. /\ saving # None /\ saving.at = "record" /\ (saving.id = 0 => Len(stored) < MaxRecords)
      /\ stored' = (IF saving.id = 0 THEN Append(stored, Nobody) ELSE stored)
      /\ had' = (IF saving.id = 0 THEN Append(had, {Nobody}) ELSE had)
      /\ saving' = (IF ~answered THEN None
                    ELSE [saving EXCEPT !.id = IF @ = 0 THEN Len(stored') ELSE @,
                                        !.at = IF saving.write THEN "grants" ELSE "done"])
      /\ UNCHANGED <<held, stale, reading, draft, synced, touched>>
  BY DEF WriteRecord
<1>2. StoreFits(stored, had) /\ Len(stored) \in Nat /\ Len(stored) >= 1
  BY StoreIs DEF EditorInv
<1>3. /\ StoreFits(stored', had') /\ Grows(Len(stored), had, Len(stored'), had')
      /\ (saving.id = 0 => Len(stored') = Len(stored) + 1) /\ (saving.id # 0 => Len(stored') = Len(stored))
  <2>1. CASE saving.id = 0
    <3>1. stored' = Append(stored, Nobody) /\ had' = Append(had, {Nobody}) /\ Len(stored) < MaxRecords
      BY <1>1, <2>1
    <3> QED
      BY <1>2, <2>1, <3>1, AddFits
  <2>2. CASE saving.id # 0
    BY <1>1, <1>2, <2>2 DEF Grows
  <2> QED
    BY <2>1, <2>2
<1>4. /\ saving \in Saving /\ saving.id \in Nat /\ saving.id <= Len(stored)
      /\ saving.write /\ ~saving.touched => saving.id # 0 /\ saving.grants \in had[saving.id]
  BY <1>1, FieldEditorAssumption DEF EditorInv, SaveFits, Saving
<1>5. SaveFits(saving', Len(stored'), had')
  <2>1. CASE ~answered
    BY <1>1, <2>1 DEF SaveFits
  <2>2. CASE answered
    <3> DEFINE id == IF saving.id = 0 THEN Len(stored') ELSE saving.id
               at == IF saving.write THEN "grants" ELSE "done"
    <3>1. saving' = [saving EXCEPT !.id = id, !.at = at]
      BY <1>1, <2>2
    <3>2. id \in 1 .. MaxRecords /\ id <= Len(stored') /\ (saving.id # 0 => id = saving.id)
      <4>1. Len(stored') \in Nat /\ Len(stored') >= 1 /\ Len(stored') <= MaxRecords /\ MaxRecords \in Nat
        BY <1>3, StoreIs
      <4> QED
        BY <1>3, <1>4, <4>1
    <3>3. at \in {"grants", "done"} /\ (at = "grants" => saving.write)
      OBVIOUS
    <3> HIDE DEF id, at
    <3>4. /\ saving' \in Saving /\ saving'.id = id /\ saving'.at = at /\ saving'.grants = saving.grants
          /\ saving'.write = saving.write /\ saving'.touched = saving.touched
      <4>1. saving' = [at |-> at, id |-> id, grants |-> saving.grants, write |-> saving.write,
                       touched |-> saving.touched, calm |-> saving.calm]
        BY <1>4, <3>1 DEF Saving
      <4>2. id \in 0 .. MaxRecords /\ at \in {"record", "grants", "done"}
        BY <3>2, <3>3
      <4> QED
        BY <1>4, <4>1, <4>2 DEF Saving
    <3>5. saving.write /\ ~saving.touched => saving.grants \in had'[saving.id] /\ saving.id # 0
      BY <1>3, <1>4 DEF Grows
    <3>6. id # 0
      BY <3>2
    <3> QED
      BY <3>2, <3>3, <3>4, <3>5, <3>6 DEF SaveFits
  <2> QED
    BY <2>1, <2>2
<1> QED
  BY <1>1, <1>3, <1>5, OthersStay

LEMMA GrantsKeep ==
  ASSUME EditorInv, NEW answered \in BOOLEAN, WriteGrants(answered)
  PROVE  EditorInv'
<1>1. /\ saving # None /\ saving.at = "grants"
      /\ stored' = With(stored, saving.id, saving.grants) /\ had' = Had(had, saving.id, saving.grants)
      /\ saving' = (IF answered THEN [saving EXCEPT !.at = "done"] ELSE None)
      /\ UNCHANGED <<held, stale, reading, draft, synced, touched>>
  BY DEF WriteGrants, With, Had
<1>2. StoreFits(stored, had) /\ Len(stored) \in Nat /\ Len(stored) <= MaxRecords
  BY StoreIs DEF EditorInv
<1>3. saving \in Saving /\ saving.id \in 1 .. Len(stored) /\ saving.grants \in Grants
  BY <1>1, <1>2, FieldEditorAssumption DEF EditorInv, SaveFits, Saving
<1>4. /\ StoreFits(stored', had') /\ Len(stored') = Len(stored)
      /\ Grows(Len(stored), had, Len(stored'), had')
  BY <1>1, <1>2, <1>3, WriteFits
<1>5. SaveFits(saving, Len(stored'), had')
  BY <1>2, <1>4, StoreGrows DEF EditorInv
<1>6. SaveFits(saving', Len(stored'), had')
  <2>1. CASE ~answered
    BY <1>1, <2>1 DEF SaveFits
  <2>2. CASE answered
    <3>1. saving' = [saving EXCEPT !.at = "done"]
      BY <1>1, <2>2
    <3>2. /\ saving' \in Saving /\ saving'.id = saving.id /\ saving'.at = "done"
          /\ saving'.grants = saving.grants /\ saving'.write = saving.write
          /\ saving'.touched = saving.touched
      BY <1>3, <3>1 DEF Saving
    <3> QED
      BY <1>1, <1>5, <3>2 DEF SaveFits
  <2> QED
    BY <2>1, <2>2
<1> QED
  BY <1>1, <1>4, <1>6, OthersStay

LEMMA ElsewhereKeeps ==
  ASSUME EditorInv, NEW r \in Record, NEW g \in Grants, Elsewhere(r, g)
  PROVE  EditorInv'
<1>1. /\ r \in DOMAIN stored /\ stored' = With(stored, r, g) /\ had' = Had(had, r, g)
      /\ UNCHANGED <<held, stale, reading, draft, synced, touched, saving>>
  BY DEF Elsewhere, With, Had
<1>2. StoreFits(stored, had) /\ Len(stored) \in Nat /\ Len(stored) <= MaxRecords /\ r \in 1 .. Len(stored)
  BY <1>1, StoreIs DEF EditorInv
<1>3. /\ StoreFits(stored', had') /\ Len(stored') = Len(stored)
      /\ Grows(Len(stored), had, Len(stored'), had')
  BY <1>1, <1>2, WriteFits
<1>4. SaveFits(saving', Len(stored'), had')
  BY <1>1, <1>2, <1>3, StoreGrows DEF EditorInv
<1> QED
  BY <1>1, <1>3, <1>4, OthersStay

LEMMA EditorSteps ==
  ASSUME EditorInv, [EditorNext]_editorVars
  PROVE  EditorInv'
<1>1. CASE UNCHANGED editorVars
  BY <1>1 DEF editorVars, EditorInv, Cached
<1>2. CASE EditorNext
  BY <1>2, OpenKeeps, ReadsKeep, HandsKeep, SavesKeep, WritesKeep, GrantsKeep, ElsewhereKeeps DEF EditorNext
<1> QED
  BY <1>1, <1>2

LEMMA EditorAlways == EditorSpec => []EditorInv
<1> QED
  BY EditorStarts, EditorSteps, PTL DEF EditorSpec

(* A page that saves a whole set, the grants of a Field or what a role may  *)
(* do, writes what it has read with what the user edited in it, however     *)
(* late, refused or overtaken its reads are, and the capabilities on screen *)
(* end as those of the user's own role.                                     *)
THEOREM SavesAlwaysChangeWhatWasEdited == EditorSpec /\ RoleSpec => []SavesChangeWhatWasEdited
<1>1. EditorInv /\ RoleInv => SavesChangeWhatWasEdited
  BY EditorInvGives, RoleInvGives DEF SavesChangeWhatWasEdited
<1> QED
  BY <1>1, EditorAlways, RoleAlways, PTL
=============================================================================
