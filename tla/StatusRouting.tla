--------------------------- MODULE StatusRouting ---------------------------
(***************************************************************************)
(* Who holds a process instance: StatusRoutingService.route, run by a      *)
(* status change inside its transaction and by POST routing-assign outside *)
(* of any, LeadSharingService.reassign, and the routing rules, teams and   *)
(* user deactivations they race with.                                      *)
(*                                                                         *)
(* Every SQL statement another session can observe or be held up by is one *)
(* step.  A transaction keeps its writes in session[x] until Commit, as    *)
(* READ COMMITTED hides them; the locks they hold are read off the same    *)
(* record.  The calls of RoutingAssign sessions commit one by one.         *)
(*                                                                         *)
(* All rules assign one assignment type: rows of different types never     *)
(* meet.  Users are positive numbers in the order of their ids.            *)
(***************************************************************************)
EXTENDS RoutingAlgorithms, Sequences, FiniteSets

CONSTANTS
  User,           \* ids, positive numbers
  Instance,       \* process instances
  Status,
  Open,           \* the statuses whose outcome_type is 'open'
  RoundRobin,     \* the statuses whose rule uses 'round_robin'
  StatusChange,   \* sessions that run editLead with a status
  RoutingAssign,  \* sessions that serve POST /leads/:id/routing-assign
  Reassign,       \* sessions that run LeadSharingService.reassign
  FirstHolder,    \* who holds each instance when the behaviour begins
  FirstRule,      \* the rules and the Team of team pools at that time
  FirstTeam,
  PoolChoice,     \* bound: the pools and memberships administrators choose from
  MaxRequest,     \* bound: requests in one behaviour
  MaxChange,      \* bound: configuration changes in one behaviour
  NoInstance, NoStatus, NoSession

Session == StatusChange \cup RoutingAssign \cup Reassign
Transaction == StatusChange \cup Reassign   \* the others commit statement by statement
NoRow == 0

ASSUME UserAssumption == User \subseteq Nat \ {NoUser} /\ IsFiniteSet(User)
ASSUME InstanceAssumption == IsFiniteSet(Instance)
ASSUME StatusAssumption == Open \subseteq Status /\ RoundRobin \subseteq Status
ASSUME SessionAssumption ==
  /\ StatusChange \cap RoutingAssign = {}
  /\ StatusChange \cap Reassign = {}
  /\ RoutingAssign \cap Reassign = {}
ASSUME NullAssumption ==
  NoInstance \notin Instance /\ NoStatus \notin Status /\ NoSession \notin Session
ASSUME BoundAssumption == MaxRequest \in Nat /\ MaxChange \in Nat

(* status_routing_rules, without the columns that are constants here.      *)
Rules == [active : BOOLEAN, team : BOOLEAN, users : SUBSET User,
          cursor : User \cup {NoUser}]
Teams == [active : BOOLEAN, members : SUBSET User]

ASSUME FirstAssumption ==
  /\ FirstHolder \in [Instance -> User \cup {NoUser}]
  /\ FirstRule \in [Status -> Rules]
  /\ FirstTeam \in Teams
  /\ PoolChoice \subseteq SUBSET User

VARIABLES
  status,      \* process_instances.current_status_id
  assigned,    \* the assignments rows of each instance: their users, in order
  current,     \* those with is_current
  rule,        \* status_routing_rules, the row of each status
  team,        \* the Team of team pools: its active flag and its members
  active,      \* the active users
  ruleLock,    \* the transaction that holds FOR UPDATE on the rule row
  session,     \* what each request has read and not yet committed
  handovers,   \* the 'reassignment' activities of each instance, in order
  turns,       \* history: how often each rule's cursor advanced to each user
  requests,    \* requests so far (bounded by MaxRequest)
  changes      \* configuration changes so far (bounded by MaxChange)

data == <<status, assigned, current, handovers>>
config == <<rule, team, active, changes>>
vars == <<data, config, ruleLock, session, turns, requests>>

At == {"idle", "update", "rule", "choose", "previous", "end", "create",
       "advance", "record", "commit"}

Handover == [old : User \cup {NoUser}, new : User]

Locals ==
  [at : At, pi : Instance \cup {NoInstance}, to : Status \cup {NoStatus},
   team : BOOLEAN, cursor : User \cup {NoUser}, user : User \cup {NoUser},
   override : BOOLEAN, prev : Nat, ended : Nat, created : BOOLEAN, advances : BOOLEAN]

Idle ==
  [at |-> "idle", pi |-> NoInstance, to |-> NoStatus, team |-> FALSE,
   cursor |-> NoUser, user |-> NoUser, override |-> FALSE, prev |-> NoRow,
   ended |-> NoRow, created |-> FALSE, advances |-> FALSE]

TypeOK ==
  /\ status \in [Instance -> Status]
  /\ assigned \in [Instance -> Seq(User)]
  /\ current \in [Instance -> SUBSET Nat]
  /\ \A p \in Instance : current[p] \subseteq DOMAIN assigned[p]
  /\ rule \in [Status -> Rules]
  /\ team \in Teams
  /\ active \subseteq User
  /\ ruleLock \in [Status -> StatusChange \cup {NoSession}]
  /\ session \in [Session -> Locals]
  /\ handovers \in [Instance -> Seq(Handover)]
  /\ turns \in [Status -> [User -> Nat]]
  /\ requests \in Nat /\ changes \in Nat

-----------------------------------------------------------------------------
(* State functions *)

(* poolUserIds, then the active users among them.                          *)
Pool(x) == IF session[x].team THEN team.members ELSE rule[session[x].to].users
Candidates(x) == Pool(x) \cap active

(* A transaction sees its own status update.                               *)
StatusSeenBy(x, p) ==
  IF x \in StatusChange /\ p = session[x].pi THEN session[x].to ELSE status[p]

(* withLoad: the current assignments of u on instances in an open status.  *)
OpenCount(x) ==
  [u \in User |->
     Cardinality({p \in Instance :
       /\ StatusSeenBy(x, p) \in Open
       /\ \E r \in current[p] : assigned[p][r] = u})]

Pick(x) ==
  IF session[x].to \in RoundRobin
  THEN PickRoundRobin(Candidates(x), session[x].cursor)
  ELSE PickLeastLoaded(Candidates(x), OpenCount(x))

(* Locks.  An uncommitted UPDATE holds its row; an uncommitted entry of    *)
(* assignments_current_type_uq, or the uncommitted end of one, holds up    *)
(* every insert of the same key.  (Ending a row that has been ended        *)
(* already touches no entry of the index.)                                 *)
InstanceFree(x) ==
  \A y \in StatusChange \ {x} :
    session[y].pi = session[x].pi => session[y].at \in {"idle", "update"}

RowFree(x) ==
  \A y \in Transaction \ {x} :
    session[y].pi = session[x].pi => session[y].ended # session[x].prev

KeyFree(x) ==
  \A y \in Transaction \ {x} :
    session[y].pi = session[x].pi =>
      session[y].ended \notin current[session[x].pi] /\ ~session[y].created

Unlocked(s) == ruleLock[s] = NoSession

(* Mutant: a failing insert leaves the rule locked.                        *)
ReleasedByNobody(x) == ruleLock

ReleasedBy(x) == [s \in Status |-> IF ruleLock[s] = x THEN NoSession ELSE ruleLock[s]]

(* Mutant: no partial unique index.                                        *)
UniqueIgnored(x) == TRUE

(* assignments_current_type_uq: one current row per instance and type.     *)
UniqueFor(x) == current[session[x].pi] \subseteq {session[x].ended}

-----------------------------------------------------------------------------
(* The steps of a session *)

Request == requests < MaxRequest /\ requests' = requests + 1

Goto(x, where) == session' = [session EXCEPT ![x].at = where]

(* editLead: read the process instance, find that the status changes.      *)
ReadProcess(x) ==
  /\ session[x].at = "idle" /\ Request
  /\ \E p \in Instance, s \in Status :
       /\ s # status[p]
       /\ session' = [session EXCEPT ![x] =
            [Idle EXCEPT !.at = "update", !.pi = p, !.to = s]]
  /\ UNCHANGED <<data, config, ruleLock, turns>>

(* updateProcessInstanceStatus, the status_change activity, and dispatch.  *)
UpdateStatus(x) ==
  /\ session[x].at = "update" /\ InstanceFree(x)
  /\ Goto(x, "rule")
  /\ UNCHANGED <<data, config, ruleLock, turns, requests>>

(* POST routing-assign: the status is the caller's, and so is the user of  *)
(* an override.                                                            *)
RequestAssign(x) ==
  /\ session[x].at = "idle" /\ Request
  /\ \E p \in Instance, s \in Status, u \in User \cup {NoUser} :
       session' = [session EXCEPT ![x] =
         [Idle EXCEPT !.at = "rule", !.pi = p, !.to = s, !.user = u,
                      !.override = (u # NoUser)]]
  /\ UNCHANGED <<data, config, ruleLock, turns>>

(* Where a session goes that has nothing to assign.                        *)
Leave(x) ==
  IF x \in StatusChange THEN Goto(x, "commit")
  ELSE session' = [session EXCEPT ![x] = Idle]

NoRule(x) ==
  /\ session[x].at = "rule" /\ ~rule[session[x].to].active
  /\ Leave(x)
  /\ UNCHANGED <<data, config, ruleLock, turns, requests>>

(* Mutant: the lock ends with its statement in a transaction, too.         *)
LockRuleBriefly(x) ==
  /\ session[x].at = "rule" /\ rule[session[x].to].active /\ Unlocked(session[x].to)
  /\ session' = [session EXCEPT ![x].at = "choose",
                                ![x].cursor = rule[session[x].to].cursor,
                                ![x].team = rule[session[x].to].team]
  /\ UNCHANGED <<data, config, ruleLock, turns, requests>>

(* lockRule: SELECT ... FOR UPDATE and the re-read.  Outside a transaction *)
(* the lock is gone when the statement ends.                               *)
LockRule(x) ==
  LET s == session[x].to
  IN  /\ session[x].at = "rule" /\ rule[s].active /\ Unlocked(s)
      /\ ruleLock' = IF x \in Transaction THEN [ruleLock EXCEPT ![s] = x] ELSE ruleLock
      /\ session' = [session EXCEPT ![x].at = "choose",
                                    ![x].cursor = rule[s].cursor,
                                    ![x].team = rule[s].team]
      /\ UNCHANGED <<data, config, turns, requests>>

(* choose, or the override's user.                                         *)
Choose(x) ==
  /\ session[x].at = "choose"
  /\ session[x].override \/ Candidates(x) # {}
  /\ session[x].override \/ ~session[x].team \/ team.active
  /\ session' = [session EXCEPT ![x].at = "previous",
                   ![x].user = IF session[x].override THEN @ ELSE Pick(x)]
  /\ UNCHANGED <<data, config, ruleLock, turns, requests>>

(* skip: inactive_team, empty_pool or no_active_candidate.                 *)
Skip(x) ==
  /\ session[x].at = "choose" /\ ~session[x].override
  /\ Candidates(x) = {} \/ (session[x].team /\ ~team.active)
  /\ Leave(x)
  /\ UNCHANGED <<data, config, ruleLock, turns, requests>>

(* assign: read the current assignment, if there is one.                   *)
FindPrevious(x) ==
  LET p == session[x].pi
      done == IF x \in Transaction THEN "commit" ELSE "advance"
  IN  /\ session[x].at = "previous"
      /\ \/ current[p] = {} /\ Goto(x, "create")
         \/ \E r \in current[p] :
              session' = [session EXCEPT
                ![x].prev = r,
                ![x].at = IF assigned[p][r] = session[x].user THEN done ELSE "end",
                ![x].advances = (assigned[p][r] = session[x].user)]
      /\ UNCHANGED <<data, config, ruleLock, turns, requests>>

(* reassign: the current assignment must exist and the user be active.     *)
ReadAssignment(x) ==
  /\ session[x].at = "idle" /\ Request
  /\ \E p \in Instance, u \in active : \E r \in current[p] :
       session' = [session EXCEPT ![x] =
         [Idle EXCEPT !.at = "end", !.pi = p, !.user = u, !.prev = r]]
  /\ UNCHANGED <<data, config, ruleLock, turns>>

(* UPDATE assignments SET is_current = false, by id.                       *)
End(x) ==
  /\ session[x].at = "end" /\ RowFree(x)
  /\ session' = [session EXCEPT ![x].at = "create",
                   ![x].ended = IF x \in Transaction THEN session[x].prev ELSE NoRow]
  /\ current' = IF x \in Transaction THEN current
                ELSE [current EXCEPT ![session[x].pi] = @ \ {session[x].prev}]
  /\ UNCHANGED <<status, assigned, handovers, config, ruleLock, turns, requests>>

(* The row x inserts becomes visible: at its commit, or at once.           *)
InsertRow(x, ended) ==
  LET p == session[x].pi
  IN  /\ assigned' = [assigned EXCEPT ![p] = Append(@, session[x].user)]
      /\ current' = [current EXCEPT ![p] = (@ \ ended) \cup {Len(assigned[p]) + 1}]

(* Mutant: the activity does not name the previous holder.                 *)
RecordedBlank(x) ==
  [handovers EXCEPT ![session[x].pi] =
     Append(@, [old |-> NoUser, new |-> session[x].user])]

Recorded(x) ==
  LET p == session[x].pi
      old == IF session[x].prev = NoRow THEN NoUser ELSE assigned[p][session[x].prev]
  IN  [handovers EXCEPT ![p] = Append(@, [old |-> old, new |-> session[x].user])]

(* INSERT the replacement.  In a transaction the cursor update, the        *)
(* activity, the grace grant and the dispatch follow without waiting.      *)
Create(x) ==
  /\ session[x].at = "create" /\ KeyFree(x) /\ UniqueFor(x)
  /\ IF x \in Transaction
     THEN /\ session' = [session EXCEPT ![x].at = "commit", ![x].created = TRUE,
                                        ![x].advances = (x \in StatusChange)]
          /\ UNCHANGED <<assigned, current>>
     ELSE /\ Goto(x, "advance")
          /\ InsertRow(x, {})
  /\ UNCHANGED <<status, handovers, config, ruleLock, turns, requests>>

(* The insert meets assignments_current_type_uq: the request fails, and    *)
(* what was not committed is gone.                                         *)
CreateConflicts(x) ==
  /\ session[x].at = "create" /\ KeyFree(x) /\ ~UniqueFor(x)
  /\ session' = [session EXCEPT ![x] = Idle]
  /\ ruleLock' = ReleasedBy(x)
  /\ UNCHANGED <<data, config, turns, requests>>

(* advanceCursor of rule s to user u.                                      *)
AdvanceCursor(s, u) ==
  /\ rule' = [rule EXCEPT ![s].cursor = u]
  /\ turns' = [turns EXCEPT ![s][u] = @ + 1]

(* advanceCursor of routing-assign; a holder who stays ends the call.      *)
Advance(x) ==
  /\ session[x].at = "advance" /\ Unlocked(session[x].to)
  /\ AdvanceCursor(session[x].to, session[x].user)
  /\ session' = [session EXCEPT ![x] =
       IF session[x].advances THEN Idle ELSE [session[x] EXCEPT !.at = "record"]]
  /\ UNCHANGED <<data, team, active, changes, ruleLock, requests>>

(* The 'reassignment' activity of routing-assign.                          *)
Record(x) ==
  /\ session[x].at = "record"
  /\ handovers' = Recorded(x)
  /\ session' = [session EXCEPT ![x] = Idle]
  /\ UNCHANGED <<status, assigned, current, config, ruleLock, turns, requests>>

(* A transaction's writes become visible together and its locks are freed. *)
Commit(x) ==
  LET t == session[x]
  IN  /\ t.at = "commit"
      /\ status' = IF x \in StatusChange THEN [status EXCEPT ![t.pi] = t.to] ELSE status
      /\ IF t.created
         THEN InsertRow(x, {t.ended}) /\ handovers' = Recorded(x)
         ELSE UNCHANGED <<assigned, current, handovers>>
      /\ IF t.advances THEN AdvanceCursor(t.to, t.user) ELSE UNCHANGED <<rule, turns>>
      /\ session' = [session EXCEPT ![x] = Idle]
      /\ ruleLock' = ReleasedBy(x)
      /\ UNCHANGED <<team, active, changes, requests>>

(* A statement fails, a consumer throws, or the process dies.              *)
Fail(x) ==
  /\ session[x].at # "idle"
  /\ session' = [session EXCEPT ![x] = Idle]
  /\ ruleLock' = ReleasedBy(x)
  /\ UNCHANGED <<data, config, turns, requests>>

-----------------------------------------------------------------------------
(* Configuration.  Writes of a rule row wait for its lock.                 *)

Change == changes < MaxChange /\ changes' = changes + 1

(* RoutingRuleService.replace: the cursor is reset for a Team pool only.   *)
ReplaceRule(s, forTeam, users) ==
  /\ Change /\ Unlocked(s)
  /\ IF forTeam THEN users = {} /\ team.active ELSE users # {} /\ users \subseteq active
  /\ rule' = [rule EXCEPT ![s] =
       [active |-> TRUE, team |-> forTeam, users |-> users,
        cursor |-> IF forTeam THEN NoUser ELSE @.cursor]]
  /\ UNCHANGED <<data, team, active, ruleLock, session, turns, requests>>

DeactivateRule(s) ==
  /\ Change /\ rule[s].active /\ Unlocked(s)
  /\ rule' = [rule EXCEPT ![s].active = FALSE]
  /\ UNCHANGED <<data, team, active, ruleLock, session, turns, requests>>

(* Team membership and the Team's active flag change without a rule lock.  *)
ChangeTeam(isActive, members) ==
  /\ Change
  /\ team' = [active |-> isActive, members |-> members]
  /\ UNCHANGED <<data, rule, active, ruleLock, session, turns, requests>>

(* deactivateUser ends the user's memberships; a rule's users stay.        *)
DeactivateUser(u) ==
  /\ Change /\ u \in active
  /\ active' = active \ {u}
  /\ team' = [team EXCEPT !.members = @ \ {u}]
  /\ UNCHANGED <<data, rule, ruleLock, session, turns, requests>>

-----------------------------------------------------------------------------
(* The instances as createLead left them: a holder it assigned counts as   *)
(* the first handover.                                                     *)
Init ==
  /\ status \in [Instance -> Status]
  /\ assigned = [p \in Instance |->
       IF FirstHolder[p] = NoUser THEN <<>> ELSE <<FirstHolder[p]>>]
  /\ current = [p \in Instance |-> DOMAIN assigned[p]]
  /\ handovers = [p \in Instance |->
       IF FirstHolder[p] = NoUser THEN <<>>
       ELSE <<[old |-> NoUser, new |-> FirstHolder[p]]>>]
  /\ rule = FirstRule
  /\ team = FirstTeam
  /\ active = User
  /\ ruleLock = [s \in Status |-> NoSession]
  /\ session = [x \in Session |-> Idle]
  /\ turns = [s \in Status |-> [u \in User |-> 0]]
  /\ requests = 0 /\ changes = 0

ChangeStatus(x) == ReadProcess(x) \/ UpdateStatus(x)

Route(x) == NoRule(x) \/ LockRule(x) \/ Choose(x) \/ Skip(x) \/ FindPrevious(x)

Supersede(x) == End(x) \/ Create(x) \/ CreateConflicts(x)

Configure ==
  \/ \E s \in Status :
       \/ DeactivateRule(s)
       \/ \E forTeam \in BOOLEAN, users \in PoolChoice : ReplaceRule(s, forTeam, users)
  \/ \E isActive \in BOOLEAN, members \in PoolChoice : ChangeTeam(isActive, members)
  \/ \E u \in User : DeactivateUser(u)

Next ==
  \/ \E x \in StatusChange : ChangeStatus(x)
  \/ \E x \in RoutingAssign : RequestAssign(x) \/ Advance(x) \/ Record(x)
  \/ \E x \in Reassign : ReadAssignment(x)
  \/ \E x \in StatusChange \cup RoutingAssign : Route(x)
  \/ \E x \in Transaction : Commit(x)
  \/ \E x \in Session : Supersede(x) \/ Fail(x)
  \/ Configure

Spec == Init /\ [][Next]_vars

(* A request that is being served goes on until it ends: the runtime and   *)
(* the database run every statement that does not wait for a lock.  Users  *)
(* and administrators owe nothing, and nothing has to fail.                *)
Proceed(x) ==
  \/ UpdateStatus(x) \/ Route(x) \/ Supersede(x)
  \/ Advance(x) \/ Record(x) \/ Commit(x)

Fairness == \A x \in Session : WF_vars(Proceed(x))

FairSpec == Spec /\ Fairness

-----------------------------------------------------------------------------
(* Properties *)

(* Never two live assignments: at most one current row per instance, with  *)
(* status changes, manual assignments and reassignments racing.            *)
AtMostOneCurrent ==
  \A p \in Instance : \A r1, r2 \in current[p] : r1 = r2

(* A lead that has a holder is never seen without one: superseding an      *)
(* assignment never leaves the old one ended and no new one, whatever      *)
(* fails and whoever gets there first.                                     *)
NeverUnheld ==
  [][\A p \in Instance : current[p] # {} => current'[p] # {}]_vars

(* What is left of it: only a routing-assign, between the UPDATE that ends *)
(* the row it read and the INSERT of another, leaves an instance unheld.   *)
ManualEndsUnhold ==
  [][\A p \in Instance : current[p] # {} /\ current'[p] = {} =>
       \E x \in RoutingAssign :
         /\ session[x].at = "end" /\ session'[x].at = "create"
         /\ session[x].pi = p /\ current[p] = {session[x].prev}]_vars

(* The activities of an instance that no routing-assign is working on tell *)
(* its whole history: each names as previous holder the one the activity   *)
(* before it named as new, and the last one names the current holder.      *)
Handled(p) == \A x \in RoutingAssign : session[x].pi # p
HandoversChain ==
  \A p \in Instance : Handled(p) =>
    /\ \A i \in 2..Len(handovers[p]) : handovers[p][i].old = handovers[p][i - 1].new
    /\ handovers[p] # <<>> =>
         \E r \in current[p] : assigned[p][r] = handovers[p][Len(handovers[p])].new

(* The transactions of status changes and reassignments implement custody: *)
(* whatever they read before, whatever fails and however many run at once,  *)
(* an instance goes from the user who holds it to another in one step, told *)
(* as it happened.                                                         *)
HolderOf(p) ==
  IF current[p] = {} THEN NoUser ELSE assigned[p][CHOOSE r \in current[p] : TRUE]

Kept == INSTANCE AssignmentCustody
          WITH holder <- [p \in Instance |-> HolderOf(p)], told <- handovers

ImplementsCustody == Kept!Custody

(* Routing through a rule takes place on the rule as it is: from the lock  *)
(* to the end of the session nobody moves its cursor, re-points it or      *)
(* deactivates it, so no two sessions pick from the same position.         *)
Routed == {"choose", "previous", "end", "create", "commit"}
CursorIsFresh ==
  \A x \in StatusChange \cup RoutingAssign :
    LET t == session[x]
    IN  t.at \in Routed \ {"commit"} /\ ~t.override =>
          rule[t.to].active /\ rule[t.to].cursor = t.cursor /\ rule[t.to].team = t.team

(* An unchanged round-robin pool shares its turns evenly, however many     *)
(* status changes run at once, lose a race or fail half-way.               *)
TurnsAreEven ==
  changes = 0 =>
    \A s \in RoundRobin : \A u, v \in FirstRule[s].users :
      turns[s][u] <= turns[s][v] + 1

(* Every request ends: rule locks, row locks and the unique index never    *)
(* leave sessions waiting for one another.                                 *)
EveryRequestEnds ==
  \A x \in Session : session[x].at # "idle" ~> session[x].at = "idle"
=============================================================================
