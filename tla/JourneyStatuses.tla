-------------------------- MODULE JourneyStatuses --------------------------
(***************************************************************************)
(* The statuses of one journey: which are active, which is the default for  *)
(* new leads, and what becomes of the process instances when one is        *)
(* retired (ConfigurationService.setDefaultStatus and deactivateStatus),   *)
(* while users move instances from status to status.                       *)
(*                                                                         *)
(* Every request is a READ COMMITTED transaction: its statements are steps *)
(* and its writes, kept in session[x], become visible at its commit.  The  *)
(* activities a retirement writes are a Promise.all: one fiber for each    *)
(* instance, all on the transaction's one connection, their statements     *)
(* interleaved.  The rule lock keeps other transactions out, not the       *)
(* fibers of its own.                                                      *)
(*                                                                         *)
(* Routing is the round robin of StatusRouting, over a pool that does not  *)
(* change here.                                                            *)
(***************************************************************************)
EXTENDS RoutingAlgorithms

CONSTANTS
  Status,
  Instance,     \* process instances
  User,         \* the pool of every rule, positive numbers
  Ruled,        \* the statuses with a routing rule
  SetDefault,   \* sessions that run setDefaultStatus
  Retire,       \* sessions that run deactivateStatus
  Change,       \* sessions that run createLead, moveJourney or editLead
  FirstStatus,  \* where the instances are when the behaviour begins ...
  Outside,      \* ... but those that have not entered the journey yet
  FirstDefaults, \* bound: the defaults there may be at first, NoStatus for none
  MaxRequest,   \* bound: requests in one behaviour
  NoStatus, NoInstance

Session == SetDefault \cup Retire \cup Change

ASSUME UserAssumption == User \subseteq Nat \ {NoUser} /\ IsFiniteSet(User) /\ User # {}
ASSUME RuledAssumption == Ruled \subseteq Status
ASSUME SessionAssumption ==
  SetDefault \cap Retire = {} /\ SetDefault \cap Change = {} /\ Retire \cap Change = {}
ASSUME NullAssumption == NoStatus \notin Status /\ NoInstance \notin Instance
ASSUME FirstAssumption == FirstStatus \in Status /\ Outside \subseteq Instance
ASSUME BoundAssumption == FirstDefaults \subseteq Status \cup {NoStatus} /\ MaxRequest \in Nat

VARIABLES
  live,      \* the active statuses
  default,   \* those with is_default_on_create
  status,    \* current_status_id of an instance, NoStatus before it enters the journey
  told,      \* the status that the last activity of an instance names as the new one
  cursor,    \* the cursors of the rules
  turns,     \* history: how often each rule picked each user
  bulk,      \* history: a retirement of several instances has committed
  chosen,    \* history: the status that the last setDefaultStatus made the default
  overtaken, \* history: the defaults were not as that request had read them
  session,   \* what each request has read and not yet committed
  requests   \* requests so far (bounded by MaxRequest)

rules == <<cursor, turns, bulk>>
defaults == <<default, chosen, overtaken>>
vars == <<live, defaults, status, told, rules, session, requests>>

At == {"idle", "replacement", "match", "move", "fan", "deactivate",
       "unset", "set", "update", "commit"}

(* from: the status retired, or the one an instance was read in; to: the    *)
(* replacement, the new default or the target of a change.                 *)
Locals ==
  [at : At, from : Status \cup {NoStatus}, to : Status \cup {NoStatus},
   pi : Instance \cup {NoInstance}, listed : SUBSET Instance, matched : SUBSET Instance,
   moved : SUBSET Instance, siblings : SUBSET Status, already : BOOLEAN,
   pick : [Instance -> User \cup {NoUser}], done : SUBSET Instance,
   cursor : User \cup {NoUser}, turns : [User -> Nat]]

Idle ==
  [at |-> "idle", from |-> NoStatus, to |-> NoStatus, pi |-> NoInstance,
   listed |-> {}, matched |-> {}, moved |-> {}, siblings |-> {}, already |-> FALSE,
   pick |-> [p \in Instance |-> NoUser], done |-> {},
   cursor |-> NoUser, turns |-> [u \in User |-> 0]]

TypeOK ==
  /\ live \in SUBSET Status
  /\ default \in SUBSET Status
  /\ status \in [Instance -> Status \cup {NoStatus}]
  /\ told \in [Instance -> Status \cup {NoStatus}]
  /\ cursor \in [Ruled -> User \cup {NoUser}]
  /\ turns \in [Ruled -> [User -> Nat]]
  /\ bulk \in BOOLEAN
  /\ chosen \in Status \cup {NoStatus}
  /\ overtaken \in BOOLEAN
  /\ session \in [Session -> Locals]
  /\ requests \in 0 .. MaxRequest

-----------------------------------------------------------------------------
(* Locks, all held until the end of the transaction. *)

(* The process_instances rows that y has updated. *)
RowsOf(y) ==
  IF y \in Retire THEN session[y].moved
  ELSE IF session[y].at = "commit" THEN {session[y].pi} ELSE {}

RowsFree(x, P) == \A y \in (Retire \cup Change) \ {x} : RowsOf(y) \cap P = {}

(* The statuses rows that y has updated. *)
StatusesOf(y) ==
  CASE y \in SetDefault /\ session[y].at \in {"set", "commit"} ->
         session[y].siblings \cup
           (IF session[y].at = "commit" /\ ~session[y].already THEN {session[y].to} ELSE {})
    [] y \in Retire /\ session[y].at = "commit" -> {session[y].from}
    [] OTHER -> {}

StatusesFree(x, S) == \A y \in (Retire \cup SetDefault) \ {x} : StatusesOf(y) \cap S = {}

(* Mutant: routing reads the cursor without FOR UPDATE. *)
RuleUnlocked(x, s) == TRUE

(* Mutant: routing runs on another connection than its transaction. *)
RuleFreeOfAll(x, s) ==
  \A y \in Retire :
    ~ (session[y].to = s /\ \E p \in Instance : session[y].pick[p] # NoUser)

(* lockRule. *)
RuleFree(x, s) ==
  \A y \in Retire \ {x} :
    ~ (session[y].to = s /\ \E p \in Instance : session[y].pick[p] # NoUser)

-----------------------------------------------------------------------------
Begin(x, s) ==
  /\ session[x].at = "idle" /\ requests < MaxRequest
  /\ requests' = requests + 1
  /\ session' = [session EXCEPT ![x] = s]
  /\ UNCHANGED <<live, defaults, status, told, rules>>

(* A statement that only x can observe so far. *)
Goes(x, s) ==
  /\ session' = [session EXCEPT ![x] = s]
  /\ UNCHANGED <<live, defaults, status, told, rules, requests>>

(* deactivateStatus.  Instances that are there need a replacement. *)
ListInstances(x) ==
  \E s \in Status, r \in Status \cup {NoStatus} :
    LET found == {p \in Instance : status[p] = s}
    IN  /\ found = {} \/ r # NoStatus
        /\ Begin(x, [Idle EXCEPT !.at = IF r = NoStatus THEN "deactivate" ELSE "replacement",
                                 !.from = s, !.to = r, !.listed = found])

CheckReplacement(x) ==
  /\ session[x].at = "replacement"
  /\ Goes(x, IF session[x].to \in live THEN [session[x] EXCEPT !.at = "match"] ELSE Idle)

(* reassignProcessInstances: an UPDATE takes the rows that are there when   *)
(* it starts, waits for their locks and leaves those alone that have moved. *)
MatchRows(x) ==
  /\ session[x].at = "match"
  /\ Goes(x, [session[x] EXCEPT !.at = "move",
                                !.matched = {p \in Instance : status[p] = session[x].from}])

MoveRows(x) ==
  LET t == session[x]
  IN  /\ t.at = "move" /\ RowsFree(x, t.matched)
      /\ Goes(x, [t EXCEPT
           !.at = IF t.listed # {} /\ t.to \in Ruled THEN "fan" ELSE "deactivate",
           !.moved = {p \in t.matched : status[p] = t.from}])

(* The fibers.  Each reads the rule under its lock and picks ...            *)
ReadRule(x, p) ==
  LET t == session[x]
      seen == IF t.done = {} THEN cursor[t.to] ELSE t.cursor
  IN  /\ t.at = "fan" /\ p \in t.listed /\ t.pick[p] = NoUser
      /\ RuleFree(x, t.to)
      /\ Goes(x, [t EXCEPT !.pick[p] = PickRoundRobin(User, seen)])

(* ... and then assigns and advances the cursor. *)
Assign(x, p) ==
  LET t == session[x]
  IN  /\ t.at = "fan" /\ t.pick[p] # NoUser /\ p \notin t.done
      /\ Goes(x, [t EXCEPT
           !.done = @ \cup {p}, !.cursor = t.pick[p], !.turns[t.pick[p]] = @ + 1,
           !.at = IF t.listed = t.done \cup {p} THEN "deactivate" ELSE @])

(* UPDATE statuses SET active = false, and its trigger: an instance that is *)
(* seen in the status raises an exception.                                  *)
SeenIn(x, p) == IF p \in session[x].moved THEN session[x].to ELSE status[p]

Deactivate(x) ==
  LET t == session[x]
      inUse == t.from \in live /\ \E p \in Instance : SeenIn(x, p) = t.from
  IN  /\ t.at = "deactivate" /\ StatusesFree(x, {t.from})
      /\ Goes(x, IF inUse THEN Idle ELSE [t EXCEPT !.at = "commit"])

CommitRetire(x) ==
  LET t == session[x]
  IN  /\ t.at = "commit"
      /\ live' = live \ {t.from}
      /\ status' = [p \in Instance |-> SeenIn(x, p)]
      /\ told' = [p \in Instance |-> IF p \in t.listed THEN t.to ELSE told[p]]
      /\ IF t.done # {}
         THEN /\ cursor' = [cursor EXCEPT ![t.to] = t.cursor]
              /\ turns' = [turns EXCEPT ![t.to] = [u \in User |-> @[u] + t.turns[u]]]
         ELSE UNCHANGED <<cursor, turns>>
      /\ bulk' = (bulk \/ \E p, q \in t.listed : p # q)
      /\ session' = [session EXCEPT ![x] = Idle]
      /\ UNCHANGED <<defaults, requests>>

-----------------------------------------------------------------------------
(* setDefaultStatus.  The other defaults are read once and then unset; a    *)
(* status that was the default already is not written.                     *)
ReadDefaults(x) ==
  \E s \in live :
    Begin(x, [Idle EXCEPT !.at = "unset", !.to = s, !.siblings = default \ {s},
                          !.already = (s \in default)])

UnsetSiblings(x) ==
  LET t == session[x]
  IN  /\ t.at = "unset" /\ StatusesFree(x, t.siblings)
      /\ Goes(x, [t EXCEPT !.at = IF t.already THEN "commit" ELSE "set"])

SetStatus(x) ==
  LET t == session[x]
  IN  /\ t.at = "set" /\ StatusesFree(x, {t.to})
      /\ Goes(x, [t EXCEPT !.at = "commit"])

(* The defaults as the request read them. *)
ReadAs(t) == t.siblings \cup (IF t.already THEN {t.to} ELSE {})

(* Mutant: the siblings are left alone. *)
CommitDefaultOnly(x) ==
  LET t == session[x]
  IN  /\ t.at = "commit"
      /\ default' = default \cup {t.to}
      /\ chosen' = t.to
      /\ overtaken' = (default # ReadAs(t))
      /\ session' = [session EXCEPT ![x] = Idle]
      /\ UNCHANGED <<live, status, told, rules, requests>>

CommitDefault(x) ==
  LET t == session[x]
  IN  /\ t.at = "commit"
      /\ default' = (default \ t.siblings) \cup (IF t.already THEN {} ELSE {t.to})
      /\ chosen' = t.to
      /\ overtaken' = (default # ReadAs(t))
      /\ session' = [session EXCEPT ![x] = Idle]
      /\ UNCHANGED <<live, status, told, rules, requests>>

-----------------------------------------------------------------------------
(* An instance enters the journey or a status: the target is checked first. *)
ReadTarget(x) ==
  \E p \in Instance, s \in live :
    /\ s # status[p]
    /\ Begin(x, [Idle EXCEPT !.at = "update", !.pi = p, !.from = status[p], !.to = s])

(* The row is inserted, or updated by its id. *)
WriteRow(x) ==
  LET t == session[x]
  IN  /\ t.at = "update" /\ RowsFree(x, {t.pi})
      /\ Goes(x, IF t.from = NoStatus /\ status[t.pi] # NoStatus
                 THEN Idle ELSE [t EXCEPT !.at = "commit"])

(* A status change is routed under the rule's lock; entering is not.        *)
CommitChange(x) ==
  LET t == session[x]
  IN  /\ t.at = "commit"
      /\ status' = [status EXCEPT ![t.pi] = t.to]
      /\ told' = [told EXCEPT ![t.pi] = t.to]
      /\ IF t.from # NoStatus /\ t.to \in Ruled
         THEN /\ RuleFree(x, t.to)
              /\ LET u == PickRoundRobin(User, cursor[t.to])
                 IN  /\ cursor' = [cursor EXCEPT ![t.to] = u]
                     /\ turns' = [turns EXCEPT ![t.to][u] = @ + 1]
         ELSE UNCHANGED <<cursor, turns>>
      /\ session' = [session EXCEPT ![x] = Idle]
      /\ UNCHANGED <<live, defaults, bulk, requests>>

-----------------------------------------------------------------------------
(* A statement fails, the transaction times out, or the process dies. *)
Fail(x) == session[x].at # "idle" /\ Goes(x, Idle)

Init ==
  /\ live = Status
  /\ chosen \in FirstDefaults
  /\ default = {chosen} \ {NoStatus}
  /\ overtaken = FALSE
  /\ status = [p \in Instance |-> IF p \in Outside THEN NoStatus ELSE FirstStatus]
  /\ told = status
  /\ cursor = [s \in Ruled |-> NoUser]
  /\ turns = [s \in Ruled |-> [u \in User |-> 0]]
  /\ bulk = FALSE
  /\ session = [x \in Session |-> Idle]
  /\ requests = 0

Retiring(x) ==
  \/ CheckReplacement(x) \/ MatchRows(x) \/ MoveRows(x)
  \/ \E p \in Instance : ReadRule(x, p) \/ Assign(x, p)
  \/ Deactivate(x) \/ CommitRetire(x)

Setting(x) == UnsetSiblings(x) \/ SetStatus(x) \/ CommitDefault(x)

Changing(x) == WriteRow(x) \/ CommitChange(x)

Next ==
  \/ \E x \in Retire : ListInstances(x) \/ Retiring(x)
  \/ \E x \in SetDefault : ReadDefaults(x) \/ Setting(x)
  \/ \E x \in Change : ReadTarget(x) \/ Changing(x)
  \/ \E x \in Session : Fail(x)

Spec == Init /\ [][Next]_vars

(* Two requests that set the default may wait for each other's rows: one    *)
(* has unset what the other sets, and the other way round.  The database    *)
(* ends a transaction of such a circle.                                     *)
Awaited(x) ==
  CASE session[x].at = "unset" -> session[x].siblings
    [] session[x].at = "set" -> {session[x].to}
    [] OTHER -> {}

WaitsFor(x, y) == x # y /\ Awaited(x) \cap StatusesOf(y) # {}

DeadlockDetected(x) ==
  /\ \E C \in SUBSET SetDefault : x \in C /\ \A y \in C : \E z \in C : WaitsFor(y, z)
  /\ Fail(x)

(* What has begun goes on: the runtime and the database run every statement *)
(* that does not wait for a lock.  Nobody owes a request.                   *)
Proceed(x) ==
  \/ x \in Retire /\ Retiring(x)
  \/ x \in SetDefault /\ Setting(x)
  \/ x \in Change /\ Changing(x)

FairSpec ==
  /\ Spec
  /\ \A x \in Session : WF_vars(Proceed(x))
  /\ \A x \in SetDefault : WF_vars(DeadlockDetected(x))

-----------------------------------------------------------------------------
(* Properties.                                                              *)

(* setDefaultStatus: "the invariant createLead relies on - at most one      *)
(* default per Journey - always holds".  Two requests at a time break it.   *)
OneDefault == \A s, r \in default : s = r

(* What is left of it: the default is the status that was chosen last, and  *)
(* no other, whatever went wrong before, unless the defaults had changed    *)
(* between that request's reading and its commit.                           *)
LastChoiceStands == overtaken \/ default = {chosen} \ {NoStatus}

(* endpoints.md: deactivation of a status "is blocked while active process  *)
(* instances use the Status": no instance is ever in an inactive one.       *)
InUseIsActive == \A p \in Instance : status[p] # NoStatus => status[p] \in live

(* endpoints.md: a retirement writes "one activity_logs status_change row   *)
(* per affected lead": a timeline ends with the status the instance is in.  *)
TimelinesAreTrue == told = status

(* ADR-0015: a rule's cursor is shared mutable state that is only used      *)
(* under the rule's lock, so that round robin goes round: no user is ahead  *)
(* of another by more than one turn.                                        *)
TurnsAreEven ==
  \A s \in Ruled : \A u, v \in User : turns[s][u] <= turns[s][v] + 1

(* So it is as long as retirements move one instance at a time, with        *)
(* status changes through the same rule, races and failures.                *)
SinglesTakeTurns == ~bulk => TurnsAreEven

(* Every request ends: but for two that set the default, which the database *)
(* tells apart, the locks on instances, rules and statuses never leave the  *)
(* requests waiting for one another.                                        *)
EveryRequestEnds == \A x \in Session : session[x].at # "idle" ~> session[x].at = "idle"
=============================================================================
