------------------------- MODULE ConfigurationPurge -------------------------
(***************************************************************************)
(* Deactivating a configuration entity and then purging it                 *)
(* (configuration/service.ts, configuration/purge.ts, purge-service.ts),   *)
(* while other requests write rows that refer to it.                       *)
(*                                                                         *)
(* A row is one reference or more held in one relation; relations with a   *)
(* foreign key are guarded by the database, relations inside a JSON column *)
(* are not.  Which relations refuse a purge and which go with it is the    *)
(* descriptor table of purge.ts, entity kind by entity kind.               *)
(***************************************************************************)
EXTENDS Naturals, Sequences, FiniteSets

CONSTANTS
  Entity,         \* journeys, statuses, fields, services, teams, roles, notification rules
  KindOf,         \* the table an entity is in
  Home,           \* the journey a status belongs to
  SystemDefault,  \* roles with is_system_default
  Row,            \* rows there may be: a relation and the entities it names
  Grants,         \* role_journey_access rows a new journey gets
  Session,        \* request handlers that run at the same time
  NoEntity, NoRow, NoSession

Kind == {"journey", "status", "field", "service", "team", "role", "notification_rule"}

(* purgeDescriptors: the relations that refuse a purge, in the order they   *)
(* are counted, and those whose rows are snapshotted and go with the entity. *)
JourneyPurge ==
  [blockers |-> <<"statuses", "process_instances", "campaigns", "import_jobs">>,
   cascades |-> {"role_journey_access", "journey_services", "field_journey_settings"}]
StatusPurge ==
  [blockers |-> <<"process_instances", "tasks", "campaigns", "status_routing_rules",
                  "field_journey_settings">>,
   cascades |-> {"status_routing_permissions"}]
FieldPurge ==
  [blockers |-> <<"leads", "attachments", "campaign_filters", "import_jobs">>,
   cascades |-> {"field_journey_settings", "field_visibility"}]
ServicePurge == [blockers |-> <<"lead_services">>, cascades |-> {"journey_services"}]
TeamPurge == [blockers |-> <<"status_routing_rules">>, cascades |-> {"team_members"}]
RolePurge ==
  [blockers |-> <<"users">>,
   cascades |-> {"role_permissions", "role_journey_access", "field_visibility",
                 "status_routing_permissions", "resource_visibility"}]
RulePurge ==
  [blockers |-> <<"notifications">>, cascades |-> {"notification_rule_recipients"}]

Descriptor ==
  [journey |-> JourneyPurge, status |-> StatusPurge, field |-> FieldPurge,
   service |-> ServicePurge, team |-> TeamPurge, role |-> RolePurge,
   notification_rule |-> RulePurge]

Counted ==
  {"statuses", "process_instances", "campaigns", "import_jobs", "tasks", "status_routing_rules",
   "field_journey_settings", "leads", "attachments", "campaign_filters", "lead_services",
   "users", "notifications"}

Blockers(e) == Descriptor[KindOf[e]].blockers
Cascades(e) == Descriptor[KindOf[e]].cascades

(* References the database knows nothing of; the last three are in no      *)
(* purge descriptor.                                                        *)
Json == {"leads", "campaign_filters", "import_jobs", "formulas", "rule_scopes", "email_variables"}

Keyed(r) == r.rel \notin Json

(* The relations that name an entity of the kind: by a foreign key, a      *)
(* journey's statuses aside, or in a JSON column.                          *)
NamedBy ==
  [journey |-> {"process_instances", "campaigns", "import_jobs", "role_journey_access",
                "journey_services", "field_journey_settings"},
   status |-> {"process_instances", "tasks", "campaigns", "status_routing_rules",
               "status_routing_permissions", "field_journey_settings"},
   field |-> {"leads", "attachments", "field_journey_settings", "field_visibility"} \cup Json,
   service |-> {"lead_services", "journey_services"},
   team |-> {"status_routing_rules", "team_members"},
   role |-> {"users", "role_permissions", "role_journey_access", "field_visibility",
             "status_routing_permissions", "resource_visibility"},
   notification_rule |-> {"notifications", "notification_rule_recipients"}]

(* Rows whose writer first reads that what they name is active ...         *)
CheckedFirst == {"process_instances", "leads", "import_jobs", "formulas", "notifications"}
(* ... and those that are simply written; the other relations are written  *)
(* by no request of this module.                                           *)
Unchecked == {"field_journey_settings", "journey_services", "field_visibility", "campaigns",
              "campaign_filters", "rule_scopes", "status_routing_rules"}
Switchable == {"field_journey_settings", "journey_services"}

ASSUME EntityAssumption ==
  /\ KindOf \in [Entity -> Kind] /\ SystemDefault \subseteq Entity /\ NoEntity \notin Entity
  /\ \A e \in Entity : IF KindOf[e] = "status" THEN Home[e] \in Entity /\ KindOf[Home[e]] = "journey"
                                               ELSE Home[e] = NoEntity
ASSUME RowAssumption ==
  /\ \A r \in Row : r.refs \subseteq Entity /\ \A e \in r.refs : r.rel \in NamedBy[KindOf[e]]
  /\ Grants \subseteq Row /\ \A r \in Grants : r.rel = "role_journey_access"
  /\ NoRow \notin Row
ASSUME SessionAssumption == NoSession \notin Session

VARIABLES
  life,      \* what became of an entity
  rows,      \* the rows there are
  retired,   \* those of them with active = false
  lock,      \* the purge that holds a row FOR UPDATE
  session,   \* requests
  snapshot,  \* history: what the audit row of a purge says went with the entity
  removed,   \* history: what went with it
  late,      \* history: rows written by a request that an entity's end overtook
  between,   \* history: rows written between a count that would see them and its write
  raw        \* history: entities whose purge ended in a foreign-key error

vars == <<life, rows, retired, lock, session, snapshot, removed, late, between, raw>>

Idle == [at |-> "idle", entity |-> NoEntity, row |-> NoRow, todo |-> <<>>,
         blocked |-> FALSE, overtaken |-> FALSE]

SessionType ==
  [at : {"idle", "read", "counted", "locked", "counting", "listed"},
   entity : Entity \cup {NoEntity}, row : Row \cup {NoRow},
   todo : Seq(Counted), blocked : BOOLEAN, overtaken : BOOLEAN]

TypeOK ==
  /\ life \in [Entity -> {"none", "active", "inactive", "gone"}]
  /\ rows \subseteq Row /\ retired \subseteq rows
  /\ \A r \in retired : r.rel \in Switchable \cup {"process_instances"}
  /\ lock \in [Entity -> Session \cup {NoSession}]
  /\ session \in [Session -> SessionType]
  /\ snapshot \in [Entity -> SUBSET Row] /\ removed \in [Entity -> SUBSET Row]
  /\ late \subseteq Row /\ between \subseteq Row /\ raw \subseteq Entity

Stored(e) == life[e] \in {"active", "inactive"}

Init ==
  /\ life \in [Entity -> {"none", "active", "inactive", "gone"}] /\ rows \in SUBSET Row
  /\ retired = {}
  /\ \A r \in rows : \A e \in r.refs : Stored(e) /\ (r.rel \in CheckedFirst => life[e] = "active")
  /\ \A e \in Entity : Home[e] # NoEntity /\ Stored(e) => Stored(Home[e])
  /\ lock = [e \in Entity |-> NoSession] /\ session = [s \in Session |-> Idle]
  /\ snapshot = [e \in Entity |-> {}] /\ removed = [e \in Entity |-> {}]
  /\ late = {} /\ between = {} /\ raw = {}

Naming(rel, e) == {r \in rows : r.rel = rel /\ e \in r.refs}
Open(rel, e) == Naming(rel, e) \ retired
StatusesOf(j) == {e \in Entity : Home[e] = j /\ Stored(e)}
IdleAt(s) == session[s].at = "idle"
Stop(s) == session' = [session EXCEPT ![s] = Idle]
history == <<snapshot, removed, late, between, raw>>

(* Inserting a row takes FOR KEY SHARE on what its foreign keys name: it    *)
(* waits for a purge, and fails when the entity is gone.                   *)
Unlocked(r) == Keyed(r) => \A e \in r.refs : lock[e] = NoSession
KeysHold(r) == Keyed(r) => \A e \in r.refs : Stored(e)

Born(e) == life[e] = "none" /\ life' = [life EXCEPT ![e] = "active"]

(* A new journey is granted to the roles that see journey configuration.    *)
CreateJourney(e) ==
  /\ KindOf[e] = "journey" /\ Born(e)
  /\ rows' = rows \cup {r \in Grants : e \in r.refs /\ \A g \in r.refs \ {e} : life[g] = "active"}
  /\ UNCHANGED <<retired, lock, session, history>>

(* A status may be added to an inactive journey, not to one being purged.   *)
CreateStatus(e) ==
  /\ KindOf[e] = "status" /\ Stored(Home[e]) /\ lock[Home[e]] = NoSession /\ Born(e)
  /\ UNCHANGED <<rows, retired, lock, session, history>>

CreateService(e) ==
  /\ KindOf[e] \notin {"journey", "status"} /\ Born(e)
  /\ UNCHANGED <<rows, retired, lock, session, history>>

Create(e) == CreateJourney(e) \/ CreateStatus(e) \/ CreateService(e)

(* What the writer of a checked row reads first: the journey and status of  *)
(* a new instance, the fields mapped for a lead's values or an import, the  *)
(* fields a formula refers to, the rule that is about to notify.           *)
Mapped(f) == Open("field_journey_settings", f) # {}

Admits(r) ==
  /\ \A e \in r.refs : life[e] = "active"
  /\ r.rel \in {"leads", "import_jobs"} =>
       \A e \in r.refs : KindOf[e] = "field" => Mapped(e)

Read(s, r) ==
  /\ IdleAt(s) /\ r \notin rows /\ r.rel \in CheckedFirst
  /\ Admits(r)
  /\ session' = [session EXCEPT ![s] = [Idle EXCEPT !.at = "read", !.row = r]]
  /\ UNCHANGED <<life, rows, retired, lock, history>>

Between(r) == \E s \in Session : session[s].at = "counted" /\ session[s].entity \in r.refs

Insert(s) ==
  LET r == session[s].row
  IN /\ session[s].at = "read" /\ Unlocked(r)
     /\ rows' = IF KeysHold(r) THEN rows \cup {r} ELSE rows
     /\ retired' = IF KeysHold(r) THEN retired \ {r} ELSE retired
     /\ late' = IF session[s].overtaken /\ KeysHold(r) THEN late \cup {r} ELSE late
     /\ between' = IF Between(r) /\ KeysHold(r) THEN between \cup {r} ELSE between
     /\ Stop(s) /\ UNCHANGED <<life, lock, snapshot, removed, raw>>

(* The upserts of mappings and the writes that store ids as they were sent. *)
Put(r) ==
  /\ r.rel \in Unchecked
  /\ r \notin rows /\ Unlocked(r) /\ KeysHold(r)
  /\ rows' = rows \cup {r} /\ UNCHANGED <<life, retired, lock, session, history>>

(* The upsert of a row that is there switches it on again and checks no key. *)
Restore(r) ==
  /\ r.rel \in Switchable /\ r \in retired /\ retired' = retired \ {r}
  /\ UNCHANGED <<life, rows, lock, session, history>>

(* deleteMapping; an instance that ends.                                    *)

Retire(r) ==
  /\ r.rel \in Switchable \cup {"process_instances"} /\ r \in rows \ retired
  /\ retired' = retired \cup {r} /\ UNCHANGED <<life, rows, lock, session, history>>

Withdraw(r) ==
  /\ r.rel = "field_visibility" /\ r \in rows
  /\ rows' = rows \ {r} /\ UNCHANGED <<life, retired, lock, session, history>>

(* What a deactivation counts before it writes.  Teams, roles and rules     *)
(* have no count of this kind.                                              *)
JourneyInUse(e) == Open("process_instances", e)
ServiceInUse(e) == Open("lead_services", e)
FieldInUse(e) == Open("field_journey_settings", e) \cup Naming("field_visibility", e)

InUseOfFields(e) == IF KindOf[e] = "field" THEN FieldInUse(e) ELSE {}

InUse(e) ==
  CASE KindOf[e] \in {"journey", "status"} -> JourneyInUse(e)
    [] KindOf[e] = "service" -> ServiceInUse(e)
    [] KindOf[e] = "field" -> FieldInUse(e)
    [] OTHER -> {}

Count(s, e) ==
  /\ IdleAt(s) /\ life[e] = "active" /\ InUse(e) = {}
  /\ session' = [session EXCEPT ![s] = [Idle EXCEPT !.at = "counted", !.entity = e]]
  /\ UNCHANGED <<life, rows, retired, lock, history>>

(* The rows of the writers that read the entity as active will be late.   *)
Overtaken(e) ==
  [s \in Session |->
     IF session[s].at = "read" /\ e \in session[s].row.refs
       THEN [session[s] EXCEPT !.overtaken = TRUE] ELSE session[s]]

(* The trigger statuses_safe_deactivation looks again; journeys have none.  *)
Refused(e) == KindOf[e] = "status" /\ life[e] = "active" /\ JourneyInUse(e) # {}

Deactivate(s) ==
  LET e == session[s].entity
  IN /\ session[s].at = "counted" /\ lock[e] = NoSession
     /\ \/ Refused(e) /\ Stop(s) /\ UNCHANGED life
        \/ /\ ~Refused(e)
           /\ life' = IF life[e] = "active" THEN [life EXCEPT ![e] = "inactive"] ELSE life
           /\ session' = [Overtaken(e) EXCEPT ![s] = Idle]
     /\ UNCHANGED <<rows, retired, lock, history>>

(* A notification rule is switched on and off by the same edit.             *)
Reactivate(e) ==
  /\ KindOf[e] = "notification_rule" /\ life[e] = "inactive" /\ lock[e] = NoSession
  /\ life' = [life EXCEPT ![e] = "active"]
  /\ UNCHANGED <<rows, retired, lock, session, history>>

(* purge: lock, look, count the blockers, list the cascades, remove.        *)
Lock(s, e) ==
  /\ IdleAt(s) /\ Stored(e) /\ lock[e] = NoSession
  /\ lock' = [lock EXCEPT ![e] = s]
  /\ session' = [session EXCEPT ![s] = [Idle EXCEPT !.at = "locked", !.entity = e]]
  /\ UNCHANGED <<life, rows, retired, history>>

Release(s) == lock' = [lock EXCEPT ![session[s].entity] = NoSession] /\ Stop(s)

Purgeable(e) == life[e] = "inactive" /\ e \notin SystemDefault

Look(s) ==
  LET e == session[s].entity
  IN /\ session[s].at = "locked"
     /\ \/ /\ Purgeable(e)
           /\ session' = [session EXCEPT ![s].at = "counting", ![s].todo = Blockers(e)]
           /\ UNCHANGED lock
        \/ ~Purgeable(e) /\ Release(s)
     /\ UNCHANGED <<life, rows, retired, history>>

BlockedByKeys(rel, e) == rel \notin Json /\ Naming(rel, e) # {}

Blocked(rel, e) == IF rel = "statuses" THEN StatusesOf(e) # {} ELSE Naming(rel, e) # {}

CountBlocker(s) ==
  LET todo == session[s].todo
  IN /\ session[s].at = "counting" /\ todo # <<>>
     /\ session' = [session EXCEPT ![s].todo = Tail(todo),
                                   ![s].blocked = @ \/ Blocked(Head(todo), session[s].entity)]
     /\ UNCHANGED <<life, rows, retired, lock, history>>

Refuse(s) ==
  /\ session[s].at = "counting" /\ session[s].todo = <<>> /\ session[s].blocked
  /\ Release(s) /\ UNCHANGED <<life, rows, retired, history>>

Cascading(e) == {r \in rows : r.rel \in Cascades(e) /\ e \in r.refs}

List(s) ==
  LET e == session[s].entity
  IN /\ session[s].at = "counting" /\ session[s].todo = <<>> /\ ~session[s].blocked
     /\ snapshot' = [snapshot EXCEPT ![e] = Cascading(e)]
     /\ session' = [session EXCEPT ![s].at = "listed"]
     /\ UNCHANGED <<life, rows, retired, lock, removed, late, between, raw>>

(* ON DELETE RESTRICT: rows that still name the entity by a foreign key     *)
(* undo the whole purge.                                                    *)
Restricting(e) ==
  {r \in rows \ Cascading(e) : Keyed(r) /\ e \in r.refs} # {} \/ StatusesOf(e) # {}

Remove(s) ==
  LET e == session[s].entity
  IN /\ session[s].at = "listed"
     /\ \/ /\ Restricting(e)
           /\ raw' = raw \cup {e} /\ UNCHANGED <<life, rows, retired, removed>>
        \/ /\ ~Restricting(e)
           /\ life' = [life EXCEPT ![e] = "gone"]
           /\ rows' = rows \ Cascading(e) /\ retired' = retired \ Cascading(e)
           /\ removed' = [removed EXCEPT ![e] = Cascading(e)]
           /\ UNCHANGED raw
     /\ Release(s) /\ UNCHANGED <<snapshot, late, between>>

Purge(s) ==
  \/ \E e \in Entity : Lock(s, e)
  \/ Look(s) \/ CountBlocker(s) \/ Refuse(s) \/ List(s) \/ Remove(s)

Next ==
  \/ \E e \in Entity : Create(e) \/ Reactivate(e)
  \/ \E r \in Row : Put(r) \/ Restore(r) \/ Retire(r) \/ Withdraw(r)
  \/ \E s \in Session :
       \/ \E r \in Row : Read(s, r)
       \/ \E e \in Entity : Count(s, e)
       \/ Insert(s) \/ Deactivate(s) \/ Purge(s)

Spec == Init /\ [][Next]_vars

(* A purge says in its own words what is in the way: it never gets as far   *)
(* as a foreign-key error, whatever is inserted while it counts             *)
(* (purge-service.ts: the lock is load-bearing).                            *)
PurgeAnswersItself == raw = {}

(* Every row that went with an entity is in the audit row of its purge,     *)
(* which is the only place it survives.                                     *)
SnapshotIsComplete == \A e \in Entity : removed[e] \subseteq snapshot[e]

(* The values of leads and the mappings of imports, which no foreign key    *)
(* guards, name a purged entity only when their writer had read it as       *)
(* active before it was deactivated.                                        *)
OnlyLateRowsDangle ==
  \A r \in rows : r.rel \in {"leads", "import_jobs"} =>
    r \in late \/ \A e \in r.refs : life[e] # "gone"

(* deactivateJourney counts the open instances and then writes, and a       *)
(* status has a trigger besides: what is open in an inactive journey or     *)
(* status was written by one who had read it as active before, or, for a    *)
(* journey, in between its count and its write.                            *)
InactiveIsQuiet ==
  \A e \in Entity : life[e] = "inactive" =>
    /\ KindOf[e] = "status" => Open("process_instances", e) \subseteq late
    /\ KindOf[e] = "journey" => Open("process_instances", e) \subseteq late \cup between

(* What is purged was inactive to the end: nothing switches a notification  *)
(* rule on between the look and the delete.                                 *)
PurgesTheInactive ==
  [][\A e \in Entity : life[e] # "gone" /\ life'[e] = "gone" => life[e] = "inactive"]_vars

(* A purge answers for what it removes: it is refused before its keys would  *)
(* be violated, its audit row has every row that went with the entity, and   *)
(* what still names the entity was written by one who read it while active.  *)
PurgesAreAccountedFor == PurgeAnswersItself /\ SnapshotIsComplete /\ OnlyLateRowsDangle

(* ADR-0017: nothing can be orphaned.  The code keeps it for no JSON column. *)
NothingIsOrphaned == \A r \in rows : \A e \in r.refs : life[e] # "gone"

(* purge-service.ts: an inactive Field cannot acquire a new value.          *)
InactiveFieldsGainNoValue ==
  [][\A r \in rows' \ rows : r.rel = "leads" => \A e \in r.refs : life[e] = "active"]_vars
=============================================================================
