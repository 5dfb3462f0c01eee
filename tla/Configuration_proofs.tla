------------------------- MODULE Configuration_proofs -------------------------
(***************************************************************************)
(* What the lock of a purge, the foreign keys and the counts of a          *)
(* deactivation guarantee for any configuration and any requests, what a   *)
(* write of a lead's values does to its formulas and its locked fields,    *)
(* and what a board at rest shows after any moves.                         *)
(***************************************************************************)
EXTENDS ConfigurationPurge, LeadFields, Board, FiniteSetTheorems, SequenceTheorems, WellFoundedInduction, TLAPS

Relations(e) == {Blockers(e)[i] : i \in DOMAIN Blockers(e)}
Left(todo) == {todo[i] : i \in DOMAIN todo}
(* JSON columns a purge counts whose writers read the entity as active.     *)
Guarded == {"leads", "import_jobs"}

(* A count of a relation came to nothing: it still would, or would count    *)
(* late rows only where no foreign key guards it.                           *)
Cleared(rel, e) ==
  /\ rel = "statuses" => StatusesOf(e) = {}
  /\ rel \notin Json \cup {"statuses"} => Naming(rel, e) = {}
  /\ rel \in Guarded => Naming(rel, e) \subseteq late

(* Where a purge is and what it knows there.                               *)
Purging(s) ==
  LET e == session[s].entity
  IN  /\ session[s].at \in {"counted", "locked", "counting", "listed"} => e \in Entity
      /\ session[s].at \in {"locked", "counting", "listed"} => lock[e] = s
      /\ session[s].at \in {"counting", "listed"} => life[e] = "inactive"
      /\ session[s].at = "counting" =>
           session[s].blocked \/ \A rel \in Relations(e) \ Left(session[s].todo) : Cleared(rel, e)
      /\ session[s].at = "listed" =>
           (\A rel \in Relations(e) : Cleared(rel, e)) /\ Cascading(e) \subseteq snapshot[e]

(* A writer knows that what it names is active, or was overtaken.           *)
Reading(s) ==
  session[s].at = "read" =>
    /\ session[s].row \in Row /\ session[s].row.rel \in CheckedFirst
    /\ session[s].overtaken \/ \A e \in session[s].row.refs : life[e] = "active"

(* A deactivation knows that a journey has no instance but those that came  *)
(* after its count.                                                        *)
Counting(s) ==
  session[s].at = "counted" /\ KindOf[session[s].entity] = "journey" =>
    Open("process_instances", session[s].entity) \subseteq between

Ended == \A e \in Entity : removed[e] # {} => life[e] = "gone"

IInv ==
  /\ TypeOK /\ (\A s \in Session : Purging(s) /\ Reading(s) /\ Counting(s)) /\ Ended
  /\ PurgesAreAccountedFor /\ InactiveIsQuiet

-----------------------------------------------------------------------------
(* The descriptors.                                                        *)
LEMMA RangeOfOne == \A a : {<<a>>[i] : i \in DOMAIN <<a>>} = {a}
  OBVIOUS

LEMMA RangeOfFour ==
  \A a, b, c, d : {<<a, b, c, d>>[i] : i \in DOMAIN <<a, b, c, d>>} = {a, b, c, d}
  OBVIOUS

LEMMA RangeOfFive ==
  \A a, b, c, d, e : {<<a, b, c, d, e>>[i] : i \in DOMAIN <<a, b, c, d, e>>} = {a, b, c, d, e}
  OBVIOUS

(* The JSON columns that no descriptor knows of.                           *)
Overlooked == {"formulas", "rule_scopes", "email_variables"}

(* A purge knows of every foreign key and every JSON column that may name   *)
(* the entity, except formulas, the scopes of notification rules and the    *)
(* variables of a campaign's message.                                      *)
THEOREM DescriptorsCover ==
  ASSUME NEW e \in Entity
  PROVE  /\ NamedBy[KindOf[e]] \ Overlooked \subseteq Relations(e) \cup Cascades(e)
         /\ Cascades(e) \cap (Json \cup {"statuses", "process_instances"}) = {}
         /\ KindOf[e] = "journey" => "statuses" \in Relations(e)
         /\ Blockers(e) \in Seq(Counted)
<1> DEFINE Right == /\ NamedBy[KindOf[e]] \ Overlooked \subseteq Relations(e) \cup Cascades(e)
                    /\ Cascades(e) \cap (Json \cup {"statuses", "process_instances"}) = {}
                    /\ KindOf[e] = "journey" => "statuses" \in Relations(e)
                    /\ Blockers(e) \in Seq(Counted)
<1>1. ASSUME KindOf[e] = "journey" PROVE Right
  <2>1. /\ Blockers(e) = JourneyPurge.blockers /\ Cascades(e) = JourneyPurge.cascades
        /\ NamedBy[KindOf[e]] = NamedBy["journey"]
    BY <1>1 DEF Blockers, Cascades, Descriptor
  <2>2. Relations(e) = {"statuses", "process_instances", "campaigns", "import_jobs"}
    BY <2>1, RangeOfFour DEF Relations, JourneyPurge
  <2>3. NamedBy[KindOf[e]] \ Overlooked \subseteq Relations(e) \cup Cascades(e)
    BY <2>1, <2>2 DEF JourneyPurge, NamedBy, Json, Overlooked
  <2>4. Cascades(e) \cap (Json \cup {"statuses", "process_instances"}) = {}
    BY <2>1 DEF JourneyPurge, Json
  <2>5. Blockers(e) \in Seq(Counted)
    BY <2>1 DEF JourneyPurge, Counted
  <2> QED
    BY <1>1, <2>2, <2>3, <2>4, <2>5
<1>2. ASSUME KindOf[e] = "status" PROVE Right
  <2>1. /\ Blockers(e) = StatusPurge.blockers /\ Cascades(e) = StatusPurge.cascades
        /\ NamedBy[KindOf[e]] = NamedBy["status"]
    BY <1>2 DEF Blockers, Cascades, Descriptor
  <2>2. Relations(e) = {"process_instances", "tasks", "campaigns", "status_routing_rules", "field_journey_settings"}
    BY <2>1, RangeOfFive DEF Relations, StatusPurge
  <2>3. NamedBy[KindOf[e]] \ Overlooked \subseteq Relations(e) \cup Cascades(e)
    BY <2>1, <2>2 DEF StatusPurge, NamedBy, Json, Overlooked
  <2>4. Cascades(e) \cap (Json \cup {"statuses", "process_instances"}) = {}
    BY <2>1 DEF StatusPurge, Json
  <2>5. Blockers(e) \in Seq(Counted)
    BY <2>1 DEF StatusPurge, Counted
  <2> QED
    BY <1>2, <2>2, <2>3, <2>4, <2>5
<1>3. ASSUME KindOf[e] = "field" PROVE Right
  <2>1. /\ Blockers(e) = FieldPurge.blockers /\ Cascades(e) = FieldPurge.cascades
        /\ NamedBy[KindOf[e]] = NamedBy["field"]
    BY <1>3 DEF Blockers, Cascades, Descriptor
  <2>2. Relations(e) = {"leads", "attachments", "campaign_filters", "import_jobs"}
    BY <2>1, RangeOfFour DEF Relations, FieldPurge
  <2>3. NamedBy[KindOf[e]] \ Overlooked \subseteq Relations(e) \cup Cascades(e)
    BY <2>1, <2>2 DEF FieldPurge, NamedBy, Json, Overlooked
  <2>4. Cascades(e) \cap (Json \cup {"statuses", "process_instances"}) = {}
    BY <2>1 DEF FieldPurge, Json
  <2>5. Blockers(e) \in Seq(Counted)
    BY <2>1 DEF FieldPurge, Counted
  <2> QED
    BY <1>3, <2>2, <2>3, <2>4, <2>5
<1>4. ASSUME KindOf[e] = "service" PROVE Right
  <2>1. /\ Blockers(e) = ServicePurge.blockers /\ Cascades(e) = ServicePurge.cascades
        /\ NamedBy[KindOf[e]] = NamedBy["service"]
    BY <1>4 DEF Blockers, Cascades, Descriptor
  <2>2. Relations(e) = {"lead_services"}
    BY <2>1, RangeOfOne DEF Relations, ServicePurge
  <2>3. NamedBy[KindOf[e]] \ Overlooked \subseteq Relations(e) \cup Cascades(e)
    BY <2>1, <2>2 DEF ServicePurge, NamedBy, Json, Overlooked
  <2>4. Cascades(e) \cap (Json \cup {"statuses", "process_instances"}) = {}
    BY <2>1 DEF ServicePurge, Json
  <2>5. Blockers(e) \in Seq(Counted)
    BY <2>1 DEF ServicePurge, Counted
  <2> QED
    BY <1>4, <2>2, <2>3, <2>4, <2>5
<1>5. ASSUME KindOf[e] = "team" PROVE Right
  <2>1. /\ Blockers(e) = TeamPurge.blockers /\ Cascades(e) = TeamPurge.cascades
        /\ NamedBy[KindOf[e]] = NamedBy["team"]
    BY <1>5 DEF Blockers, Cascades, Descriptor
  <2>2. Relations(e) = {"status_routing_rules"}
    BY <2>1, RangeOfOne DEF Relations, TeamPurge
  <2>3. NamedBy[KindOf[e]] \ Overlooked \subseteq Relations(e) \cup Cascades(e)
    BY <2>1, <2>2 DEF TeamPurge, NamedBy, Json, Overlooked
  <2>4. Cascades(e) \cap (Json \cup {"statuses", "process_instances"}) = {}
    BY <2>1 DEF TeamPurge, Json
  <2>5. Blockers(e) \in Seq(Counted)
    BY <2>1 DEF TeamPurge, Counted
  <2> QED
    BY <1>5, <2>2, <2>3, <2>4, <2>5
<1>6. ASSUME KindOf[e] = "role" PROVE Right
  <2>1. /\ Blockers(e) = RolePurge.blockers /\ Cascades(e) = RolePurge.cascades
        /\ NamedBy[KindOf[e]] = NamedBy["role"]
    BY <1>6 DEF Blockers, Cascades, Descriptor
  <2>2. Relations(e) = {"users"}
    BY <2>1, RangeOfOne DEF Relations, RolePurge
  <2>3. NamedBy[KindOf[e]] \ Overlooked \subseteq Relations(e) \cup Cascades(e)
    BY <2>1, <2>2 DEF RolePurge, NamedBy, Json, Overlooked
  <2>4. Cascades(e) \cap (Json \cup {"statuses", "process_instances"}) = {}
    BY <2>1 DEF RolePurge, Json
  <2>5. Blockers(e) \in Seq(Counted)
    BY <2>1 DEF RolePurge, Counted
  <2> QED
    BY <1>6, <2>2, <2>3, <2>4, <2>5
<1>7. ASSUME KindOf[e] = "notification_rule" PROVE Right
  <2>1. /\ Blockers(e) = RulePurge.blockers /\ Cascades(e) = RulePurge.cascades
        /\ NamedBy[KindOf[e]] = NamedBy["notification_rule"]
    BY <1>7 DEF Blockers, Cascades, Descriptor
  <2>2. Relations(e) = {"notifications"}
    BY <2>1, RangeOfOne DEF Relations, RulePurge
  <2>3. NamedBy[KindOf[e]] \ Overlooked \subseteq Relations(e) \cup Cascades(e)
    BY <2>1, <2>2 DEF RulePurge, NamedBy, Json, Overlooked
  <2>4. Cascades(e) \cap (Json \cup {"statuses", "process_instances"}) = {}
    BY <2>1 DEF RulePurge, Json
  <2>5. Blockers(e) \in Seq(Counted)
    BY <2>1 DEF RulePurge, Counted
  <2> QED
    BY <1>7, <2>2, <2>3, <2>4, <2>5
<1>8. KindOf[e] \in Kind
  BY EntityAssumption
<1> HIDE DEF Right
<1>9. Right
  BY <1>1, <1>2, <1>3, <1>4, <1>5, <1>6, <1>7, <1>8 DEF Kind
<1> QED
  BY <1>9 DEF Right

-----------------------------------------------------------------------------
(* A step of others that leaves a purge what it knows.                     *)
Undisturbed(s) ==
  \A e \in Entity : lock[e] = s =>
    /\ lock'[e] = s
    /\ life[e] = "inactive" =>
         /\ life'[e] = "inactive" /\ snapshot'[e] = snapshot[e]
         /\ StatusesOf(e)' \subseteq StatusesOf(e)
         /\ \A r \in rows' \ rows : e \in r.refs => r.rel \in Json /\ (r.rel \in Guarded => r \in late')

LEMMA PurgingFrame ==
  ASSUME NEW s \in Session, Purging(s), session'[s] = session[s], late \subseteq late', Undisturbed(s)
  PROVE  Purging(s)'
<1> DEFINE e == session[s].entity
<1>1. session'[s].entity = e /\ session'[s].at = session[s].at
      /\ session'[s].blocked = session[s].blocked /\ session'[s].todo = session[s].todo
  OBVIOUS
<1>2. session[s].at \in {"counted", "locked", "counting", "listed"} => e \in Entity
  BY DEF Purging
<1>3. session[s].at \in {"locked", "counting", "listed"} => lock'[e] = s
  BY <1>2 DEF Purging, Undisturbed
<1>4. ASSUME session[s].at \in {"counting", "listed"}
      PROVE  /\ life'[e] = "inactive" /\ snapshot'[e] = snapshot[e]
             /\ Cascading(e)' \subseteq Cascading(e)
             /\ \A rel : Cleared(rel, e) => Cleared(rel, e)'
  <2>1. e \in Entity /\ lock[e] = s /\ life[e] = "inactive"
    BY <1>4 DEF Purging
  <2>2. /\ life'[e] = "inactive" /\ snapshot'[e] = snapshot[e]
        /\ StatusesOf(e)' \subseteq StatusesOf(e)
        /\ \A r \in rows' \ rows : e \in r.refs => r.rel \in Json /\ (r.rel \in Guarded => r \in late')
    BY <2>1 DEF Undisturbed
  <2>3. Cascades(e) \cap Json = {}
    BY <2>1, DescriptorsCover
  <2>4. Cascading(e)' \subseteq Cascading(e)
    BY <2>2, <2>3 DEF Cascading, Cascades
  <2>5. ASSUME NEW rel, Cleared(rel, e) PROVE Cleared(rel, e)'
    BY <2>2, <2>5 DEF Cleared, Naming, Guarded, Json
  <2> QED
    BY <2>2, <2>4, <2>5
<1>5. session[s].at = "counting" =>
        session[s].blocked \/ \A rel \in Relations(e) \ Left(session[s].todo) : Cleared(rel, e)'
  BY <1>4 DEF Purging
<1>6. session[s].at = "listed" =>
        (\A rel \in Relations(e) : Cleared(rel, e)') /\ Cascading(e)' \subseteq snapshot'[e]
  BY <1>4 DEF Purging
<1>7. Relations(e)' = Relations(e) /\ Left(session[s].todo)' = Left(session[s].todo)
  BY <1>1 DEF Relations, Blockers, Left
<1> HIDE DEF e
<1> QED
  BY <1>1, <1>2, <1>3, <1>4, <1>5, <1>6, <1>7 DEF Purging, Relations, Blockers, Left, e

LEMMA NotPurging ==
  ASSUME NEW s \in Session, session'[s].at \in {"idle", "read"}
  PROVE  Purging(s)'
BY DEF Purging

LEMMA ReadingFrame ==
  ASSUME NEW s \in Session, Reading(s), session'[s] = session[s],
         \A r \in Row : r.refs \subseteq Entity,
         \A e \in Entity : life[e] = "active" => life'[e] = "active"
  PROVE  Reading(s)'
BY DEF Reading

LEMMA CountingFrame ==
  ASSUME NEW s \in Session, Counting(s), session'[s] = session[s], between \subseteq between',
         \A r \in rows' \ retired' : r.rel = "process_instances" =>
           \/ r \in rows \ retired
           \/ session[s].at = "counted" /\ session[s].entity \in r.refs => r \in between'
  PROVE  Counting(s)'
BY DEF Counting, Open, Naming

LEMMA NotCounting ==
  ASSUME NEW s \in Session, session'[s].at # "counted"
  PROVE  Counting(s)'
BY DEF Counting

(* A step that writes rows or entities and is no request of this module's.  *)
LEMMA WorldKeeps ==
  ASSUME IInv, TypeOK', UNCHANGED <<session, lock, history>>,
         \A s \in Session : Undisturbed(s),
         \A e \in Entity : /\ life[e] = "active" => life'[e] = "active"
                           /\ life'[e] = "gone" <=> life[e] = "gone"
                           /\ life'[e] = "inactive" => life[e] = "inactive",
         \A r \in rows' \ rows : r.rel \notin Guarded \cup {"process_instances"},
         \A r \in rows' \ retired' : r.rel = "process_instances" => r \in rows \ retired
  PROVE  IInv'
<1>1. /\ session' = session /\ lock' = lock
      /\ snapshot' = snapshot /\ removed' = removed /\ late' = late /\ raw' = raw
      /\ between' = between
  BY DEF history
<1>2. rows \subseteq Row /\ rows' \subseteq Row /\ \A r \in Row : r.refs \subseteq Entity
  BY RowAssumption DEF IInv, TypeOK
<1>3. ASSUME NEW s \in Session PROVE Purging(s)' /\ Reading(s)' /\ Counting(s)'
  <2>1. Purging(s)' /\ Reading(s)'
    BY <1>1, <1>2, PurgingFrame, ReadingFrame DEF IInv
  <2>2. Counting(s)'
    BY <1>1, CountingFrame DEF IInv
  <2> QED
    BY <2>1, <2>2
<1>4. Ended'
  BY <1>1 DEF IInv, Ended
<1>5. PurgesAreAccountedFor'
  <2>1. PurgeAnswersItself' /\ SnapshotIsComplete'
    BY <1>1 DEF IInv, PurgesAreAccountedFor, PurgeAnswersItself, SnapshotIsComplete
  <2>2. OnlyLateRowsDangle'
    BY <1>1, <1>2 DEF IInv, PurgesAreAccountedFor, OnlyLateRowsDangle, Guarded
  <2> QED
    BY <2>1, <2>2 DEF PurgesAreAccountedFor
<1>6. InactiveIsQuiet'
  BY <1>1 DEF IInv, InactiveIsQuiet, Open, Naming
<1> QED
  BY <1>3, <1>4, <1>5, <1>6 DEF IInv

LEMMA NothingNew ==
  ASSUME UNCHANGED <<life, lock, snapshot, late>>, rows' \subseteq rows, NEW s \in Session
  PROVE  Undisturbed(s)
BY DEF Undisturbed, StatusesOf, Stored

LEMMA CreateKeeps ==
  ASSUME IInv, NEW x \in Entity, Create(x)
  PROVE  IInv'
<1>1. /\ life[x] = "none" /\ life' = [life EXCEPT ![x] = "active"]
      /\ UNCHANGED <<retired, session, lock, history>>
      /\ life \in [Entity -> {"none", "active", "inactive", "gone"}]
  BY DEF Create, CreateJourney, CreateStatus, CreateService, Born, IInv, TypeOK
<1>2. \A e \in Entity : life'[e] = IF e = x THEN "active" ELSE life[e]
  BY <1>1
<1>3. /\ rows \subseteq rows' /\ rows' \subseteq Row
      /\ \A r \in rows' \ rows : /\ r.rel = "role_journey_access"
                                 /\ \A e \in r.refs \ {x} : life[e] = "active"
  BY RowAssumption DEF Create, CreateJourney, CreateStatus, CreateService, IInv, TypeOK
<1>4. Home[x] \in Entity => lock[Home[x]] = NoSession
  BY EntityAssumption DEF Create, CreateJourney, CreateStatus, CreateService
<1>5. TypeOK'
  BY <1>1, <1>3 DEF IInv, TypeOK, history
<1>6. ASSUME NEW s \in Session PROVE Undisturbed(s)
  <2> SUFFICES ASSUME NEW e \in Entity, lock[e] = s, life[e] = "inactive"
               PROVE  /\ StatusesOf(e)' \subseteq StatusesOf(e)
                      /\ \A r \in rows' \ rows : e \notin r.refs
                      /\ life'[e] = "inactive"
    BY <1>1 DEF Undisturbed, history
  <2>1. e # x /\ Home[x] # e
    BY <1>1, <1>4, SessionAssumption
  <2> QED
    BY <1>2, <1>3, <2>1 DEF StatusesOf, Stored
<1>7. \A r \in rows' \ rows : r.rel \notin Guarded \cup {"process_instances"}
  BY <1>3 DEF Guarded
<1>8. \A r \in rows' \ retired' : r.rel = "process_instances" => r \in rows \ retired
  BY <1>1, <1>7
<1> QED
  BY <1>1, <1>2, <1>5, <1>6, <1>7, <1>8, WorldKeeps

LEMMA ReactivateKeeps ==
  ASSUME IInv, NEW x \in Entity, Reactivate(x)
  PROVE  IInv'
<1>1. /\ life[x] = "inactive" /\ life' = [life EXCEPT ![x] = "active"] /\ lock[x] = NoSession
      /\ UNCHANGED <<rows, retired, session, lock, history>>
      /\ life \in [Entity -> {"none", "active", "inactive", "gone"}]
  BY DEF Reactivate, IInv, TypeOK
<1>2. \A e \in Entity : life'[e] = IF e = x THEN "active" ELSE life[e]
  BY <1>1
<1>3. TypeOK'
  BY <1>1 DEF IInv, TypeOK, history
<1>4. ASSUME NEW s \in Session PROVE Undisturbed(s)
  <2> SUFFICES ASSUME NEW e \in Entity, lock[e] = s
               PROVE  StatusesOf(e)' \subseteq StatusesOf(e) /\ life'[e] = life[e]
    BY <1>1 DEF Undisturbed, history
  <2>1. e # x
    BY <1>1, SessionAssumption
  <2> QED
    BY <1>1, <1>2, <2>1 DEF StatusesOf, Stored
<1> QED
  BY <1>1, <1>2, <1>3, <1>4, WorldKeeps

LEMMA PutKeeps ==
  ASSUME IInv, NEW r \in Row, Put(r)
  PROVE  IInv'
<1>1. /\ r.rel \in Unchecked /\ Unlocked(r) /\ rows' = rows \cup {r}
      /\ UNCHANGED <<life, retired, session, lock, history>>
  BY DEF Put
<1>2. TypeOK'
  BY <1>1 DEF IInv, TypeOK, history
<1>3. r.rel \notin Guarded \cup {"process_instances"}
  BY <1>1 DEF Guarded, Unchecked
<1>4. ASSUME NEW s \in Session PROVE Undisturbed(s)
  BY <1>1, <1>3, SessionAssumption DEF Undisturbed, history, StatusesOf, Stored, Unlocked, Keyed
<1>5. \A q \in rows' \ retired' : q.rel = "process_instances" => q \in rows \ retired
  BY <1>1, <1>3
<1> QED
  BY <1>1, <1>2, <1>3, <1>4, <1>5, WorldKeeps

LEMMA RowsKeep ==
  ASSUME IInv, NEW r \in Row, Restore(r) \/ Retire(r) \/ Withdraw(r)
  PROVE  IInv'
<1>1. /\ UNCHANGED <<life, session, lock, history>>
      /\ \/ rows' = rows /\ r.rel \in Switchable /\ r \in retired /\ retired' = retired \ {r}
         \/ /\ rows' = rows /\ r \in rows /\ retired' = retired \cup {r}
            /\ r.rel \in Switchable \cup {"process_instances"}
         \/ rows' = rows \ {r} /\ retired' = retired /\ r.rel = "field_visibility"
  BY DEF Restore, Retire, Withdraw
<1>2. /\ retired \subseteq rows /\ rows \subseteq Row
      /\ \A q \in retired : q.rel \in Switchable \cup {"process_instances"}
  BY DEF IInv, TypeOK
<1>3. /\ rows' \subseteq rows /\ retired' \subseteq rows'
      /\ \A q \in retired' : q.rel \in Switchable \cup {"process_instances"}
  BY <1>1, <1>2 DEF Switchable
<1>4. TypeOK'
  BY <1>1, <1>3 DEF IInv, TypeOK, history
<1>5. \A s \in Session : Undisturbed(s)
  BY <1>1, <1>3, NothingNew DEF history
<1>6. \A q \in rows' \ retired' : q.rel = "process_instances" => q \in rows \ retired
  BY <1>1, <1>2 DEF Switchable
<1> QED
  BY <1>1, <1>3, <1>4, <1>5, <1>6, WorldKeeps

-----------------------------------------------------------------------------
(* A step of one request that writes nothing but its own state.             *)
LEMMA RequestKeeps ==
  ASSUME IInv, TypeOK', UNCHANGED <<life, rows, retired, removed, late, between, raw>>,
         NEW s \in Session, Purging(s)', Reading(s)', Counting(s)',
         \A q \in Session \ {s} : session'[q] = session[q],
         \A e \in Entity : lock[e] \in Session \ {s} =>
                             lock'[e] = lock[e] /\ snapshot'[e] = snapshot[e],
         \A e \in Entity : life[e] = "gone" => snapshot'[e] = snapshot[e]
  PROVE  IInv'
<1>1. \A r \in Row : r.refs \subseteq Entity
  BY RowAssumption
<1>2. ASSUME NEW q \in Session PROVE Purging(q)' /\ Reading(q)' /\ Counting(q)'
  <2>1. CASE q = s
    BY <2>1
  <2>2. CASE q # s
    <3>1. Undisturbed(q)
      BY <2>2 DEF Undisturbed, StatusesOf, Stored
    <3>2. Counting(q)'
      BY <2>2, CountingFrame DEF IInv
    <3> QED
      BY <1>1, <2>2, <3>1, <3>2, PurgingFrame, ReadingFrame DEF IInv
  <2> QED
    BY <2>1, <2>2
<1>3. Ended'
  BY DEF IInv, Ended
<1>4. PurgesAreAccountedFor'
  <2>1. SnapshotIsComplete'
    BY DEF IInv, PurgesAreAccountedFor, SnapshotIsComplete, Ended
  <2> QED
    BY <2>1 DEF IInv, PurgesAreAccountedFor, PurgeAnswersItself, OnlyLateRowsDangle
<1>5. InactiveIsQuiet'
  BY DEF IInv, InactiveIsQuiet, Open, Naming
<1> QED
  BY <1>2, <1>3, <1>4, <1>5 DEF IInv

LEMMA RequestIsTyped ==
  /\ Idle \in SessionType
  /\ \A e \in Entity : [Idle EXCEPT !.at = "counted", !.entity = e] \in SessionType
  /\ \A e \in Entity : [Idle EXCEPT !.at = "locked", !.entity = e] \in SessionType
  /\ \A r \in Row : [Idle EXCEPT !.at = "read", !.row = r] \in SessionType
<1>1. <<>> \in Seq(Counted)
  OBVIOUS
<1>2. Idle \in SessionType
  BY <1>1 DEF Idle, SessionType
<1>3. \A e \in Entity : [Idle EXCEPT !.at = "counted", !.entity = e] \in SessionType
  BY <1>2 DEF SessionType
<1>4. \A e \in Entity : [Idle EXCEPT !.at = "locked", !.entity = e] \in SessionType
  BY <1>2 DEF SessionType
<1>5. \A r \in Row : [Idle EXCEPT !.at = "read", !.row = r] \in SessionType
  BY <1>2 DEF SessionType
<1> QED
  BY <1>2, <1>3, <1>4, <1>5

LEMMA ReadKeeps ==
  ASSUME IInv, NEW s \in Session, NEW r \in Row, Read(s, r)
  PROVE  IInv'
<1> DEFINE q == [Idle EXCEPT !.at = "read", !.row = r]
<1>1. session' = [session EXCEPT ![s] = q] /\ UNCHANGED <<life, rows, retired, lock, history>>
      /\ r.rel \in CheckedFirst /\ \A e \in r.refs : life[e] = "active"
  BY DEF Read, Admits
<1>2. q \in SessionType /\ q.at = "read" /\ q.row = r
  BY RequestIsTyped DEF Idle
<1> HIDE DEF q
<1>3. session' \in [Session -> SessionType] /\ session'[s] = q
      /\ \A p \in Session \ {s} : session'[p] = session[p]
  BY <1>1, <1>2 DEF IInv, TypeOK
<1>4. TypeOK'
  BY <1>1, <1>3 DEF IInv, TypeOK, history
<1>5. Purging(s)' /\ Counting(s)'
  BY <1>2, <1>3, NotPurging, NotCounting
<1>6. Reading(s)'
  BY <1>1, <1>2, <1>3 DEF Reading
<1> QED
  BY <1>1, <1>3, <1>4, <1>5, <1>6, RequestKeeps DEF history

LEMMA CountKeeps ==
  ASSUME IInv, NEW s \in Session, NEW x \in Entity, Count(s, x)
  PROVE  IInv'
<1> DEFINE q == [Idle EXCEPT !.at = "counted", !.entity = x]
<1>1. session' = [session EXCEPT ![s] = q] /\ UNCHANGED <<life, rows, retired, lock, history>>
      /\ InUse(x) = {}
  BY DEF Count
<1>2. q \in SessionType /\ q.at = "counted" /\ q.entity = x
  BY RequestIsTyped DEF Idle
<1> HIDE DEF q
<1>3. session' \in [Session -> SessionType] /\ session'[s] = q
      /\ \A p \in Session \ {s} : session'[p] = session[p]
  BY <1>1, <1>2 DEF IInv, TypeOK
<1>4. TypeOK'
  BY <1>1, <1>3 DEF IInv, TypeOK, history
<1>5. Purging(s)' /\ Reading(s)'
  BY <1>2, <1>3 DEF Purging, Reading
<1>6. Counting(s)'
  <2> SUFFICES ASSUME KindOf[x] = "journey" PROVE Open("process_instances", x)' = {}
    BY <1>2, <1>3 DEF Counting
  <2>1. InUse(x) = Open("process_instances", x)
    BY DEF InUse, JourneyInUse
  <2> QED
    BY <1>1, <2>1 DEF Open, Naming
<1> QED
  BY <1>1, <1>3, <1>4, <1>5, <1>6, RequestKeeps DEF history

LEMMA LockKeeps ==
  ASSUME IInv, NEW s \in Session, NEW x \in Entity, Lock(s, x)
  PROVE  IInv'
<1> DEFINE q == [Idle EXCEPT !.at = "locked", !.entity = x]
<1>1. /\ session' = [session EXCEPT ![s] = q] /\ UNCHANGED <<life, rows, retired, history>>
      /\ lock[x] = NoSession /\ lock' = [lock EXCEPT ![x] = s]
  BY DEF Lock
<1>2. q \in SessionType /\ q.at = "locked" /\ q.entity = x
  BY RequestIsTyped DEF Idle
<1> HIDE DEF q
<1>3. session' \in [Session -> SessionType] /\ session'[s] = q
      /\ \A p \in Session \ {s} : session'[p] = session[p]
  BY <1>1, <1>2 DEF IInv, TypeOK
<1>4. /\ lock' \in [Entity -> Session \cup {NoSession}] /\ lock'[x] = s
      /\ \A e \in Entity : lock[e] \in Session => lock'[e] = lock[e]
  BY <1>1, SessionAssumption DEF IInv, TypeOK
<1>5. TypeOK'
  BY <1>1, <1>3, <1>4 DEF IInv, TypeOK, history
<1>6. Purging(s)' /\ Reading(s)' /\ Counting(s)'
  BY <1>2, <1>3, <1>4, NotCounting DEF Purging, Reading
<1> QED
  BY <1>1, <1>3, <1>4, <1>5, <1>6, RequestKeeps DEF history

(* A purge that gives up lets go of its row.                               *)
LEMMA GiveUpKeeps ==
  ASSUME IInv, NEW s \in Session, Release(s), session[s].at \in {"locked", "counting"},
         UNCHANGED <<life, rows, retired, history>>
  PROVE  IInv'
<1> DEFINE x == session[s].entity
<1>1. x \in Entity /\ lock[x] = s
  BY DEF IInv, Purging
<1>2. /\ session' = [session EXCEPT ![s] = Idle] /\ lock' = [lock EXCEPT ![x] = NoSession]
      /\ Idle \in SessionType /\ Idle.at = "idle"
  BY RequestIsTyped DEF Release, Stop, Idle
<1>3. session' \in [Session -> SessionType] /\ session'[s] = Idle
      /\ \A p \in Session \ {s} : session'[p] = session[p]
  BY <1>2 DEF IInv, TypeOK
<1>4. /\ lock' \in [Entity -> Session \cup {NoSession}]
      /\ \A e \in Entity : lock[e] \in Session \ {s} => lock'[e] = lock[e]
  BY <1>1, <1>2 DEF IInv, TypeOK
<1>5. TypeOK'
  BY <1>3, <1>4 DEF IInv, TypeOK, history
<1>6. Purging(s)' /\ Reading(s)' /\ Counting(s)'
  BY <1>2, <1>3, NotCounting DEF Purging, Reading
<1> QED
  BY <1>3, <1>4, <1>5, <1>6, RequestKeeps DEF history

LEMMA LookKeeps ==
  ASSUME IInv, NEW s \in Session, Look(s)
  PROVE  IInv'
<1> DEFINE x == session[s].entity
           q == [session[s] EXCEPT !.at = "counting", !.todo = Blockers(x)]
<1>1. /\ session[s].at = "locked" /\ x \in Entity /\ lock[x] = s
      /\ session \in [Session -> SessionType] /\ session[s] \in SessionType
      /\ UNCHANGED <<life, rows, retired, history>>
  BY DEF Look, IInv, Purging, TypeOK
<1>2. CASE Release(s)
  BY <1>1, <1>2, GiveUpKeeps
<1>3. CASE ~Release(s)
  <2>1. life[x] = "inactive" /\ UNCHANGED lock /\ session' = [session EXCEPT ![s] = q]
    <3>1. /\ Purgeable(x) /\ UNCHANGED lock
          /\ session' = [session EXCEPT ![s].at = "counting", ![s].todo = Blockers(x)]
      BY <1>3 DEF Look
    <3> QED
      BY <1>1, <3>1 DEF Purgeable
  <2>2. Blockers(x) \in Seq(Counted)
    BY <1>1, DescriptorsCover
  <2>3. q \in SessionType /\ q.at = "counting" /\ q.entity = x /\ q.todo = Blockers(x)
    BY <1>1, <2>2 DEF SessionType
  <2> HIDE DEF q
  <2>4. session' \in [Session -> SessionType] /\ session'[s] = q
        /\ \A p \in Session \ {s} : session'[p] = session[p]
    BY <1>1, <2>1, <2>3
  <2>5. TypeOK'
    BY <1>1, <2>1, <2>4 DEF IInv, TypeOK, history
  <2>6. Relations(x) \ Left(q.todo) = {}
    BY <2>3 DEF Relations, Left
  <2>7. Purging(s)' /\ Reading(s)'
    <3>1. session'[s].at = "counting" /\ session'[s].entity = x /\ Left(session'[s].todo) = Left(q.todo)
      BY <2>3, <2>4
    <3>2. lock'[x] = s /\ life'[x] = "inactive" /\ x \in Entity
      BY <1>1, <2>1
    <3>3. Relations(x) \ Left(session'[s].todo) = {}
      BY <2>6, <3>1
    <3> QED
      BY <3>1, <3>2, <3>3 DEF Purging, Reading, Relations, Blockers, Left
  <2>8. Counting(s)'
    BY <2>3, <2>4, NotCounting
  <2> QED
    BY <1>1, <2>1, <2>4, <2>5, <2>7, <2>8, RequestKeeps DEF history
<1> QED
  BY <1>2, <1>3

LEMMA TailIsLeft ==
  ASSUME NEW S, NEW todo \in Seq(S), todo # <<>>
  PROVE  /\ Tail(todo) \in Seq(S)
         /\ \A a : a \in Left(todo) => a = Head(todo) \/ a \in Left(Tail(todo))
<1>1. Tail(todo) \in Seq(S)
  OBVIOUS
<1>2. ASSUME NEW i \in DOMAIN todo PROVE todo[i] = Head(todo) \/ todo[i] \in Left(Tail(todo))
  <2>1. i \in 1 .. Len(todo) /\ Len(Tail(todo)) = Len(todo) - 1
    OBVIOUS
  <2>2. CASE i = 1
    BY <2>2
  <2>3. CASE i # 1
    <3>1. i - 1 \in DOMAIN Tail(todo) /\ Tail(todo)[i - 1] = todo[i]
      BY <2>1, <2>3
    <3> QED
      BY <3>1 DEF Left
  <2> QED
    BY <2>2, <2>3
<1> QED
  BY <1>1, <1>2 DEF Left

(* A relation that was counted is clear, or blocks the purge.               *)
LEMMA CountBlockerKeeps ==
  ASSUME IInv, NEW s \in Session, CountBlocker(s)
  PROVE  IInv'
<1> DEFINE x == session[s].entity
           todo == session[s].todo
           q == [session[s] EXCEPT !.todo = Tail(todo),
                                   !.blocked = session[s].blocked \/ Blocked(Head(todo), x)]
<1>1. /\ session[s].at = "counting" /\ x \in Entity /\ lock[x] = s /\ life[x] = "inactive"
      /\ session \in [Session -> SessionType] /\ session[s] \in SessionType
      /\ UNCHANGED <<life, rows, retired, lock, history>> /\ todo # <<>>
  BY DEF CountBlocker, IInv, Purging, TypeOK
<1>2. session' = [session EXCEPT ![s] = q]
  BY <1>1 DEF CountBlocker
<1>3. todo \in Seq(Counted) /\ session[s].blocked \in BOOLEAN
  BY <1>1 DEF SessionType
<1>4. /\ Tail(todo) \in Seq(Counted)
      /\ \A a : a \in Left(todo) => a = Head(todo) \/ a \in Left(Tail(todo))
  BY <1>1, <1>3, TailIsLeft
<1>5. (session[s].blocked \/ Blocked(Head(todo), x)) \in BOOLEAN
  BY <1>3 DEF Blocked
<1>6. /\ q \in SessionType /\ q.at = "counting" /\ q.entity = x /\ q.todo = Tail(todo)
      /\ q.blocked = (session[s].blocked \/ Blocked(Head(todo), x))
  BY <1>1, <1>4, <1>5 DEF SessionType
<1> HIDE DEF q
<1>7. session' \in [Session -> SessionType] /\ session'[s] = q
      /\ \A p \in Session \ {s} : session'[p] = session[p]
  BY <1>1, <1>2, <1>6
<1>8. TypeOK'
  BY <1>1, <1>7 DEF IInv, TypeOK, history
<1>9. q.blocked \/ \A rel \in Relations(x) \ Left(q.todo) : Cleared(rel, x)
  <2> SUFFICES ASSUME ~session[s].blocked, ~Blocked(Head(todo), x),
                      NEW rel \in Relations(x) \ Left(Tail(todo))
               PROVE  Cleared(rel, x)
    BY <1>6
  <2>1. CASE rel \notin Left(todo)
    BY <1>1, <2>1 DEF IInv, Purging
  <2>2. CASE rel \in Left(todo)
    <3>1. rel = Head(todo)
      BY <1>4, <2>2
    <3> QED
      BY <3>1 DEF Blocked, Cleared, Guarded, Json, Naming
  <2> QED
    BY <2>1, <2>2
<1>10. Purging(s)' /\ Reading(s)'
  <2>1. UNCHANGED <<rows, late, life>> /\ session'[s].entity = x /\ session'[s].at = "counting"
        /\ session'[s].todo = q.todo /\ session'[s].blocked = q.blocked
    BY <1>1, <1>6, <1>7 DEF history
  <2>2. \A rel : Cleared(rel, x)' <=> Cleared(rel, x)
    BY <2>1 DEF Cleared, StatusesOf, Stored, Naming
  <2> QED
    BY <1>1, <1>9, <2>1, <2>2 DEF Purging, Reading, Relations, Blockers, Left
<1>11. Counting(s)'
  BY <1>6, <1>7, NotCounting
<1> QED
  BY <1>1, <1>7, <1>8, <1>10, <1>11, RequestKeeps DEF history

LEMMA ListKeeps ==
  ASSUME IInv, NEW s \in Session, List(s)
  PROVE  IInv'
<1> DEFINE x == session[s].entity
           q == [session[s] EXCEPT !.at = "listed"]
<1>1. /\ session[s].at = "counting" /\ x \in Entity /\ lock[x] = s /\ life[x] = "inactive"
      /\ session \in [Session -> SessionType] /\ session[s] \in SessionType
      /\ UNCHANGED <<life, rows, retired, lock, removed, late, between, raw>>
      /\ session[s].todo = <<>> /\ ~session[s].blocked
      /\ session' = [session EXCEPT ![s] = q]
      /\ snapshot' = [snapshot EXCEPT ![x] = Cascading(x)]
  BY DEF List, IInv, Purging, TypeOK
<1>2. q \in SessionType /\ q.at = "listed" /\ q.entity = x
  BY <1>1 DEF SessionType
<1> HIDE DEF q
<1>3. session' \in [Session -> SessionType] /\ session'[s] = q
      /\ \A p \in Session \ {s} : session'[p] = session[p]
  BY <1>1, <1>2
<1>4. /\ snapshot' \in [Entity -> SUBSET Row] /\ snapshot'[x] = Cascading(x)
      /\ \A e \in Entity : e # x => snapshot'[e] = snapshot[e]
  BY <1>1 DEF IInv, TypeOK, Cascading
<1>5. TypeOK'
  BY <1>1, <1>3, <1>4 DEF IInv, TypeOK
<1>6. \A rel \in Relations(x) : Cleared(rel, x)
  <2>1. Left(session[s].todo) = {}
    BY <1>1 DEF Left
  <2> QED
    BY <1>1, <2>1 DEF IInv, Purging
<1>7. Purging(s)' /\ Reading(s)'
  <2>1. UNCHANGED <<rows, late, life>> /\ session'[s].entity = x /\ session'[s].at = "listed"
    BY <1>1, <1>2, <1>3
  <2>2. \A rel : Cleared(rel, x)' <=> Cleared(rel, x)
    BY <2>1 DEF Cleared, StatusesOf, Stored, Naming
  <2>3. Cascading(x)' = Cascading(x)
    BY <2>1 DEF Cascading, Cascades
  <2>4. \A rel \in Relations(x) : Cleared(rel, x)'
    BY <1>6, <2>2
  <2>5. Cascading(x)' \subseteq snapshot'[x] /\ lock'[x] = s /\ life'[x] = "inactive" /\ x \in Entity
    BY <1>1, <1>4, <2>1, <2>3 DEF IInv, Purging
  <2> QED
    BY <2>1, <2>4, <2>5 DEF Purging, Reading, Relations, Blockers
<1>8. Counting(s)'
  BY <1>2, <1>3, NotCounting
<1> QED
  BY <1>1, <1>3, <1>4, <1>5, <1>7, <1>8, RequestKeeps

-----------------------------------------------------------------------------
(* A writer's row arrives: where its entity is being purged or inactive, it *)
(* waits for the purge or is late.                                         *)
LEMMA InsertKeeps ==
  ASSUME IInv, NEW s \in Session, Insert(s)
  PROVE  IInv'
<1> DEFINE r == session[s].row
<1>1. /\ session[s].at = "read" /\ Unlocked(r) /\ r \in Row /\ r.rel \in CheckedFirst
      /\ session[s].overtaken \/ \A e \in r.refs : life[e] = "active"
      /\ UNCHANGED <<life, lock, snapshot, removed, raw>>
      /\ session' = [session EXCEPT ![s] = Idle]
  BY DEF Insert, Stop, IInv, Reading
<1>2. /\ session \in [Session -> SessionType] /\ rows \subseteq Row /\ retired \subseteq rows
      /\ late \subseteq Row /\ between \subseteq Row
      /\ \A q \in retired : q.rel \in Switchable \cup {"process_instances"}
  BY DEF IInv, TypeOK
<1>3. \/ rows' = rows \cup {r} /\ retired' = retired \ {r}
         /\ late' = (IF session[s].overtaken THEN late \cup {r} ELSE late)
         /\ between' = (IF Between(r) THEN between \cup {r} ELSE between)
      \/ rows' = rows /\ retired' = retired /\ late' = late /\ between' = between
  BY DEF Insert
<1>4. /\ rows \subseteq rows' /\ rows' \subseteq rows \cup {r} /\ rows' \subseteq Row
      /\ late \subseteq late' /\ late' \subseteq Row
      /\ retired' \subseteq retired /\ retired' \subseteq rows'
      /\ rows' \ retired' \subseteq (rows \ retired) \cup {r}
      /\ r \in rows' \ rows \/ r \in retired \ retired' => r \in late' \/ \A e \in r.refs : life[e] = "active"
  BY <1>1, <1>2, <1>3
<1>14. /\ between \subseteq between' /\ between' \subseteq Row
       /\ \A q \in rows' \ retired' : q \in rows \ retired \/ (Between(q) => q \in between')
  BY <1>1, <1>2, <1>3
<1>5. session' \in [Session -> SessionType] /\ session'[s] = Idle /\ Idle.at = "idle"
      /\ \A p \in Session \ {s} : session'[p] = session[p]
  BY <1>1, <1>2, RequestIsTyped DEF Idle
<1>6. TypeOK'
  BY <1>1, <1>2, <1>4, <1>5, <1>14 DEF IInv, TypeOK
<1>7. \A e \in Entity : lock[e] \in Session /\ Keyed(r) => e \notin r.refs
  BY <1>1, SessionAssumption DEF Unlocked
<1>8. ASSUME NEW p \in Session PROVE Purging(p)' /\ Reading(p)' /\ Counting(p)'
  <2>1. CASE p = s
    BY <1>5, <2>1, NotPurging, NotCounting DEF Reading
  <2>2. CASE p # s
    <3>1. Undisturbed(p)
      <4> SUFFICES ASSUME NEW e \in Entity, lock[e] = p, life[e] = "inactive",
                          NEW q \in rows' \ rows, e \in q.refs
                   PROVE  q.rel \in Json /\ (q.rel \in Guarded => q \in late')
        BY <1>1 DEF Undisturbed, StatusesOf, Stored
      <4>1. q = r /\ r \in late'
        BY <1>4
      <4>2. ~Keyed(r)
        BY <1>7, <4>1
      <4> QED
        BY <4>1, <4>2 DEF Keyed
    <3>2. \A q \in Row : q.refs \subseteq Entity
      BY RowAssumption
    <3>3. Counting(p)'
      BY <1>5, <1>14, <2>2, CountingFrame DEF IInv, Between
    <3> QED
      BY <1>1, <1>4, <1>5, <2>2, <3>1, <3>2, <3>3, PurgingFrame, ReadingFrame DEF IInv
  <2> QED
    BY <2>1, <2>2
<1>9. Ended'
  BY <1>1 DEF IInv, Ended
<1>10. r \in rows' \ rows => r \in late' \/ \A e \in r.refs : life'[e] = "active"
  BY <1>1, <1>4
<1>11. PurgesAreAccountedFor'
  <2>1. PurgeAnswersItself' /\ SnapshotIsComplete'
    BY <1>1 DEF IInv, PurgesAreAccountedFor, PurgeAnswersItself, SnapshotIsComplete
  <2>2. OnlyLateRowsDangle'
    <3> SUFFICES ASSUME NEW q \in rows', q.rel \in {"leads", "import_jobs"}
                 PROVE  q \in late' \/ \A e \in q.refs : life'[e] # "gone"
      BY DEF OnlyLateRowsDangle
    <3>1. CASE q \in rows
      BY <1>1, <1>4, <3>1 DEF IInv, PurgesAreAccountedFor, OnlyLateRowsDangle
    <3>2. CASE q \notin rows
      BY <1>4, <1>10, <3>2
    <3> QED
      BY <3>1, <3>2
  <2> QED
    BY <2>1, <2>2 DEF PurgesAreAccountedFor
<1>12. InactiveIsQuiet'
  <2> SUFFICES ASSUME NEW e \in Entity, KindOf[e] \in {"journey", "status"}, life[e] = "inactive",
                      NEW q \in rows' \ retired', q.rel = "process_instances", e \in q.refs
               PROVE  q \in late' \/ (KindOf[e] = "journey" /\ q \in between')
    BY <1>1 DEF InactiveIsQuiet, Open, Naming
  <2>1. CASE q \in rows \ retired
    BY <1>4, <1>14, <2>1 DEF IInv, InactiveIsQuiet, Open, Naming
  <2>2. CASE q \notin rows \ retired
    BY <1>4, <2>2
  <2> QED
    BY <2>1, <2>2
<1> QED
  BY <1>6, <1>8, <1>9, <1>11, <1>12 DEF IInv

(* A deactivation that is refused by the trigger ends its request.          *)
LEMMA RefusedKeeps ==
  ASSUME IInv, NEW s \in Session, Stop(s), session[s].at = "counted",
         UNCHANGED <<life, rows, retired, lock, history>>
  PROVE  IInv'
<1>1. session' = [session EXCEPT ![s] = Idle] /\ Idle \in SessionType /\ Idle.at = "idle"
  BY RequestIsTyped DEF Stop, Idle
<1>2. session' \in [Session -> SessionType] /\ session'[s] = Idle
      /\ \A p \in Session \ {s} : session'[p] = session[p]
  BY <1>1 DEF IInv, TypeOK
<1>3. TypeOK'
  BY <1>2 DEF IInv, TypeOK, history
<1>4. Purging(s)' /\ Reading(s)' /\ Counting(s)'
  BY <1>1, <1>2, NotCounting DEF Purging, Reading
<1> QED
  BY <1>2, <1>3, <1>4, RequestKeeps DEF history

(* A deactivation overtakes the writers that read its entity as active; of  *)
(* a journey it knows what came after its count, and of a status the        *)
(* trigger knows that nothing is open.                                     *)
LEMMA CarriedOutKeeps ==
  ASSUME IInv, NEW s \in Session, Deactivate(s), ~Refused(session[s].entity)
  PROVE  IInv'
<1> DEFINE x == session[s].entity
           O == Overtaken(x)
<1>1. /\ session[s].at = "counted" /\ x \in Entity /\ lock[x] = NoSession
      /\ life' = (IF life[x] = "active" THEN [life EXCEPT ![x] = "inactive"] ELSE life)
      /\ session' = [O EXCEPT ![s] = Idle]
      /\ UNCHANGED <<rows, retired, lock, snapshot, removed, late, between, raw>>
  BY DEF Deactivate, IInv, Purging, history
<1>2. /\ life \in [Entity -> {"none", "active", "inactive", "gone"}]
      /\ session \in [Session -> SessionType] /\ late \subseteq Row /\ rows \subseteq Row
  BY DEF IInv, TypeOK
<1>4. /\ life' \in [Entity -> {"none", "active", "inactive", "gone"}]
      /\ \A e \in Entity : life'[e] = IF e = x /\ life[x] = "active" THEN "inactive" ELSE life[e]
  BY <1>1, <1>2
<1>5. ASSUME NEW p \in Session
      PROVE  /\ O[p] \in SessionType /\ O[p].at = session[p].at /\ O[p].row = session[p].row
             /\ session[p].at # "read" => O[p] = session[p]
             /\ session[p].at = "read" /\ x \in session[p].row.refs => O[p].overtaken
             /\ session[p].overtaken => O[p].overtaken
  <2>1. session[p] \in SessionType
    BY <1>2
  <2>2. [session[p] EXCEPT !.overtaken = TRUE] \in SessionType
    BY <2>1 DEF SessionType
  <2>3. CASE session[p].at = "read" /\ x \in session[p].row.refs
    <3>1. O[p] = [session[p] EXCEPT !.overtaken = TRUE]
      BY <2>3 DEF Overtaken
    <3> QED
      BY <2>1, <2>2, <2>3, <3>1 DEF SessionType
  <2>4. CASE ~(session[p].at = "read" /\ x \in session[p].row.refs)
    <3>1. O[p] = session[p]
      BY <2>4 DEF Overtaken
    <3> QED
      BY <2>1, <2>4, <3>1
  <2> QED
    BY <2>3, <2>4
<1>6. O \in [Session -> SessionType]
  BY <1>5 DEF Overtaken
<1> HIDE DEF O
<1>7. session' \in [Session -> SessionType] /\ session'[s] = Idle /\ Idle.at = "idle"
      /\ \A p \in Session \ {s} : session'[p] = O[p]
  BY <1>1, <1>6, RequestIsTyped DEF Idle
<1>8. TypeOK'
  BY <1>1, <1>2, <1>4, <1>7 DEF IInv, TypeOK
<1>9. \A e \in Entity : StatusesOf(e)' = StatusesOf(e)
  BY <1>2, <1>4 DEF StatusesOf, Stored
<1>10. ASSUME NEW p \in Session PROVE Purging(p)' /\ Reading(p)' /\ Counting(p)'
  <2>1. CASE p = s
    BY <1>7, <2>1, NotPurging, NotCounting DEF Reading
  <2>2. CASE p # s /\ session[p].at = "read"
    <3>1. session'[p].at = "read" /\ session'[p].row = session[p].row
          /\ (session[p].overtaken \/ x \in session[p].row.refs => session'[p].overtaken)
      BY <1>5, <1>7, <2>2
    <3>2. session[p].row.refs \subseteq Entity
      BY <2>2, RowAssumption DEF IInv, Reading
    <3> QED
      BY <1>4, <2>2, <3>1, <3>2, NotPurging, NotCounting DEF IInv, Reading
  <2>3. CASE p # s /\ session[p].at # "read"
    <3>1. session'[p] = session[p]
      BY <1>5, <1>7, <2>3
    <3>2. Undisturbed(p)
      BY <1>1, <1>4, <1>9, SessionAssumption DEF Undisturbed
    <3>3. Counting(p)'
      BY <1>1, <3>1, CountingFrame DEF IInv
    <3> QED
      BY <1>1, <2>3, <3>1, <3>2, <3>3, PurgingFrame DEF IInv, Reading
  <2> QED
    BY <2>1, <2>2, <2>3
<1>11. Ended'
  BY <1>1, <1>4 DEF IInv, Ended
<1>12. PurgesAreAccountedFor'
  <2>1. PurgeAnswersItself' /\ SnapshotIsComplete'
    BY <1>1 DEF IInv, PurgesAreAccountedFor, PurgeAnswersItself, SnapshotIsComplete
  <2>2. OnlyLateRowsDangle'
    BY <1>1, <1>2, <1>4, RowAssumption DEF IInv, PurgesAreAccountedFor, OnlyLateRowsDangle
  <2> QED
    BY <2>1, <2>2 DEF PurgesAreAccountedFor
<1>13. InactiveIsQuiet'
  <2> SUFFICES ASSUME NEW e \in Entity, life'[e] = "inactive"
               PROVE  /\ KindOf[e] = "status" => Open("process_instances", e) \subseteq late
                      /\ KindOf[e] = "journey" => Open("process_instances", e) \subseteq late \cup between
    BY <1>1 DEF InactiveIsQuiet, Open, Naming
  <2>1. CASE life[e] = "inactive"
    BY <2>1 DEF IInv, InactiveIsQuiet
  <2>2. CASE life[e] # "inactive"
    <3>1. e = x /\ life[x] = "active"
      BY <1>4, <2>2
    <3>2. KindOf[x] = "journey" => Open("process_instances", x) \subseteq between
      BY <1>1 DEF IInv, Counting
    <3>3. KindOf[x] = "status" => Open("process_instances", x) = {}
      BY <3>1 DEF Refused, JourneyInUse
    <3> QED
      BY <3>1, <3>2, <3>3
  <2> QED
    BY <2>1, <2>2
<1> QED
  BY <1>8, <1>10, <1>11, <1>12, <1>13 DEF IInv

LEMMA DeactivateKeeps ==
  ASSUME IInv, NEW s \in Session, Deactivate(s)
  PROVE  IInv'
<1>1. CASE Refused(session[s].entity)
  BY <1>1, RefusedKeeps DEF Deactivate
<1>2. CASE ~Refused(session[s].entity)
  BY <1>2, CarriedOutKeeps
<1> QED
  BY <1>1, <1>2

(* Whatever was inserted meanwhile, the keys let the delete through, and it *)
(* takes nothing along that was not listed.                                *)
LEMMA RemovalIsFree ==
  ASSUME IInv, NEW s \in Session, session[s].at = "listed"
  PROVE  LET x == session[s].entity IN
         /\ x \in Entity /\ lock[x] = s /\ life[x] = "inactive" /\ ~Restricting(x)
         /\ Cascading(x) \subseteq snapshot[x]
         /\ \A r \in rows : r.rel \in Guarded /\ x \in r.refs => r \in late
<1> DEFINE x == session[s].entity
<1>1. /\ x \in Entity /\ lock[x] = s /\ life[x] = "inactive" /\ Cascading(x) \subseteq snapshot[x]
      /\ \A rel \in Relations(x) : Cleared(rel, x)
  BY DEF IInv, Purging
<1>2. /\ NamedBy[KindOf[x]] \ Overlooked \subseteq Relations(x) \cup Cascades(x)
      /\ Cascades(x) \cap Json = {}
      /\ KindOf[x] = "journey" => "statuses" \in Relations(x)
  BY <1>1, DescriptorsCover
<1>3. \A r \in rows : x \in r.refs => r.rel \in NamedBy[KindOf[x]]
  BY <1>1, RowAssumption DEF IInv, TypeOK
<1>4. StatusesOf(x) = {}
  <2>1. CASE KindOf[x] = "journey"
    BY <1>1, <1>2, <2>1 DEF Cleared
  <2>2. CASE KindOf[x] # "journey"
    BY <1>1, <2>2, EntityAssumption DEF StatusesOf
  <2> QED
    BY <2>1, <2>2
<1>5. ASSUME NEW r \in rows \ Cascading(x), Keyed(r), x \in r.refs PROVE FALSE
  <2>1. r.rel \in NamedBy[KindOf[x]] /\ r.rel \notin Cascades(x) /\ r.rel \notin Json
    BY <1>3, <1>5 DEF Cascading, Keyed
  <2>2. r.rel \in Relations(x)
    BY <1>2, <2>1 DEF Overlooked, Json
  <2>3. r.rel # "statuses"
    <3>1. KindOf[x] \in Kind
      BY <1>1, EntityAssumption
    <3> QED
      BY <2>1, <3>1 DEF Kind, NamedBy, Json
  <2> QED
    BY <1>1, <1>5, <2>1, <2>2, <2>3 DEF Cleared, Naming
<1>6. ASSUME NEW r \in rows, r.rel \in Guarded, x \in r.refs PROVE r \in late
  <2>1. r.rel \in Relations(x)
    BY <1>2, <1>3, <1>6 DEF Guarded, Overlooked, Json
  <2> QED
    BY <1>1, <1>6, <2>1 DEF Cleared, Naming
<1> QED
  BY <1>1, <1>4, <1>5, <1>6 DEF Restricting

LEMMA RemoveKeeps ==
  ASSUME IInv, NEW s \in Session, Remove(s)
  PROVE  IInv'
<1> DEFINE x == session[s].entity
           C == Cascading(x)
<1>1. /\ session[s].at = "listed" /\ x \in Entity /\ lock[x] = s /\ life[x] = "inactive"
      /\ ~Restricting(x) /\ C \subseteq snapshot[x]
      /\ \A r \in rows : r.rel \in Guarded /\ x \in r.refs => r \in late
  BY RemovalIsFree DEF Remove
<1>2. /\ life' = [life EXCEPT ![x] = "gone"] /\ rows' = rows \ C /\ retired' = retired \ C
      /\ removed' = [removed EXCEPT ![x] = C]
      /\ session' = [session EXCEPT ![s] = Idle] /\ lock' = [lock EXCEPT ![x] = NoSession]
      /\ UNCHANGED <<late, between, raw, snapshot>>
  BY <1>1 DEF Remove, Release, Stop
<1>3. /\ life \in [Entity -> {"none", "active", "inactive", "gone"}] /\ rows \subseteq Row
      /\ removed \in [Entity -> SUBSET Row] /\ C \subseteq Row
      /\ lock \in [Entity -> Session \cup {NoSession}] /\ session \in [Session -> SessionType]
  BY DEF IInv, TypeOK, Cascading
<1> HIDE DEF C
<1>4. /\ \A e \in Entity : life'[e] = IF e = x THEN "gone" ELSE life[e]
      /\ \A e \in Entity : removed'[e] = IF e = x THEN C ELSE removed[e]
      /\ \A e \in Entity : lock'[e] = IF e = x THEN NoSession ELSE lock[e]
      /\ session'[s] = Idle /\ \A p \in Session \ {s} : session'[p] = session[p]
  BY <1>1, <1>2, <1>3
<1>5. TypeOK'
  <2>1. session' \in [Session -> SessionType]
    BY <1>2, <1>3, RequestIsTyped
  <2>2. /\ life' \in [Entity -> {"none", "active", "inactive", "gone"}]
        /\ lock' \in [Entity -> Session \cup {NoSession}]
    BY <1>2, <1>3
  <2>3. removed' \in [Entity -> SUBSET Row]
    BY <1>2, <1>3
  <2> QED
    BY <1>2, <2>1, <2>2, <2>3 DEF IInv, TypeOK
<1>6. ASSUME NEW p \in Session PROVE Purging(p)' /\ Reading(p)' /\ Counting(p)'
  <2>1. CASE p = s
    BY <1>4, <2>1, NotPurging, NotCounting DEF Reading, Idle
  <2>2. CASE p # s
    <3>1. Undisturbed(p)
      <4> SUFFICES ASSUME NEW e \in Entity, lock[e] = p
                   PROVE  /\ lock'[e] = p /\ life'[e] = life[e]
                          /\ StatusesOf(e)' \subseteq StatusesOf(e)
        BY <1>2 DEF Undisturbed
      <4> QED
        BY <1>1, <1>4, <2>2 DEF StatusesOf, Stored
    <3>2. \A e \in Entity : life[e] = "active" => life'[e] = "active"
      BY <1>1, <1>4
    <3>3. \A r \in Row : r.refs \subseteq Entity
      BY RowAssumption
    <3>4. Counting(p)'
      <4>1. \A r \in rows' \ retired' : r \in rows \ retired
        BY <1>2
      <4> QED
        BY <1>2, <1>4, <2>2, <4>1, CountingFrame DEF IInv
    <3> QED
      BY <1>2, <1>4, <2>2, <3>1, <3>2, <3>3, <3>4, PurgingFrame, ReadingFrame DEF IInv
  <2> QED
    BY <2>1, <2>2
<1>7. Ended'
  BY <1>4 DEF IInv, Ended
<1>8. PurgesAreAccountedFor'
  <2>1. PurgeAnswersItself' /\ SnapshotIsComplete'
    BY <1>1, <1>2, <1>4 DEF IInv, PurgesAreAccountedFor, PurgeAnswersItself, SnapshotIsComplete
  <2>2. OnlyLateRowsDangle'
    <3> SUFFICES ASSUME NEW r \in rows', r.rel \in Guarded, r \notin late, NEW e \in r.refs
                 PROVE  life'[e] # "gone"
      BY <1>2 DEF OnlyLateRowsDangle, Guarded
    <3>1. r \in rows /\ e \in Entity /\ life[e] # "gone"
      BY <1>2, <1>3, RowAssumption DEF IInv, PurgesAreAccountedFor, OnlyLateRowsDangle, Guarded
    <3>2. e # x
      BY <1>1, <3>1
    <3> QED
      BY <1>4, <3>1, <3>2
  <2> QED
    BY <2>1, <2>2 DEF PurgesAreAccountedFor
<1>9. InactiveIsQuiet'
  BY <1>2, <1>4 DEF IInv, InactiveIsQuiet, Open, Naming
<1> QED
  BY <1>5, <1>6, <1>7, <1>8, <1>9 DEF IInv

-----------------------------------------------------------------------------
LEMMA InitIInv ==
  ASSUME Init
  PROVE  IInv
<1>1. TypeOK
  BY RequestIsTyped DEF Init, TypeOK
<1>2. \A s \in Session : Purging(s) /\ Reading(s) /\ Counting(s)
  BY DEF Init, Idle, Purging, Reading, Counting
<1>3. Ended /\ PurgesAreAccountedFor
  BY DEF Init, Ended, PurgesAreAccountedFor, PurgeAnswersItself, SnapshotIsComplete,
         OnlyLateRowsDangle, Stored
<1>4. InactiveIsQuiet
  BY DEF Init, InactiveIsQuiet, Open, Naming, CheckedFirst
<1> QED
  BY <1>1, <1>2, <1>3, <1>4 DEF IInv

LEMMA NextKeeps ==
  ASSUME IInv, [Next]_vars
  PROVE  IInv'
<1>1. CASE UNCHANGED vars
  <2>1. TypeOK'
    BY <1>1 DEF vars, IInv, TypeOK
  <2>2. \A s \in Session : Undisturbed(s)
    BY <1>1, NothingNew DEF vars
  <2> QED
    BY <1>1, <2>1, <2>2, WorldKeeps DEF vars, history
<1>2. CASE \E e \in Entity : Create(e) \/ Reactivate(e)
  BY <1>2, CreateKeeps, ReactivateKeeps
<1>3. CASE \E r \in Row : Put(r) \/ Restore(r) \/ Retire(r) \/ Withdraw(r)
  BY <1>3, PutKeeps, RowsKeep
<1>4. ASSUME NEW s \in Session,
             \/ \E r \in Row : Read(s, r)
             \/ \E e \in Entity : Count(s, e)
             \/ Insert(s) \/ Deactivate(s)
      PROVE  IInv'
  BY <1>4, ReadKeeps, CountKeeps, InsertKeeps, DeactivateKeeps
<1>5. ASSUME NEW s \in Session, Purge(s) PROVE IInv'
  <2>1. CASE Refuse(s)
    BY <2>1, GiveUpKeeps DEF Refuse
  <2> QED
    BY <1>5, <2>1, LockKeeps, LookKeeps, CountBlockerKeeps, ListKeeps, RemoveKeeps DEF Purge
<1> QED
  BY <1>1, <1>2, <1>3, <1>4, <1>5 DEF Next

(* What each purge and each writer knows at each of its statements holds in *)
(* every reachable state, for any configuration and any requests.          *)
THEOREM Invariant == Spec => []IInv
<1>1. Init => IInv
  BY InitIInv
<1>2. IInv /\ [Next]_vars => IInv'
  BY NextKeeps
<1> QED
  BY <1>1, <1>2, PTL DEF Spec

(* What a purge and a writer keep between their statements has its type.    *)
THEOREM TypeCorrect == Spec => []TypeOK
<1>1. IInv => TypeOK
  BY DEF IInv
<1> QED
  BY <1>1, Invariant, PTL

(* A purge never ends in a foreign-key error, its audit row has every row   *)
(* that went with the entity, and a lead's value or an import that still    *)
(* names what is gone was written by one who had read it while active.     *)
THEOREM PurgesStayAccountedFor == Spec => []PurgesAreAccountedFor
<1>1. IInv => PurgesAreAccountedFor
  BY DEF IInv
<1> QED
  BY <1>1, Invariant, PTL

(* For any configuration and any requests: an open instance of an inactive  *)
(* status was inserted by a request that had read it as active before; of   *)
(* an inactive journey by such a one, or between the count of its          *)
(* deactivation and its write.                                             *)
THEOREM InactiveStaysQuiet == Spec => []InactiveIsQuiet
<1>1. IInv => InactiveIsQuiet
  BY DEF IInv
<1> QED
  BY <1>1, Invariant, PTL

(* No step deletes an entity that is not inactive at that very step.        *)
THEOREM OnlyInactiveArePurged == Spec => PurgesTheInactive
<1>1. ASSUME IInv, [Next]_vars, NEW e \in Entity, life[e] # "gone", life'[e] = "gone"
      PROVE  life[e] = "inactive"
  <2>1. PICK s \in Session : Remove(s)
    <3>1. life \in [Entity -> {"none", "active", "inactive", "gone"}]
      BY <1>1 DEF IInv, TypeOK
    <3> QED
      BY <1>1, <3>1
         DEF Next, vars, Create, CreateJourney, CreateStatus, CreateService, Born, Reactivate, Put,
             Restore, Retire, Withdraw, Read, Count, Insert, Deactivate, Purge, Lock, Look,
             CountBlocker, Refuse, List
  <2>2. session[s].entity \in Entity /\ life[session[s].entity] = "inactive"
    BY <1>1, <2>1 DEF IInv, Purging, Remove
  <2>3. life' = life \/ life' = [life EXCEPT ![session[s].entity] = "gone"]
    BY <2>1 DEF Remove
  <2>4. life \in [Entity -> {"none", "active", "inactive", "gone"}]
    BY <1>1 DEF IInv, TypeOK
  <2>5. life' # life
    BY <1>1
  <2>6. e = session[s].entity
    BY <1>1, <2>2, <2>3, <2>4, <2>5
  <2> QED
    BY <2>2, <2>6
<1>2. IInv /\ [Next]_vars =>
        [\A e \in Entity : life[e] # "gone" /\ life'[e] = "gone" => life[e] = "inactive"]_vars
  BY <1>1
<1> QED
  BY <1>2, Invariant, PTL DEF Spec, PurgesTheInactive

-----------------------------------------------------------------------------
(* The values of a lead and the formulas of its fields.                     *)

(* A request on a field or a journey names one; and a formula under way whose *)
(* check is not stale refers to no calculated field, itself included.       *)
OnField(q) == q.at \in {"create", "update", "deactivate"}
OnLead(q) == q.at \in {"lead", "edit", "move"}

Fresh(q) ==
  q.at \in {"create", "update"} /\ ~q.stale /\ q.as.mode = "calculated" =>
    q.as.formula.of \notin Calculated \cup {q.field}

(* What a write of values worked out is right by the settings it read: by    *)
(* the present ones, but for the fields configured anew since.              *)
Settled(q) ==
  /\ \A f \in MappedIn(q.journey) \cap Calculated : FormulaHolds(f, q.journey, q.changed, q.values)
  /\ \A f \in Active \ q.changed : field[f].mode = "locked" => q.values[f] = q.read[f] \/ q.read[f] = Missing

FieldsInv ==
  /\ FieldsTypeOK /\ FormulasEnd
  /\ \A s \in Writer : /\ OnField(write[s]) => write[s].field \in Field
                       /\ OnLead(write[s]) => write[s].journey \in Journey
                       /\ Fresh(write[s])
                       /\ write[s].checked => OnLead(write[s]) /\ Settled(write[s])

LEMMA UnwrittenIs ==
  /\ Unwritten \in WriteType /\ ~OnField(Unwritten) /\ ~OnLead(Unwritten) /\ Fresh(Unwritten)
  /\ Unwritten.checked = FALSE
<1>1. [mode |-> "manual", formula |-> NoFormula] \in Definition
  BY DEF Definition, Mode
<1>2. [g \in {} |-> 0] \in Given
  <2>1. [g \in {} |-> 0] \in [{} -> Value]
    OBVIOUS
  <2> QED
    BY <2>1 DEF Given
<1>3. [f \in Field |-> Missing] \in Values
  BY DEF Values
<1> QED
  BY <1>1, <1>2, <1>3 DEF Unwritten, WriteType, OnField, OnLead, Fresh

LEMMA DefinitionsAre ==
  ASSUME NEW d \in Definition
  PROVE  /\ d.mode \in Mode /\ d.formula \in Formula \cup {NoFormula}
         /\ d.mode = "calculated" <=> d.formula # NoFormula
         /\ d.mode = "calculated" <=> d.formula \in Formula
BY LeadFieldsAssumption DEF Definition, Formula, NoFormula, Mode

LEMMA CalculatedAre ==
  ASSUME FieldsTypeOK, NEW f \in Calculated
  PROVE  f \in Field /\ field[f].formula \in Formula /\ field[f].formula.of \in Field
BY DEF FieldsTypeOK, Calculated, Active, FieldType, Formula

(* What others configure is counted as changed.                             *)
LEMMA SettledStays ==
  ASSUME FieldsTypeOK, NEW s \in Writer, write[s].journey \in Journey, Settled(write[s]),
         write'[s].journey = write[s].journey, write'[s].read = write[s].read,
         write'[s].values = write[s].values, write[s].changed \subseteq write'[s].changed,
         \A f \in Field \ write'[s].changed :
           /\ field'[f].life = field[f].life /\ field'[f].mode = field[f].mode
           /\ field'[f].formula = field[f].formula
           /\ setting'[write[s].journey][f] = setting[write[s].journey][f]
  PROVE  Settled(write[s])'
<1> DEFINE j == write[s].journey
           C == write'[s].changed
<1>1. \A f \in Field \ C : f \in Active' <=> f \in Active
  BY DEF Active
<1>2. \A f \in Field \ C : f \in MappedIn(j)' \cap Calculated' <=> f \in MappedIn(j) \cap Calculated
  BY <1>1 DEF MappedIn, Calculated
<1>3. MappedIn(j)' \subseteq Field /\ Active' \subseteq Field
  BY DEF MappedIn, Active
<1>4. ASSUME NEW f \in MappedIn(j)' \cap Calculated', f \notin C,
             field'[f].formula.of \notin C \cup (MappedIn(j)' \cap Calculated')
      PROVE  write'[s].values[f] = Compute(field'[f].formula, write'[s].values)
  <2>1. f \in MappedIn(j) \cap Calculated /\ field'[f].formula = field[f].formula /\ f \notin write[s].changed
    BY <1>2, <1>3, <1>4
  <2>2. field[f].formula.of \in Field
    BY <2>1, CalculatedAre
  <2>3. field[f].formula.of \notin write[s].changed \cup (MappedIn(j) \cap Calculated)
    BY <1>2, <1>4, <2>1, <2>2
  <2>4. write[s].values[f] = Compute(field[f].formula, write[s].values)
    BY <2>1, <2>3 DEF Settled, FormulaHolds
  <2> QED
    BY <2>1, <2>4
<1>5. ASSUME NEW f \in Active' \ C, field'[f].mode = "locked"
      PROVE  write'[s].values[f] = write'[s].read[f] \/ write'[s].read[f] = Missing
  <2>1. f \in Active \ write[s].changed /\ field[f].mode = "locked"
    BY <1>1, <1>3, <1>5
  <2> QED
    BY <2>1 DEF Settled
<1>6. \A f \in MappedIn(j)' \cap Calculated' :
        FormulaHolds(f, write[s].journey, write[s].changed, write[s].values)'
  BY <1>4 DEF FormulaHolds
<1>7. \A f \in Active' \ C : field'[f].mode = "locked" =>
        write'[s].values[f] = write'[s].read[f] \/ write'[s].read[f] = Missing
  BY <1>5
<1> HIDE DEF FormulaHolds
<1> QED
  BY <1>6, <1>7 DEF Settled

(* A step of one request that leaves the fields as they are.                 *)
LEMMA RequestMoves ==
  ASSUME FieldsInv, NEW s \in Writer, NEW q \in WriteType, write' = [write EXCEPT ![s] = q],
         UNCHANGED <<field, raced>>, setting' = setting, begun' \in 0 .. MaxRequest,
         place' \subseteq Journey, lead' \in Values,
         OnField(q) => q.field \in Field, OnLead(q) => q.journey \in Journey, Fresh(q),
         q.checked => OnLead(q) /\ Settled(q)
  PROVE  FieldsInv'
<1> USE DEF FieldsInv
<1>1. write' \in [Writer -> WriteType]
  BY DEF FieldsTypeOK
<1>2. FieldsTypeOK'
  BY <1>1 DEF FieldsTypeOK
<1>3. Calculated' = Calculated
  BY DEF Calculated, Active
<1>4. FormulasEnd'
  BY <1>3 DEF FormulasEnd
<1>5. \A v \in Writer : write'[v] = IF v = s THEN q ELSE write[v]
  BY DEF FieldsTypeOK
<1>6. ASSUME NEW v \in Writer
      PROVE  /\ OnField(write'[v]) => write'[v].field \in Field
             /\ OnLead(write'[v]) => write'[v].journey \in Journey
             /\ Fresh(write[v])'
  <2>1. CASE v = s
    BY <1>3, <1>5, <2>1 DEF Fresh
  <2>2. CASE v # s
    BY <1>3, <1>5, <2>2 DEF Fresh
  <2> QED
    BY <2>1, <2>2
<1>7. Active' = Active /\ \A j : MappedIn(j)' = MappedIn(j)
  BY DEF Active, MappedIn
<1>8. ASSUME NEW v \in Writer, write'[v].checked PROVE OnLead(write'[v]) /\ Settled(write[v])'
  <2>1. OnLead(write'[v]) /\ Settled(write'[v])
    BY <1>5, <1>8
  <2>2. ASSUME NEW r, r = write'[v], Settled(r) PROVE Settled(write[v])'
    <3>1. MappedIn(write[v].journey)' = MappedIn(r.journey)
      BY <2>2, <1>7
    <3>2. \A f \in MappedIn(r.journey) \cap Calculated :
            FormulaHolds(f, r.journey, r.changed, r.values) => FormulaHolds(f, write[v].journey, write[v].changed, write[v].values)'
      BY <2>2, <3>1, <1>3 DEF FormulaHolds, Compute
    <3> QED
      BY <2>2, <3>1, <3>2, <1>3, <1>7 DEF Settled
  <2> QED
    BY <2>1, <2>2
<1> QED
  BY <1>2, <1>4, <1>6, <1>8 DEF OnField, OnLead

LEMMA FieldsInitOK == FieldsInit => FieldsInv
<1> SUFFICES ASSUME FieldsInit PROVE FieldsInv
  OBVIOUS
<1> USE LeadFieldsAssumption
<1>1. PICK w \in Worlds : field = w.field /\ setting = w.setting /\ place = w.place /\ lead = w.lead
  BY DEF FieldsInit
<1>2. \A s \in Writer : write[s] = Unwritten
  BY DEF FieldsInit
<1>3. FieldsTypeOK
  BY <1>1, UnwrittenIs DEF FieldsInit, FieldsTypeOK
<1>4. FormulasEnd
  <2>1. Calculated = {f \in Field : w.field[f].life = "active" /\ w.field[f].mode = "calculated"}
    BY <1>1 DEF Calculated, Active
  <2> QED
    BY <1>1, <2>1 DEF FormulasEnd
<1> QED
  BY <1>2, <1>3, <1>4, UnwrittenIs DEF FieldsInv

-----------------------------------------------------------------------------
(* Fields.                                                                  *)

LEMMA ReferencesAreFresh ==
  ASSUME FieldsTypeOK, NEW f \in Field, NEW d \in Definition, References(f, d), d.mode = "calculated"
  PROVE  d.formula.of \notin Calculated \cup {f}
BY DEF References

LEMMA BeginsFields ==
  ASSUME FieldsInv, NEW s \in Writer, NEW f \in Field,
         \/ \E d \in Definition : CreateField(s, f, d) \/ UpdateField(s, f, d)
         \/ DeactivateField(s, f)
  PROVE  FieldsInv'
<1> USE LeadFieldsAssumption
<1>1. FieldsTypeOK /\ begun \in Nat
  BY DEF FieldsInv, FieldsTypeOK
<1>2. Cardinality(Active) \in Nat
  BY FS_Subset, FS_CardinalityType DEF Active
<1>3. UNCHANGED <<field, setting, place, lead, raced>> /\ place \subseteq Journey /\ lead \in Values
  BY <1>1 DEF CreateField, UpdateField, DeactivateField, FieldsTypeOK
<1>4. begun' \in 0 .. MaxRequest
  <2>1. begun < MaxRequest /\ begun' = begun + 1
    BY DEF CreateField, UpdateField, DeactivateField, Begin
  <2> QED
    BY <1>1, <2>1
<1>5. Unwritten \in WriteType /\ Unwritten.as \in Definition /\ ~Unwritten.stale /\ Unwritten.checked = FALSE
  BY UnwrittenIs DEF WriteType, Unwritten
<1>6. ASSUME NEW d \in Definition, CreateField(s, f, d) PROVE FieldsInv'
  <2> DEFINE q == [Unwritten EXCEPT !.at = "create", !.field = f, !.as = d, !.order = Cardinality(Active)]
  <2>1. write' = [write EXCEPT ![s] = q] /\ References(f, d)
    BY <1>6 DEF CreateField, Begin
  <2>2. q \in WriteType /\ q.at = "create" /\ q.field = f /\ q.as = d /\ ~q.checked
    BY <1>2, <1>5 DEF WriteType
  <2> HIDE DEF q
  <2>3. Fresh(q)
    BY <1>1, <2>1, <2>2, ReferencesAreFresh DEF Fresh
  <2> QED
    BY <1>3, <1>4, <2>1, <2>2, <2>3, RequestMoves DEF OnLead
<1>7. ASSUME NEW d \in Definition, UpdateField(s, f, d) PROVE FieldsInv'
  <2> DEFINE q == [Unwritten EXCEPT !.at = "update", !.field = f, !.as = d]
  <2>1. write' = [write EXCEPT ![s] = q] /\ References(f, d)
    BY <1>7 DEF UpdateField, Begin
  <2>2. q \in WriteType /\ q.at = "update" /\ q.field = f /\ q.as = d /\ ~q.checked
    BY <1>5 DEF WriteType
  <2> HIDE DEF q
  <2>3. Fresh(q)
    BY <1>1, <2>1, <2>2, ReferencesAreFresh DEF Fresh
  <2> QED
    BY <1>3, <1>4, <2>1, <2>2, <2>3, RequestMoves DEF OnLead
<1>8. CASE DeactivateField(s, f)
  <2> DEFINE q == [Unwritten EXCEPT !.at = "deactivate", !.field = f]
  <2>1. write' = [write EXCEPT ![s] = q]
    BY <1>8 DEF DeactivateField, Begin
  <2>2. q \in WriteType /\ q.at = "deactivate" /\ q.field = f /\ ~q.checked
    BY <1>5 DEF WriteType
  <2> HIDE DEF q
  <2> QED
    BY <1>3, <1>4, <2>1, <2>2, RequestMoves DEF OnLead, Fresh
<1> QED
  BY <1>6, <1>7, <1>8

LEMMA BehindIs ==
  ASSUME NEW q \in WriteType, NEW f \in Field
  PROVE  /\ Behind(q, f) \in WriteType
         /\ Behind(q, f).at = q.at /\ Behind(q, f).field = q.field /\ Behind(q, f).journey = q.journey
         /\ Behind(q, f).as = q.as /\ Behind(q, f).stale = q.stale /\ Behind(q, f).checked = q.checked
         /\ Behind(q, f).read = q.read /\ Behind(q, f).values = q.values
         /\ Behind(q, f).changed = q.changed \cup {f}
BY DEF Behind, WriteType

(* What a write of a field leaves there.                                     *)
LEMMA WrittenIs ==
  ASSUME FieldsInv, NEW s \in Writer, WriteField(s)
  PROVE  LET q == write[s]  f == q.field  IN
         /\ f \in Field /\ q \in WriteType /\ field'[f] \in FieldType
         /\ \A g \in Field \ {f} : field'[g] = field[g]
         /\ field' \in [Field -> FieldType]
         /\ field'[f].mode = "calculated" <=> field'[f].formula # NoFormula
         /\ q.at \in {"create", "update"} => field'[f].mode = q.as.mode /\ field'[f].formula = q.as.formula
         /\ q.at = "deactivate" => field'[f].life = "inactive"
         /\ OnField(q)
<1> DEFINE q == write[s]
           f == q.field
           new == CASE q.at = "create" -> [life |-> "active", mode |-> q.as.mode, formula |-> q.as.formula,
                                           order |-> q.order]
                    [] q.at = "update" -> [field[f] EXCEPT !.mode = q.as.mode, !.formula = q.as.formula]
                    [] q.at = "deactivate" -> [field[f] EXCEPT !.life = "inactive"]
<1>1. OnField(q) /\ q \in WriteType /\ f \in Field
  BY DEF WriteField, OnField, FieldsInv, FieldsTypeOK
<1>2. field' = [field EXCEPT ![f] = new]
  BY <1>1 DEF WriteField, FieldsInv, FieldsTypeOK
<1>3. q.as \in Definition /\ q.order \in Nat /\ field[f] \in FieldType
  BY <1>1 DEF WriteType, FieldsInv, FieldsTypeOK
<1>4. q.at \in {"create", "update", "deactivate"}
  BY <1>1 DEF OnField
<1>5. /\ q.as.mode \in Mode /\ q.as.formula \in Formula \cup {NoFormula}
      /\ q.as.mode = "calculated" <=> q.as.formula # NoFormula
  BY <1>3, DefinitionsAre
<1>6. field[f].mode = "calculated" <=> field[f].formula # NoFormula
  BY <1>1 DEF FieldsInv, FieldsTypeOK
<1>7. /\ new \in FieldType
      /\ new.mode = "calculated" <=> new.formula # NoFormula
      /\ q.at \in {"create", "update"} => new.mode = q.as.mode /\ new.formula = q.as.formula
      /\ q.at = "deactivate" => new.life = "inactive"
  <2>1. CASE q.at = "create"
    BY <1>3, <1>5, <2>1 DEF FieldType
  <2>2. CASE q.at = "update"
    BY <1>3, <1>5, <2>2 DEF FieldType
  <2>3. CASE q.at = "deactivate"
    BY <1>3, <1>6, <2>3 DEF FieldType
  <2> QED
    BY <1>4, <2>1, <2>2, <2>3
<1> HIDE DEF new
<1>8. field \in [Field -> FieldType]
  BY DEF FieldsInv, FieldsTypeOK
<1> QED
  BY <1>1, <1>2, <1>7, <1>8

LEMMA WritesFields ==
  ASSUME FieldsInv, NEW s \in Writer, WriteField(s)
  PROVE  FieldsInv'
<1> USE LeadFieldsAssumption
<1> DEFINE q == write[s]
           f == q.field
<1>1. /\ f \in Field /\ q \in WriteType /\ field'[f] \in FieldType /\ OnField(q)
      /\ \A g \in Field \ {f} : field'[g] = field[g]
      /\ field' \in [Field -> FieldType]
      /\ field'[f].mode = "calculated" <=> field'[f].formula # NoFormula
      /\ q.at \in {"create", "update"} => field'[f].mode = q.as.mode /\ field'[f].formula = q.as.formula
      /\ q.at = "deactivate" => field'[f].life = "inactive"
  BY WrittenIs
<1>2. /\ raced' = (IF q.stale THEN raced \cup {f} ELSE raced)
      /\ write' = [Restale(f) EXCEPT ![s] = Unwritten]
      /\ UNCHANGED <<setting, place, lead, begun>>
  BY DEF WriteField
<1>3. FieldsTypeOK /\ FormulasEnd
  BY DEF FieldsInv
<1>4. /\ write'[s] = Unwritten
      /\ \A v \in Writer \ {s} :
           \/ /\ write'[v] = write[v] /\ ~write[v].checked
              /\ ~(write[v].at \in {"create", "update"} /\ write[v].as.formula.of = f)
           \/ write[v].at \in {"create", "update"} /\ write'[v] = [write[v] EXCEPT !.stale = TRUE]
           \/ write[v].checked /\ write'[v] = Behind(write[v], f)
  BY <1>2 DEF Restale
<1>5. write' \in [Writer -> WriteType]
  <2>1. \A v \in Writer : Restale(f)[v] \in WriteType
    <3> SUFFICES ASSUME NEW v \in Writer PROVE Restale(f)[v] \in WriteType
      OBVIOUS
    <3>1. write[v] \in WriteType
      BY <1>3 DEF FieldsTypeOK
    <3>2. [write[v] EXCEPT !.stale = TRUE] \in WriteType
      BY <3>1 DEF WriteType
    <3>3. Behind(write[v], f) \in WriteType
      BY <1>1, <3>1, BehindIs
    <3> QED
      BY <3>1, <3>2, <3>3 DEF Restale
  <2>2. Restale(f) \in [Writer -> WriteType]
    BY <2>1 DEF Restale
  <2> QED
    BY <1>2, <2>2, UnwrittenIs
<1>6. FieldsTypeOK'
  <2>1. \A g \in Field : field'[g].mode = "calculated" <=> field'[g].formula # NoFormula
    BY <1>1, <1>3 DEF FieldsTypeOK
  <2> QED
    BY <1>1, <1>2, <1>3, <1>5, <2>1 DEF FieldsTypeOK
<1>7. \A g \in Field \ {f} : g \in Calculated' <=> g \in Calculated
  BY <1>1 DEF Calculated, Active
<1>8. f \in Calculated' => q.at \in {"create", "update"} /\ q.as.mode = "calculated"
  BY <1>1 DEF Calculated, Active, OnField
<1>9. Fresh(q)
  BY DEF FieldsInv
<1>10. FormulasEnd'
  <2> SUFFICES ASSUME NEW S \in SUBSET Calculated', S # {}, \A g \in S : field'[g].formula.of \in S
               PROVE  S \cap raced' # {}
    BY DEF FormulasEnd
  <2>1. S \subseteq Field
    BY DEF Calculated, Active
  <2>2. CASE f \notin S
    <3>1. S \in SUBSET Calculated /\ \A g \in S : field[g].formula.of \in S
      BY <1>1, <1>7, <2>1, <2>2
    <3> QED
      BY <1>2, <1>3, <3>1 DEF FormulasEnd
  <2>3. CASE f \in S /\ q.stale
    BY <1>2, <2>3
  <2>4. CASE f \in S /\ ~q.stale
    <3>1. q.at \in {"create", "update"} /\ q.as.mode = "calculated"
      BY <1>8, <2>4
    <3>2. q.as.formula.of \notin Calculated \cup {f}
      BY <1>9, <2>4, <3>1 DEF Fresh
    <3>3. q.as.formula.of \in S
      BY <1>1, <2>4, <3>1
    <3> QED
      BY <1>7, <2>1, <3>2, <3>3
  <2> QED
    BY <2>2, <2>3, <2>4
<1>11. ASSUME NEW v \in Writer
       PROVE  /\ OnField(write'[v]) => write'[v].field \in Field
              /\ OnLead(write'[v]) => write'[v].journey \in Journey
              /\ Fresh(write[v])'
              /\ write'[v].checked => OnLead(write'[v]) /\ Settled(write[v])'
  <2>1. CASE v = s
    BY <1>4, <2>1, UnwrittenIs DEF OnField, OnLead, Fresh, Unwritten
  <2>2. CASE v # s /\ write[v].at \in {"create", "update"} /\ write'[v] = [write[v] EXCEPT !.stale = TRUE]
    <3>1. write[v] \in WriteType /\ ~write[v].checked
      BY <1>3, <2>2 DEF FieldsTypeOK, FieldsInv, OnLead
    <3>2. /\ write'[v].at = write[v].at /\ write'[v].field = write[v].field
          /\ write'[v].journey = write[v].journey /\ write'[v].stale /\ ~write'[v].checked
      BY <2>2, <3>1 DEF WriteType
    <3> QED
      BY <3>2 DEF OnField, OnLead, Fresh, FieldsInv
  <2>3. CASE /\ v # s /\ write'[v] = write[v] /\ ~write[v].checked
             /\ ~(write[v].at \in {"create", "update"} /\ write[v].as.formula.of = f)
    <3>1. ASSUME write[v].at \in {"create", "update"}, ~write[v].stale, write[v].as.mode = "calculated"
          PROVE  write[v].as.formula.of \notin Calculated' \cup {write[v].field}
      <4>1. write[v].as.formula.of \notin Calculated \cup {write[v].field}
        BY <3>1 DEF FieldsInv, Fresh
      <4>2. write[v].as \in Definition
        BY <1>3 DEF FieldsTypeOK, WriteType
      <4>3. write[v].as.formula.of \in Field
        BY <3>1, <4>2, DefinitionsAre DEF Formula
      <4> QED
        BY <1>7, <2>3, <3>1, <4>1, <4>3
    <3> QED
      BY <2>3, <3>1 DEF OnField, OnLead, Fresh, FieldsInv
  <2>4. CASE v # s /\ write[v].checked /\ write'[v] = Behind(write[v], f)
    <3>1. write[v] \in WriteType /\ OnLead(write[v]) /\ Settled(write[v]) /\ write[v].journey \in Journey
      BY <1>3, <2>4 DEF FieldsTypeOK, FieldsInv
    <3>2. /\ write'[v].at = write[v].at /\ write'[v].journey = write[v].journey
          /\ write'[v].read = write[v].read /\ write'[v].values = write[v].values
          /\ write'[v].changed = write[v].changed \cup {f}
      BY <1>1, <2>4, <3>1, BehindIs
    <3>3. Settled(write[v])'
      BY <1>1, <1>2, <1>3, <3>1, <3>2, SettledStays
    <3> QED
      BY <3>1, <3>2, <3>3 DEF OnField, OnLead, Fresh
  <2> QED
    BY <1>4, <2>1, <2>2, <2>3, <2>4
<1> QED
  BY <1>6, <1>10, <1>11 DEF FieldsInv, OnField, OnLead

(* A step that leaves the modes and the formulas alone, and of the requests  *)
(* changes only what is behind.                                             *)
LEMMA OrderMoves ==
  ASSUME FieldsInv, field' \in [Field -> FieldType], setting' \in [Journey -> [Field -> Requirement]],
         \A f \in Field : /\ field'[f].life = field[f].life /\ field'[f].mode = field[f].mode
                          /\ field'[f].formula = field[f].formula,
         begun' \in 0 .. MaxRequest, UNCHANGED <<place, lead, raced>>,
         write' \in [Writer -> WriteType],
         \A s \in Writer :
           \/ write'[s] = write[s]
           \/ write[s].checked /\ \E f \in Field : write'[s] = Behind(write[s], f),
         \A s \in Writer, f \in Field :
           write[s].checked /\ f \notin write'[s].changed =>
             setting'[write[s].journey][f] = setting[write[s].journey][f]
  PROVE  FieldsInv'
<1> USE DEF FieldsInv
<1>1. Calculated' = Calculated
  BY DEF Calculated, Active
<1>2. FieldsTypeOK'
  BY DEF FieldsTypeOK
<1>3. FormulasEnd'
  <2>1. \A f \in Calculated : field'[f].formula = field[f].formula
    BY DEF Calculated, Active
  <2> QED
    BY <1>1, <2>1 DEF FormulasEnd
<1>4. ASSUME NEW s \in Writer
      PROVE  /\ write'[s].at = write[s].at /\ write'[s].field = write[s].field /\ write'[s].as = write[s].as
             /\ write'[s].stale = write[s].stale /\ write'[s].checked = write[s].checked
             /\ write'[s].journey = write[s].journey /\ write'[s].read = write[s].read
             /\ write'[s].values = write[s].values /\ write[s].changed \subseteq write'[s].changed
  <2>1. write[s] \in WriteType
    BY DEF FieldsTypeOK
  <2> QED
    BY <2>1, BehindIs
<1>5. \A s \in Writer : Fresh(write[s])'
  BY <1>1, <1>4 DEF Fresh
<1>6. ASSUME NEW s \in Writer, write'[s].checked PROVE OnLead(write'[s]) /\ Settled(write[s])'
  <2>1. OnLead(write[s]) /\ Settled(write[s]) /\ write[s].journey \in Journey /\ write[s].checked
    BY <1>4, <1>6
  <2>2. Settled(write[s])'
    BY <1>4, <2>1, SettledStays
  <2> QED
    BY <1>4, <2>1, <2>2 DEF OnLead
<1> QED
  BY <1>2, <1>3, <1>4, <1>5, <1>6 DEF OnField, OnLead

LEMMA Reorders ==
  ASSUME FieldsInv, NEW F \in SUBSET Field, NEW at \in [F -> 0 .. Cardinality(F) - 1], ReorderFields(F, at)
  PROVE  FieldsInv'
<1>1. Cardinality(F) \in Nat
  BY LeadFieldsAssumption, FS_Subset, FS_CardinalityType
<1>2. \A f \in F : at[f] \in Nat
  BY <1>1
<1>3. field \in [Field -> FieldType] /\ setting \in [Journey -> [Field -> Requirement]] /\ begun \in 0 .. MaxRequest
  BY DEF FieldsInv, FieldsTypeOK
<1>4. /\ field' = [f \in Field |-> IF f \in F THEN [field[f] EXCEPT !.order = at[f]] ELSE field[f]]
      /\ begun < MaxRequest /\ begun' = begun + 1 /\ UNCHANGED <<setting, place, lead, write, raced>>
  BY DEF ReorderFields
<1>5. ASSUME NEW f \in Field
      PROVE  /\ field'[f] \in FieldType /\ field'[f].life = field[f].life /\ field'[f].mode = field[f].mode
             /\ field'[f].formula = field[f].formula
  <2>1. field[f] \in FieldType
    BY <1>3
  <2>2. CASE f \in F
    BY <1>2, <1>4, <2>1, <2>2 DEF FieldType
  <2>3. CASE f \notin F
    BY <1>4, <2>1, <2>3
  <2> QED
    BY <2>2, <2>3
<1>6. field' \in [Field -> FieldType]
  BY <1>4, <1>5
<1>7. begun' \in 0 .. MaxRequest
  BY <1>3, <1>4, LeadFieldsAssumption
<1>8. write' \in [Writer -> WriteType]
  BY <1>4 DEF FieldsInv, FieldsTypeOK
<1> QED
  BY <1>3, <1>4, <1>5, <1>6, <1>7, <1>8, OrderMoves

LEMMA Maps ==
  ASSUME FieldsInv, NEW j \in Journey, NEW f \in Field, NEW q \in Requirement, MapField(j, f, q)
  PROVE  FieldsInv'
<1>1. /\ field \in [Field -> FieldType] /\ setting \in [Journey -> [Field -> Requirement]]
      /\ begun \in 0 .. MaxRequest /\ write \in [Writer -> WriteType]
  BY DEF FieldsInv, FieldsTypeOK
<1>2. /\ setting' = [setting EXCEPT ![j][f] = q]
      /\ begun < MaxRequest /\ begun' = begun + 1 /\ UNCHANGED <<field, place, lead, raced>>
      /\ write' = [s \in Writer |-> IF write[s].checked /\ write[s].journey = j
                                     THEN Behind(write[s], f) ELSE write[s]]
  BY DEF MapField
<1>3. setting' \in [Journey -> [Field -> Requirement]]
  BY <1>1, <1>2
<1>4. begun' \in 0 .. MaxRequest
  BY <1>1, <1>2, LeadFieldsAssumption
<1>5. \A s \in Writer : write'[s] = IF write[s].checked /\ write[s].journey = j
                                     THEN Behind(write[s], f) ELSE write[s]
  BY <1>2
<1>6. \A s \in Writer : write[s] \in WriteType /\ Behind(write[s], f) \in WriteType
                        /\ Behind(write[s], f).changed = write[s].changed \cup {f}
  BY <1>1, BehindIs
<1>7. write' \in [Writer -> WriteType]
  BY <1>2, <1>6
<1>8. ASSUME NEW s \in Writer, NEW g \in Field, write[s].checked, g \notin write'[s].changed
      PROVE  setting'[write[s].journey][g] = setting[write[s].journey][g]
  <2>1. write[s].journey # j \/ g # f
    BY <1>5, <1>6, <1>8
  <2>2. write[s].journey \in Journey
    BY <1>8 DEF FieldsInv
  <2> QED
    BY <1>1, <1>2, <2>1, <2>2
<1> QED
  BY <1>1, <1>2, <1>3, <1>4, <1>5, <1>7, <1>8, OrderMoves

-----------------------------------------------------------------------------
(* Leads.                                                                   *)

LEMMA BeginsLeads ==
  ASSUME FieldsInv, NEW s \in Writer, NEW j \in Journey,
         \/ \E given \in Given : CreateLead(s, j, given) \/ EditLead(s, j, given)
         \/ \E i \in Journey : MoveJourney(s, i, j)
  PROVE  FieldsInv'
<1>1. FieldsTypeOK /\ lead \in Values /\ place \subseteq Journey /\ begun \in 0 .. MaxRequest
  BY DEF FieldsInv, FieldsTypeOK
<1>2. UNCHANGED <<field, setting, place, lead, raced>> /\ begun < MaxRequest /\ begun' = begun + 1
  BY DEF CreateLead, EditLead, MoveJourney, Begin
<1>3. begun' \in 0 .. MaxRequest
  BY <1>1, <1>2, LeadFieldsAssumption
<1>4. Unwritten \in WriteType /\ Unwritten.checked = FALSE
  BY UnwrittenIs
<1>5. ASSUME NEW q \in WriteType, write' = [write EXCEPT ![s] = q], q.at \in {"lead", "edit", "move"}, q.journey = j,
             ~q.checked
      PROVE  FieldsInv'
  BY <1>1, <1>2, <1>3, <1>5, RequestMoves DEF OnField, Fresh
<1>6. ASSUME NEW given \in Given, CreateLead(s, j, given) PROVE FieldsInv'
  <2> DEFINE q == [Unwritten EXCEPT !.at = "lead", !.journey = j, !.given = given, !.read = lead]
  <2>1. write' = [write EXCEPT ![s] = q]
    BY <1>6 DEF CreateLead, Begin
  <2>2. q \in WriteType /\ q.at = "lead" /\ q.journey = j /\ ~q.checked
    BY <1>1, <1>4 DEF WriteType
  <2> QED
    BY <1>5, <2>1, <2>2
<1>7. ASSUME NEW given \in Given, EditLead(s, j, given) PROVE FieldsInv'
  <2> DEFINE q == [Unwritten EXCEPT !.at = "edit", !.journey = j, !.given = given, !.read = lead]
  <2>1. write' = [write EXCEPT ![s] = q]
    BY <1>7 DEF EditLead, Begin
  <2>2. q \in WriteType /\ q.at = "edit" /\ q.journey = j /\ ~q.checked
    BY <1>1, <1>4 DEF WriteType
  <2> QED
    BY <1>5, <2>1, <2>2
<1>8. ASSUME NEW i \in Journey, MoveJourney(s, i, j) PROVE FieldsInv'
  <2> DEFINE q == [Unwritten EXCEPT !.at = "move", !.journey = j, !.old = i, !.read = lead]
  <2>1. write' = [write EXCEPT ![s] = q]
    BY <1>8 DEF MoveJourney, Begin
  <2>2. q \in WriteType /\ q.at = "move" /\ q.journey = j /\ ~q.checked
    BY <1>1, <1>4 DEF WriteType
  <2> QED
    BY <1>5, <2>1, <2>2
<1> QED
  BY <1>6, <1>7, <1>8

(* What validation makes of the values: what it accepts beside what it read, *)
(* and each formula of the journey of those.                                *)
LEMMA GivenIs ==
  ASSUME NEW given \in Given
  PROVE  DOMAIN given \subseteq Field /\ \A f \in DOMAIN given : given[f] \in Int
<1>1. PICK F \in SUBSET Field : given \in [F -> Value]
  BY DEF Given
<1> QED
  BY <1>1, LeadFieldsAssumption

LEMMA BaseIsTyped ==
  ASSUME NEW given \in Given, NEW read \in Values
  PROVE  Base(given, read) \in Values
<1>1. Accepted(given) \subseteq DOMAIN given
  BY DEF Accepted
<1> QED
  BY <1>1, GivenIs DEF Base, Values

LEMMA ComputedIsTyped ==
  ASSUME NEW formula \in Formula, NEW base \in Values
  PROVE  Compute(formula, base) \in Int \cup {Missing}
<1>1. base[formula.of] \in Int \cup {Missing}
  BY DEF Formula, Values
<1> QED
  BY <1>1 DEF Compute

LEMMA MergedIsTyped ==
  ASSUME FieldsTypeOK, NEW j, NEW given \in Given, NEW read \in Values
  PROVE  Merged(j, given, read) \in Values
<1>1. Base(given, read) \in Values
  BY BaseIsTyped
<1>2. \A f \in Calculated : Compute(field[f].formula, Base(given, read)) \in Int \cup {Missing}
  BY <1>1, CalculatedAre, ComputedIsTyped
<1> QED
  BY <1>1, <1>2 DEF Merged, Values

LEMMA MergedIsRight ==
  ASSUME FieldsTypeOK, NEW j, NEW given \in Given, NEW read \in Values,
         NEW f \in MappedIn(j) \cap Calculated, field[f].formula.of \notin MappedIn(j) \cap Calculated
  PROVE  Merged(j, given, read)[f] = Compute(field[f].formula, Merged(j, given, read))
<1> DEFINE base == Base(given, read)
           values == Merged(j, given, read)
<1>1. f \in Field /\ field[f].formula.of \in Field
  BY CalculatedAre
<1>2. values[f] = Compute(field[f].formula, base)
  BY <1>1 DEF Merged
<1>3. values[field[f].formula.of] = base[field[f].formula.of]
  BY <1>1 DEF Merged
<1> QED
  BY <1>2, <1>3 DEF Compute

LEMMA MergedKeepsLocked ==
  ASSUME FieldsTypeOK, NEW j, NEW given \in Given, NEW read \in Values, Sendable(j, given, read),
         NEW f \in Active, field[f].mode = "locked"
  PROVE  \/ Merged(j, given, read)[f] = read[f]
         \/ read[f] = Missing
<1>1. f \in Field /\ f \notin Calculated
  BY DEF Active, Calculated
<1>2. Merged(j, given, read)[f] = Base(given, read)[f]
  BY <1>1 DEF Merged
<1>3. CASE f \in Accepted(given)
  BY <1>1, <1>2, <1>3 DEF Base, Sendable, Accepted
<1>4. CASE f \notin Accepted(given)
  BY <1>1, <1>2, <1>4 DEF Base
<1> QED
  BY <1>3, <1>4

LEMMA Validates ==
  ASSUME FieldsInv, NEW s \in Writer, Validate(s)
  PROVE  FieldsInv'
<1> DEFINE q == write[s]
           values == Merged(q.journey, q.given, q.read)
           e == [q EXCEPT !.checked = TRUE, !.values = values]
<1>1. /\ FieldsTypeOK /\ lead \in Values /\ place \subseteq Journey /\ begun \in 0 .. MaxRequest
      /\ q \in WriteType /\ OnLead(q) /\ UNCHANGED <<field, setting, place, lead, begun, raced>>
  BY DEF FieldsInv, FieldsTypeOK, Validate, OnLead
<1>2. q.journey \in Journey /\ q.given \in Given /\ q.read \in Values
  BY <1>1 DEF FieldsInv, WriteType
<1>3. values \in Values
  BY <1>1, <1>2, MergedIsTyped
<1>4. CASE Valid(q) /\ write' = [write EXCEPT ![s] = e]
  <2>1. /\ e \in WriteType /\ e.at = q.at /\ e.journey = q.journey /\ e.read = q.read
        /\ e.values = values /\ e.checked
    <3> HIDE DEF values
    <3> QED
      BY <1>1, <1>3 DEF WriteType
  <2>2. Sendable(q.journey, q.given, q.read)
    BY <1>4 DEF Valid
  <2>3. Settled(e)
    <3>1. \A f \in MappedIn(q.journey) \cap Calculated :
            field[f].formula.of \notin MappedIn(q.journey) \cap Calculated =>
              values[f] = Compute(field[f].formula, values)
      BY <1>1, <1>2, MergedIsRight
    <3>2. \A f \in Active : field[f].mode = "locked" => values[f] = q.read[f] \/ q.read[f] = Missing
      BY <1>1, <1>2, <2>2, MergedKeepsLocked
    <3> HIDE DEF e, values
    <3> QED
      BY <2>1, <3>1, <3>2 DEF Settled, FormulaHolds
  <2>4. OnLead(e) /\ ~OnField(e) /\ Fresh(e)
    <3> HIDE DEF e
    <3> QED
      BY <1>1, <2>1 DEF OnLead, OnField, Fresh
  <2> HIDE DEF e
  <2> QED
    BY <1>1, <1>2, <1>4, <2>1, <2>3, <2>4, RequestMoves
<1>5. CASE write' = [write EXCEPT ![s] = Unwritten]
  BY <1>1, <1>5, RequestMoves, UnwrittenIs
<1> QED
  BY <1>4, <1>5 DEF Validate, EndWrite

LEMMA EndsLeads ==
  ASSUME FieldsInv, NEW s \in Writer, Save(s) \/ Move(s)
  PROVE  FieldsInv'
<1> DEFINE q == write[s]
<1>1. FieldsTypeOK /\ lead \in Values /\ place \subseteq Journey /\ begun \in 0 .. MaxRequest /\ q \in WriteType
  BY DEF FieldsInv, FieldsTypeOK
<1>2. /\ write' = [write EXCEPT ![s] = Unwritten] /\ UNCHANGED <<field, setting, begun, raced>>
      /\ OnLead(q)
  BY DEF Save, Move, EndWrite, OnLead
<1>3. q.journey \in Journey /\ q.values \in Values
  BY <1>1, <1>2 DEF FieldsInv, WriteType
<1>4. lead' \in Values /\ place' \subseteq Journey
  BY <1>1, <1>3 DEF Save, Move
<1> QED
  BY <1>1, <1>2, <1>4, RequestMoves, UnwrittenIs

LEMMA FieldsStep == FieldsInv /\ [FieldsNext]_fieldVars => FieldsInv'
<1> SUFFICES ASSUME FieldsInv, [FieldsNext]_fieldVars PROVE FieldsInv'
  OBVIOUS
<1>1. CASE FieldRequest
  BY <1>1, BeginsFields, Reorders, Maps DEF FieldRequest
<1>2. CASE LeadRequest
  BY <1>2, BeginsLeads DEF LeadRequest
<1>3. ASSUME NEW s \in Writer, WriteField(s) \/ Validate(s) \/ Save(s) \/ Move(s) PROVE FieldsInv'
  BY <1>3, WritesFields, Validates, EndsLeads
<1>4. CASE UNCHANGED fieldVars
  <2>1. UNCHANGED <<field, setting, place, lead, write, begun, raced>>
    BY <1>4 DEF fieldVars
  <2>2. Calculated' = Calculated /\ Active' = Active /\ \A j : MappedIn(j)' = MappedIn(j)
    BY <2>1 DEF Calculated, Active, MappedIn
  <2>3. \A s \in Writer : Settled(write[s]) => Settled(write[s])'
    BY <2>1, <2>2 DEF Settled, FormulaHolds, Compute
  <2> QED
    BY <2>1, <2>2, <2>3 DEF FieldsInv, FieldsTypeOK, FormulasEnd, OnField, OnLead, Fresh
<1> QED
  BY <1>1, <1>2, <1>3, <1>4 DEF FieldsNext

-----------------------------------------------------------------------------
(* The write of the values.                                                 *)

(* Only a save changes the values, and it ends its own request alone.        *)
LEMMA OnlySavesWrite ==
  ASSUME FieldsInv, [FieldsNext]_fieldVars, lead' # lead
  PROVE  \E s \in Writer :
           /\ Writes(s) /\ (\A v \in Writer : Writes(v) => v = s)
           /\ lead' = write[s].values /\ Settled(write[s])
<1>1. PICK s \in Writer : Save(s)
  BY DEF FieldsNext, FieldRequest, LeadRequest, CreateField, UpdateField, DeactivateField, ReorderFields,
         MapField, CreateLead, EditLead, MoveJourney, WriteField, Validate, Move, fieldVars
<1>2. write' = [write EXCEPT ![s] = Unwritten] /\ write[s].at \in {"lead", "edit"} /\ write[s].checked
  BY <1>1 DEF Save, EndWrite
<1>3. write'[s].at = "idle" /\ \A v \in Writer \ {s} : write'[v] = write[v]
  BY <1>2 DEF FieldsInv, FieldsTypeOK, Unwritten
<1>4. Writes(s) /\ \A v \in Writer : Writes(v) => v = s
  BY <1>2, <1>3 DEF Writes
<1>5. lead' = write[s].values
  BY <1>1 DEF Save
<1> QED
  BY <1>2, <1>4, <1>5 DEF FieldsInv

(* For any fields, journeys, formulas and values, and however requests       *)
(* overlap: formulas end unless two were checked against stale lists, each   *)
(* write of the values leaves those of its journey right by what was         *)
(* configured when it read the settings and has not been changed since, and  *)
(* a locked field changes only under a write that read another value, or     *)
(* read the settings before the field was locked.                           *)
THEOREM ValuesStayRight == FieldsSpec => ValuesAreRight
<1> DEFINE Kept == \A f \in Active : field[f].mode = "locked" /\ lead[f] # Missing /\ lead'[f] # lead[f] =>
                     \E s \in Writer : Writes(s) /\ (write[s].read[f] # lead[f] \/ f \in write[s].changed)
           Done == \A s \in Writer : Writes(s) /\ lead' # lead =>
                     \A f \in MappedIn(write[s].journey) \cap Calculated :
                       FormulaHolds(f, write[s].journey, write[s].changed, lead')
<1>1. FieldsInit => FieldsInv
  BY FieldsInitOK
<1>2. FieldsInv /\ [FieldsNext]_fieldVars => FieldsInv'
  BY FieldsStep
<1>3. FieldsInv => FieldsTypeOK /\ FormulasEnd
  BY DEF FieldsInv
<1>4. FieldsInv /\ [FieldsNext]_fieldVars => Done
  <2> SUFFICES ASSUME FieldsInv, [FieldsNext]_fieldVars, lead' # lead, NEW s \in Writer, Writes(s),
                      NEW f \in MappedIn(write[s].journey) \cap Calculated
               PROVE  FormulaHolds(f, write[s].journey, write[s].changed, lead')
    OBVIOUS
  <2>1. lead' = write[s].values /\ Settled(write[s])
    BY OnlySavesWrite
  <2> QED
    BY <2>1 DEF Settled
<1>5. FieldsInv /\ [FieldsNext]_fieldVars => Kept
  <2> SUFFICES ASSUME FieldsInv, [FieldsNext]_fieldVars, NEW f \in Active, field[f].mode = "locked",
                      lead[f] # Missing, lead'[f] # lead[f]
               PROVE  \E s \in Writer : Writes(s) /\ (write[s].read[f] # lead[f] \/ f \in write[s].changed)
    OBVIOUS
  <2>1. PICK s \in Writer : Writes(s) /\ lead' = write[s].values /\ Settled(write[s])
    BY OnlySavesWrite
  <2>2. f \notin write[s].changed => lead'[f] = write[s].read[f] \/ write[s].read[f] = Missing
    BY <2>1 DEF Settled
  <2> QED
    BY <2>1, <2>2
<1> QED
  BY <1>1, <1>2, <1>3, <1>4, <1>5, PTL DEF FieldsSpec, ValuesAreRight, FormulasAreRight, LockedIsKept

-----------------------------------------------------------------------------
(* Sequences that functions of the board are built of.                     *)
LEMMA Upward ==
  ASSUME NEW T, 0 \in T, \A n \in Nat : n \in T => n + 1 \in T
  PROVE  Nat \subseteq T
<1> SUFFICES ASSUME Nat \ T # {} PROVE FALSE
  OBVIOUS
<1> DEFINE R == OpToRel(<, Nat)
<1>1. \A x, y \in Nat : <<y, x>> \in R <=> y < x
  BY DEF OpToRel
<1>2. IsWellFoundedOn(R, Nat)
  BY NatLessThanWellFounded
<1> HIDE DEF R
<1>3. PICK n \in Nat \ T : \A m \in Nat \ T : ~(<<m, n>> \in R)
  BY <1>2, WFMin
<1>4. n \in Nat \ {0} /\ n \notin T
  BY <1>3
<1>5. n - 1 \in Nat /\ n - 1 < n /\ (n - 1) + 1 = n
  BY <1>4
<1>6. n - 1 \in T
  BY <1>1, <1>3, <1>5
<1> QED
  BY <1>4, <1>5, <1>6

(* The function that Without is the last value of.                          *)
Keeps(f, s, x, n) ==
  f = [i \in 0 .. n |-> IF i = 0 THEN <<>> ELSE IF s[i] = x THEN f[i - 1] ELSE Append(f[i - 1], s[i])]
Kept(s, x) == CHOOSE f : Keeps(f, s, x, Len(s))

LEMMA KeptIs ==
  ASSUME NEW S, NEW s \in Seq(S), NEW x
  PROVE  /\ Kept(s, x)[0] = <<>>
         /\ \A i \in 1 .. Len(s) :
              Kept(s, x)[i] = IF s[i] = x THEN Kept(s, x)[i - 1] ELSE Append(Kept(s, x)[i - 1], s[i])
         /\ Without(s, x) = Kept(s, x)[Len(s)]
<1> DEFINE T == {n \in Nat : n <= Len(s) => \E f : Keeps(f, s, x, n)}
<1>0. Len(s) \in Nat
  OBVIOUS
<1>1. 0 \in T
  <2>1. Keeps([i \in 0 .. 0 |-> <<>>], s, x, 0)
    BY DEF Keeps
  <2> QED
    BY <2>1
<1>2. ASSUME NEW n \in Nat, n \in T
      PROVE  n + 1 \in T
  <2> SUFFICES ASSUME n + 1 <= Len(s) PROVE \E f : Keeps(f, s, x, n + 1)
    OBVIOUS
  <2>1. PICK f : Keeps(f, s, x, n)
    BY <1>2, <1>0
  <2> DEFINE next == IF s[n + 1] = x THEN f[n] ELSE Append(f[n], s[n + 1])
             g == [i \in 0 .. n + 1 |-> IF i <= n THEN f[i] ELSE next]
             h == [i \in 0 .. n + 1 |-> IF i = 0 THEN <<>> ELSE IF s[i] = x THEN g[i - 1] ELSE Append(g[i - 1], s[i])]
  <2>2. \A i \in 0 .. n : f[i] = IF i = 0 THEN <<>> ELSE IF s[i] = x THEN f[i - 1] ELSE Append(f[i - 1], s[i])
    BY <2>1 DEF Keeps
  <2>3. \A i \in 0 .. n + 1 : g[i] = h[i]
    <3> TAKE i \in 0 .. n + 1
    <3>1. CASE i = 0
      <4>1. g[i] = f[0]
        BY <3>1
      <4>2. f[0] = <<>>
        BY <2>2
      <4> QED
        BY <3>1, <4>1, <4>2
    <3>2. CASE i \in 1 .. n
      <4>1. i - 1 \in 0 .. n /\ i \in 0 .. n /\ i - 1 \in 0 .. n + 1 /\ i # 0 /\ i <= n /\ i - 1 <= n
        BY <3>2
      <4>2. g[i - 1] = f[i - 1] /\ g[i] = f[i]
        BY <4>1
      <4> HIDE DEF g
      <4> QED
        BY <2>2, <4>1, <4>2
    <3>3. CASE i = n + 1
      <4>1. g[i] = next /\ g[i - 1] = f[n] /\ i # 0
        BY <3>3
      <4> HIDE DEF g
      <4> QED
        BY <3>3, <4>1
    <3> QED
      BY <3>1, <3>2, <3>3
  <2>4. g = h
    <3>1. g = [i \in 0 .. n + 1 |-> g[i]] /\ h = [i \in 0 .. n + 1 |-> h[i]]
      OBVIOUS
    <3> HIDE DEF g, h
    <3> QED
      BY <2>3, <3>1
  <2> HIDE DEF g
  <2>5. Keeps(g, s, x, n + 1)
    BY <2>4 DEF Keeps
  <2> QED
    BY <2>5
<1>3. Len(s) \in T
  <2> HIDE DEF T
  <2> QED
    BY <1>0, <1>1, <1>2, Upward
<1>4. \E f : Keeps(f, s, x, Len(s))
  BY <1>0, <1>3
<1>5. Keeps(Kept(s, x), s, x, Len(s))
  BY <1>4 DEF Kept
<1>6. \A i \in 0 .. Len(s) :
        Kept(s, x)[i] = IF i = 0 THEN <<>>
                        ELSE IF s[i] = x THEN Kept(s, x)[i - 1] ELSE Append(Kept(s, x)[i - 1], s[i])
  BY <1>5 DEF Keeps
<1>7. Without(s, x) = Kept(s, x)[Len(s)]
  BY DEF Without, Kept, Keeps
<1>8. 0 \in 0 .. Len(s) /\ \A i \in 1 .. Len(s) : i \in 0 .. Len(s) /\ i # 0
  BY <1>0
<1> QED
  BY <1>6, <1>7, <1>8

(* What a card's removal leaves: of every other card what there was, of a    *)
(* list without the card the list.                                         *)
LEMMA WithoutIs ==
  ASSUME NEW S, NEW s \in Seq(S), NEW x
  PROVE  /\ Without(s, x) \in Seq(S)
         /\ Range(Without(s, x)) \subseteq Range(s) \ {x}
         /\ x \notin Range(s) => Without(s, x) = s
<1> DEFINE f == Kept(s, x)
           T == {n \in Nat : n <= Len(s) => /\ f[n] \in Seq(S)
                                            /\ \A i \in 1 .. Len(f[n]) : f[n][i] \in Range(s) \ {x}
                                            /\ x \notin Range(s) => f[n] = SubSeq(s, 1, n)}
<1>1. /\ f[0] = <<>> /\ Without(s, x) = f[Len(s)]
      /\ \A i \in 1 .. Len(s) : f[i] = IF s[i] = x THEN f[i - 1] ELSE Append(f[i - 1], s[i])
  BY KeptIs
<1> HIDE DEF f
<1>0. Len(s) \in Nat /\ DOMAIN s = 1 .. Len(s) /\ \A i \in 1 .. Len(s) : s[i] \in S /\ s[i] \in Range(s)
  <2>1. Len(s) \in Nat /\ DOMAIN s = 1 .. Len(s) /\ \A i \in 1 .. Len(s) : s[i] \in S
    OBVIOUS
  <2> QED
    BY <2>1 DEF Range
<1>2. 0 \in T
  <2>1. SubSeq(s, 1, 0) = <<>>
    BY SubSeqEmpty
  <2>2. f[0] \in Seq(S) /\ Len(f[0]) = 0 /\ f[0] = SubSeq(s, 1, 0)
    BY <1>1, <2>1
  <2>3. \A i \in 1 .. Len(f[0]) : f[0][i] \in Range(s) \ {x}
    BY <2>2
  <2> QED
    BY <2>2, <2>3
<1>3. ASSUME NEW n \in Nat, n \in T
      PROVE  n + 1 \in T
  <2> SUFFICES ASSUME n + 1 <= Len(s)
               PROVE  /\ f[n + 1] \in Seq(S)
                      /\ \A i \in 1 .. Len(f[n + 1]) : f[n + 1][i] \in Range(s) \ {x}
                      /\ x \notin Range(s) => f[n + 1] = SubSeq(s, 1, n + 1)
    OBVIOUS
  <2>1. n + 1 \in 1 .. Len(s) /\ (n + 1) - 1 = n /\ n <= Len(s) /\ 1 \in 1 .. Len(s) /\ n + 1 \in 1 .. Len(s)
    BY <1>0
  <2>2. /\ f[n] \in Seq(S) /\ \A i \in 1 .. Len(f[n]) : f[n][i] \in Range(s) \ {x}
        /\ x \notin Range(s) => f[n] = SubSeq(s, 1, n)
    BY <1>3, <2>1
  <2>3. f[n + 1] = IF s[n + 1] = x THEN f[n] ELSE Append(f[n], s[n + 1])
    BY <1>1, <2>1
  <2>4. CASE s[n + 1] = x
    BY <1>0, <2>1, <2>2, <2>3, <2>4
  <2>5. CASE s[n + 1] # x
    <3>1. f[n + 1] = Append(f[n], s[n + 1]) /\ s[n + 1] \in S /\ s[n + 1] \in Range(s) \ {x}
      BY <1>0, <2>1, <2>3, <2>5
    <3>2. /\ f[n + 1] \in Seq(S) /\ Len(f[n + 1]) = Len(f[n]) + 1 /\ Len(f[n]) \in Nat
          /\ \A i \in 1 .. Len(f[n]) : f[n + 1][i] = f[n][i]
          /\ f[n + 1][Len(f[n]) + 1] = s[n + 1]
      BY <2>2, <3>1
    <3>3. \A i \in 1 .. Len(f[n + 1]) : f[n + 1][i] \in Range(s) \ {x}
      <4> TAKE i \in 1 .. Len(f[n + 1])
      <4>1. i \in 1 .. Len(f[n]) \/ i = Len(f[n]) + 1
        BY <3>2
      <4> QED
        BY <2>2, <3>1, <3>2, <4>1
    <3>4. ASSUME x \notin Range(s) PROVE f[n + 1] = SubSeq(s, 1, n + 1)
      <4>1. SubSeq(s, 1, n + 1) = SubSeq(s, 1, n) \o <<s[n + 1]>>
        BY <2>1, SubSeqRecursiveSecond
      <4>2. Append(f[n], s[n + 1]) = f[n] \o <<s[n + 1]>>
        BY <2>2, <3>1, AppendIsConcat
      <4> QED
        BY <2>2, <3>1, <3>4, <4>1, <4>2
    <3> QED
      BY <3>2, <3>3, <3>4
  <2> QED
    BY <2>4, <2>5
<1>4. Len(s) \in T
  <2> HIDE DEF T
  <2> QED
    BY <1>0, <1>2, <1>3, Upward
<1>5. /\ f[Len(s)] \in Seq(S)
      /\ \A i \in 1 .. Len(f[Len(s)]) : f[Len(s)][i] \in Range(s) \ {x}
      /\ x \notin Range(s) => f[Len(s)] = SubSeq(s, 1, Len(s))
  BY <1>0, <1>4
<1>6. SubSeq(s, 1, Len(s)) = s
  BY SubSeqFull
<1>7. Range(f[Len(s)]) \subseteq Range(s) \ {x}
  BY <1>5 DEF Range
<1> QED
  BY <1>1, <1>5, <1>6, <1>7

-----------------------------------------------------------------------------
(* The rows of pages that were read one after the other.                   *)
PageOf(h, n) ==
  [rows  |-> SubSeq(h, (n - 1) * PageSize + 1, IF n * PageSize < Len(h) THEN n * PageSize ELSE Len(h)),
   total |-> Len(h)]
PagesOf(s, h) == \A n \in 1 .. Len(s) : s[n] = PageOf(h, n)
Upto(h, n) == IF n * PageSize < Len(h) THEN n * PageSize ELSE Len(h)

LEMMA UptoIs ==
  ASSUME NEW h \in Seq(Card), NEW n \in Nat
  PROVE  /\ Upto(h, n) \in 0 .. Len(h) /\ n * PageSize \in Nat
         /\ n > 0 => /\ (n - 1) * PageSize \in Nat /\ n * PageSize = (n - 1) * PageSize + PageSize
                     /\ Upto(h, n - 1) <= Upto(h, n)
<1>1. PageSize \in Nat /\ Len(h) \in Nat
  BY BoardAssumption
<1>2. n * PageSize \in Nat /\ n * PageSize >= 0
  BY <1>1
<1>3. ASSUME n > 0
      PROVE  (n - 1) * PageSize \in Nat /\ n * PageSize = (n - 1) * PageSize + PageSize
  <2>1. n - 1 \in Nat
    BY <1>3
  <2> QED
    BY <1>1, <2>1
<1> DEFINE a == n * PageSize
           b == (n - 1) * PageSize
<1>4. Upto(h, n) = IF a < Len(h) THEN a ELSE Len(h)
  BY DEF Upto
<1>5. Upto(h, n - 1) = IF b < Len(h) THEN b ELSE Len(h)
  BY DEF Upto
<1> HIDE DEF a, b
<1>6. a \in Nat /\ (n > 0 => b \in Nat /\ a = b + PageSize)
  BY <1>2, <1>3 DEF a, b
<1>7. Upto(h, n) \in 0 .. Len(h) /\ (n > 0 => Upto(h, n - 1) <= Upto(h, n))
  BY <1>1, <1>4, <1>5, <1>6
<1> QED
  BY <1>2, <1>3, <1>7

(* One more page is one more piece.                                        *)
LEMMA PieceByPiece ==
  ASSUME NEW h \in Seq(Card), NEW n \in Nat \ {0}
  PROVE  /\ PageOf(h, n) \in Page
         /\ \A k \in Nat : k = n - 1 => SubSeq(h, 1, Upto(h, k)) \o PageOf(h, n).rows = SubSeq(h, 1, Upto(h, n))
<1> DEFINE b == (n - 1) * PageSize
           u == Upto(h, n)
           v == Upto(h, n - 1)
           p == SubSeq(h, b + 1, u)
<1>1. /\ b \in Nat /\ u \in 0 .. Len(h) /\ v \in 0 .. Len(h) /\ v <= u /\ Len(h) \in Nat
      /\ v = IF b < Len(h) THEN b ELSE Len(h)
  <2>1. n - 1 \in Nat /\ n > 0
    OBVIOUS
  <2> QED
    BY <2>1, UptoIs DEF Upto
<1>2. PageOf(h, n).rows = p /\ PageOf(h, n) = [rows |-> p, total |-> Len(h)]
  BY DEF PageOf, Upto
<1>0. u = Upto(h, n) /\ v = Upto(h, n - 1)
  OBVIOUS
<1> HIDE DEF b, u, v
<1>3. ASSUME b < Len(h) PROVE SubSeq(h, 1, v) \o p = SubSeq(h, 1, u)
  <2>1. v = b /\ 1 \in 1 .. Len(h) + 1 /\ v \in 1 - 1 .. Len(h) /\ u \in v .. Len(h)
    BY <1>1, <1>3
  <2>2. SubSeq(h, 1, v) \o SubSeq(h, v + 1, u) = SubSeq(h, 1, u)
    BY <2>1, ConcatAdjacentSubSeq
  <2> QED
    BY <2>1, <2>2
<1>4. ASSUME ~(b < Len(h)) PROVE SubSeq(h, 1, v) \o p = SubSeq(h, 1, u)
  <2>1. v = Len(h) /\ u = Len(h) /\ u < b + 1
    BY <1>1, <1>4
  <2>2. p = <<>>
    BY <1>1, <2>1, SubSeqEmpty
  <2>3. SubSeq(h, 1, Len(h)) = h
    BY SubSeqFull
  <2>4. h \o <<>> = h
    BY ConcatEmptySeq
  <2> QED
    BY <2>1, <2>2, <2>3, <2>4
<1>5. p \in Seq(Card)
  <2>1. \A i \in b + 1 .. u : h[i] \in Card
    BY <1>1
  <2> QED
    BY <1>1, <2>1, SubSeqProperties
<1>6. PageOf(h, n) \in Page
  BY <1>1, <1>2, <1>5 DEF Page
<1> QED
  <2>1. SubSeq(h, 1, v) \o p = SubSeq(h, 1, u)
    BY <1>3, <1>4
  <2> HIDE DEF p
  <2> QED
    BY <1>0, <1>2, <1>6, <2>1

Joins(f, r) == f = [i \in 1 .. Len(r) |-> IF i = 1 THEN r[i] ELSE f[i - 1] \o r[i]]
Joined(r) == CHOOSE f : Joins(f, r)

(* The pages of a column, put together, are the beginning of it.           *)
LEMMA PagesArePrefix ==
  ASSUME NEW h \in Seq(Card), NEW s \in Seq(Page), s # <<>>, PagesOf(s, h)
  PROVE  columnRows(s) = SubSeq(h, 1, Upto(h, Len(s)))
<1> DEFINE r == [i \in DOMAIN s |-> s[i].rows]
           f == [i \in 1 .. Len(s) |-> SubSeq(h, 1, Upto(h, i))]
<1>1. Len(s) \in Nat /\ DOMAIN s = 1 .. Len(s) /\ Len(s) > 0
  <2>1. Len(s) # 0
    BY EmptySeq
  <2> QED
    BY <2>1
<1>2. r \in Seq(Seq(Card)) /\ Len(r) = Len(s) /\ \A i \in 1 .. Len(s) : r[i] = PageOf(h, i).rows
  <2>1. \A i \in 1 .. Len(s) : s[i] \in Page /\ s[i] = PageOf(h, i)
    BY <1>1 DEF PagesOf
  <2>2. \A i \in 1 .. Len(s) : r[i] = PageOf(h, i).rows /\ r[i] \in Seq(Card)
    BY <1>1, <2>1 DEF Page
  <2>3. r \in [1 .. Len(s) -> Seq(Card)]
    BY <1>1, <2>2
  <2> QED
    BY <1>1, <2>2, <2>3
<1>16. \A i \in 1 .. Len(s) : f[i] = SubSeq(h, 1, Upto(h, i))
  OBVIOUS
<1>17. 1 \in 1 .. Len(s) /\ Len(s) \in 1 .. Len(s)
  BY <1>1
<1> HIDE DEF r
<1>3. f[1] = r[1]
  <2>1. SubSeq(h, 1, Upto(h, 0)) \o PageOf(h, 1).rows = SubSeq(h, 1, Upto(h, 1))
    <3>1. 1 \in Nat \ {0} /\ 0 \in Nat /\ 0 = 1 - 1
      OBVIOUS
    <3> HIDE DEF f
    <3> QED
      BY <3>1, PieceByPiece
  <2>2. Upto(h, 0) = 0
    <3>1. Upto(h, 0) \in 0 .. Len(h) /\ Len(h) \in Nat /\ 0 * PageSize = 0
      BY UptoIs, BoardAssumption
    <3> QED
      BY <3>1 DEF Upto
  <2>3. SubSeq(h, 1, 0) = <<>>
    BY SubSeqEmpty
  <2>4. PageOf(h, 1).rows \in Seq(Card)
    BY PieceByPiece DEF Page
  <2>5. <<>> \o PageOf(h, 1).rows = PageOf(h, 1).rows
    BY <2>4, ConcatEmptySeq
  <2>6. f[1] = SubSeq(h, 1, Upto(h, 1)) /\ r[1] = PageOf(h, 1).rows
    <3> HIDE DEF f
    <3> QED
      BY <1>2, <1>16, <1>17
  <2> HIDE DEF f
  <2> QED
    BY <2>1, <2>2, <2>3, <2>5, <2>6
<1>4. \A i \in 1 .. Len(s) : i # 1 => f[i] = f[i - 1] \o r[i]
  <2> TAKE i \in 1 .. Len(s)
  <2> SUFFICES ASSUME i # 1 PROVE f[i] = f[i - 1] \o r[i]
    OBVIOUS
  <2>1. i \in Nat \ {0} /\ i - 1 \in 1 .. Len(s)
    BY <1>1
  <2>2. f[i - 1] = SubSeq(h, 1, Upto(h, i - 1)) /\ f[i] = SubSeq(h, 1, Upto(h, i))
    BY <2>1
  <2>3. i - 1 \in Nat
    BY <2>1
  <2>4. SubSeq(h, 1, Upto(h, i - 1)) \o PageOf(h, i).rows = SubSeq(h, 1, Upto(h, i))
    <3> HIDE DEF f
    <3> QED
      BY <2>1, <2>3, PieceByPiece
  <2> HIDE DEF f
  <2> QED
    BY <1>2, <2>2, <2>4
<1>5. Joins(f, r)
  <2> DEFINE g == [i \in 1 .. Len(r) |-> IF i = 1 THEN r[i] ELSE f[i - 1] \o r[i]]
  <2>1. f = [i \in 1 .. Len(s) |-> f[i]]
    OBVIOUS
  <2> HIDE DEF f
  <2>2. \A i \in 1 .. Len(s) : f[i] = g[i]
    BY <1>2, <1>3, <1>4
  <2>3. g = [i \in 1 .. Len(s) |-> g[i]]
    BY <1>2
  <2>4. f = g
    <3> HIDE DEF g
    <3> QED
      BY <2>1, <2>2, <2>3
  <2> QED
    BY <2>4 DEF Joins
<1> HIDE DEF f
<1>6. f[Len(s)] = SubSeq(h, 1, Upto(h, Len(s)))
  BY <1>16, <1>17
<1>7. Joins(Joined(r), r)
  BY <1>5 DEF Joined
<1>8. \A i \in 1 .. Len(s) : Joined(r)[i] = IF i = 1 THEN r[i] ELSE Joined(r)[i - 1] \o r[i]
  BY <1>2, <1>7 DEF Joins
<1> DEFINE T == {n \in Nat : n + 1 <= Len(s) => Joined(r)[n + 1] = f[n + 1]}
<1>9. 0 \in T
  BY <1>1, <1>3, <1>8
<1>10. ASSUME NEW n \in Nat, n \in T PROVE n + 1 \in T
  <2> SUFFICES ASSUME n + 2 <= Len(s) PROVE Joined(r)[n + 2] = f[n + 2]
    <3>1. (n + 1) + 1 = n + 2
      OBVIOUS
    <3> QED
      BY <3>1
  <2>1. n + 2 \in 1 .. Len(s) /\ n + 2 # 1 /\ (n + 2) - 1 = n + 1
    BY <1>1
  <2>2. Joined(r)[n + 1] = f[n + 1]
    BY <1>1, <1>10
  <2>3. f[n + 2] = f[(n + 2) - 1] \o r[n + 2]
    BY <1>4, <2>1
  <2>4. Joined(r)[n + 2] = Joined(r)[(n + 2) - 1] \o r[n + 2]
    BY <1>8, <2>1
  <2> QED
    BY <2>1, <2>2, <2>3, <2>4
<1>11. Joined(r)[Len(s)] = f[Len(s)]
  <2>1. Nat \subseteq T
    <3> HIDE DEF T
    <3> QED
      BY <1>9, <1>10, Upward
  <2>2. Len(s) - 1 \in Nat /\ (Len(s) - 1) + 1 = Len(s)
    BY <1>1
  <2>3. \A m \in Nat : m + 1 <= Len(s) => Joined(r)[m + 1] = f[m + 1]
    BY <2>1
  <2>4. PICK m \in Nat : m + 1 = Len(s)
    BY <2>2
  <2>5. m + 1 <= Len(s)
    BY <1>1, <2>4
  <2> HIDE DEF T
  <2> QED
    BY <2>3, <2>4, <2>5
<1>12. columnRows(s) = Joined(r)[Len(s)]
  BY <1>1, <1>2 DEF columnRows, Seqs!FlattenSeq, Joined, Joins, r
<1> QED
  BY <1>6, <1>11, <1>12

-----------------------------------------------------------------------------
(* What the board knows of a column it is not moving a card in.            *)
Covered(c) == \E m \in Slot : moves[m] # Absent /\ c \in {moves[m].from, moves[m].to}
Current(c) == IF reading[c] = Absent THEN cache[c] # Absent /\ PagesOf(cache[c], home[c])
            ELSE PagesOf(reading[c].got, home[c])
Known == astray = {} => \A c \in Column \ missed : Covered(c) \/ Current(c)

(* Every card has one status.                                              *)
OneHome == \A c, d \in Column, x \in Card : x \in Range(home[c]) /\ x \in Range(home[d]) => c = d

(* A column that was read has a page, and a read goes no further than asked. *)
Sized(pages) == pages # Absent => Len(pages) \in 1 .. MaxPages
SizesFit ==
  /\ \A c \in Column : Sized(cache[c])
  /\ \A m \in Slot : moves[m] # Absent => Sized(moves[m].previousFrom) /\ Sized(moves[m].previousTo)

BoardInv == BoardTypeOK /\ SizesFit /\ OneHome /\ Known

LEMMA RefetchIs ==
  ASSUME NEW pages \in Seq(Page) \cup {Absent}, Sized(pages)
  PROVE  /\ Refetch(pages) \in Fetch /\ Refetch(pages) # Absent
         /\ Refetch(pages).got = <<>> /\ ~Refetch(pages).more
         /\ Len(Refetch(pages).got) < Refetch(pages).want /\ Refetch(pages).want <= MaxPages
<1> DEFINE w == IF pages = Absent THEN 1 ELSE Len(pages)
<1>1. w \in 1 .. MaxPages
  BY BoardAssumption DEF Sized
<1>2. Refetch(pages) = [more |-> FALSE, got |-> <<>>, want |-> w]
  BY DEF Refetch
<1> HIDE DEF w
<1>3. w \in Nat /\ w <= MaxPages /\ 0 < w
  BY <1>1, BoardAssumption
<1>4. Refetch(pages) \in Fetch
  <2>1. <<>> \in Seq(Page)
    OBVIOUS
  <2> QED
    BY <1>2, <1>3, <2>1 DEF Fetch
<1>5. Refetch(pages).got = <<>> /\ ~Refetch(pages).more /\ Refetch(pages).want = w
  BY <1>2
<1>6. Len(Refetch(pages).got) = 0
  BY <1>5
<1>7. Refetch(pages) # Absent
  BY <1>4, BoardAssumption
<1> QED
  BY <1>3, <1>4, <1>5, <1>6, <1>7

LEMMA NothingReadIsRight == ASSUME NEW h PROVE PagesOf(<<>>, h)
BY DEF PagesOf

(* The optimistic patches keep pages pages.                                *)
LEMMA PatchesArePages ==
  ASSUME NEW pages \in Seq(Page) \cup {Absent}, Sized(pages), NEW x \in Card
  PROVE  /\ removeRow(pages, x) \in Seq(Page) \cup {Absent} /\ Sized(removeRow(pages, x))
         /\ insertRowAtHead(pages, x) \in Seq(Page) \cup {Absent} /\ Sized(insertRowAtHead(pages, x))
<1>1. CASE pages = Absent
  BY <1>1 DEF removeRow, insertRowAtHead
<1>2. CASE pages # Absent
  <2>1. pages \in Seq(Page) /\ Len(pages) \in Nat /\ DOMAIN pages = 1 .. Len(pages)
    BY <1>2
  <2>2. ASSUME NEW i \in 1 .. Len(pages)
        PROVE  /\ pages[i].rows \in Seq(Card) /\ pages[i].total \in Nat
               /\ Without(pages[i].rows, x) \in Seq(Card)
               /\ (IF i = 1 THEN <<x>> ELSE <<>>) \o Without(pages[i].rows, x) \in Seq(Card)
    <3>1. pages[i] \in Page
      BY <2>1, <2>2
    <3>2. pages[i].rows \in Seq(Card) /\ pages[i].total \in Nat
      BY <3>1 DEF Page
    <3>3. Without(pages[i].rows, x) \in Seq(Card)
      BY <3>2, WithoutIs
    <3>4. (IF i = 1 THEN <<x>> ELSE <<>>) \in Seq(Card)
      OBVIOUS
    <3> QED
      BY <3>2, <3>3, <3>4, ConcatProperties
  <2> DEFINE a == [i \in 1 .. Len(pages) |->
                     [rows  |-> Without(pages[i].rows, x),
                      total |-> IF pages[i].total = 0 THEN 0 ELSE pages[i].total - 1]]
             b == [i \in 1 .. Len(pages) |->
                     [rows  |-> (IF i = 1 THEN <<x>> ELSE <<>>) \o Without(pages[i].rows, x),
                      total |-> pages[i].total + (IF Holds(pages, x) THEN 0 ELSE 1)]]
  <2>3. a \in [1 .. Len(pages) -> Page]
    <3>1. ASSUME NEW i \in 1 .. Len(pages)
          PROVE  [rows  |-> Without(pages[i].rows, x),
                  total |-> IF pages[i].total = 0 THEN 0 ELSE pages[i].total - 1] \in Page
      <4>1. (IF pages[i].total = 0 THEN 0 ELSE pages[i].total - 1) \in Nat
        BY <2>2
      <4> QED
        BY <2>2, <4>1 DEF Page
    <3> QED
      BY <3>1
  <2>4. b \in [1 .. Len(pages) -> Page]
    <3>1. ASSUME NEW i \in 1 .. Len(pages)
          PROVE  [rows  |-> (IF i = 1 THEN <<x>> ELSE <<>>) \o Without(pages[i].rows, x),
                  total |-> pages[i].total + (IF Holds(pages, x) THEN 0 ELSE 1)] \in Page
      <4>1. pages[i].total + (IF Holds(pages, x) THEN 0 ELSE 1) \in Nat
        BY <2>2
      <4> QED
        BY <2>2, <4>1 DEF Page
    <3> QED
      BY <3>1
  <2>5. removeRow(pages, x) = IF ~Holds(pages, x) THEN pages ELSE a
    BY <1>2, <2>1 DEF removeRow
  <2>6. insertRowAtHead(pages, x) = b
    BY <1>2, <2>1 DEF insertRowAtHead
  <2> HIDE DEF a, b
  <2>7. a \in Seq(Page) /\ Len(a) = Len(pages) /\ b \in Seq(Page) /\ Len(b) = Len(pages)
    BY <2>1, <2>3, <2>4, IsASeq, LenProperties
  <2> QED
    BY <1>2, <2>1, <2>5, <2>6, <2>7 DEF Sized
<1> QED
  BY <1>1, <1>2

LEMMA BoardInitInv == BoardInit => BoardInv
<1> SUFFICES ASSUME BoardInit PROVE BoardInv
  OBVIOUS
<1>1. home \in [Column -> Seq(Card)]
  <2>1. Cardinality(Card) \in Nat
    BY BoardAssumption, FS_CardinalityType
  <2>2. UNION {[1..n -> Card] : n \in 0..Cardinality(Card)} \subseteq Seq(Card)
    <3>1. ASSUME NEW n \in 0 .. Cardinality(Card), NEW f \in [1 .. n -> Card] PROVE f \in Seq(Card)
      BY <2>1, IsASeq
    <3> QED
      BY <3>1
  <2> QED
    BY <2>2 DEF BoardInit
<1>2. OneHome
  <2> SUFFICES ASSUME NEW c \in Column, NEW d \in Column, NEW x \in Card, x \in Range(home[c]), x \in Range(home[d])
               PROVE  c = d
    BY DEF OneHome
  <2>1. PICK e \in Column : \E i \in DOMAIN home[e] :
          \A a \in Column : \A k \in DOMAIN home[a] : home[a][k] = x <=> a = e /\ k = i
    BY DEF BoardInit
  <2>2. (\E k \in DOMAIN home[c] : home[c][k] = x) /\ (\E k \in DOMAIN home[d] : home[d][k] = x)
    BY DEF Range
  <2> QED
    BY <2>1, <2>2
<1>3. Sized(Absent) /\ Absent \in Seq(Page) \cup {Absent}
  BY DEF Sized
<1>4. /\ Refetch(Absent) \in Fetch /\ Refetch(Absent) # Absent /\ Refetch(Absent).got = <<>>
      /\ Len(Refetch(Absent).got) < Refetch(Absent).want /\ Refetch(Absent).want <= MaxPages
  BY <1>3, RefetchIs
<1>5. BoardTypeOK
  BY <1>1, <1>4, BoardAssumption DEF BoardInit, BoardTypeOK
<1>6. SizesFit
  BY <1>3 DEF BoardInit, SizesFit
<1>7. Known
  BY <1>4, NothingReadIsRight DEF BoardInit, Known, Current
<1> QED
  BY <1>2, <1>5, <1>6, <1>7 DEF BoardInv

(* A column keeps what is known of it while nothing of it changes.         *)
LEMMA KnownStays ==
  ASSUME NEW c \in Column, Covered(c) \/ Current(c),
         UNCHANGED <<home[c], cache[c], reading[c]>>,
         \A m \in Slot : moves[m] # Absent /\ c \in {moves[m].from, moves[m].to}
                         => moves'[m] # Absent /\ moves'[m].from = moves[m].from /\ moves'[m].to = moves[m].to
  PROVE  Covered(c)' \/ Current(c)'
BY DEF Covered, Current

LEMMA DraggedIs ==
  ASSUME BoardTypeOK, NEW m \in Slot, moves[m] # Absent
  PROVE  /\ moves[m] \in Dragged /\ moves[m].no \in 1..MaxDrops /\ moves[m].card \in Card /\ moves[m].from \in Column /\ moves[m].to \in Column
         /\ moves[m].at \in Outcome
         /\ moves[m].previousFrom \in Seq(Page) \cup {Absent} /\ moves[m].previousTo \in Seq(Page) \cup {Absent}
<1>1. moves[m] \in Dragged
  BY DEF BoardTypeOK
<1> QED
  BY <1>1 DEF Dragged

(* The outcome of a request changes nothing else of its move.              *)
LEMMA OutcomeKeepsMoves ==
  ASSUME BoardTypeOK, NEW m \in Slot, moves[m] # Absent, NEW at \in Outcome, moves' = [moves EXCEPT ![m].at = at]
  PROVE  /\ moves' \in [Slot -> Dragged \cup {Absent}]
         /\ \A q \in Slot : moves[q] # Absent =>
              /\ moves'[q] # Absent /\ moves'[q].from = moves[q].from /\ moves'[q].to = moves[q].to
              /\ moves'[q].previousFrom = moves[q].previousFrom /\ moves'[q].previousTo = moves[q].previousTo
         /\ \A q \in Slot : moves'[q] # Absent => moves[q] # Absent
<1>1. moves[m] \in Dragged /\ moves \in [Slot -> Dragged \cup {Absent}]
  BY DraggedIs DEF BoardTypeOK
<1> DEFINE e == [moves[m] EXCEPT !.at = at]
<1>2. /\ e \in Dragged /\ e.from = moves[m].from /\ e.to = moves[m].to
      /\ e.previousFrom = moves[m].previousFrom /\ e.previousTo = moves[m].previousTo
  BY <1>1 DEF Dragged
<1>3. moves' = [moves EXCEPT ![m] = e]
  BY <1>1
<1> HIDE DEF e
<1>4. moves'[m] = e /\ \A q \in Slot \ {m} : moves'[q] = moves[q]
  BY <1>1, <1>3
<1>5. e # Absent
  BY <1>2, BoardAssumption
<1>6. moves' \in [Slot -> Dragged \cup {Absent}]
  BY <1>1, <1>2, <1>3
<1> QED
  BY <1>2, <1>4, <1>5, <1>6

LEMMA MoveCardKeeps ==
  ASSUME BoardInv, NEW m \in Slot, NEW x \in Card, NEW from \in Column, NEW to \in Column, MoveCard(m, x, from, to)
  PROVE  BoardInv'
<1>1. /\ BoardTypeOK /\ SizesFit /\ OneHome /\ Known /\ moves[m] = Absent /\ to # from
      /\ home' = home /\ astray' = astray /\ missed' = missed /\ adrift' = adrift
  BY DEF BoardInv, MoveCard
<1>0. drops' = drops + 1 /\ drops' \in 1..MaxDrops
  BY <1>1, BoardAssumption DEF BoardTypeOK, MoveCard
<1> DEFINE e == [no |-> drops', card |-> x, from |-> from, to |-> to, at |-> "asked",
                 previousFrom |-> cache[from], previousTo |-> cache[to]]
<1>2. /\ cache \in [Column -> Seq(Page) \cup {Absent}] /\ \A c \in Column : Sized(cache[c])
      /\ reading \in [Column -> Fetch \cup {Absent}] /\ moves \in [Slot -> Dragged \cup {Absent}]
  BY <1>1 DEF BoardTypeOK, SizesFit
<1>3. e \in Dragged /\ e # Absent /\ e.from = from /\ e.to = to
      /\ e.previousFrom = cache[from] /\ e.previousTo = cache[to]
  <2>1. e \in Dragged
    BY <1>0, <1>2 DEF Dragged, Outcome
  <2>2. e # Absent
    <3> HIDE DEF e
    <3> QED
      BY <2>1, BoardAssumption
  <2> QED
    BY <2>1, <2>2
<1>4. moves' = [moves EXCEPT ![m] = e]
  BY DEF MoveCard
<1> HIDE DEF e
<1>5. moves'[m] = e /\ (\A q \in Slot \ {m} : moves'[q] = moves[q]) /\ moves' \in [Slot -> Dragged \cup {Absent}]
  BY <1>2, <1>3, <1>4
<1>6. /\ cache' \in [Column -> Seq(Page) \cup {Absent}] /\ \A c \in Column : Sized(cache'[c])
      /\ \A c \in Column \ {from, to} : cache'[c] = cache[c]
  <2>1. /\ cache' = [cache EXCEPT ![from] = removeRow(cache[from], x), ![to] = insertRowAtHead(cache[to], x)]
    BY <1>1, <1>2 DEF MoveCard
  <2>2. /\ removeRow(cache[from], x) \in Seq(Page) \cup {Absent} /\ Sized(removeRow(cache[from], x))
        /\ insertRowAtHead(cache[to], x) \in Seq(Page) \cup {Absent} /\ Sized(insertRowAtHead(cache[to], x))
    BY <1>2, PatchesArePages
  <2>3. /\ cache'[from] = removeRow(cache[from], x) /\ cache'[to] = insertRowAtHead(cache[to], x)
        /\ \A c \in Column \ {from, to} : cache'[c] = cache[c]
    BY <1>1, <1>2, <2>1
  <2>4. cache' \in [Column -> Seq(Page) \cup {Absent}]
    BY <1>2, <2>1, <2>2
  <2> QED
    BY <1>2, <2>2, <2>3, <2>4
<1>7. /\ reading' \in [Column -> Fetch \cup {Absent}] /\ reading'[from] = Absent /\ reading'[to] = Absent
      /\ \A c \in Column \ {from, to} : reading'[c] = reading[c]
  BY <1>1, <1>2 DEF MoveCard
<1>8. BoardTypeOK'
  <2>1. drops' \in 0 .. MaxDrops
    BY <1>0, BoardAssumption
  <2>2. \A c \in Column : reading'[c] # Absent => Len(reading'[c].got) < reading'[c].want /\ reading'[c].want <= MaxPages
    BY <1>1, <1>7 DEF BoardTypeOK
  <2> QED
    BY <1>1, <1>5, <1>6, <1>7, <2>1, <2>2 DEF BoardTypeOK
<1>9. SizesFit'
  <2>1. \A q \in Slot : moves'[q] # Absent => Sized(moves'[q].previousFrom) /\ Sized(moves'[q].previousTo)
    BY <1>1, <1>2, <1>3, <1>5 DEF SizesFit
  <2> QED
    BY <1>6, <2>1 DEF SizesFit, Sized
<1>10. OneHome'
  BY <1>1 DEF OneHome
<1>11. Known'
  <2> SUFFICES ASSUME astray = {}, NEW c \in Column \ missed
               PROVE  Covered(c)' \/ Current(c)'
    BY <1>1 DEF Known
  <2>1. CASE c \in {from, to}
    BY <2>1, <1>3, <1>5 DEF Covered
  <2>2. CASE c \notin {from, to}
    <3>1. Covered(c) \/ Current(c)
      BY <1>1 DEF Known
    <3>2. \A q \in Slot : moves[q] # Absent => moves'[q] = moves[q]
      BY <1>1, <1>5
    <3>3. UNCHANGED <<home[c], cache[c], reading[c]>>
      BY <1>1, <1>6, <1>7, <2>2
    <3> QED
      BY <3>1, <3>2, <3>3, KnownStays
  <2> QED
    BY <2>1, <2>2
<1> QED
  BY <1>8, <1>9, <1>10, <1>11 DEF BoardInv

(* A card that was carried over is in its new column alone; a column it     *)
(* was not in and did not come to is as before.                            *)
LEMMA CarriedIs ==
  ASSUME BoardTypeOK, NEW x \in Card, NEW to \in Column, NEW c \in Column
  PROVE  /\ Carried(x, to)[c] \in Seq(Card)
         /\ Range(Carried(x, to)[c]) \subseteq (Range(home[c]) \ {x}) \cup (IF c = to THEN {x} ELSE {})
         /\ c # to /\ x \notin Range(home[c]) => Carried(x, to)[c] = home[c]
<1> DEFINE w == Without(home[c], x)
           u == IF c = to THEN <<x>> ELSE <<>>
<1>1. home[c] \in Seq(Card)
  BY DEF BoardTypeOK
<1>2. w \in Seq(Card) /\ Range(w) \subseteq Range(home[c]) \ {x} /\ (x \notin Range(home[c]) => w = home[c])
  BY <1>1, WithoutIs
<1>3. u \in Seq(Card) /\ Range(u) \subseteq (IF c = to THEN {x} ELSE {}) /\ (c # to => u = <<>>)
  BY DEF Range
<1>4. Carried(x, to)[c] = u \o w
  BY DEF Carried
<1> HIDE DEF u, w
<1>5. u \o w \in Seq(Card) /\ Range(u \o w) = Range(u) \cup Range(w)
  BY <1>2, <1>3, ConcatProperties, RangeConcatenation
<1>6. <<>> \o w = w
  BY <1>2, ConcatEmptySeq
<1> QED
  BY <1>2, <1>3, <1>4, <1>5, <1>6

LEMMA CarriedIsTyped ==
  ASSUME BoardTypeOK, OneHome, NEW x \in Card, NEW to \in Column, home' = Carried(x, to)
  PROVE  home' \in [Column -> Seq(Card)] /\ OneHome'
<1>1. home' \in [Column -> Seq(Card)]
  <2>1. \A c \in Column : Carried(x, to)[c] \in Seq(Card)
    BY CarriedIs
  <2>2. Carried(x, to) = [c \in Column |-> Carried(x, to)[c]]
    BY DEF Carried
  <2> QED
    BY <2>1, <2>2
<1>2. \A c \in Column : Range(home'[c]) \subseteq (Range(home[c]) \ {x}) \cup (IF c = to THEN {x} ELSE {})
  BY CarriedIs
<1> QED
  BY <1>1, <1>2 DEF OneHome

LEMMA ApplyKeeps ==
  ASSUME BoardInv, NEW m \in Slot, Apply(m)
  PROVE  BoardInv'
<1>1. /\ BoardTypeOK /\ SizesFit /\ OneHome /\ Known /\ moves[m] # Absent
      /\ UNCHANGED <<cache, reading, drops, adrift, missed>> /\ moves' = [moves EXCEPT ![m].at = "done"]
  BY DEF BoardInv, Apply, Pending
<1> DEFINE v == moves[m]
<1>2. v.card \in Card /\ v.from \in Column /\ v.to \in Column
  BY <1>1, DraggedIs
<1>3. /\ moves' \in [Slot -> Dragged \cup {Absent}]
      /\ \A q \in Slot : moves[q] # Absent =>
           /\ moves'[q] # Absent /\ moves'[q].from = moves[q].from /\ moves'[q].to = moves[q].to
           /\ moves'[q].previousFrom = moves[q].previousFrom /\ moves'[q].previousTo = moves[q].previousTo
      /\ \A q \in Slot : moves'[q] # Absent => moves[q] # Absent
  BY <1>1, OutcomeKeepsMoves DEF Outcome
<1>4. /\ home' = Carried(v.card, v.to)
      /\ astray' = IF v.card \in Range(home[v.from]) THEN astray ELSE astray \cup {v.card}
  BY DEF Apply
<1> HIDE DEF v
<1>5. \A c \in Column : c # v.to /\ v.card \notin Range(home[c]) => home'[c] = home[c]
  BY <1>1, <1>2, <1>4, CarriedIs
<1>6. BoardTypeOK' /\ OneHome'
  <2>1. home' \in [Column -> Seq(Card)] /\ OneHome'
    BY <1>1, <1>2, <1>4, CarriedIsTyped
  <2>2. astray' \subseteq Card
    BY <1>1, <1>2, <1>4 DEF BoardTypeOK
  <2> QED
    BY <1>1, <1>3, <2>1, <2>2 DEF BoardTypeOK
<1>7. SizesFit'
  BY <1>1, <1>3 DEF SizesFit, Sized
<1>9. Known'
  <2> SUFFICES ASSUME astray' = {}, NEW c \in Column \ missed
               PROVE  Covered(c)' \/ Current(c)'
    BY <1>1 DEF Known
  <2>1. astray = {} /\ v.card \in Range(home[v.from])
    BY <1>4
  <2>2. CASE c \in {v.from, v.to}
    <3>1. moves'[m] # Absent /\ c \in {moves'[m].from, moves'[m].to}
      BY <2>2, <1>1, <1>3 DEF v
    <3> QED
      BY <3>1 DEF Covered
  <2>3. CASE c \notin {v.from, v.to}
    <3>1. v.card \notin Range(home[c])
      BY <1>1, <1>2, <2>1, <2>3 DEF OneHome
    <3>2. UNCHANGED <<home[c], cache[c], reading[c]>>
      BY <1>1, <1>5, <2>3, <3>1
    <3>3. Covered(c) \/ Current(c)
      BY <1>1, <2>1 DEF Known
    <3> QED
      BY <1>3, <3>2, <3>3, KnownStays
  <2> QED
    BY <2>2, <2>3
<1> QED
  BY <1>6, <1>7, <1>9 DEF BoardInv

(* A request that the server carries out after its client has given it up    *)
(* leaves the columns it changes to be missed.                             *)
LEMMA ApplyLateKeeps ==
  ASSUME BoardInv, NEW r \in adrift, ApplyLate(r)
  PROVE  BoardInv'
<1>1. /\ BoardTypeOK /\ SizesFit /\ OneHome /\ Known
      /\ UNCHANGED <<cache, reading, moves, drops, astray>> /\ adrift' \subseteq adrift
      /\ home' = Carried(r.card, r.to)
      /\ missed' = missed \cup {r.to} \cup {c \in Column : r.card \in Range(home[c])}
  BY DEF BoardInv, ApplyLate
<1>2. r.card \in Card /\ r.to \in Column
  BY <1>1 DEF BoardTypeOK
<1>3. BoardTypeOK' /\ OneHome'
  <2>1. home' \in [Column -> Seq(Card)] /\ OneHome'
    BY <1>1, <1>2, CarriedIsTyped
  <2>2. missed' \subseteq Column /\ adrift' \subseteq [no : 1..MaxDrops, card : Card, to : Column]
    BY <1>1, <1>2 DEF BoardTypeOK
  <2> QED
    BY <1>1, <2>1, <2>2 DEF BoardTypeOK
<1>4. SizesFit'
  BY <1>1 DEF SizesFit, Sized
<1>5. Known'
  <2> SUFFICES ASSUME astray = {}, NEW c \in Column \ missed'
               PROVE  Covered(c)' \/ Current(c)'
    BY <1>1 DEF Known
  <2>1. c \notin missed /\ c # r.to /\ r.card \notin Range(home[c])
    BY <1>1
  <2>2. home'[c] = home[c]
    BY <1>1, <1>2, <2>1, CarriedIs
  <2>3. Covered(c) \/ Current(c)
    BY <1>1, <2>1 DEF Known
  <2> QED
    BY <1>1, <2>2, <2>3, KnownStays
<1> QED
  BY <1>3, <1>4, <1>5 DEF BoardInv

LEMMA OutcomeKeeps ==
  ASSUME BoardInv, NEW m \in Slot, Reject(m) \/ Lose(m)
  PROVE  BoardInv'
<1>1. /\ BoardTypeOK /\ SizesFit /\ OneHome /\ Known /\ moves[m] # Absent
      /\ UNCHANGED <<home, cache, reading, drops, astray, missed>>
  BY DEF BoardInv, Reject, Lose, Pending
<1>2. PICK at \in Outcome : moves' = [moves EXCEPT ![m].at = at]
  BY DEF Reject, Lose, Outcome
<1>3. /\ moves' \in [Slot -> Dragged \cup {Absent}]
      /\ \A q \in Slot : moves[q] # Absent =>
           /\ moves'[q] # Absent /\ moves'[q].from = moves[q].from /\ moves'[q].to = moves[q].to
           /\ moves'[q].previousFrom = moves[q].previousFrom /\ moves'[q].previousTo = moves[q].previousTo
      /\ \A q \in Slot : moves'[q] # Absent => moves[q] # Absent
  BY <1>1, <1>2, OutcomeKeepsMoves
<1>6. adrift' \subseteq [no : 1..MaxDrops, card : Card, to : Column]
  <2>1. moves[m].no \in 1..MaxDrops /\ moves[m].card \in Card /\ moves[m].to \in Column
    BY <1>1, DraggedIs
  <2>2. adrift' \subseteq adrift \cup {[no |-> moves[m].no, card |-> moves[m].card, to |-> moves[m].to]}
    BY DEF Reject, Lose
  <2> QED
    BY <1>1, <2>1, <2>2 DEF BoardTypeOK
<1>4. BoardTypeOK' /\ SizesFit' /\ OneHome'
  BY <1>1, <1>3, <1>6 DEF BoardTypeOK, SizesFit, Sized, OneHome
<1>5. Known'
  <2> SUFFICES ASSUME astray = {}, NEW c \in Column \ missed
               PROVE  Covered(c)' \/ Current(c)'
    BY <1>1 DEF Known
  <2>1. Covered(c) \/ Current(c)
    BY <1>1 DEF Known
  <2> QED
    BY <1>1, <1>3, <2>1, KnownStays
<1> QED
  BY <1>4, <1>5 DEF BoardInv

LEMMA SettleKeeps ==
  ASSUME BoardInv, NEW m \in Slot, Settle(m)
  PROVE  BoardInv'
<1> DEFINE v == moves[m]
           stale == IF v.at = "lost" THEN Column ELSE {v.from, v.to}
<1>1. /\ BoardTypeOK /\ SizesFit /\ OneHome /\ Known /\ v # Absent
      /\ UNCHANGED <<home, drops, astray, adrift>> /\ moves' = [moves EXCEPT ![m] = Absent]
      /\ reading' = Invalidated(stale, cache') /\ missed' = missed \ stale
      /\ cache' = IF v.at = "done" THEN cache
                  ELSE [cache EXCEPT ![v.from] = v.previousFrom, ![v.to] = v.previousTo]
  BY DEF BoardInv, Settle, Pending
<1>2. /\ v.from \in Column /\ v.to \in Column
      /\ v.previousFrom \in Seq(Page) \cup {Absent} /\ v.previousTo \in Seq(Page) \cup {Absent}
      /\ Sized(v.previousFrom) /\ Sized(v.previousTo)
  BY <1>1, DraggedIs DEF SizesFit
<1>3. /\ cache \in [Column -> Seq(Page) \cup {Absent}] /\ \A c \in Column : Sized(cache[c])
      /\ reading \in [Column -> Fetch \cup {Absent}] /\ moves \in [Slot -> Dragged \cup {Absent}]
  BY <1>1 DEF BoardTypeOK, SizesFit
<1>4. stale \subseteq Column /\ {v.from, v.to} \subseteq stale
  BY <1>2
<1> HIDE DEF v, stale
<1>5. /\ cache' \in [Column -> Seq(Page) \cup {Absent}] /\ \A c \in Column : Sized(cache'[c])
      /\ \A c \in Column \ {v.from, v.to} : cache'[c] = cache[c]
  <2>1. CASE v.at = "done"
    BY <1>1, <1>3, <2>1
  <2>2. CASE v.at # "done"
    <3>1. cache' = [cache EXCEPT ![v.from] = v.previousFrom, ![v.to] = v.previousTo]
      BY <1>1, <2>2
    <3>2. \A c \in Column : cache'[c] = IF c = v.to THEN v.previousTo
                                       ELSE IF c = v.from THEN v.previousFrom ELSE cache[c]
      BY <1>2, <1>3, <3>1
    <3>3. cache' \in [Column -> Seq(Page) \cup {Absent}]
      BY <1>2, <1>3, <3>1
    <3> QED
      BY <1>2, <1>3, <3>2, <3>3
  <2> QED
    BY <2>1, <2>2
<1>6. \A q \in Slot : moves'[q] = IF q = m THEN Absent ELSE moves[q]
  BY <1>1, <1>3
<1>7. \A c \in Column : reading'[c] = IF c \in stale THEN Refetch(cache'[c]) ELSE reading[c]
  BY <1>1 DEF Invalidated
<1>8. \A c \in Column : /\ Refetch(cache'[c]) \in Fetch /\ Refetch(cache'[c]) # Absent
                        /\ Refetch(cache'[c]).got = <<>>
                        /\ Len(Refetch(cache'[c]).got) < Refetch(cache'[c]).want
                        /\ Refetch(cache'[c]).want <= MaxPages
  <2> TAKE c \in Column
  <2>1. cache'[c] \in Seq(Page) \cup {Absent} /\ Sized(cache'[c])
    BY <1>5
  <2> QED
    BY <2>1, RefetchIs
<1>9. BoardTypeOK'
  <2>1. reading' \in [Column -> Fetch \cup {Absent}]
    <3>1. reading' = [c \in Column |-> IF c \in stale THEN Refetch(cache'[c]) ELSE reading[c]]
      BY <1>1 DEF Invalidated
    <3> QED
      BY <1>3, <1>8, <3>1
  <2>2. \A c \in Column : reading'[c] # Absent => Len(reading'[c].got) < reading'[c].want /\ reading'[c].want <= MaxPages
    BY <1>1, <1>7, <1>8 DEF BoardTypeOK
  <2>3. moves' \in [Slot -> Dragged \cup {Absent}]
    BY <1>1, <1>3
  <2>4. missed' \subseteq Column
    BY <1>1 DEF BoardTypeOK
  <2> QED
    BY <1>1, <1>5, <2>1, <2>2, <2>3, <2>4 DEF BoardTypeOK
<1>10. SizesFit'
  <2>1. \A q \in Slot : moves'[q] # Absent => Sized(moves'[q].previousFrom) /\ Sized(moves'[q].previousTo)
    BY <1>1, <1>6 DEF SizesFit
  <2> QED
    BY <1>5, <2>1 DEF SizesFit, Sized
<1>11. OneHome'
  BY <1>1 DEF OneHome
<1>12. Known'
  <2> SUFFICES ASSUME astray' = {}, NEW c \in Column \ missed'
               PROVE  Covered(c)' \/ Current(c)'
    BY DEF Known
  <2>1. CASE c \in stale
    <3>1. reading'[c] # Absent /\ reading'[c].got = <<>>
      BY <1>7, <1>8, <2>1
    <3> QED
      BY <3>1, NothingReadIsRight DEF Current
  <2>2. CASE c \notin stale
    <3>1. c \notin missed /\ astray = {} /\ c \notin {v.from, v.to}
      BY <1>1, <1>4, <2>2
    <3>2. Covered(c) \/ Current(c)
      BY <1>1, <3>1 DEF Known
    <3>3. UNCHANGED <<home[c], cache[c], reading[c]>>
      BY <1>1, <1>5, <1>7, <2>2, <3>1
    <3>4. \A q \in Slot : moves[q] # Absent /\ c \in {moves[q].from, moves[q].to} => moves'[q] = moves[q]
      BY <1>6, <3>1 DEF v
    <3> QED
      BY <3>2, <3>3, <3>4, KnownStays
  <2> QED
    BY <2>1, <2>2
<1> QED
  BY <1>9, <1>10, <1>11, <1>12 DEF BoardInv

(* A page that arrives is the next of those the server has.                *)
LEMMA NextPageIs ==
  ASSUME BoardTypeOK, NEW c \in Column, NEW got \in Seq(Page)
  PROVE  /\ Append(got, ListPage(c, Len(got) + 1)) \in Seq(Page)
         /\ Len(Append(got, ListPage(c, Len(got) + 1))) = Len(got) + 1 /\ Len(got) \in Nat
         /\ PagesOf(got, home[c]) => PagesOf(Append(got, ListPage(c, Len(got) + 1)), home[c])
<1> DEFINE n == Len(got) + 1
           all == Append(got, ListPage(c, n))
<1>1. home[c] \in Seq(Card) /\ Len(got) \in Nat /\ n \in Nat \ {0}
  BY DEF BoardTypeOK
<1>2. ListPage(c, n) = PageOf(home[c], n)
  BY DEF ListPage, PageOf
<1>3. ListPage(c, n) \in Page
  <2> HIDE DEF n
  <2> QED
    BY <1>1, <1>2, PieceByPiece
<1>4. /\ all \in Seq(Page) /\ Len(all) = n /\ all[n] = ListPage(c, n)
      /\ \A i \in 1 .. Len(got) : all[i] = got[i]
  BY <1>1, <1>3
<1>5. ASSUME PagesOf(got, home[c]) PROVE PagesOf(all, home[c])
  <2> SUFFICES ASSUME NEW i \in 1 .. Len(all) PROVE all[i] = PageOf(home[c], i)
    BY DEF PagesOf
  <2>1. i \in 1 .. Len(got) \/ i = n
    BY <1>1, <1>4
  <2> HIDE DEF all, n
  <2> QED
    BY <1>2, <1>4, <1>5, <2>1 DEF PagesOf
<1> QED
  BY <1>1, <1>4, <1>5

LEMMA ReadPageKeeps ==
  ASSUME BoardInv, NEW c \in Column, ReadPage(c)
  PROVE  BoardInv'
<1> DEFINE r == reading[c]
           got == Append(r.got, ListPage(c, Len(r.got) + 1))
           last == Len(got) = r.want \/ ~HasNextPage(got)
<1>1. /\ BoardTypeOK /\ SizesFit /\ OneHome /\ Known /\ r # Absent
      /\ UNCHANGED <<home, moves, drops, astray, adrift, missed>>
  BY DEF BoardInv, ReadPage
<1>2. /\ cache \in [Column -> Seq(Page) \cup {Absent}]
      /\ reading \in [Column -> Fetch \cup {Absent}]
  BY <1>1 DEF BoardTypeOK
<1>3. r \in Fetch /\ r.got \in Seq(Page) /\ r.want \in Nat /\ Len(r.got) < r.want /\ r.want <= MaxPages
  <2>1. r \in Fetch
    BY <1>1, <1>2
  <2> QED
    BY <1>1, <2>1 DEF Fetch, BoardTypeOK
<1>4. /\ got \in Seq(Page) /\ Len(got) = Len(r.got) + 1 /\ Len(r.got) \in Nat
      /\ PagesOf(r.got, home[c]) => PagesOf(got, home[c])
  <2> HIDE DEF r
  <2> QED
    BY <1>1, <1>3, NextPageIs
<1>5. IF last THEN cache' = [cache EXCEPT ![c] = got] /\ reading' = [reading EXCEPT ![c] = Absent]
      ELSE reading' = [reading EXCEPT ![c].got = got] /\ cache' = cache
  BY DEF ReadPage
<1>13. ~last => Len(got) # r.want
  OBVIOUS
<1> DEFINE e == [r EXCEPT !.got = got]
<1>14. ~last => reading' = [reading EXCEPT ![c] = e]
  BY <1>5
<1> HIDE DEF got, last
<1>6. e \in Fetch /\ e.got = got /\ e.want = r.want /\ e # Absent
  <2>1. e \in Fetch /\ e.got = got /\ e.want = r.want
    BY <1>3, <1>4 DEF Fetch
  <2> HIDE DEF e
  <2> QED
    BY <2>1, BoardAssumption
<1> HIDE DEF r, e
<1>7. got # Absent /\ Len(got) \in 1 .. MaxPages
  BY <1>3, <1>4, BoardAssumption
<1>8. /\ cache' \in [Column -> Seq(Page) \cup {Absent}]
      /\ \A d \in Column : cache'[d] = IF last /\ d = c THEN got ELSE cache[d]
  BY <1>2, <1>4, <1>5
<1>9. /\ reading' \in [Column -> Fetch \cup {Absent}]
      /\ \A d \in Column : reading'[d] = IF d # c THEN reading[d] ELSE IF last THEN Absent ELSE e
  BY <1>2, <1>5, <1>6, <1>14
<1>10. BoardTypeOK'
  <2>1. \A d \in Column : reading'[d] # Absent => Len(reading'[d].got) < reading'[d].want /\ reading'[d].want <= MaxPages
    <3>1. ~last => Len(got) < r.want
      BY <1>3, <1>4, <1>13
    <3> QED
      BY <1>1, <1>3, <1>6, <1>9, <3>1 DEF BoardTypeOK
  <2> QED
    BY <1>1, <1>8, <1>9, <2>1 DEF BoardTypeOK
<1>11. SizesFit' /\ OneHome'
  BY <1>1, <1>7, <1>8 DEF SizesFit, Sized, OneHome
<1>12. Known'
  <2> SUFFICES ASSUME astray = {}, NEW d \in Column \ missed
               PROVE  Covered(d)' \/ Current(d)'
    BY <1>1 DEF Known
  <2>1. Covered(d) \/ Current(d)
    BY <1>1 DEF Known
  <2>2. Covered(d) => Covered(d)'
    BY <1>1 DEF Covered
  <2>3. ASSUME d # c, Current(d) PROVE Current(d)'
    BY <1>1, <1>8, <1>9, <2>3 DEF Current
  <2>4. ASSUME d = c, Current(d) PROVE Current(d)'
    <3>1. PagesOf(got, home[c])
      BY <1>1, <1>4, <2>4 DEF Current, r
    <3> QED
      BY <1>1, <1>6, <1>7, <1>8, <1>9, <2>4, <3>1 DEF Current
  <2> QED
    BY <2>1, <2>2, <2>3, <2>4
<1> QED
  BY <1>10, <1>11, <1>12 DEF BoardInv

LEMMA LoadMoreKeeps ==
  ASSUME BoardInv, NEW c \in Column, LoadMore(c)
  PROVE  BoardInv'
<1> DEFINE e == [more |-> TRUE, got |-> cache[c], want |-> Len(cache[c]) + 1]
<1>1. /\ BoardTypeOK /\ SizesFit /\ OneHome /\ Known /\ cache[c] # Absent /\ Len(cache[c]) < MaxPages
      /\ UNCHANGED <<home, cache, moves, drops, astray, adrift>> /\ reading' = [reading EXCEPT ![c] = e]
      /\ missed' = IF reading[c] # Absent THEN missed \cup {c} ELSE missed
  BY DEF BoardInv, LoadMore
<1>2. cache[c] \in Seq(Page) /\ Len(cache[c]) \in Nat /\ reading \in [Column -> Fetch \cup {Absent}]
  BY <1>1 DEF BoardTypeOK
<1>3. e \in Fetch /\ e.got = cache[c] /\ e.want = Len(cache[c]) + 1 /\ e # Absent
  <2>1. e \in Fetch
    BY <1>2 DEF Fetch
  <2>2. e # Absent
    <3> HIDE DEF e
    <3> QED
      BY <2>1, BoardAssumption
  <2> QED
    BY <2>1, <2>2
<1> HIDE DEF e
<1>4. /\ reading' \in [Column -> Fetch \cup {Absent}]
      /\ \A d \in Column : reading'[d] = IF d = c THEN e ELSE reading[d]
  BY <1>1, <1>2, <1>3
<1>5. BoardTypeOK'
  <2>1. Len(e.got) < e.want /\ e.want <= MaxPages
    BY <1>1, <1>2, <1>3, BoardAssumption
  <2>2. \A d \in Column : reading'[d] # Absent => Len(reading'[d].got) < reading'[d].want /\ reading'[d].want <= MaxPages
    BY <1>1, <1>4, <2>1 DEF BoardTypeOK
  <2> QED
    BY <1>1, <1>4, <2>2 DEF BoardTypeOK
<1>6. SizesFit' /\ OneHome'
  BY <1>1 DEF SizesFit, Sized, OneHome
<1>7. Known'
  <2> SUFFICES ASSUME astray = {}, NEW d \in Column \ missed'
               PROVE  Covered(d)' \/ Current(d)'
    BY <1>1 DEF Known
  <2>1. d \notin missed /\ (d = c => reading[c] = Absent)
    BY <1>1
  <2>2. Covered(d) \/ Current(d)
    BY <1>1, <2>1 DEF Known
  <2>3. Covered(d) => Covered(d)'
    BY <1>1 DEF Covered
  <2>4. ASSUME Current(d) PROVE Current(d)'
    BY <1>1, <1>3, <1>4, <2>1, <2>4 DEF Current
  <2> QED
    BY <2>2, <2>3, <2>4
<1> QED
  BY <1>5, <1>6, <1>7 DEF BoardInv

LEMMA RefreshKeeps ==
  ASSUME BoardInv, Refresh
  PROVE  BoardInv'
<1>1. /\ BoardTypeOK /\ SizesFit /\ OneHome /\ UNCHANGED <<home, cache, moves, drops, adrift>>
      /\ reading' = [c \in Column |-> Refetch(cache[c])] /\ astray' \subseteq astray /\ missed' = {}
  BY DEF BoardInv, Refresh, Invalidated
<1>2. \A c \in Column : /\ Refetch(cache[c]) \in Fetch /\ Refetch(cache[c]) # Absent
                        /\ Refetch(cache[c]).got = <<>>
                        /\ Len(Refetch(cache[c]).got) < Refetch(cache[c]).want
                        /\ Refetch(cache[c]).want <= MaxPages
  <2> TAKE c \in Column
  <2>1. cache[c] \in Seq(Page) \cup {Absent} /\ Sized(cache[c])
    BY <1>1 DEF BoardTypeOK, SizesFit
  <2> QED
    BY <2>1, RefetchIs
<1>3. BoardTypeOK'
  BY <1>1, <1>2 DEF BoardTypeOK
<1>4. SizesFit' /\ OneHome'
  BY <1>1 DEF SizesFit, Sized, OneHome
<1>5. Known'
  <2>1. ASSUME NEW c \in Column PROVE Current(c)'
    <3>1. reading'[c] # Absent /\ reading'[c].got = <<>>
      BY <1>1, <1>2
    <3> QED
      BY <3>1, NothingReadIsRight DEF Current
  <2> QED
    BY <2>1 DEF Known
<1> QED
  BY <1>3, <1>4, <1>5 DEF BoardInv

LEMMA BoardStepInv == BoardInv /\ [BoardNext]_boardVars => BoardInv'
<1> SUFFICES ASSUME BoardInv, [BoardNext]_boardVars PROVE BoardInv'
  OBVIOUS
<1>1. ASSUME NEW m \in Slot, NEW x \in Card, NEW from \in Column, NEW to \in Column, MoveCard(m, x, from, to)
      PROVE  BoardInv'
  BY <1>1, MoveCardKeeps
<1>2. ASSUME NEW m \in Slot, Apply(m) PROVE BoardInv'
  BY <1>2, ApplyKeeps
<1>3. ASSUME NEW m \in Slot, Reject(m) \/ Lose(m) PROVE BoardInv'
  BY <1>3, OutcomeKeeps
<1>4. ASSUME NEW m \in Slot, Settle(m) PROVE BoardInv'
  BY <1>4, SettleKeeps
<1>5. ASSUME NEW c \in Column, ReadPage(c) PROVE BoardInv'
  BY <1>5, ReadPageKeeps
<1>6. ASSUME NEW c \in Column, LoadMore(c) PROVE BoardInv'
  BY <1>6, LoadMoreKeeps
<1>7. CASE Refresh
  BY <1>7, RefreshKeeps
<1>9. ASSUME NEW r \in adrift, ApplyLate(r) PROVE BoardInv'
  BY <1>9, ApplyLateKeeps
<1>8. CASE UNCHANGED boardVars
  BY <1>8 DEF boardVars, BoardInv, BoardTypeOK, SizesFit, Sized, OneHome, Known, Covered, Current
<1> QED
  BY <1>1, <1>2, <1>3, <1>4, <1>5, <1>6, <1>7, <1>8, <1>9 DEF BoardNext

LEMMA RestIsTrue == BoardInv => QuietBoardIsTrue
<1> SUFFICES ASSUME BoardInv, Quiet, astray = {}, NEW c \in Column \ missed
             PROVE  Truthful(c)
  BY DEF QuietBoardIsTrue, BoardInv
<1>1. BoardTypeOK /\ SizesFit /\ Known /\ reading[c] = Absent /\ ~Covered(c)
  BY DEF BoardInv, Quiet, Pending, Covered
<1>2. cache[c] # Absent /\ PagesOf(cache[c], home[c])
  BY <1>1 DEF Known, Current
<1> DEFINE s == cache[c]
           h == home[c]
           n == Upto(h, Len(s))
<1>3. s \in Seq(Page) /\ h \in Seq(Card) /\ Len(s) \in Nat /\ Len(s) >= 1
  BY <1>1, <1>2 DEF BoardTypeOK, SizesFit, Sized
<1> HIDE DEF s, h
<1>4. PagesOf(s, h)
  BY <1>2 DEF s, h
<1>5. s # <<>> /\ 1 \in 1 .. Len(s)
  BY <1>3
<1>6. columnRows(s) = SubSeq(h, 1, n)
  BY <1>3, <1>4, <1>5, PagesArePrefix
<1>7. n \in 0 .. Len(h) /\ Len(h) \in Nat
  BY <1>3, UptoIs
<1> HIDE DEF n
<1>8. SubSeq(h, 1, n) \in Seq(Card) /\ Len(SubSeq(h, 1, n)) = n
  <2>1. \A i \in 1 .. n : h[i] \in Card
    BY <1>3, <1>7
  <2> QED
    BY <1>7, <2>1, SubSeqProperties
<1>9. SubSeq(SubSeq(h, 1, n), 1, n) = SubSeq(h, 1, n)
  BY <1>8, SubSeqFull
<1>10. Seqs!IsPrefix(columnRows(s), h)
  BY <1>6, <1>7, <1>8, <1>9 DEF Seqs!IsPrefix
<1>11. s[1].total = Len(h)
  <2>1. s[1] = PageOf(h, 1)
    BY <1>4, <1>5 DEF PagesOf
  <2> QED
    BY <2>1 DEF PageOf
<1> QED
  BY <1>2, <1>10, <1>11 DEF Truthful, s, h

(* A board at rest shows what the server has, however many moves           *)
(* overlapped, were refused, were never answered or were carried out after  *)
(* they were given up: of a column that no move in flight touches and none  *)
(* changed behind the client's back, either every page shown is the page    *)
(* the server has, or every page read so far is.                           *)
THEOREM QuietBoardStaysTrue == BoardSpec => []QuietBoardIsTrue
<1>1. BoardInit => BoardInv
  BY BoardInitInv
<1>2. BoardInv /\ [BoardNext]_boardVars => BoardInv'
  BY BoardStepInv
<1>3. BoardInv => QuietBoardIsTrue
  BY RestIsTrue
<1> QED
  BY <1>1, <1>2, <1>3, PTL DEF BoardSpec
=============================================================================
