---------------------------- MODULE Notifications ----------------------------
(***************************************************************************)
(* Notification rules and their evaluation (notifications/service.ts,      *)
(* called by leads/prisma-lead-repository.ts and leads/trigger-dispatch.ts *)
(* inside the transaction of the activity that triggers them).             *)
(*                                                                         *)
(* One lead with one process instance and one assignment type.  Statements *)
(* are READ COMMITTED: the rules an evaluation lists and the recipients it *)
(* lists for them are two of them, and an edit of a rule deletes the       *)
(* recipients its own statement can see.                                   *)
(***************************************************************************)
EXTENDS Naturals, FiniteSets

CONSTANTS
  Person, Manager, \* users, and users.manager_id
  Holders,         \* users with the feature permission rules may name
  Field, Rule,
  Settings,        \* what an administrator may send for a rule
  Shares,          \* sets of grants to start from
  Handler,         \* request handlers that run at the same time
  MaxEdit,         \* bound: rules created and edited
  MaxActivity,     \* bound: activities
  NoUser, NoField

Resolver == {"assignment_holder", "assignment_holder_manager", "previous_assignment_holder",
             "share_creator", "active_shared_users_except_actor", "feature_permission_holders"}
Trigger == {"field_edited", "lead_reassigned", "shared_lead_modified_by_non_owner"}

VARIABLES
  rule,         \* notification_rules
  recipients,   \* notification_rule_recipients, with the edit that wrote each
  employed,     \* users.active
  holder,       \* the current assignment of the instance
  grants,       \* user_access_grants of the lead that are not revoked
  notes,        \* notifications
  telling,      \* requests
  made,         \* how many edits and activities there have been
  mixed         \* history: rules last edited by edits that overlapped

noteVars == <<rule, recipients, employed, holder, grants, notes, telling, made, mixed>>

Scope == Field \cup {NoField}
RuleType == [life : {"none", "active", "inactive"}, trigger : Trigger, scope : Scope, version : Nat]
Recipient == [rule : Rule, edit : Nat, resolver : Resolver]
Grant == [user : Person, by : Person, expired : BOOLEAN]
Activity == [id : Nat, trigger : Trigger, actor : Person, changed : SUBSET Field, old : Person \cup {NoUser}]
Note == [rule : Rule, activity : Nat, user : Person]
Free == [at |-> "free"]

(* A request is an edit of a rule, or an activity with the evaluation it    *)
(* triggers: rules still to take, and what the second query read of each;   *)
(* a reassignment also has the holder it made, NoUser with the others.      *)
Setting == [trigger : Trigger, scope : Scope, life : {"active", "inactive"},
            resolvers : SUBSET Resolver]
Edit == [at : {"edit"}, rule : Rule, edit : Nat, as : Setting, seen : SUBSET Recipient,
         alone : BOOLEAN]
Evaluation == [at : {"list", "evaluate"}, activity : Activity, holder : Person \cup {NoUser},
               rules : SUBSET (Rule \X Scope \X Nat), recipients : SUBSET Recipient,
               told : SUBSET Note, edited : SUBSET Rule]

(* What an administrator may send for a rule is what the body of the route  *)
(* takes, and a share has a creator who is a user.                          *)
ASSUME NotificationsAssumption ==
  /\ Manager \in [Person -> Person \cup {NoUser}] /\ Holders \subseteq Person
  /\ NoUser \notin Person /\ NoField \notin Field
  /\ Settings \subseteq Setting /\ Shares \subseteq SUBSET Grant
  /\ MaxEdit \in Nat /\ MaxActivity \in Nat

NoteTypeOK ==
  /\ rule \in [Rule -> RuleType] /\ recipients \subseteq Recipient
  /\ employed \subseteq Person /\ holder \in Person \cup {NoUser} /\ grants \subseteq Grant
  /\ notes \subseteq Note
  /\ \A s \in Handler : telling[s] = Free \/ telling[s] \in Edit \/ telling[s] \in Evaluation
  /\ made \in [edits : 0 .. MaxEdit, activities : 0 .. MaxActivity]
  /\ mixed \subseteq Rule

Unmade == [life |-> "none", trigger |-> "field_edited", scope |-> NoField, version |-> 0]

NoteInit ==
  /\ rule = [r \in Rule |-> Unmade] /\ recipients = {} /\ employed = Person
  /\ holder \in Person \cup {NoUser} /\ grants \in Shares
  /\ notes = {} /\ telling = [s \in Handler |-> Free]
  /\ made = [edits |-> 0, activities |-> 0] /\ mixed = {}

Become(s, t) == telling' = [telling EXCEPT ![s] = t]
RecipientsOf(r) == {x \in recipients : x.rule = r}

(* validateRule: at least one recipient, and a scope only for field edits.  *)
ValidRule(as) == as.resolvers # {} /\ (as.scope # NoField => as.trigger = "field_edited")

CountEdit == made.edits < MaxEdit /\ made' = [made EXCEPT !.edits = @ + 1]
Rows(r, edit, as) == [rule : {r}, edit : {edit}, resolver : as.resolvers]

CreateRule(r, as) ==
  /\ rule[r].life = "none" /\ ValidRule(as) /\ CountEdit
  /\ rule' = [rule EXCEPT ![r] = [life |-> "active", trigger |-> as.trigger, scope |-> as.scope,
                                  version |-> 1]]
  /\ recipients' = recipients \cup Rows(r, made'.edits, as)
  /\ UNCHANGED <<employed, holder, grants, notes, telling, mixed>>

(* updateRule: the DELETE of the recipients waits for an edit that has      *)
(* deleted them and not yet ended, and then does not see the new ones.      *)
Rivals(r) == {t \in Handler : telling[t].at = "edit" /\ telling[t].rule = r}

UpdateRule(s, r, as) ==
  /\ telling[s] = Free /\ rule[r].life # "none" /\ ValidRule(as) /\ CountEdit
  /\ telling' = [t \in Handler |->
       IF t = s THEN [at |-> "edit", rule |-> r, edit |-> made'.edits, as |-> as,
                      seen |-> RecipientsOf(r), alone |-> Rivals(r) = {}]
       ELSE IF t \in Rivals(r) THEN [telling[t] EXCEPT !.alone = FALSE] ELSE telling[t]]
  /\ UNCHANGED <<rule, recipients, employed, holder, grants, notes, mixed>>

Edited(r) == [t \in Handler |-> IF telling[t].at \in {"list", "evaluate"}
                                  THEN [telling[t] EXCEPT !.edited = @ \cup {r}] ELSE telling[t]]

Deleted(t) == t.seen

(* A request that has no scope leaves the one that is stored.               *)
KeptScope(old, as) == IF as.scope = NoField THEN old ELSE as.scope

SaveRule(s) ==
  LET t == telling[s]
  IN /\ t.at = "edit"
     /\ rule' = [rule EXCEPT ![t.rule] = [life |-> t.as.life, trigger |-> t.as.trigger,
                                          scope |-> KeptScope(@.scope, t.as), version |-> @.version + 1]]
     /\ recipients' = (recipients \ Deleted(t)) \cup Rows(t.rule, t.edit, t.as)
     /\ mixed' = IF t.alone THEN mixed \ {t.rule} ELSE mixed \cup {t.rule}
     /\ telling' = [Edited(t.rule) EXCEPT ![s] = Free]
     /\ UNCHANGED <<employed, holder, grants, notes, made>>

----------------------------------------------------------------------------
CountActivity == made.activities < MaxActivity /\ made' = [made EXCEPT !.activities = @ + 1]

(* The activity row, and the list of the rules its trigger concerns; a rule *)
(* with a scope concerns the edits of that field.                           *)
Concerns(x, scope) == scope = NoField \/ scope \in x.changed

Listed(x) ==
  {<<r, rule[r].scope, rule[r].version>> :
     r \in {q \in Rule : rule[q].life = "active" /\ rule[q].trigger = x.trigger}}

(* The previous holder is the one a reassignment replaces; the new          *)
(* assignment is the transaction's own until it commits, and nobody else's  *)
(* can come between, for it holds the row of the old one.                   *)
Activities ==
  [id : {made.activities + 1}, trigger : {"field_edited"}, actor : employed,
   changed : (SUBSET Field) \ {{}}, old : {NoUser}]
  \cup [id : {made.activities + 1}, trigger : {"lead_reassigned"}, actor : employed,
        changed : {{}}, old : {holder}]
  \cup [id : {made.activities + 1}, trigger : {"shared_lead_modified_by_non_owner"},
        actor : {g.user : g \in {h \in grants : ~h.expired}}, changed : {{}}, old : {NoUser}]

Reassigning == \E t \in Handler : telling[t].at \in {"list", "evaluate"} /\ telling[t].holder # NoUser

WriteActivity(s, x, next) ==
  /\ telling[s] = Free /\ CountActivity
  /\ IF x.trigger = "lead_reassigned" THEN next \in Person \ {holder} /\ ~Reassigning ELSE next = NoUser
  /\ Become(s, [at |-> "list", activity |-> x, holder |-> next, rules |-> Listed(x),
                recipients |-> {}, told |-> {}, edited |-> {}])
  /\ UNCHANGED <<rule, recipients, employed, holder, grants, notes, mixed>>

ListRecipients(s) ==
  /\ telling[s].at = "list"
  /\ Become(s, [telling[s] EXCEPT !.at = "evaluate",
                  !.recipients = {x \in recipients : \E q \in telling[s].rules : q[1] = x.rule}])
  /\ UNCHANGED <<rule, recipients, employed, holder, grants, notes, made, mixed>>

(* resolve: whom a recipient stands for.  Only two of the resolvers look at  *)
(* whether a user is active, and the share's creator is told of a share     *)
(* that has expired.                                                        *)

Resolve(resolver, x, whom) ==
  CASE resolver = "assignment_holder" -> {whom} \ {NoUser}
    [] resolver = "assignment_holder_manager" -> (IF whom = NoUser THEN {} ELSE {Manager[whom]}) \ {NoUser}
    [] resolver = "previous_assignment_holder" -> {x.old} \ {NoUser}
    [] resolver = "share_creator" -> {g.by : g \in grants}
    [] resolver = "active_shared_users_except_actor" ->
         {g.user : g \in {h \in grants : ~h.expired /\ h.user \in employed /\ h.user # x.actor}}
    [] resolver = "feature_permission_holders" -> Holders \cap employed

(* The statements of an evaluation see what its own transaction wrote, and  *)
(* of the others' what is committed.                                       *)
HolderCommitted(t) == holder
HolderSeen(t) == IF t.holder = NoUser THEN holder ELSE t.holder

(* One rule of the list: its recipients' users, together.                   *)
Evaluate(s, q) ==
  LET t == telling[s]  x == t.activity
      users == UNION {Resolve(y.resolver, x, HolderSeen(t)) : y \in {z \in t.recipients : z.rule = q[1]}}
  IN /\ t.at = "evaluate" /\ q \in t.rules
     /\ Become(s, [t EXCEPT !.rules = @ \ {q},
          !.told = IF Concerns(x, q[2])
                     THEN @ \cup [rule : {q[1]}, activity : {x.id}, user : users] ELSE @])
     /\ UNCHANGED <<rule, recipients, employed, holder, grants, notes, made, mixed>>

(* The transaction of the activity ends, or fails and takes all with it.    *)
Commit(s) ==
  /\ telling[s].at = "evaluate" /\ telling[s].rules = {}
  /\ notes' = notes \cup telling[s].told /\ Become(s, Free)
  /\ holder' = IF telling[s].holder = NoUser THEN holder ELSE telling[s].holder
  /\ UNCHANGED <<rule, recipients, employed, grants, made, mixed>>

Rollback(s) ==
  /\ telling[s].at \in {"list", "evaluate"} /\ Become(s, Free)
  /\ UNCHANGED <<rule, recipients, employed, holder, grants, notes, made, mixed>>

(* People leave, and shares expire, while rules are evaluated.              *)
Leave(u) ==
  /\ u \in employed /\ employed' = employed \ {u}
  /\ UNCHANGED <<rule, recipients, holder, grants, notes, telling, made, mixed>>

Expire(g) ==
  /\ g \in grants /\ ~g.expired
  /\ grants' = (grants \ {g}) \cup {[g EXCEPT !.expired = TRUE]}
  /\ UNCHANGED <<rule, recipients, employed, holder, notes, telling, made, mixed>>

NoteRequest ==
  \E s \in Handler :
    \/ \E r \in Rule, as \in Settings : CreateRule(r, as) \/ UpdateRule(s, r, as)
    \/ \E x \in Activities, u \in Person \cup {NoUser} : WriteActivity(s, x, u)

NoteNext ==
  \/ NoteRequest
  \/ \E s \in Handler :
       \/ SaveRule(s) \/ ListRecipients(s) \/ Commit(s) \/ Rollback(s)
       \/ telling[s].at = "evaluate" /\ \E q \in telling[s].rules : Evaluate(s, q)
  \/ \E u \in Person : Leave(u)
  \/ \E g \in grants : Expire(g)

NoteSpec == NoteInit /\ [][NoteNext]_noteVars

(* updateRule replaces: the recipients of a rule are those of one edit,     *)
(* unless the last ones overlapped, and the next edit alone puts it right.  *)
RecipientsAreOneEdits ==
  \A x, y \in recipients : x.rule = y.rule /\ x.edit # y.edit => x.rule \in mixed

(* Who is told was to be told: by a rule that is active and concerns the    *)
(* activity when it commits, or one that was edited while it was evaluated. *)
ToldByARule ==
  [][\A s \in Handler : Commit(s) =>
       \A n \in notes' \ notes :
         \/ n.rule \in telling[s].edited
         \/ /\ rule[n.rule].life = "active"
            /\ rule[n.rule].trigger = telling[s].activity.trigger
            /\ Concerns(telling[s].activity, rule[n.rule].scope)]_noteVars

(* A rule on reassignments that names the holder tells the one who holds    *)
(* the lead from now on, although nobody else sees that yet; but not a rule *)
(* that was about the edits of a field once.                                *)
HolderIsTold(s, x) ==
  Commit(s) /\ telling[s].activity.trigger = "lead_reassigned" /\ x.rule \notin telling[s].edited
    /\ x.resolver = "assignment_holder" =>
      [rule |-> x.rule, activity |-> telling[s].activity.id, user |-> holder'] \in notes'

NewHolderIsTold ==
  [][\A s \in Handler : Commit(s) => \A x \in telling[s].recipients :
       rule[x.rule].scope = NoField => HolderIsTold(s, x)]_noteVars

(* All of it together: the one who comes to hold a lead is told of the     *)
(* reassignment; everyone who is told was to be told by a rule that concerns *)
(* the activity; and the recipients of a rule are those of one edit of it.  *)
ConcernedAreTold ==
  [](NoteTypeOK /\ RecipientsAreOneEdits) /\ ToldByARule /\ NewHolderIsTold

(* The comment on evaluate: a trigger that never carries the fields that    *)
(* changed leaves the rule unrestricted, whatever its scope.                *)
OtherTriggersAreUnrestricted ==
  [][\A s \in Handler : Commit(s) => \A x \in telling[s].recipients : HolderIsTold(s, x)]_noteVars

(* The plan of notifications: inactive users are removed from the union.    *)
(* The holder, the manager, the previous holder and the creator are not.    *)
OnlyTheActiveAreTold ==
  [][\A n \in notes' \ notes : n.user \in employed]_noteVars
=============================================================================
