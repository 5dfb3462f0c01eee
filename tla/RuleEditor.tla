----------------------------- MODULE RuleEditor ------------------------------
(***************************************************************************)
(* The notification rules page (pages/admin/NotificationRulesPage.tsx) and *)
(* the rule it writes, whole: PUT replaces every recipient, so both the    *)
(* editor and the button that switches a rule on or off send back what the *)
(* page had read of it.  What the server does with a rule is Notifications.*)
(*                                                                         *)
(* One rule.  A name is blank or not; the editor stays usable while a save *)
(* is under way.                                                           *)
(***************************************************************************)
EXTENDS Naturals, Sequences, SequencesExt

CONSTANTS Trigger, Assignment,
          Module, ActionsOf(_), \* the permission catalog
          Starts,               \* the rules there may be at first
          MaxRecipients, MaxEdits, MaxWrites, None

VARIABLES rule,     \* server: the rule, or None
          list,     \* client: the rule as last read
          draft, pristine,
          saving, switching, \* the requests in flight: a save, and switches
          edits, writes

ruleVars == <<rule, list, draft, pristine, saving, switching, edits, writes>>

Resolver == {"assignment_holder", "previous_assignment_holder", "share_creator",
             "feature_permission_holders"}
parametersFor(resolver) == CASE resolver = "assignment_holder" -> "assignment"
                             [] resolver = "feature_permission_holders" -> "permission"
                             [] OTHER -> "none"

(* A parameter that is not there is blank; userId comes from the API only. *)
Blank == "blank"
Recipient(resolver, assignment, module, action, userId) ==
  [resolver |-> resolver, assignment |-> assignment, module |-> module, action |-> action,
   userId |-> userId]

-----------------------------------------------------------------------------
emptyRecipient == Recipient("assignment_holder", Blank, Blank, Blank, Blank)
emptyRule == [stored |-> FALSE, named |-> FALSE, trigger |-> "field_edited", active |-> TRUE,
              recipients |-> <<emptyRecipient>>]

toDraft(r) == [stored |-> TRUE, named |-> TRUE, trigger |-> r.trigger, active |-> r.active,
               recipients |-> [i \in DOMAIN r.recipients |-> [r.recipients[i] EXCEPT !.userId = Blank]]]

(* Only the parameters the resolver reads are sent; none reads the userId. *)
recipientBody(d) ==
  CASE parametersFor(d.resolver) = "assignment" -> Recipient(d.resolver, d.assignment, Blank, Blank, Blank)
    [] parametersFor(d.resolver) = "permission" -> Recipient(d.resolver, Blank, d.module, d.action, Blank)
    [] OTHER -> Recipient(d.resolver, Blank, Blank, Blank, Blank)

recipientComplete(d) ==
  CASE parametersFor(d.resolver) = "assignment" -> d.assignment # Blank
    [] parametersFor(d.resolver) = "permission" -> d.module # Blank /\ d.action # Blank
    [] OTHER -> TRUE

recipientsComplete == \A i \in DOMAIN draft.recipients : recipientComplete(draft.recipients[i])

RuleInit ==
  /\ rule \in Starts /\ list = rule
  /\ draft = None /\ pristine = None /\ saving = None /\ switching = {}
  /\ edits = 0 /\ writes = 0

openDraft(d) == draft' = d /\ pristine' = d
                  /\ UNCHANGED <<rule, list, saving, switching, edits, writes>>
CreateRule == openDraft(emptyRule)
EditRule == list # None /\ openDraft(toDraft(list))
closeDraft == draft # None /\ draft' = None /\ pristine' = None
                /\ UNCHANGED <<rule, list, saving, switching, edits, writes>>

Change(d) ==
  /\ d # draft /\ edits < MaxEdits /\ edits' = edits + 1 /\ draft' = d
  /\ UNCHANGED <<rule, list, pristine, saving, switching, writes>>

update(key, value) == Change([draft EXCEPT ![key] = value])
updateRecipient(i, d) == Change([draft EXCEPT !.recipients[i] = d])

addRecipient == /\ Len(draft.recipients) < MaxRecipients
                /\ Change([draft EXCEPT !.recipients = Append(@, emptyRecipient)])
(* Mutant: the last recipient can be removed. *)
removeAnyRecipient(i) == Change([draft EXCEPT !.recipients = RemoveAt(@, i)])

removeRecipient(i) == /\ Len(draft.recipients) # 1
                      /\ Change([draft EXCEPT !.recipients = RemoveAt(@, i)])

(* Actions belong to one module. *)
setModule(d, m) == [d EXCEPT !.module = m, !.action = Blank]

EditRecipient(i) ==
  LET d == draft.recipients[i]
  IN  \/ removeRecipient(i)
      \/ \E r \in Resolver : updateRecipient(i, [d EXCEPT !.resolver = r])
      \/ /\ parametersFor(d.resolver) = "assignment"
         /\ \E a \in Assignment : updateRecipient(i, [d EXCEPT !.assignment = a])
      \/ /\ parametersFor(d.resolver) = "permission"
         /\ \/ \E m \in Module : m # d.module /\ updateRecipient(i, setModule(d, m))
            \/ d.module \in Module /\ \E a \in ActionsOf(d.module) : updateRecipient(i, [d EXCEPT !.action = a])

EditDraft ==
  /\ draft # None
  /\ \/ update("named", ~draft.named)
     \/ \E t \in Trigger : update("trigger", t)
     \/ addRecipient
     \/ \E i \in DOMAIN draft.recipients : EditRecipient(i)

Body(d) == [trigger |-> d.trigger, active |-> d.active, named |-> d.named,
            recipients |-> [i \in DOMAIN d.recipients |-> recipientBody(d.recipients[i])]]

Save ==
  /\ draft # None /\ saving = None
  /\ draft.named /\ recipientsComplete /\ draft # pristine
  /\ writes < MaxWrites /\ writes' = writes + 1
  /\ saving' = [stored |-> draft.stored, body |-> Body(draft), opened |-> pristine]
  /\ UNCHANGED <<rule, list, draft, pristine, switching, edits>>

(* The whole rule goes back: only the flag would wipe every recipient.     *)
Switched(r) == [trigger |-> r.trigger, active |-> ~r.active, named |-> TRUE, recipients |-> r.recipients]

Switch ==
  /\ list # None /\ writes < MaxWrites /\ writes' = writes + 1
  /\ switching' = switching \cup {[body |-> Switched(list), shown |-> list]}
  /\ UNCHANGED <<rule, list, draft, pristine, saving, edits>>

-----------------------------------------------------------------------------
(* createRule and updateRule; the scope is not sent and stays as it is.    *)
Valid(b) == b.named /\ b.trigger \in Trigger /\ b.recipients # <<>>
Written(old, b) == [trigger |-> b.trigger, scoped |-> IF old = None THEN FALSE ELSE old.scoped,
                    active |-> IF old = None THEN TRUE ELSE b.active,
                    recipients |-> b.recipients]

(* The answer closes whatever draft is open; the list is read again.       *)
HandleSave ==
  /\ saving # None /\ saving' = None
  /\ IF Valid(saving.body) /\ (saving.stored <=> rule # None)
     THEN rule' = Written(rule, saving.body) /\ draft' = None /\ pristine' = None
     ELSE UNCHANGED <<rule, draft, pristine>>
  /\ UNCHANGED <<list, switching, edits, writes>>

HandleSwitch(w) ==
  /\ w \in switching /\ switching' = switching \ {w}
  /\ rule' = IF rule # None /\ Valid(w.body) THEN Written(rule, w.body) ELSE rule
  /\ UNCHANGED <<list, draft, pristine, saving, edits, writes>>

ReadList == list # rule /\ list' = rule
              /\ UNCHANGED <<rule, draft, pristine, saving, switching, edits, writes>>

(* Another administrator, or the API: any rule there may be, or a purge.   *)
Elsewhere ==
  /\ writes < MaxWrites /\ writes' = writes + 1 /\ rule # None
  /\ \/ \E r \in Starts \ {None} : \E on \in BOOLEAN :
          rule' = [r EXCEPT !.active = on, !.scoped = @ \/ rule.scoped] /\ rule' # rule
     \/ ~rule.active /\ rule' = None
  /\ UNCHANGED <<list, draft, pristine, saving, switching, edits>>

RuleNext == \/ CreateRule \/ EditRule \/ closeDraft \/ EditDraft \/ Save \/ Switch
            \/ HandleSave \/ ReadList \/ Elsewhere
            \/ \E w \in switching : HandleSwitch(w)

RuleSpec == RuleInit /\ [][RuleNext]_ruleVars

-----------------------------------------------------------------------------
(* A rule always has a recipient, and what the editor sends is complete.   *)
RulesTypeOK ==
  /\ rule # None => /\ rule.trigger \in Trigger /\ rule.recipients # <<>>
                    /\ \A i \in DOMAIN rule.recipients : rule.recipients[i].resolver \in Resolver
  /\ saving # None => /\ Valid(saving.body)
                      /\ \A i \in DOMAIN saving.body.recipients : recipientComplete(saving.body.recipients[i])

Pairs(r) == IF r = None THEN {}
            ELSE {<<r.recipients[i].module, r.recipients[i].action>> : i \in DOMAIN r.recipients}

(* A permission a rule is saved with is one the catalog offers, or one it  *)
(* had when it was opened: what is no longer offered is kept as a whole,   *)
(* and never comes about by choosing the module and the action one by one. *)
PermissionsAreOffered ==
  saving # None =>
    \A p \in Pairs(saving.body) :
      \/ p \in Pairs(saving.opened) \cup {<<Blank, Blank>>}
      \/ p[1] \in Module /\ p[2] \in ActionsOf(p[1])

(* Switching a rule on or off changes nothing else, not even what the      *)
(* editor cannot show, unless it was written since it was listed; and an   *)
(* edit does not switch a rule that was not switched since it was opened.  *)
SwitchStep ==
  /\ \A w \in switching : HandleSwitch(w) /\ w.shown = rule /\ rule # None =>
       rule' = [rule EXCEPT !.active = ~@]
  /\ HandleSave /\ rule # None /\ saving.stored /\ saving.opened.active = rule.active =>
       rule'.active = rule.active
SwitchesOnlySwitch == [][SwitchStep]_ruleVars

(* "Dropping it would silently rewrite the rule to something else on the   *)
(* next save": what is stored and was not edited is sent back.             *)
RecipientStep ==
  HandleSave /\ rule # None /\ saving.stored /\ saving.opened = toDraft(rule) =>
    \A i \in DOMAIN rule.recipients \cap DOMAIN saving.body.recipients :
      saving.body.recipients[i] = recipientBody(saving.opened.recipients[i]) =>
        rule'.recipients[i] = rule.recipients[i]
UneditedRecipientsStay == [][RecipientStep]_ruleVars
=============================================================================
