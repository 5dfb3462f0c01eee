---------------------------- MODULE JourneyPage -----------------------------
(***************************************************************************)
(* The page of one journey (pages/admin/JourneyDetailPage.tsx) over its    *)
(* statuses and the rule of one field: several drafts open side by side on *)
(* one list, each sending what it was opened with, and                     *)
(* configuration/service.ts, which takes them one request at a time.       *)
(*                                                                         *)
(* A status is whether it is active, its place and its name, which stands  *)
(* for the outcome and the behavior, too.  Leads are counted.  Two         *)
(* transactions on the statuses at once are JourneyStatuses'.              *)
(***************************************************************************)
EXTENDS Naturals, Sequences, FiniteSets, SequencesExt

CONSTANTS StatusId, \* numbers: the last resort of the order
          Field,    \* the fields that may be attached; the rule is of the first attached
          Starts,   \* what the server may hold at first
          MaxEdits, MaxWrites, \* bounds on drafts opened and edits in them, and on saves and writes of others
          None

VARIABLES journey,   \* server: the statuses, how many leads are in each, and the rules
          page,      \* client: the journey as last read
          draft,     \* the status editor
          retiring, replacement, \* the dialog of a retirement, and the choice made in it
          order,     \* the arrangement that was not saved yet
          ruleDraft, \* the editor of a rule
          pageAsked, \* the request in flight
          edits, writes

pageVars == <<journey, page, draft, retiring, replacement, order, ruleDraft, pageAsked, edits, writes>>
drafts == <<draft, retiring, replacement, order, ruleDraft>>

Names == {"n", "m"}
Requirements == {"required", "optional"}
Places == 0..(Cardinality(StatusId))

Rule == [requirement : Requirements, from : StatusId \cup {None}]
Journey == [status : [StatusId -> [active : BOOLEAN, place : Places, name : Names] \cup {None}],
            default : StatusId \cup {None}, leads : [StatusId -> Nat], rule : [Field -> Rule \cup {None}]]

(* What GET /journeys/:id lists, in its order.                             *)
Active(j) == {s \in StatusId : j.status[s] # None /\ j.status[s].active}
Ahead(j, s) ==
  {t \in Active(j) : \/ j.status[t].place < j.status[s].place
                     \/ j.status[t].place = j.status[s].place /\ t < s}
Listed(j) == [i \in 1..Cardinality(Active(j)) |-> CHOOSE s \in Active(j) : Cardinality(Ahead(j, s)) = i - 1]

JourneyInit ==
  /\ journey \in Starts /\ page = journey
  /\ draft = None /\ retiring = None /\ replacement = None /\ order = None /\ ruleDraft = None
  /\ pageAsked = None /\ edits = 0 /\ writes = 0

-----------------------------------------------------------------------------
(* The page.                                                               *)

orderedStatuses == SelectSeq(IF order = None THEN Listed(page) ELSE order, LAMBDA s : s \in Active(page))

(* A draft remembers, as ghosts, the row it was opened from and whether    *)
(* its name and its place were edited.                                     *)
newStatus == [id |-> None, name |-> "n", place |-> Cardinality(Active(page)), read |-> None,
              named |-> FALSE, placed |-> FALSE]
fromStatus(s) == [id |-> s, name |-> page.status[s].name, place |-> page.status[s].place,
                  read |-> page.status[s], named |-> FALSE, placed |-> FALSE]

fromRule(f) == [field |-> f, rule |-> page.rule[f]]
newRule(f) == [field |-> f, rule |-> [requirement |-> "optional", from |-> None]]

(* A draft is opened or edited.                                            *)
Edit == edits < MaxEdits /\ edits' = edits + 1 /\ UNCHANGED <<journey, page, pageAsked, writes>>

OpenStatus(d) == draft' = d /\ Edit /\ UNCHANGED <<retiring, replacement, order, ruleDraft>>
CreateStatus == OpenStatus(newStatus)
EditStatus(s) == s \in Active(page) /\ OpenStatus(fromStatus(s))
CancelStatus == draft # None /\ draft' = None /\ UNCHANGED <<journey, page, retiring, replacement, order, ruleDraft, pageAsked, edits, writes>>

Rename(name) ==
  /\ draft # None /\ name # draft.name
  /\ draft' = [draft EXCEPT !.name = name, !.named = TRUE]
  /\ Edit /\ UNCHANGED <<retiring, replacement, order, ruleDraft>>
Place(place) ==
  /\ draft # None /\ place # draft.place
  /\ draft' = [draft EXCEPT !.place = place, !.placed = TRUE]
  /\ Edit /\ UNCHANGED <<retiring, replacement, order, ruleDraft>>

(* Closing the dialog does not take the choice back.                       *)
Retire(s) == s \in Active(page) /\ retiring' = s /\ Edit /\ UNCHANGED <<draft, replacement, order, ruleDraft>>
CancelRetire == retiring # None /\ retiring' = None /\ UNCHANGED <<journey, page, draft, replacement, order, ruleDraft, pageAsked, edits, writes>>
ChooseReplacement(s) ==
  /\ retiring # None /\ s # retiring /\ s \in Active(page) \cup {None} /\ s # replacement
  /\ replacement' = s /\ Edit /\ UNCHANGED <<draft, retiring, order, ruleDraft>>

move(i, j) ==
  /\ j \in DOMAIN orderedStatuses
  /\ order' = [orderedStatuses EXCEPT ![i] = orderedStatuses[j], ![j] = orderedStatuses[i]]
  /\ Edit /\ UNCHANGED <<draft, retiring, replacement, ruleDraft>>

ResetOrder == order # None /\ order' = None /\ UNCHANGED <<journey, page, draft, retiring, replacement, ruleDraft, pageAsked, edits, writes>>

OpenRule(d) == ruleDraft' = d /\ Edit /\ UNCHANGED <<draft, retiring, replacement, order>>
AttachField(f) == OpenRule(newRule(f))
EditRule(f) == page.rule[f] # None /\ OpenRule(fromRule(f))
CancelRule == ruleDraft # None /\ ruleDraft' = None /\ UNCHANGED <<journey, page, draft, retiring, replacement, order, pageAsked, edits, writes>>
updateRuleDraft(r) ==
  /\ ruleDraft # None /\ r # ruleDraft.rule /\ r.from \in Active(page) \cup {None, ruleDraft.rule.from}
  /\ ruleDraft' = [ruleDraft EXCEPT !.rule = r]
  /\ Edit /\ UNCHANGED <<draft, retiring, replacement, order>>

(* The buttons that send something.                                        *)
Ask(request) ==
  /\ pageAsked = None /\ writes < MaxWrites /\ writes' = writes + 1
  /\ pageAsked' = request /\ UNCHANGED <<journey, page, drafts, edits>>

SaveStatus == draft # None /\ Ask([kind |-> "status", body |-> draft])
SaveRetirement == retiring # None /\ Ask([kind |-> "retire", body |-> [id |-> retiring, to |-> replacement]])
SaveOrder == order # None /\ Ask([kind |-> "order", body |-> order])
SetDefault(s) == s \in Active(page) \ {page.default} /\ Ask([kind |-> "default", body |-> s])
SaveRule == ruleDraft # None /\ Ask([kind |-> "rule", body |-> ruleDraft])
Unmap(f) == page.rule[f] # None /\ Ask([kind |-> "unmap", body |-> f])

-----------------------------------------------------------------------------
(* The server.  A request it refuses changes nothing.  There are at most   *)
(* as many statuses as StatusId has.                                       *)

Fresh == {s \in StatusId : journey.status[s] = None}

createStatus(d) ==
  {[journey EXCEPT !.status[s] = [active |-> TRUE, place |-> d.place, name |-> d.name]] :
     s \in {s \in Fresh : \A t \in Fresh : s <= t}}

updateStatus(d) ==
  {[journey EXCEPT !.status[d.id].place = d.place, !.status[d.id].name = d.name]}

(* The trigger looks for leads when the status goes, after they moved.     *)
block_in_use_status_deactivation(j, s) == j.status[s].active /\ j.leads[s] > 0

deactivateStatus(s, to) ==
  LET moved == IF to \in {None, s} THEN journey
               ELSE [journey EXCEPT !.leads[to] = @ + journey.leads[s], !.leads[s] = 0]
  IN  IF \/ to = None /\ journey.leads[s] > 0
         \/ to # None /\ to \notin Active(journey)
         \/ block_in_use_status_deactivation(moved, s)
      THEN {} ELSE {[moved EXCEPT !.status[s].active = FALSE]}

reorderStatuses(ids) ==
  {[journey EXCEPT !.status = [s \in StatusId |->
      IF \E i \in DOMAIN ids : ids[i] = s
      THEN [@[s] EXCEPT !.place = (CHOOSE i \in DOMAIN ids : ids[i] = s) - 1] ELSE @[s]]]}

setDefaultStatus(s) == IF s \in Active(journey) THEN {[journey EXCEPT !.default = s]} ELSE {}

upsertFieldJourneySetting(f, r) ==
  IF r.from # None /\ (r.requirement # "required" \/ r.from \notin Active(journey)) THEN {}
  ELSE {[journey EXCEPT !.rule[f] = r]}

deleteFieldJourneySetting(f) == IF journey.rule[f] = None THEN {} ELSE {[journey EXCEPT !.rule[f] = None]}

Outcomes(a) ==
  CASE a.kind = "status"  -> IF a.body.id = None THEN createStatus(a.body) ELSE updateStatus(a.body)
    [] a.kind = "retire"  -> deactivateStatus(a.body.id, a.body.to)
    [] a.kind = "order"   -> reorderStatuses(a.body)
    [] a.kind = "default" -> setDefaultStatus(a.body)
    [] a.kind = "rule"    -> upsertFieldJourneySetting(a.body.field, a.body.rule)
    [] a.kind = "unmap"   -> deleteFieldJourneySetting(a.body)

(* The answer closes the draft of its kind, whatever it has become, and    *)
(* has the journey read again; the draft stays when the request failed.    *)
Succeed ==
  /\ pageAsked # None /\ pageAsked' = None
  /\ journey' \in Outcomes(pageAsked) /\ page' = journey'
  /\ draft' = IF pageAsked.kind = "status" THEN None ELSE draft
  /\ retiring' = IF pageAsked.kind = "retire" THEN None ELSE retiring
  /\ replacement' = IF pageAsked.kind = "retire" THEN None ELSE replacement
  /\ order' = IF pageAsked.kind = "order" THEN None ELSE order
  /\ ruleDraft' = IF pageAsked.kind = "rule" THEN None ELSE ruleDraft
  /\ UNCHANGED <<edits, writes>>

Refuse ==
  /\ pageAsked # None /\ pageAsked' = None /\ Outcomes(pageAsked) = {}
  /\ UNCHANGED <<journey, page, drafts, edits, writes>>

(* The journey is read again on its own account, too.                      *)
ReadJourney == page # journey /\ page' = journey /\ UNCHANGED <<journey, drafts, pageAsked, edits, writes>>

(* Others move leads to active statuses, and use a page of their own.      *)
Elsewhere ==
  /\ writes < MaxWrites /\ writes' = writes + 1
  /\ \/ \E s \in StatusId, t \in Active(journey) : s # t /\ journey.leads[s] > 0
          /\ journey' = [journey EXCEPT !.leads[s] = @ - 1, !.leads[t] = @ + 1]
     \/ \E s \in Active(journey) : journey' \in deactivateStatus(s, None)
     \/ \E d \in {[name |-> "m", place |-> Cardinality(Active(journey))]} : journey' \in createStatus(d)
  /\ UNCHANGED <<page, drafts, pageAsked, edits>>

JourneyNext ==
  \/ CreateStatus \/ CancelStatus \/ CancelRetire \/ ResetOrder \/ CancelRule
  \/ SaveStatus \/ SaveRetirement \/ SaveOrder \/ SaveRule
  \/ Succeed \/ Refuse \/ ReadJourney \/ Elsewhere
  \/ \E s \in StatusId : EditStatus(s) \/ Retire(s) \/ SetDefault(s)
  \/ \E s \in StatusId \cup {None} : ChooseReplacement(s)
  \/ \E n \in Names : Rename(n)
  \/ \E p \in Places : Place(p)
  \/ \E i \in DOMAIN orderedStatuses : move(i, i - 1) \/ move(i, i + 1)
  \/ \E f \in Field : AttachField(f) \/ EditRule(f) \/ Unmap(f)
  \/ \E r \in Rule : updateRuleDraft(r)

JourneySpec == JourneyInit /\ [][JourneyNext]_pageVars

-----------------------------------------------------------------------------
JourneyTypeOK ==
  /\ journey \in Journey /\ page \in Journey
  /\ retiring \in StatusId \cup {None} /\ replacement \in StatusId \cup {None}
  /\ draft # None => draft.id \in StatusId \cup {None} /\ draft.name \in Names /\ draft.place \in Places
  /\ order # None => IsInjective(order) /\ Range(order) \subseteq StatusId
  /\ ruleDraft # None => ruleDraft.field \in Field /\ ruleDraft.rule \in Rule

(* Leads are only in active statuses: the choice of a replacement survives *)
(* its dialog and may be the very status that is retired next, which the   *)
(* page does not show and only the trigger refuses.                        *)
RetiredHoldNobody == \A s \in StatusId : journey.leads[s] > 0 => s \in Active(journey)

(* A move swaps two statuses that are next to each other on display, also  *)
(* when statuses of the arrangement have been retired in the meantime.     *)
MoveStep ==
  order' \notin {order, None} =>
    \E i \in 1..(Len(orderedStatuses) - 1) :
      orderedStatuses' = [orderedStatuses EXCEPT ![i] = orderedStatuses[i + 1],
                                                 ![i + 1] = orderedStatuses[i]]
MovesMoveWhatIsShown == [][MoveStep]_pageVars

(* Saving a status changes its name and its place only where they were     *)
(* edited, as long as nobody wrote the status since the draft was opened,  *)
(* and never brings a status back that was retired meanwhile.              *)
SaveStep ==
  \A was \in {journey.status[s] : s \in StatusId} : LET sent == pageAsked.body IN
  Succeed /\ pageAsked.kind = "status" /\ sent.id # None /\ was = journey.status[sent.id] =>
    /\ journey'.status[sent.id].active = was.active
    /\ sent.read = was /\ ~sent.named => journey'.status[sent.id].name = was.name
    /\ sent.read = was /\ ~sent.placed => journey'.status[sent.id].place = was.place
SavesKeepTheRest == [][SaveStep]_pageVars
=============================================================================
