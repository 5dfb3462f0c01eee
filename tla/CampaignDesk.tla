---------------------------- MODULE CampaignDesk ----------------------------
(***************************************************************************)
(* Writing a campaign, switching it and sending it: the page               *)
(* (pages/admin/campaigns/CampaignsPage.tsx) and the server's side of its  *)
(* requests (routes/campaigns.ts, campaigns/service.ts), up to the rows    *)
(* that are queued; CampaignSends has what happens to those.               *)
(*                                                                         *)
(* There is at most one campaign, made if there is none.  Its title stands *)
(* for the name and for the subject, which are checked alike: in a draft   *)
(* it is empty, white space or a text, as stored it is a text.  The layout *)
(* of the message is left out; of the message there are the Fields it      *)
(* names.  A condition of a filter is known by the leads that match it.  A *)
(* save, a switch and a send may overlap, each of them once.               *)
(***************************************************************************)
EXTENDS Naturals, FiniteSets

CONSTANTS Lead,
          Matching,            \* the leads that each condition matches
          StatusOf,            \* the statuses of each journey
          Field, Visible,      \* the Fields, and those the user may view
          Scope,               \* the leads the user may view
          maxManualRecipients,
          Starts,              \* the campaigns there may be at first
          MaxEdits, MaxWrites, \* bounds: what the user does, what others do
          None

VARIABLES campaign, queued,         \* server: the campaign, the leads it was queued for
          list,                     \* client: the campaign as it was read
          draft,
          saving, switching, sending, \* the requests on their way
          reached,                  \* ghost: leads that an active manual campaign was for
          edits, writes

deskVars == <<campaign, queued, list, draft, saving, switching, sending, reached, edits, writes>>
requests == <<saving, switching, sending>>

Condition == DOMAIN Matching
Journey == DOMAIN StatusOf
Status == UNION {StatusOf[j] : j \in Journey}
Targeting == [type : {"manual", "triggered"}, filter : (SUBSET Condition) \cup {None},
              journey : Journey \cup {None}, status : Status \cup {None}]
Targets(c) == [k \in {"type", "filter", "journey", "status"} |-> c[k]]

(* A condition of the draft is left out, without its value, or complete.   *)
Draft == [type : {"manual", "triggered"}, conditions : [Condition -> {"out", "blank", "complete"}],
          journey : Journey \cup {None}, status : Status \cup {None}, tokens : SUBSET Field,
          title : {"empty", "blank", "text"}]
emptyDraft == [title |-> "empty", type |-> "manual", conditions |-> [c \in Condition |-> "out"],
               journey |-> None, status |-> None, tokens |-> {}]

Recipients(filter) == {l \in Scope : \A c \in filter : l \in Matching[c]}
Reach(c) == IF c = None \/ ~c.active \/ c.type # "manual" THEN {} ELSE Recipients(c.filter)

DeskInit ==
  /\ campaign \in Starts /\ queued = {} /\ reached = Reach(campaign)
  /\ list = None /\ draft = None /\ saving = None /\ switching = None /\ sending = None
  /\ edits = 0 /\ writes = 0

ReadList ==
  /\ list # campaign /\ list' = campaign
  /\ UNCHANGED <<campaign, queued, draft, requests, reached, edits, writes>>

-----------------------------------------------------------------------------
(* The editor; from and touched are ghosts: the targets it was opened      *)
(* with, and whether they were edited.                                     *)

(* Mutant: the editor starts without the conditions of the campaign. *)
DraftOfMessage(c) ==
  [title |-> "text", type |-> c.type, conditions |-> [d \in Condition |-> "out"],
   journey |-> c.journey, status |-> c.status, tokens |-> c.tokens]
toDraft(c) ==
  [title |-> "text", type |-> c.type, conditions |-> [d \in Condition |-> IF c.filter # None /\ d \in c.filter THEN "complete" ELSE "out"],
   journey |-> c.journey, status |-> c.status, tokens |-> c.tokens]

Edits(d) ==
  /\ edits < MaxEdits /\ edits' = edits + 1 /\ draft' = d
  /\ UNCHANGED <<campaign, queued, list, requests, reached, writes>>

(* A new campaign is not counted as an edit. *)
OpenNew ==
  /\ campaign = None
  /\ draft' = [new |-> TRUE, now |-> emptyDraft, from |-> None, touched |-> FALSE]
  /\ UNCHANGED <<campaign, queued, list, requests, reached, edits, writes>>
OpenEdit == list # None /\ Edits([new |-> FALSE, now |-> toDraft(list), from |-> Targets(list), touched |-> FALSE])
Cancel == draft # None /\ Edits(None)

Target(d) == d # draft.now /\ Edits([draft EXCEPT !.now = d, !.touched = TRUE])
SetType(t) == Target([draft.now EXCEPT !.type = t])
SetJourney(j) == draft.now.type = "triggered" /\ Target([draft.now EXCEPT !.journey = j, !.status = None])
SetStatus(s) ==
  /\ draft.now.type = "triggered" /\ draft.now.journey # None /\ s \in StatusOf[draft.now.journey] \cup {None}
  /\ Target([draft.now EXCEPT !.status = s])
SetCondition(c, how) == draft.now.type = "manual" /\ Target([draft.now EXCEPT !.conditions[c] = how])
SetTitle(t) == t # draft.now.title /\ Edits([draft EXCEPT !.now.title = t])
InsertToken(f) ==
  /\ f \in Visible \ draft.now.tokens
  /\ Edits([draft EXCEPT !.now.tokens = @ \cup {f}])

CanSave(d) ==
  /\ d.title # "empty"
  /\ d.type = "triggered" => d.journey # None /\ d.status # None
Body(d) == [title |-> d.title, type |-> d.type, tokens |-> d.tokens, journey |-> d.journey, status |-> d.status,
            filter |-> {c \in Condition : d.conditions[c] = "complete"}]

Save ==
  /\ draft # None /\ CanSave(draft.now) /\ saving = None /\ edits < MaxEdits /\ edits' = edits + 1
  /\ saving' = [draft |-> draft, body |-> Body(draft.now), stage |-> "sent", was |-> FALSE, switched |-> FALSE]
  /\ UNCHANGED <<campaign, queued, list, draft, switching, sending, reached, writes>>

(* The buttons of the row go by the campaign as it was read.               *)
Switch ==
  /\ list # None /\ switching = None /\ edits < MaxEdits /\ edits' = edits + 1
  /\ switching' = [to |-> ~list.active, stage |-> "sent"]
  /\ UNCHANGED <<campaign, queued, list, draft, saving, sending, reached, writes>>

SendNow ==
  /\ list # None /\ list.type = "manual" /\ list.active
  /\ sending = None /\ edits < MaxEdits /\ edits' = edits + 1
  /\ sending' = [filter |-> {}, stage |-> "sent"]
  /\ UNCHANGED <<campaign, queued, list, draft, saving, switching, reached, writes>>

-----------------------------------------------------------------------------
(* The server.  A write of the campaign, and what it makes it reach.       *)
Put(c) == campaign' = c /\ reached' = reached \cup Reach(c)

(* validate: the title, trimmed; the Fields of the message; and what the   *)
(* type asks for.                                                          *)
validate(b) ==
  /\ b.title = "text"
  /\ b.tokens \subseteq Visible
  /\ b.type = "triggered" => b.journey # None /\ b.status \in StatusOf[b.journey]

Stored(b) ==
  [type |-> b.type, tokens |-> b.tokens,
   filter  |-> IF b.type = "triggered" THEN None ELSE b.filter,
   journey |-> IF b.type = "triggered" THEN b.journey ELSE None,
   status  |-> IF b.type = "triggered" THEN b.status ELSE None]
With(content, on) ==
  [type |-> content.type, tokens |-> content.tokens, filter |-> content.filter,
   journey |-> content.journey, status |-> content.status, active |-> on]

(* A save reads the row before it writes it; a new campaign is active.     *)
ReadOld ==
  /\ saving.stage = "sent"
  /\ saving' = IF ~validate(saving.body) THEN [saving EXCEPT !.stage = "refused"]
               ELSE [saving EXCEPT !.stage = "read", !.was = saving.draft.new \/ campaign.active]
  /\ UNCHANGED <<campaign, queued, list, draft, switching, sending, reached, edits, writes>>

ActiveAsRead(s) == s.was

update ==
  /\ saving.stage = "read"
  /\ Put(With(Stored(saving.body), ActiveAsRead(saving)))
  /\ saving' = [saving EXCEPT !.stage = "ok"]
  /\ UNCHANGED <<queued, list, draft, switching, sending, edits, writes>>

(* While a save is between its two steps, its ghost switched notes that    *)
(* the campaign was switched.                                              *)
SwitchTo(on) ==
  /\ Put([campaign EXCEPT !.active = on])
  /\ saving' = IF saving # None /\ on # campaign.active THEN [saving EXCEPT !.switched = TRUE] ELSE saving

setActive ==
  /\ switching.stage = "sent" /\ SwitchTo(switching.to)
  /\ switching' = [switching EXCEPT !.stage = "ok"]
  /\ UNCHANGED <<queued, list, draft, sending, edits, writes>>

MaySend(c) == c.type = "manual" /\ c.active

(* A send reads the campaign, evaluates its filter and queues the leads    *)
(* that were never queued.                                                 *)
ReadCampaign ==
  /\ sending.stage = "sent"
  /\ sending' = IF MaySend(campaign) THEN [filter |-> campaign.filter, stage |-> "read"]
                ELSE [sending EXCEPT !.stage = "refused"]
  /\ UNCHANGED <<campaign, queued, list, draft, saving, switching, reached, edits, writes>>

queueManualSend ==
  /\ sending.stage = "read"
  /\ LET leadIds == Recipients(sending.filter) IN
     IF Cardinality(leadIds) > maxManualRecipients
     THEN queued' = queued /\ sending' = [sending EXCEPT !.stage = "refused"]
     ELSE queued' = queued \cup leadIds /\ sending' = [sending EXCEPT !.stage = "ok"]
  /\ UNCHANGED <<campaign, list, draft, saving, switching, reached, edits, writes>>

-----------------------------------------------------------------------------
(* The answers.  A save that succeeded closes the editor, whatever is in   *)
(* it by then.                                                             *)
Saved ==
  /\ saving.stage \in {"ok", "refused"} /\ saving' = None
  /\ draft' = IF saving.stage = "ok" THEN None ELSE draft
  /\ UNCHANGED <<campaign, queued, list, switching, sending, reached, edits, writes>>
Switched ==
  /\ switching.stage = "ok" /\ switching' = None
  /\ UNCHANGED <<campaign, queued, list, draft, saving, sending, reached, edits, writes>>
Sent ==
  /\ sending.stage \in {"ok", "refused"} /\ sending' = None
  /\ UNCHANGED <<campaign, queued, list, draft, saving, switching, reached, edits, writes>>

(* Another administrator switches the campaign, or edits its filter.       *)
Elsewhere ==
  /\ campaign # None /\ writes < MaxWrites /\ writes' = writes + 1
  /\ \/ SwitchTo(~campaign.active)
     \/ /\ campaign.type = "manual" /\ UNCHANGED saving
        /\ \E c \in campaign.filter : Put([campaign EXCEPT !.filter = @ \ {c}])
  /\ UNCHANGED <<queued, list, draft, switching, sending, edits>>

DeskNext ==
  \/ ReadList \/ OpenNew \/ OpenEdit \/ Cancel \/ Save \/ Switch \/ SendNow
  \/ draft # None /\ \/ \E t \in {"manual", "triggered"} : SetType(t)
                     \/ \E j \in Journey \cup {None} : SetJourney(j)
                     \/ \E s \in Status \cup {None} : SetStatus(s)
                     \/ \E c \in Condition, how \in {"out", "blank", "complete"} : SetCondition(c, how)
                     \/ \E f \in Field : InsertToken(f)
                     \/ \E t \in {"empty", "blank", "text"} : SetTitle(t)
  \/ saving # None /\ (ReadOld \/ update \/ Saved)
  \/ switching # None /\ (setActive \/ Switched)
  \/ sending # None /\ (ReadCampaign \/ queueManualSend \/ Sent)
  \/ Elsewhere

DeskSpec == DeskInit /\ [][DeskNext]_deskVars

-----------------------------------------------------------------------------
(* Types, and campaigns_targeting_check: a campaign is for a filter or for *)
(* a status of a journey, never for both.                                  *)
DeskTypeOK ==
  /\ campaign # None => /\ Targets(campaign) \in Targeting /\ campaign.tokens \subseteq Field
                        /\ (campaign.type = "manual") = (campaign.filter # None)
                        /\ (campaign.type = "manual") = (campaign.status = None)
                        /\ campaign.status # None => campaign.status \in StatusOf[campaign.journey]
  /\ queued \subseteq Lead
  /\ draft # None => draft.now \in Draft

(* What the editor lets the user save the server takes, but for a Field in *)
(* the message that another author could view and this one cannot, and for *)
(* a name or a subject of white space, which only the server trims.        *)
EnabledCampaignIsTaken ==
  saving # None /\ saving.stage = "refused" =>
    ~(saving.body.tokens \subseteq Visible) \/ saving.body.title = "blank"

(* A campaign is queued only for leads that it was for while it was active *)
(* and manual, and that are in the scope of the sender, however edits,     *)
(* switches and sends overlap.                                             *)
MailedWereReached == queued \subseteq reached \cap Scope

(* Saving a campaign whose targets were not edited leaves who receives it, *)
(* if the editor was opened with what the server still has.                *)
TargetStep ==
  saving # None /\ update /\ ~saving.draft.new /\ ~saving.draft.touched /\ saving.draft.from = Targets(campaign) =>
    Targets(campaign') = Targets(campaign)
UntouchedTargetsStay == [][TargetStep]_deskVars

(* A save leaves the campaign switched as it is, if nobody switches it     *)
(* while the save is under way.                                            *)
SwitchStep(known) ==
  saving # None /\ update /\ ~saving.draft.new /\ known => campaign'.active = campaign.active
Undisturbed == ~saving.switched
QuietSavesKeepTheSwitch == [][SwitchStep(Undisturbed)]_deskVars

(* The comment at setActive: switching is an operation of its own, and the *)
(* control that stops sends.  So a save never switches a campaign.         *)
SavesNeverSwitch == [][SwitchStep(TRUE)]_deskVars
=============================================================================
