----------------------------- MODULE SellerPage ------------------------------
(***************************************************************************)
(* The record of a lead (pages/seller-detail/Seller360Page.tsx) with the   *)
(* dialogs that move it to another journey, add it to one, reassign it,    *)
(* share it and deactivate it.  The page has a copy of the lead and one of *)
(* its shares; a dialog starts from the copies and is not touched when     *)
(* they are read again; a request carries what the copy says of what was   *)
(* not chosen.  A dialog may be closed while its request is on its way,    *)
(* and answers get lost after the request was handled.                     *)
(*                                                                         *)
(* Who may do what is in LeadAccess, and the values of fields, which a     *)
(* journey may require, are in LeadFields: here the user may do anything   *)
(* on every journey, and no value is missing.  Nobody leaves the company.  *)
(* Nobody keeps access after a reassignment (LeadSharing has that).        *)
(***************************************************************************)
EXTENDS Naturals, Sequences, FiniteSets

CONSTANTS Journey, StatusOf,   \* active journeys and the active statuses of each
          DefaultOf,
          User, Me,            \* active users, one of them at the page
          AssignmentType,
          Starts, Granted,     \* leads and their shares as they may be at first
          MaxEdits, MaxWrites, \* bounds: what the user does, what others do,
          MaxAsked,            \* and the requests that are on their way at once
          None

VARIABLES lead, grants,        \* server: the lead with its process_instances, and user_access_grants by id
          seller, shares,      \* client: sellerQuery.data, None when it failed, and the rows of ['lead-shares', id]
          dialog, asked,       \* the dialog that is open; the requests on their way
          edits, writes

pageVars == <<lead, grants, seller, shares, dialog, asked, edits, writes>>

Capability == {"view", "edit", "comment"}
Capabilities == {c \in SUBSET Capability : "view" \in c}

Process(j, s, holder) == [journey |-> j, status |-> s, active |-> TRUE, holder |-> holder]
Processes(l) == {p \in DOMAIN l.process : l.process[p].active}
Journeys(l) == {l.process[p].journey : p \in Processes(l)}

(* The routes of a lead answer 403 when none of its instances is active,   *)
(* whatever the role allows.                                               *)
allowed == Processes(lead) # {}

(* What GET /leads/:id answers: the lead and its active instances; and GET *)
(* /leads/:id/shares: the grants that are neither revoked nor expired.     *)
View == IF allowed THEN [core |-> lead.core, process |-> [p \in Processes(lead) |-> lead.process[p]]] ELSE None
Live(g) == ~g.revoked /\ ~g.expired
SharesView == [i \in {i \in DOMAIN grants : Live(grants[i])} |-> grants[i]]

UpToDate == <<seller, shares>> = <<View, SharesView>>
Outdated(x) == [x EXCEPT !.fresh = FALSE]
DialogOutdated == IF dialog = None THEN None ELSE Outdated(dialog)

PageInit ==
  /\ lead \in Starts /\ grants \in Granted
  /\ seller = View /\ shares = SharesView
  /\ dialog = None /\ asked = {} /\ edits = 0 /\ writes = 0

-----------------------------------------------------------------------------
(* The dialogs, one at a time.  fresh is a ghost: the copies a dialog was  *)
(* opened on were those of the server, where nothing has changed since.    *)

Open == seller # None /\ dialog = None
Edited == edits < MaxEdits /\ edits' = edits + 1 /\ UNCHANGED <<lead, grants, seller, shares, writes>>
Ask(kind, p) == [kind |-> kind, process |-> p, target |-> None, status |-> None, type |-> None, user |-> None,
                 caps |-> {"view"}, days |-> FALSE, fresh |-> UpToDate]

(* A dialog starts with the instance that is selected on the page.         *)
OpenDialog(kind) == Open /\ (\E p \in Processes(seller) : dialog' = Ask(kind, p)) /\ Edited /\ UNCHANGED asked
Change(d) == dialog' = d /\ dialog # d /\ Edited /\ UNCHANGED asked

(* Whether a share is on its way is known to the panel that asked for it.  *)
Unwatched == {IF r.kind = "share" THEN [r EXCEPT !.watched = FALSE] ELSE r : r \in asked}
CloseDialog == seller # None /\ dialog # None /\ dialog' = None /\ asked' = Unwatched /\ Edited

In(kinds) == seller # None /\ dialog # None /\ dialog.kind \in kinds
ChooseProcess(p) ==
  In({"move", "add", "reassign"}) /\ p \in Processes(seller) /\ Change([dialog EXCEPT !.process = p, !.type = None])
Target(j) == [dialog EXCEPT !.target = j, !.status = None]
ChooseTarget(j) ==
  In({"move", "add"}) /\ j \in (Journey \ Journeys(seller)) \cup {None} /\ Change(Target(j))
ChooseStatus(s) ==
  /\ In({"move", "add"}) /\ dialog.target # None /\ s \in StatusOf[dialog.target] \cup {None}
  /\ Change([dialog EXCEPT !.status = s])

(* The assignments that a record already carries, never a fixed list: the  *)
(* first of them, in whatever order they came, until one is chosen.        *)
assignmentTypes == IF dialog.process \in Processes(seller) THEN DOMAIN seller.process[dialog.process].holder ELSE {}
effectiveType == IF dialog.type = None THEN assignmentTypes ELSE {dialog.type}
ChooseType(t) == In({"reassign"}) /\ t \in assignmentTypes /\ Change([dialog EXCEPT !.type = t])
ChooseUser(u) == In({"reassign", "share"}) /\ Change([dialog EXCEPT !.user = u])
ChooseDuration == In({"share"}) /\ Change([dialog EXCEPT !.days = TRUE])
toggle(cap) ==
  /\ In({"share"}) /\ cap # "view"
  /\ Change([dialog EXCEPT !.caps = IF cap \in @ THEN @ \ {cap} ELSE @ \cup {cap}])

-----------------------------------------------------------------------------
(* The requests.  An addition goes by the endpoint that creates leads and  *)
(* sends the name and the phone of the copy along, and the assignments of  *)
(* the instance it copies.                                                 *)

Body == [kind |-> dialog.kind, process |-> dialog.process, target |-> dialog.target, status |-> dialog.status,
         type |-> None, user |-> dialog.user, caps |-> dialog.caps, share |-> None, core |-> None, holder |-> None,
         fresh |-> dialog.fresh, watched |-> TRUE, answer |-> None]
Addition == [Body EXCEPT !.core = seller.core, !.holder = seller.process[dialog.process].holder]
Otherwise(caps) == IF "edit" \in caps THEN caps \ {"edit"} ELSE caps \cup {"edit"}
OnRow(kind, i) == [Body EXCEPT !.kind = kind, !.share = i, !.user = shares[i].user, !.fresh = UpToDate]

(* The page looks the instance up in its copy: an instance that is gone is *)
(* an error of the mutation, and nothing is sent.                          *)
Known == dialog.process \in Processes(seller)
Pending(kinds) == \E r \in asked : r.kind \in kinds /\ r.watched
Send(request) == Cardinality(asked) < MaxAsked /\ asked' = asked \cup {request} /\ Edited /\ UNCHANGED dialog

SubmitMove == In({"move"}) /\ dialog.target # None /\ Known /\ ~Pending({"move", "add"}) /\ Send(Body)
SubmitAdd == In({"add"}) /\ dialog.target # None /\ Known /\ ~Pending({"move", "add"}) /\ Send(Addition)
SubmitReassign ==
  /\ In({"reassign"}) /\ dialog.user # None /\ Known /\ ~Pending({"reassign"})
  /\ \E t \in effectiveType : Send([Body EXCEPT !.type = t])
SubmitShare == In({"share"}) /\ dialog.user # None /\ dialog.days /\ ~Pending({"share"}) /\ Send(Body)
SubmitDeactivate == In({"deactivate"}) /\ ~Pending({"deactivate"}) /\ Send(Body)
AllowOrRemoveEdit(i) ==
  In({"share"}) /\ i \in DOMAIN shares /\ Send([OnRow("update", i) EXCEPT !.caps = Otherwise(shares[i].caps)])
Revoke(i) == In({"share"}) /\ i \in DOMAIN shares /\ Send(OnRow("revoke", i))

-----------------------------------------------------------------------------
(* The services.  An addition asks neither whether the lead is active nor  *)
(* whether it has an instance left; the others do, one way or the other.   *)

Landing(r) == IF r.status = None THEN DefaultOf[r.target] ELSE r.status
Free(j) == j \notin Journeys(lead)
Standing(i) == ~grants[i].revoked
Shared(u) == \E i \in DOMAIN grants : grants[i].user = u /\ Standing(i)

moveJourney(r) == lead.process[r.process].active /\ Landing(r) \in StatusOf[r.target] /\ Free(r.target)
createLead(r) == DOMAIN r.holder # {} /\ Landing(r) \in StatusOf[r.target] /\ Free(r.target)
reassign(r) == allowed /\ r.type \in DOMAIN lead.process[r.process].holder
create(r) == allowed /\ lead.active /\ r.user # Me /\ ~Shared(r.user)
update(r) == allowed /\ Standing(r.share)
deactivate(r) == allowed /\ lead.active

Accepts(r) ==
  CASE r.kind = "move" -> moveJourney(r)
    [] r.kind = "add" -> createLead(r)
    [] r.kind = "reassign" -> reassign(r)
    [] r.kind = "share" -> create(r)
    [] r.kind \in {"update", "revoke"} -> update(r)
    [] r.kind = "deactivate" -> deactivate(r)

(* The name is overwritten; a phone that was sent as null keeps what there *)
(* is.                                                                     *)
Core(r) == [name |-> r.core.name, phone |-> IF r.core.phone = None THEN lead.core.phone ELSE r.core.phone]
Moved(p, j, s) == [lead EXCEPT !.process[p].journey = j, !.process[p].status = s]
Added(r) == [lead EXCEPT !.core = Core(r), !.process = Append(@, Process(r.target, Landing(r), r.holder))]
Reassigned(p, t, u) == [lead EXCEPT !.process[p].holder[t] = u]
Deactivated == [lead EXCEPT !.active = FALSE, !.process = [p \in DOMAIN @ |-> [@[p] EXCEPT !.active = FALSE]]]
AllRevoked == [i \in DOMAIN grants |-> [grants[i] EXCEPT !.revoked = TRUE]]
Grant(u, caps) == [user |-> u, caps |-> caps, revoked |-> FALSE, expired |-> FALSE]

NextLead(r) ==
  CASE r.kind = "move" -> Moved(r.process, r.target, Landing(r)) [] r.kind = "add" -> Added(r)
    [] r.kind = "reassign" -> Reassigned(r.process, r.type, r.user) [] r.kind = "deactivate" -> Deactivated [] OTHER -> lead
NextGrants(r) ==
  CASE r.kind = "share" -> Append(grants, Grant(r.user, r.caps))
    [] r.kind = "update" -> [grants EXCEPT ![r.share].caps = r.caps]
    [] r.kind = "revoke" -> [grants EXCEPT ![r.share].revoked = TRUE]
    [] r.kind = "deactivate" -> AllRevoked
    [] OTHER -> grants

Answered(r, answer) == {Outdated(x) : x \in asked \ {r}} \cup {[r EXCEPT !.answer = answer]}
Handle(r) ==
  /\ r.answer = None /\ Accepts(r)
  /\ lead' = NextLead(r) /\ grants' = NextGrants(r)
  /\ \E answer \in {"taken", "lost"} : asked' = Answered(r, answer)
  /\ dialog' = DialogOutdated /\ UNCHANGED <<seller, shares, edits, writes>>
Refuse(r) ==
  /\ r.answer = None /\ ~Accepts(r) /\ asked' = (asked \ {r}) \cup {[r EXCEPT !.answer = "refused"]}
  /\ UNCHANGED <<lead, grants, seller, shares, dialog, edits, writes>>

(* A dialog closes with the success of what it asked for, whichever of its *)
(* kind is open by then; that of the shares stays open.                    *)
Closes(kind) == CASE kind \in {"move", "add"} -> {"move", "add"} [] kind \in {"reassign", "deactivate"} -> {kind} [] OTHER -> {}
Settle(r) ==
  /\ r.answer # None /\ asked' = asked \ {r}
  /\ dialog' = IF r.answer = "taken" /\ dialog # None /\ dialog.kind \in Closes(r.kind) THEN None ELSE dialog
  /\ UNCHANGED <<lead, grants, seller, shares, edits, writes>>

(* The copies are read again, each for itself.  A read that is refused     *)
(* takes the page away with what was entered in a dialog, which is there   *)
(* anew when a later one is answered.                                      *)
ReadLead ==
  /\ seller # View /\ seller' = View
  /\ IF seller = None /\ dialog # None
     THEN \E p \in Processes(lead) : dialog' = Outdated(Ask(dialog.kind, p)) ELSE UNCHANGED dialog
  /\ asked' = IF View = None THEN Unwatched ELSE asked
  /\ UNCHANGED <<lead, grants, shares, edits, writes>>
ReadShares ==
  /\ seller # None /\ allowed /\ shares # SharesView /\ shares' = SharesView
  /\ UNCHANGED <<lead, grants, seller, dialog, asked, edits, writes>>

(* Somebody else edits the lead, moves it, reassigns it, changes a share   *)
(* or deactivates it; or a share expires.                                  *)
Elsewhere ==
  /\ writes < MaxWrites /\ writes' = writes + 1
  /\ \/ \E part \in {"name", "phone"} : allowed /\ lead' = [lead EXCEPT !.core[part] = "b"] /\ UNCHANGED grants
     \/ \E p \in Processes(lead), j \in Journey : Free(j) /\ lead' = Moved(p, j, DefaultOf[j]) /\ UNCHANGED grants
     \/ \E p \in Processes(lead), u \in User :
          \E t \in DOMAIN lead.process[p].holder : lead' = Reassigned(p, t, u) /\ UNCHANGED grants
     \/ allowed /\ lead.active /\ lead' = Deactivated /\ grants' = AllRevoked
     \/ /\ allowed /\ UNCHANGED lead
        /\ \/ \E u \in User : lead.active /\ ~Shared(u) /\ grants' = Append(grants, Grant(u, {"view"}))
           \/ \E i \in DOMAIN grants : Standing(i) /\ grants' = [grants EXCEPT ![i].caps = Otherwise(@)]
           \/ \E i \in DOMAIN grants : Standing(i) /\ grants' = [grants EXCEPT ![i].revoked = TRUE]
     \/ \E i \in DOMAIN grants : Live(grants[i]) /\ grants' = [grants EXCEPT ![i].expired = TRUE] /\ UNCHANGED lead
  /\ dialog' = DialogOutdated /\ asked' = {Outdated(r) : r \in asked}
  /\ UNCHANGED <<seller, shares, edits>>

PageNext ==
  \/ CloseDialog \/ SubmitMove \/ SubmitAdd \/ SubmitReassign \/ SubmitShare \/ SubmitDeactivate
  \/ ChooseDuration \/ ReadLead \/ ReadShares \/ Elsewhere
  \/ \E r \in asked : Handle(r) \/ Refuse(r) \/ Settle(r)
  \/ \E kind \in {"move", "add", "reassign", "share", "deactivate"} : OpenDialog(kind)
  \/ \E p \in DOMAIN lead.process : ChooseProcess(p)
  \/ \E j \in Journey \cup {None} : ChooseTarget(j)
  \/ \E s \in UNION {StatusOf[j] : j \in Journey} \cup {None} : ChooseStatus(s)
  \/ \E t \in AssignmentType : ChooseType(t)
  \/ \E u \in User : ChooseUser(u)
  \/ \E i \in DOMAIN grants : AllowOrRemoveEdit(i) \/ Revoke(i)
  \/ \E cap \in Capability : toggle(cap)

PageSpec == PageInit /\ [][PageNext]_pageVars

-----------------------------------------------------------------------------
(* A lead is in a journey once, in a status of it; a user has one share of *)
(* it at most, expired ones included.                                      *)
PageTypeOK ==
  /\ \A p \in Processes(lead) : lead.process[p].status \in StatusOf[lead.process[p].journey]
  /\ Cardinality(Journeys(lead)) = Cardinality(Processes(lead))
  /\ \A i \in DOMAIN grants : grants[i].caps \in Capabilities
  /\ \A i, k \in {i \in DOMAIN grants : Standing(i)} : grants[i].user = grants[k].user => i = k

(* What the dialogs offer is what the services take: a request that is     *)
(* made from what is still true is not refused.  The dialogs do offer some *)
(* that are: an addition from an instance that nobody is assigned to, a    *)
(* share with oneself or with a user who has one, be it expired, and both  *)
(* a share and a deactivation of a lead that an addition gave an instance  *)
(* again after it was deactivated.                                         *)
Unfit(r) ==
  \/ r.kind = "add" /\ DOMAIN r.holder = {}
  \/ r.kind = "share" /\ (r.user = Me \/ Shared(r.user))
  \/ r.kind \in {"share", "deactivate"} /\ ~lead.active
FreshRequestsAreTaken == \A r \in asked : r.answer = None /\ r.fresh => Accepts(r) \/ Unfit(r)

(* A request changes what was chosen and leaves the rest of the lead and   *)
(* of its shares: a move the journey of one instance, an addition none of  *)
(* those there are, a reassignment one assignment of one instance, the     *)
(* button of a share that share's capability to edit.                      *)
Handled(r) == r.answer = None /\ \E answer \in {"taken", "lost"} : asked' = Answered(r, answer)
RestStaysStep ==
  \A r \in asked : Handled(r) /\ r.fresh /\ r.kind # "deactivate" =>
    /\ lead'.core = lead.core /\ lead'.active = lead.active
    /\ \A p \in DOMAIN lead.process :
         LET then == lead'.process[p]  now == lead.process[p] IN
         /\ then.active = now.active /\ DOMAIN then.holder = DOMAIN now.holder
         /\ <<r.kind, r.process>> # <<"move", p>> => then.journey = now.journey /\ then.status = now.status
         /\ \A t \in DOMAIN now.holder : <<r.kind, r.process, r.type>> # <<"reassign", p, t>> => then.holder[t] = now.holder[t]
    /\ r.kind = "add" => lead'.process[Len(lead'.process)].holder = lead.process[r.process].holder
    /\ \A i \in DOMAIN grants : r.share # i => grants'[i] = grants[i]
    /\ r.kind = "update" => /\ grants'[r.share].caps \ {"edit"} = grants[r.share].caps \ {"edit"}
                            /\ "edit" \in grants'[r.share].caps <=> "edit" \notin grants[r.share].caps
=============================================================================
