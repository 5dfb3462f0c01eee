---------------------------- MODULE RoutingPanel ----------------------------
(***************************************************************************)
(* The routing of one status: its panel on the page of the journey         *)
(* (pages/admin/StatusRoutingPanel.tsx, StatusRoutingPermissions.tsx) and  *)
(* what the server does with its requests (routes/routing.ts,              *)
(* routing/rule-service.ts, routing/validation.ts).                        *)
(*                                                                         *)
(* The rule and the grants that narrow who may touch it are each saved as  *)
(* a whole, from drafts.  The user of the panel has the permissions of the *)
(* module and may edit permissions; what the grants of the status say of   *)
(* the user's role is asked in two reads.  Algorithms, names and the       *)
(* counts of open leads are left out, and so is 'operate', which           *)
(* StatusRouting has.  The type of assignment is free text: nothing, white *)
(* space, or a name, which stands for itself with spaces around it.        *)
(***************************************************************************)
EXTENDS Naturals, FiniteSets

CONSTANTS User, Team, Role,
          Me,                  \* the role of the panel's user
          Starts,              \* what the server may have at first
          MaxEdits, MaxWrites, \* bounds: what the user does, what others do
          None

VARIABLES rule, grants, active,   \* server: the rule, the grants, who and which teams are active
          state, stored, offered, \* client: what it read of each
          draft, edited,          \* the drafts of the rule and of the grants
          asked,                  \* the request on its way; the bound is one
          edits, writes

routingVars == <<rule, grants, active, state, stored, offered, draft, edited, asked, edits, writes>>
server == <<rule, grants, active>>
read   == <<state, stored, offered>>

RoutingAction == {"view", "configure"}
Grant == Role \X RoutingAction
Settings == [assignment : {"empty", "blank", "owner", "sdr"}, poolType : {"users", "team"},
             team : Team \cup {None}, members : SUBSET User]
emptyDraft == [assignment |-> "empty", poolType |-> "users", team |-> None, members |-> {}]
SettingsOf(r) == [k \in {"assignment", "poolType", "team", "members"} |-> r[k]]
RuleOf(s, on, cursor) ==
  [assignment |-> s.assignment, poolType |-> s.poolType, team |-> s.team, members |-> s.members,
   active |-> on, cursor |-> cursor]

-----------------------------------------------------------------------------
(* The grants: an action for which the status has none is open to every    *)
(* role, one for which it has some is for those roles.                     *)
Configured(a) == \E r \in Role : <<r, a>> \in grants
HasRow(r, a) == <<r, a>> \in grants
Granted(r, a, G) == (\E q \in Role : <<q, a>> \in G) => <<r, a>> \in G

(* What GET .../routing/state answers: nothing of a rule that was cleared, *)
(* and of the members only those who are active as candidates.             *)
State ==
  IF rule = None \/ ~rule.active THEN [rule |-> None, candidates |-> {}]
  ELSE [rule |-> SettingsOf(rule), candidates |-> rule.members \cap active]

Shown == IF state = None THEN None ELSE state.rule
ShownGrants == IF edited # None THEN edited.rows ELSE stored

RoutingInit ==
  /\ \E s \in Starts : rule = s.rule /\ grants = s.grants /\ active = s.active
  /\ state = None /\ stored = None /\ offered = {} /\ draft = None /\ edited = None /\ asked = None
  /\ edits = 0 /\ writes = 0

(* A refused read leaves what there was; at first that is no rule.         *)
ReadState ==
  /\ state' = IF Granted(Me, "view", grants) THEN State
              ELSE IF state = None THEN [rule |-> None, candidates |-> {}] ELSE state
  /\ state' # state
  /\ UNCHANGED <<server, stored, offered, draft, edited, asked, edits, writes>>

ReadGrants ==
  /\ stored # grants /\ stored' = grants
  /\ UNCHANGED <<server, state, offered, draft, edited, asked, edits, writes>>

(* The active users, or the active teams of the active departments.        *)
ReadChoices ==
  /\ draft # None
  /\ LET kind == IF draft.settings.poolType = "users" THEN User ELSE Team
     IN  offered' = (offered \ kind) \cup (active \cap kind)
  /\ offered' # offered
  /\ UNCHANGED <<server, state, stored, draft, edited, asked, edits, writes>>

-----------------------------------------------------------------------------
(* The draft of the rule; from and touched are ghosts: what it was opened  *)
(* with, and which of its parts were edited.                               *)
toDraft(r) == IF r = None THEN emptyDraft ELSE r

Edits(d) ==
  /\ edits < MaxEdits /\ edits' = edits + 1 /\ draft' = d
  /\ UNCHANGED <<server, read, edited, asked, writes>>

OpenDraft == state # None /\ Edits([settings |-> toDraft(Shown), from |-> Shown, touched |-> {}])
CancelDraft == draft # None /\ Edits(None)

Change(s, part) == Edits([draft EXCEPT !.settings = s, !.touched = @ \cup {part}])
SetAssignment(t) == draft.settings.assignment # t /\ Change([draft.settings EXCEPT !.assignment = t], "assignment")
SetPoolType(p) ==
  /\ draft.settings.poolType # p
  /\ Change([draft.settings EXCEPT !.poolType = p, !.team = None, !.members = {}], "pool")
SetTeam(t) == /\ draft.settings.poolType = "team" /\ draft.settings.team # t
              /\ t \in offered \cup {None}
              /\ Change([draft.settings EXCEPT !.team = t], "pool")
(* There is a box for each user that was read as active, and for no other. *)
CheckMember(u) ==
  /\ draft.settings.poolType = "users" /\ u \in offered
  /\ LET m == draft.settings.members
     IN  Change([draft.settings EXCEPT !.members = IF u \in m THEN m \ {u} ELSE m \cup {u}], "pool")

CanSave(s) ==
  /\ s.assignment # "empty"
  /\ IF s.poolType = "team" THEN s.team # None ELSE s.members # {}

Body(s) == s
Pool(s) == IF s.poolType = "team" THEN {s.team} ELSE s.members

(* allowed are the decisions that the grants would have made since the     *)
(* request was sent, opened whether the last grant was taken away.         *)
Send(request) ==
  /\ asked = None /\ edits < MaxEdits /\ edits' = edits + 1 /\ asked' = request
  /\ UNCHANGED <<server, read, draft, edited, writes>>
Gated(op, body, d) ==
  [op |-> op, body |-> body, draft |-> d, stage |-> "sent",
   hidden |-> op = "rule" /\ ~(Pool(body) \subseteq offered),
   allowed |-> {Granted(Me, "configure", grants)}, opened |-> FALSE]

SaveRule == draft # None /\ CanSave(draft.settings) /\ Send(Gated("rule", Body(draft.settings), draft))
ClearRule == Shown # None /\ Send(Gated("clear", None, None))

-----------------------------------------------------------------------------
(* The grants: the first edit starts from the set that was read.           *)

Toggled(rows, g) == IF g \in rows THEN rows \ {g} ELSE rows \cup {g}

Toggle(g) ==
  /\ stored # None /\ edits < MaxEdits /\ edits' = edits + 1
  /\ edited' = IF edited = None THEN [rows |-> Toggled(stored, g), base |-> stored, touched |-> {g}]
               ELSE [edited EXCEPT !.rows = Toggled(@, g), !.touched = @ \cup {g}]
  /\ UNCHANGED <<server, read, draft, asked, writes>>

(* Saving takes the permission to edit permissions, which no grant gives.  *)
SaveGrants ==
  /\ stored # None
  /\ Send([op |-> "grants", body |-> ShownGrants, stage |-> "allowed", hidden |-> FALSE,
           draft |-> IF edited # None THEN edited ELSE [rows |-> stored, base |-> stored, touched |-> {}],
           allowed |-> {TRUE}, opened |-> FALSE])

-----------------------------------------------------------------------------
(* The server: roleHasGrant in its two reads, then the transaction.        *)
Stage(s) == asked' = [asked EXCEPT !.stage = s]

CheckConfigured ==
  /\ asked.stage = "sent" /\ Stage(IF Configured("configure") THEN "narrowed" ELSE "allowed")
  /\ UNCHANGED <<server, read, draft, edited, edits, writes>>
CheckRow ==
  /\ asked.stage = "narrowed" /\ Stage(IF HasRow(Me, "configure") THEN "allowed" ELSE "forbidden")
  /\ UNCHANGED <<server, read, draft, edited, edits, writes>>

parseRule(s) == s.assignment \notin {"empty", "blank"} /\ (s.team # None \/ s.members # {})
validatePool(s) == Pool(s) \subseteq active

(* A pool of users goes on from the cursor there was.                      *)
replaced(s) == RuleOf(s, TRUE, IF rule = None \/ s.poolType = "team" THEN None ELSE rule.cursor)

replace ==
  /\ asked.op = "rule" /\ asked.stage = "allowed"
  /\ IF parseRule(asked.body) /\ validatePool(asked.body) THEN rule' = replaced(asked.body) /\ Stage("ok")
     ELSE rule' = rule /\ Stage("refused")
  /\ UNCHANGED <<grants, active, read, draft, edited, edits, writes>>

deactivate ==
  /\ asked.op = "clear" /\ asked.stage = "allowed"
  /\ IF rule = None THEN rule' = rule /\ Stage("refused")
     ELSE rule' = [rule EXCEPT !.active = FALSE] /\ Stage("ok")
  /\ UNCHANGED <<grants, active, read, draft, edited, edits, writes>>

replaceGrants ==
  /\ asked.op = "grants" /\ asked.stage = "allowed"
  /\ grants' = asked.body /\ Stage("ok")
  /\ UNCHANGED <<rule, active, read, draft, edited, edits, writes>>

(* The answer: a save that succeeded closes its draft, whatever has been   *)
(* edited meanwhile.  What was read is out of date until it is read again. *)
Answered ==
  /\ asked.stage \in {"ok", "refused", "forbidden"} /\ asked' = None
  /\ draft' = IF asked.op = "rule" /\ asked.stage = "ok" THEN None ELSE draft
  /\ edited' = IF asked.op = "grants" /\ asked.stage = "ok" THEN None ELSE edited
  /\ UNCHANGED <<server, read, edits, writes>>

(* Others: a lead is routed, a user or a team is deactivated, and the      *)
(* grants change or are all taken away.                                    *)
Elsewhere ==
  /\ writes < MaxWrites /\ writes' = writes + 1
  /\ \/ /\ rule # None /\ rule.active /\ rule.poolType = "users"
        /\ \E u \in rule.members \cap active : rule' = [rule EXCEPT !.cursor = u]
        /\ UNCHANGED <<grants, active, asked>>
     \/ /\ \E x \in active : active' = active \ {x}
        /\ UNCHANGED <<rule, grants, asked>>
     \/ /\ \E G \in {Toggled(grants, g) : g \in Grant} \cup {{}} :
             /\ grants' = G
             /\ asked' = IF asked = None \/ asked.stage \notin {"sent", "narrowed"} THEN asked
                         ELSE [asked EXCEPT !.allowed = @ \cup {Granted(Me, "configure", G)},
                                            !.opened = @ \/ ~\E r \in Role : <<r, "configure">> \in G]
        /\ UNCHANGED <<rule, active>>
  /\ UNCHANGED <<read, draft, edited, edits>>

RoutingNext ==
  \/ ReadState \/ ReadGrants \/ ReadChoices
  \/ OpenDraft \/ CancelDraft \/ SaveRule \/ ClearRule \/ SaveGrants
  \/ draft # None /\ \/ \E t \in {"empty", "blank", "owner", "sdr"} : SetAssignment(t)
                     \/ \E p \in {"users", "team"} : SetPoolType(p)
                     \/ \E t \in Team \cup {None} : SetTeam(t)
                     \/ \E u \in User : CheckMember(u)
  \/ \E g \in Grant : Toggle(g)
  \/ asked # None /\ (CheckConfigured \/ CheckRow \/ replace \/ deactivate \/ replaceGrants \/ Answered)
  \/ Elsewhere

RoutingSpec == RoutingInit /\ [][RoutingNext]_routingVars

-----------------------------------------------------------------------------
(* Types, and the shape of a rule: a pool is a team or users, never both.  *)
RoutingTypeOK ==
  /\ rule # None => /\ SettingsOf(rule) \in Settings /\ rule.cursor \in User \cup {None}
                    /\ rule.assignment \notin {"empty", "blank"}
                    /\ (rule.poolType = "team") = (rule.team # None)
                    /\ (rule.poolType = "team") = (rule.members = {})
  /\ grants \subseteq Grant /\ active \subseteq User \cup Team
  /\ draft # None => draft.settings \in Settings
  /\ edited # None => edited.rows \subseteq Grant
  /\ asked # None => asked.op \in {"rule", "clear", "grants"}

(* roleHasGrant reads twice, and the grants may be replaced in between.  A *)
(* request that is let through was allowed at some time during the check,  *)
(* and one that is refused was not, unless the action was opened to all in *)
(* between: then it is refused though it was allowed throughout.           *)
GrantChecksAreGrounded ==
  asked # None =>
    /\ asked.stage = "allowed" => TRUE \in asked.allowed
    /\ asked.stage = "forbidden" => FALSE \in asked.allowed \/ asked.opened

(* What the panel lets the user save the server takes, when nobody else    *)
(* does anything, but for two differences between the two programs.  The   *)
(* draft keeps a team or a member that was deactivated, though it is not   *)
(* among the choices any more, and the button stays enabled (a member has  *)
(* no box then to be taken out by); and white space is a type of           *)
(* assignment to the button and none to the server.                        *)
EnabledSaveIsTaken ==
  asked # None /\ asked.op = "rule" /\ asked.stage = "refused" =>
    writes > 0 \/ asked.hidden \/ asked.body.assignment = "blank"

(* What the button's condition means to say: it is taken, alone.           *)
EverySaveIsTaken ==
  asked # None /\ asked.op = "rule" /\ asked.stage = "refused" => writes > 0

(* Saving the grants changes those that were toggled and no other, if the  *)
(* first of them was toggled in what the server still has.                 *)
GrantStep(known) ==
  asked # None /\ replaceGrants /\ known =>
    \A g \in Grant : (g \in grants) # (g \in grants') => g \in asked.draft.touched
Known == asked.draft.base = grants
TogglesChangeNoOther == [][GrantStep(Known)]_routingVars

(* Saving the rule leaves the parts of it that were not edited, if the     *)
(* draft was opened with what the server still has.                        *)
RuleStep ==
  /\ asked # None /\ replace /\ asked'.stage = "ok"
  /\ rule # None /\ rule.active /\ asked.draft.from = SettingsOf(rule)
  =>
    /\ "assignment" \notin asked.draft.touched => rule'.assignment = rule.assignment
    /\ "pool" \notin asked.draft.touched =>
         rule'.poolType = rule.poolType /\ rule'.team = rule.team /\ rule'.members = rule.members
UntouchedPartsStay == [][RuleStep]_routingVars

(* The comment in StatusRoutingPermissions.tsx: a save clears the local    *)
(* edits, so that the next render reads the refetched set.  So a panel     *)
(* that is alone never takes back what it saved before.                    *)
SavedGrantsStay == [][GrantStep(writes = 0)]_routingVars

(* The comment in rule-service.ts: a change of the pool resets the cursor, *)
(* rather than resuming from a user who may no longer be in it.            *)
CursorStep ==
  asked # None /\ replace /\ rule # None /\ rule'.poolType = "users" /\ rule'.members # rule.members =>
    rule'.cursor \in rule'.members \cup {None}
CursorIsOfThePool == [][CursorStep]_routingVars
=============================================================================
