----------------------------- MODULE MCWebClient -----------------------------
(* Bounded instances of the forms and the lists of the web client for TLC.   *)
(* In each behaviour one of them is open, part; each has the variables       *)
(* v1, v2, ... for its own, those it has no use for are Nil.                 *)
EXTENDS Naturals, Sequences, TLC

CONSTANTS Nil, Empty, u1, u2, t1, mine, other, fh, fa, fb, fc, f1, f2, f3, f4, l1, l2, la, lb, lc, ld

VARIABLES part, v1, v2, v3, v4, v5, v6, v7, v8, v9, v10, edits, writes

all == <<part, v1, v2, v3, v4, v5, v6, v7, v8, v9, v10, edits, writes>>

(* Fields as the form may find them: a formula over a number, a template    *)
(* over a text that the system writes, a select and a date.                 *)
Three(p, q, r) == (fa :> p) @@ (fb :> q) @@ (fc :> r)
Kept(type, m, calc) ==
  [active |-> TRUE, type |-> type, mode |-> m, source |-> m,
   options |-> IF type = "select" THEN "distinct" ELSE "none", calc |-> calc]
Whole(k, r) == [kind |-> k, refs |-> {r}, whole |-> TRUE]
FormWorlds ==
  { Three(Kept("number", "manual", Nil), Kept("number", "calculated", Whole("arithmetic", fa)), Nil),
    Three([Kept("text", "manual", Nil) EXCEPT !.source = "system"],
          Kept("text", "calculated", Whole("template", fa)), Nil),
    Three(Kept("select", "manual", Nil), Kept("date", "system", Nil), Nil) }

(* Three edits and a save, or an edit beside another administrator's write. *)
Form(e, w) == INSTANCE FieldForm WITH
                FieldId <- {fa, fb, fc}, Starts <- FormWorlds, MaxEdits <- e, MaxWrites <- w, None <- Nil,
                fields <- v1, list <- v2, form <- v3, trusted <- v4, asked <- v5

(* A text, a locked checkbox, a checkbox, and a text only the API writes;   *)
(* the catalogue answers with the first two.                                *)
LeadWorlds == {[value |-> (f1 :> a) @@ (f2 :> b) @@ (f3 :> "yes") @@ (f4 :> "a"), status |-> "s"] :
                 <<a, b>> \in {<<"blank", "yes">>, <<"a", "blank">>}}

Edited == INSTANCE LeadForm WITH
            Catalogue <- <<f1, f2, f3, f4>>, PageSize <- 2,
            FieldType <- (f1 :> "text") @@ (f2 :> "boolean") @@ (f3 :> "boolean") @@ (f4 :> "text"),
            EditMode <- (f1 :> "manual") @@ (f2 :> "locked") @@ (f3 :> "manual") @@ (f4 :> "api-only"),
            Visible <- {f1, f2, f3, f4}, Editable <- {f1, f2, f3, f4}, Required <- {f1},
            Status <- {"s", "t"}, Starts <- LeadWorlds, MaxEdits <- 1, MaxWrites <- 1, None <- Nil,
            lead <- v1, mapped <- v2, live <- v3, omits <- v4, catalogue <- v5, journeyFields <- v6,
            cache <- v7, open <- v8, form <- v9, asked <- v10

(* A rule for a user, and one with a recipient whose type of assignment and *)
(* one whose permission the catalog no longer offers.                       *)
Acts(m) == IF m = "leads" THEN {"view"} ELSE {"edit"}
To(res, type, mod, act, user) ==
  [resolver |-> res, assignment |-> type, module |-> mod, action |-> act, userId |-> user]
Rule(trigger, scoped, rs) == [trigger |-> trigger, scoped |-> scoped, active |-> TRUE, recipients |-> rs]
RuleWorlds ==
  { Nil, Rule("field_edited", TRUE, <<To("share_creator", "blank", "blank", "blank", "u")>>),
    Rule("status_changed", FALSE, <<To("assignment_holder", "gone", "blank", "blank", "blank"),
                                    To("feature_permission_holders", "blank", "old", "view", "blank")>>) }

Rules == INSTANCE RuleEditor WITH
           Trigger <- {"field_edited", "status_changed"}, Assignment <- {"owner"}, Module <- {"leads", "users"},
           ActionsOf <- Acts, Starts <- RuleWorlds, MaxRecipients <- 2, MaxEdits <- 3, MaxWrites <- 2, None <- Nil,
           rule <- v1, list <- v2, draft <- v3, pristine <- v4, saving <- v5, switching <- v6

(* A journey of three statuses, with leads in the last, and one of two,     *)
(* with leads in the first, which is the default.                           *)
Statuses(place, l) ==
  [status |-> [s \in 1..3 |-> IF s \in DOMAIN place THEN [active |-> TRUE, place |-> place[s], name |-> "n"] ELSE Nil],
   default |-> 1, leads |-> [s \in 1..3 |-> IF s = l THEN 1 ELSE 0], rule |-> ("f" :> Nil)]

Journeys == INSTANCE JourneyPage WITH
              StatusId <- {1, 2, 3}, Field <- {"f"}, MaxEdits <- 3, MaxWrites <- 2, None <- Nil,
              Starts <- {Statuses(<<0, 1, 2>>, 3), Statuses(<<0, 1>>, 1)},
              journey <- v1, page <- v2, draft <- v3, retiring <- v4, replacement <- v5,
              order <- v6, ruleDraft <- v7, pageAsked <- v8

(* A list of two leads in pages of one; the type of one field is none that  *)
(* the filters know.                                                        *)
Seller(n, shared) ==
  [name |-> n, createdAt |-> 1, journey |-> "j", status |-> "s", shared |-> shared,
   value |-> ("n" :> 1) @@ ("o" :> Nil) @@ ("r" :> Nil)]

List == INSTANCE SellerList WITH
          LeadId <- {l1, l2}, PageSize <- 1, MaxConditions <- 2, MaxEdits <- 3, MaxWrites <- 1,
          FieldType <- ("n" :> "number") @@ ("o" :> "select") @@ ("r" :> "rating"),
          StatusOf <- ("j" :> {"s", "t"}) @@ ("k" :> {"u"}), None <- Nil, Blank <- Empty,
          Starts <- {[leads |-> (l1 :> Seller("ab", FALSE)) @@ (l2 :> Seller("ba", TRUE)), recent |-> <<l1, l2>>]},
          leads <- v1, recent <- v2, url <- v3, past <- v4, conditions <- v5, searchDraft <- v6,
          cache <- v7, kept <- v8, hurried <- v9

(* The same list with four leads, exported in pages of two for the three    *)
(* that are asked for; there are at most six lines, and room for five.      *)
Export == INSTANCE LeadExport WITH
            LeadId <- {la, lb, lc, ld}, Journey <- {"j", "k", "z"}, Allowed <- {"j", "k"},
            Starts <- {[lead |-> (la :> {"j"}) @@ (lb :> {"j", "k"}) @@ (lc :> {}) @@ (ld :> {"j"}),
                        sorted |-> <<la, lb, lc, ld>>]},
            Requested <- 3, Capped <- 2, maxExportRows <- 5, MaxWrites <- 2, None <- Nil,
            lead <- v1, sorted <- v2, byName <- v3, export <- v4, lines <- v5, truncated <- v6,
            touched <- v7, retreated <- v8, exportWrites <- writes

(* A rule for one user; one for a team, which the user of the panel may not  *)
(* see; one for a team that was deactivated; and one of whose two users one  *)
(* was deactivated.                                                         *)
Routed(pool, team, members, cursor) ==
  [assignment |-> "owner", poolType |-> pool, team |-> team, members |-> members, active |-> TRUE, cursor |-> cursor]
RoutingWorlds ==
  { [rule |-> Routed("users", Nil, {u1}, u1), grants |-> {}, active |-> {u1, u2, t1}],
    [rule |-> Routed("team", t1, {}, u1), grants |-> {<<other, "view">>}, active |-> {u1, u2, t1}],
    [rule |-> Routed("team", t1, {}, u1), grants |-> {}, active |-> {u1, u2}],
    [rule |-> Routed("users", Nil, {u1, u2}, Nil), grants |-> {mine, other} \X {"configure"}, active |-> {u1, t1}] }

Routing == INSTANCE RoutingPanel WITH
             User <- {u1, u2}, Team <- {t1}, Role <- {mine, other}, Me <- mine, Starts <- RoutingWorlds,
             MaxEdits <- 3, MaxWrites <- 1, None <- Nil,
             rule <- v1, grants <- v2, active <- v3, state <- v4, stored <- v5, offered <- v6,
             draft <- v7, edited <- v8, asked <- v9

(* No campaign; a manual one, with a Field in its message that the user may *)
(* not view or with none; and a triggered one.                              *)
Mail(type, filter, journey, status, tokens) ==
  [type |-> type, filter |-> filter, journey |-> journey, status |-> status, tokens |-> tokens, active |-> TRUE]
Desk == INSTANCE CampaignDesk WITH
          Lead <- {la, lb, lc, ld}, Scope <- {la, lb, lc}, maxManualRecipients <- 2,
          Matching <- ("a" :> {la}) @@ ("b" :> {la, lb, ld}), StatusOf <- ("j" :> {"s"}) @@ ("k" :> {"u"}),
          Field <- {fa, fh}, Visible <- {fa}, MaxEdits <- 5, MaxWrites <- 1, None <- Nil,
          Starts <- {Nil, Mail("triggered", Nil, "j", "s", {})} \cup
                    {Mail("manual", {"a"}, Nil, Nil, tokens) : tokens \in {{}, {fh}}},
          campaign <- v1, queued <- v2, list <- v3, draft <- v4, saving <- v5, switching <- v6, sending <- v7, reached <- v8

(* Directories of three that may have got a loop, and two of four: a line,   *)
(* and a loop that somebody leads into; pages of two.                       *)
Chart == INSTANCE OrgChart WITH
           Starts <- {<<Nil, 3, 1>>, <<2, 3, 2>>, <<2, 3, 1, 1>>},
           PageSize <- 2, MaxPages <- 4, MaxEdits <- 2, MaxWrites <- 1, None <- Nil,
           directory <- v1, load <- v2, data <- v3, hierarchy <- v4, isError <- v5, query <- v6, manualExpanded <- v7, opened <- v8

(* A lead in one journey of three, or in two of them, one without anybody.  *)
In(j, s, holder) == [journey |-> j, status |-> s, active |-> TRUE, holder |-> holder]
Held == ("t" :> u1) @@ ("o" :> u2)
Records == {[core |-> [name |-> "a", phone |-> c], active |-> TRUE, process |-> ps] :
              <<c, ps>> \in {<<"p", <<In("j", "s", Held)>>>>, <<Nil, <<In("j", "s", Held), In("k", "t", <<>>)>>>>}}
Record == INSTANCE SellerPage WITH
            Journey <- {"j", "k", "m"}, StatusOf <- ("j" :> {"s"}) @@ ("k" :> {"t", "u"}) @@ ("m" :> {"v"}),
            DefaultOf <- ("j" :> "s") @@ ("k" :> "t") @@ ("m" :> "v"), AssignmentType <- {"o", "t"},
            User <- {u1, u2}, Me <- u1, Starts <- Records, MaxEdits <- 5, MaxWrites <- 1, MaxAsked <- 2, None <- Nil,
            Granted <- {<<[user |-> u1, caps |-> {"view", "comment"}, revoked |-> FALSE, expired |-> FALSE]>>},
            lead <- v1, grants <- v2, seller <- v3, shares <- v4, dialog <- v5, asked <- v6

Parts == {"record", "chart", "form", "met", "lead", "rules", "journey", "list", "export", "routing", "campaign"}

ClientInit ==
  /\ part \in Parts
  /\ \/ part \in {"form", "met"} /\ Form(3, 1)!FormInit /\ v6 = Nil /\ v7 = Nil /\ v8 = Nil /\ v9 = Nil /\ v10 = Nil
     \/ part = "lead"    /\ Edited!LeadFormInit
     \/ part = "rules"   /\ Rules!RuleInit         /\ v7 = Nil /\ v8 = Nil /\ v9 = Nil /\ v10 = Nil
     \/ part = "journey" /\ Journeys!JourneyInit   /\ v9 = Nil /\ v10 = Nil
     \/ part = "list"    /\ List!SellerListInit    /\ v10 = Nil
     \/ part = "export"  /\ Export!ExportInit      /\ v9 = Nil /\ v10 = Nil /\ edits = 0
     \/ part = "routing" /\ Routing!RoutingInit    /\ v10 = Nil
     \/ part = "campaign" /\ Desk!DeskInit         /\ v9 = Nil /\ v10 = Nil
     \/ part = "record"  /\ Record!PageInit       /\ v7 = Nil /\ v8 = Nil /\ v9 = Nil /\ v10 = Nil
     \/ part = "chart"   /\ Chart!ChartInit       /\ v9 = Nil /\ v10 = Nil

ClientNext ==
  /\ UNCHANGED part
  /\ \/ part = "form"    /\ Form(3, 1)!FormNext    /\ UNCHANGED <<v6, v7, v8, v9, v10>>
     \/ part = "met"     /\ Form(1, 2)!FormNext    /\ UNCHANGED <<v6, v7, v8, v9, v10>>
     \/ part = "lead"    /\ Edited!LeadFormNext
     \/ part = "rules"   /\ Rules!RuleNext         /\ UNCHANGED <<v7, v8, v9, v10>>
     \/ part = "journey" /\ Journeys!JourneyNext   /\ UNCHANGED <<v9, v10>>
     \/ part = "list"    /\ List!SellerListNext    /\ UNCHANGED v10
     \/ part = "export"  /\ Export!ExportNext      /\ UNCHANGED <<v9, v10, edits>>
     \/ part = "routing" /\ Routing!RoutingNext    /\ UNCHANGED v10
     \/ part = "campaign" /\ Desk!DeskNext         /\ UNCHANGED <<v9, v10>>
     \/ part = "record"  /\ Record!PageNext       /\ UNCHANGED <<v7, v8, v9, v10>>
     \/ part = "chart"   /\ Chart!ChartNext       /\ UNCHANGED <<v9, v10>>

ClientSpec == ClientInit /\ [][ClientNext]_all

-----------------------------------------------------------------------------
(* Properties.  Each page has its own (part), under one question asked of    *)
(* them all.                                                                *)

(* The pages keep their types. *)
PagesTypeOK ==
  /\ part \in {"form", "met"} => Form(3, 1)!FormTypeOK
  /\ part = "lead"     => Edited!LeadFormTypeOK
  /\ part = "rules"    => Rules!RulesTypeOK
  /\ part = "journey"  => Journeys!JourneyTypeOK
  /\ part = "list"     => List!SellerListTypeOK
  /\ part = "export"   => Export!ExportTypeOK
  /\ part = "routing"  => Routing!RoutingTypeOK
  /\ part = "campaign" => Desk!DeskTypeOK
  /\ part = "chart"    => Chart!ChartTypeOK
  /\ part = "record"   => Record!PageTypeOK

(* What a request changes is what the user changed.  A page sends a whole    *)
(* object back, filled from a copy: what was not edited, switched, moved or *)
(* chosen stays as the server had it, unless somebody wrote it since the    *)
(* copy was taken.                                                          *)
RequestsChangeWhatWasEdited ==
  [][/\ part \in {"form", "met"} => Form(3, 1)!KeepsStep
     /\ part = "lead"     => Edited!SaveStep
     /\ part = "rules"    => Rules!SwitchStep
     /\ part = "journey"  => Journeys!MoveStep /\ Journeys!SaveStep
     /\ part = "routing"  => Routing!GrantStep(Routing!Known) /\ Routing!RuleStep
     /\ part = "campaign" => Desk!TargetStep /\ Desk!SwitchStep(Desk!Undisturbed)
     /\ part = "record"   => Record!RestStaysStep]_all

(* What a page offers and lets the user send, the server takes: the checks   *)
(* of the page and those of the handler are two programs, and the choices   *)
(* on display are of an earlier read.  Each part names its exceptions.      *)
OfferedIsTaken ==
  /\ part \in {"form", "met"} => Form(3, 1)!ToldBeforeSaving
  /\ part = "lead"     => Edited!UntouchedSaveIsTaken
  /\ part = "rules"    => Rules!PermissionsAreOffered
  /\ part = "journey"  => Journeys!RetiredHoldNobody
  /\ part = "list"     => List!AskedFiltersAreTaken
  /\ part = "routing"  => Routing!EnabledSaveIsTaken /\ Routing!GrantChecksAreGrounded
  /\ part = "campaign" => Desk!EnabledCampaignIsTaken /\ Desk!MailedWereReached
  /\ part = "record"   => Record!FreshRequestsAreTaken

(* What a list, an export or a chart shows is what the server has for what   *)
(* was asked, however its pages were cut, when nobody disturbed the reads:  *)
(* whole, in bounds, and with nobody in two places.                         *)
ShownIsOfTheServer ==
  /\ part = "list"   => /\ List!ShownIsOfTheUrl /\ List!StatusIsOfTheJourney
                        /\ List!PagesExist /\ List!OppositesSplitTheLeads
  /\ part = "export" => Export!CalmExportIsTheList /\ Export!OnlyRetreatsHideLeads
  /\ part = "chart"  => /\ Chart!EveryoneIsInTheForest /\ Chart!RingsAreTheLoops
                        /\ Chart!HitsAreShown /\ Chart!CalmLoadsEnd

(* The comment at CampaignService.setActive: switching is an operation of    *)
(* its own, and the control that stops sends.  So a save never switches a   *)
(* campaign.                                                                *)
SavesNeverSwitch == [][part = "campaign" => Desk!SwitchStep(TRUE)]_all
=============================================================================
