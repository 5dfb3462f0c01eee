------------------------------ MODULE MCServices ------------------------------
(* Bounded instances of LeadImport, Notifications, Accounts, StoredFiles      *)
(* and of ImportWizard, the page over the first, for TLC.  They share no      *)
(* state: in each behaviour one of them moves, of Accounts the lockout beside *)
(* one password or the passwords without failed logins, of StoredFiles the    *)
(* documents of a lead or the resources, of ImportWizard every mapping of one *)
(* file or the requests for two.                                              *)
EXTENDS LeadImport, Accounts, StoredFiles, Notifications, ImportWizard, TLC

CONSTANTS k1, u1, u2, a, b, x1, x2, NoOne, f1, f2, c1, c2, c3, n1, n2

VARIABLE part

Is(key, status, owner, complete, readable) ==
  [key |-> key, status |-> status, owner |-> owner, complete |-> complete, readable |-> readable]

(* Two rows with one key; rows that can be refused for each reason.          *)
MCFile ==
  { <<Is(k1, "default", Blank, TRUE, TRUE), Is(k1, "other", u1, FALSE, TRUE)>>,
    <<Is(Blank, "unknown", Blank, TRUE, TRUE), Is(k1, "default", u1, TRUE, TRUE)>>,
    <<Is(k1, "default", Blank, TRUE, FALSE)>> }

MCConfigs ==
  { [statuses |-> {"default"}, users |-> {u1, u2}, strict |-> FALSE],
    [statuses |-> {"default", "other"}, users |-> {u2}, strict |-> TRUE] }

As(trigger, scope, life, R) == [trigger |-> trigger, scope |-> scope, life |-> life, resolvers |-> R]
MCSettings ==
  { As("field_edited", a, "active", {"share_creator", "feature_permission_holders"}),
    As("lead_reassigned", NoOne, "active", {"assignment_holder", "previous_assignment_holder"}),
    As("shared_lead_modified_by_non_owner", NoOne, "active",
       {"assignment_holder_manager", "active_shared_users_except_actor"}),
    As("lead_reassigned", NoOne, "inactive", {"assignment_holder"}) }

MCManager == (u1 :> u2) @@ (u2 :> NoOne)
MCShares == {{[user |-> u1, by |-> u2, expired |-> FALSE]}}

StatusesOf(j) == IF j = "a" THEN {"s"} ELSE {}
UsedBy(j) == IF j = "a" THEN {"field"} ELSE {}

MCInit ==
  /\ part \in {"import", "notifications", "mapping", "asking", "lockout", "password", "documents", "resources"}
  /\ Init
  /\ NoteInit /\ holder = u1
  /\ WizardInit
  /\ AcctInit /\ StoredInit

Lockout == Len(writes') <= 1 /\ Len(tokens') = 1 /\ \A c \in Client : task'[c].op \notin {"change", "inviting"}
Passwords == now' = 0 /\ failed' = <<>>
(* Resources two at a time. *)
Resources ==
  /\ documents' = <<>> /\ \A w \in Worker : doing'[w].at # "attach"
  /\ \E w \in Worker : doing'[w] = Rest

(* Every mapping of one file; and few mappings of two.                       *)
Mapping ==
  Len(sent') <= 2 /\ \A i \in DOMAIN sent' : sent'[i].at # "gone" => sent'[i].sheet = f1
Asking ==
  /\ touches' <= 4 /\ draft'.journey # "a" /\ "field" \notin Mapped(draft'.columns)
  /\ sheet' # Unset => draft'.columns["i"] = Skip

MCNext ==
  /\ UNCHANGED part
  /\ \/ part = "import" /\ Next /\ UNCHANGED <<noteVars, wizardVars, acct, stored>>
     \/ part = "notifications" /\ NoteNext /\ UNCHANGED <<vars, wizardVars, acct, stored>>
     \/ part = "mapping" /\ WizardNext /\ Mapping /\ UNCHANGED <<vars, noteVars, acct, stored>>
     \/ part = "asking" /\ WizardNext /\ Asking /\ UNCHANGED <<vars, noteVars, acct, stored>>
     \/ part = "lockout" /\ AcctNext /\ Lockout /\ UNCHANGED <<vars, noteVars, wizardVars, stored>>
     \/ part = "password" /\ AcctNext /\ Passwords /\ UNCHANGED <<vars, noteVars, wizardVars, stored>>
     \/ /\ part = "documents" /\ UNCHANGED resource /\ StoredNext
        /\ UNCHANGED <<vars, noteVars, wizardVars, acct>>
     \/ part = "resources" /\ StoredNext /\ Resources /\ UNCHANGED <<vars, noteVars, wizardVars, acct>>

MCSpec == MCInit /\ [][MCNext]_<<part, vars, noteVars, wizardVars, acct, stored>>

MCSymmetry == Permutations({x1, x2}) \cup Permutations({n1, n2}) \cup Permutations({c1, c2, c3})
=============================================================================
