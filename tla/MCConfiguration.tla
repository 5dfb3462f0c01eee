--------------------------- MODULE MCConfiguration ---------------------------
(* Bounded instances of ConfigurationPurge, LeadFields and Board for TLC.    *)
(* They share no state: in each behaviour one of them moves.  An entity that *)
(* is no part of an instance has been purged before it starts.               *)
EXTENDS ConfigurationPurge, LeadFields, Board, TLC

CONSTANTS j, t, fd, sv, c, n, x1, x2, fa, fb, fc, A, B, C, y1, y2, m1, m2

VARIABLE part

All == {j, t, fd, sv, c, n}
MCKindOf == (j :> "journey") @@ (t :> "status") @@ (fd :> "field") @@ (sv :> "service")
            @@ (c :> "role") @@ (n :> "notification_rule")
MCHome == [e \in All |-> IF e = t THEN j ELSE NoEntity]

In(rel, R) == [rel |-> rel, refs |-> R]
MCGrants == {In("role_journey_access", {j, c})}
MCRow ==
  MCGrants \cup
  {In("process_instances", {j, t}), In("campaigns", {j, t}), In("leads", {fd}),
   In("field_journey_settings", {fd, j}), In("import_jobs", {j, fd}),
   In("field_visibility", {fd, c}), In("formulas", {fd}),
   In("journey_services", {j, sv}), In("lead_services", {sv}),
   In("users", {c}), In("notifications", {n}), In("notification_rule_recipients", {n})}

(* What exists at first, which of it is inactive, and the rows there are.   *)
World(E, I, rels) ==
  [life |-> [e \in All |-> IF e \notin E THEN "gone" ELSE IF e \in I THEN "inactive" ELSE "active"],
   rows |-> {r \in MCRow : r.rel \in rels /\ r.refs \subseteq E}]

Nowhere == World({}, {}, {})
PurgeWorlds ==
  { World({j, t}, {t}, {}), World({j, t}, {}, {"process_instances"}),
    World({j, fd}, {}, {"field_journey_settings"}), World({fd, c}, {c}, {"field_visibility", "formulas"}),
    World({j, sv, c}, {sv, j}, {"journey_services", "role_journey_access"}),
    World({sv, c}, {}, {"lead_services", "users"}), World({n}, {n}, {"notification_rule_recipients"}),
    [World({c}, {}, {}) EXCEPT !.life[j] = "none"] }

Is(mode, o) == [life |-> "active", mode |-> mode, formula |-> [of |-> NoEntity, kind |-> "none"], order |-> o]
Sum(g, kind, o) == [life |-> "active", mode |-> "calculated", formula |-> [of |-> g, kind |-> kind], order |-> o]
Three(p, q, r) == (fa :> p) @@ (fb :> q) @@ (fc :> r)
Blank == Three(Missing, Missing, Missing)
Unmapped == Three("none", "none", "none")

(* A formula and its operand used by two journeys; a locked and a required  *)
(* field; two manual fields and one to be created.                          *)
MCWorlds ==
  { [field |-> Three(Is("manual", 0), Sum(fa, "arithmetic", 1), Is("system", 2)),
     setting |-> <<Three("required", "required", "required"), Three("optional", "none", "none")>>,
     place |-> {2}, lead |-> Blank],
    [field |-> Three(Is("locked", 0), Sum(fc, "template", 1), Is("manual", 2)),
     setting |-> <<Three("optional", "optional", "optional"), Unmapped>>,
     place |-> {1}, lead |-> Blank],
    [field |-> Three(Is("manual", 0), Is("manual", 1), [Is("manual", 0) EXCEPT !.life = "none"]),
     setting |-> <<Three("optional", "none", "none"), Unmapped>>,
     place |-> {}, lead |-> Blank] }

MCInit ==
  /\ part \in {"purge", "fields", "board"}
  /\ \E w \in IF part = "purge" THEN PurgeWorlds ELSE {Nowhere} : life = w.life /\ rows = w.rows
  /\ Init /\ FieldsInit
  /\ part # "fields" => lead = Blank /\ place = {}
  /\ BoardInit /\ \E s \in Column : Len(home[s]) = 2

MCNext ==
  /\ UNCHANGED part
  /\ \/ part = "purge" /\ Next /\ UNCHANGED <<fieldVars, boardVars>>
     \/ part = "fields" /\ FieldsNext /\ UNCHANGED <<vars, boardVars>>
     \/ part = "board" /\ BoardNext /\ UNCHANGED <<vars, fieldVars>>

MCSpec == MCInit /\ [][MCNext]_<<vars, fieldVars, boardVars, part>>

MCSymmetry == Permutations({y1, y2}) \cup Permutations({A, B, C}) \cup Permutations({m1, m2})
=============================================================================
