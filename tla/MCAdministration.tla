-------------------------- MODULE MCAdministration --------------------------
(* Bounded instances of Administration and FieldVisibility, and of RoleEditor, *)
(* the pages over them, for TLC.  They share no state: in each behaviour one of *)
(* them moves.                                                                *)
EXTENDS Administration, RoleEditor, TLC

CONSTANTS u1, u2, u3, chief, clerk, d1, d2, x1, x2, View, none, some, own, all

VARIABLES part, level, version, edit, edits

visibilityVars == <<level, version, edit, edits>>

V == INSTANCE FieldVisibility WITH
       Role <- 1 .. 2, Field <- 1 .. 2, Level <- {View}, Editor <- Session,
       MaxEdit <- MaxRequest, NoField <- None, NoRole <- None

Actions == <<<<"leads", "view">>, <<"leads", "create">>, <<"teams", "view">>>>
Alphabetically == <<<<"leads", "create">>, <<"leads", "view">>, <<"teams", "view">>>>
Ranged == {<<"leads", "view">>}

ASSUME V!VisibilityAssumption

BothInD1 == [t \in Team |-> d1]

Staff(r, b) == [life |-> "active", role |-> r, department |-> d1, manager |-> b]
Unhired == [life |-> "none", role |-> NoRole, department |-> NoDepartment, manager |-> NoUser]
Unmade == [life |-> "none", members |-> {}, leaders |-> {}]
Led(M, L) == [life |-> "active", members |-> M, leaders |-> L]

Empty == [person |-> [u \in User |-> Unhired], role |-> [r \in Role |-> "none"],
          manages |-> {}, team |-> [t \in Team |-> Unmade]]

(* Before the bootstrap; two administrators in two teams that overlap; one  *)
(* administrator, a role that is nearly empty and a team yet to be made.    *)
MCOrganizations ==
  { Empty,
    [person |-> (u1 :> Staff(chief, NoUser)) @@ (u2 :> Staff(chief, NoUser))
                @@ (u3 :> Staff(clerk, u2)),
     role |-> [r \in Role |-> "active"], manages |-> {chief},
     team |-> [t \in Team |-> Led({u1, u2}, {u1, u2})]],
    [person |-> (u1 :> Staff(chief, NoUser)) @@ (u2 :> Staff(clerk, u1)) @@ (u3 :> Unhired),
     role |-> [r \in Role |-> "active"], manages |-> {chief},
     team |-> (1 :> Led({u1, u2}, {u2})) @@ (2 :> Unmade)] }

Blank == [r \in 1 .. 2 |-> [f \in 1 .. 2 |-> None]]

MCInit ==
  /\ part \in {"organization", "visibility", "field page", "role page"}
  /\ Init /\ V!VInit /\ EditorInit /\ RoleInit
  /\ part = "organization" \/ person = Empty.person
  /\ part = "visibility" \/ level = Blank
  /\ stored = <<some>> /\ (part # "field page" => page = "fields" /\ may = "edit")
  /\ kept.journeys = {} /\ kept.visibility = {}
  /\ Len(kept.permissions) = IF part = "role page" THEN 1 ELSE 0
  /\ \A i \in DOMAIN kept.permissions : kept.permissions[i] = Row(<<"leads", "view">>, all)

MCNext ==
  /\ UNCHANGED part
  /\ \/ part = "organization" /\ Next /\ UNCHANGED <<visibilityVars, editorVars, roleVars>>
     \/ part = "visibility" /\ V!VNext /\ UNCHANGED <<vars, editorVars, roleVars>>
     \/ part = "field page" /\ EditorNext /\ UNCHANGED <<vars, visibilityVars, roleVars>>
     \/ part = "role page" /\ RoleNext /\ UNCHANGED <<vars, visibilityVars, editorVars>>

MCSpec == MCInit /\ [][MCNext]_<<part, vars, visibilityVars, editorVars, roleVars>>

-----------------------------------------------------------------------------
(* "two concurrent field-side replaces touching an overlapping role set      *)
(* queue instead of deadlocking", and no role ever sees more or less of a   *)
(* field under the version it had.                                          *)
FieldSidesQueue == V!FieldSidesQueue
=============================================================================
