-------------------------- MODULE FieldVisibility --------------------------
(***************************************************************************)
(* The field_visibility rows, which two requests replace from opposite      *)
(* sides: replaceFieldVisibility all the fields of one role,                *)
(* replaceRoleVisibilityForField all the roles of one field.  A role's      *)
(* version tells whoever holds a decision about it that it is out of date.  *)
(*                                                                         *)
(* The locks are those of PostgreSQL: FOR UPDATE on a role or a field, and  *)
(* the FOR KEY SHARE an inserted row's foreign key takes on its field,      *)
(* which FOR UPDATE excludes.  Rows written are seen at the commit.         *)
(***************************************************************************)
EXTENDS Integers, FiniteSets, FiniteSetsExt

CONSTANTS
  Role,      \* role ids; replaceRoleVisibilityForField locks them in this order
  Field,     \* field ids; the rows of one role are inserted in this order
  Level,     \* VIEW, EDIT
  Editor,    \* request handlers that run at the same time
  MaxEdit,   \* bound: requests ever begun
  None, NoField, NoRole

VisibilityAssumption ==
  /\ Role \subseteq Nat /\ Field \subseteq Nat
  /\ None \notin Level /\ NoField \notin Field /\ NoRole \notin Role
  /\ MaxEdit \in Nat

VARIABLES
  level,    \* field_visibility: what each role has of each field
  version,  \* roles.version
  edit,     \* requests
  edits     \* how many there have been

visibility == <<level, version>>
vvars == <<level, version, edit, edits>>

Access == Level \cup {None}
Absent == [at |-> "idle", role |-> NoRole, field |-> NoField, access |-> <<>>,
           roles |-> {}, fields |-> {}, affected |-> {}]

Is(x, place) == edit[x].at = place
RolesHeld(x) == edit[x].roles    \* rows held FOR UPDATE
FieldsHeld(x) == edit[x].fields  \* rows held FOR KEY SHARE
RoleFree(x, r) == \A y \in Editor \ {x} : r \notin RolesHeld(y)

(* FOR KEY SHARE waits for FOR UPDATE ...                                   *)
FieldFree(x, f) == \A y \in Editor \ {x} : edit[y].field # f
(* ... and FOR UPDATE for either.                                           *)
FieldUnused(x, f) == FieldFree(x, f) /\ \A y \in Editor \ {x} : f \notin FieldsHeld(y)

Opens(x, request) ==
  /\ Is(x, "idle") /\ edits < MaxEdit
  /\ edit' = [edit EXCEPT ![x] = request]
  /\ edits' = edits + 1
  /\ UNCHANGED visibility
Closes(x) == edit' = [edit EXCEPT ![x] = Absent] /\ UNCHANGED edits

-----------------------------------------------------------------------------
(* The role's side: its row is locked, the old rows go, the new ones come   *)
(* one by one, each waiting for its field.                                  *)
ReplaceFieldVisibility(x, r, row) ==
  /\ RoleFree(x, r)
  /\ Opens(x, [Absent EXCEPT !.at = "insert", !.role = r, !.access = row, !.roles = {r}])

ToInsert(x) == {f \in Field : edit[x].access[f] # None} \ FieldsHeld(x)

InsertRow(x) ==
  LET f == Min(ToInsert(x))
  IN  /\ Is(x, "insert") /\ ToInsert(x) # {}
      /\ FieldFree(x, f)
      /\ edit' = [edit EXCEPT ![x].fields = @ \cup {f}]
      /\ UNCHANGED <<visibility, edits>>

CommitRole(x) ==
  LET r == edit[x].role
  IN  /\ Is(x, "insert") /\ ToInsert(x) = {}
      /\ level' = [level EXCEPT ![r] = edit[x].access]
      /\ version' = [version EXCEPT ![r] = @ + 1]
      /\ Closes(x)

(* replacePermissions, replaceJourneyAccess and updateRole: the role's row  *)
(* is held and its version goes up.                                         *)
OtherEdit(x, r) ==
  /\ Is(x, "idle") /\ edits < MaxEdit
  /\ RoleFree(x, r)
  /\ version' = [version EXCEPT ![r] = @ + 1]
  /\ edits' = edits + 1
  /\ UNCHANGED <<level, edit>>

(* The field's side: its row is locked ...                                  *)
ReplaceRoleVisibilityForField(x, f, column) ==
  /\ FieldUnused(x, f)
  /\ Opens(x, [Absent EXCEPT !.at = "affected", !.field = f, !.access = column])

Granted(f) == {r \in Role : level[r][f] # None}
Receiving(x) == {r \in Role : edit[x].access[r] # None}

(* Mutant: only the roles that are given something.                         *)
Gaining(x) == Receiving(x)

Affected(x) == Receiving(x) \cup Granted(edit[x].field)

ReadAffected(x) ==
  /\ Is(x, "affected")
  /\ edit' = [edit EXCEPT ![x].at = "lock", ![x].affected = Affected(x)]
  /\ UNCHANGED <<visibility, edits>>

(* ... then those that have or are to have the field, in the order of their *)
(* ids ...                                                                  *)
NextRole(x) == {Min(edit[x].affected \ RolesHeld(x))}

LockRole(x) ==
  /\ Is(x, "lock") /\ edit[x].affected # RolesHeld(x)
  /\ \E r \in NextRole(x) :
       /\ RoleFree(x, r)
       /\ edit' = [edit EXCEPT ![x].roles = @ \cup {r}]
  /\ UNCHANGED <<visibility, edits>>

(* ... and every row of the field goes, whoever has it by now.              *)
CommitField(x) ==
  LET f == edit[x].field
  IN  /\ Is(x, "lock") /\ edit[x].affected = RolesHeld(x)
      /\ level' = [r \in Role |-> [level[r] EXCEPT ![f] = edit[x].access[r]]]
      /\ version' = [r \in Role |-> IF r \in edit[x].affected THEN version[r] + 1
                                                             ELSE version[r]]
      /\ Closes(x)

(* The server ends one of two transactions that wait for each other.        *)
WaitsForRole(x, y) ==
  Is(x, "lock") /\ edit[x].affected # RolesHeld(x)
  /\ \A r \in NextRole(x) : r \in RolesHeld(y)
WaitsForField(x, y) ==
  Is(x, "insert") /\ ToInsert(x) # {} /\ edit[y].field = Min(ToInsert(x))
Waits(x, y) == WaitsForRole(x, y) \/ WaitsForField(x, y)

BreakDeadlock(x) ==
  /\ \E y \in Editor \ {x} : Waits(x, y) /\ Waits(y, x)
  /\ Closes(x)
  /\ UNCHANGED visibility

-----------------------------------------------------------------------------
VInit ==
  /\ level \in [Role -> [Field -> Access]]
  /\ version = [r \in Role |-> 1]
  /\ edit = [x \in Editor |-> Absent]
  /\ edits = 0

Proceed(x) ==
  \/ InsertRow(x) \/ CommitRole(x)
  \/ ReadAffected(x) \/ LockRole(x) \/ CommitField(x) \/ BreakDeadlock(x)

VNext ==
  \E x \in Editor :
    \/ Proceed(x)
    \/ \E r \in Role : OtherEdit(x, r)
                       \/ \E row \in [Field -> Access] : ReplaceFieldVisibility(x, r, row)
    \/ \E f \in Field, column \in [Role -> Access] : ReplaceRoleVisibilityForField(x, f, column)

VSpec == VInit /\ [][VNext]_vvars

-----------------------------------------------------------------------------
(* Properties.                                                              *)

VTypeOK ==
  /\ level \in [Role -> [Field -> Access]]
  /\ version \in [Role -> Nat]
  /\ \A x \in Editor : /\ RolesHeld(x) \subseteq Role /\ FieldsHeld(x) \subseteq Field
                       /\ \A y \in Editor \ {x} : RolesHeld(x) \cap RolesHeld(y) = {}
  /\ edits \in 0 .. MaxEdit

(* "every affected role's version is bumped -- roles losing access          *)
(* included, or their cached decisions would look unchanged": no role ever  *)
(* sees more or less of a field under the version it had.                   *)
EveryChangeIsTold ==
  [][\A r \in Role : level'[r] # level[r] => version'[r] > version[r]]_vvars

(* "two concurrent field-side replaces touching an overlapping role set     *)
(* queue instead of deadlocking": of two field sides, one waits at most.    *)
SidesWaitOneWay ==
  \A x, y \in Editor : ~(WaitsForRole(x, y) /\ WaitsForRole(y, x))

FieldSidesQueue == [](VTypeOK /\ SidesWaitOneWay) /\ EveryChangeIsTold
=============================================================================
