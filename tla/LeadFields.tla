----------------------------- MODULE LeadFields -----------------------------
(***************************************************************************)
(* The values of a lead's fields and the field configuration they obey     *)
(* (leads/service.ts, leads/validation.ts, configuration/service.ts and    *)
(* packages/validation/src/calculation.ts).                                *)
(*                                                                         *)
(* A write of a lead reads the stored values, then the field settings of   *)
(* its journey, works out all of the new values and replaces the whole     *)
(* JSON column; a write of a field reads the other fields and replaces one *)
(* row.  Each is a READ COMMITTED transaction of two or three statements,  *)
(* and nothing locks what was read.                                        *)
(***************************************************************************)
EXTENDS Integers, FiniteSets

CONSTANTS
  Field, Journey,
  Value,        \* what a client may send
  Writer,      \* request handlers that run at the same time
  Worlds,       \* configurations to start from
  MaxRequest,   \* bound: requests ever begun
  Missing, NoField, NoJourney

VARIABLES
  field,     \* fields
  setting,   \* field_journey_settings
  place,     \* journeys the lead has an active instance in
  lead,      \* leads.field_values
  write,   \* requests
  begun,     \* how many there have been
  raced      \* history: fields whose formula was checked against a list since changed

fieldVars == <<field, setting, place, lead, write, begun, raced>>

Mode == {"manual", "locked", "calculated", "system"}

(* A formula is an operand and a kind: an arithmetic one has no value when  *)
(* its operand has none, a template always has one.                        *)
Formula == [of : Field, kind : {"arithmetic", "template"}]
NoFormula == [of |-> NoField, kind |-> "none"]
Definition == [mode : Mode \ {"calculated"}, formula : {NoFormula}]
              \cup [mode : {"calculated"}, formula : Formula]
Requirement == {"none", "optional", "required", "hidden"}

FieldType == [life : {"none", "active", "inactive"}, mode : Mode,
              formula : Formula \cup {NoFormula}, order : Nat]

Given == UNION {[F -> Value] : F \in SUBSET Field}
Values == [Field -> Int \cup {Missing}]

Unwritten ==
  [at |-> "idle", field |-> NoField, as |-> [mode |-> "manual", formula |-> NoFormula],
   order |-> 0, journey |-> NoJourney, given |-> [g \in {} |-> 0], read |-> [f \in Field |-> Missing],
   old |-> NoJourney, stale |-> FALSE,
   checked |-> FALSE, values |-> [f \in Field |-> Missing], changed |-> {}]

WriteType ==
  [at : {"idle", "create", "update", "deactivate", "lead", "edit", "move"},
   field : Field \cup {NoField}, as : Definition, order : Nat,
   journey : Journey \cup {NoJourney}, given : Given, read : Values,
   old : Journey \cup {NoJourney}, stale : BOOLEAN,
   checked : BOOLEAN, values : Values, changed : SUBSET Field]

FieldsTypeOK ==
  /\ field \in [Field -> FieldType]
  /\ \A f \in Field : field[f].mode = "calculated" <=> field[f].formula # NoFormula
  /\ setting \in [Journey -> [Field -> Requirement]]
  /\ place \subseteq Journey /\ lead \in Values
  /\ write \in [Writer -> WriteType]
  /\ begun \in 0 .. MaxRequest /\ raced \subseteq Field

(* Configurations to start from are typed, and no formulas of theirs refer  *)
(* only to each other.                                                      *)
ASSUME LeadFieldsAssumption ==
  /\ IsFiniteSet(Field) /\ Value \subseteq Int /\ Missing \notin Int
  /\ NoField \notin Field /\ NoJourney \notin Journey /\ MaxRequest \in Nat
  /\ \A w \in Worlds :
       LET formulas == {f \in Field : w.field[f].life = "active" /\ w.field[f].mode = "calculated"}
       IN /\ w.field \in [Field -> FieldType]
          /\ \A f \in Field : w.field[f].mode = "calculated" <=> w.field[f].formula # NoFormula
          /\ w.setting \in [Journey -> [Field -> Requirement]]
          /\ w.place \subseteq Journey /\ w.lead \in Values
          /\ \A S \in SUBSET formulas : (\A f \in S : w.field[f].formula.of \in S) => S = {}

FieldsInit ==
  /\ \E w \in Worlds : field = w.field /\ setting = w.setting /\ place = w.place /\ lead = w.lead
  /\ write = [s \in Writer |-> Unwritten] /\ begun = 0 /\ raced = {}

Active == {f \in Field : field[f].life = "active"}
Calculated == {f \in Active : field[f].mode = "calculated"}
MappedIn(j) == {f \in Active : setting[j][f] # "none"}

Begin(s, r) ==
  /\ write[s].at = "idle" /\ begun < MaxRequest
  /\ write' = [write EXCEPT ![s] = r] /\ begun' = begun + 1

EndWrite(s) == write' = [write EXCEPT ![s] = Unwritten]

----------------------------------------------------------------------------
(* Fields.                                                                  *)

(* parseCalculationConfig: an operand is an active field other than the     *)
(* field itself, and is not calculated.                                    *)
References(f, d) ==
  d.mode = "calculated" => d.formula.of \in Active \ (Calculated \cup {f})

(* createField counts the active fields when the request gives no order.    *)
CreateField(s, f, d) ==
  /\ field[f].life = "none" /\ References(f, d)
  /\ Begin(s, [Unwritten EXCEPT !.at = "create", !.field = f, !.as = d, !.order = Cardinality(Active)])
  /\ UNCHANGED <<field, setting, place, lead, raced>>

UpdateField(s, f, d) ==
  /\ field[f].life # "none" /\ References(f, d)
  /\ Begin(s, [Unwritten EXCEPT !.at = "update", !.field = f, !.as = d])
  /\ UNCHANGED <<field, setting, place, lead, raced>>

(* deactivateField counts settings and visibility rows, not formulas.       *)
DeactivateField(s, f) ==
  /\ field[f].life # "none" /\ \A j \in Journey : setting[j][f] = "none"
  /\ Begin(s, [Unwritten EXCEPT !.at = "deactivate", !.field = f])
  /\ UNCHANGED <<field, setting, place, lead, raced>>

(* What was listed for the check is stale when another field has changed;   *)
(* what a lead was validated by is behind by the fields changed since.      *)
Behind(q, f) == [q EXCEPT !.changed = q.changed \cup {f}]

Restale(f) ==
  [s \in Writer |->
     IF write[s].at \in {"create", "update"} /\ write[s].as.formula.of = f
       THEN [write[s] EXCEPT !.stale = TRUE]
     ELSE IF write[s].checked THEN Behind(write[s], f) ELSE write[s]]

WriteField(s) ==
  LET q == write[s]  f == q.field
  IN /\ q.at \in {"create", "update", "deactivate"}
     /\ field' = [field EXCEPT ![f] =
          CASE q.at = "create" -> [life |-> "active", mode |-> q.as.mode, formula |-> q.as.formula,
                                   order |-> q.order]
            [] q.at = "update" -> [@ EXCEPT !.mode = q.as.mode, !.formula = q.as.formula]
            [] q.at = "deactivate" -> [@ EXCEPT !.life = "inactive"]]
     /\ raced' = IF q.stale THEN raced \cup {f} ELSE raced
     /\ write' = [Restale(f) EXCEPT ![s] = Unwritten]
     /\ UNCHANGED <<setting, place, lead, begun>>

(* reorderFields numbers the fields it is given and no others.              *)
ReorderFields(F, at) ==
  /\ F \subseteq {f \in Field : field[f].life # "none"} /\ begun < MaxRequest
  /\ field' = [f \in Field |-> IF f \in F THEN [field[f] EXCEPT !.order = at[f]] ELSE field[f]]
  /\ begun' = begun + 1
  /\ UNCHANGED <<setting, place, lead, write, raced>>

(* upsertFieldJourneySetting and its deletion, which look at no field.      *)
MapField(j, f, q) ==
  /\ field[f].life # "none" /\ setting[j][f] # q /\ begun < MaxRequest
  /\ setting' = [setting EXCEPT ![j][f] = q] /\ begun' = begun + 1
  /\ write' = [s \in Writer |-> IF write[s].checked /\ write[s].journey = j
                                  THEN Behind(write[s], f) ELSE write[s]]
  /\ UNCHANGED <<field, place, lead, raced>>

----------------------------------------------------------------------------
(* Leads.                                                                   *)

(* computeCalculatedValue: the sum of the operand and one stands for any    *)
(* function of the operand.                                                 *)
Compute(formula, base) ==
  LET x == base[formula.of]
  IN CASE x # Missing -> x + 1
       [] x = Missing /\ formula.kind = "template" -> 0
       [] OTHER -> Missing

(* validateFieldValues, first part: which values a client may send.         *)
Sendable(j, given, read) ==
  \A f \in DOMAIN given :
    /\ f \in MappedIn(j) /\ setting[j][f] # "hidden"
    /\ field[f].mode = "locked" => read[f] \in {Missing, given[f]}

Accepted(given) == {f \in DOMAIN given : field[f].mode \in {"manual", "locked"}}
Base(given, read) == [f \in Field |-> IF f \in Accepted(given) THEN given[f] ELSE read[f]]

(* Second part: every calculated field of the journey, from the base values. *)
MergedBefore(j, given, read) ==
  [f \in Field |-> IF f \in MappedIn(j) \cap Calculated
                      THEN Compute(field[f].formula, read) ELSE Base(given, read)[f]]

Merged(j, given, read) ==
  LET base == Base(given, read)
  IN [f \in Field |-> IF f \in MappedIn(j) \cap Calculated
                        THEN Compute(field[f].formula, base) ELSE base[f]]

(* Third part: what the journey requires, system fields excepted.           *)
Complete(j, values) ==
  \A f \in MappedIn(j) :
    setting[j][f] = "required" /\ field[f].mode # "system" => values[f] # Missing

CreateLead(s, j, given) ==
  /\ j \notin place
  /\ Begin(s, [Unwritten EXCEPT !.at = "lead", !.journey = j, !.given = given, !.read = lead])
  /\ UNCHANGED <<field, setting, place, lead, raced>>

EditLead(s, j, given) ==
  /\ j \in place
  /\ Begin(s, [Unwritten EXCEPT !.at = "edit", !.journey = j, !.given = given, !.read = lead])
  /\ UNCHANGED <<field, setting, place, lead, raced>>

(* moveJourney validates what the lead holds and writes only the instance.  *)
MoveJourney(s, i, j) ==
  /\ i \in place /\ j \notin place
  /\ Begin(s, [Unwritten EXCEPT !.at = "move", !.journey = j, !.old = i, !.read = lead])
  /\ UNCHANGED <<field, setting, place, lead, raced>>

(* listFieldSettings, and validateFieldValues by what it answers.           *)
Valid(q) ==
  Sendable(q.journey, q.given, q.read) /\ Complete(q.journey, Merged(q.journey, q.given, q.read))

Validate(s) ==
  LET q == write[s]
  IN /\ q.at \in {"lead", "edit", "move"} /\ ~q.checked
     /\ \/ /\ Valid(q)
           /\ write' = [write EXCEPT ![s] = [q EXCEPT !.checked = TRUE,
                                                      !.values = Merged(q.journey, q.given, q.read)]]
        \/ ~Valid(q) /\ EndWrite(s)
     /\ UNCHANGED <<field, setting, place, lead, begun, raced>>

(* updateLead replaces the column by what was worked out.  A second         *)
(* instance in the journey is refused by the partial unique index, which    *)
(* undoes it.                                                              *)
Save(s) ==
  LET q == write[s]  fits == q.at = "lead" => q.journey \notin place
  IN /\ q.at \in {"lead", "edit"} /\ q.checked
     /\ lead' = IF fits THEN q.values ELSE lead
     /\ place' = IF fits THEN place \cup {q.journey} ELSE place
     /\ EndWrite(s) /\ UNCHANGED <<field, setting, begun, raced>>

Move(s) ==
  LET q == write[s]
  IN /\ q.at = "move" /\ q.checked
     /\ place' = IF q.journey \notin place THEN (place \ {q.old}) \cup {q.journey} ELSE place
     /\ EndWrite(s) /\ UNCHANGED <<field, setting, lead, begun, raced>>

FieldRequest ==
  \/ \E s \in Writer, f \in Field :
       \/ \E d \in Definition : CreateField(s, f, d) \/ UpdateField(s, f, d)
       \/ DeactivateField(s, f)
  \/ \E F \in SUBSET Field : \E at \in [F -> 0 .. Cardinality(F) - 1] :
       /\ F # {} /\ \A f, g \in F : at[f] = at[g] => f = g
       /\ ReorderFields(F, at)
  \/ \E j \in Journey, f \in Field, q \in Requirement : MapField(j, f, q)

LeadRequest ==
  \E s \in Writer :
    \/ \E j \in Journey, given \in Given : CreateLead(s, j, given) \/ EditLead(s, j, given)
    \/ \E i, j \in Journey : MoveJourney(s, i, j)

FieldsNext ==
  \/ FieldRequest \/ LeadRequest
  \/ \E s \in Writer : WriteField(s) \/ Validate(s) \/ Save(s) \/ Move(s)

FieldsSpec == FieldsInit /\ [][FieldsNext]_fieldVars

----------------------------------------------------------------------------
(* calculation.ts: a calculated field refers to no calculated field.  The   *)
(* code checks the field that gets the formula, not those that refer to it.  *)
NoChains == \A f \in Calculated : field[f].formula.of \notin Calculated

(* What is left of it: following formulas comes to an end, for no formulas  *)
(* refer only to each other, unless two fields were checked against lists    *)
(* that the other's write made stale.                                       *)
FormulasEnd ==
  \A S \in SUBSET Calculated :
    S # {} /\ (\A f \in S : field[f].formula.of \in S) => S \cap raced # {}

(* Whatever else overlapped it, a write of the values leaves every formula  *)
(* of its journey right that has no formula behind it: the column is one     *)
(* piece, so a lost update loses operand and result together.  Only a       *)
(* formula that, or whose operand, was configured anew after the write had   *)
(* read the settings may be out by it.                                      *)
Writes(s) == write[s].at \in {"lead", "edit"} /\ write[s].checked /\ write'[s].at = "idle"

FormulaHolds(f, j, changed, values) ==
  f \notin changed /\ field[f].formula.of \notin changed \cup (MappedIn(j) \cap Calculated) =>
    values[f] = Compute(field[f].formula, values)

FormulasAreRight ==
  [][\A s \in Writer : Writes(s) /\ lead' # lead =>
       \A f \in MappedIn(write[s].journey) \cap Calculated :
         FormulaHolds(f, write[s].journey, write[s].changed, lead')]_fieldVars

(* A locked field that has a value loses it only to a write that had read    *)
(* another one, or none, before it was there, or had read its settings       *)
(* before it was locked or mapped: to write a change of it is rejected       *)
(* outright, from any path (validation.ts).                                 *)
LockedIsKept ==
  [][\A f \in Active : field[f].mode = "locked" /\ lead[f] # Missing /\ lead'[f] # lead[f] =>
       \E s \in Writer : Writes(s) /\ (write[s].read[f] # lead[f] \/ f \in write[s].changed)]_fieldVars

(* All of it together: formulas end, every write leaves those of its journey *)
(* right by the settings it read, and a locked field that has a value keeps  *)
(* it.                                                                      *)
ValuesAreRight == [](FieldsTypeOK /\ FormulasEnd) /\ FormulasAreRight /\ LockedIsKept

(* validation.ts: a formula stays correct no matter which write path changed *)
(* the fields it depends on.  Another journey's write path does not know it. *)
FormulasStayRight ==
  [][\A s \in Writer : Writes(s) /\ lead' # lead =>
       \A f \in Calculated :
         /\ \E j \in place' : f \in MappedIn(j)
         /\ field[f].formula.of \notin Calculated
         /\ lead[f] = Compute(field[f].formula, lead)
         => lead'[f] = Compute(field[f].formula, lead')]_fieldVars
=============================================================================
