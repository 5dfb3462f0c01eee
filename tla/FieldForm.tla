----------------------------- MODULE FieldForm ------------------------------
(***************************************************************************)
(* The definition of a Field: the form of pages/admin/FieldsPage.tsx, that *)
(* only lets a draft be saved when it finds nothing wrong with it, and the *)
(* checks the server makes of what is sent (createField, updateField and   *)
(* withModeConfig of configuration/service.ts, calculation.ts).  The form  *)
(* works from a list of the Fields that was read some time ago.            *)
(*                                                                         *)
(* A formula is the fields it refers to and whether it can be sent as it   *)
(* stands; options are "distinct" or have "twins"; a name, a section and a *)
(* system key that is not blank are left out.  Who is granted the Field is *)
(* RoleEditor's.                                                           *)
(***************************************************************************)
EXTENDS FiniteSets, Naturals

CONSTANTS FieldId,
          Starts,    \* what the server may hold at first
          MaxEdits,  \* a bound on the edits made in the forms of a behaviour
          MaxWrites, \* a bound on the saves, and on the writes of others
          None

VARIABLES fields,  \* server: each field, or None when it was not created
          list,    \* client: the fields as last read
          form,    \* the open draft
          trusted, \* ghost: the form was opened from the fields as they still are
          asked,   \* the save in flight
          edits, writes

formVars == <<fields, list, form, trusted, asked, edits, writes>>

Type == {"number", "text", "select", "date"}
EditMode == {"manual", "calculated", "system"}
SOURCE_SUGGESTION == [m \in EditMode |-> m]

Calculation == [kind : {"arithmetic", "template"}, refs : SUBSET FieldId, whole : BOOLEAN]
emptyCalculation == [kind |-> "arithmetic", refs |-> {}, whole |-> FALSE]
emptyTemplate == [kind |-> "template", refs |-> {}, whole |-> FALSE]

Implied(type) == CASE type = "number" -> "arithmetic" [] type = "text" -> "template" [] OTHER -> None

Row == [active : BOOLEAN, type : Type, mode : EditMode, source : EditMode,
        options : {"none", "distinct"}, calc : Calculation \cup {None}]

-----------------------------------------------------------------------------
(* What the server refuses a body for, given the fields there are.         *)
Refers(b) == IF b.calc = None THEN {} ELSE b.calc.refs
Problems(id, b, known) ==
  {p \in {"options", "kind", "itself", "missing", "chain", "operand"} :
     CASE p = "options" -> b.type = "select" /\ b.options # "distinct"
       [] p = "kind"    -> b.mode = "calculated" /\ b.calc.kind # Implied(b.type)
       [] p = "itself"  -> id \in Refers(b)
       [] p = "missing" -> \E r \in Refers(b) : known[r] = None \/ ~known[r].active
       [] p = "chain"   -> \E r \in Refers(b) : known[r] # None /\ known[r].mode = "calculated"
       [] p = "operand" -> b.calc # None /\ b.calc.kind = "arithmetic"
                             /\ \E r \in Refers(b) : known[r] # None /\ known[r].type # "number"}

(* Mutant: the rule that is stored survives what replaces it. *)
Merged(old, b) ==
  [active |-> IF old = None THEN TRUE ELSE old.active, type |-> b.type, mode |-> b.mode,
   source |-> b.source, options |-> b.options,
   calc |-> IF b.calc = None /\ old # None THEN old.calc ELSE b.calc]

Written(old, b) ==
  [active |-> IF old = None THEN TRUE ELSE old.active, type |-> b.type, mode |-> b.mode,
   source |-> b.source, options |-> b.options, calc |-> b.calc]

-----------------------------------------------------------------------------
(* The form.                                                               *)

emptyField == [id |-> None, type |-> "text", mode |-> "manual", source |-> "manual",
               sourceSet |-> FALSE, options |-> "none", calc |-> emptyCalculation,
               typed |-> FALSE, touched |-> FALSE]

(* typed and touched are ghosts: the type of calculation was settled by a  *)
(* choice of type or by what is stored; something was edited.              *)
fromField(id, row) ==
  [id |-> id, type |-> row.type, mode |-> row.mode, source |-> row.source, sourceSet |-> TRUE,
   options |-> row.options, calc |-> IF row.calc = None THEN emptyCalculation ELSE row.calc,
   typed |-> row.calc # None, touched |-> FALSE]

fieldBody(d) ==
  [type |-> d.type, mode |-> d.mode, source |-> d.source,
   options |-> IF d.type = "select" THEN d.options ELSE "none",
   calc |-> IF d.mode = "calculated" THEN d.calc ELSE None]

eligibleCalculationFields ==
  {f \in FieldId : f # form.id /\ list[f] # None /\ list[f].active /\ list[f].mode # "calculated"}

Offered == IF form.calc.kind = "template" THEN eligibleCalculationFields
           ELSE {f \in eligibleCalculationFields : list[f].type = "number"}

saveDisabled(d) ==
  \/ d.type = "select" /\ d.options = "none"
  \/ d.mode = "calculated" /\ (Implied(d.type) = None \/ ~d.calc.whole)

FormInit ==
  /\ fields \in Starts /\ list = fields
  /\ form = None /\ trusted = FALSE /\ asked = None /\ edits = 0 /\ writes = 0

(* Create Field and Edit, from a list that is there.                       *)
OpenForm(d) ==
  /\ form' = d
  /\ trusted' = (list = fields /\ (d.id # None => Problems(d.id, fieldBody(d), fields) = {}))
  /\ UNCHANGED <<fields, list, asked, edits, writes>>

Create == OpenForm(emptyField)
EditField(f) == list[f] # None /\ OpenForm(fromField(f, list[f]))
CancelForm == form # None /\ form' = None /\ UNCHANGED <<fields, list, trusted, asked, edits, writes>>

Change(d) ==
  /\ form # None /\ d # form
  /\ edits < MaxEdits /\ edits' = edits + 1
  /\ form' = [d EXCEPT !.touched = TRUE]
  /\ UNCHANGED <<fields, list, trusted, asked, writes>>

updateFieldType(t) ==
  LET implied == Implied(t)
  IN  /\ t # form.type
      /\ Change([form EXCEPT !.type = t, !.typed = @ \/ implied # None,
           !.calc = IF implied \in {None, @.kind} THEN @
                    ELSE IF implied = "arithmetic" THEN emptyCalculation ELSE emptyTemplate])

updateEditMode(m) ==
  /\ m # form.mode
  /\ Change([form EXCEPT !.mode = m, !.source = IF form.sourceSet THEN @ ELSE SOURCE_SUGGESTION[m]])

updateSource(s) == Change([form EXCEPT !.source = s, !.sourceSet = TRUE])
updateOptions(o) == form.type = "select" /\ Change([form EXCEPT !.options = o])

(* The operands or the template: a field is picked among those offered.    *)
EditCalculation(c) ==
  /\ form.mode = "calculated" /\ Implied(form.type) # None
  /\ c.kind = form.calc.kind /\ c.refs \ form.calc.refs \subseteq Offered
  /\ c.kind = "arithmetic" => Cardinality(c.refs) <= 2 /\ (Cardinality(c.refs) = 2 => c.whole)
  /\ c.kind = "template" => (c.refs # {} => c.whole)
  /\ Change([form EXCEPT !.calc = c])

SaveForm ==
  /\ form # None /\ asked = None /\ ~saveDisabled(form)
  /\ writes < MaxWrites /\ writes' = writes + 1
  /\ asked' = [id |-> form.id, body |-> fieldBody(form), typed |-> form.typed,
               touched |-> form.touched, trusted |-> trusted]
  /\ UNCHANGED <<fields, list, form, trusted, edits>>

ReadList == list # fields /\ list' = fields
              /\ UNCHANGED <<fields, form, trusted, asked, edits, writes>>

-----------------------------------------------------------------------------
(* Whatever is written, no form is one of the fields as they are any more. *)
Stores(f, row) == fields' = [fields EXCEPT ![f] = row] /\ trusted' = FALSE

(* createField or updateField; the answer closes the form.                 *)
Handle(f) ==
  /\ asked # None /\ IF asked.id = None THEN fields[f] = None ELSE f = asked.id
  /\ asked' = None
  /\ IF Problems(asked.id, asked.body, fields) = {}
     THEN Stores(f, Written(fields[f], asked.body)) /\ form' = None
     ELSE UNCHANGED <<fields, trusted, form>>
  /\ UNCHANGED <<list, edits, writes>>

(* Another administrator: any field the server accepts, or a deactivation. *)
Elsewhere(f, b) ==
  /\ writes < MaxWrites /\ writes' = writes + 1
  /\ fields[f] # None /\ Problems(f, b, fields) = {} /\ Written(fields[f], b) # fields[f]
  /\ Stores(f, Written(fields[f], b))
  /\ asked' = IF asked = None THEN None ELSE [asked EXCEPT !.trusted = FALSE]
  /\ UNCHANGED <<list, form, edits>>

Deactivate(f) ==
  /\ writes < MaxWrites /\ writes' = writes + 1
  /\ fields[f] # None /\ fields[f].active
  /\ Stores(f, [fields[f] EXCEPT !.active = FALSE])
  /\ asked' = IF asked = None THEN None ELSE [asked EXCEPT !.trusted = FALSE]
  /\ UNCHANGED <<list, form, edits>>

Bodies == {fieldBody([emptyField EXCEPT !.type = t, !.mode = m, !.source = m, !.calc = c]) :
             t \in {"number", "text"}, m \in {"manual", "calculated"},
             c \in {[kind |-> k, refs |-> {r}, whole |-> TRUE] :
                      k \in {"arithmetic", "template"}, r \in FieldId}}

FormNext ==
  \/ Create \/ CancelForm \/ SaveForm \/ ReadList
  \/ \E f \in FieldId : \/ EditField(f) \/ Handle(f) \/ Deactivate(f)
                        \/ \E b \in Bodies : Elsewhere(f, b)
  \/ /\ form # None
     /\ \/ \E t \in Type : updateFieldType(t)
        \/ \E m \in EditMode : updateEditMode(m) \/ updateSource(m)
        \/ \E o \in {"none", "distinct", "twins"} : updateOptions(o)
        \/ \E c \in Calculation : EditCalculation(c)

FormSpec == FormInit /\ [][FormNext]_formVars

-----------------------------------------------------------------------------
(* Every variable has its type, and a field has a formula exactly when it  *)
(* is calculated.                                                          *)
FormTypeOK ==
  /\ \A known \in {fields, list} : known \in [FieldId -> Row \cup {None}]
  /\ \A f \in FieldId : fields[f] # None => (fields[f].mode = "calculated" <=> fields[f].calc # None)
  /\ form # None => form.calc \in Calculation /\ form.type \in Type /\ form.mode \in EditMode

(* "The picker never offers something Save would reject anyway": whatever  *)
(* was chosen in whatever order, a draft the form lets be saved is refused *)
(* by the server for two reasons only, when nothing was written since it   *)
(* was opened and what it was opened on was itself still right: two        *)
(* options that are the same, and the kind of calculation when the type    *)
(* was left as it was found.                                               *)
ToldBeforeSaving ==
  asked # None /\ asked.trusted =>
    Problems(asked.id, asked.body, fields) \subseteq
      {"options"} \cup (IF asked.typed THEN {} ELSE {"kind"})

(* A field that is opened and saved without an edit is what it was.        *)
KeepsStep ==
  \A f \in FieldId : Handle(f) /\ asked.id = f /\ ~asked.touched /\ asked.trusted
    => fields'[f] = fields[f]
UntouchedSaveKeeps == [][KeepsStep]_formVars

(* The comment on the calculation editor: its mode follows the type of the *)
(* field, matching what the server accepts.                                *)
ModeFollowsType ==
  form # None /\ form.mode = "calculated" /\ Implied(form.type) # None
    => form.calc.kind = Implied(form.type)
=============================================================================
