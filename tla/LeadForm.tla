------------------------------ MODULE LeadForm ------------------------------
(***************************************************************************)
(* The edit form of a lead: pages/lead-form/LeadFormPage.tsx, schema.ts    *)
(* and DynamicFieldControl.tsx over the react-query cache, and editLead of *)
(* routes/leads.ts and leads/service.ts, which takes what it sends.  The   *)
(* form asks for the values of the fields that it knows by then, follows   *)
(* what it reads, and sends the whole record whatever was edited.          *)
(*                                                                         *)
(* One lead in one journey, one user.  The name, the phone number and the  *)
(* e-mail address are treated as a text field is and left out; so are the  *)
(* formulas, and two transactions on one lead, which LeadFields has.       *)
(***************************************************************************)
EXTENDS Naturals, Sequences

CONSTANTS Catalogue, \* the fields of the organization, in the order of the administrator
          PageSize,  \* how many of them GET /fields answers with
          FieldType, \* "text" or "boolean"
          EditMode,  \* "manual", "locked", "system" or "api-only"
          Visible, Editable, \* what the user's role may see and edit
          Required,
          Status,
          Starts,    \* the leads there may be at first
          MaxEdits, MaxWrites, \* bounds on the edits in the form and on the writes of others
          None

VARIABLES lead,      \* server: the value of every field, and the status
          mapped,    \* server: the fields of the journey
          live,      \* server: its active statuses
          omits,     \* whether a control that is disabled is left out of a submit
          catalogue, \* client: the fields GET /fields answered with, {} when it failed
          journeyFields, \* client: the fields of the journey
          cache,     \* client: the lead as last read
          open, form, asked,
          edits, writes

leadFormVars == <<lead, mapped, live, omits, catalogue, journeyFields, cache, open, form,
                  asked, edits, writes>>

Field == {Catalogue[i] : i \in DOMAIN Catalogue}
Blank == "blank"
Values(f) == IF FieldType[f] = "boolean" THEN {Blank, "no", "yes"} ELSE {Blank, "a", "b"}
FirstPage == {Catalogue[i] : i \in {i \in DOMAIN Catalogue : i <= PageSize}}

-----------------------------------------------------------------------------
(* What the form shows of what was read, and what it makes of itself.      *)

Shown(f, v) == IF FieldType[f] = "boolean" /\ v = Blank THEN "no" ELSE v

defaultFieldValues(read, known) ==
  [f \in Field |-> Shown(f, IF read # None /\ known # None /\ f \in known THEN read.value[f] ELSE Blank)]

Seed(read, known) == [value |-> defaultFieldValues(read, known),
                      status |-> IF read = None THEN None ELSE read.status]

(* The form is filled in anew whenever what it is filled in with changes.  *)
Follow(read, known) ==
  form' = IF Seed(read, known) = Seed(cache, catalogue) THEN form ELSE Seed(read, known)

HumanOnly(asks) == {f \in asks : EditMode[f] # "api-only"}

(* Mutant: every field there is is asked for, as before the journey's were. *)
FieldsOfAll == HumanOnly(Field)

formFields == IF journeyFields = None THEN {} ELSE HumanOnly(journeyFields)
Disabled(f) == \/ EditMode[f] = "system"
               \/ EditMode[f] = "locked" /\ cache.value[f] # Blank
Raw(f) == IF omits /\ Disabled(f) THEN Blank ELSE form.value[f]

(* A blank text is skipped; a checkbox always says something. *)
toFieldValues(asks) == [f \in {f \in asks : Shown(f, Raw(f)) # Blank} |-> Shown(f, Raw(f))]

Touched(f) == form.value[f] # Seed(cache, catalogue).value[f]

LeadFormInit ==
  /\ lead \in Starts
  /\ mapped \in {Field, Field \ {Catalogue[Len(Catalogue)]}} /\ live = Status
  /\ omits \in BOOLEAN
  /\ catalogue = None /\ journeyFields = None /\ cache = None
  /\ open = FALSE /\ form = Seed(None, None) /\ asked = None /\ edits = 0 /\ writes = 0

Server == <<lead, mapped, live, omits, writes>>

(* The page opens on what is cached; a catalogue that failed is read anew. *)
OpenForm ==
  /\ ~open /\ open' = TRUE
  /\ catalogue' = IF catalogue = {} THEN None ELSE catalogue
  /\ form' = Seed(cache, catalogue')
  /\ UNCHANGED <<Server, journeyFields, cache, asked, edits>>

CloseForm == open /\ asked = None /\ open' = FALSE
               /\ UNCHANGED <<Server, catalogue, journeyFields, cache, form, asked, edits>>

ReadCatalogue(known) ==
  /\ open /\ catalogue = None /\ catalogue' = known /\ Follow(cache, known)
  /\ UNCHANGED <<Server, journeyFields, cache, open, asked, edits>>

ReadJourneyFields ==
  /\ open /\ cache # None /\ journeyFields' = mapped
  /\ UNCHANGED <<Server, catalogue, cache, open, form, asked, edits>>

(* GET /leads/:id answers with the fields it names that the role may see.  *)
ReadLead ==
  /\ open /\ catalogue # None
  /\ LET named == catalogue \cap Visible
     IN  cache' = [named |-> named, status |-> lead.status,
                   value |-> [f \in Field |-> IF f \in named THEN lead.value[f] ELSE Blank]]
  /\ Follow(cache', catalogue)
  /\ UNCHANGED <<Server, catalogue, journeyFields, open, asked, edits>>

Edit ==
  /\ open /\ cache # None /\ edits < MaxEdits /\ edits' = edits + 1
  /\ \/ \E f \in formFields : /\ ~Disabled(f)
                              /\ \E v \in Values(f) : v = Shown(f, v) /\ form' = [form EXCEPT !.value[f] = v]
     \/ \E s \in live : form' = [form EXCEPT !.status = s]
  /\ form' # form
  /\ UNCHANGED <<Server, catalogue, journeyFields, cache, open, asked>>

Submit ==
  /\ open /\ cache # None /\ asked = None
  /\ asked' = [sent |-> toFieldValues(formFields), status |-> form.status, base |-> cache,
               mapped |-> journeyFields,
               touched |-> {f \in Field : Touched(f)}, moved |-> form.status # cache.status]
  /\ UNCHANGED <<Server, catalogue, journeyFields, cache, open, form, edits>>

-----------------------------------------------------------------------------
(* PATCH /leads/:id.                                                       *)

Sent == DOMAIN asked.sent
Accepted == {f \in Sent : EditMode[f] # "system"}

Merged == [f \in Field |-> IF f \in Accepted THEN asked.sent[f] ELSE lead.value[f]]

Problems ==
  {p \in {"forbidden", "status", "unmapped", "locked", "required"} :
     CASE p = "forbidden" -> ~(Sent \subseteq Editable)
       [] p = "status"    -> asked.status \notin live
       [] p = "unmapped"  -> ~(Sent \subseteq mapped)
       [] p = "locked"    -> \E f \in Sent : /\ EditMode[f] = "locked"
                                             /\ lead.value[f] \notin {Blank, asked.sent[f]}
       [] p = "required"  -> \E f \in Required \cap mapped : EditMode[f] # "system" /\ Merged[f] = Blank}

(* The answer, unless it is lost, takes the user back to the lead.         *)
Handle(answered) ==
  /\ asked # None /\ asked' = None
  /\ IF Problems = {}
     THEN /\ lead' = [value |-> Merged, status |-> asked.status]
          /\ open' = (open /\ ~answered)
     ELSE UNCHANGED <<lead, open>>
  /\ UNCHANGED <<mapped, live, omits, writes, catalogue, journeyFields, cache, form, edits>>

Elsewhere ==
  /\ writes < MaxWrites /\ writes' = writes + 1
  /\ \/ /\ \E f \in mapped : \E v \in Values(f) \ {Blank} :
             /\ EditMode[f] # "system" /\ (EditMode[f] = "locked" => lead.value[f] = Blank)
             /\ lead' = [lead EXCEPT !.value[f] = v]
        /\ UNCHANGED <<mapped, live>>
     \/ \E s \in live : lead' = [lead EXCEPT !.status = s] /\ UNCHANGED <<mapped, live>>
     \/ \E s \in live : \E r \in live \ {s} :
          /\ live' = live \ {s}
          /\ lead' = [lead EXCEPT !.status = IF @ = s THEN r ELSE @] /\ UNCHANGED mapped
     \/ \E f \in Field : mapped' = (mapped \cup {f}) \ (mapped \cap {f}) /\ UNCHANGED <<lead, live>>
  /\ UNCHANGED <<omits, catalogue, journeyFields, cache, open, form, asked, edits>>

LeadFormNext ==
  \/ OpenForm \/ CloseForm \/ ReadJourneyFields \/ ReadLead \/ Edit \/ Submit \/ Elsewhere
  \/ \E known \in {{}, FirstPage} : ReadCatalogue(known)
  \/ \E answered \in BOOLEAN : Handle(answered)

LeadFormSpec == LeadFormInit /\ [][LeadFormNext]_leadFormVars

-----------------------------------------------------------------------------
(* Every variable has its type, and a lead is in an active status.         *)
LeadFormTypeOK ==
  /\ \A f \in Field : lead.value[f] \in Values(f) /\ form.value[f] \in Values(f)
  /\ mapped \subseteq Field /\ live \subseteq Status /\ lead.status \in live
  /\ asked # None => asked.status \in Status /\ \A f \in Sent : asked.sent[f] # Blank

(* The lead is still what the form had read of it when it was submitted.   *)
Current == /\ asked.base.status = lead.status
           /\ \A f \in asked.base.named : asked.base.value[f] = lead.value[f]

(* A save changes what was edited: when nobody wrote meanwhile, a field    *)
(* the form knew the value of and that was not edited keeps it, except     *)
(* that a checkbox nobody ever answered is answered with no; the status is *)
(* what it was unless it was chosen; a field that was not sent keeps its   *)
(* value, whoever wrote it.                                                *)
SaveStep ==
  \A answered \in BOOLEAN : Handle(answered) /\ Current =>
    /\ \A f \in asked.base.named \ asked.touched :
         lead'.value[f] \in {lead.value[f], Shown(f, lead.value[f])}
    /\ \A f \in Field \ Sent : lead'.value[f] = lead.value[f]
    /\ ~asked.moved => lead'.status = lead.status
SavesChangeWhatWasEdited == [][SaveStep]_leadFormVars

(* A form nobody edited can be saved: unless somebody wrote meanwhile, it  *)
(* is refused only when the role may not edit a field that is asked about, *)
(* when a required field has no value, or when a checkbox that is locked   *)
(* was not read or is left out of the submit for being disabled.           *)
UntouchedSaveIsTaken ==
  asked # None /\ asked.touched = {} /\ ~asked.moved /\ Current /\ asked.mapped = mapped =>
    Problems \subseteq
      (IF mapped \subseteq Editable THEN {} ELSE {"forbidden"})
      \cup (IF \E f \in Required : lead.value[f] = Blank THEN {"required"} ELSE {})
      \cup (IF \E f \in Sent : FieldType[f] = "boolean" /\ EditMode[f] = "locked"
                                 /\ (omits \/ f \notin asked.base.named) THEN {"locked"} ELSE {})

(* The fetch of the lead names every field the form wants back, so that no *)
(* stored value reopens blank: what the comment on it says.                *)
NoValueReopensBlank ==
  open /\ cache # None /\ catalogue \notin {None, {}} /\ journeyFields # None =>
    \A f \in journeyFields \cap Visible : f \in cache.named
=============================================================================
