--------------------------- MODULE ImportWizard ----------------------------
(***************************************************************************)
(* The import page of the web client (pages/import): upload, map, preview, *)
(* commit.  Nothing is kept on the server, so every request sends the file *)
(* and what is in the draft at that moment; a commit also sends the hash   *)
(* of the file whose preview is on screen.  The server's own checks of a   *)
(* mapping (apps/api/src/import/mapping.ts) are here too; what a preview   *)
(* and a commit then do is LeadImport's.  A column may name a field or an  *)
(* owner here.  Left out are the phone and the e-mail, fields to every      *)
(* check, and a status by name, which the server refuses besides for a      *)
(* journey that has no active one.                                          *)
(*                                                                         *)
(* The mutation hooks are external (@tanstack/react-query): while the one  *)
(* a button watches is pending the button is disabled, a reset only stops  *)
(* it watching, and the answer is handled all the same.                    *)
(***************************************************************************)
EXTENDS Naturals, Sequences, FiniteSets, Functions

CONSTANTS Sheet,       \* files, told apart by their bytes: a file is its hash
          Header,      \* the columns of every file
          Custom,      \* custom fields a column may be mapped to
          OwnerType,   \* assignment types a column may be mapped to
          Journey, Statuses(_), FieldsOf(_), \* its statuses, and the fields it uses
          Skip, LeadName, Unset,
          MaxEdits, MaxRequests

ASSUME ImportWizardAssumption ==
  /\ \A j \in Journey : FieldsOf(j) \subseteq Custom
  /\ Unset \notin Sheet \cup OwnerType \cup Journey
  /\ Skip # LeadName /\ {Skip, LeadName} \cap (Custom \cup OwnerType) = {}
  /\ MaxEdits \in Nat /\ MaxRequests \in Nat

VARIABLES screen,    \* the step on screen
          sheet,     \* the file, once it is analysed
          draft,    \* the mapping being edited
          stopOnError,
          preview,  \* the preview last received, and what it was of
          imported,  \* a commit was answered
          sent,      \* every request made: its place is its number
          watched,  \* for each button, the request it watches, or 0
          touches

wizardVars == <<screen, sheet, draft, stopOnError, preview, imported, sent, watched, touches>>

Target == {Skip, LeadName} \cup Custom \cup OwnerType
Step == {"upload", "map", "preview", "result"}
Kind == {"analyze", "preview", "commit"}
emptyDraft(columns) == [journey |-> Unset, status |-> Unset, owner |-> Unset,
                        columns |-> columns, matchKeys |-> {}]

initialColumnTargets == [h \in Header |-> Skip]

Mapped(columns) == Range(columns) \ {Skip}
mappedCount(columns) == Cardinality({h \in DOMAIN columns : columns[h] # Skip})
claimedTargets(columns, except) == {columns[h] : h \in DOMAIN columns \ {except}} \ {Skip}

availableMatchKeys(columns) == Mapped(columns) \cap ({LeadName} \cup Custom)
TwoAlike(columns) ==
  \E g, h \in DOMAIN columns : g # h /\ columns[g] = columns[h] /\ columns[g] # Skip

(* What the page finds missing before a preview may be asked for.          *)
mappingProblems(d) ==
  {p \in {"journey", "name", "owner", "twice"} :
     CASE p = "journey" -> d.journey = Unset
       [] p = "name"    -> LeadName \notin Mapped(d.columns)
       [] p = "owner"   -> Mapped(d.columns) \cap OwnerType = {} /\ d.owner = Unset
       [] p = "twice"   -> TwoAlike(d.columns)}

(* What the server refuses a file for.                                     *)
validateMapping(d) ==
  {p \in {"columns", "twice", "field", "name", "owned twice", "match key"} :
     CASE p = "columns"     -> DOMAIN d.columns # Header
       [] p = "twice"       -> TwoAlike(d.columns)
       [] p = "field"       -> ~(Mapped(d.columns) \cap Custom \subseteq FieldsOf(d.journey))
       [] p = "name"        -> LeadName \notin Mapped(d.columns)
       [] p = "owned twice" -> d.owner # Unset /\ d.owner \in Mapped(d.columns)
       [] p = "match key"   -> ~(d.matchKeys \subseteq Mapped(d.columns))}

-----------------------------------------------------------------------------
WizardInit ==
  /\ screen = "upload" /\ sheet = Unset /\ draft = emptyDraft(<<>>) /\ stopOnError = FALSE
  /\ preview = Unset /\ imported = FALSE
  /\ sent = <<>> /\ watched = [k \in Kind |-> 0] /\ touches = 0

Watching(k) == watched[k] # 0

(* A request is the file, the draft and the option as they are now;        *)
(* disturbed is a ghost: one of them changed before its answer.            *)
Ask(k, f, hash, shown) ==
  /\ ~Watching(k) /\ Len(sent) < MaxRequests
  /\ sent' = Append(sent,
       [kind |-> k, sheet |-> f, mapping |-> draft, stop |-> stopOnError, hash |-> hash,
        at |-> "asked", shown |-> shown, disturbed |-> FALSE])
  /\ watched' = [watched EXCEPT ![k] = Len(sent) + 1]

Overtaken == [i \in DOMAIN sent |->
               IF sent[i].at = "gone" THEN sent[i] ELSE [sent[i] EXCEPT !.disturbed = TRUE]]

Analyze(f) ==
  /\ screen = "upload" /\ Ask("analyze", f, Unset, Unset)
  /\ UNCHANGED <<screen, sheet, draft, stopOnError, preview, imported, touches>>

(* One control of the mapping step.                                        *)
Control(d, stop) ==
  /\ screen = "map" /\ sheet # Unset /\ touches < MaxEdits /\ touches' = touches + 1
  /\ draft' = d /\ stopOnError' = stop
  /\ sent' = Overtaken
  /\ UNCHANGED <<screen, sheet, preview, imported, watched>>

ChooseJourney(j) == Control([draft EXCEPT !.journey = j, !.status = Unset], stopOnError)
ChooseStatus(s) == draft.journey # Unset /\ s \in Statuses(draft.journey)
                     /\ Control([draft EXCEPT !.status = s], stopOnError)
ChooseOwner(o) == Control([draft EXCEPT !.owner = o], stopOnError)
ToggleStop == Control(draft, ~stopOnError)

setColumn(h, t) ==
  /\ h \in DOMAIN draft.columns /\ t \notin claimedTargets(draft.columns, h)
  /\ LET columns == [draft.columns EXCEPT ![h] = t]
     IN  Control([draft EXCEPT !.columns = columns,
                              !.matchKeys = @ \cap availableMatchKeys(columns)], stopOnError)

toggleMatchKey(k) ==
  /\ k \in availableMatchKeys(draft.columns)
  /\ Control([draft EXCEPT !.matchKeys = IF k \in @ THEN @ \ {k} ELSE @ \cup {k}], stopOnError)

Preview ==
  /\ screen = "map" /\ sheet # Unset
  /\ mappingProblems(draft) = {} /\ mappedCount(draft.columns) # 0
  /\ Ask("preview", sheet, Unset, Unset)
  /\ UNCHANGED <<screen, sheet, draft, stopOnError, preview, imported, touches>>

Confirm ==
  /\ screen = "preview" /\ preview # Unset /\ sheet # Unset
  /\ Ask("commit", sheet, preview.sheet, preview)
  /\ UNCHANGED <<screen, sheet, draft, stopOnError, preview, imported, touches>>

(* Mutant: the stepper also goes forward, to a preview there is. *)
GoAnywhere(id) ==
  /\ id # screen /\ imported = FALSE
  /\ CASE id = "upload" -> TRUE [] id = "map" -> sheet # Unset [] OTHER -> id = "preview" /\ preview # Unset
  /\ screen' = id
  /\ UNCHANGED <<sheet, draft, stopOnError, preview, imported, sent, watched, touches>>

(* The stepper goes backwards only, and so does "Back to mapping".         *)
GoTo(id) ==
  /\ id # screen /\ sheet # Unset
  /\ \/ imported = FALSE /\ (id = "upload" \/ (id = "map" /\ preview # Unset))
     \/ id = "map" /\ screen = "preview"
  /\ screen' = id
  /\ UNCHANGED <<sheet, draft, stopOnError, preview, imported, sent, watched, touches>>

startOver ==
  /\ \/ screen = "map" /\ sheet # Unset
     \/ screen = "result"
  /\ screen' = "upload" /\ sheet' = Unset /\ draft' = emptyDraft(<<>>)
  /\ preview' = Unset /\ imported' = FALSE
  /\ watched' = [k \in Kind |-> 0] /\ sent' = Overtaken
  /\ UNCHANGED <<stopOnError, touches>>

-----------------------------------------------------------------------------
(* The server carries a request out or refuses it; the answer may be lost. *)
Refused(r) ==
  \/ r.kind # "analyze" /\ validateMapping(r.mapping) # {}
  \/ r.kind = "commit" /\ r.hash # r.sheet

Serve(i) ==
  /\ sent[i].at = "asked"
  /\ sent' = [sent EXCEPT ![i].at = IF Refused(sent[i]) THEN "refused" ELSE "done"]
  /\ UNCHANGED <<screen, sheet, draft, stopOnError, preview, imported, watched, touches>>

(* What is left of a request that was answered.                            *)
Gone(s, i) == [s EXCEPT ![i] = [kind |-> s[i].kind, at |-> "gone"]]

Unwatched(i) == watched' = [k \in Kind |-> IF watched[k] = i THEN 0 ELSE watched[k]]

Lost(i) ==
  /\ sent[i].at \in {"asked", "done", "refused"}
  /\ sent' = Gone(sent, i) /\ Unwatched(i)
  /\ UNCHANGED <<screen, sheet, draft, stopOnError, preview, imported, touches>>

(* onSuccess, whatever the page has become since.                          *)
Answer(i) ==
  /\ sent[i].at = "done" /\ Unwatched(i)
  /\ LET r == sent[i]
     IN  \/ /\ r.kind = "analyze"
            /\ sheet' = r.sheet /\ draft' = emptyDraft(initialColumnTargets) /\ screen' = "map"
            /\ sent' = Gone(Overtaken, i)
            /\ UNCHANGED <<preview, imported>>
         \/ /\ r.kind = "preview"
            /\ preview' = [sheet |-> r.sheet, mapping |-> r.mapping, stop |-> r.stop,
                           disturbed |-> r.disturbed]
            /\ screen' = "preview" /\ sent' = Gone(sent, i)
            /\ UNCHANGED <<sheet, draft, imported>>
         \/ /\ r.kind = "commit"
            /\ imported' = TRUE /\ screen' = "result" /\ sent' = Gone(sent, i)
            /\ UNCHANGED <<sheet, draft, preview>>
  /\ UNCHANGED <<stopOnError, touches>>

WizardNext ==
  \/ \E f \in Sheet : Analyze(f)
  \/ \E j \in Journey : ChooseJourney(j) \/ \E s \in Statuses(j) : ChooseStatus(s)
  \/ \E o \in OwnerType \cup {Unset} : ChooseOwner(o)
  \/ \E h \in Header, t \in Target : setColumn(h, t)
  \/ \E k \in {LeadName} \cup Custom : toggleMatchKey(k)
  \/ ToggleStop \/ Preview \/ Confirm \/ startOver
  \/ \E id \in Step : GoTo(id)
  \/ \E i \in DOMAIN sent : Serve(i) \/ Lost(i) \/ Answer(i)

WizardSpec == WizardInit /\ [][WizardNext]_wizardVars

-----------------------------------------------------------------------------
Requests(kind, at) == {sent[i] : i \in {j \in DOMAIN sent :
                                              sent[j].kind = kind /\ sent[j].at \in at}}

(* Every variable has its type, and the draft covers the file's columns.   *)
WizardTypeOK ==
  /\ screen \in Step /\ sheet \in Sheet \cup {Unset}
  /\ IF sheet = Unset THEN DOMAIN draft.columns = {} ELSE draft.columns \in [Header -> Target]
  /\ draft.matchKeys \subseteq {LeadName} \cup Custom
  /\ \A k \in Kind : Watching(k) => /\ sent[watched[k]].kind = k
                                   /\ sent[watched[k]].at # "gone"

(* "Mirrors the server's own file-level checks": whatever order the        *)
(* columns, the duplicate keys and the journey were chosen in, a preview   *)
(* that the page lets through is refused for two reasons only, that it     *)
(* does not know: a field the journey does not use, and an owner type that *)
(* is both the whole file's and a column's.                                *)
ProblemsAreTold ==
  \A r \in Requests("preview", {"asked", "done", "refused"}) :
    validateMapping(r.mapping) \subseteq {"field", "owned twice"}

(* A commit that is carried out is, to the file, the mapping and the       *)
(* option, the preview that was on screen when it was confirmed, whatever  *)
(* was edited, uploaded or started over before, if nothing was edited or   *)
(* uploaded while that preview was being made.                             *)
SettledCommitsWerePreviewed ==
  \A r \in Requests("commit", {"done"}) :
    ~r.shown.disturbed =>
      /\ r.sheet = r.shown.sheet /\ r.mapping = r.shown.mapping /\ r.stop = r.shown.stop

(* All of it together: what is committed was previewed, and a preview says  *)
(* beforehand of nearly every mapping why it would be refused.             *)
CommitsWerePreviewed == WizardTypeOK /\ ProblemsAreTold /\ SettledCommitsWerePreviewed

(* "You are committing what you previewed" is true rather than assumed.    *)
CommitsWhatWasPreviewed ==
  \A r \in Requests("commit", {"done"}) :
    r.sheet = r.shown.sheet /\ r.mapping = r.shown.mapping /\ r.stop = r.shown.stop
=============================================================================
