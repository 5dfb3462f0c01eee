---------------------------- MODULE RoleEditor -----------------------------
(***************************************************************************)
(* The pages of apps/web that send back a whole set: what a role may do    *)
(* (pages/admin/RoleDetailPage.tsx, permission-matrix.ts), with the        *)
(* signed-in user's own grants (app/AuthContext.tsx), for an administrator *)
(* whose role it is; and the roles a Field, or a Tools resource, is        *)
(* granted to (pages/admin/FieldsPage.tsx, pages/tools/ToolsPage.tsx).     *)
(*                                                                         *)
(* The query cache is external (@tanstack/react-query): what was read      *)
(* outlives the page, is shown at once when the page is mounted again, and *)
(* stays the same object while what is read equals it.                     *)
(***************************************************************************)
EXTENDS Naturals, Sequences, FiniteSets, Functions

-----------------------------------------------------------------------------
(* A Field or a resource and the roles it is granted to, in one draft.  The *)
(* editor opens at once, the stored grants are read into it afterwards, and *)
(* a save is two requests: the record, then, unless they were never read,  *)
(* the complete set of grants.  A record is its grants here: the rest of    *)
(* the draft decides nothing.  An editor that opens shows the cached entry  *)
(* at once and reads it again when it was invalidated or is no longer       *)
(* fresh, and only entries that are on screen are read when they are        *)
(* invalidated.                                                             *)
CONSTANTS Grants,       \* sets of role grants
          Nobody,       \* the empty one
          MaxRecords,   \* a bound on the records
          MaxSaves,     \* a bound on the saves of a behaviour
          MaxSurprises, \* a bound on the writes of others and the answers lost
          None

Draft == [id : 0..MaxRecords, grants : Grants, calm : BOOLEAN]
Saving == [at : {"record", "grants", "done"}, id : 0..MaxRecords, grants : Grants,
           write : BOOLEAN, touched : BOOLEAN, calm : BOOLEAN]

ASSUME FieldEditorAssumption ==
  /\ Nobody \in Grants /\ None \notin Grants \cup Draft \cup Saving
  /\ MaxRecords \in Nat \ {0} /\ MaxSaves \in Nat /\ MaxSurprises \in Nat

VARIABLES page,      \* the page: "fields" or "tools"
          may,       \* roles_permissions held: "nothing", "view", "edit"
          stored,    \* server: the grants of each record
          held,      \* cache: the grants as last read
          stale,     \* cache: records whose entry was invalidated
          reading,   \* records whose grants are being read
          draft,     \* the open editor, its record 0 when it is new
          synced,    \* the marker: the stored grants were read into the draft
          touched,   \* ghost: the grants of the draft were edited
          saving,    \* the save in flight
          saves, surprises, \* counted for the bounds
          had        \* ghost: every set of grants a record has had

editorVars == <<page, may, stored, held, stale, reading, draft, synced, touched,
                saving, saves, surprises, had>>

Record == 1..MaxRecords
canSeeGrants == may # "nothing"
canGrant == may = "edit"

(* The draft with the stored grants in it: done in the render that first   *)
(* finds them, once for each time an editor opens.                         *)
Hydrate(d, read, cache) ==
  IF d # None /\ d.id # 0 /\ ~read /\ cache[d.id] # None
  THEN /\ draft' = [d EXCEPT !.grants = cache[d.id]]
       /\ synced' = TRUE
  ELSE draft' = d /\ synced' = read

visibilityKnown == draft.id = 0 \/ synced

-----------------------------------------------------------------------------
EditorInit ==
  /\ page \in {"fields", "tools"} /\ may \in {"nothing", "view", "edit"}
  /\ \E g \in Grants : stored = <<g>> /\ had = <<{g}>>
  /\ held = [r \in Record |-> None] /\ stale = {} /\ reading = {}
  /\ draft = None /\ synced = FALSE /\ touched = FALSE
  /\ saving = None /\ saves = 0 /\ surprises = 0

(* The draft an editor starts from; calm is a ghost: no save was in flight. *)
Opened(r) == [id |-> r, grants |-> Nobody, calm |-> saving = None]

(* openDraft: the marker is cleared whatever record is opened.  A fresh    *)
(* entry may be old enough to be read again.                               *)
OpenNew ==
  /\ Hydrate(Opened(0), FALSE, held)
  /\ touched' = FALSE
  /\ UNCHANGED <<page, may, stored, held, stale, reading, saving, saves, surprises, had>>

Open(r, again) ==
  /\ r \in DOMAIN stored
  /\ Hydrate(Opened(r), FALSE, held)
  /\ touched' = FALSE
  /\ reading' = IF canSeeGrants /\ (again \/ held[r] = None \/ r \in stale)
                THEN reading \cup {r} ELSE reading
  /\ UNCHANGED <<page, may, stored, held, stale, saving, saves, surprises, had>>

Cancel ==
  /\ draft # None /\ draft' = None /\ touched' = FALSE
  /\ UNCHANGED <<page, may, stored, held, stale, reading, synced, saving, saves, surprises, had>>

(* A role's boxes, "Grant view to all", "Clear all".                       *)
EditGrants(g) ==
  /\ draft # None /\ canGrant /\ visibilityKnown
  /\ draft' = [draft EXCEPT !.grants = g] /\ touched' = TRUE
  /\ UNCHANGED <<page, may, stored, held, stale, reading, synced, saving, saves, surprises, had>>

(* The answer to a read of the grants; a failed one leaves the entry.      *)
ReadGrants(r) ==
  /\ r \in reading /\ reading' = reading \ {r}
  /\ held' = [held EXCEPT ![r] = stored[r]] /\ stale' = stale \ {r}
  /\ Hydrate(draft, synced, held')
  /\ UNCHANGED <<page, may, stored, touched, saving, saves, surprises, had>>

FailRead(r) ==
  /\ r \in reading /\ reading' = reading \ {r}
  /\ UNCHANGED <<page, may, stored, held, stale, draft, synced, touched, saving, saves,
                 surprises, had>>

(* An entry nobody looks at is dropped after a while.                      *)
Forget(r) ==
  /\ held[r] # None /\ r \notin reading /\ (draft # None => draft.id # r)
  /\ held' = [held EXCEPT ![r] = None] /\ stale' = stale \ {r}
  /\ UNCHANGED <<page, may, stored, reading, draft, synced, touched, saving, saves, surprises, had>>

(* Save: what the draft is at this moment, whatever happens to it later.   *)
writeGrants == canGrant /\ (IF draft.id = 0 THEN draft.grants # Nobody ELSE visibilityKnown)

Save ==
  /\ draft # None /\ saving = None
  /\ saves < MaxSaves /\ saves' = saves + 1
  /\ draft.id = 0 => Len(stored) < MaxRecords
  /\ saving' = [at |-> "record", id |-> draft.id, grants |-> draft.grants,
                write |-> writeGrants, touched |-> touched, calm |-> draft.calm]
  /\ UNCHANGED <<page, may, stored, held, stale, reading, draft, synced, touched, surprises, had>>

(* A request that is carried out, its answer may be lost.                  *)
Answered(yes) ==
  /\ yes \/ surprises < MaxSurprises
  /\ surprises' = IF yes THEN surprises ELSE surprises + 1

(* The first request.  A new record is granted to nobody.                  *)
WriteRecord(answered) ==
  /\ saving # None /\ saving.at = "record"
  /\ saving.id = 0 => Len(stored) < MaxRecords
  /\ stored' = IF saving.id = 0 THEN Append(stored, Nobody) ELSE stored
  /\ had' = IF saving.id = 0 THEN Append(had, {Nobody}) ELSE had
  /\ saving' = IF ~answered THEN None
               ELSE [saving EXCEPT !.id = IF @ = 0 THEN Len(stored') ELSE @,
                                   !.at = IF saving.write THEN "grants" ELSE "done"]
  /\ Answered(answered)
  /\ UNCHANGED <<page, may, held, stale, reading, draft, synced, touched, saves>>

(* The second request.                                                     *)
WriteGrants(answered) ==
  /\ saving # None /\ saving.at = "grants"
  /\ stored' = [stored EXCEPT ![saving.id] = saving.grants]
  /\ had' = [had EXCEPT ![saving.id] = @ \cup {saving.grants}]
  /\ saving' = IF answered THEN [saving EXCEPT !.at = "done"] ELSE None
  /\ Answered(answered)
  /\ UNCHANGED <<page, may, held, stale, reading, draft, synced, touched, saves>>

(* Either request is refused: the editor stays open as it was.             *)
FailSave ==
  /\ saving # None /\ saving.at # "done" /\ saving' = None
  /\ UNCHANGED <<page, may, stored, held, stale, reading, draft, synced, touched, saves,
                 surprises, had>>

(* onSuccess: whatever editor is open is closed.  The Fields page          *)
(* invalidates the grants after it has waited for its list, when no editor *)
(* shows them any more; the Tools page while one still does.               *)
Cached == {r \in Record : held[r] # None}

OnScreen == IF page = "tools" /\ draft # None /\ canSeeGrants THEN {draft.id} \ {0} ELSE {}

Finish ==
  /\ saving # None /\ saving.at = "done" /\ saving' = None
  /\ draft' = None /\ touched' = FALSE
  /\ stale' = Cached
  /\ reading' = reading \cup OnScreen
  /\ UNCHANGED <<page, may, stored, held, synced, saves, surprises, had>>

(* Another administrator, or the other screen over the same rows.          *)
Elsewhere(r, g) ==
  /\ r \in DOMAIN stored /\ surprises < MaxSurprises /\ surprises' = surprises + 1
  /\ stored' = [stored EXCEPT ![r] = g]
  /\ had' = [had EXCEPT ![r] = @ \cup {g}]
  /\ UNCHANGED <<page, may, held, stale, reading, draft, synced, touched, saving, saves>>

EditorNext ==
  \/ OpenNew \/ Cancel \/ Save \/ FailSave \/ Finish
  \/ \E b \in BOOLEAN : WriteRecord(b) \/ WriteGrants(b)
  \/ \E r \in Record : \/ \E b \in BOOLEAN : Open(r, b)
                       \/ ReadGrants(r) \/ FailRead(r) \/ Forget(r)
                       \/ \E g \in Grants : Elsewhere(r, g)
  \/ \E g \in Grants : EditGrants(g)

EditorSpec == EditorInit /\ [][EditorNext]_editorVars

-----------------------------------------------------------------------------
(* Every variable has its type, and only records that exist are read.      *)
EditorTypeOK ==
  /\ stored \in Seq(Grants) /\ Len(stored) \in 1..MaxRecords
  /\ held \in [Record -> Grants \cup {None}] /\ stale \subseteq Cached
  /\ reading \subseteq DOMAIN stored
  /\ draft # None => draft \in Draft /\ draft.id <= Len(stored)
  /\ saving # None => saving \in Saving /\ saving.id <= Len(stored)
  /\ synced \in BOOLEAN /\ touched \in BOOLEAN

(* A save whose grants nobody edited writes no set the record never had:   *)
(* an editor saved before the grants arrive, or opened a second time,      *)
(* never replaces them with the empty set it starts from.                  *)
SavesWriteWhatWasRead ==
  saving # None /\ saving.at = "grants" /\ ~saving.touched /\ saving.id \in DOMAIN stored
    => saving.grants \in had[saving.id]

(* Reopening the editor re-reads the grants: with nobody else at work and  *)
(* every answer received, a save whose grants nobody edited, from an       *)
(* editor opened when no save was in flight, leaves them as they are.      *)
UntouchedGrantsStay ==
  [][(\E b \in BOOLEAN : WriteGrants(b)) /\ ~saving.touched /\ saving.calm /\ surprises = 0
       => stored' = stored]_editorVars

-----------------------------------------------------------------------------
(* A role: three drafts, each replaced on the server by a save of its own;  *)
(* every save makes the role be read again, and then the grants.            *)
CONSTANTS Catalog,   \* the <<module, action>> there are, in the catalog's order
          Sorted,    \* the same, in the order of the database
          Scoped,    \* the <<module, action>> whose scope decides anything
          Scope,     \* the scopes a row may have
          Default,   \* SELF: the scope of a row that is ticked
          Widest,    \* ORGANIZATION: the scope of an unscoped row
          Journey, FieldId, Level,
          MaxEdits,  \* a bound on the edits of a behaviour
          MaxPuts    \* a bound on its saves

VARIABLES kept,         \* server: the three axes of the role
          cached,       \* client: the role as last read
          fetching,     \* the role is being read
          mounted,      \* the page is open
          drafts,       \* its three drafts
          edited,       \* ghost: keys of each axis the drafts were edited at
          seeded,       \* ghost: the drafts were taken from a role that was read
          puts,         \* for each axis, its save in flight
          capabilities, \* the permissions the client believes its user has
          answers,      \* reads of them in flight
          muddled,      \* ghost: two such reads overlapped, or one failed
          strokes, sent \* edits and saves so far

roleVars == <<kept, cached, fetching, mounted, drafts, edited, seeded, puts, capabilities,
              answers, muddled, strokes, sent>>

Axis == {"permissions", "journeys", "visibility"}
Every == Range(Catalog)
Module == {k[1] : k \in Every}
KeysOf(m) == {k \in Every : k[1] = m}
Row(k, s) == [module |-> k[1], action |-> k[2], scope |-> s]
Permission == {Row(k, s) : k \in Every, s \in Scope}
Axes == [permissions : Seq(Permission), journeys : SUBSET Journey,
         visibility : SUBSET (FieldId \X Level)]

ASSUME RoleEditorAssumption ==
  /\ {Default, Widest} \subseteq Scope /\ Scoped \subseteq Every
  /\ \A k \in Every : k = <<k[1], k[2]>>
  /\ Range(Sorted) = Every
  /\ \A list \in {Catalog, Sorted} :
       list \in Seq(Every) /\ \A i, k \in DOMAIN list : list[i] = list[k] => i = k
  /\ MaxEdits \in Nat /\ MaxPuts \in Nat
  /\ None \notin Axes \cup Seq(Permission)

Nothing == [permissions |-> <<>>, journeys |-> {}, visibility |-> {}]
Untouched == [a \in Axis |-> {}]
NoPut == [at |-> "idle", seeded |-> FALSE, keys |-> {}, read |-> {}, value |-> {}]

-----------------------------------------------------------------------------
(* permission-matrix.ts: rows [module, action, scope], in any order.       *)

Key(row) == <<row.module, row.action>>
hasPermission(rows, k) == \E i \in DOMAIN rows : Key(rows[i]) = k
Chosen(rows, k) == IF hasPermission(rows, k)
                   THEN rows[CHOOSE i \in DOMAIN rows : Key(rows[i]) = k].scope ELSE Default

(* The rows at some keys, as filter keeps them.                            *)
Only(rows, keys) ==
  LET those[i \in 0 .. Len(rows)] ==
        IF i = 0 THEN <<>>
        ELSE IF Key(rows[i]) \in keys THEN Append(those[i - 1], rows[i]) ELSE those[i - 1]
  IN  those[Len(rows)]

(* Mutant: the action of every module is unticked first. *)
SetByAction(rows, k, granted) ==
  Only(rows, {q \in Every : q[2] # k[2]}) \o (IF granted THEN <<Row(k, Default)>> ELSE <<>>)

setPermission(rows, k, granted) ==
  Only(rows, Every \ {k}) \o (IF granted THEN <<Row(k, Default)>> ELSE <<>>)

(* A row at every key of a list, with the scope already chosen for it.     *)
RowsAt(list, rows) == [i \in DOMAIN list |-> Row(list[i], Chosen(rows, list[i]))]

setAll(rows) == RowsAt(Catalog, rows)

setModule(rows, m, granted) ==
  Only(rows, Every \ KeysOf(m)) \o (IF granted THEN Only(setAll(rows), KeysOf(m)) ELSE <<>>)

(* The order in which the server returns rows.                             *)
InOrder(rows) == Only(RowsAt(Sorted, rows), {k \in Every : hasPermission(rows, k)})

setScope(rows, k, s) == [i \in DOMAIN rows |-> IF Key(rows[i]) = k THEN [rows[i] EXCEPT !.scope = s]
                                               ELSE rows[i]]
setScopeForAll(rows, s) == [i \in DOMAIN rows |-> [rows[i] EXCEPT !.scope = s]]
normalizeScopes(rows) == [i \in DOMAIN rows |-> IF Key(rows[i]) \in Scoped THEN rows[i]
                                                ELSE [rows[i] EXCEPT !.scope = Widest]]

moduleSelection(rows, m) ==
  LET granted == {k \in KeysOf(m) : hasPermission(rows, k)}
  IN  CASE granted = {} -> "none" [] granted = KeysOf(m) -> "all" [] OTHER -> "some"

-----------------------------------------------------------------------------
RoleInit ==
  /\ \E K \in SUBSET Every, s \in [Every -> Scope], J \in SUBSET Journey,
          v \in SUBSET (FieldId \X Level) :
       /\ \A x, y \in v : x[1] = y[1] => x = y
       /\ kept = [permissions |-> Only([i \in DOMAIN Sorted |-> Row(Sorted[i], s[Sorted[i]])], K),
                  journeys |-> J, visibility |-> v]
  /\ cached = None /\ fetching = FALSE
  /\ mounted = FALSE /\ drafts = Nothing /\ edited = Untouched /\ seeded = FALSE
  /\ puts = [a \in Axis |-> NoPut]
  /\ capabilities = kept.permissions /\ answers = {} /\ muddled = FALSE
  /\ strokes = 0 /\ sent = 0

(* The page is opened.  A role that is cached is what the drafts are       *)
(* already synced with: they start empty, and are not taken from it.       *)
Mount(again) ==
  /\ ~mounted /\ mounted' = TRUE
  /\ drafts' = Nothing /\ edited' = Untouched /\ seeded' = FALSE
  /\ fetching' = (fetching \/ again \/ cached = None)
  /\ UNCHANGED <<kept, cached, puts, capabilities, answers, muddled, strokes, sent>>

Unmount ==
  /\ mounted /\ mounted' = FALSE
  /\ drafts' = Nothing /\ edited' = Untouched /\ seeded' = FALSE
  /\ UNCHANGED <<kept, cached, fetching, puts, capabilities, answers, muddled, strokes, sent>>

(* The role arrives.  One that differs from what was read before replaces  *)
(* all three drafts.  A save that waited for it asks for the grants.       *)
Waiting == {a \in Axis : puts[a].at = "written"}

ReadRole ==
  /\ fetching /\ fetching' = FALSE
  /\ cached' = kept
  /\ IF mounted /\ kept # cached
     THEN drafts' = kept /\ edited' = Untouched /\ seeded' = TRUE
     ELSE UNCHANGED <<drafts, edited, seeded>>
  /\ UNCHANGED <<kept, mounted, puts, capabilities, answers, muddled, strokes, sent>>

(* Edits of the three sections, each the whole of one control.             *)
Edit(a, value, keys) ==
  /\ mounted /\ strokes < MaxEdits /\ strokes' = strokes + 1
  /\ drafts' = [drafts EXCEPT ![a] = value]
  /\ edited' = [edited EXCEPT ![a] = @ \cup keys]
  /\ UNCHANGED <<kept, cached, fetching, mounted, seeded, puts, capabilities, answers, muddled,
                 sent>>

EditPermissions ==
  LET rows == drafts.permissions
  IN  \/ \E k \in Every, granted \in BOOLEAN : Edit("permissions", setPermission(rows, k, granted), {k})
      \/ \E k \in Scoped, s \in Scope :
            hasPermission(rows, k) /\ Edit("permissions", setScope(rows, k, s), {k})
      \/ \E m \in Module :
            Edit("permissions", setModule(rows, m, moduleSelection(rows, m) # "all"), KeysOf(m))
      \/ Edit("permissions", setAll(rows), Every)
      \/ Edit("permissions", <<>>, Every)
      \/ \E s \in Scope : Edit("permissions", setScopeForAll(rows, s), Every)

EditJourneys ==
  \/ \E j \in Journey, ticked \in BOOLEAN :
       Edit("journeys", IF ticked THEN drafts.journeys \cup {j} ELSE drafts.journeys \ {j}, {j})
  \/ Edit("journeys", IF drafts.journeys = Journey THEN {} ELSE Journey, Journey)

EditVisibility ==
  \/ \E f \in FieldId, l \in Level \cup {None} :
       Edit("visibility", {r \in drafts.visibility : r[1] # f} \cup (IF l = None THEN {} ELSE {<<f, l>>}),
            {f})
  \/ \E l \in Level \cup {None} :
       Edit("visibility", IF l = None THEN {} ELSE FieldId \X {l}, FieldId)

Shown == IF cached = None THEN Nothing ELSE cached
Dirty(a) == drafts[a] # Shown[a]

Reset(a) ==
  /\ mounted /\ Dirty(a)
  /\ drafts' = [drafts EXCEPT ![a] = Shown[a]] /\ edited' = [edited EXCEPT ![a] = {}]
  /\ UNCHANGED <<kept, cached, fetching, mounted, seeded, puts, capabilities, answers, muddled,
                 strokes, sent>>

-----------------------------------------------------------------------------
SaveAxis(a) ==
  /\ mounted /\ Dirty(a) /\ puts[a] = NoPut
  /\ sent < MaxPuts /\ sent' = sent + 1
  /\ puts' = [puts EXCEPT ![a] =
       [at |-> "asked", seeded |-> seeded, keys |-> edited[a], read |-> Shown[a],
        value |-> IF a = "permissions" THEN normalizeScopes(drafts[a]) ELSE drafts[a]]]
  /\ UNCHANGED <<kept, cached, fetching, mounted, drafts, edited, seeded, capabilities, answers,
                 muddled, strokes>>

(* The server replaces the axis; the answer makes the role be read again,  *)
(* when the page that shows it is still open.                              *)
WriteAxis(a) ==
  /\ puts[a].at = "asked"
  /\ kept' = [kept EXCEPT ![a] = IF a = "permissions" THEN InOrder(puts[a].value)
                                 ELSE puts[a].value]
  /\ puts' = [puts EXCEPT ![a].at = "written"]
  /\ fetching' = (fetching \/ mounted)
  /\ UNCHANGED <<cached, mounted, drafts, edited, seeded, capabilities, answers, muddled, strokes,
                 sent>>

RefuseAxis(a) ==
  /\ puts[a].at = "asked"
  /\ puts' = [puts EXCEPT ![a] = NoPut]
  /\ UNCHANGED <<kept, cached, fetching, mounted, drafts, edited, seeded, capabilities, answers,
                 muddled, strokes, sent>>

(* refreshCapabilities: asked, answered by the server, taken by the client. *)
AskCapabilities(a) ==
  /\ a \in Waiting /\ ~fetching
  /\ puts' = [puts EXCEPT ![a].at = "refreshing"]
  /\ answers' = answers \cup {<<a, None>>}
  /\ muddled' = (muddled \/ answers # {})
  /\ UNCHANGED <<kept, cached, fetching, mounted, drafts, edited, seeded, capabilities, strokes,
                 sent>>

AnswerCapabilities(a) ==
  /\ <<a, None>> \in answers
  /\ answers' = (answers \ {<<a, None>>}) \cup {<<a, kept.permissions>>}
  /\ UNCHANGED <<kept, cached, fetching, mounted, drafts, edited, seeded, puts, capabilities,
                 muddled, strokes, sent>>

TakeCapabilities(a, failed) ==
  \E x \in answers :
    /\ x[1] = a /\ (x[2] # None \/ failed)
    /\ answers' = answers \ {x}
    /\ capabilities' = IF failed THEN capabilities ELSE x[2]
    /\ muddled' = (muddled \/ failed)
    /\ puts' = [puts EXCEPT ![a] = NoPut]
    /\ UNCHANGED <<kept, cached, fetching, mounted, drafts, edited, seeded, strokes, sent>>

RoleNext ==
  \/ \E b \in BOOLEAN : Mount(b)
  \/ Unmount \/ ReadRole
  \/ EditPermissions \/ EditJourneys \/ EditVisibility
  \/ \E a \in Axis : \/ Reset(a) \/ SaveAxis(a) \/ WriteAxis(a) \/ RefuseAxis(a)
                     \/ AskCapabilities(a) \/ AnswerCapabilities(a)
                     \/ \E b \in BOOLEAN : TakeCapabilities(a, b)

RoleSpec == RoleInit /\ [][RoleNext]_roleVars

-----------------------------------------------------------------------------
(* The part of an axis that lies at the given keys.                        *)
Without(a, value, keys) ==
  IF a = "permissions" THEN {r \in Range(value) : Key(r) \notin keys}
  ELSE IF a = "journeys" THEN value \ keys
  ELSE {r \in value : r[1] \notin keys}

(* Every variable has its type, and no draft, request or role has two rows *)
(* for one action.                                                         *)
IsRows(rows) ==
  rows \in Seq(Permission) /\ \A i, k \in DOMAIN rows : Key(rows[i]) = Key(rows[k]) => i = k

RoleTypeOK ==
  /\ {kept, drafts, Shown} \subseteq Axes /\ cached # None => cached \in Axes
  /\ \A r \in {kept, drafts, Shown} : IsRows(r.permissions)
  /\ \A x \in answers : x[1] \in Axis /\ (x[2] # None => IsRows(x[2]))
  /\ IsRows(capabilities) /\ strokes \in 0..MaxEdits /\ sent \in 0..MaxPuts

(* A save changes what was edited and nothing else: at every key that was  *)
(* not edited since the drafts were taken from the role, it writes what    *)
(* was read, whichever controls were used and whichever other axis was     *)
(* saved meanwhile.  Drafts that were never taken from the role (the page  *)
(* was opened again, or edited before the role arrived) are excepted.      *)
PutsKeepTheRest ==
  \A a \in Axis : puts[a].seeded =>
    LET fix(v) == IF a = "permissions" THEN normalizeScopes(v) ELSE v
    IN  Without(a, puts[a].value, puts[a].keys) = Without(a, fix(puts[a].read), puts[a].keys)

(* When nothing is in flight the client believes what the role grants,     *)
(* however its saves overlapped, unless two reads of the grants did.       *)
CapabilitiesFollow ==
  (\A a \in Axis : puts[a] = NoPut) /\ ~muddled => capabilities = kept.permissions

(* A page that saves a whole set (the grants of a field, the permissions of *)
(* a role) writes what it has read with what the user edited in it, however *)
(* late, refused or overtaken its reads are; and the capabilities on screen *)
(* end as those of the user's own role.                                     *)
SavesChangeWhatWasEdited ==
  /\ EditorTypeOK /\ SavesWriteWhatWasRead
  /\ RoleTypeOK /\ PutsKeepTheRest /\ CapabilitiesFollow

(* An axis nobody edited has no unsaved changes.                           *)
UntouchedIsClean == mounted /\ cached # None => \A a \in Axis : edited[a] = {} => ~Dirty(a)
=============================================================================
