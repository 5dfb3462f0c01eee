----------------------------- MODULE SellerList ------------------------------
(***************************************************************************)
(* The list of leads (pages/sellers/SellerListPage.tsx, FilterBuilder.tsx  *)
(* and filter-state.ts) over GET /leads.  What is asked for is in the URL, *)
(* which keeps its history; the builder of conditions and the search box   *)
(* have drafts of their own; the pages that were read are cached under     *)
(* what was asked for, and an earlier page stays on display while the next *)
(* one is on its way.                                                      *)
(*                                                                         *)
(* The sort order and the access mode are left out: they are parameters as *)
(* the status is.  So is the scope of the user, which LeadAccess has: the  *)
(* leads are those in it, and those that were shared.                      *)
(***************************************************************************)
EXTENDS Naturals, Sequences, FiniteSets, SequencesExt

-----------------------------------------------------------------------------
(* The filters: which operators a target supports (leads/filter-model.ts,   *)
(* and its mirror in the client, filter-state.ts), which conditions the     *)
(* server takes (leads/filter-validation.ts) and which leads match one      *)
(* (leads/filter-sql.ts).  Texts are words of which some begin with or      *)
(* contain others; numbers and dates are numbers.  A lead has one active    *)
(* process instance.                                                        *)

CONSTANTS FieldType,  \* the type the administrator gave each custom field
          StatusOf,   \* the statuses of each journey
          Blank,      \* a value that was not given
          None        \* a value that a lead does not have

Journey == DOMAIN StatusOf
Status == UNION {StatusOf[j] : j \in Journey}

Word == {"a", "ab", "ba"}
Begins == {<<"a", "a">>, <<"ab", "ab">>, <<"ba", "ba">>, <<"a", "ab">>}
Within == Begins \cup {<<"a", "ba">>}
Day == 1..2
Options == {"o", "p"}

(* Targets: two columns of the lead, its status, and the custom fields.    *)
coreColumns == {"name", "createdAt", "status"}
Field == DOMAIN FieldType
Target == coreColumns \cup Field

(* What a condition compares a target as; None for a type nobody knows.    *)
filterKindForFieldType(type) ==
  CASE type \in {"text", "textarea", "email", "phone"} -> "text"
    [] type \in {"number", "date", "select", "boolean"} -> type
    [] type = "json" -> "opaque"
    [] OTHER -> None
coreColumnKinds == [c \in coreColumns |->
  CASE c = "name" -> "text" [] c = "createdAt" -> "date" [] c = "status" -> "select"]
kindForTarget(t) == IF t \in Field THEN filterKindForFieldType(FieldType[t]) ELSE coreColumnKinds[t]

(* What the picker offers, in its order, ...                               *)
operatorsForKind(kind) ==
  CASE kind = "text"    -> <<"equals", "contains", "starts_with", "is_empty", "is_not_empty">>
    [] kind = "number"  -> <<"equals", "greater_than", "less_than", "between", "is_empty">>
    [] kind = "date"    -> <<"before", "after", "between", "is_empty">>
    [] kind = "select"  -> <<"in", "not_in">>
    [] kind = "boolean" -> <<"is_true", "is_false">>
    [] kind = "opaque"  -> <<"is_empty", "is_not_empty">>

(* ... how many values it asks for, ...                                    *)
valueCountForOperator(op) ==
  IF op \in {"is_empty", "is_not_empty", "is_true", "is_false"} THEN 0
  ELSE IF op = "between" THEN 2 ELSE 1

(* ... and the server's account of the same.                               *)
supportsOperator(kind, op) ==
  op \in CASE kind = "text"    -> {"equals", "contains", "starts_with", "is_empty", "is_not_empty"}
           [] kind = "number"  -> {"equals", "greater_than", "less_than", "between", "is_empty"}
           [] kind = "date"    -> {"before", "after", "between", "is_empty"}
           [] kind = "select"  -> {"in", "not_in"}
           [] kind = "boolean" -> {"is_true", "is_false"}
           [] kind = "opaque"  -> {"is_empty", "is_not_empty"}
arityForOperator(op) ==
  CASE op \in {"is_empty", "is_not_empty", "is_true", "is_false"} -> {0}
    [] op = "between" -> {2}
    [] op \in {"in", "not_in"} -> Nat \ {0}
    [] OTHER -> {1}

(* A blank value is no number and no date; as a text it is just blank.     *)
coerceValue(kind, v) == kind \in {"number", "date"} => v # Blank

resolveFilter(conditions) ==
  \A i \in DOMAIN conditions : LET c == conditions[i] IN
    /\ kindForTarget(c.target) # None
    /\ supportsOperator(kindForTarget(c.target), c.operator)
    /\ Len(c.values) \in arityForOperator(c.operator)
    /\ \A n \in DOMAIN c.values : coerceValue(kindForTarget(c.target), c.values[n])

(* The values one may enter for a kind, and those a lead may have stored.  *)
Values(t) ==
  CASE t = "status" -> Status
    [] kindForTarget(t) = "text" -> Word
    [] kindForTarget(t) \in {"number", "date"} -> Day
    [] kindForTarget(t) = "select" -> Options
    [] OTHER -> {TRUE, FALSE}

Stored(lead, t) == IF t \in Field THEN lead.value[t] ELSE lead[t]

(* SQL's NULL matches no comparison; not_in negates the whole of in.       *)
Matches(lead, c) ==
  LET v == Stored(lead, c.target) IN
  CASE c.operator = "is_empty" -> v = None
    [] c.operator = "is_not_empty" -> v # None
    [] c.operator = "is_true" -> v = TRUE
    [] c.operator = "is_false" -> v = FALSE
    [] c.operator = "not_in" -> \A i \in DOMAIN c.values : v # c.values[i]
    [] OTHER -> /\ v # None
                /\ CASE c.operator \in {"equals", "in"} -> v \in {c.values[i] : i \in DOMAIN c.values}
                     [] c.operator = "contains" -> <<c.values[1], v>> \in Within
                     [] c.operator = "starts_with" -> <<c.values[1], v>> \in Begins
                     [] c.operator \in {"greater_than", "after"} -> v > c.values[1]
                     [] c.operator \in {"less_than", "before"} -> v < c.values[1]
                     [] c.operator = "between" -> c.values[1] <= v /\ v <= c.values[2]

MatchesAll(lead, conditions) == \A i \in DOMAIN conditions : Matches(lead, conditions[i])

-----------------------------------------------------------------------------
(* The list.                                                                *)

CONSTANTS LeadId,
          Starts,     \* the leads there may be at first
          PageSize,
          MaxConditions, MaxEdits, MaxWrites \* bounds: conditions, what the user does, what others do

VARIABLES leads, recent, \* server: the leads, and which of them was updated last
          url, past,     \* the address and those before it
          conditions, searchDraft,
          cache, kept,   \* client: answers by what was asked for; the answer last on display
          hurried,       \* ghost: a page was turned by the total of another list
          edits, writes

listVars == <<leads, recent, url, past, conditions, searchDraft, cache, kept, hurried, edits, writes>>

Url == [journey : Journey \cup {None}, status : Status \cup {None}, search : {Blank, "ab"},
        filter : Seq([target : Target]), page : Nat \ {0}]
NoParams == [journey |-> None, status |-> None, search |-> Blank, filter |-> <<>>, page |-> 1]

-----------------------------------------------------------------------------
(* The server: whereClause, with the branch for leads that were shared,    *)
(* that asks for the journey and not for the status.                       *)
Selected(q) ==
  {l \in LeadId : LET lead == leads[l] IN
     /\ q.journey \in {None, lead.journey}
     /\ lead.shared \/ q.status \in {None, lead.status}
     /\ q.search = Blank \/ <<q.search, lead.name>> \in Within
     /\ MatchesAll(lead, q.filter)}

Ordered(S) == SelectSeq(recent, LAMBDA l : l \in S)
PageOf(seq, page) == SubSeq(seq, (page - 1) * PageSize + 1,
                            IF page * PageSize < Len(seq) THEN page * PageSize ELSE Len(seq))

Answer(q) == IF resolveFilter(q.filter)
             THEN [rows |-> PageOf(Ordered(Selected(q)), q.page), total |-> Cardinality(Selected(q))]
             ELSE [rows |-> <<>>, total |-> 0]

-----------------------------------------------------------------------------
(* The conditions of the builder and of the URL.                           *)

Condition(t, op, values) == [target |-> t, operator |-> op, values |-> values]
Blanks(op) == [i \in 1..valueCountForOperator(op) |-> Blank]

encodeFilter(cs) ==
  SelectSeq(cs, LAMBDA c : /\ Len(c.values) = valueCountForOperator(c.operator)
                           /\ \A i \in DOMAIN c.values : c.values[i] # Blank)

(* Mutant: a search that is on display is not part of the key. *)
KeyOfTheFilter(u) == [u EXCEPT !.search = Blank]
queryKey(u) == u

IsShown(u) == queryKey(u) \in DOMAIN cache
Shown == IF IsShown(url) THEN cache[queryKey(url)] ELSE kept

SellerListInit ==
  /\ \E s \in Starts : leads = s.leads /\ recent = s.recent
  /\ url = NoParams /\ past = <<>> /\ conditions = <<>> /\ searchDraft = Blank
  /\ cache = <<>> /\ kept = [rows |-> <<>>, total |-> 0] /\ hurried = FALSE
  /\ edits = 0 /\ writes = 0

(* A new address: what is on display stays until there is an answer, and   *)
(* the builder starts over from the filter of the address when that is     *)
(* another one.  The box follows the address in the same way.              *)
Render(u, built, typed) ==
  /\ url' = u /\ kept' = Shown
  /\ conditions' = IF u.filter = url.filter THEN built ELSE u.filter
  /\ searchDraft' = IF u.search = url.search THEN typed ELSE u.search
  /\ UNCHANGED <<leads, recent, cache, writes>>

Visit(u, built, typed) ==
  /\ edits < MaxEdits /\ edits' = edits + 1
  /\ past' = IF u = url THEN past ELSE Append(past, url)
  /\ Render(u, built, typed)

updateParam(u) == [u EXCEPT !.page = 1]

Set(u) == Visit(updateParam(u), conditions, searchDraft) /\ hurried' = FALSE

SelectStatus(s) == url.journey # None /\ s # url.status /\ Set([url EXCEPT !.status = s])

SelectJourney(j) == j # url.journey /\ Set([url EXCEPT !.journey = j, !.status = None])

TypeSearch(w) ==
  /\ w # searchDraft /\ edits < MaxEdits /\ edits' = edits + 1 /\ searchDraft' = w
  /\ UNCHANGED <<leads, recent, url, past, conditions, cache, kept, hurried, writes>>
(* 350 ms after the last of the typing and of the changes of the address.  *)
FireSearch ==
  /\ searchDraft # url.search
  /\ LET u == updateParam([url EXCEPT !.search = searchDraft])
     IN  past' = Append(past, url) /\ Render(u, conditions, searchDraft)
  /\ hurried' = FALSE /\ UNCHANGED edits

ClearFilters ==
  /\ url.search # Blank \/ url.status # None \/ url.filter # <<>>
  /\ Visit(NoParams, conditions, Blank) /\ hurried' = FALSE

(* The buttons of the pagination go by the total that is on display.       *)
TurnPage(p) ==
  /\ Shown.rows # <<>> /\ p \in {url.page - 1, url.page + 1} /\ p >= 1
  /\ p > url.page => url.page * PageSize < Shown.total
  /\ Visit([url EXCEPT !.page = p], conditions, searchDraft)
  /\ hurried' = (hurried \/ ~IsShown(url))

Back ==
  /\ past # <<>> /\ edits < MaxEdits /\ edits' = edits + 1
  /\ past' = Front(past) /\ Render(Last(past), conditions, searchDraft)
  /\ hurried' = (Last(past).page > 1)

(* The builder: the address changes when what can be answered changes.     *)
EditConditions(next) ==
  /\ next # conditions
  /\ IF encodeFilter(next) # url.filter
     THEN Set([url EXCEPT !.filter = encodeFilter(next)])
     ELSE Visit(url, next, searchDraft) /\ UNCHANGED hurried

addCondition ==
  /\ Len(conditions) < MaxConditions
  /\ EditConditions(Append(conditions, Condition("name", "contains", <<Blank>>)))
removeCondition(i) == EditConditions(RemoveAt(conditions, i))

setTarget(i, t) ==
  /\ kindForTarget(t) # None
  /\ LET op == operatorsForKind(kindForTarget(t))[1]
     IN  EditConditions([conditions EXCEPT ![i] = Condition(t, op, Blanks(op))])

setOperator(i, op) ==
  LET c == conditions[i] IN
  /\ \E n \in DOMAIN operatorsForKind(kindForTarget(c.target)) : operatorsForKind(kindForTarget(c.target))[n] = op
  /\ EditConditions([conditions EXCEPT ![i] = Condition(c.target, op,
       [n \in 1..valueCountForOperator(op) |-> IF n \in DOMAIN c.values THEN c.values[n] ELSE Blank])])

(* The statuses to choose from are those of the journey that is selected.  *)
setValue(i, n, v) ==
  /\ conditions[i].target = "status" /\ v # Blank => url.journey # None /\ v \in StatusOf[url.journey]
  /\ EditConditions([conditions EXCEPT ![i].values[n] = v])

(* A page is read when it is not in the cache, and again when it is old.   *)
Fetch ==
  /\ IsShown(url) => cache[queryKey(url)] # Answer(url)
  /\ cache' = [k \in DOMAIN cache \cup {queryKey(url)} |-> IF k = queryKey(url) THEN Answer(url) ELSE cache[k]]
  /\ UNCHANGED <<leads, recent, url, past, conditions, searchDraft, kept, hurried, edits, writes>>

(* Another user changes a lead, which is then the one updated last.        *)
Elsewhere ==
  /\ writes < MaxWrites /\ writes' = writes + 1
  /\ \E l \in LeadId :
       /\ \/ \E s \in StatusOf[leads[l].journey] \ {leads[l].status} : leads' = [leads EXCEPT ![l].status = s]
          \/ \E f \in Field : \E v \in (Values(f) \cup {None}) \ {leads[l].value[f]} :
               leads' = [leads EXCEPT ![l].value[f] = v]
       /\ recent' = <<l>> \o SelectSeq(recent, LAMBDA m : m # l)
  /\ UNCHANGED <<url, past, conditions, searchDraft, cache, kept, hurried, edits>>

SellerListNext ==
  \/ FireSearch \/ ClearFilters \/ Back \/ addCondition \/ Fetch \/ Elsewhere
  \/ \E s \in (IF url.journey = None THEN {} ELSE StatusOf[url.journey]) \cup {None} : SelectStatus(s)
  \/ \E j \in Journey \cup {None} : SelectJourney(j)
  \/ \E w \in {Blank, "ab"} : TypeSearch(w)
  \/ \E p \in {url.page - 1, url.page + 1} : TurnPage(p)
  \/ \E i \in DOMAIN conditions :
       \/ removeCondition(i)
       \/ \E t \in Target \ {conditions[i].target} : setTarget(i, t)
       \/ \E n \in 1..5 : /\ n \in DOMAIN operatorsForKind(kindForTarget(conditions[i].target))
                          /\ setOperator(i, operatorsForKind(kindForTarget(conditions[i].target))[n])
       \/ \E n \in DOMAIN conditions[i].values, v \in Values(conditions[i].target) \cup {Blank} : setValue(i, n, v)

SellerListSpec == SellerListInit /\ [][SellerListNext]_listVars

-----------------------------------------------------------------------------
SellerListTypeOK ==
  /\ url.journey \in Journey \cup {None} /\ url.status \in Status \cup {None} /\ url.page \in Nat \ {0}
  /\ IsInjective(recent) /\ Range(recent) = LeadId
  /\ Len(conditions) <= MaxConditions /\ searchDraft \in {Blank, "ab"}
  /\ Len(Shown.rows) <= PageSize

(* The client decides which conditions can be answered by its own account  *)
(* of the operators and their values; the server, which has another,       *)
(* refuses none of them.                                                   *)
AskedFiltersAreTaken == url.filter = encodeFilter(conditions) /\ resolveFilter(url.filter)

(* The status that is asked for is one of the journey that is asked for,   *)
(* however the address came about.                                         *)
StatusIsOfTheJourney ==
  url.status # None => url.journey # None /\ url.status \in StatusOf[url.journey]

(* What is on display as the answer is what the server has for the         *)
(* address, unless somebody wrote a lead in the meantime.                  *)
ShownIsOfTheUrl == writes = 0 /\ IsShown(url) => cache[queryKey(url)] = Answer(url)

(* A list that nobody changes is not left through its end: whatever is     *)
(* asked for next begins at the first page.  (A page that is turned while  *)
(* an earlier list is on display goes by the total of that one.)           *)
PagesExist ==
  writes = 0 /\ ~hurried /\ Selected(url) # {} => (url.page - 1) * PageSize < Cardinality(Selected(url))

(* A condition and its opposite, and a range and what is below and above   *)
(* it, split the leads: none is in both, and none is in neither but those  *)
(* without a value.                                                        *)
OppositesSplitTheLeads ==
  \A t \in {t \in Target : kindForTarget(t) # None}, l \in LeadId :
    LET kind == kindForTarget(t)
        In(op, vs) == Matches(leads[l], Condition(t, op, vs))
        below == IF kind = "number" THEN "less_than" ELSE "before"
        above == IF kind = "number" THEN "greater_than" ELSE "after"
    IN  /\ supportsOperator(kind, "not_in") => \A v \in Values(t) : In("in", <<v>>) # In("not_in", <<v>>)
        /\ supportsOperator(kind, "is_not_empty") => In("is_empty", <<>>) # In("is_not_empty", <<>>)
        /\ supportsOperator(kind, "between") => \A v, w \in Values(t) : v <= w =>
             (In("between", <<v, w>>) <=> ~In(below, <<v>>) /\ ~In(above, <<w>>) /\ ~In("is_empty", <<>>))

(* The comment in SellerListPage.tsx: the builder keeps a working copy     *)
(* because a condition without a value is not in the URL, and deriving the *)
(* rows from there would make it vanish as soon as it is added.  So an     *)
(* edit of one condition leaves the others in the builder.                 *)
ConditionStep ==
  \A i \in DOMAIN conditions : (\E n \in DOMAIN conditions[i].values, v \in Values(conditions[i].target) \cup {Blank} : setValue(i, n, v))
    => \A k \in DOMAIN conditions \ {i} : k \in DOMAIN conditions' /\ conditions'[k] = conditions[k]
OthersStayWhenOneIsEdited == [][ConditionStep]_listVars
=============================================================================
