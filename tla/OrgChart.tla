------------------------------ MODULE OrgChart -------------------------------
(***************************************************************************)
(* The org chart (pages/admin/OrgChartPage.tsx, OrgNode.tsx and            *)
(* org-hierarchy.ts).  The directory is read page by page (loadAllPages),  *)
(* in the order in which the users were created, and each page is two      *)
(* queries that run side by side, its rows and the total (listUsers).      *)
(* Users are hired and moved in the meantime.  From the rows the page      *)
(* builds a forest and decides which branches are open.                    *)
(*                                                                         *)
(* A user is the number of the row: nobody is ever deleted, and two users  *)
(* are not created at the same time.  Names, roles and departments are     *)
(* left out: a query is the set of users that match it, siblings stay in   *)
(* the order of the rows, and MAX_DEPTH is not reached.                    *)
(***************************************************************************)
EXTENDS Naturals, FiniteSets, SequencesExt

CONSTANTS Starts,              \* the directories there may be: the manager of each user, or None
          PageSize, None,
          MaxPages,            \* a page on which there can be nobody, as on those after it
          MaxEdits, MaxWrites  \* bounds: what the user does, what others do

VARIABLES directory,           \* server: users
          load,                \* the load on its way
          data, hierarchy,     \* usersQuery.data, and the forest that was built from it
          isError,             \* usersQuery.isError: a banner has the place of the chart
          query, manualExpanded,
          opened,              \* ghost: the branches the user opened by hand
          edits, writes

chartVars == <<directory, load, data, hierarchy, isError, query, manualExpanded, opened, edits, writes>>

User == DOMAIN directory
Row(u) == [id |-> u, manager |-> directory[u]]
Least(a, b) == IF a < b THEN a ELSE b

-----------------------------------------------------------------------------
(* The way up from u, as far as it meets new users who are not passed yet.  *)
PathUp(manager, passed, u) ==
  FoldSet(LAMBDA i, path :
            LET m == manager[Last(path)]
            IN  IF m \in DOMAIN manager \ (passed \cup Range(path)) THEN Append(path, m) ELSE path,
          <<u>>, DOMAIN manager)

(* buildHierarchy.  A path that ends at one of its own users has closed a   *)
(* ring there; what comes before only leads into it.                       *)
byId(users) == [u \in {users[i].id : i \in DOMAIN users} |->
                  users[CHOOSE i \in DOMAIN users : users[i].id = u].manager]

ClosedRing(manager, path) ==
  {path[j] : j \in {j \in DOMAIN path : \E i \in 1..j : path[i] = manager[Last(path)]}}

Colour(users) ==
  FoldLeft(LAMBDA s, row :
             LET path == PathUp(byId(users), s.seen, row.id) IN
             IF row.id \in s.seen THEN s
             ELSE [seen |-> s.seen \cup Range(path),
                   rings |-> s.rings \cup ({ClosedRing(byId(users), path)} \ {{}})],
           [seen |-> {}, rings |-> {}], users)

Parent(manager, cyclic, u) == IF manager[u] \in DOMAIN manager /\ u \notin cyclic THEN manager[u] ELSE None

buildHierarchy(users) ==
  LET manager == byId(users)
      rings == Colour(users).rings
      cyclic == UNION rings
      parent == [u \in DOMAIN manager |-> Parent(manager, cyclic, u)]
  IN  [parent |-> parent, rings |-> rings,
       dangling |-> {u \in DOMAIN manager \ cyclic : parent[u] = None /\ manager[u] # None}]

Ids == DOMAIN hierarchy.parent
Roots == {u \in Ids : hierarchy.parent[u] = None}
Children(m) == {u \in Ids : hierarchy.parent[u] = m}
Above(u) == Range(PathUp(hierarchy.parent, {}, u)) \ {u}

-----------------------------------------------------------------------------
(* searchHierarchy, and what OrgChartPage and OrgNode make of it.          *)

ancestorIds == UNION {Above(h) : h \in query \cap Ids}
visibleIds == (query \cap Ids) \cup ancestorIds

collectDefaultExpanded == Roots \cup UNION {Children(r) : r \in Roots}
ByHand == IF manualExpanded = None THEN collectDefaultExpanded ELSE manualExpanded
expanded == IF query = None THEN ByHand ELSE ByHand \cup ancestorIds

Shown(u) == query # None => u \in visibleIds
Rendered == {u \in Ids : ~isError /\ Shown(u) /\ Above(u) \subseteq expanded}

-----------------------------------------------------------------------------
ChartInit ==
  /\ directory \in Starts
  /\ load = None /\ data = <<>> /\ hierarchy = buildHierarchy(<<>>) /\ isError = FALSE
  /\ query = None /\ manualExpanded = None /\ opened = {}
  /\ edits = 0 /\ writes = 0

pageUnchanged == UNCHANGED <<query, manualExpanded, opened, edits>>

(* The page opens, or the user asks for the rows again.                    *)
Load ==
  /\ load = None
  /\ load' = [page |-> 1, items |-> <<>>, rows |-> None, total |-> None, first |-> directory, calm |-> TRUE]
  /\ UNCHANGED <<directory, data, hierarchy, isError, writes>> /\ pageUnchanged

Skip(page) == (page - 1) * PageSize
Page(page) == SelectSeq([u \in User |-> Row(u)], LAMBDA row : row.id > Skip(page) /\ row.id <= Skip(page) + PageSize)

ReadRows ==
  /\ load # None /\ load.rows = None
  /\ load' = [load EXCEPT !.rows = Page(load.page)]
  /\ UNCHANGED <<directory, data, hierarchy, isError, writes>> /\ pageUnchanged

ReadTotal ==
  /\ load # None /\ load.total = None
  /\ load' = [load EXCEPT !.total = Len(directory)]
  /\ UNCHANGED <<directory, data, hierarchy, isError, writes>> /\ pageUnchanged

Complete(items, total) == Len(items) >= total

TakePage ==
  /\ load # None /\ load.rows # None /\ load.total # None
  /\ LET items == load.items \o load.rows IN
       IF Complete(items, load.total)
       THEN data' = items /\ hierarchy' = buildHierarchy(items) /\ load' = None /\ isError' = FALSE
       ELSE /\ load' = [load EXCEPT !.page = Least(@ + 1, MaxPages), !.items = items, !.rows = None, !.total = None]
            /\ UNCHANGED <<data, hierarchy, isError>>
  /\ UNCHANGED <<directory, writes>> /\ pageUnchanged

(* A page could not be read.                                               *)
LoadFails ==
  /\ load # None /\ load' = None /\ isError' = TRUE
  /\ UNCHANGED <<directory, data, hierarchy, writes>> /\ pageUnchanged

(* Somebody hires a user, or gives one another manager: validateUserRefs   *)
(* goes up from the manager and meets neither the user nor a loop.         *)
Reports(m, u) ==
  LET line == PathUp(directory, {}, m) IN u \notin Range(line) /\ directory[Last(line)] = None
Disturb(d) ==
  /\ writes < MaxWrites /\ writes' = writes + 1 /\ directory' = d
  /\ load' = IF load = None THEN None ELSE [load EXCEPT !.calm = FALSE]
  /\ UNCHANGED <<data, hierarchy, isError>> /\ pageUnchanged
Hire(m) == (m # None => Reports(m, Len(directory) + 1)) /\ Disturb(Append(directory, m))
Move(u, m) ==
  /\ directory[u] # m /\ (m # None => m # u /\ Reports(m, u))
  /\ Disturb([directory EXCEPT ![u] = m])

Act == edits < MaxEdits /\ edits' = edits + 1 /\ UNCHANGED <<directory, load, data, hierarchy, isError, writes>>
Search(hits) == query # hits /\ query' = hits /\ Act /\ UNCHANGED <<manualExpanded, opened>>

(* The button of a user who has somebody to show.                          *)
Toggle(u) ==
  /\ u \in Rendered
  /\ \E c \in Children(u) : Shown(c)
  /\ manualExpanded' = IF u \in expanded THEN expanded \ {u} ELSE expanded \cup {u}
  /\ opened' = IF u \in expanded THEN opened \ {u} ELSE opened \cup {u}
  /\ Act /\ UNCHANGED query

ChartNext ==
  \/ Load \/ ReadRows \/ ReadTotal \/ TakePage \/ LoadFails
  \/ \E m \in User \cup {None} : Hire(m)
  \/ \E u \in User, m \in User \cup {None} : Move(u, m)
  \/ \E hits \in {None} \cup {{u} : u \in User} : Search(hits)
  \/ \E u \in Ids : Toggle(u)

ChartSpec == ChartInit /\ [][ChartNext]_chartVars

-----------------------------------------------------------------------------
ChartTypeOK ==
  /\ \A u \in User : directory[u] \in (User \cup {None}) \ {u}
  /\ load # None => load.page \in 1..MaxPages /\ IsInjective(load.items)
  /\ IsInjective(data) /\ Ids = DOMAIN byId(data)

(* Whatever loops there are, and whoever was moved between two pages, the  *)
(* forest has everyone: at the top, or in the end below a user at the top. *)
EveryoneIsInTheForest == \A u \in Ids : (Above(u) \cup {u}) \cap Roots # {}

(* The rings that the page warns of are the loops of the rows: those who   *)
(* report to themselves, grouped by who reports to whom; whoever only      *)
(* reports to a loop is in none, and is below it in the forest.            *)
RingsAreTheLoops ==
  LET up[n \in Nat] == IF n = 1 THEN byId(data)
                       ELSE LET f == up[n - 1] IN [u \in Ids |-> IF f[u] \in Ids THEN byId(data)[f[u]] ELSE None]
      Over(u) == {up[n][u] : n \in 1..Len(data)}
      loopers == {u \in Ids : u \in Over(u)}
  IN  /\ hierarchy.rings = {{v \in loopers : v \in Over(u)} : u \in loopers}
      /\ \A u \in Ids \ loopers : Above(u) \subseteq Over(u) /\ Ids \cap Over(u) \subseteq Above(u) \cup loopers

(* Everyone who matches a query is on display with everyone above, however *)
(* much of the chart was closed by hand.                                   *)
HitsAreShown ==
  query # None /\ ~isError => \A h \in query \cap Ids : {h} \cup Above(h) \subseteq Rendered

(* Whoever was there when a load began is on the chart it ends with; a     *)
(* load that nothing disturbs ends with the directory, and warns of nobody *)
(* outside of it.                                                          *)
LoadStep ==
  data' # data => /\ DOMAIN load.first \subseteq DOMAIN hierarchy'.parent
                  /\ load.calm => data' = [u \in User |-> Row(u)] /\ hierarchy'.dangling = {}

(* A load that nothing disturbs does not ask for a page past the end: from *)
(* there it would ask for one page after another and never get the total.  *)
InTheDirectory == load # None /\ load.page > 1 => (load.page - 1) * PageSize < Len(directory)
CalmLoadsEnd == (load # None => load.calm) => InTheDirectory

(* The same of every load.  It does not hold: when a user is hired after   *)
(* the rows of a last page were read and before the total was, the page is *)
(* short of the total and there are no more pages.                         *)
PagesAreThere == InTheDirectory

(* The comment in OrgChartPage.tsx: clearing a search restores whatever    *)
(* the user had opened by hand.                                            *)
OnlyHandsOpen ==
  writes = 0 /\ manualExpanded # None => manualExpanded \subseteq collectDefaultExpanded \cup opened
=============================================================================
