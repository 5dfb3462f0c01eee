------------------------------- MODULE Board -------------------------------
(***************************************************************************)
(* The Kanban board of the web client (apps/web/src/pages/board): one      *)
(* cached, paged list per status, and moves that are shown before the      *)
(* server has answered.  A move patches the two columns it touches, keeps  *)
(* what they were, and puts that back when it is refused; every answer     *)
(* makes both columns be read again.                                       *)
(*                                                                         *)
(* The query cache is external (@tanstack/react-query): a refetch reads    *)
(* the loaded pages one after the other, starting one abandons whatever    *)
(* read was in flight, and so does asking for one more page.  Every column *)
(* is on screen (the phone layout that mounts one is left out), and nobody *)
(* but this client moves cards: a board is never told of what others do.   *)
(***************************************************************************)
EXTENDS Naturals, Sequences, FiniteSets, Functions

Seqs == INSTANCE SequencesExt

CONSTANTS Card,      \* leads with one open instance in the journey
          Column,    \* its active statuses
          Slot,      \* moves that may be in flight at once
          Absent,      \* a column never read, a slot without a move
          PageSize,  \* BOARD_PAGE_SIZE
          MaxPages,  \* a bound on "Load more"
          MaxDrops   \* a bound on the moves of a behaviour

VARIABLES home,    \* server: the cards of each status, last updated first
          cache,   \* client: the pages loaded of each column
          reading, \* client: the read in flight for a column
          moves,   \* mutations in flight, with the snapshots they keep
          drops,   \* moves begun so far
          astray,  \* ghost: cards moved by the server out of a column they were not dragged from
          adrift,  \* requests the client has given up and the server has not
          missed   \* ghost: columns that nothing is to read again, though a "Load more"
                   \* abandoned their refetch or a given-up request changed them

boardVars == <<home, cache, reading, moves, drops, astray, adrift, missed>>

Outcome == {"asked", "done", "refused", "lost"}
Page == [rows : Seq(Card), total : Nat]
Fetch == [more : BOOLEAN, got : Seq(Page), want : Nat]
Dragged == [no : 1..MaxDrops, card : Card, from : Column, to : Column, at : Outcome,
         previousFrom : Seq(Page) \cup {Absent}, previousTo : Seq(Page) \cup {Absent}]

ASSUME BoardAssumption ==
  /\ PageSize \in Nat \ {0} /\ MaxPages \in Nat \ {0} /\ MaxDrops \in Nat
  /\ IsFiniteSet(Card)
  /\ Absent \notin Seq(Page) \cup Fetch \cup Dragged

columnRows(pages) == Seqs!FlattenSeq([i \in DOMAIN pages |-> pages[i].rows])
HasNextPage(pages) == Len(columnRows(pages)) < Seqs!Last(pages).total
Holds(pages, x) == \E i \in DOMAIN pages : x \in Range(pages[i].rows)
Shown(c) == IF cache[c] = Absent THEN {} ELSE Range(columnRows(cache[c]))

(* What the server answers when page n of a column is asked for.           *)
ListPage(c, n) ==
  [rows  |-> SubSeq(home[c], (n - 1) * PageSize + 1,
                    IF n * PageSize < Len(home[c]) THEN n * PageSize ELSE Len(home[c])),
   total |-> Len(home[c])]

-----------------------------------------------------------------------------
(* The optimistic patches.                                                 *)

(* The rows without a card, as filter keeps them.                          *)
Without(s, x) ==
  LET kept[i \in 0 .. Len(s)] ==
        IF i = 0 THEN <<>> ELSE IF s[i] = x THEN kept[i - 1] ELSE Append(kept[i - 1], s[i])
  IN  kept[Len(s)]

removeRow(pages, x) ==
  IF pages = Absent \/ ~Holds(pages, x) THEN pages
  ELSE [i \in DOMAIN pages |->
         [rows  |-> Without(pages[i].rows, x),
          total |-> IF pages[i].total = 0 THEN 0 ELSE pages[i].total - 1]]

insertRowAtHead(pages, x) ==
  IF pages = Absent THEN pages
  ELSE [i \in DOMAIN pages |->
         [rows  |-> (IF i = 1 THEN <<x>> ELSE <<>>) \o Without(pages[i].rows, x),
          total |-> pages[i].total + (IF Holds(pages, x) THEN 0 ELSE 1)]]

(* A read of every loaded page, from the first.                            *)
Refetch(pages) == [more |-> FALSE, got |-> <<>>, want |-> IF pages = Absent THEN 1 ELSE Len(pages)]

(* Mutant: nothing is read again. *)
LeftAlone(columns, pages) == reading

(* invalidateQueries on columns that are on screen.                        *)
Invalidated(columns, pages) ==
  [c \in Column |-> IF c \in columns THEN Refetch(pages[c]) ELSE reading[c]]

-----------------------------------------------------------------------------
BoardInit ==
  /\ home \in [Column -> UNION {[1..n -> Card] : n \in 0..Cardinality(Card)}]
  /\ \A x \in Card : \E c \in Column : \E i \in DOMAIN home[c] :
       \A d \in Column : \A k \in DOMAIN home[d] : home[d][k] = x <=> d = c /\ k = i
  /\ cache = [c \in Column |-> Absent]
  /\ reading = [c \in Column |-> Refetch(Absent)]
  /\ moves = [m \in Slot |-> Absent] /\ drops = 0
  /\ astray = {} /\ adrift = {} /\ missed = {}

Pending == {m \in Slot : moves[m] # Absent}

(* A card is dropped on another column (or sent there by its Move menu).   *)
MoveCard(m, x, from, to) ==
  /\ moves[m] = Absent /\ x \in Shown(from) /\ to # from
  /\ drops < MaxDrops /\ drops' = drops + 1
  /\ moves' = [moves EXCEPT ![m] = [no |-> drops', card |-> x, from |-> from, to |-> to,
                                    at |-> "asked",
                                    previousFrom |-> cache[from], previousTo |-> cache[to]]]
  /\ cache' = [cache EXCEPT ![from] = removeRow(@, x), ![to] = insertRowAtHead(@, x)]
  /\ reading' = [reading EXCEPT ![from] = Absent, ![to] = Absent]
  /\ UNCHANGED <<home, astray, adrift, missed>>

(* The server carries out an edit: the card is the last one updated.       *)
Carried(x, to) ==
  [c \in Column |-> (IF c = to THEN <<x>> ELSE <<>>) \o Without(home[c], x)]

Apply(m) ==
  /\ m \in Pending /\ moves[m].at = "asked"
  /\ home' = Carried(moves[m].card, moves[m].to)
  /\ moves' = [moves EXCEPT ![m].at = "done"]
  /\ astray' = IF moves[m].card \in Range(home[moves[m].from]) THEN astray
               ELSE astray \cup {moves[m].card}
  /\ UNCHANGED <<cache, reading, drops, adrift, missed>>

(* The server refuses it: a required field is missing, the user may not, or *)
(* the status is not one of the journey any more.                          *)
Reject(m) ==
  /\ m \in Pending /\ moves[m].at = "asked"
  /\ moves' = [moves EXCEPT ![m].at = "refused"]
  /\ UNCHANGED <<home, cache, reading, drops, astray, adrift, missed>>

(* The client gets no answer (the connection ends, a proxy answers 504).    *)
(* What the server has not carried out by then it may yet.                 *)
Lose(m) ==
  /\ m \in Pending /\ moves[m].at \in {"asked", "done"}
  /\ moves' = [moves EXCEPT ![m].at = "lost"]
  /\ adrift' = IF moves[m].at = "asked"
                 THEN adrift \cup {[no |-> moves[m].no, card |-> moves[m].card, to |-> moves[m].to]}
                 ELSE adrift
  /\ UNCHANGED <<home, cache, reading, drops, astray, missed>>

(* It does, and nobody is told.                                            *)
ApplyLate(r) ==
  /\ r \in adrift /\ adrift' = adrift \ {r}
  /\ home' = Carried(r.card, r.to)
  /\ missed' = missed \cup {r.to} \cup {c \in Column : r.card \in Range(home[c])}
  /\ UNCHANGED <<cache, reading, moves, drops, astray>>

(* onError and onSettled: a move that did not succeed puts both snapshots  *)
(* back, and either way both columns are read again; the whole board is    *)
(* when nobody can say what happened.                                      *)
Settle(m) ==
  /\ m \in Pending /\ moves[m].at # "asked"
  /\ LET v == moves[m]
         stale == IF v.at = "lost" THEN Column ELSE {v.from, v.to}
     IN  /\ cache' = IF v.at = "done" THEN cache
                     ELSE [cache EXCEPT ![v.from] = v.previousFrom, ![v.to] = v.previousTo]
         /\ reading' = Invalidated(stale, cache')
         /\ missed' = missed \ stale
  /\ moves' = [moves EXCEPT ![m] = Absent]
  /\ UNCHANGED <<home, drops, astray, adrift>>

(* One page arrives.  A refetch replaces the column when its last page is  *)
(* in; one more page is appended to the pages it was asked with.           *)
ReadPage(c) ==
  /\ reading[c] # Absent
  /\ LET r == reading[c]
         got == Append(r.got, ListPage(c, Len(r.got) + 1))
     IN  IF Len(got) = r.want \/ ~HasNextPage(got)
         THEN /\ cache' = [cache EXCEPT ![c] = got]
              /\ reading' = [reading EXCEPT ![c] = Absent]
         ELSE /\ reading' = [reading EXCEPT ![c].got = got]
              /\ UNCHANGED cache
  /\ UNCHANGED <<home, moves, drops, astray, adrift, missed>>

(* "Load more", which is only disabled while it is itself loading.         *)
LoadMore(c) ==
  /\ cache[c] # Absent /\ HasNextPage(cache[c]) /\ Len(cache[c]) < MaxPages
  /\ reading[c] # Absent => ~reading[c].more
  /\ reading' = [reading EXCEPT ![c] = [more |-> TRUE, got |-> cache[c],
                                        want |-> Len(cache[c]) + 1]]
  /\ missed' = IF reading[c] # Absent THEN missed \cup {c} ELSE missed
  /\ UNCHANGED <<home, cache, moves, drops, astray, adrift>>

(* The refresh button of the top bar.                                      *)
Refresh ==
  /\ reading' = Invalidated(Column, cache)
  /\ missed' = {}
  /\ astray' = {x \in astray : \E m \in Pending : moves[m].card = x}
  /\ UNCHANGED <<home, cache, moves, drops, adrift>>

BoardNext ==
  \/ \E m \in Slot :
       \/ \E x \in Card, from, to \in Column : MoveCard(m, x, from, to)
       \/ Apply(m) \/ Reject(m) \/ Lose(m) \/ Settle(m)
  \/ \E r \in adrift : ApplyLate(r)
  \/ \E c \in Column : ReadPage(c) \/ LoadMore(c)
  \/ Refresh

BoardSpec == BoardInit /\ [][BoardNext]_boardVars

-----------------------------------------------------------------------------
(* Every variable has its type.                                            *)
BoardTypeOK ==
  /\ home \in [Column -> Seq(Card)]
  /\ cache \in [Column -> Seq(Page) \cup {Absent}]
  /\ reading \in [Column -> Fetch \cup {Absent}]
  /\ \A c \in Column : reading[c] # Absent => Len(reading[c].got) < reading[c].want /\ reading[c].want <= MaxPages
  /\ moves \in [Slot -> Dragged \cup {Absent}]
  /\ drops \in 0..MaxDrops /\ astray \subseteq Card /\ missed \subseteq Column
  /\ adrift \subseteq [no : 1..MaxDrops, card : Card, to : Column]

Quiet == Pending = {} /\ \A c \in Column : reading[c] = Absent

(* A column shows the first of the server's rows, and the server's count.  *)
Truthful(c) ==
  /\ cache[c] # Absent
  /\ Seqs!IsPrefix(columnRows(cache[c]), home[c])
  /\ cache[c][1].total = Len(home[c])

(* However many moves overlapped, were refused or were never answered, a   *)
(* board at rest shows what the server has: the snapshots of one move, that *)
(* may hold another's patch, and the reads a move abandons never outlive   *)
(* the last answer.  Three things are excepted, each a way the board does   *)
(* stay wrong: a card the server takes out of another column than the one  *)
(* it was dragged from (an earlier drop of it was in flight, or its answer *)
(* was lost), for nothing reads that column again; a column whose refetch  *)
(* "Load more" abandoned; and one changed by a request that the server      *)
(* carried out after its client had given it up.                           *)
QuietBoardIsTrue ==
  BoardTypeOK /\ (Quiet /\ astray = {} => \A c \in Column \ missed : Truthful(c))

(* The comment on the rollback: no drift if the same card was moved twice  *)
(* in quick succession.                                                    *)
NoDrift == Quiet /\ missed = {} => \A c \in Column : Truthful(c)
=============================================================================
