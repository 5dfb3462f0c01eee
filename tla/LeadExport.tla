----------------------------- MODULE LeadExport ------------------------------
(***************************************************************************)
(* The export of the list of leads (buildSellerExport of export/service.ts *)
(* over listSellers of leads/prisma-lead-repository.ts): the list is read  *)
(* page by page, by offset, every page in three statements of their own,   *)
(* while other users change, create and remove leads.                      *)
(*                                                                         *)
(* What the user may see is the active leads with an instance in a journey *)
(* of Allowed; LeadAccess says who that is.  There is a line for every     *)
(* such instance, and one for a lead that has lost them all meanwhile.     *)
(***************************************************************************)
EXTENDS Naturals, Sequences, FiniteSets, SequencesExt

CONSTANTS LeadId, Journey, Allowed,
          Starts,    \* the leads there may be at first, in the order of the list
          Requested, \* the page size the export asks for ...
          Capped,    \* ... and the one that listSellers makes of it
          maxExportRows,
          MaxWrites, \* bound: what others do during an export
          None

VARIABLES lead,     \* for each lead the journeys of its instances; {} when there is no active lead
          sorted,   \* all leads in the order of the list: by the time of the last update, or by name
          byName,
          export,   \* the loop: page, what its statements have read, and how many leads so far
          lines, truncated,
          touched, retreated, \* ghosts: the leads written during the export; one left its place towards the end
          exportWrites

exportVars == <<lead, sorted, byName, export, lines, truncated, touched, retreated, exportWrites>>

Listed == SelectSeq(sorted, LAMBDA l : lead[l] \cap Allowed # {})
PageOf(seq, page) ==
  LET last == IF page * Capped < Len(seq) THEN page * Capped ELSE Len(seq)
  IN  SubSeq(seq, (page - 1) * Capped + 1, last)

(* The lines of a lead, one for each instance in a journey of Allowed.     *)
expand(l) ==
  IF lead[l] \cap Allowed = {} THEN <<[lead |-> l, journey |-> None]>>
  ELSE LET js == SetToSeq(lead[l] \cap Allowed)
       IN  [i \in DOMAIN js |-> [lead |-> l, journey |-> js[i]]]
Lines(ls) == FlattenSeq([i \in DOMAIN ls |-> expand(ls[i])])

ExportInit ==
  /\ \E s \in Starts : lead = s.lead /\ sorted = s.sorted
  /\ byName \in BOOLEAN
  /\ export = [at |-> "idle", page |-> 1, ids |-> <<>>, total |-> 0, fetched |-> 0]
  /\ lines = <<>> /\ truncated = FALSE /\ touched = {} /\ retreated = FALSE /\ exportWrites = 0

Reading == UNCHANGED <<lead, sorted, byName, touched, retreated, exportWrites>>

Start == export.at = "idle" /\ export' = [export EXCEPT !.at = "ids"] /\ Reading /\ UNCHANGED <<lines, truncated>>

(* The ids of the page and the number of leads: two statements at a time,  *)
(* which no transaction holds together, in either order.                   *)
ReadIds ==
  /\ export.at \in {"ids", "onlyIds"}
  /\ export' = [export EXCEPT !.at = IF @ = "ids" THEN "count" ELSE "rows", !.ids = PageOf(Listed, export.page)]
  /\ Reading /\ UNCHANGED <<lines, truncated>>
ReadCount ==
  /\ export.at \in {"ids", "count"}
  /\ export' = [export EXCEPT !.at = IF @ = "ids" THEN "onlyIds" ELSE "rows", !.total = Len(Listed)]
  /\ Reading /\ UNCHANGED <<lines, truncated>>

Ends(fetched, rows) == fetched >= export.total \/ rows = <<>>

(* The rows, in the order of the ids; the loop ends when it has as many    *)
(* leads as there are, on an empty page, or when there are too many lines. *)
ReadRows ==
  /\ export.at = "rows"
  /\ LET fetched == export.fetched + Len(export.ids)
         all     == lines \o Lines(export.ids)
     IN  /\ truncated' = (Len(all) > maxExportRows)
         /\ lines' = SubSeq(all, 1, IF truncated' THEN maxExportRows ELSE Len(all))
         /\ export' = [export EXCEPT !.at = IF truncated' \/ Ends(fetched, export.ids) THEN "done" ELSE "ids",
                                     !.page = @ + 1, !.fetched = fetched]
  /\ Reading

(* Another user writes a lead: it goes to the front, or to wherever its    *)
(* new name belongs; it enters journeys or leaves them, for good, too.     *)
Write(l) ==
  /\ export.at # "done" /\ exportWrites < MaxWrites /\ exportWrites' = exportWrites + 1
  /\ \E js \in SUBSET Journey : lead' = [lead EXCEPT ![l] = js]
  /\ LET others == SelectSeq(sorted, LAMBDA m : m # l) IN
     \E i \in 1..Len(sorted) :
       /\ byName \/ i = 1
       /\ sorted' = InsertAt(others, i, l)
       /\ retreated' = (retreated \/ lead'[l] \cap Allowed = {} \/ \E k \in 1..(i - 1) : sorted[k] = l)
  /\ touched' = touched \cup {l}
  /\ UNCHANGED <<byName, export, lines, truncated>>

ExportNext == Start \/ ReadIds \/ ReadCount \/ ReadRows \/ \E l \in LeadId : Write(l)
ExportSpec == ExportInit /\ [][ExportNext]_exportVars

-----------------------------------------------------------------------------
ExportTypeOK ==
  /\ lead \in [LeadId -> SUBSET Journey] /\ IsInjective(sorted) /\ Range(sorted) = LeadId
  /\ export.at \in {"idle", "ids", "onlyIds", "count", "rows", "done"} /\ export.page \in 1..(Cardinality(LeadId) + MaxWrites + 2)
  /\ Len(lines) <= maxExportRows

(* An export that nobody disturbs is the list, to its end, however the     *)
(* list cut its pages; when it is shorter, it says so.                     *)
CalmExportIsTheList ==
  export.at = "done" /\ touched = {} =>
    /\ truncated = (Len(Lines(Listed)) > maxExportRows)
    /\ lines = SubSeq(Lines(Listed), 1, Len(lines)) /\ (truncated \/ lines = Lines(Listed))

(* A lead that nobody wrote is in the export although others were written  *)
(* while it ran, unless one of those went away or towards the end of the   *)
(* list, which moves what was not read yet to a page that was.             *)
OnlyRetreatsHideLeads ==
  export.at = "done" /\ ~truncated /\ ~retreated =>
    \A l \in LeadId \ touched : lead[l] \cap Allowed # {} => \E i \in DOMAIN lines : lines[i].lead = l
=============================================================================
