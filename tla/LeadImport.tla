----------------------------- MODULE LeadImport -----------------------------
(***************************************************************************)
(* Bulk import of leads (import/service.ts, import/mapping.ts,             *)
(* import/matching.ts).                                                    *)
(*                                                                         *)
(* A run looks up what it needs, then takes the rows of its file one by    *)
(* one in a single READ COMMITTED transaction with a savepoint per row,    *)
(* and at the end keeps everything or nothing.  Runs overlap each other,   *)
(* leads created one at a time, and changes of the configuration.          *)
(*                                                                         *)
(* A row is what the run can tell apart about its cells: the value of the  *)
(* match key, the status and the owner it names, and whether its cells can *)
(* be read as the types of their fields.                                   *)
(***************************************************************************)
EXTENDS Naturals, Sequences, FiniteSets

CONSTANTS
  Session,   \* request handlers that run at the same time
  File,      \* contents there are: sequences of rows
  MatchKey,       \* values of the match key
  Configs,   \* what administrators turn the configuration into
  User,      \* users a file may name
  MaxRun,    \* bound: imports ever begun
  MaxOther,  \* bound: leads created singly, and changes of the configuration
  Blank      \* an empty cell

Row == [key : MatchKey \cup {Blank}, status : {"default", "other", "unknown"},
        owner : User \cup {Blank}, complete : BOOLEAN, readable : BOOLEAN]

ASSUME FileAssumption == File \subseteq Seq(Row) /\ <<>> \notin File
ASSUME ConfigAssumption ==
  Configs \subseteq [statuses : SUBSET {"default", "other"}, users : SUBSET User, strict : BOOLEAN]
ASSUME BlankAssumption == Blank \notin MatchKey \cup User /\ MaxRun \in Nat /\ MaxOther \in Nat

Run == 1 .. MaxRun
Other == 0      \* stands for a run where a lead was created singly

VARIABLES
  leads,     \* committed leads
  jobs,      \* import_jobs with their import_job_rows, by run
  config,    \* what is active, and whether a field of the journey is required
  session,   \* imports under way
  begun,     \* how many there have been
  others,    \* how often anything else has happened
  foretold   \* history: previews nothing has happened since

vars == <<leads, jobs, config, session, begun, others, foretold>>

Config == [statuses : SUBSET {"default", "other"}, users : SUBSET User, strict : BOOLEAN]
Lead == [run : {Other} \cup Run, row : Nat, key : MatchKey \cup {Blank}, owner : User \cup {Blank}]
Outcome == {"created", "skipped_duplicate", "rejected"}
Request == [file : File, matching : BOOLEAN, stopOnError : BOOLEAN, mode : {"preview", "commit"}]
Job == [request : Request, outcomes : Seq(Outcome)]
NoJob == [outcomes |-> <<>>]

Idle == [at |-> "idle"]
Import == [at : {"row", "create", "end"}, run : Run, request : Request, statuses : SUBSET {"default", "other"},
           users : SUBSET User, outcomes : Seq(Outcome), made : SUBSET Lead,
           known : SUBSET Lead, undisturbed : BOOLEAN]

TypeOK ==
  /\ leads \subseteq Lead /\ config \in Config
  /\ jobs \in [Run -> Job \cup {NoJob}]
  /\ session \in [Session -> Import \cup {Idle}]
  /\ begun \in 0 .. MaxRun /\ others \in 0 .. MaxOther
  /\ foretold \subseteq Job

Init ==
  /\ leads = {} /\ jobs = [r \in Run |-> NoJob]
  /\ config = [statuses |-> {"default", "other"}, users |-> User, strict |-> FALSE]
  /\ session = [s \in Session |-> Idle] /\ begun = 0 /\ others = 0
  /\ foretold = {}

Busy == {s \in Session : session[s] # Idle}
At(s) == session[s].at
RowOf(s) == session[s].request.file[Len(session[s].outcomes) + 1]

(* validateMapping and the look-ups before the transaction: the active      *)
(* statuses of the journey, and the active users the file names.            *)
Begin(s, q) ==
  /\ session[s] = Idle /\ begun < MaxRun
  /\ begun' = begun + 1
  /\ session' = [session EXCEPT ![s] =
       [at |-> "row", run |-> begun', request |-> q, statuses |-> config.statuses,
        users |-> config.users, outcomes |-> <<>>, made |-> {}, known |-> leads,
        undisturbed |-> TRUE]]
  /\ UNCHANGED <<leads, jobs, config, others, foretold>>

Decided(s, outcome, made) ==
  session' = [session EXCEPT
    ![s].outcomes = Append(@, outcome), ![s].made = made,
    ![s].at = IF Len(session[s].outcomes) + 1 = Len(session[s].request.file) THEN "end" ELSE "row"]

(* buildDuplicateQuery: nothing matches a row whose cell is blank.  The     *)
(* statement sees what has been committed and the rows above in this file.  *)
SeenCommitted(s) == leads \cup (IF session[s].request.mode = "preview" THEN {} ELSE session[s].made)
Seen(s) == leads \cup session[s].made

Duplicate(s, row) ==
  /\ session[s].request.matching /\ row.key # Blank
  /\ \E l \in Seen(s) : l.key = row.key

Skipped == "skipped_duplicate"

Resolved(s, row) ==
  /\ row.status = "default" \/ row.status \in session[s].statuses
  /\ row.owner = Blank \/ row.owner \in session[s].users

(* processRow up to the creation.                                           *)
Match(s) ==
  LET row == RowOf(s)
  IN /\ At(s) = "row"
     /\ \/ ~row.readable /\ Decided(s, "rejected", session[s].made)
        \/ row.readable /\ Duplicate(s, row) /\ Decided(s, Skipped, session[s].made)
        \/ /\ row.readable /\ ~Duplicate(s, row) /\ ~Resolved(s, row)
           /\ Decided(s, "rejected", session[s].made)
        \/ /\ row.readable /\ ~Duplicate(s, row) /\ Resolved(s, row)
           /\ session' = [session EXCEPT ![s].at = "create"]
     /\ UNCHANGED <<leads, jobs, config, begun, others, foretold>>

(* LeadService.createLead, which validates by the configuration of now and  *)
(* asks of an owner only that there is such a user.  A refusal rolls back   *)
(* to the savepoint of the row.                                             *)
Creatable(row) == row.status \in config.statuses /\ (config.strict => row.complete)

CreateLead(s) ==
  LET row == RowOf(s)
      lead == [run |-> session[s].run, row |-> Len(session[s].outcomes) + 1,
               key |-> row.key, owner |-> row.owner]
  IN /\ At(s) = "create"
     /\ \/ Creatable(row) /\ Decided(s, "created", session[s].made \cup {lead})
        \/ ~Creatable(row) /\ Decided(s, "rejected", session[s].made)
     /\ UNCHANGED <<leads, jobs, config, begun, others, foretold>>

(* Whatever happens elsewhere: previews lose their worth, and runs in       *)
(* progress are no longer the only ones to have moved.                      *)
Disturbed(except) ==
  [t \in Session |-> IF t = except THEN Idle
                     ELSE IF t \in Busy THEN [session[t] EXCEPT !.undisturbed = FALSE] ELSE Idle]

(* The end of a run: what it has written, its job included, is kept by a    *)
(* commit, unless it was to stop on an error and there is one.              *)

Kept(q, outcomes) ==
  /\ q.mode = "commit"
  /\ q.stopOnError => \A i \in DOMAIN outcomes : outcomes[i] # "rejected"

Finish(s) ==
  LET q == session[s].request
      job == [request |-> q, outcomes |-> session[s].outcomes]
  IN /\ At(s) = "end"
     /\ \/ /\ Kept(q, job.outcomes)
           /\ leads' = leads \cup session[s].made
           /\ jobs' = [jobs EXCEPT ![session[s].run] = job]
           /\ session' = Disturbed(s) /\ foretold' = {}
        \/ /\ ~Kept(q, job.outcomes)
           /\ foretold' = IF session[s].undisturbed THEN foretold \cup {job} ELSE foretold
           /\ session' = [session EXCEPT ![s] = Idle] /\ UNCHANGED <<leads, jobs>>
     /\ UNCHANGED <<config, begun, others>>

(* A database fault, or the transaction's time limit: the file rolls back.  *)
Fault(s) ==
  /\ session[s] # Idle
  /\ session' = [session EXCEPT ![s] = Idle]
  /\ UNCHANGED <<leads, jobs, config, begun, others, foretold>>

Elsewhere ==
  /\ others < MaxOther /\ others' = others + 1
  /\ session' = Disturbed(Idle) /\ foretold' = {} /\ UNCHANGED <<jobs, begun>>

(* A lead created by the form, which matches nothing.                       *)
CreateSingle(k) ==
  /\ Elsewhere
  /\ leads' = leads \cup {[run |-> Other, row |-> others', key |-> k, owner |-> Blank]}
  /\ UNCHANGED config

Reconfigure(c) ==
  /\ Elsewhere /\ c # config /\ config' = c
  /\ UNCHANGED leads

Next ==
  \/ \E s \in Session :
       \/ \E q \in Request : Begin(s, q)
       \/ Match(s) \/ CreateLead(s) \/ Finish(s) \/ Fault(s)
  \/ \E k \in MatchKey : CreateSingle(k)
  \/ \E c \in Configs : Reconfigure(c)

Spec == Init /\ [][Next]_vars

(* A run leaves its leads if and only if it leaves its job, and the job's   *)
(* rows say of each row of the file what became of it: created + skipped +  *)
(* rejected is the row count, and no rejected row left anything behind.     *)
JobsAccountForLeads ==
  \A r \in Run :
    LET mine == {l \in leads : l.run = r}  o == jobs[r].outcomes
    IN /\ {l.row : l \in mine} = {i \in DOMAIN o : o[i] = "created"}
       /\ jobs[r] # NoJob => Len(o) = Len(jobs[r].request.file)

(* What was to be all or nothing was.                                       *)
StopMeansNothing ==
  \A r \in Run : jobs[r] # NoJob =>
    /\ jobs[r].request.mode = "commit"
    /\ jobs[r].request.stopOnError => \A i \in DOMAIN jobs[r].outcomes : jobs[r].outcomes[i] # "rejected"

(* Rows see each other: with matching on, a lead is created only when       *)
(* nothing with its key was there as the run began, a file sent again after *)
(* its first run included, and no other row of the file created one.  No     *)
(* unique key helps, so two runs in progress together can.                  *)
NoTwins ==
  [][\A s \in Session : session[s] # Idle /\ session[s].request.matching =>
       \A l \in leads' \ leads : l.run = session[s].run /\ l.key # Blank =>
         \A k \in leads' \ {l} :
           k \in session[s].known \/ k.run = l.run => k.key # l.key]_vars

(* ADR-0016: the dry run predicts what the commit does.  So it does when    *)
(* nothing else was committed since the preview began, whatever other       *)
(* imports were tried in the meantime.                                      *)
PreviewForetells ==
  [][\A r \in Run :
       jobs[r] = NoJob /\ jobs'[r] # NoJob =>
         \A p \in foretold :
           /\ p.request = [jobs'[r].request EXCEPT !.mode = "preview"]
           /\ \E s \in Session : session[s] # Idle /\ session[s].run = r /\ session[s].undisturbed
           => p.outcomes = jobs'[r].outcomes]_vars

(* A commit does what its preview said and its job says, once.               *)
ImportsAddUp == [](JobsAccountForLeads /\ StopMeansNothing) /\ NoTwins /\ PreviewForetells

(* prisma-import-repository.ts: a row that names someone who has left is    *)
(* rejected.  The look-up is made once, before the first row.               *)
NobodyWhoLeft ==
  [][\A l \in leads' \ leads : l.owner = Blank \/ l.owner \in config.users]_vars
=============================================================================
