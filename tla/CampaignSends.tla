--------------------------- MODULE CampaignSends ---------------------------
(***************************************************************************)
(* The campaign_sends ledger of one organization and the drains that turn  *)
(* its pending rows into email: CampaignSendService (drainPending,         *)
(* retryFailed, mark), CampaignService.queueManualSend and setActive,      *)
(* CampaignTriggerService.evaluate, and the send and retry routes.         *)
(*                                                                         *)
(* A row is a (campaign, lead) pair: the table's unique index on the pair  *)
(* makes that its identity.  Every SQL statement of a drain is one step,   *)
(* so drains interleave exactly where the code awaits.                     *)
(*                                                                         *)
(* Time is kept as ages instead of timestamps: age[d] is the time since    *)
(* drain d read its clock, claimAge[r] the time since the claimed_at that  *)
(* row r carries.  Comparisons of timestamps become comparisons of ages,   *)
(* and the state space stays finite.  The code sets no limit to how long a *)
(* drain runs: MaxAge only bounds what a behaviour explores.               *)
(***************************************************************************)
EXTENDS Naturals, FiniteSets

CONSTANTS
  Campaign,     \* the campaigns of the organization
  Lead,
  Drain,        \* request handlers that may run a drain at the same time
  Lease,        \* campaignSendLeaseMs, in ticks
  MaxAttempts,  \* maxCampaignSendAttempts
  BatchLimit,   \* options.limit ?? 500
  MaxAge,       \* bound: the ticks that may pass during one drain
  MaxFaults,    \* bound: crashes and failed statements in one behaviour
  NoSend         \* "no row is being delivered"

ASSUME NumberAssumption ==
  /\ Lease \in Nat /\ MaxAttempts \in Nat /\ MaxAge \in Nat
  /\ BatchLimit \in Nat \ {0}
  /\ MaxFaults \in Nat
ASSUME FiniteAssumption == IsFiniteSet(Campaign) /\ IsFiniteSet(Lead)

Row == Campaign \X Lead

ASSUME NoSendAssumption == NoSend \notin Row

VARIABLES
  (* campaign_sends *)
  sendStatus,     \* "none" while the row does not exist
  attempts,
  claimAge,   \* age of claimed_at; only meaningful while "sending"
  createdAt,  \* rank of created_at: the number of rows older than this one
  (* campaigns.active, campaigns.type and leads.email *)
  activeCampaigns,
  manual,     \* those of type 'manual'; the others are 'triggered'
  mailable,   \* the leads with a non-blank email
  (* the drains *)
  pc,
  scope,      \* the campaigns the drain is limited to
  age,        \* time since its `now`
  batch,      \* candidates not yet offered a claim
  addressed,  \* candidates whose lead had an address when they were selected
  row,        \* the row being delivered
  outcome,    \* the outcome to be recorded for it
  (* history *)
  delivered,  \* how often the transport accepted an email for the row
  lost,       \* how often the record of such a delivery was lost
  taken,      \* how often the row was reclaimed from a drain that had outlived
              \* its lease and was still delivering it
  faults

ledger == <<sendStatus, attempts, claimAge, createdAt>>
campaigns == <<activeCampaigns, manual, mailable>>
drains == <<pc, scope, age, batch, addressed, row, outcome>>
history == <<delivered, lost, taken, faults>>
sendVars == <<ledger, campaigns, drains, history>>

SendStatus == {"none", "pending", "sending", "sent", "failed", "skipped_no_email"}
Outcome == {"sent", "failed", "skipped_no_email"}
PC == {"idle", "queue", "reclaim", "select", "claim", "send", "mark"}

(* An age beyond this compares like this one with every cutoff. *)
AgeCap == Lease + MaxAge + 1

SendTypeOK ==
  /\ sendStatus \in [Row -> SendStatus]
  /\ attempts \in [Row -> Nat]
  /\ claimAge \in [Row -> 0 .. AgeCap]
  /\ createdAt \in [Row -> Nat]
  /\ activeCampaigns \in SUBSET Campaign
  /\ manual \in SUBSET Campaign
  /\ mailable \in SUBSET Lead
  /\ pc \in [Drain -> PC]
  /\ scope \in [Drain -> SUBSET Campaign]
  /\ age \in [Drain -> 0 .. MaxAge]
  /\ batch \in [Drain -> SUBSET Row]
  /\ addressed \in [Drain -> SUBSET Row]
  /\ row \in [Drain -> Row \cup {NoSend}]
  /\ outcome \in [Drain -> Outcome \cup {"none"}]
  /\ delivered \in [Row -> Nat]
  /\ lost \in [Row -> Nat]
  /\ taken \in [Row -> Nat]
  /\ faults \in 0 .. MaxFaults

Existing == {r \in Row : sendStatus[r] # "none"}
InScope(d, r) == r[1] \in scope[d]
Running(d) == pc[d] \notin {"idle", "queue"}
Sending(d) == pc[d] \in {"send", "mark"}

(* Drain d has claimed row r and not yet recorded its outcome. *)
InFlight(d, r) == Sending(d) /\ row[d] = r

PendingIn(d) == {r \in Row : sendStatus[r] = "pending" /\ InScope(d, r)}

SendInit ==
  /\ sendStatus = [r \in Row |-> "none"]
  /\ attempts = [r \in Row |-> 0]
  /\ claimAge = [r \in Row |-> 0]
  /\ createdAt = [r \in Row |-> 0]
  /\ activeCampaigns = Campaign
  /\ manual \in SUBSET Campaign
  /\ mailable \in SUBSET Lead
  /\ pc = [d \in Drain |-> "idle"]
  /\ scope = [d \in Drain |-> {}]
  /\ age = [d \in Drain |-> 0]
  /\ batch = [d \in Drain |-> {}]
  /\ addressed = [d \in Drain |-> {}]
  /\ row = [d \in Drain |-> NoSend]
  /\ outcome = [d \in Drain |-> "none"]
  /\ delivered = [r \in Row |-> 0]
  /\ lost = [r \in Row |-> 0]
  /\ taken = [r \in Row |-> 0]
  /\ faults = 0

-----------------------------------------------------------------------------
(* Queueing rows.                                                          *)

(* INSERT ... ON CONFLICT DO NOTHING of the rows R as 'pending'. *)
InsertPending(R) ==
  LET new == R \ Existing
  IN  /\ sendStatus' = [r \in Row |-> IF r \in new THEN "pending" ELSE sendStatus[r]]
      /\ createdAt' = [r \in Row |->
                         IF r \in new THEN Cardinality(Existing) ELSE createdAt[r]]
      /\ UNCHANGED <<attempts, claimAge>>

(* A status change fires the active triggered campaign c for lead l, inside *)
(* the transaction of the change.  Only the entry that creates the row is a *)
(* step: the upsert of a row that exists changes nothing.                   *)
Evaluate(c, l) ==
  /\ c \in activeCampaigns \ manual
  /\ <<c, l>> \notin Existing
  /\ InsertPending({<<c, l>>})
  /\ UNCHANGED <<campaigns, drains, history>>

(* The send route checked that c is manual and active; its filter is        *)
(* evaluated and the rows are queued by a later statement.                  *)
SendCampaign(d, c) ==
  /\ pc[d] = "idle"
  /\ c \in manual \cap activeCampaigns
  /\ pc' = [pc EXCEPT ![d] = "queue"]
  /\ scope' = [scope EXCEPT ![d] = {c}]
  /\ UNCHANGED <<ledger, campaigns, age, batch, addressed, row, outcome, history>>

(* One createMany with skipDuplicates for the leads L the filter matched,   *)
(* after which drainPending reads its clock.                                *)
QueueManualSend(d, L) ==
  /\ pc[d] = "queue"
  /\ InsertPending(scope[d] \X L)
  /\ pc' = [pc EXCEPT ![d] = "reclaim"]
  /\ age' = [age EXCEPT ![d] = 0]
  /\ UNCHANGED <<campaigns, scope, batch, addressed, row, outcome, history>>

RequeueAny(c, r) == r[1] = c /\ sendStatus[r] = "failed"   \* mutant: no attempt cap

Requeued(c, r) == r[1] = c /\ sendStatus[r] = "failed" /\ attempts[r] < MaxAttempts

(* The retry route: failed rows below the cap become pending again, then    *)
(* the campaign is drained.  The route does not look at campaigns.active.   *)
RetryFailed(d, c) ==
  /\ pc[d] = "idle"
  /\ sendStatus' = [r \in Row |->
                  IF Requeued(c, r) THEN "pending" ELSE sendStatus[r]]
  /\ pc' = [pc EXCEPT ![d] = "reclaim"]
  /\ scope' = [scope EXCEPT ![d] = {c}]
  /\ age' = [age EXCEPT ![d] = 0]
  /\ UNCHANGED <<attempts, claimAge, createdAt, campaigns, batch, addressed, row,
                 outcome, history>>

(* A drain of every campaign in S: the organization-wide drain. *)
BeginDrain(d, S) ==
  /\ pc[d] = "idle"
  /\ pc' = [pc EXCEPT ![d] = "reclaim"]
  /\ scope' = [scope EXCEPT ![d] = S]
  /\ age' = [age EXCEPT ![d] = 0]
  /\ UNCHANGED <<ledger, campaigns, batch, addressed, row, outcome, history>>

-----------------------------------------------------------------------------
(* drainPending, one statement at a time.                                   *)

LeaseIgnored(d, r) == sendStatus[r] = "sending"   \* mutant: any claim is reclaimed

(* claimed_at < now - lease, with both sides as ages. *)
LeaseExpired(d, r) ==
  /\ sendStatus[r] = "sending"
  /\ claimAge[r] > age[d] + Lease

(* What had outlived the lease may be an orphan, or a row its drain is still *)
(* delivering: the statement cannot tell them apart.                        *)
Reclaim(d) ==
  LET orphans == {r \in Row : InScope(d, r) /\ LeaseExpired(d, r)}
      alive == {r \in orphans : \E e \in Drain : InFlight(e, r) /\ age[e] > Lease}
  IN  /\ pc[d] = "reclaim"
      /\ taken' = [r \in Row |-> IF r \in alive THEN taken[r] + 1 ELSE taken[r]]
      /\ sendStatus' = [r \in Row |-> IF r \in orphans THEN "pending" ELSE sendStatus[r]]
      /\ claimAge' = [r \in Row |-> IF r \in orphans THEN 0 ELSE claimAge[r]]
      /\ pc' = [pc EXCEPT ![d] = "select"]
      /\ UNCHANGED <<attempts, createdAt, campaigns, scope, age, batch, addressed,
                     row, outcome, delivered, lost, faults>>

(* The candidate set: as many of the oldest pending rows as the limit takes. *)
OldestPending(d) ==
  {B \in SUBSET PendingIn(d) :
     /\ Cardinality(B) <= BatchLimit
     /\ B # PendingIn(d) => Cardinality(B) = BatchLimit
     /\ \A b \in B, r \in PendingIn(d) \ B : createdAt[b] <= createdAt[r]}

(* Each candidate comes with a snapshot of its lead: the address used later. *)
Select(d) ==
  /\ pc[d] = "select"
  /\ \E B \in OldestPending(d) :
       /\ batch' = [batch EXCEPT ![d] = B]
       /\ addressed' = [addressed EXCEPT ![d] = {r \in B : r[2] \in mailable}]
  /\ pc' = [pc EXCEPT ![d] = "claim"]
  /\ UNCHANGED <<ledger, campaigns, scope, age, row, outcome, history>>

IsNext(d, r) == r \in batch[d] /\ \A q \in batch[d] : createdAt[r] <= createdAt[q]

ClaimableAlways(r) == TRUE   \* mutant: the UPDATE does not test the status
Claimable(r) == sendStatus[r] = "pending"

AttemptedNever(n) == n       \* mutant: a claim does not count
Attempted(n) == n + 1

(* The conditional UPDATE found the row pending: it is this drain's now.    *)
(* claimed_at becomes the drain's `now`, which is age[d] old already.       *)
Claim(d, r) ==
  /\ pc[d] = "claim"
  /\ IsNext(d, r)
  /\ Claimable(r)
  /\ sendStatus' = [sendStatus EXCEPT ![r] = "sending"]
  /\ claimAge' = [claimAge EXCEPT ![r] = age[d]]
  /\ attempts' = [attempts EXCEPT ![r] = Attempted(@)]
  /\ batch' = [batch EXCEPT ![d] = @ \ {r}]
  /\ row' = [row EXCEPT ![d] = r]
  /\ IF r \in addressed[d]
       THEN /\ pc' = [pc EXCEPT ![d] = "send"]
            /\ UNCHANGED outcome
       ELSE /\ pc' = [pc EXCEPT ![d] = "mark"]
            /\ outcome' = [outcome EXCEPT ![d] = "skipped_no_email"]
  /\ UNCHANGED <<createdAt, campaigns, scope, age, addressed, history>>

(* It affected no row: another drain got there first. *)
LoseClaim(d, r) ==
  /\ pc[d] = "claim"
  /\ IsNext(d, r)
  /\ ~Claimable(r)
  /\ batch' = [batch EXCEPT ![d] = @ \ {r}]
  /\ UNCHANGED <<ledger, campaigns, pc, scope, age, addressed, row, outcome,
                 history>>

(* The transport accepts the email and sendEmail resolves. *)
Deliver(d) ==
  /\ pc[d] = "send"
  /\ delivered' = [delivered EXCEPT ![row[d]] = @ + 1]
  /\ outcome' = [outcome EXCEPT ![d] = "sent"]
  /\ pc' = [pc EXCEPT ![d] = "mark"]
  /\ UNCHANGED <<ledger, campaigns, scope, age, batch, addressed, row, lost, taken,
                 faults>>

(* Parsing the body or sendEmail throws.  When the transport had accepted   *)
(* the email and only its answer was lost, a delivery goes unrecorded.      *)
DeliverFails(d, accepted) ==
  /\ pc[d] = "send"
  /\ accepted => faults < MaxFaults
  /\ IF accepted
       THEN /\ delivered' = [delivered EXCEPT ![row[d]] = @ + 1]
            /\ lost' = [lost EXCEPT ![row[d]] = @ + 1]
            /\ faults' = faults + 1
            /\ UNCHANGED taken
       ELSE UNCHANGED history
  /\ outcome' = [outcome EXCEPT ![d] = "failed"]
  /\ pc' = [pc EXCEPT ![d] = "mark"]
  /\ UNCHANGED <<ledger, campaigns, scope, age, batch, addressed, row>>

(* The unconditional UPDATE by id that records the outcome. *)
Mark(d) ==
  /\ pc[d] = "mark"
  /\ sendStatus' = [sendStatus EXCEPT ![row[d]] = outcome[d]]
  /\ claimAge' = [claimAge EXCEPT ![row[d]] = 0]
  /\ row' = [row EXCEPT ![d] = NoSend]
  /\ outcome' = [outcome EXCEPT ![d] = "none"]
  /\ pc' = [pc EXCEPT ![d] = "claim"]
  /\ UNCHANGED <<attempts, createdAt, campaigns, scope, age, batch, addressed, history>>

(* Recording 'sent' throws inside the try block: the catch block will record *)
(* the row as failed although its email is out, also over a 'sent' that was  *)
(* committed and whose answer alone was lost.                               *)
MarkSentThrows(d, committed) ==
  /\ pc[d] = "mark"
  /\ outcome[d] = "sent"
  /\ faults < MaxFaults
  /\ IF committed
       THEN /\ sendStatus' = [sendStatus EXCEPT ![row[d]] = "sent"]
            /\ claimAge' = [claimAge EXCEPT ![row[d]] = 0]
       ELSE UNCHANGED <<sendStatus, claimAge>>
  /\ outcome' = [outcome EXCEPT ![d] = "failed"]
  /\ lost' = [lost EXCEPT ![row[d]] = @ + 1]
  /\ faults' = faults + 1
  /\ UNCHANGED <<attempts, createdAt, campaigns, pc, scope, age, batch, addressed, row,
                 delivered, taken>>

ToIdle(d) ==
  /\ pc' = [pc EXCEPT ![d] = "idle"]
  /\ scope' = [scope EXCEPT ![d] = {}]
  /\ age' = [age EXCEPT ![d] = 0]
  /\ batch' = [batch EXCEPT ![d] = {}]
  /\ addressed' = [addressed EXCEPT ![d] = {}]
  /\ row' = [row EXCEPT ![d] = NoSend]
  /\ outcome' = [outcome EXCEPT ![d] = "none"]

Finish(d) ==
  /\ pc[d] = "claim"
  /\ batch[d] = {}
  /\ ToIdle(d)
  /\ UNCHANGED <<ledger, campaigns, history>>

(* The process dies or a statement outside the try block throws: nothing of *)
(* the drain is left but the rows it wrote.                                 *)
Abort(d) ==
  /\ pc[d] # "idle"
  /\ faults < MaxFaults
  /\ ToIdle(d)
  /\ faults' = faults + 1
  /\ lost' = IF outcome[d] = "sent" THEN [lost EXCEPT ![row[d]] = @ + 1] ELSE lost
  /\ UNCHANGED <<ledger, campaigns, delivered, taken>>

-----------------------------------------------------------------------------
(* The rest of the world.                                                   *)

SetActive(c, on) ==
  /\ activeCampaigns' = IF on THEN activeCampaigns \cup {c} ELSE activeCampaigns \ {c}
  /\ activeCampaigns' # activeCampaigns
  /\ UNCHANGED <<ledger, manual, mailable, drains, history>>

(* update of a campaign's definition: the type may change with it. *)
EditCampaign(c) ==
  /\ manual' = IF c \in manual THEN manual \ {c} ELSE manual \cup {c}
  /\ UNCHANGED <<ledger, activeCampaigns, mailable, drains, history>>

EditLeadEmail(l, blank) ==
  /\ mailable' = IF blank THEN mailable \ {l} ELSE mailable \cup {l}
  /\ mailable' # mailable
  /\ UNCHANGED <<ledger, activeCampaigns, manual, drains, history>>

Older(a, cap) == IF a < cap THEN a + 1 ELSE a

(* Time passes for the drains and for what they have claimed. *)
Elapse ==
  /\ \A d \in Drain : Running(d) => age[d] < MaxAge
  /\ age' = [d \in Drain |-> IF Running(d) THEN age[d] + 1 ELSE age[d]]
  /\ claimAge' = [r \in Row |-> IF sendStatus[r] = "sending"
                                  THEN Older(claimAge[r], AgeCap) ELSE claimAge[r]]
  /\ UNCHANGED <<sendStatus, attempts, createdAt, campaigns, pc, scope, batch, addressed,
                 row, outcome, history>>

DrainStep(d) ==
  \/ Reclaim(d)
  \/ Select(d)
  \/ \E r \in Row : Claim(d, r) \/ LoseClaim(d, r)
  \/ Deliver(d)
  \/ \E accepted \in BOOLEAN : DeliverFails(d, accepted)
  \/ Mark(d)
  \/ \E committed \in BOOLEAN : MarkSentThrows(d, committed)
  \/ Finish(d)
  \/ Abort(d)

Demand(d) ==
  \/ \E c \in Campaign : SendCampaign(d, c) \/ RetryFailed(d, c)
  \/ \E L \in SUBSET Lead : QueueManualSend(d, L)

Environment ==
  \/ \E c \in Campaign, l \in Lead : Evaluate(c, l)
  \/ \E c \in Campaign : EditCampaign(c) \/ \E on \in BOOLEAN : SetActive(c, on)
  \/ \E l \in Lead, blank \in BOOLEAN : EditLeadEmail(l, blank)
  \/ Elapse

SendNext ==
  \/ \E d \in Drain : DrainStep(d) \/ Demand(d) \/ BeginDrain(d, Campaign)
  \/ Environment

SendSpec == SendInit /\ [][SendNext]_sendVars

-----------------------------------------------------------------------------
(* Properties.                                                              *)

Deliverers(r) == {d \in Drain : InFlight(d, r)}

(* The claim's promise, as the class comment of CampaignSendService states  *)
(* it: at most one delivery attempt is ever in flight for a row.            *)
AtMostOneInFlight == \A r \in Row : Cardinality(Deliverers(r)) <= 1

(* What the claim gives: a further attempt is in flight beside the first    *)
(* only for each time the row was reclaimed from a drain that had outlived  *)
(* its lease.  Failed statements, retries, orphans and late outcomes do not *)
(* add one.                                                                 *)
OverlapsAreOverruns == \A r \in Row : Cardinality(Deliverers(r)) <= 1 + taken[r]

(* A further email needs the record of an earlier one to have been lost (a  *)
(* crash after the transport accepted it, a lost answer, a failed UPDATE)   *)
(* or the row to have been taken from a drain that had outlived its lease.  *)
(* Retries, reclaims of orphans and concurrent drains alone repeat none.    *)
DuplicatesAreExplained == \A r \in Row : delivered[r] <= 1 + lost[r] + taken[r]

(* attempts counts before the transport is called, so it never understates  *)
(* how often the transport was, or is about to be, called for a row, also   *)
(* when drains outlive the lease.                                           *)
AttemptsCoverDeliveries ==
  \A r \in Row :
    delivered[r] + Cardinality({d \in Drain : pc[d] = "send" /\ row[d] = r})
      <= attempts[r]

(* Unless a row was taken from a drain past its lease, whose outcome comes  *)
(* late, no step takes back a recorded 'skipped_no_email', a failed row at  *)
(* the attempt cap stays failed, and 'sent' stays too, but for the 'failed' *)
(* of a drain that could not tell that its 'sent' was recorded.             *)
OutcomesAreFinal ==
  [][\A r \in Row : taken[r] = 0 =>
       /\ sendStatus[r] = "skipped_no_email" => sendStatus'[r] = sendStatus[r]
       /\ sendStatus[r] = "failed" /\ attempts[r] >= MaxAttempts => sendStatus'[r] = sendStatus[r]
       /\ sendStatus[r] = "sent" => \/ sendStatus'[r] = "sent"
                                    \/ sendStatus'[r] = "failed" /\ lost[r] > 0]_sendVars
=============================================================================
