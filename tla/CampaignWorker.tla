--------------------------- MODULE CampaignWorker ---------------------------
(***************************************************************************)
(* Scheduled delivery: the worker process (apps/worker) polls the API's    *)
(* internal drain route, whose handler runs drainAllPending: one drain per *)
(* organization that has a pending row.  The drains, the requests that     *)
(* compete with them and the ledger are those of CampaignSends; here its   *)
(* campaigns belong to several organizations.                              *)
(*                                                                         *)
(* The worker waits for the answer before it schedules the next poll, but  *)
(* a poll that fails or times out leaves its handler running in the API.   *)
(***************************************************************************)
EXTENDS CampaignSends

CONSTANTS
  Organization,
  CampaignsOf,   \* the campaigns of each organization
  Handler,       \* the drains that serve the internal route
  Toggled,       \* bound: the campaigns users switch on and off meanwhile
  NoDrain

ASSUME OrganizationAssumption == CampaignsOf \in [Organization -> SUBSET Campaign]
ASSUME HandlerAssumption == Handler \subseteq Drain /\ NoDrain \notin Drain

VARIABLES
  worker,    \* "waiting" for its timer or "polling"
  call,      \* the handler whose answer it waits for
  handling,  \* handlers inside drainAllPending
  todo       \* the organizations each of them has yet to drain

poll == <<worker, call, handling, todo>>
workerVars == <<sendVars, poll>>

WorkerTypeOK ==
  /\ SendTypeOK
  /\ worker \in {"waiting", "polling"}
  /\ call \in Handler \cup {NoDrain}
  /\ handling \in SUBSET Handler
  /\ todo \in [Handler -> SUBSET Organization]

WorkerInit ==
  /\ SendInit
  /\ manual = {}
  /\ worker = "waiting"
  /\ call = NoDrain
  /\ handling = {}
  /\ todo = [h \in Handler |-> {}]

(* Mutant: campaigns that are no longer active are not looked at. *)
OrganizationsWithActivePending ==
  {o \in Organization : \E r \in Row : /\ r[1] \in CampaignsOf[o] \cap activeCampaigns
                                       /\ sendStatus[r] = "pending"}

OrganizationsWithPending ==
  {o \in Organization : \E r \in Row : r[1] \in CampaignsOf[o] /\ sendStatus[r] = "pending"}

(* tick: the timer fires and the drain route starts a drainAllPending. *)
Poll(h) ==
  /\ worker = "waiting"
  /\ h \notin handling
  /\ worker' = "polling"
  /\ call' = h
  /\ handling' = handling \cup {h}
  /\ todo' = [todo EXCEPT ![h] = OrganizationsWithPending]
  /\ UNCHANGED sendVars

(* The loop of drainAllPending goes on to an organization it listed. *)
NextOrganization(h, o) ==
  /\ h \in handling
  /\ o \in todo[h]
  /\ BeginDrain(h, CampaignsOf[o])
  /\ todo' = [todo EXCEPT ![h] = @ \ {o}]
  /\ UNCHANGED <<worker, call, handling>>

(* The worker hears from handler h; onResult and onError alike schedule the *)
(* next tick.                                                               *)
Answer(h) ==
  /\ handling' = handling \ {h}
  /\ todo' = [todo EXCEPT ![h] = {}]
  /\ IF call = h THEN worker' = "waiting" /\ call' = NoDrain
                 ELSE UNCHANGED <<worker, call>>

Respond(h) ==
  /\ h \in handling
  /\ pc[h] = "idle"
  /\ todo[h] = {}
  /\ Answer(h)
  /\ UNCHANGED sendVars

(* An exception leaves drainAllPending: the other organizations wait too. *)
HandlerAborts(h) ==
  /\ h \in handling
  /\ Abort(h)
  /\ Answer(h)

(* fetch rejects (a dropped connection, its own timeout) or the worker is   *)
(* restarted; the API does not notice.                                      *)
PollFails ==
  /\ worker = "polling"
  /\ faults < MaxFaults
  /\ worker' = "waiting"
  /\ call' = NoDrain
  /\ faults' = faults + 1
  /\ UNCHANGED <<ledger, campaigns, drains, delivered, lost, taken, handling, todo>>

(* A drain's step that is no fault. *)
Progress(d) ==
  \/ Reclaim(d)
  \/ Select(d)
  \/ \E r \in Row : Claim(d, r) \/ LoseClaim(d, r)
  \/ Deliver(d)
  \/ \E accepted \in BOOLEAN : DeliverFails(d, accepted)
  \/ Mark(d)
  \/ \E committed \in BOOLEAN : MarkSentThrows(d, committed)
  \/ Finish(d)

(* What goes on around the drains; users leave addresses and types alone.   *)
WorkerEnvironment ==
  /\ Environment
  /\ UNCHANGED <<manual, mailable>>
  /\ activeCampaigns' \ Toggled = activeCampaigns \ Toggled

WorkerNext ==
  \/ \E h \in Handler :
       \/ Poll(h)
       \/ \E o \in Organization : NextOrganization(h, o)
       \/ Respond(h)
       \/ HandlerAborts(h)
  \/ PollFails
  \/ /\ \/ \E d \in Drain : Progress(d)
        \/ \E d \in Drain \ Handler : Demand(d) \/ Abort(d)
        \/ WorkerEnvironment
     /\ UNCHANGED poll

(* The event loops of the two processes run what they are due to run, every *)
(* query and every call of the transport returns, and time passes.  Nothing *)
(* is assumed of users: no request, status change or edit has to happen.    *)
Fairness ==
  /\ \A d \in Drain : WF_workerVars(Progress(d) /\ UNCHANGED poll)
  /\ \A h \in Handler :
       /\ WF_workerVars(\E o \in Organization : NextOrganization(h, o))
       /\ WF_workerVars(Respond(h))
  /\ WF_workerVars(\E h \in Handler : Poll(h))
  /\ WF_workerVars(Elapse /\ UNCHANGED poll)

WorkerSpec == WorkerInit /\ [][WorkerNext]_workerVars /\ Fairness

-----------------------------------------------------------------------------
(* Properties.                                                              *)

(* What the worker exists for: a pending row does not wait for a manual     *)
(* send to come along, also when polls fail or a handler dies.              *)
PendingIsDrained ==
  \A r \in Row : sendStatus[r] = "pending" ~> sendStatus[r] # "pending"

(* A failed or slow poll never ends the loop. *)
PollsForever == []<>(worker = "polling")

(* Migration 7 and the class comment of CampaignSendService: a row stuck in *)
(* 'sending' "can be reclaimed after a lease timeout instead of stranded    *)
(* forever".                                                                *)
OrphanIsReclaimed ==
  \A r \in Row : sendStatus[r] = "sending" ~> sendStatus[r] # "sending"
=============================================================================
