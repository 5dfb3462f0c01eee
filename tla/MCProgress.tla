----------------------------- MODULE MCProgress -----------------------------
(* Bounded instances for what must happen in the end.  In each behaviour one *)
(* of two systems moves: CampaignWorker, with two organizations of one       *)
(* triggered campaign each, or StatusRouting, with a routing-assign outside  *)
(* of any transaction beside a status change and a reassignment.             *)
EXTENDS CampaignWorker, TLC

CONSTANTS o1, o2, t1, t2, p1, routed, other, x1, x2, m1, Nothing

VARIABLES part, current_status, assigned, current, rule, team, members_active, ruleLock,
          session, handovers, turns, requests, changes

routing == <<current_status, assigned, current, rule, team, members_active, ruleLock,
             session, handovers, turns, requests, changes>>

MCCampaignsOf == (o1 :> {t1}) @@ (o2 :> {t2})
MCOneCampaign == (o1 :> {t1})

(* User 2, who holds the instance at first, is in the team pool alone. *)
UserPool == [active |-> TRUE, team |-> FALSE, users |-> {1}, cursor |-> 0]
TeamPool == [active |-> TRUE, team |-> TRUE, users |-> {}, cursor |-> 0]

Routing == INSTANCE StatusRouting WITH
             status <- current_status, active <- members_active,
             User <- {1, 2}, Instance <- {p1}, Status <- {routed, other},
             Open <- {routed, other}, RoundRobin <- {routed},
             StatusChange <- {x1}, RoutingAssign <- {m1}, Reassign <- {x2},
             FirstHolder <- p1 :> 2, FirstRule <- (routed :> UserPool) @@ (other :> TeamPool),
             FirstTeam <- [active |-> TRUE, members |-> {1, 2}], PoolChoice <- {{}},
             MaxRequest <- 3, MaxChange <- 0,
             NoInstance <- Nothing, NoStatus <- Nothing, NoSession <- Nothing

(* In the second system the worker waits for an answer nobody will give.     *)
MCInit ==
  /\ Routing!Init
  /\ \/ part = "worker" /\ WorkerInit /\ current_status[p1] = routed
     \/ /\ part = "routing" /\ SendInit /\ manual = {} /\ mailable = {}
        /\ worker = "polling" /\ call = NoDrain /\ handling = {}
        /\ todo = [h \in Handler |-> {}]

MCNext ==
  /\ UNCHANGED part
  /\ \/ part = "worker" /\ WorkerNext /\ UNCHANGED routing
     \/ part = "routing" /\ Routing!Next /\ UNCHANGED workerVars

(* What stands still has nothing that fairness asks of it.                   *)
MCSpec == MCInit /\ [][MCNext]_<<part, workerVars, routing>> /\ Fairness /\ Routing!Fairness

AtMostOneCurrent == Routing!AtMostOneCurrent
EveryRequestEnds == Routing!EveryRequestEnds
=============================================================================
