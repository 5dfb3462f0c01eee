--------------------------- MODULE MCRoutingSends ---------------------------
(* Bounded instances of StatusRouting and of CampaignSends for TLC: the two  *)
(* things a status change sets off.  They share no state, and in each        *)
(* behaviour one of them moves.                                              *)
EXTENDS MCStatusRouting, CampaignSends

VARIABLE part

MCInit ==
  /\ part \in {"routing", "sends"}
  /\ Init /\ SendInit
  /\ part = "routing" => manual = {} /\ mailable = {}
  /\ part = "sends" => \A p \in Instance : status[p] = routed

MCNext ==
  /\ UNCHANGED part
  /\ \/ part = "routing" /\ Next /\ UNCHANGED sendVars
     \/ part = "sends" /\ SendNext /\ UNCHANGED vars

MCSpec == MCInit /\ [][MCNext]_<<part, vars, sendVars>>
=============================================================================
