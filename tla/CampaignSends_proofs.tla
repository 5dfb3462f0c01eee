------------------------ MODULE CampaignSends_proofs ------------------------
(***************************************************************************)
(* What the claim of CampaignSendService guarantees, for any number of     *)
(* campaigns, leads, drains and faults and for drains that run for as long *)
(* as they like, also past the lease their claims carry.                   *)
(***************************************************************************)
EXTENDS CampaignSends, FiniteSetTheorems, TLAPS

(* The drain of an in-flight row: what its local state says.               *)
LocalInv ==
  \A d \in Drain :
    /\ Sending(d) => row[d] \in Row
    /\ pc[d] = "mark" => outcome[d] \in Outcome
    /\ pc[d] # "mark" => outcome[d] = "none"

LEMMA RowFinite == IsFiniteSet(Row)
  BY FiniteAssumption, FS_Product DEF Row

(* The rank a new row gets is a number. *)
LEMMA RankInNat == Cardinality(Existing) \in Nat
<1>1. IsFiniteSet(Existing)
  BY RowFinite, FS_Subset DEF Existing
<1> QED
  BY <1>1, FS_CardinalityType

-----------------------------------------------------------------------------
(* Type correctness. *)

LEMMA InsertType ==
  ASSUME SendTypeOK, NEW R \in SUBSET Row, InsertPending(R)
  PROVE  /\ sendStatus' \in [Row -> SendStatus]
         /\ createdAt' \in [Row -> Nat]
         /\ attempts' = attempts /\ claimAge' = claimAge
  BY RankInNat DEF SendTypeOK, InsertPending, SendStatus

(* Every step of every actor preserves the types. *)
LEMMA TypeStep ==
  ASSUME SendTypeOK, LocalInv, [SendNext]_sendVars
  PROVE  SendTypeOK'
<1> USE NumberAssumption
<1>1. ASSUME NEW d \in Drain, DrainStep(d)
      PROVE  SendTypeOK'
  <2>1. CASE Reclaim(d)
    BY <2>1 DEF SendTypeOK, Reclaim, SendStatus, PC, campaigns, AgeCap
  <2>2. CASE Select(d)
    BY <2>2 DEF SendTypeOK, Select, OldestPending, PendingIn, PC, ledger, campaigns, history
  <2>3. ASSUME NEW r \in Row, Claim(d, r)
        PROVE  SendTypeOK'
    <3>1. UNCHANGED <<createdAt, activeCampaigns, manual, mailable, scope, age, addressed, history>>
      BY <2>3 DEF Claim, campaigns
    <3>2. age[d] \in 0 .. AgeCap
      BY DEF SendTypeOK, AgeCap
    <3>3. /\ sendStatus' \in [Row -> SendStatus] /\ attempts' \in [Row -> Nat]
          /\ claimAge' \in [Row -> 0 .. AgeCap]
      BY <2>3, <3>2 DEF SendTypeOK, Claim, Attempted, SendStatus
    <3>4. batch' \in [Drain -> SUBSET Row] /\ row' \in [Drain -> Row \cup {NoSend}]
      BY <2>3 DEF SendTypeOK, Claim
    <3>6. pc' \in [Drain -> PC] /\ outcome' \in [Drain -> Outcome \cup {"none"}]
      BY <2>3 DEF SendTypeOK, Claim, PC, Outcome
    <3> QED
      BY <3>1, <3>3, <3>4, <3>6 DEF SendTypeOK, history
  <2>4. ASSUME NEW r \in Row, LoseClaim(d, r)
        PROVE  SendTypeOK'
    BY <2>4 DEF SendTypeOK, LoseClaim, ledger, campaigns, history
  <2>5. CASE Deliver(d)
    BY <2>5 DEF SendTypeOK, LocalInv, Sending, Deliver, PC, Outcome, ledger, campaigns
  <2>6. ASSUME NEW accepted \in BOOLEAN, DeliverFails(d, accepted)
        PROVE  SendTypeOK'
    <3>1. row[d] \in Row /\ UNCHANGED <<ledger, campaigns, scope, age, batch, addressed, row>>
      BY <2>6 DEF LocalInv, Sending, DeliverFails
    <3>2. pc' \in [Drain -> PC] /\ outcome' \in [Drain -> Outcome \cup {"none"}]
      BY <2>6 DEF SendTypeOK, DeliverFails, PC, Outcome
    <3>3. CASE accepted
      BY <2>6, <3>1, <3>2, <3>3 DEF SendTypeOK, DeliverFails, ledger, campaigns
    <3>4. CASE ~accepted
      BY <2>6, <3>1, <3>2, <3>4 DEF SendTypeOK, DeliverFails, ledger, campaigns, history
    <3> QED
      BY <3>3, <3>4
  <2>7. CASE Mark(d)
    BY <2>7 DEF SendTypeOK, LocalInv, Sending, Mark, PC, Outcome, SendStatus, campaigns, history,
                AgeCap
  <2>8. ASSUME NEW committed \in BOOLEAN, MarkSentThrows(d, committed)
        PROVE  SendTypeOK'
    <3>1. row[d] \in Row
      BY <2>8 DEF LocalInv, Sending, MarkSentThrows
    <3>2. /\ sendStatus' \in {sendStatus, [sendStatus EXCEPT ![row[d]] = "sent"]}
          /\ claimAge' \in {claimAge, [claimAge EXCEPT ![row[d]] = 0]}
      BY <2>8 DEF MarkSentThrows
    <3>3. sendStatus' \in [Row -> SendStatus] /\ claimAge' \in [Row -> 0 .. AgeCap]
      BY <3>1, <3>2 DEF SendTypeOK, SendStatus, AgeCap
    <3>4. outcome' \in [Drain -> Outcome \cup {"none"}] /\ lost' \in [Row -> Nat]
          /\ faults' \in 0 .. MaxFaults
      BY <2>8, <3>1 DEF SendTypeOK, MarkSentThrows, Outcome
    <3> QED
      BY <2>8, <3>3, <3>4 DEF SendTypeOK, MarkSentThrows, campaigns
  <2>9. CASE Finish(d)
    BY <2>9 DEF SendTypeOK, Finish, ToIdle, PC, ledger, campaigns, history
  <2>10. CASE Abort(d)
    BY <2>10 DEF SendTypeOK, LocalInv, Sending, Abort, ToIdle, PC, ledger, campaigns
  <2> QED
    BY <1>1, <2>1, <2>2, <2>3, <2>4, <2>5, <2>6, <2>7, <2>8, <2>9, <2>10 DEF DrainStep
<1>2. ASSUME NEW d \in Drain, Demand(d)
      PROVE  SendTypeOK'
  <2>1. ASSUME NEW c \in Campaign, SendCampaign(d, c)
        PROVE  SendTypeOK'
    BY <2>1 DEF SendTypeOK, SendCampaign, PC, ledger, campaigns, history
  <2>2. ASSUME NEW c \in Campaign, RetryFailed(d, c)
        PROVE  SendTypeOK'
    BY <2>2 DEF SendTypeOK, RetryFailed, Requeued, PC, SendStatus, campaigns, history
  <2>3. ASSUME NEW L \in SUBSET Lead, QueueManualSend(d, L)
        PROVE  SendTypeOK'
    <3>1. scope[d] \X L \in SUBSET Row
      BY DEF SendTypeOK, Row
    <3>2. InsertPending(scope[d] \X L)
      BY <2>3 DEF QueueManualSend
    <3> QED
      BY <2>3, <3>1, <3>2, InsertType DEF SendTypeOK, QueueManualSend, PC, campaigns, history
  <2> QED
    BY <1>2, <2>1, <2>2, <2>3 DEF Demand
<1>3. ASSUME NEW d \in Drain, BeginDrain(d, Campaign)
      PROVE  SendTypeOK'
  BY <1>3 DEF SendTypeOK, BeginDrain, PC, ledger, campaigns, history
<1>4. ASSUME NEW c \in Campaign, NEW l \in Lead, Evaluate(c, l)
      PROVE  SendTypeOK'
  <2>1. {<<c, l>>} \in SUBSET Row /\ InsertPending({<<c, l>>})
    BY <1>4 DEF Row, Evaluate
  <2> QED
    BY <1>4, <2>1, InsertType DEF SendTypeOK, Evaluate, campaigns, drains, history
<1>5. ASSUME NEW c \in Campaign, NEW on \in BOOLEAN, SetActive(c, on)
      PROVE  SendTypeOK'
  BY <1>5 DEF SendTypeOK, SetActive, ledger, drains, history
<1>9. ASSUME NEW c \in Campaign, EditCampaign(c)
      PROVE  SendTypeOK'
  BY <1>9 DEF SendTypeOK, EditCampaign, ledger, drains, history
<1>6. ASSUME NEW l \in Lead, NEW blank \in BOOLEAN, EditLeadEmail(l, blank)
      PROVE  SendTypeOK'
  BY <1>6 DEF SendTypeOK, EditLeadEmail, ledger, drains, history
<1>7. CASE Elapse
  BY <1>7 DEF SendTypeOK, Elapse, Older, AgeCap, campaigns, history
<1>8. CASE UNCHANGED sendVars
  BY <1>8 DEF SendTypeOK, sendVars, ledger, campaigns, drains, history
<1> QED
  BY <1>1, <1>2, <1>3, <1>4, <1>5, <1>6, <1>7, <1>8, <1>9 DEF SendNext, Environment

(* What a drain's local variables say of each other is preserved. *)
LEMMA LocalStep ==
  ASSUME SendTypeOK, LocalInv, [SendNext]_sendVars
  PROVE  LocalInv'
<1> USE DEF LocalInv, Sending
<1>1. ASSUME NEW d \in Drain, DrainStep(d)
      PROVE  LocalInv'
  <2>1. CASE Reclaim(d)
    BY <2>1 DEF SendTypeOK, Reclaim
  <2>2. CASE Select(d)
    BY <2>2 DEF SendTypeOK, Select
  <2>3. ASSUME NEW r \in Row, Claim(d, r)
        PROVE  LocalInv'
    BY <2>3 DEF SendTypeOK, Claim, Claimable, Attempted, Outcome
  <2>4. ASSUME NEW r \in Row, LoseClaim(d, r)
        PROVE  LocalInv'
    BY <2>4 DEF SendTypeOK, LoseClaim
  <2>5. CASE Deliver(d)
    BY <2>5 DEF SendTypeOK, Deliver, Outcome
  <2>6. ASSUME NEW accepted \in BOOLEAN, DeliverFails(d, accepted)
        PROVE  LocalInv'
    BY <2>6 DEF SendTypeOK, DeliverFails, Outcome
  <2>7. CASE Mark(d)
    BY <2>7 DEF SendTypeOK, Mark
  <2>8. ASSUME NEW committed \in BOOLEAN, MarkSentThrows(d, committed)
        PROVE  LocalInv'
    BY <2>8 DEF SendTypeOK, MarkSentThrows, Outcome
  <2>9. CASE Finish(d)
    BY <2>9 DEF SendTypeOK, Finish, ToIdle
  <2>10. CASE Abort(d)
    BY <2>10 DEF SendTypeOK, Abort, ToIdle
  <2> QED
    BY <1>1, <2>1, <2>2, <2>3, <2>4, <2>5, <2>6, <2>7, <2>8, <2>9, <2>10 DEF DrainStep
<1>2. ASSUME NEW d \in Drain, Demand(d)
      PROVE  LocalInv'
  BY <1>2 DEF SendTypeOK, Demand, SendCampaign, RetryFailed, Requeued, QueueManualSend
<1>3. ASSUME NEW d \in Drain, BeginDrain(d, Campaign)
      PROVE  LocalInv'
  BY <1>3 DEF SendTypeOK, BeginDrain
<1>4. CASE UNCHANGED drains
  BY <1>4 DEF drains
<1>5. CASE Elapse
  BY <1>5 DEF Elapse
<1> QED
  BY <1>1, <1>2, <1>3, <1>4, <1>5
     DEF SendNext, Environment, Evaluate, SetActive, EditCampaign, EditLeadEmail, sendVars

(* Both hold at first. *)
LEMMA InitLocal == SendInit => SendTypeOK /\ LocalInv
  BY NumberAssumption DEF SendInit, SendTypeOK, LocalInv, Sending, SendStatus, PC, AgeCap

(* Type correctness of the ledger and of every drain. *)
THEOREM TypeCorrect == SendSpec => []SendTypeOK
<1>1. SendTypeOK /\ LocalInv /\ [SendNext]_sendVars => (SendTypeOK /\ LocalInv)'
  BY TypeStep, LocalStep
<1> QED
  BY InitLocal, <1>1, PTL DEF SendSpec

-----------------------------------------------------------------------------
(* What may still be delivered for a row, against what has been.            *)

(* The drains in flight whose email is not known to be out. *)
Untold(r) == {d \in Deliverers(r) : outcome[d] # "sent"}

(* The row still carries the `now` of a drain that is delivering it. *)
Owned(r) == \E d \in Drain : InFlight(d, r) /\ claimAge[r] = age[d]

(* One more claim can be won although nobody outlived the lease: the row is *)
(* new, pending, may be retried or was orphaned.                            *)
Open(r) == \/ sendStatus[r] \in {"none", "pending", "failed"}
           \/ sendStatus[r] = "sending" /\ ~Owned(r)

Chance(r) == IF Open(r) THEN 1 ELSE 0

(* Every claim that is out or can be won beyond the first was paid for by a *)
(* row taken from a drain past its lease; so was every delivery that is out *)
(* or may come of one, or by a lost record.                                 *)
Balanced(r) ==
  /\ IsFiniteSet(Deliverers(r))
  /\ Cardinality(Deliverers(r)) + Chance(r) <= 1 + taken[r]
  /\ delivered[r] + Cardinality(Untold(r)) + Chance(r) <= 1 + lost[r] + taken[r]

(* A row that was never taken is 'sending' under the drain that claimed it, *)
(* but for a drain that takes its recorded 'sent' for a failure.            *)
Kept(r) ==
  taken[r] = 0 =>
    \A d \in Drain : InFlight(d, r) =>
      \/ sendStatus[r] = "sending"
      \/ sendStatus[r] = "sent" /\ lost[r] > 0 /\ pc[d] = "mark" /\ outcome[d] = "failed"

IInv == SendTypeOK /\ LocalInv /\ \A r \in Row : Balanced(r) /\ Kept(r)

LEMMA UntoldFew ==
  ASSUME NEW r, IsFiniteSet(Deliverers(r))
  PROVE  /\ IsFiniteSet(Untold(r))
         /\ Cardinality(Deliverers(r)) \in Nat /\ Cardinality(Untold(r)) \in Nat
<1>1. Untold(r) \subseteq Deliverers(r)
  BY DEF Untold
<1> QED
  BY <1>1, FS_Subset, FS_CardinalityType

(* Counting, without reference to a state. *)
LEMMA Fewer ==
  ASSUME NEW S, IsFiniteSet(S), NEW T, T \subseteq S
  PROVE  /\ IsFiniteSet(T) /\ Cardinality(T) \in Nat /\ Cardinality(S) \in Nat
         /\ Cardinality(T) <= Cardinality(S)
  BY FS_Subset, FS_CardinalityType

LEMMA OneLess ==
  ASSUME NEW S, IsFiniteSet(S), NEW d \in S, NEW T, T = S \ {d}
  PROVE  /\ IsFiniteSet(T) /\ Cardinality(T) \in Nat /\ Cardinality(S) \in Nat
         /\ Cardinality(T) = Cardinality(S) - 1
  BY FS_RemoveElement, FS_CardinalityType

LEMMA OneMore ==
  ASSUME NEW S, IsFiniteSet(S), NEW d, NEW T, T \subseteq S \cup {d}
  PROVE  /\ IsFiniteSet(T) /\ Cardinality(T) \in Nat /\ Cardinality(S) \in Nat
         /\ Cardinality(T) <= Cardinality(S) + 1
<1>1. Cardinality(S) \in Nat
  BY FS_CardinalityType
<1> DEFINE U == S \cup {d}
<1>2. IsFiniteSet(U) /\ Cardinality(U) <= Cardinality(S) + 1
  <2>1. CASE d \in S
    <3>1. U = S
      BY <2>1
    <3> QED
      BY <3>1, <1>1
  <2>2. CASE d \notin S
    <3>1. IsFiniteSet(U) /\ Cardinality(U) = Cardinality(S) + 1
      BY <2>2, FS_AddElement
    <3> QED
      BY <3>1, <1>1
  <2> QED
    BY <2>1, <2>2
<1> HIDE DEF U
<1>3. T \subseteq U
  BY DEF U
<1>4. /\ IsFiniteSet(T) /\ Cardinality(T) \in Nat /\ Cardinality(U) \in Nat
      /\ Cardinality(T) <= Cardinality(U)
  BY <1>2, <1>3, Fewer
<1> QED
  BY <1>1, <1>2, <1>4

(* The two sums may only fall, or rise with what pays for them.             *)
LEMMA BalanceBy ==
  ASSUME SendTypeOK, SendTypeOK', NEW r \in Row, Balanced(r),
         IsFiniteSet(Deliverers(r)'),
         Cardinality(Deliverers(r)') + Chance(r)' - taken'[r]
           <= Cardinality(Deliverers(r)) + Chance(r) - taken[r],
         delivered'[r] + Cardinality(Untold(r)') + Chance(r)' - lost'[r] - taken'[r]
           <= delivered[r] + Cardinality(Untold(r)) + Chance(r) - lost[r] - taken[r]
  PROVE  Balanced(r)'
<1>1. Cardinality(Deliverers(r)) \in Nat /\ Cardinality(Untold(r)) \in Nat
  BY UntoldFew DEF Balanced
<1>2. Cardinality(Deliverers(r)') \in Nat /\ Cardinality(Untold(r)') \in Nat
  <2>1. Untold(r)' \subseteq Deliverers(r)'
    BY DEF Untold
  <2> DEFINE D == Deliverers(r)'  U == Untold(r)'
  <2>2. IsFiniteSet(D) /\ U \subseteq D
    BY <2>1
  <2> HIDE DEF D, U
  <2>3. Cardinality(D) \in Nat /\ Cardinality(U) \in Nat
    BY <2>2, Fewer
  <2> QED
    BY <2>3 DEF D, U
<1>3. Chance(r) \in {0, 1} /\ Chance(r)' \in {0, 1}
  BY DEF Chance
<1>4. /\ delivered[r] \in Nat /\ lost[r] \in Nat /\ taken[r] \in Nat
      /\ delivered'[r] \in Nat /\ lost'[r] \in Nat /\ taken'[r] \in Nat
  BY DEF SendTypeOK
<1> QED
  BY <1>1, <1>2, <1>3, <1>4 DEF Balanced

(* Nobody starts to deliver the row, and no chance to claim it comes up but *)
(* where the row was taken.                                                 *)
LEMMA BalanceFrame ==
  ASSUME SendTypeOK, SendTypeOK', NEW r \in Row, Balanced(r),
         Deliverers(r)' \subseteq Deliverers(r), Untold(r)' \subseteq Untold(r),
         delivered'[r] = delivered[r], lost'[r] >= lost[r],
         \/ taken'[r] = taken[r] /\ (Open(r)' => Open(r))
         \/ taken'[r] = taken[r] + 1
  PROVE  Balanced(r)'
<1> DEFINE D == Deliverers(r)  U == Untold(r)  DD == Deliverers(r)'  UU == Untold(r)'
<1>1. IsFiniteSet(D) /\ IsFiniteSet(U) /\ DD \subseteq D /\ UU \subseteq U
  BY UntoldFew DEF Balanced
<1> HIDE DEF D, U, DD, UU
<1>2. /\ IsFiniteSet(DD) /\ Cardinality(DD) \in Nat /\ Cardinality(D) \in Nat
      /\ Cardinality(DD) <= Cardinality(D)
  BY <1>1, Fewer
<1>3. /\ Cardinality(UU) \in Nat /\ Cardinality(U) \in Nat
      /\ Cardinality(UU) <= Cardinality(U)
  BY <1>1, Fewer
<1>4. /\ Chance(r) \in {0, 1} /\ Chance(r)' \in {0, 1}
      /\ (Open(r)' /\ ~Open(r)) \/ (Chance(r)' <= Chance(r))
  BY DEF Chance
<1>5. /\ delivered[r] \in Nat /\ lost[r] \in Nat /\ taken[r] \in Nat
      /\ delivered'[r] \in Nat /\ lost'[r] \in Nat /\ taken'[r] \in Nat
  BY DEF SendTypeOK
<1>6. /\ Cardinality(DD) + Chance(r)' - taken'[r] <= Cardinality(D) + Chance(r) - taken[r]
      /\ delivered'[r] + Cardinality(UU) + Chance(r)' - lost'[r] - taken'[r]
           <= delivered[r] + Cardinality(U) + Chance(r) - lost[r] - taken[r]
  BY <1>2, <1>3, <1>4, <1>5
<1> QED
  BY <1>2, <1>6, BalanceBy DEF D, U, DD, UU

(* A won claim takes the row's chance. *)
LEMMA BalanceClaims ==
  ASSUME SendTypeOK, SendTypeOK', NEW r \in Row, Balanced(r), NEW d,
         Deliverers(r)' \subseteq Deliverers(r) \cup {d},
         Untold(r)' \subseteq Untold(r) \cup {d},
         delivered'[r] = delivered[r], lost'[r] = lost[r], taken'[r] = taken[r],
         Open(r), ~Open(r)'
  PROVE  Balanced(r)'
<1> DEFINE D == Deliverers(r)  U == Untold(r)  DD == Deliverers(r)'  UU == Untold(r)'
<1>1. IsFiniteSet(D) /\ IsFiniteSet(U) /\ DD \subseteq D \cup {d} /\ UU \subseteq U \cup {d}
  BY UntoldFew DEF Balanced
<1> HIDE DEF D, U, DD, UU
<1>2. /\ IsFiniteSet(DD) /\ Cardinality(DD) \in Nat /\ Cardinality(D) \in Nat
      /\ Cardinality(DD) <= Cardinality(D) + 1
  BY <1>1, OneMore
<1>3. /\ Cardinality(UU) \in Nat /\ Cardinality(U) \in Nat
      /\ Cardinality(UU) <= Cardinality(U) + 1
  BY <1>1, OneMore
<1>4. Chance(r) = 1 /\ Chance(r)' = 0
  BY DEF Chance
<1>5. delivered[r] \in Nat /\ lost[r] \in Nat /\ taken[r] \in Nat
  BY DEF SendTypeOK
<1>6. /\ Cardinality(DD) + Chance(r)' - taken'[r] <= Cardinality(D) + Chance(r) - taken[r]
      /\ delivered'[r] + Cardinality(UU) + Chance(r)' - lost'[r] - taken'[r]
           <= delivered[r] + Cardinality(U) + Chance(r) - lost[r] - taken[r]
  BY <1>2, <1>3, <1>4, <1>5
<1> QED
  BY <1>2, <1>6, BalanceBy DEF D, U, DD, UU

(* The transport answers: one who might have delivered has done so, or a    *)
(* delivery that counts as lost comes on top.                               *)
LEMMA BalanceDelivers ==
  ASSUME SendTypeOK, SendTypeOK', NEW r \in Row, Balanced(r), NEW d,
         Deliverers(r)' = Deliverers(r), taken'[r] = taken[r], Open(r)' => Open(r),
         \/ /\ d \in Untold(r) /\ Untold(r)' = Untold(r) \ {d}
            /\ delivered'[r] = delivered[r] + 1 /\ lost'[r] = lost[r]
         \/ /\ Untold(r)' = Untold(r)
            /\ delivered'[r] = delivered[r] + 1 /\ lost'[r] = lost[r] + 1
         \/ /\ Untold(r)' \subseteq Untold(r) \cup {d}
            /\ delivered'[r] = delivered[r] /\ lost'[r] = lost[r] + 1
  PROVE  Balanced(r)'
<1> DEFINE D == Deliverers(r)  U == Untold(r)  UU == Untold(r)'
<1>1. IsFiniteSet(D) /\ IsFiniteSet(U) /\ Deliverers(r)' = D
  BY UntoldFew DEF Balanced
<1>2. \/ d \in U /\ UU = U \ {d} /\ delivered'[r] = delivered[r] + 1 /\ lost'[r] = lost[r]
      \/ UU = U /\ delivered'[r] = delivered[r] + 1 /\ lost'[r] = lost[r] + 1
      \/ UU \subseteq U \cup {d} /\ delivered'[r] = delivered[r] /\ lost'[r] = lost[r] + 1
  OBVIOUS
<1> HIDE DEF D, U, UU
<1>3. Cardinality(D) \in Nat /\ Cardinality(U) \in Nat
  BY <1>1, FS_CardinalityType
<1>4. Chance(r) \in {0, 1} /\ Chance(r)' \in {0, 1} /\ Chance(r)' <= Chance(r)
  BY DEF Chance
<1>5. delivered[r] \in Nat /\ lost[r] \in Nat /\ taken[r] \in Nat
  BY DEF SendTypeOK
<1>6. /\ Cardinality(UU) \in Nat
      /\ delivered'[r] + Cardinality(UU) - lost'[r] <= delivered[r] + Cardinality(U) - lost[r]
  <2>1. CASE d \in U /\ UU = U \ {d} /\ delivered'[r] = delivered[r] + 1 /\ lost'[r] = lost[r]
    <3>1. Cardinality(UU) \in Nat /\ Cardinality(UU) = Cardinality(U) - 1
      BY <1>1, <2>1, OneLess
    <3> QED
      BY <1>3, <1>5, <2>1, <3>1
  <2>2. CASE UU = U /\ delivered'[r] = delivered[r] + 1 /\ lost'[r] = lost[r] + 1
    BY <1>3, <1>5, <2>2
  <2>3. CASE UU \subseteq U \cup {d} /\ delivered'[r] = delivered[r] /\ lost'[r] = lost[r] + 1
    <3>1. Cardinality(UU) \in Nat /\ Cardinality(UU) <= Cardinality(U) + 1
      BY <1>1, <2>3, OneMore
    <3> QED
      BY <1>3, <1>5, <2>3, <3>1
  <2> QED
    BY <1>2, <2>1, <2>2, <2>3
<1>7. /\ Cardinality(D) + Chance(r)' - taken'[r] <= Cardinality(D) + Chance(r) - taken[r]
      /\ delivered'[r] + Cardinality(UU) + Chance(r)' - lost'[r] - taken'[r]
           <= delivered[r] + Cardinality(U) + Chance(r) - lost[r] - taken[r]
  <2>1. delivered'[r] \in Nat /\ lost'[r] \in Nat
    BY DEF SendTypeOK
  <2> QED
    BY <1>3, <1>4, <1>5, <1>6, <2>1
<1> QED
  BY <1>1, <1>7, BalanceBy DEF D, U, UU

(* A drain leaves the row: its outcome is recorded, or nothing is left of   *)
(* the drain, and of an email that it had out but its loss.                 *)
LEMMA BalanceLeaves ==
  ASSUME SendTypeOK, SendTypeOK', NEW r \in Row, Balanced(r), NEW d \in Deliverers(r),
         Deliverers(r)' = Deliverers(r) \ {d}, Untold(r)' = Untold(r) \ {d},
         delivered'[r] = delivered[r], taken'[r] = taken[r],
         \/ d \in Untold(r) /\ lost'[r] = lost[r]
         \/ lost'[r] = lost[r] + 1
         \/ ~Open(r)' /\ lost'[r] = lost[r]
  PROVE  Balanced(r)'
<1> DEFINE D == Deliverers(r)  U == Untold(r)  DD == Deliverers(r)'  UU == Untold(r)'
<1>1. /\ IsFiniteSet(D) /\ IsFiniteSet(U) /\ DD = D \ {d} /\ UU = U \ {d} /\ d \in D
      /\ \/ d \in U /\ lost'[r] = lost[r]
         \/ lost'[r] = lost[r] + 1
         \/ ~Open(r)' /\ lost'[r] = lost[r]
  BY UntoldFew DEF Balanced
<1> HIDE DEF D, U, DD, UU
<1>2. /\ IsFiniteSet(DD) /\ Cardinality(DD) \in Nat /\ Cardinality(D) \in Nat
      /\ Cardinality(DD) = Cardinality(D) - 1
  BY <1>1, OneLess
<1>3. /\ Cardinality(UU) \in Nat /\ Cardinality(U) \in Nat
      /\ Cardinality(UU) <= Cardinality(U)
      /\ d \in U => Cardinality(UU) = Cardinality(U) - 1
  <2>1. UU \subseteq U
    BY <1>1
  <2> QED
    BY <1>1, <2>1, Fewer, OneLess
<1>4. /\ Chance(r) \in {0, 1} /\ Chance(r)' \in {0, 1} /\ (~Open(r)' => Chance(r)' = 0)
  BY DEF Chance
<1>5. delivered[r] \in Nat /\ lost[r] \in Nat /\ taken[r] \in Nat
  BY DEF SendTypeOK
<1>6. /\ Cardinality(DD) + Chance(r)' - taken'[r] <= Cardinality(D) + Chance(r) - taken[r]
      /\ delivered'[r] + Cardinality(UU) + Chance(r)' - lost'[r] - taken'[r]
           <= delivered[r] + Cardinality(U) + Chance(r) - lost[r] - taken[r]
  BY <1>1, <1>2, <1>3, <1>4, <1>5
<1> QED
  BY <1>2, <1>6, BalanceBy DEF D, U, DD, UU

LEMMA BalanceStep ==
  ASSUME IInv, SendTypeOK', [SendNext]_sendVars, NEW r \in Row
  PROVE  Balanced(r)'
<1> USE NumberAssumption
<1>b. SendTypeOK /\ LocalInv /\ Balanced(r)
  BY DEF IInv
<1> DEFINE SameFlights == Deliverers(r)' = Deliverers(r) /\ Untold(r)' = Untold(r)
<1> DEFINE SameSums == delivered'[r] = delivered[r] /\ lost'[r] = lost[r] /\ taken'[r] = taken[r]
<1> DEFINE Quiet == SameFlights /\ SameSums /\ (Open(r)' => Open(r))
<1>q. Quiet => Balanced(r)'
  <2> SUFFICES ASSUME Quiet PROVE Balanced(r)'
    OBVIOUS
  <2>1. lost'[r] >= lost[r]
    BY DEF SendTypeOK
  <2> QED
    BY <1>b, <2>1, BalanceFrame
<1>1. ASSUME NEW d \in Drain, DrainStep(d)
      PROVE  Balanced(r)'
  <2>1. CASE Reclaim(d)
    <3>1. \A e \in Drain : /\ InFlight(e, r)' <=> InFlight(e, r)
                           /\ outcome'[e] = outcome[e] /\ age'[e] = age[e]
      BY <1>b, <2>1 DEF SendTypeOK, Reclaim, InFlight, Sending
    <3>2. SameFlights
      BY <3>1 DEF Deliverers, Untold
    <3>3. delivered'[r] = delivered[r] /\ lost'[r] = lost[r] /\ lost[r] \in Nat
      BY <1>b, <2>1 DEF SendTypeOK, Reclaim
    <3>4. CASE InScope(d, r) /\ LeaseExpired(d, r) /\ Owned(r)
      (* Who still owns the row is as old as its claim: past the lease.     *)
      <4>1. \E e \in Drain : InFlight(e, r) /\ age[e] > Lease
        BY <1>b, <3>4 DEF SendTypeOK, LeaseExpired, Owned
      <4>2. taken'[r] = taken[r] + 1
        BY <1>b, <2>1, <3>4, <4>1 DEF SendTypeOK, Reclaim
      <4> QED
        BY <1>b, <3>2, <3>3, <4>2, BalanceFrame
    <3>5. CASE InScope(d, r) /\ LeaseExpired(d, r) /\ ~Owned(r)
      <4>1. Open(r)
        BY <3>5 DEF Open, LeaseExpired
      <4>2. taken'[r] = taken[r] \/ taken'[r] = taken[r] + 1
        BY <1>b, <2>1 DEF SendTypeOK, Reclaim
      <4> QED
        BY <1>b, <3>2, <3>3, <4>1, <4>2, BalanceFrame
    <3>6. CASE ~(InScope(d, r) /\ LeaseExpired(d, r))
      <4>1. sendStatus'[r] = sendStatus[r] /\ claimAge'[r] = claimAge[r] /\ taken'[r] = taken[r]
        BY <1>b, <2>1, <3>6 DEF SendTypeOK, Reclaim
      <4>2. Open(r)' <=> Open(r)
        BY <3>1, <4>1 DEF Open, Owned
      <4> QED
        BY <1>q, <3>2, <3>3, <4>1, <4>2
    <3> QED
      BY <3>4, <3>5, <3>6
  <2>2. CASE Select(d)
    <3>1. \A e \in Drain : /\ InFlight(e, r)' <=> InFlight(e, r)
                           /\ outcome'[e] = outcome[e] /\ age'[e] = age[e]
      BY <1>b, <2>2 DEF SendTypeOK, Select, InFlight, Sending
    <3>2. SameFlights
      BY <3>1 DEF Deliverers, Untold
    <3>3. Open(r)' <=> Open(r)
      BY <2>2, <3>1 DEF Select, Open, Owned, ledger
    <3> QED
      BY <1>q, <2>2, <3>2, <3>3 DEF Select, history
  <2>3. ASSUME NEW q \in Row, Claim(d, q)
        PROVE  Balanced(r)'
    <3>1. /\ pc[d] = "claim" /\ row' = [row EXCEPT ![d] = q] /\ age' = age
          /\ \E p \in {"send", "mark"} : pc' = [pc EXCEPT ![d] = p]
          /\ outcome' \in {outcome, [outcome EXCEPT ![d] = "skipped_no_email"]}
          /\ sendStatus[q] = "pending" /\ sendStatus' = [sendStatus EXCEPT ![q] = "sending"]
          /\ claimAge' = [claimAge EXCEPT ![q] = age[d]]
          /\ UNCHANGED <<delivered, lost, taken>>
      BY <2>3 DEF Claim, Claimable, history
    <3>2. outcome[d] = "none"
      BY <1>b, <3>1 DEF LocalInv
    <3>3. \A e \in Drain \ {d} : /\ InFlight(e, r)' <=> InFlight(e, r)
                                 /\ outcome'[e] = outcome[e]
      BY <1>b, <3>1 DEF SendTypeOK, InFlight, Sending
    <3>4. ~InFlight(d, r) /\ (InFlight(d, r)' <=> q = r)
      BY <1>b, <3>1 DEF SendTypeOK, InFlight, Sending
    <3>5. CASE q = r
      <4>1. Deliverers(r)' \subseteq Deliverers(r) \cup {d} /\ Untold(r)' \subseteq Untold(r) \cup {d}
        BY <3>3 DEF Deliverers, Untold
      <4>2. Open(r)
        BY <3>1, <3>5 DEF Open
      <4>3. sendStatus'[r] = "sending" /\ claimAge'[r] = age'[d]
        BY <1>b, <3>1, <3>5 DEF SendTypeOK
      <4>4. ~Open(r)'
        BY <3>4, <3>5, <4>3 DEF Open, Owned
      <4> QED
        BY <1>b, <3>1, <4>1, <4>2, <4>4, BalanceClaims
    <3>6. CASE q # r
      <4>1. SameFlights
        BY <3>3, <3>4, <3>6 DEF Deliverers, Untold
      <4>2. sendStatus'[r] = sendStatus[r] /\ claimAge'[r] = claimAge[r]
        BY <1>b, <3>1, <3>6 DEF SendTypeOK
      <4>3. Open(r)' <=> Open(r)
        BY <3>1, <3>3, <3>4, <3>6, <4>2 DEF Open, Owned
      <4> QED
        BY <1>q, <3>1, <4>1, <4>3
    <3> QED
      BY <3>5, <3>6
  <2>4. ASSUME NEW q \in Row, LoseClaim(d, q)
        PROVE  Quiet
    BY <2>4 DEF LoseClaim, Deliverers, Untold, Open, Owned, InFlight, Sending, ledger, history
  <2>5. ASSUME Deliver(d) \/ \E accepted \in BOOLEAN : DeliverFails(d, accepted)
        PROVE  Balanced(r)'
    <3>1. /\ pc[d] = "send" /\ pc' = [pc EXCEPT ![d] = "mark"]
          /\ UNCHANGED <<row, age, sendStatus, claimAge, taken>>
          /\ \E o \in {"sent", "failed"} : outcome' = [outcome EXCEPT ![d] = o]
      BY <2>5 DEF Deliver, DeliverFails, history, ledger
    <3>2. outcome[d] = "none"
      BY <1>b, <3>1 DEF LocalInv
    <3>3. \A e \in Drain : InFlight(e, r)' <=> InFlight(e, r)
      BY <1>b, <3>1 DEF SendTypeOK, InFlight, Sending
    <3>4. \A e \in Drain \ {d} : outcome'[e] = outcome[e]
      BY <1>b, <3>1 DEF SendTypeOK
    <3>5. Deliverers(r)' = Deliverers(r)
      BY <3>3 DEF Deliverers
    <3>6. Open(r)' <=> Open(r)
      BY <3>1, <3>3 DEF Open, Owned
    <3>7. CASE row[d] # r
      <4>1. ~InFlight(d, r)
        BY <3>7 DEF InFlight
      <4>2. Untold(r)' = Untold(r)
        BY <3>3, <3>4, <4>1 DEF Deliverers, Untold
      <4>3. delivered'[r] = delivered[r] /\ lost'[r] = lost[r]
        BY <1>b, <2>5, <3>7 DEF SendTypeOK, Deliver, DeliverFails, history
      <4> QED
        BY <1>q, <3>1, <3>5, <3>6, <4>2, <4>3
    <3>8. CASE row[d] = r
      <4>1. InFlight(d, r) /\ d \in Untold(r)
        BY <3>1, <3>2, <3>8 DEF InFlight, Sending, Untold, Deliverers
      <4>2. CASE Deliver(d)
        <5>1. Untold(r)' = Untold(r) \ {d}
          <6>1. outcome'[d] = "sent"
            BY <1>b, <4>2 DEF SendTypeOK, Deliver
          <6> QED
            BY <3>3, <3>4, <6>1 DEF Deliverers, Untold
        <5>2. delivered'[r] = delivered[r] + 1 /\ lost'[r] = lost[r]
          BY <1>b, <3>8, <4>2 DEF SendTypeOK, Deliver
        <5> QED
          BY <1>b, <3>1, <3>5, <3>6, <4>1, <5>1, <5>2, BalanceDelivers
      <4>3. ASSUME NEW accepted \in BOOLEAN, DeliverFails(d, accepted)
            PROVE  Balanced(r)'
        <5>1. Untold(r)' = Untold(r)
          <6>1. outcome'[d] = "failed"
            BY <1>b, <4>3 DEF SendTypeOK, DeliverFails
          <6> QED
            BY <3>2, <3>3, <3>4, <6>1 DEF Deliverers, Untold
        <5>2. CASE accepted
          <6>1. delivered'[r] = delivered[r] + 1 /\ lost'[r] = lost[r] + 1
            BY <1>b, <3>8, <4>3, <5>2 DEF SendTypeOK, DeliverFails
          <6> QED
            BY <1>b, <3>1, <3>5, <3>6, <5>1, <6>1, BalanceDelivers
        <5>3. CASE ~accepted
          BY <1>q, <3>5, <3>6, <4>3, <5>1, <5>3 DEF DeliverFails, history
        <5> QED
          BY <5>2, <5>3
      <4> QED
        BY <2>5, <4>2, <4>3
    <3> QED
      BY <3>7, <3>8
  <2>6. CASE Mark(d)
    <3>1. /\ pc[d] = "mark" /\ pc' = [pc EXCEPT ![d] = "claim"]
          /\ row' = [row EXCEPT ![d] = NoSend] /\ outcome' = [outcome EXCEPT ![d] = "none"]
          /\ sendStatus' = [sendStatus EXCEPT ![row[d]] = outcome[d]]
          /\ claimAge' = [claimAge EXCEPT ![row[d]] = 0]
          /\ UNCHANGED <<age, delivered, lost, taken>>
      BY <2>6 DEF Mark, history
    <3>2. row[d] \in Row /\ outcome[d] \in Outcome
      BY <1>b, <3>1 DEF LocalInv, Sending
    <3>3. \A e \in Drain \ {d} : /\ InFlight(e, r)' <=> InFlight(e, r)
                                 /\ outcome'[e] = outcome[e]
      BY <1>b, <3>1 DEF SendTypeOK, InFlight, Sending
    <3>4. ~InFlight(d, r)' /\ (InFlight(d, r) <=> row[d] = r)
      BY <1>b, <3>1 DEF SendTypeOK, InFlight, Sending
    <3>5. CASE row[d] = r
      <4>1. /\ d \in Deliverers(r)
            /\ Deliverers(r)' = Deliverers(r) \ {d} /\ Untold(r)' = Untold(r) \ {d}
        BY <3>3, <3>4, <3>5 DEF Deliverers, Untold
      <4>2. d \in Untold(r) \/ ~Open(r)'
        <5>1. sendStatus'[r] = outcome[d]
          BY <1>b, <3>1, <3>2, <3>5 DEF SendTypeOK
        <5> QED
          BY <4>1, <5>1 DEF Untold, Open
      <4> QED
        BY <1>b, <3>1, <4>1, <4>2, BalanceLeaves
    <3>6. CASE row[d] # r
      <4>1. SameFlights
        BY <3>3, <3>4, <3>6 DEF Deliverers, Untold
      <4>2. sendStatus'[r] = sendStatus[r] /\ claimAge'[r] = claimAge[r]
        BY <1>b, <3>1, <3>6 DEF SendTypeOK
      <4>3. Open(r)' <=> Open(r)
        BY <3>1, <3>3, <3>4, <3>6, <4>2 DEF Open, Owned
      <4> QED
        BY <1>q, <3>1, <4>1, <4>3
    <3> QED
      BY <3>5, <3>6
  <2>7. ASSUME NEW committed \in BOOLEAN, MarkSentThrows(d, committed)
        PROVE  Balanced(r)'
    <3>1. /\ pc[d] = "mark" /\ outcome[d] = "sent"
          /\ outcome' = [outcome EXCEPT ![d] = "failed"]
          /\ lost' = [lost EXCEPT ![row[d]] = lost[row[d]] + 1]
          /\ sendStatus' \in {sendStatus, [sendStatus EXCEPT ![row[d]] = "sent"]}
          /\ claimAge' \in {claimAge, [claimAge EXCEPT ![row[d]] = 0]}
          /\ sendStatus' = sendStatus => claimAge' = claimAge \/ sendStatus[row[d]] = "sent"
          /\ UNCHANGED <<pc, row, age, delivered, taken>>
      <4>1. CASE committed
        BY <1>b, <2>7, <4>1 DEF MarkSentThrows, SendTypeOK, LocalInv, Sending
      <4>2. CASE ~committed
        BY <2>7, <4>2 DEF MarkSentThrows
      <4> QED
        BY <4>1, <4>2
    <3>2. row[d] \in Row
      BY <1>b, <3>1 DEF LocalInv, Sending
    <3>3. \A e \in Drain : InFlight(e, r)' <=> InFlight(e, r)
      BY <3>1 DEF InFlight, Sending
    <3>4. \A e \in Drain \ {d} : outcome'[e] = outcome[e]
      BY <1>b, <3>1 DEF SendTypeOK
    <3>5. Deliverers(r)' = Deliverers(r)
      BY <3>3 DEF Deliverers
    <3>6. CASE row[d] = r
      <4>1. Untold(r)' \subseteq Untold(r) \cup {d}
        BY <3>3, <3>4 DEF Deliverers, Untold
      <4>2. lost'[r] = lost[r] + 1
        BY <1>b, <3>1, <3>6 DEF SendTypeOK
      <4>3. sendStatus'[r] = "sent" \/ (sendStatus'[r] = sendStatus[r] /\ claimAge'[r] = claimAge[r])
        BY <1>b, <3>1, <3>2, <3>6 DEF SendTypeOK
      <4>4. Open(r)' => Open(r)
        BY <3>1, <3>3, <4>3 DEF Open, Owned
      <4> QED
        BY <1>b, <3>1, <3>5, <4>1, <4>2, <4>4, BalanceDelivers
    <3>7. CASE row[d] # r
      <4>1. ~InFlight(d, r)
        BY <3>7 DEF InFlight
      <4>2. Untold(r)' = Untold(r)
        BY <3>3, <3>4, <4>1 DEF Deliverers, Untold
      <4>3. sendStatus'[r] = sendStatus[r] /\ claimAge'[r] = claimAge[r] /\ lost'[r] = lost[r]
        BY <1>b, <3>1, <3>2, <3>7 DEF SendTypeOK
      <4>4. Open(r)' => Open(r)
        BY <3>1, <3>3, <4>3 DEF Open, Owned
      <4> QED
        BY <1>q, <3>1, <3>5, <4>2, <4>3, <4>4
    <3> QED
      BY <3>6, <3>7
  <2>8. CASE Finish(d) \/ Abort(d)
    <3>1. ToIdle(d) /\ UNCHANGED <<ledger, delivered, taken>>
      BY <2>8 DEF Finish, Abort, history
    <3>2. \A e \in Drain \ {d} : /\ InFlight(e, r)' <=> InFlight(e, r)
                                 /\ outcome'[e] = outcome[e] /\ age'[e] = age[e]
      BY <1>b, <3>1 DEF SendTypeOK, ToIdle, InFlight, Sending
    <3>3. ~InFlight(d, r)'
      BY <1>b, <3>1 DEF SendTypeOK, ToIdle, InFlight, Sending
    <3>4. CASE InFlight(d, r)
      <4>1. /\ d \in Deliverers(r)
            /\ Deliverers(r)' = Deliverers(r) \ {d} /\ Untold(r)' = Untold(r) \ {d}
        BY <3>2, <3>3, <3>4 DEF Deliverers, Untold
      <4>2. Abort(d) /\ row[d] = r
        BY <2>8, <3>4 DEF Finish, InFlight, Sending
      <4>3. (d \in Untold(r) /\ lost'[r] = lost[r]) \/ lost'[r] = lost[r] + 1
        BY <1>b, <4>1, <4>2 DEF SendTypeOK, Abort, Untold
      <4> QED
        BY <1>b, <3>1, <4>1, <4>3, BalanceLeaves
    <3>5. CASE ~InFlight(d, r)
      <4>1. SameFlights
        BY <3>2, <3>3, <3>5 DEF Deliverers, Untold
      <4>2. Open(r)' <=> Open(r)
        BY <3>1, <3>2, <3>3, <3>5 DEF Open, Owned, ledger
      <4>3. lost'[r] = lost[r]
        (* A drain with an outcome 'sent' has its row in flight. *)
        BY <1>b, <2>8, <3>5 DEF SendTypeOK, LocalInv, Sending, InFlight, Finish, Abort, history
      <4> QED
        BY <1>q, <3>1, <4>1, <4>2, <4>3
    <3> QED
      BY <3>4, <3>5
  <2> QED
    BY <1>1, <1>q, <2>1, <2>2, <2>3, <2>4, <2>5, <2>6, <2>7, <2>8 DEF DrainStep
<1>2. ASSUME NEW d \in Drain, Demand(d) \/ BeginDrain(d, Campaign)
      PROVE  Quiet
  <2>1. /\ pc[d] \in {"idle", "queue"} /\ \E p \in {"queue", "reclaim"} : pc' = [pc EXCEPT ![d] = p]
        /\ age' \in {age, [age EXCEPT ![d] = 0]}
        /\ UNCHANGED <<row, outcome, history, claimAge>>
    BY <1>2 DEF Demand, SendCampaign, RetryFailed, QueueManualSend, BeginDrain, InsertPending, ledger
  <2>2. \A e \in Drain : InFlight(e, r)' <=> InFlight(e, r)
    BY <1>b, <2>1 DEF SendTypeOK, InFlight, Sending
  <2>3. SameFlights
    BY <2>1, <2>2 DEF Deliverers, Untold
  <2>4. \A e \in Drain : InFlight(e, r) => age'[e] = age[e]
    BY <1>b, <2>1 DEF SendTypeOK, InFlight, Sending
  <2>5. Owned(r)' <=> Owned(r)
    BY <2>1, <2>2, <2>4 DEF Owned
  <2>6. sendStatus'[r] = sendStatus[r] \/ sendStatus[r] \in {"none", "failed"}
    BY <1>b, <1>2 DEF SendTypeOK, Demand, SendCampaign, RetryFailed, Requeued, QueueManualSend, BeginDrain,
                      InsertPending, Existing, ledger
  <2> QED
    BY <2>1, <2>3, <2>5, <2>6 DEF Open, history
<1>3. ASSUME NEW c \in Campaign, NEW l \in Lead, Evaluate(c, l)
      PROVE  Quiet
  <2>1. UNCHANGED <<claimAge, pc, row, outcome, age, delivered, lost, taken>>
    BY <1>3 DEF Evaluate, InsertPending, drains, history
  <2>2. sendStatus'[r] = sendStatus[r] \/ sendStatus[r] = "none"
    BY <1>b, <1>3 DEF SendTypeOK, Evaluate, InsertPending, Existing
  <2> QED
    BY <2>1, <2>2 DEF Deliverers, Untold, Open, Owned, InFlight, Sending
<1>4. CASE UNCHANGED <<ledger, drains, history>>
  BY <1>q, <1>4 DEF Deliverers, Untold, Open, Owned, InFlight, Sending, ledger, drains, history
<1>5. CASE Elapse
  <2>1. UNCHANGED <<sendStatus, pc, row, outcome, delivered, lost, taken>>
    BY <1>5 DEF Elapse, history
  <2>2. SameFlights
    BY <2>1 DEF Deliverers, Untold, InFlight, Sending
  <2>3. ASSUME NEW e \in Drain, InFlight(e, r), claimAge[r] = age[e], sendStatus[r] = "sending"
        PROVE  claimAge'[r] = age'[e]
    <3>1. /\ age'[e] = age[e] + 1 /\ age[e] \in Nat /\ age[e] < MaxAge
      BY <1>b, <1>5, <2>3 DEF SendTypeOK, Elapse, Running, InFlight, Sending
    <3>2. claimAge'[r] = Older(claimAge[r], AgeCap)
      BY <1>5, <2>3 DEF Elapse
    <3> QED
      BY <2>3, <3>1, <3>2 DEF Older, AgeCap
  <2>4. Open(r)' => Open(r)
    BY <2>1, <2>3 DEF Open, Owned, InFlight, Sending
  <2> QED
    BY <1>q, <2>1, <2>2, <2>4
<1> QED
  BY <1>1, <1>2, <1>3, <1>4, <1>5, <1>q
     DEF SendNext, Environment, SetActive, EditCampaign, EditLeadEmail, sendVars

(* Of a row that was never taken there is at most one deliverer, and none   *)
(* while a claim can still be won.                                          *)
LEMMA Alone ==
  ASSUME IInv, NEW r \in Row, taken[r] = 0, NEW d \in Drain, InFlight(d, r)
  PROVE  ~Open(r) /\ \A e \in Drain : InFlight(e, r) => e = d
<1> DEFINE D == Deliverers(r)
<1>1. IsFiniteSet(D) /\ d \in D /\ Cardinality(D) + Chance(r) <= 1
  BY DEF IInv, Balanced, SendTypeOK, Deliverers
<1>2. Chance(r) \in {0, 1} /\ (Open(r) => Chance(r) = 1)
  BY DEF Chance
<1>3. ASSUME NEW e \in D, e # d
      PROVE  FALSE
  <2> DEFINE T == D \ {d}
  <2> HIDE DEF D
  <2>1. /\ IsFiniteSet(T) /\ Cardinality(T) \in Nat /\ Cardinality(D) \in Nat
        /\ Cardinality(T) = Cardinality(D) - 1
    BY <1>1, OneLess
  <2>2. e \in T
    BY <1>3
  <2> HIDE DEF T
  <2>3. Cardinality(T \ {e}) \in Nat /\ Cardinality(T \ {e}) = Cardinality(T) - 1
    BY <2>1, <2>2, OneLess
  <2> QED
    BY <1>1, <1>2, <2>1, <2>3
<1>4. ~Open(r)
  <2> HIDE DEF D
  <2>1. Cardinality(D \ {d}) \in Nat /\ Cardinality(D) \in Nat
        /\ Cardinality(D \ {d}) = Cardinality(D) - 1
    BY <1>1, OneLess
  <2> QED
    BY <1>1, <1>2, <2>1
<1> QED
  BY <1>3, <1>4 DEF Deliverers

LEMMA KeptStep ==
  ASSUME IInv, [SendNext]_sendVars, NEW r \in Row
  PROVE  Kept(r)'
<1> USE NumberAssumption
<1>b. SendTypeOK /\ LocalInv /\ Kept(r)
  BY DEF IInv
<1> SUFFICES ASSUME taken'[r] = 0, NEW e \in Drain, InFlight(e, r)'
             PROVE  \/ sendStatus'[r] = "sending"
                    \/ sendStatus'[r] = "sent" /\ lost'[r] > 0 /\ pc'[e] = "mark" /\ outcome'[e] = "failed"
  BY DEF Kept
<1>t. taken[r] = 0
  <2>1. taken' = taken \/ \E d \in Drain : Reclaim(d)
    <3>1. ASSUME NEW d \in Drain, DrainStep(d), ~Reclaim(d)
          PROVE  taken' = taken
      BY <3>1 DEF DrainStep, Select, Claim, LoseClaim, Deliver, DeliverFails, Mark,
                  MarkSentThrows, Finish, Abort, history
    <3>2. ASSUME NEW d \in Drain, Demand(d) \/ BeginDrain(d, Campaign)
          PROVE  taken' = taken
      BY <3>2 DEF Demand, SendCampaign, RetryFailed, QueueManualSend, BeginDrain, history
    <3>3. CASE Environment \/ UNCHANGED sendVars
      BY <3>3 DEF Environment, Evaluate, SetActive, EditCampaign, EditLeadEmail, Elapse,
                  history, sendVars
    <3> QED
      BY <3>1, <3>2, <3>3 DEF SendNext
  <2>2. taken'[r] = taken[r] \/ taken'[r] = taken[r] + 1
    BY <1>b, <2>1 DEF SendTypeOK, Reclaim
  <2>3. taken[r] \in Nat
    BY <1>b DEF SendTypeOK
  <2> QED
    BY <2>2, <2>3
<1> DEFINE Stays == /\ InFlight(e, r) /\ sendStatus'[r] = sendStatus[r] /\ lost'[r] >= lost[r]
                    /\ pc'[e] = pc[e] /\ outcome'[e] = outcome[e]
<1>s. ASSUME Stays
      PROVE  \/ sendStatus'[r] = "sending"
             \/ sendStatus'[r] = "sent" /\ lost'[r] > 0 /\ pc'[e] = "mark" /\ outcome'[e] = "failed"
  <2>1. \/ sendStatus[r] = "sending"
        \/ sendStatus[r] = "sent" /\ lost[r] > 0 /\ pc[e] = "mark" /\ outcome[e] = "failed"
    BY <1>b, <1>t, <1>s DEF Kept
  <2> QED
    BY <1>b, <1>s, <2>1, TypeStep DEF SendTypeOK
<1>1. ASSUME NEW d \in Drain, DrainStep(d), d # e
      PROVE  \/ Stays
             \/ sendStatus'[r] = "sending"
  (* Nobody else has the row, so nobody else's outcome is recorded on it.   *)
  <2>1. InFlight(e, r) /\ pc'[e] = pc[e] /\ outcome'[e] = outcome[e]
    BY <1>b, <1>1 DEF SendTypeOK, InFlight, Sending, DrainStep, Reclaim, Select, Claim, LoseClaim, Deliver,
                      DeliverFails, Mark, MarkSentThrows, Finish, Abort, ToIdle
  <2>2. ~InFlight(d, r) /\ ~Open(r)
    BY <1>t, <1>1, <2>1, Alone
  <2>3. lost'[r] >= lost[r]
    BY <1>b, <1>1, <2>2 DEF SendTypeOK, LocalInv, InFlight, Sending, DrainStep, Reclaim, Select, Claim, LoseClaim,
       Deliver, DeliverFails, Mark, MarkSentThrows, Finish, Abort, history
  <2>4. CASE Reclaim(d)
    <3>1. sendStatus[r] = "sending" => Owned(r)
      BY <2>2 DEF Open
    <3>2. ~(InScope(d, r) /\ LeaseExpired(d, r))
      <4> SUFFICES ASSUME InScope(d, r), LeaseExpired(d, r) PROVE FALSE
        OBVIOUS
      <4>1. \E f \in Drain : InFlight(f, r) /\ age[f] > Lease
        BY <1>b, <3>1 DEF SendTypeOK, LeaseExpired, Owned
      <4>2. taken'[r] = taken[r] + 1
        BY <1>b, <2>4, <4>1 DEF SendTypeOK, Reclaim
      <4> QED
        BY <1>t, <4>2
    <3> QED
      BY <1>b, <2>1, <2>3, <2>4, <3>2 DEF SendTypeOK, Reclaim
  <2>5. ASSUME NEW q \in Row, Claim(d, q)
        PROVE  Stays
    <3>1. sendStatus[r] # "pending"
      BY <2>2 DEF Open
    <3> QED
      BY <1>b, <2>1, <2>3, <2>5, <3>1 DEF SendTypeOK, Claim, Claimable
  <2>6. CASE Mark(d)
    BY <1>b, <2>1, <2>2, <2>3, <2>6 DEF SendTypeOK, LocalInv, Sending, Mark, InFlight
  <2>7. ASSUME NEW committed \in BOOLEAN, MarkSentThrows(d, committed)
        PROVE  Stays
    <3>1. row[d] # r
      BY <2>2, <2>7 DEF MarkSentThrows, InFlight, Sending
    <3>2. sendStatus'[r] = sendStatus[r]
      BY <1>b, <2>7, <3>1 DEF SendTypeOK, MarkSentThrows
    <3> QED
      BY <2>1, <2>3, <3>2
  <2>8. CASE UNCHANGED ledger
    BY <2>1, <2>3, <2>8 DEF ledger
  <2> QED
    BY <1>1, <2>4, <2>5, <2>6, <2>7, <2>8
       DEF DrainStep, Select, LoseClaim, Deliver, DeliverFails, Finish, Abort
<1>2. ASSUME DrainStep(e)
      PROVE  \/ Stays
             \/ sendStatus'[r] = "sending"
             \/ sendStatus'[r] = "sent" /\ lost'[r] > 0 /\ pc'[e] = "mark" /\ outcome'[e] = "failed"
  <2>1. ASSUME NEW q \in Row, Claim(e, q)
        PROVE  sendStatus'[r] = "sending"
    <3>1. q = r
      BY <1>b, <2>1 DEF SendTypeOK, Claim, InFlight, Sending
    <3> QED
      BY <1>b, <2>1, <3>1 DEF SendTypeOK, Claim
  <2>2. ASSUME Deliver(e) \/ \E accepted \in BOOLEAN : DeliverFails(e, accepted)
        PROVE  sendStatus'[r] = "sending"
    <3>1. InFlight(e, r) /\ pc[e] = "send" /\ UNCHANGED ledger
      BY <2>2 DEF Deliver, DeliverFails, InFlight, Sending
    <3> QED
      BY <1>b, <1>t, <3>1 DEF Kept, ledger
  <2>3. ASSUME NEW committed \in BOOLEAN, MarkSentThrows(e, committed)
        PROVE  \/ sendStatus'[r] = "sending"
               \/ sendStatus'[r] = "sent" /\ lost'[r] > 0 /\ pc'[e] = "mark" /\ outcome'[e] = "failed"
    <3>1. InFlight(e, r) /\ row[e] = r /\ outcome[e] = "sent" /\ pc[e] = "mark"
      BY <2>3 DEF MarkSentThrows, InFlight, Sending
    <3>2. sendStatus[r] = "sending"
      BY <1>b, <1>t, <3>1 DEF Kept
    <3>3. outcome'[e] = "failed" /\ lost'[r] > 0 /\ pc'[e] = "mark"
      BY <1>b, <2>3, <3>1 DEF SendTypeOK, MarkSentThrows
    <3>4. sendStatus'[r] = "sending" \/ sendStatus'[r] = "sent"
      BY <1>b, <2>3, <3>1, <3>2 DEF SendTypeOK, MarkSentThrows
    <3> QED
      BY <3>3, <3>4
  <2>4. ASSUME Reclaim(e) \/ Select(e) \/ Mark(e) \/ Finish(e) \/ Abort(e)
        PROVE  FALSE
    BY <1>b, <2>4 DEF SendTypeOK, InFlight, Sending, Reclaim, Select, Mark, Finish, Abort, ToIdle
  <2>5. ASSUME NEW q \in Row, LoseClaim(e, q)
        PROVE  FALSE
    BY <2>5 DEF LoseClaim, InFlight, Sending
  <2> QED
    BY <1>2, <2>1, <2>2, <2>3, <2>4, <2>5 DEF DrainStep
<1>3. ASSUME NEW d \in Drain, Demand(d) \/ BeginDrain(d, Campaign)
      PROVE  Stays
  <2>1. /\ pc[d] \in {"idle", "queue"} /\ \E p \in {"queue", "reclaim"} : pc' = [pc EXCEPT ![d] = p]
        /\ UNCHANGED <<row, outcome, lost>>
    BY <1>3 DEF Demand, SendCampaign, RetryFailed, QueueManualSend, BeginDrain, history
  <2>2. InFlight(e, r) /\ pc'[e] = pc[e] /\ lost'[r] >= lost[r]
    BY <1>b, <2>1 DEF SendTypeOK, InFlight, Sending
  <2>3. sendStatus[r] \notin {"none", "failed"}
    BY <1>t, <2>2, Alone DEF Open
  <2>4. sendStatus'[r] = sendStatus[r]
    BY <1>b, <1>3, <2>3 DEF SendTypeOK, Demand, SendCampaign, RetryFailed, Requeued, QueueManualSend, BeginDrain,
                            InsertPending, Existing, ledger
  <2> QED
    BY <2>1, <2>2, <2>4
<1>4. ASSUME NEW c \in Campaign, NEW l \in Lead, Evaluate(c, l)
      PROVE  Stays
  <2>1. UNCHANGED <<pc, row, outcome, lost>>
    BY <1>4 DEF Evaluate, drains, history
  <2>2. InFlight(e, r) /\ lost'[r] >= lost[r]
    BY <1>b, <2>1 DEF SendTypeOK, InFlight, Sending
  <2>3. sendStatus[r] # "none"
    BY <1>t, <2>2, Alone DEF Open
  <2>4. sendStatus'[r] = sendStatus[r]
    BY <1>b, <1>4, <2>3 DEF SendTypeOK, Evaluate, InsertPending, Existing
  <2> QED
    BY <2>1, <2>2, <2>4
<1>5. ASSUME UNCHANGED <<sendStatus, pc, row, outcome, lost>>
      PROVE  Stays
  BY <1>b, <1>5 DEF SendTypeOK, InFlight, Sending
<1> QED
  BY <1>s, <1>1, <1>2, <1>3, <1>4, <1>5
     DEF SendNext, Environment, SetActive, EditCampaign, EditLeadEmail, Elapse, sendVars, ledger, drains, history

(* The inductive invariant, for drains of any length. *)
LEMMA Inductive == SendSpec => []IInv
<1>1. SendInit => IInv
  <2> SUFFICES ASSUME SendInit, NEW r \in Row
               PROVE  Balanced(r) /\ Kept(r)
    BY InitLocal DEF IInv
  <2>1. Deliverers(r) = {} /\ Untold(r) = {}
    BY DEF SendInit, Deliverers, Untold, InFlight, Sending
  <2>2. Chance(r) = 1
    BY DEF SendInit, Chance, Open
  <2> QED
    BY <2>1, <2>2, FS_EmptySet DEF SendInit, Balanced, Kept, InFlight, Sending
<1>2. IInv /\ [SendNext]_sendVars => IInv'
  <2> SUFFICES ASSUME IInv, [SendNext]_sendVars
               PROVE  IInv'
    OBVIOUS
  <2>1. SendTypeOK' /\ LocalInv'
    BY TypeStep, LocalStep DEF IInv
  <2>2. \A r \in Row : Balanced(r)' /\ Kept(r)'
    BY <2>1, BalanceStep, KeptStep
  <2> QED
    BY <2>1, <2>2 DEF IInv, Row
<1> QED
  BY <1>1, <1>2, PTL DEF SendSpec

(* What the claim gives, however long drains run: a further attempt is in   *)
(* flight only for a row that was taken from a drain past its lease ...     *)
THEOREM OverlapsNeedOverruns == SendSpec => []OverlapsAreOverruns
<1>1. IInv => OverlapsAreOverruns
  <2> SUFFICES ASSUME IInv, NEW r \in Row
               PROVE  Cardinality(Deliverers(r)) <= 1 + taken[r]
    BY DEF OverlapsAreOverruns
  <2>1. Balanced(r) /\ taken[r] \in Nat /\ Chance(r) \in {0, 1}
    BY DEF IInv, SendTypeOK, Chance
  <2> QED
    BY <2>1, UntoldFew DEF Balanced
<1> QED
  BY <1>1, Inductive, PTL

(* ... a further email needs such a row, or the record of an earlier one to *)
(* have been lost ...                                                       *)
THEOREM DuplicatesStayExplained == SendSpec => []DuplicatesAreExplained
<1>1. IInv => DuplicatesAreExplained
  <2> SUFFICES ASSUME IInv, NEW r \in Row
               PROVE  delivered[r] <= 1 + lost[r] + taken[r]
    BY DEF DuplicatesAreExplained
  <2>1. /\ Balanced(r) /\ Chance(r) \in {0, 1}
        /\ delivered[r] \in Nat /\ lost[r] \in Nat /\ taken[r] \in Nat
    BY DEF IInv, SendTypeOK, Chance
  <2> QED
    BY <2>1, UntoldFew DEF Balanced
<1> QED
  BY <1>1, Inductive, PTL

(* ... and of any other row no recorded outcome that is final is replaced,  *)
(* but for the 'failed' of a drain that could not tell it was recorded.     *)
THEOREM FinalOutcomes == SendSpec => OutcomesAreFinal
<1> DEFINE Final(r) ==
      taken[r] = 0 =>
        /\ sendStatus[r] = "skipped_no_email" => sendStatus'[r] = sendStatus[r]
        /\ sendStatus[r] = "failed" /\ attempts[r] >= MaxAttempts => sendStatus'[r] = sendStatus[r]
        /\ sendStatus[r] = "sent" => \/ sendStatus'[r] = "sent"
                                     \/ sendStatus'[r] = "failed" /\ lost[r] > 0
<1>1. IInv /\ [SendNext]_sendVars => \A r \in Row : Final(r)
  <2> SUFFICES ASSUME IInv, [SendNext]_sendVars, NEW r \in Row, taken[r] = 0,
                      \/ sendStatus[r] \in {"skipped_no_email", "sent"}
                      \/ sendStatus[r] = "failed" /\ attempts[r] >= MaxAttempts
               PROVE  \/ sendStatus'[r] = sendStatus[r]
                      \/ sendStatus[r] = "sent" /\ sendStatus'[r] = "failed" /\ lost[r] > 0
    OBVIOUS
  <2>b. SendTypeOK /\ LocalInv /\ Kept(r)
    BY DEF IInv
  <2>1. ASSUME NEW d \in Drain, DrainStep(d)
        PROVE  \/ sendStatus'[r] = sendStatus[r]
               \/ sendStatus[r] = "sent" /\ sendStatus'[r] = "failed" /\ lost[r] > 0
    <3>1. CASE Mark(d)
      <4>1. CASE row[d] = r
        <5>1. InFlight(d, r)
          BY <3>1, <4>1 DEF Mark, InFlight, Sending
        <5>2. sendStatus[r] = "sent" /\ lost[r] > 0 /\ outcome[d] = "failed"
          BY <2>b, <5>1 DEF Kept
        <5> QED
          BY <2>b, <3>1, <4>1, <5>2 DEF SendTypeOK, Mark
      <4>2. CASE row[d] # r
        BY <2>b, <3>1, <4>2 DEF SendTypeOK, Mark
      <4> QED
        BY <4>1, <4>2
    <3>2. CASE Reclaim(d)
      BY <2>b, <3>2 DEF SendTypeOK, Reclaim, LeaseExpired
    <3>3. ASSUME NEW q \in Row, Claim(d, q)
          PROVE  sendStatus'[r] = sendStatus[r]
      BY <2>b, <3>3 DEF SendTypeOK, Claim, Claimable
    <3>4. ASSUME NEW committed \in BOOLEAN, MarkSentThrows(d, committed)
          PROVE  sendStatus'[r] = sendStatus[r]
      <4>1. CASE row[d] = r
        <5>1. InFlight(d, r) /\ outcome[d] = "sent"
          BY <3>4, <4>1 DEF MarkSentThrows, InFlight, Sending
        <5> QED
          BY <2>b, <5>1 DEF Kept
      <4>2. CASE row[d] # r
        BY <2>b, <3>4, <4>2 DEF SendTypeOK, MarkSentThrows
      <4> QED
        BY <4>1, <4>2
    <3>5. CASE UNCHANGED ledger
      BY <3>5 DEF ledger
    <3> QED
      BY <2>1, <3>1, <3>2, <3>3, <3>4, <3>5
         DEF DrainStep, Select, LoseClaim, Deliver, DeliverFails, Finish, Abort
  <2>2. ASSUME NEW d \in Drain, NEW c \in Campaign, RetryFailed(d, c)
        PROVE  sendStatus'[r] = sendStatus[r]
    BY <2>b, <2>2, NumberAssumption DEF SendTypeOK, RetryFailed, Requeued
  <2>3. ASSUME NEW R, InsertPending(R)
        PROVE  sendStatus'[r] = sendStatus[r]
    BY <2>3 DEF InsertPending, Existing
  <2>4. CASE UNCHANGED sendStatus
    BY <2>4
  <2> QED
    BY <2>1, <2>2, <2>3, <2>4
       DEF SendNext, Environment, Demand, SendCampaign, QueueManualSend, BeginDrain,
           Evaluate, SetActive, EditCampaign, EditLeadEmail, Elapse, ledger, sendVars
<1>2. IInv /\ [SendNext]_sendVars => [\A r \in Row : Final(r)]_sendVars
  BY <1>1
<1> QED
  BY <1>2, Inductive, PTL DEF SendSpec, OutcomesAreFinal

-----------------------------------------------------------------------------
(* The drains that are about to call the transport for a row.  However long *)
(* drains run, each of them was counted when it claimed the row.            *)
Senders(r) == {d \in Drain : pc[d] = "send" /\ row[d] = r}

Covered(r) == IsFiniteSet(Senders(r)) /\ delivered[r] + Cardinality(Senders(r)) <= attempts[r]

AttemptsInv == SendTypeOK /\ LocalInv /\ \A r \in Row : Covered(r)

(* No new sender, no delivery.                                             *)
LEMMA CoveredFrame ==
  ASSUME SendTypeOK, NEW r \in Row, Covered(r), Senders(r)' \subseteq Senders(r),
         delivered'[r] = delivered[r], attempts'[r] = attempts[r]
  PROVE  Covered(r)'
<1>1. /\ IsFiniteSet(Senders(r)') /\ Cardinality(Senders(r)') \in Nat
      /\ Cardinality(Senders(r)) \in Nat
      /\ Cardinality(Senders(r)') <= Cardinality(Senders(r))
  BY FS_Subset, FS_CardinalityType DEF Covered
<1> QED
  BY <1>1 DEF Covered, SendTypeOK

(* A sender becomes a delivery.                                            *)
LEMMA CoveredDelivers ==
  ASSUME SendTypeOK, NEW r \in Row, Covered(r), NEW d \in Senders(r), Senders(r)' = Senders(r) \ {d},
         delivered'[r] \in {delivered[r], delivered[r] + 1}, attempts'[r] = attempts[r]
  PROVE  Covered(r)'
<1>1. /\ IsFiniteSet(Senders(r)') /\ Cardinality(Senders(r)') = Cardinality(Senders(r)) - 1
      /\ Cardinality(Senders(r)) \in Nat
  BY FS_RemoveElement, FS_CardinalityType DEF Covered
<1> QED
  BY <1>1 DEF Covered, SendTypeOK

(* A claim counts and adds at most one sender.                             *)
LEMMA CoveredClaims ==
  ASSUME SendTypeOK, NEW r \in Row, Covered(r), NEW d \in Drain, d \notin Senders(r),
         Senders(r)' \in {Senders(r), Senders(r) \cup {d}},
         delivered'[r] = delivered[r], attempts'[r] = attempts[r] + 1
  PROVE  Covered(r)'
<1>1. IsFiniteSet(Senders(r)) /\ Cardinality(Senders(r)) \in Nat
  BY FS_CardinalityType DEF Covered
<1>2. /\ IsFiniteSet(Senders(r) \cup {d})
      /\ Cardinality(Senders(r) \cup {d}) = Cardinality(Senders(r)) + 1
  <2> DEFINE S == Senders(r)
  <2>1. IsFiniteSet(S) /\ d \notin S
    BY <1>1
  <2> HIDE DEF S
  <2>2. IsFiniteSet(S \cup {d}) /\ Cardinality(S \cup {d}) = Cardinality(S) + 1
    BY <2>1, FS_AddElement
  <2> QED
    BY <2>2 DEF S
<1>3. IsFiniteSet(Senders(r)') /\ Cardinality(Senders(r)') <= Cardinality(Senders(r)) + 1
  <2>1. CASE Senders(r)' = Senders(r)
    <3>1. Cardinality(Senders(r)') = Cardinality(Senders(r))
      BY <2>1, Zenon
    <3>2. IsFiniteSet(Senders(r)')
      BY <2>1, <1>1, Zenon
    <3> QED
      BY <3>1, <3>2, <1>1
  <2>2. CASE Senders(r)' = Senders(r) \cup {d}
    <3>1. Cardinality(Senders(r)') = Cardinality(Senders(r) \cup {d})
      BY <2>2, Zenon
    <3>2. IsFiniteSet(Senders(r)')
      BY <2>2, <1>2, Zenon
    <3> QED
      BY <3>1, <3>2, <1>1, <1>2
  <2> QED
    BY <2>1, <2>2
<1>4. Cardinality(Senders(r)') \in Nat
  BY <1>3, FS_CardinalityType
<1> QED
  BY <1>1, <1>3, <1>4 DEF Covered, SendTypeOK

LEMMA AttemptsStep ==
  ASSUME AttemptsInv, [SendNext]_sendVars, NEW r \in Row
  PROVE  Covered(r)'
<1> USE DEF AttemptsInv
<1> DEFINE Frame == /\ Senders(r)' \subseteq Senders(r)
                    /\ delivered'[r] = delivered[r] /\ attempts'[r] = attempts[r]
<1>1. ASSUME NEW d \in Drain, DrainStep(d)
      PROVE  Covered(r)'
  <2>1. ASSUME NEW q \in Row, Claim(d, q)
        PROVE  Covered(r)'
    <3>1. /\ pc[d] = "claim" /\ row' = [row EXCEPT ![d] = q] /\ delivered' = delivered
          /\ \E p \in {"send", "mark"} : pc' = [pc EXCEPT ![d] = p]
          /\ attempts' = [attempts EXCEPT ![q] = attempts[q] + 1]
      BY <2>1 DEF Claim, Attempted, history
    <3>2. CASE q = r
      <4>1. Senders(r)' \in {Senders(r), Senders(r) \cup {d}} /\ d \notin Senders(r)
        BY <3>1, <3>2 DEF SendTypeOK, Senders
      <4> QED
        BY <3>1, <3>2, <4>1, CoveredClaims DEF SendTypeOK
    <3>3. CASE q # r
      <4>1. Frame
        BY <3>1, <3>3 DEF SendTypeOK, Senders
      <4> QED
        BY <4>1, CoveredFrame
    <3> QED
      BY <3>2, <3>3
  <2>2. ASSUME Deliver(d) \/ \E accepted \in BOOLEAN : DeliverFails(d, accepted)
        PROVE  Covered(r)'
    <3>1. /\ pc[d] = "send" /\ pc' = [pc EXCEPT ![d] = "mark"] /\ row' = row
          /\ attempts' = attempts
          /\ delivered' \in {delivered, [delivered EXCEPT ![row[d]] = delivered[row[d]] + 1]}
      BY <2>2 DEF Deliver, DeliverFails, history, ledger
    <3>2. CASE row[d] = r
      <4>1. d \in Senders(r) /\ Senders(r)' = Senders(r) \ {d}
        BY <3>1, <3>2 DEF SendTypeOK, Senders
      <4>2. delivered'[r] \in {delivered[r], delivered[r] + 1}
        BY <3>1, <3>2 DEF SendTypeOK
      <4> QED
        BY <3>1, <4>1, <4>2, CoveredDelivers
    <3>3. CASE row[d] # r
      <4>1. Frame
        BY <3>1, <3>3 DEF SendTypeOK, Senders
      <4> QED
        BY <4>1, CoveredFrame
    <3> QED
      BY <3>2, <3>3
  <2>3. ASSUME Reclaim(d) \/ Select(d) \/ (\E q \in Row : LoseClaim(d, q))
        PROVE  Frame
    BY <2>3 DEF SendTypeOK, Senders, Reclaim, Select, LoseClaim, history, ledger
  <2>4. ASSUME Mark(d) \/ \E committed \in BOOLEAN : MarkSentThrows(d, committed)
        PROVE Frame
    BY <2>4 DEF SendTypeOK, Senders, Mark, MarkSentThrows, history, ledger
  <2>5. ASSUME Finish(d) \/ Abort(d) PROVE Frame
    BY <2>5 DEF SendTypeOK, Senders, Finish, Abort, ToIdle, history, ledger
  <2> QED
    BY <1>1, <2>1, <2>2, <2>3, <2>4, <2>5, CoveredFrame DEF DrainStep
<1>2. ASSUME NEW d \in Drain, Demand(d) \/ BeginDrain(d, Campaign)
      PROVE  Frame
  <2>1. UNCHANGED <<row, delivered, attempts>> /\ \E p \in {"queue", "reclaim"} : pc' = [pc EXCEPT ![d] = p]
    BY <1>2 DEF Demand, SendCampaign, RetryFailed, QueueManualSend, BeginDrain, InsertPending,
                history, ledger
  <2> QED
    BY <2>1 DEF SendTypeOK, Senders
<1>3. CASE Environment \/ UNCHANGED sendVars
  <2>1. UNCHANGED <<pc, row, delivered, attempts>>
    BY <1>3 DEF Environment, Evaluate, InsertPending, EditCampaign, SetActive, EditLeadEmail, Elapse,
                sendVars, drains, history, ledger
  <2> QED
    BY <2>1, CoveredFrame DEF Senders
<1> QED
  BY <1>1, <1>2, <1>3, CoveredFrame DEF SendNext

(* attempts never understates how often the transport was called, or is      *)
(* about to be, for a row: also when drains outlive the lease and several    *)
(* of them send one row.                                                   *)
THEOREM AttemptsAreCounted == SendSpec => []AttemptsCoverDeliveries
<1>1. SendInit => AttemptsInv
  <2> SUFFICES ASSUME SendInit, NEW r \in Row PROVE Covered(r)
    BY InitLocal DEF AttemptsInv
  <2>1. Senders(r) = {}
    BY DEF SendInit, Senders
  <2> QED
    BY <2>1, FS_EmptySet DEF SendInit, Covered
<1>2. AttemptsInv /\ [SendNext]_sendVars => AttemptsInv'
  BY TypeStep, LocalStep, AttemptsStep DEF AttemptsInv
<1>3. AttemptsInv => AttemptsCoverDeliveries
  BY DEF AttemptsInv, AttemptsCoverDeliveries, Covered, Senders
<1> QED
  BY <1>1, <1>2, <1>3, PTL DEF SendSpec
=============================================================================
