------------------------- MODULE LeadSharing_proofs -------------------------
(***************************************************************************)
(* What the partial unique index, the row locks and the order of           *)
(* statements guarantee of shares, for any users, slots, requests, grants  *)
(* and durations.                                                          *)
(***************************************************************************)
EXTENDS LeadSharing, TLAPS

(* What a request has learnt by the time it gets to a statement. *)
Informed(x) ==
  /\ session[x].at \in {"existing", "insert"} =>
       session[x].user \in User /\ session[x].days \in Duration
  /\ session[x].at \in {"update", "revoke"} => session[x].grant \in made
  /\ session[x].at \in {"grace", "move", "end", "create", "decide", "grant"} =>
       session[x].slot \in Slot /\ session[x].to \in User
  /\ session[x].at \in {"move", "grant"} =>
       /\ session[x].graced => session[x].user \in User
       /\ session[x].graced \/ NothingDue(x)
  /\ session[x].swept \subseteq made

LocalInv == \A x \in Session : Informed(x)

LEMMA IdleType == Idle \in SessionType
  BY DEF Idle, SessionType, Capabilities

LEMMA InsertType ==
  ASSUME TypeOK, NEW g \in Grant \ made, NEW u \in User, NEW E \in Capabilities,
         NEW days \in Duration, Insert(g, u, E, days)
  PROVE  /\ made' = made \cup {g} /\ made' \in SUBSET Grant
         /\ owner' \in [Grant -> User \cup {NoUser}]
         /\ extra' \in [Grant -> Capabilities]
         /\ left' \in [Grant -> Remaining]
         /\ revoked' = revoked
<1>1. days \in Remaining
  BY DurationAssumption DEF Remaining
<1> QED
  BY <1>1 DEF TypeOK, Insert

(* The part of TypeOK that is about the rows. *)
GrantTypes ==
  /\ made \in SUBSET Grant
  /\ owner \in [Grant -> User \cup {NoUser}]
  /\ extra \in [Grant -> Capabilities]
  /\ left \in [Grant -> Remaining]
  /\ revoked \in SUBSET made

LEMMA GraceType ==
  ASSUME TypeOK, NEW x \in Session, Informed(x), session[x].at \in {"move", "grant"},
         GrantGrace(x)
  PROVE  GrantTypes'
<1>1. {} \in Capabilities /\ Grace \in Duration
  BY DurationAssumption DEF Capabilities
<1>2. ASSUME NEW g \in Grant \ made, session[x].graced, Insert(g, session[x].user, {}, Grace)
      PROVE  GrantTypes'
  <2>1. session[x].user \in User
    BY <1>2 DEF Informed
  <2>2. revoked \in SUBSET made
    BY DEF TypeOK
  <2> QED
    BY <1>1, <1>2, <2>1, <2>2, InsertType DEF GrantTypes
<1>3. CASE UNCHANGED grants
  BY <1>3 DEF grants, GrantTypes, TypeOK
<1> QED
  BY <1>2, <1>3 DEF GrantGrace

LEMMA AssignType ==
  ASSUME TypeOK, NEW x \in Session, session[x].slot \in Slot, session[x].to \in User, Assign(x)
  PROVE  holder' \in [Slot -> User \cup {NoUser}] /\ move' \in [Slot -> Nat]
<1>1. move[session[x].slot] + 1 \in Nat
  BY DEF TypeOK
<1> QED
  BY <1>1 DEF Assign, TypeOK

LEMMA ReadType ==
  ASSUME TypeOK, NEW x \in Session, Informed(x),
         session[x].at \in {"grace", "move", "end", "create", "decide", "grant"}
  PROVE  ReadBy(x) \in SUBSET Assignment
<1>1. session[x].slot \in Slot /\ session[x].move \in Nat
  BY DEF Informed, TypeOK, SessionType
<1> QED
  BY <1>1 DEF ReadBy, Assignment

LEMMA OwedType ==
  ASSUME TypeOK, NEW x \in Session, Informed(x), session[x].slot \in Slot, Replace(x)
  PROVE  owed' \in SUBSET Assignment
<1>1. session[x].move \in Nat
  BY DEF TypeOK, SessionType
<1>2. ReadBy(x) \in SUBSET Assignment
  BY <1>1 DEF ReadBy, Assignment
<1> QED
  BY <1>2 DEF Replace, TypeOK

(* What both forms of the decision do to the record of the request. *)
Decides(x) == IF session[x].at = "grace" THEN "move" ELSE "grant"

DecisionOf(x, eligible) ==
  [session[x] EXCEPT !.at = Decides(x),
                     !.graced = eligible /\ StandingView(session[x].user) = {},
                     !.entitled = eligible,
                     !.standing = OwnedBy(session[x].user) \cap Live]

LEMMA DecisionFields ==
  ASSUME TypeOK, NEW x \in Session, NEW eligible \in BOOLEAN, NEW d, d = DecisionOf(x, eligible)
  PROVE  /\ d \in SessionType
         /\ d.at \in {"move", "grant"} /\ (session[x].at # "grace" => d.at = "grant")
         /\ d.user = session[x].user /\ d.slot = session[x].slot /\ d.to = session[x].to
         /\ d.move = session[x].move /\ d.swept = session[x].swept
         /\ d.graced = (eligible /\ StandingView(session[x].user) = {})
         /\ d.entitled = eligible
         /\ d.standing = OwnedBy(session[x].user) \cap Live
<1> DEFINE q == session[x]
           a == (eligible /\ StandingView(q.user) = {})
           G == OwnedBy(q.user) \cap Live
<1>1. G \in SUBSET Grant
  BY DEF TypeOK, OwnedBy
<1>2. a \in BOOLEAN
  OBVIOUS
<1>3. q \in SessionType /\ Decides(x) \in {"move", "grant"}
  BY DEF TypeOK, Decides
<1>4. d = [q EXCEPT !.at = Decides(x), !.graced = a, !.entitled = eligible, !.standing = G]
  BY DEF DecisionOf
<1>5. session[x].at # "grace" => Decides(x) = "grant"
  BY DEF Decides
<1> HIDE DEF q, a, G
<1>6. d \in SessionType
  <2> DEFINE d1 == [q EXCEPT !.at = Decides(x), !.graced = a]
  <2>1. d1 \in SessionType
    BY <1>2, <1>3 DEF SessionType
  <2>2. d = [d1 EXCEPT !.entitled = eligible, !.standing = G]
    BY <1>4
  <2> HIDE DEF d1
  <2> QED
    BY <1>1, <2>1, <2>2 DEF SessionType
<1>7. /\ d.at = Decides(x)
      /\ d.user = q.user /\ d.slot = q.slot /\ d.to = q.to
      /\ d.move = q.move /\ d.swept = q.swept
      /\ d.graced = a /\ d.entitled = eligible /\ d.standing = G
  BY <1>3, <1>4 DEF SessionType
<1> QED
  BY <1>3, <1>5, <1>6, <1>7 DEF q, a, G

LEMMA Decided ==
  ASSUME TypeOK, NEW x \in Session, NEW eligible \in BOOLEAN, Decision(x, eligible)
  PROVE  /\ session'[x] = DecisionOf(x, eligible)
         /\ \A z \in Session \ {x} : session'[z] = session[z]
         /\ eligible => session[x].user # NoUser
  BY DEF Decision, DecisionOf, Decides, TypeOK

LEMMA DecisionType ==
  ASSUME TypeOK, NEW x \in Session, NEW eligible \in BOOLEAN, Decision(x, eligible)
  PROVE  session' \in [Session -> SessionType]
<1>1. DecisionOf(x, eligible) \in SessionType
  BY DecisionFields
<1>2. session' = [session EXCEPT ![x] = DecisionOf(x, eligible)]
  BY DEF Decision, DecisionOf, Decides, TypeOK
<1> QED
  BY <1>1, <1>2 DEF TypeOK

LEMMA StepType ==
  ASSUME TypeOK, LocalInv, [Next]_vars
  PROVE  TypeOK'
<1>1. ASSUME NEW x \in Session, Request(x) PROVE TypeOK'
  <2>1. ASSUME NEW u \in User, NEW E \in Capabilities, NEW days \in Duration,
               Share(x, u, E, days)
        PROVE  TypeOK'
    <3>1. [Idle EXCEPT !.at = "existing", !.user = u, !.extra = E, !.days = days]
            \in SessionType
      BY IdleType DEF SessionType
    <3> QED
      BY <2>1, <3>1 DEF TypeOK, Share, grants, lead
  <2>2. ASSUME NEW g \in Grant, NEW E \in Capabilities, NEW place \in {"update", "revoke"},
               ReadGrant(x, g, place, E)
        PROVE  TypeOK'
    <3>1. [Idle EXCEPT !.at = place, !.grant = g, !.extra = E] \in SessionType
      BY IdleType DEF SessionType
    <3> QED
      BY <2>2, <3>1 DEF TypeOK, ReadGrant, grants, lead
  <2>3. ASSUME NEW s \in Slot, NEW v \in User, NEW place \in {"grace", "end"},
               ReadSlot(x, s, v, place)
        PROVE  TypeOK'
    <3>1. [Idle EXCEPT !.at = place, !.slot = s, !.move = move[s],
                       !.user = holder[s], !.to = v] \in SessionType
      BY IdleType DEF TypeOK, SessionType
    <3> QED
      BY <2>3, <3>1 DEF TypeOK, ReadSlot, grants, lead
  <2>4. CASE ReadLead(x)
    <3>1. [Idle EXCEPT !.at = "sweep"] \in SessionType
      BY IdleType DEF SessionType
    <3> QED
      BY <2>4, <3>1 DEF TypeOK, ReadLead, grants, lead
  <2>5. {} \in Capabilities
    BY DEF Capabilities
  <2> QED
    BY <1>1, <2>1, <2>2, <2>3, <2>4, <2>5 DEF Request
<1>2. ASSUME NEW x \in Session, Proceed(x) PROVE TypeOK'
  <2> USE DEF At, Goes, Ends
  <2>0. Informed(x) /\ session[x] \in SessionType
    BY DEF LocalInv, TypeOK
  <2>1. CASE FindExisting(x)
    <3>1. [session[x] EXCEPT !.at = "insert"] \in SessionType
      BY <2>0 DEF SessionType
    <3> QED
      BY <2>1, <3>1, IdleType DEF TypeOK, FindExisting, grants, lead
  <2>2. CASE InsertShare(x)
    <3>1. session[x].user \in User /\ session[x].days \in Duration /\ session[x].extra \in Capabilities
      BY <2>0, <2>2 DEF InsertShare, Informed, SessionType
    <3>2. CASE \E g \in Grant \ made : Insert(g, session[x].user, session[x].extra, session[x].days)
      BY <2>2, <3>1, <3>2, InsertType, IdleType DEF InsertShare, TypeOK, lead
    <3>3. CASE UNCHANGED grants
      BY <2>2, <3>3, IdleType DEF InsertShare, TypeOK, grants, lead
    <3> QED
      BY <2>2, <3>2, <3>3 DEF InsertShare
  <2>3. CASE Update(x)
    <3>1. session[x].extra \in Capabilities
      BY <2>0 DEF SessionType
    <3> QED
      BY <2>3, <3>1, IdleType DEF TypeOK, Update, lead
  <2>4. CASE Revoke(x)
    <3>1. session[x].grant \in made
      BY <2>0, <2>4 DEF Revoke, Informed
    <3> QED
      BY <2>4, <3>1, IdleType DEF TypeOK, Revoke, lead
  <2>5. ASSUME NEW eligible \in BOOLEAN, CheckGrace(x, eligible) \/ DecideGrace(x, eligible)
        PROVE  TypeOK'
    <3>1. session' \in [Session -> SessionType]
      BY <2>5, DecisionType DEF CheckGrace, DecideGrace
    <3>2. UNCHANGED <<grants, lead>>
      BY <2>5 DEF CheckGrace, DecideGrace
    <3> QED
      BY <3>1, <3>2 DEF TypeOK, grants, lead
  <2>6. CASE Reassign(x)
    <3>1. session[x].slot \in Slot /\ session[x].to \in User
      BY <2>0, <2>6 DEF Reassign, Informed
    <3>2. CASE Replace(x)
      <4>1. GrantGrace(x) /\ Assign(x) /\ owed' \in SUBSET Assignment
        BY <3>2, <2>0, <3>1, OwedType DEF Replace
      <4>2. GrantTypes'
        BY <4>1, <2>0, <2>6, GraceType DEF Reassign
      <4>3. holder' \in [Slot -> User \cup {NoUser}] /\ move' \in [Slot -> Nat]
        BY <4>1, <3>1, AssignType
      <4> QED
        BY <2>6, <4>1, <4>2, <4>3, IdleType DEF Reassign, TypeOK, GrantTypes
    <3>3. CASE UNCHANGED <<grants, holder, move, owed>>
      BY <2>6, <3>3, IdleType DEF Reassign, TypeOK, grants
    <3> QED
      BY <2>6, <3>2, <3>3 DEF Reassign
  <2>9. CASE End(x)
    <3>1. ReadBy(x) \in SUBSET Assignment
      BY <2>0, <2>9, ReadType DEF End
    <3>2. [session[x] EXCEPT !.at = "create"] \in SessionType
      BY <2>0 DEF SessionType
    <3>3. holder' \in [Slot -> User \cup {NoUser}] /\ owed' \in SUBSET Assignment
      BY <2>9, <3>1 DEF End, TypeOK
    <3> QED
      BY <2>9, <3>2, <3>3 DEF End, TypeOK, grants
  <2>10. CASE Create(x)
    <3>1. session[x].slot \in Slot /\ session[x].to \in User
      BY <2>0, <2>10 DEF Create, Informed
    <3>2. holder' \in [Slot -> User \cup {NoUser}] /\ move' \in [Slot -> Nat]
      BY <2>10, <3>1, AssignType DEF Create
    <3>3. [session[x] EXCEPT !.at = "decide"] \in SessionType
      BY <2>0 DEF SessionType
    <3> QED
      BY <2>10, <3>2, <3>3 DEF Create, TypeOK, grants
  <2>11. CASE CreateConflicts(x)
    <3>1. cut' \in SUBSET Assignment
      BY <2>11 DEF CreateConflicts, TypeOK
    <3> QED
      BY <2>11, <3>1, IdleType DEF CreateConflicts, TypeOK, grants
  <2>12. CASE InsertGrace(x)
    <3>1. owed' \in SUBSET Assignment /\ cut' \in SUBSET Assignment
      BY <2>12 DEF InsertGrace, TypeOK
    <3>2. GrantTypes'
      <4>1. CASE GrantGrace(x)
        BY <4>1, <2>0, <2>12, GraceType DEF InsertGrace
      <4>2. CASE UNCHANGED grants
        BY <4>2 DEF grants, GrantTypes, TypeOK
      <4> QED
        BY <2>12, <4>1, <4>2 DEF InsertGrace
    <3> QED
      BY <2>12, <3>1, <3>2, IdleType DEF InsertGrace, TypeOK, GrantTypes
  <2>7. CASE Sweep(x)
    <3>1. [session[x] EXCEPT !.at = "close", !.swept = Unrevoked] \in SessionType
      BY <2>0 DEF SessionType, Unrevoked, TypeOK
    <3> QED
      BY <2>7, <3>1 DEF TypeOK, Sweep, grants, lead
  <2>8. CASE Close(x)
    BY <2>0, <2>8, IdleType DEF TypeOK, Close, Informed
  <2> QED
    BY <1>2, <2>1, <2>2, <2>3, <2>4, <2>5, <2>6, <2>7, <2>8, <2>9, <2>10, <2>11, <2>12
       DEF Proceed
<1>3. ASSUME NEW x \in Session, Fail(x) PROVE TypeOK'
  <2>1. cut' \in SUBSET Assignment
    BY <1>3 DEF Fail, TypeOK
  <2> QED
    BY <1>3, <2>1, IdleType DEF TypeOK, Fail, Ends, grants
<1>4. CASE Tick
  <2>1. \A n \in Remaining : n \in Nat /\ (n > 0 => n - 1 \in Remaining)
    BY DurationAssumption DEF Remaining
  <2>2. 0 \in Remaining
    BY DurationAssumption DEF Remaining
  <2> QED
    BY <1>4, <2>1, <2>2 DEF TypeOK, Tick, lead
<1>5. CASE UNCHANGED vars
  BY <1>5 DEF TypeOK, vars, grants, lead
<1> QED
  BY <1>1, <1>2, <1>3, <1>4, <1>5 DEF Next

-----------------------------------------------------------------------------
(* What a step does to the rows that exist. *)
Wanes ==
  \A g \in made :
    /\ g \in made' /\ owner'[g] = owner[g]
    /\ g \in revoked => g \in revoked'
    /\ left'[g] <= left[g]

LEMMA LeftIsNat ==
  ASSUME TypeOK
  PROVE  \A g \in made : g \in Grant /\ left[g] \in Nat
<1>1. Remaining \subseteq Nat
  BY DurationAssumption DEF Remaining
<1> QED
  BY <1>1 DEF TypeOK

LEMMA InsertWanes ==
  ASSUME TypeOK, NEW g \in Grant \ made, NEW u, NEW E, NEW days, Insert(g, u, E, days)
  PROVE  Wanes
<1>1. \A h \in made : left'[h] = left[h] /\ owner'[h] = owner[h]
  BY DEF TypeOK, Insert
<1> QED
  BY <1>1, LeftIsNat DEF Insert, Wanes

LEMMA SameGrantsWane ==
  ASSUME TypeOK, UNCHANGED <<made, owner, left>>, revoked \subseteq revoked'
  PROVE  Wanes
  BY LeftIsNat DEF Wanes

LEMMA StepWanes ==
  ASSUME TypeOK, [Next]_vars
  PROVE  Wanes
<1>1. ASSUME NEW x \in Session, Request(x) PROVE Wanes
  BY <1>1, SameGrantsWane DEF Request, Share, ReadGrant, ReadSlot, ReadLead, grants
<1>2. ASSUME NEW x \in Session, Proceed(x) PROVE Wanes
  <2>1. CASE FindExisting(x)
    BY <2>1, SameGrantsWane DEF FindExisting, grants
  <2>2. CASE InsertShare(x)
    BY <2>2, InsertWanes, SameGrantsWane DEF InsertShare, grants
  <2>3. CASE Update(x)
    BY <2>3, SameGrantsWane DEF Update
  <2>4. CASE Revoke(x)
    BY <2>4, SameGrantsWane DEF Revoke
  <2>5. CASE \E eligible \in BOOLEAN : CheckGrace(x, eligible) \/ DecideGrace(x, eligible)
    BY <2>5, SameGrantsWane DEF CheckGrace, DecideGrace, grants
  <2>6. CASE GrantGrace(x) \/ UNCHANGED grants
    BY <2>6, InsertWanes, SameGrantsWane DEF GrantGrace, grants
  <2>9. CASE Reassign(x) \/ InsertGrace(x) \/ End(x) \/ Create(x) \/ CreateConflicts(x)
    BY <2>6, <2>9 DEF Reassign, Replace, InsertGrace, End, Create, CreateConflicts
  <2>7. CASE Sweep(x)
    BY <2>7, SameGrantsWane DEF Sweep, grants
  <2>8. CASE Close(x)
    BY <2>8, SameGrantsWane DEF Close
  <2> QED
    BY <1>2, <2>1, <2>2, <2>3, <2>4, <2>5, <2>7, <2>8, <2>9 DEF Proceed
<1>3. ASSUME NEW x \in Session, Fail(x) PROVE Wanes
  BY <1>3, SameGrantsWane DEF Fail, grants
<1>4. CASE Tick
  <2>1. \A g \in made : left'[g] <= left[g]
    BY <1>4, LeftIsNat DEF Tick
  <2> QED
    BY <1>4, <2>1 DEF Tick, Wanes
<1>5. CASE UNCHANGED vars
  BY <1>5, SameGrantsWane DEF vars, grants
<1> QED
  BY <1>1, <1>2, <1>3, <1>4, <1>5 DEF Next

-----------------------------------------------------------------------------
(* LocalInv is kept: the step of one request leaves the others as they were.*)
LEMMA OthersStayInformed ==
  ASSUME NEW z \in Session, Informed(z), session'[z] = session[z], made \subseteq made'
  PROVE  Informed(z)'
  BY DEF Informed, NothingDue

LEMMA IdleInformed ==
  ASSUME NEW z \in Session, session'[z] = Idle
  PROVE  Informed(z)'
  BY DEF Informed, Idle

LEMMA StepInformed ==
  ASSUME TypeOK, LocalInv, [Next]_vars
  PROVE  LocalInv'
<1>0. made \subseteq made'
  BY StepWanes DEF Wanes
<1>1. ASSUME NEW x \in Session, Request(x) PROVE LocalInv'
  <2>1. \A z \in Session \ {x} : session'[z] = session[z]
    BY <1>1 DEF Request, Share, ReadGrant, ReadSlot, ReadLead, TypeOK
  <2>2. Informed(x)'
    <3>1. ASSUME NEW u \in User, NEW E \in Capabilities, NEW days \in Duration,
                 Share(x, u, E, days)
          PROVE  Informed(x)'
      BY <3>1 DEF Share, Informed, TypeOK, Idle
    <3>2. ASSUME NEW g \in Grant, NEW E \in Capabilities, NEW place \in {"update", "revoke"},
                 ReadGrant(x, g, place, E)
          PROVE  Informed(x)'
      BY <3>2, <1>0 DEF ReadGrant, Informed, TypeOK, Idle, Unrevoked
    <3>3. ASSUME NEW s \in Slot, NEW v \in User, NEW place \in {"grace", "end"},
                 ReadSlot(x, s, v, place)
          PROVE  Informed(x)'
      BY <3>3 DEF ReadSlot, Informed, TypeOK, Idle
    <3>4. CASE ReadLead(x)
      BY <3>4 DEF ReadLead, Informed, TypeOK, Idle
    <3>5. {} \in Capabilities
      BY DEF Capabilities
    <3> QED
      BY <1>1, <3>1, <3>2, <3>3, <3>4, <3>5 DEF Request
  <2> QED
    BY <1>0, <2>1, <2>2, OthersStayInformed DEF LocalInv
<1>2. ASSUME NEW x \in Session, Proceed(x) PROVE LocalInv'
  <2> USE DEF At, Goes, Ends
  <2>0. session[x] \in SessionType /\ Informed(x)
    BY DEF TypeOK, LocalInv
  <2>1. \A z \in Session \ {x} : session'[z] = session[z]
    <3>1. CASE \E eligible \in BOOLEAN : Decision(x, eligible)
      BY <3>1, Decided
    <3> QED
      BY <1>2, <3>1
         DEF Proceed, FindExisting, InsertShare, Update, Revoke, CheckGrace, Reassign,
             End, Create, CreateConflicts, DecideGrace, InsertGrace, Sweep, Close, TypeOK
  <2>2. Informed(x)'
    <3>1. CASE FindExisting(x)
      <4>1. CASE session'[x] = [session[x] EXCEPT !.at = "insert"]
        <5>1. session[x].user \in User /\ session[x].days \in Duration /\ session[x].swept \subseteq made
          BY <3>1, <2>0 DEF FindExisting, Informed
        <5> QED
          BY <1>0, <4>1, <5>1, <2>0 DEF Informed, SessionType
      <4> QED
        BY <3>1, <4>1, IdleInformed DEF FindExisting, TypeOK
    <3>2. CASE session'[x] = Idle
      BY <3>2, IdleInformed
    <3>3. ASSUME NEW eligible \in BOOLEAN, CheckGrace(x, eligible) \/ DecideGrace(x, eligible)
          PROVE  Informed(x)'
      <4>1. /\ session[x].at \in {"grace", "decide"} /\ session[x].slot \in Slot
            /\ session[x].to \in User /\ session[x].swept \subseteq made
        BY <3>3, <2>0 DEF CheckGrace, DecideGrace, Informed
      <4>2. /\ session'[x] = DecisionOf(x, eligible)
            /\ eligible => session[x].user # NoUser
        BY <3>3, Decided DEF CheckGrace, DecideGrace
      <4>3. /\ session'[x].at \in {"move", "grant"} /\ session'[x].user = session[x].user
            /\ session'[x].slot = session[x].slot /\ session'[x].to = session[x].to
            /\ session'[x].swept = session[x].swept
            /\ session'[x].graced = (eligible /\ StandingView(session[x].user) = {})
            /\ session'[x].entitled = eligible
            /\ session'[x].standing = OwnedBy(session[x].user) \cap Live
        BY <4>2, DecisionFields
      <4>4. session'[x].graced \/ ~session'[x].entitled \/ session'[x].standing # {}
        BY <4>3, Zenon DEF StandingView
      <4>5. session'[x].graced => session'[x].user \in User
        BY <4>2, <4>3, <2>0 DEF SessionType
      <4> QED
        BY <1>0, <4>1, <4>3, <4>4, <4>5 DEF Informed, NothingDue
    <3>4. CASE Sweep(x)
      BY <3>4, <1>0, <2>0 DEF Sweep, Informed, TypeOK, Unrevoked
    <3>5. CASE End(x) \/ Create(x)
      <4>1. PICK place \in {"create", "decide"} :
              session'[x] = [session[x] EXCEPT !.at = place]
        BY <3>5 DEF End, Create, TypeOK
      <4>2. session[x].slot \in Slot /\ session[x].to \in User /\ session[x].swept \subseteq made
        BY <3>5, <2>0 DEF End, Create, Informed
      <4> QED
        BY <1>0, <2>0, <4>1, <4>2 DEF Informed, SessionType
    <3>6. CASE InsertShare(x) \/ Update(x) \/ Revoke(x) \/ Reassign(x) \/ CreateConflicts(x)
               \/ InsertGrace(x) \/ Close(x)
      BY <3>2, <3>6 DEF InsertShare, Update, Revoke, Reassign, CreateConflicts, InsertGrace,
                        Close, TypeOK
    <3> QED
      BY <1>2, <3>1, <3>3, <3>4, <3>5, <3>6 DEF Proceed
  <2> QED
    BY <1>0, <2>1, <2>2, OthersStayInformed DEF LocalInv
<1>3. ASSUME NEW x \in Session, Fail(x) PROVE LocalInv'
  <2>1. session'[x] = Idle /\ \A z \in Session \ {x} : session'[z] = session[z]
    BY <1>3 DEF Fail, Ends, TypeOK
  <2> QED
    BY <1>0, <2>1, IdleInformed, OthersStayInformed DEF LocalInv
<1>4. CASE Tick \/ UNCHANGED vars
  BY <1>0, <1>4, OthersStayInformed DEF LocalInv, Tick, vars
<1> QED
  BY <1>1, <1>2, <1>3, <1>4 DEF Next

-----------------------------------------------------------------------------
(* The partial unique index: an insertion finds the pair free. *)
LEMMA InsertKeepsOne ==
  ASSUME TypeOK, OneShareEach, NEW g \in Grant \ made, NEW u \in User, NEW E, NEW days,
         PairFree(u), Insert(g, u, E, days)
  PROVE  OneShareEach'
<1>1. Unrevoked' = Unrevoked \cup {g}
  BY DEF Unrevoked, Insert, TypeOK
<1>2. \A h \in Unrevoked : h # g /\ owner'[h] = owner[h] /\ owner[h] # u
  BY DEF Unrevoked, Insert, PairFree, OwnedBy, TypeOK
<1>3. owner'[g] = u
  BY DEF Insert, TypeOK
<1> QED
  BY <1>1, <1>2, <1>3 DEF OneShareEach

LEMMA FewerKeepOne ==
  ASSUME OneShareEach, UNCHANGED <<made, owner>>, revoked \subseteq revoked'
  PROVE  OneShareEach'
  BY DEF OneShareEach, Unrevoked

LEMMA StepKeepsOne ==
  ASSUME TypeOK, LocalInv, OneShareEach, [Next]_vars
  PROVE  OneShareEach'
<1>1. ASSUME NEW x \in Session, Request(x) PROVE OneShareEach'
  BY <1>1, FewerKeepOne DEF Request, Share, ReadGrant, ReadSlot, ReadLead, grants
<1>2. ASSUME NEW x \in Session, Proceed(x) PROVE OneShareEach'
  <2>1. CASE InsertShare(x)
    <3>1. session[x].user \in User
      BY <2>1 DEF InsertShare, At, LocalInv, Informed
    <3> QED
      BY <2>1, <3>1, InsertKeepsOne, FewerKeepOne DEF InsertShare, grants
  <2>2. CASE GrantGrace(x) /\ ~GraceBlocked(x) /\ session[x].at \in {"move", "grant"}
    <3>1. session[x].graced => session[x].user \in User
      BY <2>2 DEF LocalInv, Informed
    <3> QED
      BY <2>2, <3>1, InsertKeepsOne, FewerKeepOne DEF GrantGrace, GraceBlocked, grants
  <2>3. CASE UNCHANGED grants
    BY <2>3, FewerKeepOne DEF grants
  <2>4. CASE Reassign(x) \/ InsertGrace(x)
    BY <2>2, <2>3, <2>4 DEF Reassign, Replace, InsertGrace, At
  <2>5. CASE Proceed(x) /\ ~InsertShare(x) /\ ~Reassign(x) /\ ~InsertGrace(x)
    BY <2>3, <2>5, FewerKeepOne
       DEF Proceed, FindExisting, Update, Revoke, CheckGrace, End, Create, CreateConflicts,
           DecideGrace, Sweep, Close
  <2> QED
    BY <1>2, <2>1, <2>4, <2>5
<1>3. ASSUME NEW x \in Session, Fail(x) PROVE OneShareEach'
  BY <1>3, FewerKeepOne DEF Fail, grants
<1>4. CASE Tick \/ UNCHANGED vars
  BY <1>4, FewerKeepOne DEF Tick, vars, grants
<1> QED
  BY <1>1, <1>2, <1>3, <1>4 DEF Next

-----------------------------------------------------------------------------
(* Who is owed a grant.  A step of one request keeps the invariant if it    *)
(* owes nobody else, and does not leave behind whom it owes.                *)
LEMMA ViewIsKept ==
  ASSUME PreviousHolderKeepsView, NEW x \in Session,
         \A z \in Session \ {x} : session'[z] = session[z],
         cut \subseteq cut', owed' \subseteq owed \cup ReadBy(x),
         \/ Underway(x)' /\ ReadBy(x)' = ReadBy(x)
         \/ ~Underway(x) /\ owed' \subseteq owed
         \/ owed' \cap ReadBy(x) \subseteq cut'
  PROVE  PreviousHolderKeepsView'
<1>1. \A r \in owed : r \in cut \/ \E z \in Session : Underway(z) /\ r \in ReadBy(z)
  BY DEF PreviousHolderKeepsView
<1>2. \A z \in Session \ {x} : Underway(z)' = Underway(z) /\ ReadBy(z)' = ReadBy(z)
  BY DEF Underway, ReadBy
<1>3. \A r \in owed' : r \in cut' \/ \E z \in Session : Underway(z)' /\ r \in ReadBy(z)'
  <2> SUFFICES ASSUME NEW r \in owed', r \notin cut'
               PROVE  \E z \in Session : Underway(z)' /\ r \in ReadBy(z)'
    OBVIOUS
  <2>1. CASE r \in ReadBy(x)
    <3>1. CASE Underway(x)' /\ ReadBy(x)' = ReadBy(x)
      BY <2>1, <3>1
    <3>2. CASE ~Underway(x) /\ owed' \subseteq owed
      BY <1>1, <1>2, <3>2
    <3> QED
      BY <2>1, <3>1, <3>2
  <2>2. CASE r \notin ReadBy(x)
    <3>1. PICK z \in Session : Underway(z) /\ r \in ReadBy(z)
      BY <1>1, <2>2
    <3> QED
      BY <1>2, <2>2, <3>1
  <2> QED
    BY <2>1, <2>2
<1> QED
  BY <1>3 DEF PreviousHolderKeepsView

(* A grant that is due and not in the way of another is given. *)
LEMMA GraceProvides ==
  ASSUME TypeOK, NEW x \in Session, Informed(x), session[x].at \in {"move", "grant"},
         GrantGrace(x)
  PROVE  Provided(x) = ReadBy(x)
<1>1. CASE session[x].graced
  <2>1. PICK g \in Grant \ made : Insert(g, session[x].user, {}, Grace)
    BY <1>1 DEF GrantGrace
  <2>2. g \in made' \ made /\ owner'[g] = session[x].user /\ left'[g] = Grace /\ extra'[g] = {}
    BY <2>1 DEF Insert, TypeOK
  <2> QED
    BY <2>2 DEF Provided, Given
<1>2. CASE ~session[x].graced
  BY <1>2 DEF Informed, Provided
<1> QED
  BY <1>1, <1>2

LEMMA StepKeepsView ==
  ASSUME TypeOK, LocalInv, PreviousHolderKeepsView, [Next]_vars
  PROVE  PreviousHolderKeepsView'
<1>1. ASSUME NEW x \in Session, Request(x) PROVE PreviousHolderKeepsView'
  <2>1. \A z \in Session \ {x} : session'[z] = session[z]
    BY <1>1 DEF Request, Share, ReadGrant, ReadSlot, ReadLead, TypeOK
  <2>2. session[x].at = "idle" /\ owed' = owed /\ cut' = cut
    BY <1>1 DEF Request, Share, ReadGrant, ReadSlot, ReadLead, At, lead
  <2>3. ~Underway(x)
    BY <2>2 DEF Underway
  <2> QED
    BY <2>1, <2>2, <2>3, ViewIsKept
<1>2. ASSUME NEW x \in Session, Proceed(x) PROVE PreviousHolderKeepsView'
  <2>0. session[x] \in SessionType /\ Informed(x)
    BY DEF TypeOK, LocalInv
  <2> USE DEF At, Goes, Ends
  <2>1. CASE FindExisting(x) \/ InsertShare(x) \/ Update(x) \/ Revoke(x) \/ Sweep(x) \/ Close(x)
    <3>1. \A z \in Session \ {x} : session'[z] = session[z]
      BY <2>1 DEF FindExisting, InsertShare, Update, Revoke, Sweep, Close, TypeOK
    <3>2. owed' = owed /\ cut' = cut /\ ~Underway(x)
      BY <2>1 DEF FindExisting, InsertShare, Update, Revoke, Sweep, Close, lead, Underway
    <3> QED
      BY <3>1, <3>2, ViewIsKept
  <2>2. ASSUME NEW eligible \in BOOLEAN, CheckGrace(x, eligible) \/ DecideGrace(x, eligible)
        PROVE  PreviousHolderKeepsView'
    <3>1. owed' = owed /\ cut' = cut
      BY <2>2 DEF CheckGrace, DecideGrace, lead
    <3>2. /\ session'[x] = DecisionOf(x, eligible)
          /\ \A z \in Session \ {x} : session'[z] = session[z]
      BY <2>2, Decided DEF CheckGrace, DecideGrace
    <3>3. CASE CheckGrace(x, eligible)
      <4>1. ~Underway(x)
        BY <3>3 DEF CheckGrace, Underway
      <4> QED
        BY <3>1, <3>2, <4>1, ViewIsKept
    <3>4. CASE DecideGrace(x, eligible)
      <4>1. session[x].at = "decide"
        BY <3>4 DEF DecideGrace
      <4>2. /\ session'[x].at = "grant" /\ session'[x].user = session[x].user
            /\ session'[x].slot = session[x].slot /\ session'[x].move = session[x].move
        BY <3>2, <4>1, DecisionFields
      <4>3. Underway(x)' /\ ReadBy(x)' = ReadBy(x)
        BY <4>2 DEF Underway, ReadBy
      <4> QED
        BY <3>1, <3>2, <4>3, ViewIsKept
    <3> QED
      BY <2>2, <3>3, <3>4
  <2>3. CASE Reassign(x)
    <3>1. \A z \in Session \ {x} : session'[z] = session[z]
      BY <2>3 DEF Reassign, TypeOK
    <3>2. CASE Replace(x)
      <4>1. Provided(x) = ReadBy(x)
        BY <2>0, <2>3, <3>2, GraceProvides DEF Reassign, Replace
      <4>2. owed' \subseteq owed /\ owed' \cap ReadBy(x) = {} /\ cut' = cut
        BY <2>3, <3>2, <4>1 DEF Reassign, Replace
      <4> QED
        BY <3>1, <4>2, ViewIsKept
    <3>3. CASE owed' = owed
      <4>1. ~Underway(x) /\ cut' = cut
        BY <2>3 DEF Reassign, Underway
      <4> QED
        BY <3>1, <3>3, <4>1, ViewIsKept
    <3> QED
      BY <2>3, <3>2, <3>3 DEF Reassign
  <2>4. CASE End(x) \/ Create(x)
    <3>1. /\ \A z \in Session \ {x} : session'[z] = session[z]
          /\ cut' = cut /\ owed' \subseteq owed \cup ReadBy(x)
      BY <2>4 DEF End, Create, TypeOK
    <3>2. PICK place \in {"create", "decide"} :
            session'[x] = [session[x] EXCEPT !.at = place]
      BY <2>4 DEF End, Create, TypeOK
    <3>3. Underway(x)' /\ ReadBy(x)' = ReadBy(x)
      BY <2>0, <3>2 DEF Underway, ReadBy, SessionType
    <3> QED
      BY <3>1, <3>3, ViewIsKept
  <2>5. CASE CreateConflicts(x)
    <3>1. /\ \A z \in Session \ {x} : session'[z] = session[z]
          /\ owed' = owed /\ cut' = cut \cup (owed \cap ReadBy(x))
      BY <2>5 DEF CreateConflicts, TypeOK
    <3> QED
      BY <3>1, ViewIsKept
  <2>6. CASE InsertGrace(x)
    <3>1. \A z \in Session \ {x} : session'[z] = session[z]
      BY <2>6 DEF InsertGrace, TypeOK
    <3>2. CASE GraceBlocked(x)
      <4>1. owed' = owed /\ cut' = cut \cup (owed \cap ReadBy(x))
        BY <2>6, <3>2 DEF InsertGrace
      <4> QED
        BY <3>1, <4>1, ViewIsKept
    <3>3. CASE ~GraceBlocked(x)
      <4>1. GrantGrace(x) /\ session[x].at = "grant" /\ owed' = owed \ Provided(x) /\ cut' = cut
        BY <2>6, <3>3 DEF InsertGrace
      <4>2. Provided(x) = ReadBy(x)
        BY <2>0, <4>1, GraceProvides
      <4> QED
        BY <3>1, <4>1, <4>2, ViewIsKept
    <3> QED
      BY <3>2, <3>3
  <2> QED
    BY <1>2, <2>1, <2>2, <2>3, <2>4, <2>5, <2>6 DEF Proceed
<1>3. ASSUME NEW x \in Session, Fail(x) PROVE PreviousHolderKeepsView'
  <2>1. \A z \in Session \ {x} : session'[z] = session[z]
    BY <1>3 DEF Fail, Ends, TypeOK
  <2>2. owed' = owed /\ cut \subseteq cut' /\ (Underway(x) => owed \cap ReadBy(x) \subseteq cut')
    BY <1>3 DEF Fail
  <2> QED
    BY <2>1, <2>2, ViewIsKept
<1>4. CASE Tick \/ UNCHANGED vars
  BY <1>4 DEF Tick, vars, lead, PreviousHolderKeepsView, Underway, ReadBy
<1> QED
  BY <1>1, <1>2, <1>3, <1>4 DEF Next

-----------------------------------------------------------------------------
(* The theorems. *)
IInv == TypeOK /\ LocalInv /\ OneShareEach /\ PreviousHolderKeepsView

LEMMA InitIInv == Init => IInv
<1> SUFFICES ASSUME Init PROVE IInv
  OBVIOUS
<1>1. TypeOK
  <2>1. 0 \in Remaining
    <3>1. Grace \in Duration /\ 0 \in 0 .. Grace
      BY DurationAssumption
    <3> QED
      BY <3>1 DEF Remaining
  <2>2. {} \in Capabilities
    BY DEF Capabilities
  <2> QED
    BY <2>1, <2>2, IdleType DEF Init, TypeOK
<1>2. LocalInv
  BY DEF Init, LocalInv, Informed, Idle
<1>3. OneShareEach
  BY DEF Init, OneShareEach, Unrevoked
<1>4. PreviousHolderKeepsView
  BY DEF Init, PreviousHolderKeepsView
<1> QED
  BY <1>1, <1>2, <1>3, <1>4 DEF IInv

LEMMA Invariance == Spec => []IInv
<1>1. IInv /\ [Next]_vars => IInv'
  BY StepType, StepInformed, StepKeepsOne, StepKeepsView DEF IInv
<1> QED
  BY InitIInv, <1>1, PTL DEF Spec

(* Type correctness. *)
THEOREM TypeCorrect == Spec => []TypeOK
  BY Invariance, PTL DEF IInv

(* At most one unrevoked share per user, whatever requests interleave.      *)
THEOREM OneShare == Spec => []OneShareEach
  BY Invariance, PTL DEF IInv

(* No request revives a revoked share, moves one to another user or         *)
(* lengthens it.                                                            *)
THEOREM OnlyWane == Spec => SharesOnlyWane
<1>1. IInv /\ [Next]_vars =>
        [\A g \in made :
           /\ g \in made' /\ owner'[g] = owner[g]
           /\ g \in revoked => g \in revoked'
           /\ left'[g] <= left[g]]_vars
  BY StepWanes DEF IInv, Wanes
<1> QED
  BY Invariance, <1>1, PTL DEF Spec, SharesOnlyWane

(* Whoever was entitled to a grace grant as they stopped being the assignee *)
(* has been given one or had a live share, unless the routing-assign that   *)
(* ended their assignment is under way or stopped short.                    *)
THEOREM HolderKeepsView == Spec => []PreviousHolderKeepsView
  BY Invariance, PTL DEF IInv
=============================================================================
