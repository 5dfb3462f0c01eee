------------------------ MODULE StatusRouting_proofs ------------------------
(***************************************************************************)
(* What the transactions, the row locks and the partial unique index of    *)
(* routing guarantee for any number of instances, users, rules, requests   *)
(* and configuration changes.                                              *)
(***************************************************************************)
EXTENDS StatusRouting, FiniteSetTheorems, WellFoundedInduction, TLAPS

(* Both algorithms take a minimum: there is one.                           *)
LEMMA MinOfNaturals ==
  ASSUME NEW S \in SUBSET Nat, S # {}
  PROVE  Min(S) \in S /\ \A y \in S : Min(S) <= y
<1> DEFINE R == OpToRel(<, Nat)
<1>1. \A a, b \in Nat : a < b => <<a, b>> \in R
  BY DEF OpToRel
<1>2. IsWellFoundedOn(R, Nat)
  BY NatLessThanWellFounded
<1> HIDE DEF R
<1>3. PICK x \in S : \A y \in S : ~ (<<y, x>> \in R)
  BY <1>2, WFMin
<1>4. \A y \in S : ~ (y < x)
  BY <1>1, <1>3, Zenon
<1>5. \A y \in S : x <= y
  BY <1>4
<1> QED
  BY <1>5 DEF Min

LEMMA RoundRobinPicksACandidate ==
  ASSUME NEW C \in SUBSET Nat, C # {}, NEW cursor
  PROVE  PickRoundRobin(C, cursor) \in C
<1> DEFINE above == {u \in C : u > cursor}
<1>1. above \in SUBSET Nat /\ above \subseteq C
  OBVIOUS
<1>2. CASE above = {}
  BY <1>2, MinOfNaturals DEF PickRoundRobin
<1>3. CASE above # {}
  <2>1. Min(above) \in above
    BY <1>1, <1>3, MinOfNaturals
  <2> QED
    BY <1>1, <1>3, <2>1 DEF PickRoundRobin
<1> QED
  BY <1>2, <1>3

LEMMA LeastLoadedPicksACandidate ==
  ASSUME NEW C \in SUBSET Nat, C # {}, NEW open, \A u \in C : open[u] \in Nat
  PROVE  /\ PickLeastLoaded(C, open) \in C
         /\ \A u \in C : open[PickLeastLoaded(C, open)] <= open[u]
<1> DEFINE counts == {open[u] : u \in C}
           least == {u \in C : \A v \in C : open[u] <= open[v]}
<1>1. Min(counts) \in counts /\ \A n \in counts : Min(counts) <= n
  <2>1. counts \in SUBSET Nat /\ counts # {}
    OBVIOUS
  <2> HIDE DEF counts
  <2> QED
    BY <2>1, MinOfNaturals
<1>2. PICK u \in C : open[u] = Min(counts)
  BY <1>1
<1>3. u \in least
  BY <1>1, <1>2
<1>4. Min(least) \in least
  BY <1>3, MinOfNaturals
<1> QED
  BY <1>4 DEF PickLeastLoaded

(* What a session may commit is well-formed, and it refers to an existing  *)
(* row.                                                                    *)
Deciding == {"previous", "end", "create", "advance", "record"}

Proper(x, t, rows) ==
  /\ t.at # "idle" => t.pi \in Instance /\ t.prev <= Len(rows[t.pi])
  /\ t.at # "idle" /\ x \notin Reassign => t.to \in Status
  /\ t.at \in Deciding \/ t.created \/ t.advances \/ t.override => t.user \in User
  /\ t.created => t.at = "commit"
  /\ t.advances => x \notin Reassign
  /\ x \in RoutingAssign => t.ended = NoRow /\ ~t.created
  /\ x \in Reassign => t.at \in {"idle", "end", "create", "commit"}

LocalInv == \A x \in Session : Proper(x, session[x], assigned)

LEMMA CandidatesArePicked ==
  ASSUME TypeOK, NEW x \in Session, session[x].to \in Status, Candidates(x) # {}
  PROVE  Pick(x) \in User
<1>1. Candidates(x) \in SUBSET Nat /\ Candidates(x) \subseteq User
  BY UserAssumption DEF Candidates, Pool, TypeOK, Teams, Rules
<1>2. \A u \in Candidates(x) : OpenCount(x)[u] \in Nat
  <2> SUFFICES ASSUME NEW u \in User PROVE OpenCount(x)[u] \in Nat
    BY <1>1
  <2> DEFINE held == {p \in Instance :
               /\ StatusSeenBy(x, p) \in Open
               /\ \E r \in current[p] : assigned[p][r] = u}
  <2>1. IsFiniteSet(held)
    BY InstanceAssumption, FS_Subset
  <2>2. Cardinality(held) \in Nat
    BY <2>1, FS_CardinalityType
  <2> QED
    BY <2>2 DEF OpenCount
<1> HIDE DEF Candidates
<1>3. PickRoundRobin(Candidates(x), session[x].cursor) \in Candidates(x)
  BY <1>1, RoundRobinPicksACandidate
<1>4. PickLeastLoaded(Candidates(x), OpenCount(x)) \in Candidates(x)
  BY <1>1, <1>2, LeastLoadedPicksACandidate
<1> QED
  BY <1>1, <1>3, <1>4 DEF Pick

LEMMA IdleIsProper == \A x \in Session : Idle \in Locals /\ Proper(x, Idle, assigned)
  BY DEF Idle, Locals, At, Proper, Deciding, NoUser, NoRow

(* A step that only moves a session along is right when its record is.     *)
LEMMA SessionStep ==
  ASSUME TypeOK, LocalInv, NEW x \in Session, NEW t \in Locals, Proper(x, t, assigned),
         session' = [session EXCEPT ![x] = t],
         ruleLock' \in [Status -> StatusChange \cup {NoSession}],
         UNCHANGED <<data, config, turns>>, requests' \in Nat
  PROVE  TypeOK' /\ LocalInv'
<1>1. TypeOK'
  BY DEF TypeOK, data, config
<1>2. LocalInv'
  <2> SUFFICES ASSUME NEW y \in Session PROVE Proper(y, session'[y], assigned')
    BY DEF LocalInv
  <2>1. session'[y] = IF y = x THEN t ELSE session[y]
    BY DEF TypeOK
  <2>2. assigned' = assigned
    BY DEF data
  <2> QED
    BY <2>1, <2>2 DEF LocalInv
<1> QED
  BY <1>1, <1>2

LEMMA ReleaseTyped ==
  ASSUME TypeOK, NEW x
  PROVE  ReleasedBy(x) \in [Status -> StatusChange \cup {NoSession}]
  BY DEF TypeOK, ReleasedBy

(* Sessions that give up or have nothing to assign.                        *)
LEMMA GivesUp ==
  ASSUME TypeOK, LocalInv, NEW x \in Session,
         session' = [session EXCEPT ![x] = Idle],
         ruleLock' = ReleasedBy(x) \/ ruleLock' = ruleLock,
         UNCHANGED <<data, config, turns, requests>>
  PROVE  TypeOK' /\ LocalInv'
<1>1. ruleLock' \in [Status -> StatusChange \cup {NoSession}] /\ requests' \in Nat
  BY ReleaseTyped DEF TypeOK
<1> QED
  BY <1>1, IdleIsProper, SessionStep

(* What is known of a session's record.                                    *)
LEMMA RecordOf ==
  ASSUME TypeOK, LocalInv, NEW x \in Session
  PROVE  session[x] \in Locals /\ Proper(x, session[x], assigned)
  BY DEF TypeOK, LocalInv

(* How the steps that only read change it.                                 *)
LEMMA ProperMoves ==
  ASSUME NEW x \in Session, NEW l \in Locals, NEW rows, Proper(x, l, rows)
  PROVE  /\ l.at # "idle" /\ ~ l.created /\ x \in StatusChange =>
              LET t == [l EXCEPT !.at = "commit"]
              IN  t \in Locals /\ Proper(x, t, rows)
         /\ l.at = "update" /\ x \in StatusChange =>
              LET t == [l EXCEPT !.at = "rule"]
              IN  t \in Locals /\ Proper(x, t, rows)
         /\ l.at = "previous" /\ x \notin Reassign =>
              LET t == [l EXCEPT !.at = "create"]
              IN  t \in Locals /\ Proper(x, t, rows)
  BY SessionAssumption DEF Locals, At, Proper, Deciding

LEMMA ProperRule ==
  ASSUME NEW x \in Session, NEW l \in Locals, NEW rows, Proper(x, l, rows),
         l.at = "rule", x \notin Reassign,
         NEW c \in User \cup {NoUser}, NEW forTeam \in BOOLEAN
  PROVE  LET t == [l EXCEPT !.at = "choose", !.cursor = c, !.team = forTeam]
         IN  t \in Locals /\ Proper(x, t, rows)
  BY DEF Locals, At, Proper, Deciding

LEMMA ProperChoice ==
  ASSUME NEW x \in Session, NEW l \in Locals, NEW rows, Proper(x, l, rows),
         l.at = "choose", x \notin Reassign, NEW u \in User
  PROVE  LET t == [l EXCEPT !.at = "previous", !.user = u]
         IN  t \in Locals /\ Proper(x, t, rows)
  BY DEF Locals, At, Proper, Deciding

LEMMA ProperFind ==
  ASSUME NEW x \in Session, NEW l \in Locals, NEW rows, Proper(x, l, rows),
         l.at = "previous", x \notin Reassign,
         NEW r \in Nat, r <= Len(rows[l.pi]),
         NEW a \in {"commit", "advance", "end"}, NEW b \in BOOLEAN
  PROVE  LET t == [l EXCEPT !.prev = r, !.at = a, !.advances = b]
         IN  t \in Locals /\ Proper(x, t, rows)
  BY DEF Locals, At, Proper, Deciding

LEMMA ProperStatusChange ==
  ASSUME NEW x \in StatusChange, NEW q \in Instance, NEW rows, Len(rows[q]) \in Nat,
         NEW l \in Locals, ~ l.created, ~ l.advances, ~ l.override,
         l.prev = NoRow, l.ended = NoRow, NEW s \in Status, NEW t,
         t = [l EXCEPT !.at = "update", !.pi = q, !.to = s]
  PROVE  t \in Locals /\ Proper(x, t, rows)
<1>1. t \in Locals
  BY DEF Locals, At
<1>2. /\ t.at = "update" /\ t.pi = q /\ t.to = s /\ t.prev = NoRow /\ t.ended = NoRow
      /\ ~ t.created /\ ~ t.advances /\ ~ t.override
  BY DEF Locals
<1>3. NoRow <= Len(rows[q])
  BY DEF NoRow
<1> QED
  BY <1>1, <1>2, <1>3, SessionAssumption DEF Proper, Deciding

LEMMA ProperRequest ==
  ASSUME NEW x \in RoutingAssign, NEW q \in Instance, NEW rows, Len(rows[q]) \in Nat,
         NEW l \in Locals, ~ l.created, ~ l.advances, ~ l.override,
         l.prev = NoRow, l.ended = NoRow, NEW s \in Status,
         NEW u \in User \cup {NoUser}, NEW o \in BOOLEAN, o => u \in User, NEW t,
         t = [l EXCEPT !.at = "rule", !.pi = q, !.to = s, !.user = u, !.override = o]
  PROVE  t \in Locals /\ Proper(x, t, rows)
<1>1. t \in Locals
  BY DEF Locals, At
<1>2. /\ t.at = "rule" /\ t.pi = q /\ t.to = s /\ t.prev = NoRow /\ t.ended = NoRow
      /\ ~ t.created /\ ~ t.advances /\ t.override = o /\ t.user = u
  BY DEF Locals
<1>3. NoRow <= Len(rows[q])
  BY DEF NoRow
<1> QED
  BY <1>1, <1>2, <1>3, SessionAssumption DEF Proper, Deciding

LEMMA ProperReassign ==
  ASSUME NEW x \in Reassign, NEW q \in Instance, NEW rows,
         NEW l \in Locals, ~ l.created, ~ l.advances, ~ l.override,
         l.ended = NoRow, NEW r \in Nat, r <= Len(rows[q]), NEW u \in User, NEW t,
         t = [l EXCEPT !.at = "end", !.pi = q, !.user = u, !.prev = r]
  PROVE  t \in Locals /\ Proper(x, t, rows)
<1>1. t \in Locals
  BY DEF Locals, At
<1>2. /\ t.at = "end" /\ t.pi = q /\ t.prev = r /\ t.ended = NoRow
      /\ ~ t.created /\ ~ t.advances /\ ~ t.override /\ t.user = u
  BY DEF Locals
<1> QED
  BY <1>1, <1>2, SessionAssumption DEF Proper, Deciding

LEMMA IdleFields ==
  /\ Idle \in Locals /\ ~ Idle.created /\ ~ Idle.advances /\ ~ Idle.override
  /\ Idle.prev = NoRow /\ Idle.ended = NoRow
  BY DEF Idle, Locals, At, NoUser, NoRow

LEMMA Leaves ==
  ASSUME TypeOK, LocalInv, NEW x \in StatusChange \cup RoutingAssign,
         session[x].at # "idle", ~ session[x].created, Leave(x),
         UNCHANGED <<data, config, ruleLock, turns, requests>>
  PROVE  TypeOK' /\ LocalInv'
<1>1. x \in Session
  BY DEF Session
<1>2. CASE x \in StatusChange
  <2>1. session' = [session EXCEPT ![x] = [session[x] EXCEPT !.at = "commit"]]
    BY <1>2 DEF Leave, Goto
  <2>2. ruleLock' \in [Status -> StatusChange \cup {NoSession}] /\ requests' \in Nat
    BY DEF TypeOK
  <2> QED
    BY <1>1, <1>2, <2>1, <2>2, RecordOf, ProperMoves, SessionStep
<1>3. CASE x \notin StatusChange
  BY <1>1, <1>3, GivesUp DEF Leave
<1> QED
  BY <1>2, <1>3

(* The steps that begin a request or update the status.                    *)
LEMMA Beginning ==
  ASSUME TypeOK, LocalInv, NEW x \in Session, NEW t \in Locals, Proper(x, t, assigned),
         session' = [session EXCEPT ![x] = t], Request,
         UNCHANGED <<data, config, ruleLock, turns>>
  PROVE  TypeOK' /\ LocalInv'
<1>1. requests' \in Nat /\ ruleLock' \in [Status -> StatusChange \cup {NoSession}]
  BY DEF TypeOK, Request
<1> QED
  BY <1>1, SessionStep

LEMMA BeginningStep ==
  ASSUME TypeOK, LocalInv, NEW x \in Session,
         \/ x \in StatusChange /\ ChangeStatus(x)
         \/ x \in RoutingAssign /\ RequestAssign(x)
         \/ x \in Reassign /\ ReadAssignment(x)
  PROVE  TypeOK' /\ LocalInv'
<1>1. \A q \in Instance : /\ Len(assigned[q]) \in Nat
                          /\ \A r \in current[q] : r \in Nat /\ r <= Len(assigned[q])
  BY DEF TypeOK
<1>2. CASE x \in StatusChange /\ ReadProcess(x)
  <2>1. PICK q \in Instance, s \in Status :
          session' = [session EXCEPT ![x] =
            [Idle EXCEPT !.at = "update", !.pi = q, !.to = s]]
    BY <1>2 DEF ReadProcess
  <2>2. Request /\ UNCHANGED <<data, config, ruleLock, turns>>
    BY <1>2 DEF ReadProcess
  <2> DEFINE t == [Idle EXCEPT !.at = "update", !.pi = q, !.to = s]
  <2>3. t \in Locals /\ Proper(x, t, assigned)
    BY <1>1, <1>2, IdleFields, ProperStatusChange
  <2>4. session' = [session EXCEPT ![x] = t]
    BY <2>1
  <2> HIDE DEF t
  <2> QED
    BY <2>2, <2>3, <2>4, Beginning
<1>3. CASE x \in StatusChange /\ UpdateStatus(x)
  <2> DEFINE t == [session[x] EXCEPT !.at = "rule"]
  <2>1. t \in Locals /\ Proper(x, t, assigned)
    BY <1>3, RecordOf, ProperMoves DEF UpdateStatus
  <2>2. session' = [session EXCEPT ![x] = t]
    BY <1>3 DEF UpdateStatus, Goto
  <2>3. /\ ruleLock' \in [Status -> StatusChange \cup {NoSession}] /\ requests' \in Nat
        /\ UNCHANGED <<data, config, turns>>
    BY <1>3 DEF UpdateStatus, TypeOK
  <2> HIDE DEF t
  <2> QED
    BY <2>1, <2>2, <2>3, SessionStep
<1>4. CASE x \in RoutingAssign /\ RequestAssign(x)
  <2>1. PICK q \in Instance, s \in Status, u \in User \cup {NoUser} :
          session' = [session EXCEPT ![x] =
            [Idle EXCEPT !.at = "rule", !.pi = q, !.to = s, !.user = u,
                         !.override = (u # NoUser)]]
    BY <1>4 DEF RequestAssign
  <2>2. Request /\ UNCHANGED <<data, config, ruleLock, turns>>
    BY <1>4 DEF RequestAssign
  <2> DEFINE o == u # NoUser
             t == [Idle EXCEPT !.at = "rule", !.pi = q, !.to = s, !.user = u,
                               !.override = o]
  <2>3. o \in BOOLEAN /\ (o => u \in User)
    OBVIOUS
  <2>4. session' = [session EXCEPT ![x] = t]
    BY <2>1
  <2>5. t \in Locals /\ Proper(x, t, assigned)
    <3> HIDE DEF o
    <3> QED
      BY <1>1, <1>4, <2>3, IdleFields, ProperRequest
  <2> HIDE DEF t
  <2> QED
    BY <2>2, <2>4, <2>5, Beginning
<1>5. CASE x \in Reassign /\ ReadAssignment(x)
  <2>1. PICK q \in Instance, u \in active : \E r \in current[q] :
          session' = [session EXCEPT ![x] =
            [Idle EXCEPT !.at = "end", !.pi = q, !.user = u, !.prev = r]]
    BY <1>5 DEF ReadAssignment
  <2>2. PICK r \in current[q] :
          session' = [session EXCEPT ![x] =
            [Idle EXCEPT !.at = "end", !.pi = q, !.user = u, !.prev = r]]
    BY <2>1
  <2>3. Request /\ UNCHANGED <<data, config, ruleLock, turns>>
    BY <1>5 DEF ReadAssignment
  <2>4. u \in User
    BY DEF TypeOK
  <2> DEFINE t == [Idle EXCEPT !.at = "end", !.pi = q, !.user = u, !.prev = r]
  <2>5. t \in Locals /\ Proper(x, t, assigned)
    BY <1>1, <1>5, <2>4, IdleFields, ProperReassign
  <2>6. session' = [session EXCEPT ![x] = t]
    BY <2>2
  <2> HIDE DEF t
  <2> QED
    BY <2>3, <2>5, <2>6, Beginning
<1> QED
  BY <1>2, <1>3, <1>4, <1>5 DEF ChangeStatus

LEMMA RoutingStep ==
  ASSUME TypeOK, LocalInv, NEW x \in StatusChange \cup RoutingAssign, Route(x)
  PROVE  TypeOK' /\ LocalInv'
<1>1. x \in Session /\ x \notin Reassign
  BY SessionAssumption DEF Session
<1>2. session[x] \in Locals /\ Proper(x, session[x], assigned)
  BY <1>1, RecordOf
<1>3. requests \in Nat /\ ruleLock \in [Status -> StatusChange \cup {NoSession}]
  BY DEF TypeOK
<1>4. session[x].at = "previous" \/ session[x].at = "rule" \/ session[x].at = "choose"
        => /\ session[x].to \in Status /\ session[x].pi \in Instance
           /\ ~ session[x].created /\ session[x].at # "idle"
           /\ session[x].override => session[x].user \in User
  BY <1>1, <1>2 DEF Proper
<1>5. CASE NoRule(x)
  BY <1>4, <1>5, Leaves DEF NoRule
<1>6. CASE Skip(x)
  BY <1>4, <1>6, Leaves DEF Skip
<1>7. CASE LockRule(x)
  <2> DEFINE s == session[x].to
             t == [session[x] EXCEPT !.at = "choose", !.cursor = rule[s].cursor,
                                     !.team = rule[s].team]
  <2>1. s \in Status /\ rule[s].cursor \in User \cup {NoUser} /\ rule[s].team \in BOOLEAN
    BY <1>4, <1>7 DEF LockRule, TypeOK, Rules
  <2>2. t \in Locals /\ Proper(x, t, assigned)
    BY <1>1, <1>2, <1>7, <2>1, ProperRule DEF LockRule
  <2>3. session' = [session EXCEPT ![x] = t]
    BY <1>7 DEF LockRule
  <2>4. /\ ruleLock' \in [Status -> StatusChange \cup {NoSession}]
        /\ requests' \in Nat
        /\ UNCHANGED <<data, config, turns>>
    BY <1>1, <1>3, <1>7 DEF LockRule, Transaction
  <2> HIDE DEF t
  <2> QED
    BY <1>1, <2>2, <2>3, <2>4, SessionStep
<1>8. CASE Choose(x)
  <2> DEFINE u == IF session[x].override THEN session[x].user ELSE Pick(x)
             t == [session[x] EXCEPT !.at = "previous", !.user = u]
  <2>1. u \in User
    BY <1>1, <1>4, <1>8, CandidatesArePicked DEF Choose
  <2>2. t \in Locals /\ Proper(x, t, assigned)
    <3> HIDE DEF u
    <3> QED
      BY <1>1, <1>2, <1>8, <2>1, ProperChoice DEF Choose
  <2>3. session' = [session EXCEPT ![x] = t]
    BY <1>8 DEF Choose
  <2>4. /\ ruleLock' \in [Status -> StatusChange \cup {NoSession}]
        /\ requests' \in Nat
        /\ UNCHANGED <<data, config, turns>>
    BY <1>3, <1>8 DEF Choose
  <2> HIDE DEF t
  <2> QED
    BY <1>1, <2>2, <2>3, <2>4, SessionStep
<1>9. CASE FindPrevious(x)
  <2>1. /\ ruleLock' \in [Status -> StatusChange \cup {NoSession}]
        /\ requests' \in Nat
        /\ UNCHANGED <<data, config, turns>>
    BY <1>3, <1>9 DEF FindPrevious
  <2>2. session[x].at = "previous" /\ session[x].pi \in Instance
    BY <1>4, <1>9 DEF FindPrevious
  <2>3. \A r \in current[session[x].pi] : r \in Nat /\ r <= Len(assigned[session[x].pi])
    BY <2>2 DEF TypeOK
  <2>4. \E t \in Locals : Proper(x, t, assigned) /\ session' = [session EXCEPT ![x] = t]
    <3>1. CASE Goto(x, "create")
      BY <1>1, <1>2, <2>2, <3>1, ProperMoves DEF Goto
    <3>2. CASE \E r \in current[session[x].pi], a \in {"commit", "advance", "end"},
                  b \in BOOLEAN :
                 session' = [session EXCEPT ![x].prev = r, ![x].at = a, ![x].advances = b]
      <4>1. PICK r \in current[session[x].pi], a \in {"commit", "advance", "end"},
                 b \in BOOLEAN :
              session' = [session EXCEPT ![x].prev = r, ![x].at = a, ![x].advances = b]
        BY <3>2
      <4> DEFINE t == [session[x] EXCEPT !.prev = r, !.at = a, !.advances = b]
      <4>2. t \in Locals /\ Proper(x, t, assigned)
        BY <1>1, <1>2, <2>2, <2>3, ProperFind
      <4>3. session' = [session EXCEPT ![x] = t]
        BY <4>1
      <4> QED
        BY <4>2, <4>3
    <3> QED
      BY <1>9, <3>1, <3>2 DEF FindPrevious
  <2> QED
    BY <1>1, <2>1, <2>4, SessionStep
<1> QED
  BY <1>5, <1>6, <1>7, <1>8, <1>9 DEF Route

(* The steps that write.                                                   *)
LEMMA LocalKept ==
  ASSUME TypeOK, LocalInv, NEW x \in Session, NEW t \in Locals, Proper(x, t, assigned'),
         session' = [session EXCEPT ![x] = t],
         \A q \in Instance : Len(assigned[q]) <= Len(assigned'[q]),
         assigned' \in [Instance -> Seq(User)]
  PROVE  LocalInv' /\ session' \in [Session -> Locals]
<1>1. session' \in [Session -> Locals]
  BY DEF TypeOK
<1>2. ASSUME NEW y \in Session PROVE Proper(y, session'[y], assigned')
  <2>1. CASE y = x
    BY <2>1 DEF TypeOK
  <2>2. CASE y # x
    <3>1. session'[y] = session[y] /\ session[y] \in Locals
      BY <2>2 DEF TypeOK
    <3>2. Proper(y, session[y], assigned)
      BY DEF LocalInv
    <3>3. session[y].at # "idle" => session[y].prev <= Len(assigned'[session[y].pi])
      <4> SUFFICES ASSUME session[y].at # "idle"
                   PROVE  session[y].prev <= Len(assigned'[session[y].pi])
        OBVIOUS
      <4>1. session[y].pi \in Instance /\ session[y].prev <= Len(assigned[session[y].pi])
        BY <3>2 DEF Proper
      <4>2. Len(assigned[session[y].pi]) \in Nat /\ Len(assigned'[session[y].pi]) \in Nat
        BY <4>1 DEF TypeOK
      <4>3. session[y].prev \in Nat
        BY <3>1 DEF Locals
      <4>4. Len(assigned[session[y].pi]) <= Len(assigned'[session[y].pi])
        BY <4>1
      <4> QED
        BY <4>1, <4>2, <4>3, <4>4
    <3> QED
      BY <3>1, <3>2, <3>3 DEF Proper
  <2> QED
    BY <2>1, <2>2
<1> QED
  BY <1>1, <1>2 DEF LocalInv

LEMMA Inserted ==
  ASSUME TypeOK, NEW x \in Session, session[x].pi \in Instance, session[x].user \in User,
         NEW ended, InsertRow(x, ended)
  PROVE  /\ assigned' \in [Instance -> Seq(User)]
         /\ current' \in [Instance -> SUBSET Nat]
         /\ \A q \in Instance : current'[q] \subseteq DOMAIN assigned'[q]
         /\ \A q \in Instance : Len(assigned[q]) <= Len(assigned'[q])
<1> DEFINE p == session[x].pi
           n == Len(assigned[p])
<1>1. assigned[p] \in Seq(User) /\ n \in Nat /\ current[p] \subseteq 1..n
  BY DEF TypeOK
<1>2. /\ Append(assigned[p], session[x].user) \in Seq(User)
      /\ Len(Append(assigned[p], session[x].user)) = n + 1
      /\ DOMAIN Append(assigned[p], session[x].user) = 1..(n + 1)
  BY <1>1
<1>3. /\ assigned' = [assigned EXCEPT ![p] = Append(assigned[p], session[x].user)]
      /\ current' = [current EXCEPT ![p] = (current[p] \ ended) \cup {n + 1}]
  BY DEF InsertRow
<1>4. ASSUME NEW q \in Instance
      PROVE  /\ current'[q] \subseteq DOMAIN assigned'[q]
             /\ Len(assigned[q]) <= Len(assigned'[q])
  <2>1. CASE q = p
    <3>1. assigned'[q] = Append(assigned[p], session[x].user)
          /\ current'[q] = (current[p] \ ended) \cup {n + 1}
      BY <1>3, <2>1 DEF TypeOK
    <3>2. (current[p] \ ended) \cup {n + 1} \subseteq 1..(n + 1)
      BY <1>1
    <3> QED
      BY <1>1, <1>2, <2>1, <3>1, <3>2
  <2>2. CASE q # p
    <3>1. assigned'[q] = assigned[q] /\ current'[q] = current[q]
      BY <1>3, <2>2 DEF TypeOK
    <3> QED
      BY <3>1 DEF TypeOK
  <2> QED
    BY <2>1, <2>2
<1>5. assigned' \in [Instance -> Seq(User)]
  BY <1>2, <1>3 DEF TypeOK
<1>6. current' \in [Instance -> SUBSET Nat]
  <2>1. (current[p] \ ended) \cup {n + 1} \in SUBSET Nat
    BY <1>1
  <2> QED
    BY <1>3, <2>1 DEF TypeOK
<1> QED
  BY <1>4, <1>5, <1>6

LEMMA RecordedTyped ==
  ASSUME TypeOK, NEW x \in Session, session[x].pi \in Instance, session[x].user \in User,
         session[x].prev \in Nat, session[x].prev <= Len(assigned[session[x].pi])
  PROVE  Recorded(x) \in [Instance -> Seq(Handover)]
<1> DEFINE p == session[x].pi
           old == IF session[x].prev = NoRow THEN NoUser ELSE assigned[p][session[x].prev]
           h == [old |-> old, new |-> session[x].user]
<1>1. old \in User \cup {NoUser}
  BY DEF TypeOK, NoRow
<1>2. h \in Handover
  BY <1>1 DEF Handover
<1> HIDE DEF old, h
<1>3. handovers[p] \in Seq(Handover)
  BY DEF TypeOK
<1>4. Append(handovers[p], h) \in Seq(Handover)
  BY <1>2, <1>3
<1>5. [handovers EXCEPT ![p] = Append(handovers[p], h)] \in [Instance -> Seq(Handover)]
  BY <1>4 DEF TypeOK
<1> QED
  BY <1>5 DEF Recorded, h, old

LEMMA Advanced ==
  ASSUME TypeOK, NEW s \in Status, NEW u \in User, AdvanceCursor(s, u)
  PROVE  rule' \in [Status -> Rules] /\ turns' \in [Status -> [User -> Nat]]
<1>1. rule[s] \in Rules /\ turns[s] \in [User -> Nat]
  BY DEF TypeOK
<1>2. [rule[s] EXCEPT !.cursor = u] \in Rules
  BY <1>1 DEF Rules
<1>3. [turns[s] EXCEPT ![u] = @ + 1] \in [User -> Nat]
  BY <1>1
<1>4. rule' = [rule EXCEPT ![s] = [rule[s] EXCEPT !.cursor = u]]
      /\ turns' = [turns EXCEPT ![s] = [turns[s] EXCEPT ![u] = @ + 1]]
  BY DEF AdvanceCursor
<1> QED
  BY <1>2, <1>3, <1>4 DEF TypeOK

LEMMA EndStep ==
  ASSUME TypeOK, LocalInv, NEW x \in Session, End(x)
  PROVE  TypeOK' /\ LocalInv'
<1> DEFINE e == IF x \in Transaction THEN session[x].prev ELSE NoRow
           t == [session[x] EXCEPT !.at = "create", !.ended = e]
<1>1. session[x] \in Locals /\ Proper(x, session[x], assigned)
  BY RecordOf
<1>2. e \in Nat /\ (x \in RoutingAssign => e = NoRow)
  BY <1>1, SessionAssumption DEF Locals, NoRow, Transaction
<1>3. session[x].at = "end"
  BY DEF End
<1> HIDE DEF e
<1>4. t \in Locals
  BY <1>1, <1>2 DEF Locals, At
<1>5. Proper(x, t, assigned)
  BY <1>1, <1>2, <1>3 DEF Proper, Deciding, Locals
<1>6. session' = [session EXCEPT ![x] = t]
  BY DEF End, e
<1>7. assigned' = assigned /\ \A q \in Instance : Len(assigned[q]) <= Len(assigned'[q])
  BY DEF End, TypeOK
<1> HIDE DEF t
<1>8. LocalInv' /\ session' \in [Session -> Locals]
  BY <1>4, <1>5, <1>6, <1>7, LocalKept DEF TypeOK
<1>9. /\ current' \in [Instance -> SUBSET Nat]
      /\ \A q \in Instance : current'[q] \subseteq DOMAIN assigned'[q]
  BY <1>7 DEF End, TypeOK
<1> QED
  BY <1>7, <1>8, <1>9 DEF End, TypeOK, config

LEMMA CreateStep ==
  ASSUME TypeOK, LocalInv, NEW x \in Session, Create(x)
  PROVE  TypeOK' /\ LocalInv'
<1>1. session[x] \in Locals /\ Proper(x, session[x], assigned)
  BY RecordOf
<1>2. session[x].at = "create" /\ session[x].pi \in Instance /\ session[x].user \in User
  BY <1>1 DEF Create, Proper, Deciding
<1>3. CASE x \in Transaction
  <2> DEFINE a == x \in StatusChange
             t == [session[x] EXCEPT !.at = "commit", !.created = TRUE, !.advances = a]
  <2>1. a \in BOOLEAN /\ (a => x \notin Reassign) /\ x \notin RoutingAssign
    BY <1>3, SessionAssumption DEF Transaction
  <2> HIDE DEF a
  <2>2. t \in Locals
    BY <1>1, <2>1 DEF Locals, At
  <2>3. Proper(x, t, assigned)
    BY <1>1, <1>2, <2>1 DEF Proper, Deciding, Locals
  <2>4. session' = [session EXCEPT ![x] = t]
    BY <1>3 DEF Create, a
  <2>5. /\ ruleLock' \in [Status -> StatusChange \cup {NoSession}]
        /\ requests' \in Nat
        /\ UNCHANGED <<data, config, turns>>
    BY <1>3 DEF Create, TypeOK, data
  <2> HIDE DEF t
  <2> QED
    BY <2>2, <2>3, <2>4, <2>5, SessionStep
<1>4. CASE x \notin Transaction
  <2> DEFINE t == [session[x] EXCEPT !.at = "advance"]
  <2>1. InsertRow(x, {})
    BY <1>4 DEF Create
  <2>2. /\ assigned' \in [Instance -> Seq(User)]
        /\ current' \in [Instance -> SUBSET Nat]
        /\ \A q \in Instance : current'[q] \subseteq DOMAIN assigned'[q]
        /\ \A q \in Instance : Len(assigned[q]) <= Len(assigned'[q])
    BY <1>2, <2>1, Inserted
  <2>3. x \in RoutingAssign
    BY <1>4 DEF Session, Transaction
  <2>4. t \in Locals
    BY <1>1 DEF Locals, At
  <2>5. session[x].prev <= Len(assigned'[session[x].pi])
    <3>1. session[x].prev \in Nat /\ session[x].prev <= Len(assigned[session[x].pi])
      BY <1>1, <1>2 DEF Proper, Locals
    <3>2. Len(assigned[session[x].pi]) \in Nat /\ Len(assigned'[session[x].pi]) \in Nat
      BY <1>2, <2>2 DEF TypeOK
    <3>3. Len(assigned[session[x].pi]) <= Len(assigned'[session[x].pi])
      BY <1>2, <2>2
    <3> QED
      BY <3>1, <3>2, <3>3
  <2>6. Proper(x, t, assigned')
    BY <1>1, <1>2, <2>3, <2>5, SessionAssumption DEF Proper, Deciding, Locals
  <2>7. session' = [session EXCEPT ![x] = t]
    BY <1>4 DEF Create, Goto
  <2> HIDE DEF t
  <2>8. LocalInv' /\ session' \in [Session -> Locals]
    BY <2>2, <2>4, <2>6, <2>7, LocalKept
  <2> QED
    BY <2>2, <2>8 DEF Create, TypeOK, config
<1> QED
  BY <1>3, <1>4

LEMMA FailingStep ==
  ASSUME TypeOK, LocalInv, NEW x \in Session, CreateConflicts(x) \/ Fail(x)
  PROVE  TypeOK' /\ LocalInv'
<1>1. CASE CreateConflicts(x)
  BY <1>1, GivesUp DEF CreateConflicts
<1>2. CASE Fail(x)
  BY <1>2, GivesUp DEF Fail
<1> QED
  BY <1>1, <1>2

LEMMA ManualStep ==
  ASSUME TypeOK, LocalInv, NEW x \in RoutingAssign, Advance(x) \/ Record(x)
  PROVE  TypeOK' /\ LocalInv'
<1>1. x \in Session /\ x \notin Reassign /\ x \notin StatusChange
  BY SessionAssumption DEF Session
<1>2. session[x] \in Locals /\ Proper(x, session[x], assigned)
  BY <1>1, RecordOf
<1>3. CASE Advance(x)
  <2> DEFINE t == IF session[x].advances THEN Idle ELSE [session[x] EXCEPT !.at = "record"]
  <2>1. session[x].to \in Status /\ session[x].user \in User /\ session[x].at = "advance"
    BY <1>1, <1>2, <1>3 DEF Advance, Proper, Deciding
  <2>2. rule' \in [Status -> Rules] /\ turns' \in [Status -> [User -> Nat]]
    BY <1>3, <2>1, Advanced DEF Advance
  <2>3. assigned' = assigned
    BY <1>3 DEF Advance, data
  <2>4. t \in Locals /\ Proper(x, t, assigned')
    <3>1. [session[x] EXCEPT !.at = "record"] \in Locals
      BY <1>2 DEF Locals, At
    <3>2. Proper(x, [session[x] EXCEPT !.at = "record"], assigned)
      BY <1>1, <1>2, <2>1 DEF Proper, Deciding, Locals
    <3> QED
      BY <1>1, <2>3, <3>1, <3>2, IdleIsProper
  <2>5. session' = [session EXCEPT ![x] = t]
    BY <1>3 DEF Advance
  <2>6. /\ \A q \in Instance : Len(assigned[q]) <= Len(assigned'[q])
        /\ assigned' \in [Instance -> Seq(User)]
    BY <2>3 DEF TypeOK
  <2> HIDE DEF t
  <2>7. LocalInv' /\ session' \in [Session -> Locals]
    BY <1>1, <2>4, <2>5, <2>6, LocalKept
  <2> QED
    BY <1>3, <2>2, <2>7 DEF Advance, TypeOK, data
<1>4. CASE Record(x)
  <2>1. session[x].pi \in Instance /\ session[x].user \in User
        /\ session[x].prev \in Nat /\ session[x].prev <= Len(assigned[session[x].pi])
    BY <1>2, <1>4 DEF Record, Proper, Deciding, Locals
  <2>2. handovers' \in [Instance -> Seq(Handover)]
    BY <1>1, <1>4, <2>1, RecordedTyped DEF Record
  <2>3. assigned' = assigned
    BY <1>4 DEF Record
  <2>4. /\ \A q \in Instance : Len(assigned[q]) <= Len(assigned'[q])
        /\ assigned' \in [Instance -> Seq(User)]
    BY <2>3 DEF TypeOK
  <2>5. session' = [session EXCEPT ![x] = Idle] /\ Idle \in Locals
        /\ Proper(x, Idle, assigned')
    BY <1>1, <1>4, <2>3, IdleIsProper DEF Record
  <2>6. LocalInv' /\ session' \in [Session -> Locals]
    BY <1>1, <2>4, <2>5, LocalKept
  <2> QED
    BY <1>4, <2>2, <2>6 DEF Record, TypeOK, config
<1> QED
  BY <1>3, <1>4

LEMMA CommitStep ==
  ASSUME TypeOK, LocalInv, NEW x \in Transaction, Commit(x)
  PROVE  TypeOK' /\ LocalInv'
<1>1. x \in Session
  BY DEF Session, Transaction
<1>2. session[x] \in Locals /\ Proper(x, session[x], assigned)
  BY <1>1, RecordOf
<1>3. session[x].pi \in Instance /\ session[x].prev \in Nat
      /\ session[x].prev <= Len(assigned[session[x].pi])
  BY <1>2 DEF Commit, Proper, Locals
<1>4. status' \in [Instance -> Status]
  <2>1. x \in StatusChange => session[x].to \in Status
    BY <1>2, SessionAssumption DEF Commit, Proper
  <2> QED
    BY <1>3, <2>1 DEF Commit, TypeOK
<1>5. /\ assigned' \in [Instance -> Seq(User)]
      /\ current' \in [Instance -> SUBSET Nat]
      /\ \A q \in Instance : current'[q] \subseteq DOMAIN assigned'[q]
      /\ \A q \in Instance : Len(assigned[q]) <= Len(assigned'[q])
      /\ handovers' \in [Instance -> Seq(Handover)]
  <2>1. CASE session[x].created
    <3>1. session[x].user \in User
      BY <1>2, <2>1 DEF Proper
    <3>2. InsertRow(x, {session[x].ended}) /\ handovers' = Recorded(x)
      BY <2>1 DEF Commit
    <3>3. handovers' \in [Instance -> Seq(Handover)]
      BY <1>1, <1>3, <3>1, <3>2, RecordedTyped
    <3> QED
      BY <1>1, <1>3, <3>1, <3>2, <3>3, Inserted
  <2>2. CASE ~ session[x].created
    <3>1. UNCHANGED <<assigned, current, handovers>>
      BY <2>2 DEF Commit
    <3> QED
      BY <3>1 DEF TypeOK
  <2> QED
    BY <2>1, <2>2
<1>6. rule' \in [Status -> Rules] /\ turns' \in [Status -> [User -> Nat]]
  <2>1. CASE session[x].advances
    <3>1. session[x].to \in Status /\ session[x].user \in User
      BY <1>2, <2>1 DEF Commit, Proper
    <3> QED
      BY <2>1, <3>1, Advanced DEF Commit
  <2>2. CASE ~ session[x].advances
    BY <2>2 DEF Commit, TypeOK
  <2> QED
    BY <2>1, <2>2
<1>7. session' = [session EXCEPT ![x] = Idle] /\ ruleLock' = ReleasedBy(x)
  BY DEF Commit
<1>8. Idle \in Locals /\ Proper(x, Idle, assigned')
  BY <1>1 DEF Idle, Locals, At, Proper, Deciding, NoUser, NoRow
<1>9. LocalInv' /\ session' \in [Session -> Locals]
  BY <1>1, <1>5, <1>7, <1>8, LocalKept
<1>10. ruleLock' \in [Status -> StatusChange \cup {NoSession}]
  BY <1>7, ReleaseTyped
<1>11. team' \in Teams /\ active' \subseteq User /\ requests' \in Nat /\ changes' \in Nat
  BY DEF Commit, TypeOK
<1> QED
  BY <1>4, <1>5, <1>6, <1>9, <1>10, <1>11 DEF TypeOK

LEMMA ConfigureStep ==
  ASSUME TypeOK, LocalInv, Configure
  PROVE  TypeOK' /\ LocalInv'
<1>1. UNCHANGED <<data, ruleLock, session, turns, requests>>
  BY DEF Configure, DeactivateRule, ReplaceRule, ChangeTeam, DeactivateUser
<1>2. changes' \in Nat
  BY DEF Configure, DeactivateRule, ReplaceRule, ChangeTeam, DeactivateUser, Change, TypeOK
<1>3. rule' \in [Status -> Rules]
  <2>1. ASSUME NEW s \in Status, DeactivateRule(s) PROVE rule' \in [Status -> Rules]
    <3>1. rule[s] \in Rules
      BY DEF TypeOK
    <3>2. [rule[s] EXCEPT !.active = FALSE] \in Rules
      BY <3>1 DEF Rules
    <3>3. rule' = [rule EXCEPT ![s] = [rule[s] EXCEPT !.active = FALSE]]
      BY <2>1 DEF DeactivateRule
    <3> QED
      BY <3>2, <3>3 DEF TypeOK
  <2>2. ASSUME NEW s \in Status, NEW forTeam \in BOOLEAN, NEW users \in PoolChoice,
               ReplaceRule(s, forTeam, users)
        PROVE  rule' \in [Status -> Rules]
    <3>1. rule[s] \in Rules /\ users \subseteq User
      BY FirstAssumption DEF TypeOK
    <3>2. [active |-> TRUE, team |-> forTeam, users |-> users,
           cursor |-> IF forTeam THEN NoUser ELSE rule[s].cursor] \in Rules
      BY <3>1 DEF Rules
    <3> QED
      BY <2>2, <3>2 DEF ReplaceRule, TypeOK
  <2>3. CASE rule' = rule
    BY <2>3 DEF TypeOK
  <2> QED
    BY <2>1, <2>2, <2>3 DEF Configure, ChangeTeam, DeactivateUser
<1>4. team' \in Teams /\ active' \subseteq User
  <2>1. CASE UNCHANGED <<team, active>>
    BY <2>1 DEF TypeOK
  <2>2. ASSUME NEW isActive \in BOOLEAN, NEW members \in PoolChoice,
               ChangeTeam(isActive, members)
        PROVE  team' \in Teams /\ active' \subseteq User
    <3>1. members \subseteq User
      BY FirstAssumption
    <3> QED
      BY <2>2, <3>1 DEF ChangeTeam, Teams, TypeOK
  <2>3. ASSUME NEW u \in User, DeactivateUser(u)
        PROVE  team' \in Teams /\ active' \subseteq User
    <3>1. team \in Teams /\ active \subseteq User
      BY DEF TypeOK
    <3>2. [team EXCEPT !.members = @ \ {u}] \in Teams
      BY <3>1 DEF Teams
    <3> QED
      BY <2>3, <3>1, <3>2 DEF DeactivateUser
  <2> QED
    BY <2>1, <2>2, <2>3 DEF Configure, DeactivateRule, ReplaceRule
<1>5. TypeOK'
  BY <1>1, <1>2, <1>3, <1>4 DEF TypeOK, data
<1>6. LocalInv'
  BY <1>1 DEF LocalInv, data
<1> QED
  BY <1>5, <1>6

LEMMA Start == Init => TypeOK /\ LocalInv
<1> SUFFICES ASSUME Init PROVE TypeOK /\ LocalInv
  OBVIOUS
<1>1. assigned \in [Instance -> Seq(User)]
  BY FirstAssumption DEF Init
<1>2. current \in [Instance -> SUBSET Nat]
      /\ \A p \in Instance : current[p] \subseteq DOMAIN assigned[p]
  BY <1>1 DEF Init
<1>3. handovers \in [Instance -> Seq(Handover)]
  <2> SUFFICES ASSUME NEW p \in Instance, FirstHolder[p] # NoUser
               PROVE  <<[old |-> NoUser, new |-> FirstHolder[p]]>> \in Seq(Handover)
    <3>1. handovers = [p \in Instance |-> IF FirstHolder[p] = NoUser THEN <<>>
                                          ELSE <<[old |-> NoUser, new |-> FirstHolder[p]]>>]
      BY DEF Init
    <3>2. <<>> \in Seq(Handover)
      OBVIOUS
    <3> QED
      BY <3>1, <3>2
  <2>1. [old |-> NoUser, new |-> FirstHolder[p]] \in Handover
    BY FirstAssumption DEF Handover
  <2> QED
    BY <2>1
<1>4. session \in [Session -> Locals] /\ LocalInv
  <2>1. \A x \in Session : session[x] = Idle
    BY DEF Init
  <2>2. session \in [Session -> Locals]
    BY IdleIsProper DEF Init
  <2> QED
    BY <2>1, <2>2, IdleIsProper DEF LocalInv
<1>5. rule \in [Status -> Rules] /\ team \in Teams
  BY FirstAssumption DEF Init
<1>6. /\ status \in [Instance -> Status] /\ active \subseteq User
      /\ ruleLock \in [Status -> StatusChange \cup {NoSession}]
      /\ turns \in [Status -> [User -> Nat]]
      /\ requests \in Nat /\ changes \in Nat
  BY DEF Init
<1> QED
  BY <1>1, <1>2, <1>3, <1>4, <1>5, <1>6 DEF TypeOK

LEMMA NoStep ==
  ASSUME TypeOK, LocalInv, UNCHANGED vars
  PROVE  TypeOK' /\ LocalInv'
  BY DEF TypeOK, LocalInv, vars, data, config

LEMMA LocalStep == TypeOK /\ LocalInv /\ [Next]_vars => TypeOK' /\ LocalInv'
<1> SUFFICES ASSUME TypeOK, LocalInv, [Next]_vars PROVE TypeOK' /\ LocalInv'
  OBVIOUS
<1>1. ASSUME NEW x \in StatusChange, ChangeStatus(x) PROVE TypeOK' /\ LocalInv'
  BY <1>1, BeginningStep DEF Session
<1>2. ASSUME NEW x \in RoutingAssign, RequestAssign(x) \/ Advance(x) \/ Record(x)
      PROVE TypeOK' /\ LocalInv'
  BY <1>2, BeginningStep, ManualStep DEF Session
<1>3. ASSUME NEW x \in Reassign, ReadAssignment(x) PROVE TypeOK' /\ LocalInv'
  BY <1>3, BeginningStep DEF Session
<1>4. ASSUME NEW x \in Session, Supersede(x) \/ Fail(x) PROVE TypeOK' /\ LocalInv'
  BY <1>4, EndStep, CreateStep, FailingStep DEF Supersede
<1> QED
  BY <1>1, <1>2, <1>3, <1>4, RoutingStep, CommitStep, ConfigureStep, NoStep DEF Next

(* Every row, rule, lock and request record keeps its shape.               *)
THEOREM TypeCorrect == Spec => []TypeOK
<1>1. Spec => [](TypeOK /\ LocalInv)
  BY Start, LocalStep, PTL DEF Spec
<1> QED
  BY <1>1, PTL

-----------------------------------------------------------------------------
(* At most one row is current.  What makes it inductive: an uncommitted    *)
(* insert has met no current row but the one its transaction ends, and no  *)
(* second transaction has an insert for the same instance pending.         *)
PendingInv ==
  \A x \in Session : session[x].created =>
    /\ current[session[x].pi] \subseteq {session[x].ended}
    /\ \A y \in Session : session[y].created /\ session[y].pi = session[x].pi => y = x

(* Only Create makes an insert pending.                                    *)
Quiet(x) ==
  /\ \A y \in Session \ {x} : session'[y] = session[y]
  /\ ~ session'[x].created

LEMMA OnlyCreateInserts ==
  ASSUME TypeOK, LocalInv, NEW x \in Session,
         \/ ChangeStatus(x) \/ RequestAssign(x) \/ ReadAssignment(x) \/ Route(x)
         \/ End(x) \/ CreateConflicts(x) \/ Advance(x) \/ Record(x)
         \/ Commit(x) \/ Fail(x)
  PROVE  Quiet(x)
<1>1. session \in [Session -> Locals] /\ ~ Idle.created
  BY IdleFields DEF TypeOK
<1>2. session[x].at # "commit" => ~ session[x].created
  BY RecordOf DEF Proper
<1>3. ASSUME NEW t, session' = [session EXCEPT ![x] = t], ~ t.created PROVE Quiet(x)
  BY <1>1, <1>3 DEF Quiet
<1>4. CASE session' = [session EXCEPT ![x] = Idle]
  BY <1>1, <1>3, <1>4
<1>5. ASSUME session[x].at # "commit", NEW where, Goto(x, where) PROVE Quiet(x)
  <2>1. ~ [session[x] EXCEPT !.at = where].created
    BY <1>1, <1>2, <1>5 DEF Locals
  <2> QED
    BY <1>3, <1>5, <2>1 DEF Goto
<1>6. CASE ReadProcess(x)
  <2>1. PICK q \in Instance, s \in Status :
          session' = [session EXCEPT ![x] =
            [Idle EXCEPT !.at = "update", !.pi = q, !.to = s]]
    BY <1>6 DEF ReadProcess
  <2>2. ~ [Idle EXCEPT !.at = "update", !.pi = q, !.to = s].created
    BY DEF Idle
  <2> QED
    BY <1>3, <2>1, <2>2
<1>7. CASE UpdateStatus(x)
  BY <1>5, <1>7 DEF UpdateStatus
<1>8. CASE RequestAssign(x)
  <2>1. PICK q \in Instance, s \in Status, u \in User \cup {NoUser} :
          session' = [session EXCEPT ![x] =
            [Idle EXCEPT !.at = "rule", !.pi = q, !.to = s, !.user = u,
                         !.override = (u # NoUser)]]
    BY <1>8 DEF RequestAssign
  <2>2. ~ [Idle EXCEPT !.at = "rule", !.pi = q, !.to = s, !.user = u,
                       !.override = (u # NoUser)].created
    BY DEF Idle
  <2> QED
    BY <1>3, <2>1, <2>2
<1>9. CASE ReadAssignment(x)
  <2>1. PICK q \in Instance, u \in active : \E r \in current[q] :
          session' = [session EXCEPT ![x] =
            [Idle EXCEPT !.at = "end", !.pi = q, !.user = u, !.prev = r]]
    BY <1>9 DEF ReadAssignment
  <2>2. PICK r \in current[q] :
          session' = [session EXCEPT ![x] =
            [Idle EXCEPT !.at = "end", !.pi = q, !.user = u, !.prev = r]]
    BY <2>1
  <2>3. ~ [Idle EXCEPT !.at = "end", !.pi = q, !.user = u, !.prev = r].created
    BY DEF Idle
  <2> QED
    BY <1>3, <2>2, <2>3
<1>10. CASE NoRule(x) \/ Skip(x)
  BY <1>4, <1>5, <1>10 DEF NoRule, Skip, Leave
<1>11. CASE LockRule(x) \/ Choose(x)
  BY <1>1, <1>2, <1>11 DEF LockRule, Choose, Quiet, Locals
<1>12. CASE FindPrevious(x)
  <2>1. CASE Goto(x, "create")
    BY <1>5, <1>12, <2>1 DEF FindPrevious
  <2>2. CASE \E r \in current[session[x].pi], a \in At, b \in BOOLEAN :
               session' = [session EXCEPT ![x].prev = r, ![x].at = a, ![x].advances = b]
    <3>1. PICK r \in current[session[x].pi], a \in At, b \in BOOLEAN :
            session' = [session EXCEPT ![x].prev = r, ![x].at = a, ![x].advances = b]
      BY <2>2
    <3>2. ~ [session[x] EXCEPT !.prev = r, !.at = a, !.advances = b].created
      <4>1. ~ session[x].created /\ session[x] \in Locals
        BY <1>1, <1>2, <1>12 DEF FindPrevious
      <4> QED
        BY <4>1 DEF Locals
    <3> QED
      BY <1>3, <3>1, <3>2
  <2> QED
    BY <1>12, <2>1, <2>2 DEF FindPrevious, At
<1>13. CASE End(x)
  BY <1>1, <1>2, <1>13 DEF End, Quiet, Locals
<1>14. CASE CreateConflicts(x) \/ Fail(x) \/ Commit(x) \/ Record(x)
  BY <1>4, <1>14 DEF CreateConflicts, Fail, Commit, Record
<1>15. CASE Advance(x)
  <2>1. ~ [session[x] EXCEPT !.at = "record"].created
    BY <1>1, <1>2, <1>15 DEF Advance, Locals
  <2> QED
    BY <1>1, <1>3, <1>15, <2>1 DEF Advance
<1> QED
  BY <1>6, <1>7, <1>8, <1>9, <1>10, <1>11, <1>12, <1>13, <1>14, <1>15
     DEF ChangeStatus, Route

LEMMA PendingKept ==
  ASSUME PendingInv, NEW x \in Session, Quiet(x),
         \A y \in Session \ {x} : session[y].created =>
           current'[session[y].pi] \subseteq current[session[y].pi]
  PROVE  PendingInv'
  BY DEF PendingInv, Quiet

LEMMA InsertedAlone ==
  ASSUME TypeOK, AtMostOneCurrent, NEW x \in Session, session[x].pi \in Instance,
         NEW ended, InsertRow(x, ended), current[session[x].pi] \subseteq ended
  PROVE  /\ AtMostOneCurrent'
         /\ \A p \in Instance \ {session[x].pi} : current'[p] = current[p]
<1>1. \A p \in Instance \ {session[x].pi} : current'[p] = current[p]
  BY DEF InsertRow, TypeOK
<1>2. current'[session[x].pi] = {Len(assigned[session[x].pi]) + 1}
  BY DEF InsertRow, TypeOK
<1> QED
  BY <1>1, <1>2 DEF AtMostOneCurrent

CurrentInv == TypeOK /\ LocalInv /\ PendingInv /\ AtMostOneCurrent

LEMMA CreatePends ==
  ASSUME CurrentInv, NEW x \in Session, Create(x)
  PROVE  PendingInv' /\ AtMostOneCurrent'
<1> USE DEF CurrentInv
<1>1. /\ session[x].at = "create" /\ session[x].pi \in Instance /\ session[x].user \in User
      /\ session[x].at # "commit" => ~ session[x].created
  BY RecordOf DEF Create, Proper, Deciding
<1>2. \A y \in Session : session[y].created => y \in Transaction
  BY RecordOf DEF Proper, Session, Transaction
<1>3. \A y \in Session \ {x} : session[y].created => session[y].pi # session[x].pi
  BY <1>2 DEF Create, KeyFree
<1>4. current[session[x].pi] \subseteq {session[x].ended}
  BY DEF Create, UniqueFor
<1>5. session \in [Session -> Locals]
  BY DEF TypeOK
<1>6. CASE x \in Transaction
  <2>1. current' = current
    BY <1>6 DEF Create
  <2>2. /\ \A y \in Session \ {x} : session'[y] = session[y]
        /\ session'[x].pi = session[x].pi /\ session'[x].ended = session[x].ended
    BY <1>5, <1>6 DEF Create, Locals
  <2>3. PendingInv'
    BY <1>3, <1>4, <2>1, <2>2 DEF PendingInv
  <2> QED
    BY <2>1, <2>3 DEF AtMostOneCurrent
<1>7. CASE x \notin Transaction
  <2>1. session[x].ended = NoRow
    BY <1>7, RecordOf DEF Proper, Session, Transaction
  <2>2. current[session[x].pi] \subseteq {}
    BY <1>1, <1>4, <2>1 DEF TypeOK, NoRow
  <2>3. AtMostOneCurrent' /\ \A p \in Instance \ {session[x].pi} : current'[p] = current[p]
    BY <1>1, <1>7, <2>2, InsertedAlone DEF Create
  <2>4. Quiet(x)
    BY <1>1, <1>5, <1>7 DEF Create, Goto, Quiet, Locals
  <2>5. \A y \in Session : session[y].created => session[y].pi \in Instance
    BY RecordOf DEF Proper
  <2> QED
    BY <1>3, <2>3, <2>4, <2>5, PendingKept
<1> QED
  BY <1>6, <1>7

LEMMA CommitReplaces ==
  ASSUME CurrentInv, NEW x \in Transaction, Commit(x)
  PROVE  PendingInv' /\ AtMostOneCurrent'
<1> USE DEF CurrentInv
<1>1. x \in Session
  BY DEF Session, Transaction
<1>2. Quiet(x)
  BY <1>1, OnlyCreateInserts
<1>3. CASE session[x].created
  <2>1. session[x].pi \in Instance
    BY <1>1, RecordOf DEF Commit, Proper
  <2>2. current[session[x].pi] \subseteq {session[x].ended}
    BY <1>1, <1>3 DEF PendingInv
  <2>3. InsertRow(x, {session[x].ended})
    BY <1>3 DEF Commit
  <2>4. AtMostOneCurrent' /\ \A p \in Instance \ {session[x].pi} : current'[p] = current[p]
    BY <1>1, <2>1, <2>2, <2>3, InsertedAlone
  <2>5. \A y \in Session \ {x} : session[y].created => session[y].pi # session[x].pi
    BY <1>1, <1>3 DEF PendingInv
  <2>6. \A y \in Session : session[y].created => session[y].pi \in Instance
    BY RecordOf DEF Proper
  <2> QED
    BY <1>1, <1>2, <2>4, <2>5, <2>6, PendingKept
<1>4. CASE ~ session[x].created
  <2>1. current' = current
    BY <1>4 DEF Commit
  <2> QED
    BY <1>1, <1>2, <2>1, PendingKept DEF AtMostOneCurrent
<1> QED
  BY <1>3, <1>4

LEMMA CurrentStart == Init => CurrentInv
<1> SUFFICES ASSUME Init PROVE PendingInv /\ AtMostOneCurrent
  BY Start DEF CurrentInv
<1>1. PendingInv
  BY IdleFields DEF Init, PendingInv
<1>2. AtMostOneCurrent
  BY DEF Init, AtMostOneCurrent
<1> QED
  BY <1>1, <1>2

LEMMA CurrentStep == CurrentInv /\ [Next]_vars => CurrentInv'
<1> SUFFICES ASSUME CurrentInv, [Next]_vars PROVE PendingInv' /\ AtMostOneCurrent'
  BY LocalStep DEF CurrentInv
<1> USE DEF CurrentInv
<1>1. ASSUME NEW x \in Session, Quiet(x), current' = current
      PROVE  PendingInv' /\ AtMostOneCurrent'
  BY <1>1, PendingKept DEF AtMostOneCurrent
<1>2. ASSUME NEW x \in StatusChange, ChangeStatus(x) PROVE PendingInv' /\ AtMostOneCurrent'
  BY <1>1, <1>2, OnlyCreateInserts
     DEF Session, ChangeStatus, ReadProcess, UpdateStatus, data
<1>3. ASSUME NEW x \in RoutingAssign, RequestAssign(x) \/ Advance(x) \/ Record(x)
      PROVE PendingInv' /\ AtMostOneCurrent'
  BY <1>1, <1>3, OnlyCreateInserts DEF Session, RequestAssign, Advance, Record, data
<1>4. ASSUME NEW x \in Reassign, ReadAssignment(x) PROVE PendingInv' /\ AtMostOneCurrent'
  BY <1>1, <1>4, OnlyCreateInserts DEF Session, ReadAssignment, data
<1>5. ASSUME NEW x \in StatusChange \cup RoutingAssign, Route(x)
      PROVE PendingInv' /\ AtMostOneCurrent'
  BY <1>1, <1>5, OnlyCreateInserts
     DEF Session, Route, NoRule, LockRule, Choose, Skip, FindPrevious, data
<1>6. ASSUME NEW x \in Session, End(x) PROVE PendingInv' /\ AtMostOneCurrent'
  <2>1. \A p \in Instance : current'[p] \subseteq current[p]
    BY <1>6 DEF End, TypeOK
  <2>2. \A y \in Session : session[y].created => session[y].pi \in Instance
    BY RecordOf DEF Proper
  <2> QED
    BY <1>6, <2>1, <2>2, OnlyCreateInserts, PendingKept DEF AtMostOneCurrent
<1>7. ASSUME NEW x \in Session, CreateConflicts(x) \/ Fail(x)
      PROVE PendingInv' /\ AtMostOneCurrent'
  BY <1>1, <1>7, OnlyCreateInserts DEF CreateConflicts, Fail, data
<1>8. CASE Configure \/ UNCHANGED vars
  <2>1. session' = session /\ current' = current
    BY <1>8 DEF Configure, DeactivateRule, ReplaceRule, ChangeTeam, DeactivateUser,
                vars, data
  <2> QED
    BY <2>1 DEF PendingInv, AtMostOneCurrent
<1> QED
  BY <1>2, <1>3, <1>4, <1>5, <1>6, <1>7, <1>8, CreatePends, CommitReplaces
     DEF Next, Supersede

(* Never two live assignments of one instance, whichever sessions race.    *)
THEOREM OneCurrentAssignment == Spec => []AtMostOneCurrent
<1>1. Spec => []CurrentInv
  BY CurrentStart, CurrentStep, PTL DEF Spec
<1>2. CurrentInv => AtMostOneCurrent
  BY DEF CurrentInv
<1> QED
  BY <1>1, <1>2, PTL

(* With all three kinds of sessions at work, the one step that leaves a held *)
(* instance without a holder is the UPDATE of a routing-assign that had read *)
(* the current row itself and is to create another.                          *)
THEOREM OnlyManualEndsUnhold == Spec => ManualEndsUnhold
<1> DEFINE Ended(p) == \E x \in RoutingAssign :
             /\ session[x].at = "end" /\ session'[x].at = "create"
             /\ session[x].pi = p /\ current[p] = {session[x].prev}
<1>1. TypeOK /\ [Next]_vars =>
        [\A p \in Instance : current[p] # {} /\ current'[p] = {} => Ended(p)]_vars
  <2> SUFFICES ASSUME TypeOK, [Next]_vars, NEW p \in Instance, current[p] # {}
               PROVE  current'[p] # {} \/ Ended(p)
    OBVIOUS
  <2>1. ASSUME NEW x \in Session, NEW S, InsertRow(x, S) PROVE current'[p] # {}
    <3>1. \E q, n : current' = [current EXCEPT ![q] = (current[q] \ S) \cup {n}]
      BY <2>1 DEF InsertRow
    <3> QED
      BY <3>1 DEF TypeOK
  <2>2. ASSUME NEW x \in Transaction, Commit(x) PROVE current'[p] # {}
    BY <2>1, <2>2 DEF Commit, Session, Transaction
  <2>3. ASSUME NEW x \in Session, Supersede(x) \/ Fail(x) PROVE current'[p] # {} \/ Ended(p)
    <3>1. CASE End(x)
      <4>1. CASE current' = current
        BY <4>1
      <4>2. CASE /\ x \notin Transaction
                 /\ current' = [current EXCEPT ![session[x].pi] = @ \ {session[x].prev}]
        <5>1. x \in RoutingAssign /\ session[x].at = "end" /\ session'[x].at = "create"
          BY <3>1, <4>2 DEF End, Session, Transaction, TypeOK, Locals
        <5>2. CASE current'[p] = {}
          <6>1. session[x].pi = p /\ current[p] = {session[x].prev}
            BY <4>2, <5>2 DEF TypeOK
          <6> QED
            BY <5>1, <6>1
        <5> QED
          BY <5>2
      <4> QED
        BY <3>1, <4>1, <4>2 DEF End
    <3>2. CASE Create(x)
      BY <2>1, <3>2 DEF Create
    <3>3. CASE CreateConflicts(x) \/ Fail(x)
      BY <3>3 DEF CreateConflicts, Fail, data
    <3> QED
      BY <2>3, <3>1, <3>2, <3>3 DEF Supersede
  <2>4. CASE /\ current' = current
    BY <2>4
  <2>5. ASSUME NEW x \in StatusChange, ChangeStatus(x) PROVE current' = current
    BY <2>5 DEF ChangeStatus, ReadProcess, UpdateStatus, data
  <2>6. ASSUME NEW x \in RoutingAssign, RequestAssign(x) \/ Advance(x) \/ Record(x)
        PROVE  current' = current
    BY <2>6 DEF RequestAssign, Advance, Record, data
  <2>7. ASSUME NEW x \in Reassign, ReadAssignment(x) PROVE current' = current
    BY <2>7 DEF ReadAssignment, data
  <2>8. ASSUME NEW x \in StatusChange \cup RoutingAssign, Route(x) PROVE current' = current
    BY <2>8 DEF Route, NoRule, LockRule, Choose, Skip, FindPrevious, data
  <2>9. CASE Configure \/ UNCHANGED vars
    BY <2>9 DEF Configure, DeactivateRule, ReplaceRule, ChangeTeam, DeactivateUser,
                vars, data
  <2> QED
    BY <2>2, <2>3, <2>4, <2>5, <2>6, <2>7, <2>8, <2>9 DEF Next
<1> QED
  BY <1>1, TypeCorrect, PTL DEF Spec, ManualEndsUnhold

-----------------------------------------------------------------------------
(* What the transactions of status changes and reassignments add when no   *)
(* one calls routing-assign.                                               *)

LEMMA OnlyTransactions ==
  ASSUME RoutingAssign = {}
  PROVE  Session = Transaction
  BY DEF Session, Transaction

(* The rule a status change works on is locked by it from lockRule to the  *)
(* end of its transaction, and stays as it was read.                       *)
Working == Routed \ {"commit"}

LockInv ==
  \A x \in StatusChange :
    LET t == session[x]
    IN  /\ t.at \in Working =>
             /\ ruleLock[t.to] = x
             /\ rule[t.to].active /\ rule[t.to].cursor = t.cursor /\ rule[t.to].team = t.team
        /\ t.at = "commit" /\ t.advances => ruleLock[t.to] = x
        /\ t.at \in {"update", "rule"} => ~ t.advances

FreshInv == TypeOK /\ LocalInv /\ LockInv

LEMMA HeldRules ==
  ASSUME FreshInv, NEW x \in StatusChange, session[x].at # "idle"
  PROVE  x # NoSession /\ x \in Session /\ session[x].to \in Status
  BY NullAssumption, SessionAssumption, RecordOf DEF FreshInv, Proper, Session

(* A step of x leaves alone the rules that others hold.                    *)
Spares(x) ==
  /\ \A y \in Session \ {x} : session'[y] = session[y]
  /\ \A s \in Status : ruleLock[s] # NoSession /\ ruleLock[s] # x =>
       ruleLock'[s] = ruleLock[s] /\ rule'[s] = rule[s]

LEMMA LocksOfOthers ==
  ASSUME FreshInv, NEW x \in Session, Spares(x), NEW t, session'[x] = t,
         x \in StatusChange =>
           /\ t.at \in Working =>
                /\ ruleLock'[t.to] = x
                /\ rule'[t.to].active
                /\ rule'[t.to].cursor = t.cursor
                /\ rule'[t.to].team = t.team
           /\ t.at = "commit" /\ t.advances => ruleLock'[t.to] = x
           /\ t.at \in {"update", "rule"} => ~ t.advances
  PROVE  LockInv'
<1>1. ASSUME NEW y \in StatusChange, y # x, session[y].at # "idle",
             ruleLock[session[y].to] = y
      PROVE  /\ ruleLock'[session[y].to] = y
             /\ rule'[session[y].to] = rule[session[y].to]
  BY <1>1, HeldRules DEF Spares
<1>2. ASSUME NEW y \in StatusChange, y # x PROVE session'[y] = session[y]
  BY <1>2 DEF Spares, Session
<1> QED
  BY <1>1, <1>2 DEF LockInv, FreshInv, Working, Routed

LEMMA Spared ==
  ASSUME FreshInv, NEW x \in Session, NEW t, session' = [session EXCEPT ![x] = t],
         ruleLock' = ReleasedBy(x) \/ ruleLock' = ruleLock,
         \A s \in Status : ruleLock[s] # x => rule'[s] = rule[s] \/ ruleLock[s] = NoSession
  PROVE  Spares(x) /\ session'[x] = t
  BY DEF Spares, ReleasedBy, FreshInv, TypeOK

LEMMA LockStep ==
  ASSUME FreshInv, NEW x \in StatusChange, ChangeStatus(x) \/ Route(x)
  PROVE  LockInv'
<1>1. x \in Session /\ x \in Transaction /\ session[x] \in Locals
  BY RecordOf DEF Session, Transaction, FreshInv
<1>2. rule' = rule
  BY DEF ChangeStatus, ReadProcess, UpdateStatus, Route, NoRule, LockRule, Choose, Skip,
         FindPrevious, config
<1>3. ASSUME NEW t, session' = [session EXCEPT ![x] = t], ruleLock' = ruleLock,
             t.at \in Working => session[x].at \in Working,
             \/ t.at \notin Working \cup {"commit"}
             \/ /\ t.to = session[x].to /\ t.cursor = session[x].cursor
                /\ t.team = session[x].team,
             t.at = "commit" /\ t.advances => session[x].at \in Working,
             t.at \in {"update", "rule"} => ~ t.advances
      PROVE  LockInv'
  <2>1. Spares(x) /\ session'[x] = t
    BY <1>1, <1>2, <1>3, Spared
  <2>2. session[x].at \in Working =>
          /\ ruleLock[session[x].to] = x
          /\ rule[session[x].to].active
          /\ rule[session[x].to].cursor = session[x].cursor
          /\ rule[session[x].to].team = session[x].team
    BY DEF FreshInv, LockInv
  <2> QED
    BY <1>1, <1>2, <1>3, <2>1, <2>2, LocksOfOthers
<1>4. CASE ReadProcess(x)
  <2>1. PICK q \in Instance, s \in Status :
          session' = [session EXCEPT ![x] =
            [Idle EXCEPT !.at = "update", !.pi = q, !.to = s]]
    BY <1>4 DEF ReadProcess
  <2> DEFINE t == [Idle EXCEPT !.at = "update", !.pi = q, !.to = s]
  <2>2. t.at = "update" /\ ~ t.advances
    BY DEF Idle
  <2> HIDE DEF t
  <2> QED
    BY <1>3, <1>4, <2>1, <2>2 DEF ReadProcess, Working, Routed, t
<1>5. CASE UpdateStatus(x)
  <2> DEFINE t == [session[x] EXCEPT !.at = "rule"]
  <2>1. t.at = "rule" /\ ~ t.advances
    BY <1>1, <1>5 DEF UpdateStatus, FreshInv, LockInv, Locals
  <2>2. session' = [session EXCEPT ![x] = t] /\ ruleLock' = ruleLock
    BY <1>5 DEF UpdateStatus, Goto
  <2> HIDE DEF t
  <2> QED
    BY <1>3, <2>1, <2>2 DEF Working, Routed
<1>6. CASE NoRule(x) \/ Skip(x)
  <2> DEFINE t == [session[x] EXCEPT !.at = "commit"]
  <2>1. /\ t.at = "commit" /\ t.to = session[x].to /\ t.advances = session[x].advances
        /\ t.cursor = session[x].cursor /\ t.team = session[x].team
    BY <1>1 DEF Locals
  <2>2. session' = [session EXCEPT ![x] = t] /\ ruleLock' = ruleLock
    BY <1>6 DEF NoRule, Skip, Leave, Goto
  <2>3. session[x].at \in Working \/ ~ session[x].advances
    BY <1>6 DEF NoRule, Skip, FreshInv, LockInv, Working, Routed
  <2> HIDE DEF t
  <2> QED
    BY <1>3, <2>1, <2>2, <2>3 DEF Working
<1>7. CASE LockRule(x)
  <2> DEFINE s == session[x].to
             t == [session[x] EXCEPT !.at = "choose", !.cursor = rule[s].cursor,
                                     !.team = rule[s].team]
  <2>1. /\ t.at = "choose" /\ t.to = s /\ t.cursor = rule[s].cursor /\ t.team = rule[s].team
    BY <1>1 DEF Locals
  <2>2. session' = [session EXCEPT ![x] = t] /\ ruleLock' = [ruleLock EXCEPT ![s] = x]
        /\ ruleLock[s] = NoSession /\ rule[s].active /\ session[x].at = "rule"
    BY <1>1, <1>7 DEF LockRule, Unlocked
  <2> HIDE DEF t
  <2>3. s \in Status
    BY <2>2, HeldRules
  <2>4. Spares(x) /\ session'[x] = t /\ ruleLock'[s] = x
    BY <1>1, <1>2, <2>2, <2>3 DEF Spares, FreshInv, TypeOK
  <2> QED
    BY <1>1, <1>2, <2>1, <2>2, <2>4, LocksOfOthers
<1>8. CASE Choose(x)
  <2> DEFINE u == IF session[x].override THEN session[x].user ELSE Pick(x)
             t == [session[x] EXCEPT !.at = "previous", !.user = u]
  <2>1. session' = [session EXCEPT ![x] = t] /\ ruleLock' = ruleLock
        /\ session[x].at = "choose"
    BY <1>8 DEF Choose
  <2> HIDE DEF u
  <2>2. /\ t.at = "previous" /\ t.to = session[x].to /\ t.cursor = session[x].cursor
        /\ t.team = session[x].team
    BY <1>1 DEF Locals
  <2> HIDE DEF t
  <2> QED
    BY <1>3, <2>1, <2>2 DEF Working, Routed
<1>9. CASE FindPrevious(x)
  <2>1. session[x].at = "previous" /\ ruleLock' = ruleLock
    BY <1>9 DEF FindPrevious
  <2>2. CASE Goto(x, "create")
    <3> DEFINE t == [session[x] EXCEPT !.at = "create"]
    <3>1. t.at = "create" /\ t.to = session[x].to /\ t.cursor = session[x].cursor
          /\ t.team = session[x].team
      BY <1>1 DEF Locals
    <3>2. session' = [session EXCEPT ![x] = t]
      BY <2>2 DEF Goto
    <3> HIDE DEF t
    <3> QED
      BY <1>3, <2>1, <3>1, <3>2 DEF Working, Routed
  <2>3. CASE \E r \in current[session[x].pi], a \in {"commit", "end"}, b \in BOOLEAN :
               session' = [session EXCEPT ![x].prev = r, ![x].at = a, ![x].advances = b]
    <3>1. PICK r \in current[session[x].pi], a \in {"commit", "end"}, b \in BOOLEAN :
            session' = [session EXCEPT ![x].prev = r, ![x].at = a, ![x].advances = b]
      BY <2>3
    <3> DEFINE t == [session[x] EXCEPT !.prev = r, !.at = a, !.advances = b]
    <3>2. t.at = a /\ t.to = session[x].to /\ t.cursor = session[x].cursor
          /\ t.team = session[x].team
      BY <1>1 DEF Locals
    <3>3. session' = [session EXCEPT ![x] = t]
      BY <3>1
    <3> HIDE DEF t
    <3> QED
      BY <1>3, <2>1, <3>2, <3>3 DEF Working, Routed
  <2> QED
    BY <1>1, <1>9, <2>2, <2>3 DEF FindPrevious
<1> QED
  BY <1>4, <1>5, <1>6, <1>7, <1>8, <1>9 DEF ChangeStatus, Route

LEMMA LockEnds ==
  ASSUME FreshInv, NEW x \in Transaction,
         End(x) \/ Create(x) \/ CreateConflicts(x) \/ Commit(x) \/ Fail(x)
  PROVE  LockInv'
<1>1. x \in Session /\ session[x] \in Locals
  BY RecordOf DEF Session, Transaction, FreshInv
<1>2. ASSUME x \in StatusChange, session[x].at \in Working
      PROVE  /\ ruleLock[session[x].to] = x
             /\ rule[session[x].to].active
             /\ rule[session[x].to].cursor = session[x].cursor
             /\ rule[session[x].to].team = session[x].team
  BY <1>2 DEF FreshInv, LockInv
<1>3. ASSUME x \in StatusChange, session[x].at = "commit", session[x].advances
      PROVE  ruleLock[session[x].to] = x
  BY <1>3 DEF FreshInv, LockInv
<1>4. CASE End(x)
  <2> DEFINE t == [session[x] EXCEPT !.at = "create", !.ended = session[x].prev]
  <2>1. /\ session' = [session EXCEPT ![x] = t] /\ ruleLock' = ruleLock /\ rule' = rule
        /\ session[x].at = "end"
    BY <1>4 DEF End, config
  <2>2. t.at = "create" /\ t.to = session[x].to /\ t.cursor = session[x].cursor
        /\ t.team = session[x].team
    BY <1>1 DEF Locals
  <2> HIDE DEF t
  <2>3. Spares(x) /\ session'[x] = t
    BY <1>1, <2>1, Spared
  <2>4. session[x].at \in Working /\ t.at \in Working
    BY <2>1, <2>2 DEF Working, Routed
  <2>5. t.at # "commit" /\ t.at \notin {"update", "rule"}
    BY <2>2
  <2> QED
    BY <1>1, <1>2, <2>1, <2>2, <2>3, <2>4, <2>5, LocksOfOthers
<1>5. CASE Create(x)
  <2> DEFINE a == x \in StatusChange
             t == [session[x] EXCEPT !.at = "commit", !.created = TRUE, !.advances = a]
  <2>1. /\ session' = [session EXCEPT ![x] = t] /\ ruleLock' = ruleLock /\ rule' = rule
        /\ session[x].at = "create"
    BY <1>5 DEF Create, config
  <2>2. t.at = "commit" /\ t.to = session[x].to
    BY <1>1 DEF Locals
  <2> HIDE DEF t, a
  <2>3. Spares(x) /\ session'[x] = t
    BY <1>1, <2>1, Spared
  <2>4. session[x].at \in Working /\ t.at \notin Working
    BY <2>1, <2>2 DEF Working, Routed
  <2>5. t.at \notin {"update", "rule"}
    BY <2>2
  <2> QED
    BY <1>1, <1>2, <2>1, <2>2, <2>3, <2>4, <2>5, LocksOfOthers
<1>6. Idle.at = "idle"
  BY DEF Idle
<1>7. CASE CreateConflicts(x) \/ Fail(x)
  <2>1. session' = [session EXCEPT ![x] = Idle] /\ ruleLock' = ReleasedBy(x) /\ rule' = rule
    BY <1>7 DEF CreateConflicts, Fail, config
  <2>2. Spares(x) /\ session'[x] = Idle
    BY <1>1, <2>1, Spared
  <2> QED
    BY <1>1, <1>6, <2>2, LocksOfOthers DEF Working, Routed
<1>8. CASE Commit(x)
  <2>1. session' = [session EXCEPT ![x] = Idle] /\ ruleLock' = ReleasedBy(x)
        /\ session[x].at = "commit"
    BY <1>8 DEF Commit
  <2>2. ASSUME NEW s \in Status, ruleLock[s] # x PROVE rule'[s] = rule[s]
    <3>1. CASE session[x].advances
      <4>1. x \in StatusChange
        BY <1>1, <3>1, RecordOf DEF Proper, Transaction, FreshInv
      <4>2. ruleLock[session[x].to] = x
        BY <1>3, <2>1, <3>1, <4>1
      <4> QED
        BY <1>8, <2>2, <3>1, <4>2 DEF Commit, AdvanceCursor, FreshInv, TypeOK
    <3>2. CASE ~ session[x].advances
      BY <1>8, <3>2 DEF Commit
    <3> QED
      BY <3>1, <3>2
  <2>3. Spares(x) /\ session'[x] = Idle
    BY <1>1, <2>1, <2>2, Spared
  <2> QED
    BY <1>1, <1>6, <2>3, LocksOfOthers DEF Working, Routed
<1> QED
  BY <1>4, <1>5, <1>7, <1>8

LEMMA LockConfigured ==
  ASSUME FreshInv, Configure \/ UNCHANGED vars
  PROVE  LockInv'
<1>1. session' = session /\ ruleLock' = ruleLock
  BY DEF Configure, DeactivateRule, ReplaceRule, ChangeTeam, DeactivateUser, vars
<1>2. ASSUME NEW s \in Status, ruleLock[s] # NoSession PROVE rule'[s] = rule[s]
  BY <1>2 DEF Configure, DeactivateRule, ReplaceRule, ChangeTeam, DeactivateUser,
              Unlocked, vars, config, FreshInv, TypeOK
<1>3. ASSUME NEW x \in StatusChange, session[x].at # "idle", ruleLock[session[x].to] = x
      PROVE  rule'[session[x].to] = rule[session[x].to]
  BY <1>2, <1>3, HeldRules
<1> QED
  BY <1>1, <1>3 DEF LockInv, FreshInv, Working, Routed

LEMMA FreshStart == Init => FreshInv
<1> SUFFICES ASSUME Init PROVE LockInv
  BY Start DEF FreshInv
<1>1. \A x \in StatusChange : session[x].at = "idle"
  BY DEF Init, Idle, Session
<1> QED
  BY <1>1 DEF LockInv, Working, Routed

LEMMA FreshStep ==
  ASSUME RoutingAssign = {}
  PROVE  FreshInv /\ [Next]_vars => FreshInv'
<1> SUFFICES ASSUME FreshInv, [Next]_vars PROVE LockInv'
  BY LocalStep DEF FreshInv
<1>1. ASSUME NEW x \in Reassign, ReadAssignment(x) PROVE LockInv'
  <2>1. \E t : session' = [session EXCEPT ![x] = t] /\ ruleLock' = ruleLock /\ rule' = rule
    <3>1. PICK q \in Instance, u \in active : \E r \in current[q] :
            session' = [session EXCEPT ![x] =
              [Idle EXCEPT !.at = "end", !.pi = q, !.user = u, !.prev = r]]
      BY <1>1 DEF ReadAssignment
    <3> QED
      BY <1>1, <3>1 DEF ReadAssignment, config
  <2>2. PICK t : session' = [session EXCEPT ![x] = t] /\ ruleLock' = ruleLock /\ rule' = rule
    BY <2>1
  <2>3. x \in Session /\ x \notin StatusChange
    BY SessionAssumption DEF Session
  <2>4. Spares(x) /\ session'[x] = t
    BY <2>2, <2>3, Spared
  <2> QED
    BY <2>3, <2>4, LocksOfOthers
<1>2. ASSUME NEW x \in Session, Supersede(x) \/ Fail(x) PROVE LockInv'
  BY <1>2, OnlyTransactions, LockEnds DEF Supersede
<1>3. CASE Configure \/ UNCHANGED vars
  BY <1>3, LockConfigured
<1> QED
  BY <1>1, <1>2, <1>3, LockStep, LockEnds DEF Next

(* A status change picks from the rule as it is, and its pick becomes the  *)
(* cursor before anyone else reads it.                                     *)
THEOREM TransactionsPickFresh ==
  ASSUME RoutingAssign = {} PROVE Spec => []CursorIsFresh
<1>1. Spec => []FreshInv
  BY FreshStart, FreshStep, PTL DEF Spec
<1>2. FreshInv => CursorIsFresh
  BY DEF FreshInv, LockInv, CursorIsFresh, Working
<1> QED
  BY <1>1, <1>2, PTL

(* The rows of an instance and its activities tell the same history, and   *)
(* the current row is the last one.                                        *)
Told(rows, live, told) ==
  /\ live = IF rows = <<>> THEN {} ELSE {Len(rows)}
  /\ Len(told) = Len(rows)
  /\ \A i \in 1..Len(rows) : told[i].new = rows[i]
  /\ \A i \in 2..Len(rows) : told[i].old = rows[i - 1]

HistoryInv == \A p \in Instance : Told(assigned[p], current[p], handovers[p])

LEMMA ToldOnceMore ==
  ASSUME NEW rows \in Seq(User), NEW live, NEW told \in Seq(Handover), Told(rows, live, told),
         NEW u \in User, NEW h \in Handover, h.new = u, rows # <<>> => h.old = rows[Len(rows)]
  PROVE  Told(Append(rows, u), {Len(rows) + 1}, Append(told, h))
<1> DEFINE n == Len(rows)
           rows1 == Append(rows, u)
           told1 == Append(told, h)
<1>1. n \in Nat /\ Len(told) = n
  BY DEF Told
<1>2. /\ Len(rows1) = n + 1 /\ rows1[n + 1] = u /\ \A i \in 1..n : rows1[i] = rows[i]
  BY <1>1
<1>3. /\ Len(told1) = n + 1 /\ told1[n + 1] = h /\ \A i \in 1..n : told1[i] = told[i]
  BY <1>1
<1> HIDE DEF rows1, told1
<1>4. rows1 # <<>>
  <2>1. Len(<<>>) = 0
    OBVIOUS
  <2>2. Len(rows1) # 0
    BY <1>1, <1>2
  <2> QED
    BY <2>1, <2>2
<1>5. n # 0 => rows # <<>>
  BY <1>1
<1>6. \A i \in 1..n : told[i].new = rows[i]
  BY DEF Told
<1>7. \A i \in 2..n : told[i].old = rows[i - 1]
  BY DEF Told
<1>8. \A i \in 1..(n + 1) : told1[i].new = rows1[i]
  BY <1>1, <1>2, <1>3, <1>6
<1>9. ASSUME NEW i \in 2..(n + 1) PROVE told1[i].old = rows1[i - 1]
  <2>1. CASE i = n + 1
    BY <1>1, <1>2, <1>3, <1>5, <2>1
  <2>2. CASE i # n + 1
    BY <1>1, <1>2, <1>3, <1>7, <2>2
  <2> QED
    BY <2>1, <2>2
<1>10. Told(rows1, {n + 1}, told1)
  BY <1>2, <1>3, <1>4, <1>8, <1>9 DEF Told
<1> QED
  BY <1>10 DEF rows1, told1

(* A transaction ends the row it found current, or found none.             *)
Paired(t) ==
  /\ t.at \in {"update", "rule", "choose", "previous"} => t.ended = NoRow /\ t.prev = NoRow
  /\ t.at = "create" \/ t.created => t.ended = t.prev

PairedInv == \A x \in Session : Paired(session[x])

LEMMA PairedStep ==
  ASSUME RoutingAssign = {}, TypeOK, LocalInv, PairedInv, NEW x \in Session,
         \/ ChangeStatus(x) \/ ReadAssignment(x) \/ Route(x)
         \/ Supersede(x) \/ Commit(x) \/ Fail(x)
  PROVE  PairedInv'
<1>1. session \in [Session -> Locals] /\ session[x] \in Locals /\ x \in Transaction
  BY OnlyTransactions DEF TypeOK
<1>2. session[x].at # "commit" => ~ session[x].created
  BY RecordOf DEF Proper
<1>3. Paired(session[x])
  BY DEF PairedInv
<1>4. ASSUME NEW t, session' = [session EXCEPT ![x] = t], Paired(t) PROVE PairedInv'
  <2>1. ASSUME NEW y \in Session PROVE session'[y] = IF y = x THEN t ELSE session[y]
    BY <1>1, <1>4
  <2> QED
    BY <1>4, <2>1 DEF PairedInv
<1>5. CASE session' = [session EXCEPT ![x] = Idle]
  BY <1>4, <1>5 DEF Paired, Idle
<1>6. CASE ReadProcess(x)
  <2>1. PICK q \in Instance, s \in Status :
          session' = [session EXCEPT ![x] =
            [Idle EXCEPT !.at = "update", !.pi = q, !.to = s]]
    BY <1>6 DEF ReadProcess
  <2>2. Paired([Idle EXCEPT !.at = "update", !.pi = q, !.to = s])
    BY DEF Paired, Idle
  <2> QED
    BY <1>4, <2>1, <2>2
<1>7. CASE ReadAssignment(x)
  <2>1. PICK q \in Instance, u \in active : \E r \in current[q] :
          session' = [session EXCEPT ![x] =
            [Idle EXCEPT !.at = "end", !.pi = q, !.user = u, !.prev = r]]
    BY <1>7 DEF ReadAssignment
  <2>2. PICK r \in current[q] :
          session' = [session EXCEPT ![x] =
            [Idle EXCEPT !.at = "end", !.pi = q, !.user = u, !.prev = r]]
    BY <2>1
  <2>3. Paired([Idle EXCEPT !.at = "end", !.pi = q, !.user = u, !.prev = r])
    BY DEF Paired, Idle
  <2> QED
    BY <1>4, <2>2, <2>3
<1>8. ASSUME session[x].at \in {"update", "rule", "choose", "previous"},
             NEW t, session' = [session EXCEPT ![x] = t],
             t.prev = session[x].prev, t.ended = session[x].ended
      PROVE  PairedInv'
  <2>1. Paired(t)
    BY <1>3, <1>8 DEF Paired
  <2> QED
    BY <1>4, <1>8, <2>1
<1>9. ASSUME session[x].at \in {"update", "rule", "choose", "previous"},
             NEW where, Goto(x, where)
      PROVE  PairedInv'
  <2> DEFINE t == [session[x] EXCEPT !.at = where]
  <2>1. t.prev = session[x].prev /\ t.ended = session[x].ended
    BY <1>1 DEF Locals
  <2>2. session' = [session EXCEPT ![x] = t]
    BY <1>9 DEF Goto
  <2> HIDE DEF t
  <2> QED
    BY <1>8, <1>9, <2>1, <2>2
<1>10. CASE UpdateStatus(x) \/ NoRule(x) \/ Skip(x)
  BY <1>5, <1>9, <1>10 DEF UpdateStatus, NoRule, Skip, Leave
<1>11. CASE LockRule(x)
  <2> DEFINE s == session[x].to
             t == [session[x] EXCEPT !.at = "choose", !.cursor = rule[s].cursor,
                                     !.team = rule[s].team]
  <2>1. t.prev = session[x].prev /\ t.ended = session[x].ended
    BY <1>1 DEF Locals
  <2>2. session' = [session EXCEPT ![x] = t] /\ session[x].at = "rule"
    BY <1>11 DEF LockRule
  <2> HIDE DEF t
  <2> QED
    BY <1>8, <2>1, <2>2
<1>12. CASE Choose(x)
  <2> DEFINE u == IF session[x].override THEN session[x].user ELSE Pick(x)
             t == [session[x] EXCEPT !.at = "previous", !.user = u]
  <2>1. session' = [session EXCEPT ![x] = t] /\ session[x].at = "choose"
    BY <1>12 DEF Choose
  <2> HIDE DEF u
  <2>2. t.prev = session[x].prev /\ t.ended = session[x].ended
    BY <1>1 DEF Locals
  <2> HIDE DEF t
  <2> QED
    BY <1>8, <2>1, <2>2
<1>13. CASE FindPrevious(x)
  <2>1. session[x].at = "previous" /\ ~ session[x].created
    BY <1>2, <1>13 DEF FindPrevious
  <2>2. CASE Goto(x, "create")
    BY <1>9, <2>1, <2>2
  <2>3. CASE \E r \in current[session[x].pi], a \in {"commit", "end"}, b \in BOOLEAN :
               session' = [session EXCEPT ![x].prev = r, ![x].at = a, ![x].advances = b]
    <3>1. PICK r \in current[session[x].pi], a \in {"commit", "end"}, b \in BOOLEAN :
            session' = [session EXCEPT ![x].prev = r, ![x].at = a, ![x].advances = b]
      BY <2>3
    <3> DEFINE t == [session[x] EXCEPT !.prev = r, !.at = a, !.advances = b]
    <3>2. t.at \in {"commit", "end"} /\ ~ t.created
      BY <1>1, <2>1 DEF Locals
    <3>3. session' = [session EXCEPT ![x] = t]
      BY <3>1
    <3> HIDE DEF t
    <3>4. Paired(t)
      BY <3>2 DEF Paired
    <3> QED
      BY <1>4, <3>3, <3>4
  <2> QED
    BY <1>1, <1>13, <2>2, <2>3 DEF FindPrevious
<1>14. CASE End(x)
  <2> DEFINE t == [session[x] EXCEPT !.at = "create", !.ended = session[x].prev]
  <2>1. session' = [session EXCEPT ![x] = t]
    BY <1>1, <1>14 DEF End
  <2>2. t.at = "create" /\ t.ended = t.prev
    BY <1>1 DEF Locals
  <2> HIDE DEF t
  <2> QED
    BY <1>4, <2>1, <2>2 DEF Paired
<1>15. CASE Create(x)
  <2> DEFINE a == x \in StatusChange
             t == [session[x] EXCEPT !.at = "commit", !.created = TRUE, !.advances = a]
  <2>1. session' = [session EXCEPT ![x] = t] /\ session[x].at = "create"
    BY <1>1, <1>15 DEF Create
  <2>2. t.at = "commit" /\ t.ended = session[x].ended /\ t.prev = session[x].prev
    BY <1>1 DEF Locals
  <2> HIDE DEF t, a
  <2> QED
    BY <1>3, <1>4, <2>1, <2>2 DEF Paired
<1>16. CASE CreateConflicts(x) \/ Fail(x) \/ Commit(x)
  BY <1>5, <1>16 DEF CreateConflicts, Fail, Commit
<1> QED
  BY <1>6, <1>7, <1>10, <1>11, <1>12, <1>13, <1>14, <1>15, <1>16
     DEF ChangeStatus, Route, Supersede

ChainInv == CurrentInv /\ PairedInv /\ HistoryInv

LEMMA Chained ==
  ASSUME RoutingAssign = {}, ChainInv, NEW x \in Transaction, Commit(x), session[x].created
  PROVE  HistoryInv'
<1> DEFINE p == session[x].pi
           u == session[x].user
           n == Len(assigned[p])
           old == IF session[x].prev = NoRow THEN NoUser ELSE assigned[p][session[x].prev]
           h == [old |-> old, new |-> u]
<1>1. x \in Session /\ TypeOK /\ LocalInv /\ PendingInv
  BY DEF Session, Transaction, ChainInv, CurrentInv
<1>2. p \in Instance /\ u \in User /\ session[x].prev \in Nat /\ session[x].prev <= n
  BY <1>1, RecordOf DEF Commit, Proper, Locals
<1>3. current[p] \subseteq {session[x].prev} /\ session[x].ended = session[x].prev
  BY <1>1 DEF ChainInv, PairedInv, Paired, PendingInv
<1>4. /\ assigned[p] \in Seq(User) /\ handovers[p] \in Seq(Handover) /\ n \in Nat
      /\ Told(assigned[p], current[p], handovers[p])
  BY <1>1, <1>2 DEF ChainInv, HistoryInv, TypeOK
<1>5. assigned[p] # <<>> => session[x].prev = n /\ n # 0
  BY <1>3, <1>4 DEF Told
<1>6. /\ assigned' = [assigned EXCEPT ![p] = Append(assigned[p], u)]
      /\ current' = [current EXCEPT ![p] = (current[p] \ {session[x].ended}) \cup {n + 1}]
      /\ handovers' = [handovers EXCEPT ![p] = Append(handovers[p], h)]
  BY DEF Commit, InsertRow, Recorded
<1>7. /\ assigned'[p] = Append(assigned[p], u) /\ handovers'[p] = Append(handovers[p], h)
      /\ current'[p] = {n + 1}
  BY <1>1, <1>2, <1>3, <1>6 DEF TypeOK
<1>8. \A q \in Instance \ {p} : assigned'[q] = assigned[q] /\ handovers'[q] = handovers[q]
                               /\ current'[q] = current[q]
  BY <1>1, <1>6 DEF TypeOK
<1>9. assigned[p] # <<>> => h.old = assigned[p][n]
  BY <1>5 DEF NoRow
<1>10. h \in Handover /\ h.new = u
  <2>1. old \in User \cup {NoUser}
    BY <1>2, <1>4 DEF NoRow
  <2> HIDE DEF old
  <2> QED
    BY <1>2, <2>1 DEF Handover
<1> HIDE DEF h, old
<1>11. Told(Append(assigned[p], u), {n + 1}, Append(handovers[p], h))
  BY <1>2, <1>4, <1>9, <1>10, ToldOnceMore
<1>12. ASSUME NEW q \in Instance PROVE Told(assigned'[q], current'[q], handovers'[q])
  <2>1. CASE q = p
    BY <1>7, <1>11, <2>1
  <2>2. CASE q # p
    BY <1>8, <2>2 DEF ChainInv, HistoryInv
  <2> QED
    BY <2>1, <2>2
<1> QED
  BY <1>12 DEF HistoryInv

LEMMA ChainStart == Init => ChainInv
<1> SUFFICES ASSUME Init PROVE PairedInv /\ HistoryInv
  BY CurrentStart DEF ChainInv
<1>1. PairedInv
  BY DEF Init, PairedInv, Paired, Idle
<1>2. ASSUME NEW p \in Instance PROVE Told(assigned[p], current[p], handovers[p])
  <2>1. CASE FirstHolder[p] = NoUser
    <3>1. assigned[p] = <<>> /\ handovers[p] = <<>> /\ current[p] = DOMAIN <<>>
      BY <2>1 DEF Init
    <3> QED
      BY <3>1 DEF Told
  <2>2. CASE FirstHolder[p] # NoUser
    <3> DEFINE h == [old |-> NoUser, new |-> FirstHolder[p]]
    <3>1. assigned[p] = <<FirstHolder[p]>> /\ handovers[p] = <<h>>
          /\ current[p] = DOMAIN <<FirstHolder[p]>>
      BY <2>2 DEF Init
    <3>2. h.new = FirstHolder[p]
      OBVIOUS
    <3> HIDE DEF h
    <3>3. Len(<<FirstHolder[p]>>) = 1 /\ DOMAIN <<FirstHolder[p]>> = {1} /\ Len(<<h>>) = 1
          /\ <<FirstHolder[p]>> # <<>>
      OBVIOUS
    <3> QED
      BY <3>1, <3>2, <3>3 DEF Told
  <2> QED
    BY <2>1, <2>2
<1> QED
  BY <1>1, <1>2 DEF HistoryInv

LEMMA ChainStep ==
  ASSUME RoutingAssign = {}
  PROVE  ChainInv /\ [Next]_vars => ChainInv'
<1> SUFFICES ASSUME ChainInv, [Next]_vars PROVE PairedInv' /\ HistoryInv'
  BY CurrentStep DEF ChainInv
<1>1. TypeOK /\ LocalInv /\ PairedInv /\ HistoryInv
  BY DEF ChainInv, CurrentInv
<1>2. ASSUME UNCHANGED <<assigned, current, handovers>> PROVE HistoryInv'
  BY <1>1, <1>2 DEF HistoryInv
<1>3. ASSUME NEW x \in StatusChange, ChangeStatus(x) PROVE PairedInv' /\ HistoryInv'
  BY <1>1, <1>2, <1>3, PairedStep
     DEF Session, ChangeStatus, ReadProcess, UpdateStatus, data
<1>4. ASSUME NEW x \in Reassign, ReadAssignment(x) PROVE PairedInv' /\ HistoryInv'
  BY <1>1, <1>2, <1>4, PairedStep DEF Session, ReadAssignment, data
<1>5. ASSUME NEW x \in StatusChange \cup RoutingAssign, Route(x)
      PROVE PairedInv' /\ HistoryInv'
  BY <1>1, <1>2, <1>5, PairedStep
     DEF Session, Route, NoRule, LockRule, Choose, Skip, FindPrevious, data
<1>6. ASSUME NEW x \in Session, Supersede(x) \/ Fail(x) PROVE PairedInv' /\ HistoryInv'
  <2>1. UNCHANGED <<assigned, current, handovers>>
    BY <1>6, OnlyTransactions DEF Supersede, End, Create, CreateConflicts, Fail, data
  <2> QED
    BY <1>1, <1>2, <1>6, <2>1, PairedStep
<1>7. ASSUME NEW x \in Transaction, Commit(x) PROVE PairedInv' /\ HistoryInv'
  <2>1. CASE session[x].created
    BY <1>1, <1>7, <2>1, Chained, PairedStep DEF Session, Transaction
  <2>2. CASE ~ session[x].created
    <3>1. UNCHANGED <<assigned, current, handovers>>
      BY <1>7, <2>2 DEF Commit
    <3> QED
      BY <1>1, <1>2, <1>7, <3>1, PairedStep DEF Session, Transaction
  <2> QED
    BY <2>1, <2>2
<1>8. CASE Configure \/ UNCHANGED vars
  <2>1. session' = session /\ UNCHANGED <<assigned, current, handovers>>
    BY <1>8 DEF Configure, DeactivateRule, ReplaceRule, ChangeTeam, DeactivateUser,
                vars, data
  <2> QED
    BY <1>1, <1>2, <2>1 DEF PairedInv
<1> QED
  BY <1>3, <1>4, <1>5, <1>6, <1>7, <1>8 DEF Next

(* The activities are the exact history of who held the instance.          *)
THEOREM TransactionsTellTheHistory ==
  ASSUME RoutingAssign = {} PROVE Spec => []HandoversChain
<1>1. Spec => []ChainInv
  BY ChainStart, ChainStep, PTL DEF Spec
<1>2. ChainInv => HandoversChain
  <2> SUFFICES ASSUME ChainInv, NEW p \in Instance
               PROVE  /\ \A i \in 2..Len(handovers[p]) :
                           handovers[p][i].old = handovers[p][i - 1].new
                      /\ handovers[p] # <<>> =>
                           \E r \in current[p] :
                             assigned[p][r] = handovers[p][Len(handovers[p])].new
    BY DEF HandoversChain
  <2> DEFINE n == Len(assigned[p])
  <2>1. /\ assigned[p] \in Seq(User) /\ handovers[p] \in Seq(Handover)
        /\ Told(assigned[p], current[p], handovers[p])
    BY DEF ChainInv, CurrentInv, HistoryInv, TypeOK
  <2>2. /\ n \in Nat /\ Len(handovers[p]) = n
        /\ current[p] = IF assigned[p] = <<>> THEN {} ELSE {n}
    BY <2>1 DEF Told
  <2>3. \A i \in 1..n : handovers[p][i].new = assigned[p][i]
    BY <2>1 DEF Told
  <2>4. \A i \in 2..n : handovers[p][i].old = assigned[p][i - 1]
    BY <2>1 DEF Told
  <2>5. \A i \in 2..n : handovers[p][i].old = handovers[p][i - 1].new
    BY <2>2, <2>3, <2>4
  <2>6. handovers[p] # <<>> => n # 0 /\ assigned[p] # <<>>
    BY <2>1, <2>2
  <2>7. handovers[p] # <<>> =>
          \E r \in current[p] : assigned[p][r] = handovers[p][Len(handovers[p])].new
    BY <2>2, <2>3, <2>6
  <2> QED
    BY <2>2, <2>5, <2>7
<1> QED
  BY <1>1, <1>2, PTL
-----------------------------------------------------------------------------
(* AssignmentCustody.                                                      *)

Last(rows) == IF rows = <<>> THEN NoUser ELSE rows[Len(rows)]

LEMMA HolderIsLast ==
  ASSUME NEW rows, NEW live, NEW told, Told(rows, live, told)
  PROVE  (IF live = {} THEN NoUser ELSE rows[CHOOSE r \in live : TRUE]) = Last(rows)
<1>1. CASE rows = <<>>
  BY <1>1 DEF Told, Last
<1>2. CASE rows # <<>>
  <2>1. live = {Len(rows)}
    BY <1>2 DEF Told
  <2>2. (CHOOSE r \in live : TRUE) = Len(rows)
    BY <2>1
  <2> QED
    BY <1>2, <2>1, <2>2 DEF Last
<1> QED
  BY <1>1, <1>2

LEMMA HolderNow ==
  ASSUME ChainInv, NEW p \in Instance
  PROVE  HolderOf(p) = Last(assigned[p])
<1>1. Told(assigned[p], current[p], handovers[p])
  BY DEF ChainInv, HistoryInv
<1> QED
  BY <1>1, HolderIsLast DEF HolderOf

LEMMA HolderNext ==
  ASSUME ChainInv', NEW p \in Instance
  PROVE  HolderOf(p)' = Last(assigned'[p])
<1>1. Told(assigned'[p], current'[p], handovers'[p])
  BY DEF ChainInv, HistoryInv
<1> QED
  BY <1>1, HolderIsLast DEF HolderOf

LEMMA CustodyBegins == Init => Kept!Begin
<1> SUFFICES ASSUME Init, NEW p \in Instance
             PROVE  HolderOf(p) = FirstHolder[p]
  BY FirstAssumption DEF Init, Kept!Begin
<1>1. HolderOf(p) = Last(assigned[p])
  BY ChainStart, HolderNow
<1>2. CASE FirstHolder[p] = NoUser
  BY <1>1, <1>2 DEF Init, Last
<1>3. CASE FirstHolder[p] # NoUser
  <2>1. /\ <<FirstHolder[p]>> # <<>> /\ Len(<<FirstHolder[p]>>) = 1
        /\ <<FirstHolder[p]>>[1] = FirstHolder[p]
    OBVIOUS
  <2> QED
    BY <1>1, <1>3, <2>1 DEF Init, Last
<1> QED
  BY <1>2, <1>3

(* A commit that has inserted a row hands the instance over.               *)
LEMMA CommitHandsOver ==
  ASSUME RoutingAssign = {}, ChainInv, ChainInv', NEW x \in Transaction, Commit(x),
         session[x].created, NEW p, p = session[x].pi
  PROVE  p \in Instance /\ session[x].user \in User /\ Kept!HandOver(p, session[x].user)
<1> DEFINE u == session[x].user
           n == Len(assigned[p])
           prev == session[x].prev
<1>1. x \in Session /\ TypeOK /\ LocalInv /\ PendingInv
  BY DEF Session, Transaction, ChainInv, CurrentInv
<1>2. p \in Instance /\ u \in User
  BY <1>1, RecordOf DEF Commit, Proper, Locals
<1>3. current[p] \subseteq {prev}
  BY <1>1 DEF ChainInv, PairedInv, Paired, PendingInv
<1>4. assigned[p] \in Seq(User) /\ n \in Nat /\ prev \in Nat /\ prev <= n
  <2>1. assigned[p] \in Seq(User) /\ n \in Nat
    BY <1>1, <1>2 DEF TypeOK
  <2>2. prev \in Nat /\ prev <= n
    BY <1>1, <1>2, RecordOf DEF Commit, Proper, Locals
  <2> QED
    BY <2>1, <2>2
<1>5. current[p] = IF assigned[p] = <<>> THEN {} ELSE {n}
  BY <1>2 DEF ChainInv, HistoryInv, Told
<1>6. /\ assigned' = [assigned EXCEPT ![p] = Append(assigned[p], u)]
      /\ \E S : current' = [current EXCEPT ![p] = S]
      /\ handovers' = [handovers EXCEPT ![p] = Append(@,
           [old |-> IF prev = NoRow THEN NoUser ELSE assigned[p][prev], new |-> u])]
  BY DEF Commit, InsertRow, Recorded
<1>7. HolderOf(p)' = u
  <2>1. assigned'[p] = Append(assigned[p], u)
    BY <1>1, <1>2, <1>6 DEF TypeOK
  <2>2. /\ Len(Append(assigned[p], u)) = n + 1 /\ Append(assigned[p], u)[n + 1] = u
        /\ Append(assigned[p], u) # <<>>
    BY <1>2, <1>4
  <2> QED
    BY <1>2, <2>1, <2>2, HolderNext DEF Last
<1>8. ASSUME NEW q \in Instance \ {p} PROVE HolderOf(q)' = HolderOf(q)
  <2>1. assigned'[q] = assigned[q]
    BY <1>1, <1>2, <1>6, <1>8 DEF TypeOK
  <2> QED
    BY <1>8, <2>1, HolderNow, HolderNext
<1>9. HolderOf(p) = IF prev = NoRow THEN NoUser ELSE assigned[p][prev]
  <2>1. CASE assigned[p] = <<>>
    <3>1. n = 0 /\ prev = NoRow
      BY <1>4, <2>1 DEF NoRow
    <3> QED
      BY <1>2, <2>1, <3>1, HolderNow DEF Last
  <2>2. CASE assigned[p] # <<>>
    <3>1. prev = n /\ n # 0
      BY <1>3, <1>4, <1>5, <2>2
    <3> QED
      BY <1>2, <2>2, <3>1, HolderNow DEF Last, NoRow
  <2> QED
    BY <2>1, <2>2
<1>10. [q \in Instance |-> HolderOf(q)]' = [[q \in Instance |-> HolderOf(q)] EXCEPT ![p] = u]
  <2>1. \A q \in Instance : HolderOf(q)' = IF q = p THEN u ELSE HolderOf(q)
    BY <1>7, <1>8
  <2> QED
    BY <1>2, <2>1
<1>11. handovers' = [handovers EXCEPT ![p] = Append(@, [old |-> HolderOf(p), new |-> u])]
  BY <1>6, <1>9
<1> QED
  BY <1>2, <1>10, <1>11 DEF Kept!HandOver

(* Every other step leaves the rows and the activities alone.              *)
LEMMA CustodyStep ==
  ASSUME RoutingAssign = {}, ChainInv, ChainInv', [Next]_vars
  PROVE  [Kept!Step]_(Kept!custody)
<1>1. ASSUME UNCHANGED <<assigned, current, handovers>> PROVE UNCHANGED Kept!custody
  BY <1>1 DEF Kept!custody, HolderOf
<1>2. ASSUME NEW x \in Transaction, Commit(x) PROVE [Kept!Step]_(Kept!custody)
  <2>1. CASE session[x].created
    BY <1>2, <2>1, CommitHandsOver DEF Kept!Step
  <2>2. CASE ~ session[x].created
    BY <1>1, <1>2, <2>2 DEF Commit
  <2> QED
    BY <2>1, <2>2
<1>3. ASSUME NEW x \in Session, Supersede(x) \/ Fail(x)
      PROVE  UNCHANGED <<assigned, current, handovers>>
  BY <1>3, OnlyTransactions DEF Supersede, End, Create, CreateConflicts, Fail, data
<1>4. ASSUME NEW x \in Session, ChangeStatus(x) \/ ReadAssignment(x) \/ Route(x)
      PROVE  UNCHANGED <<assigned, current, handovers>>
  BY <1>4 DEF ChangeStatus, ReadProcess, UpdateStatus, ReadAssignment, Route, NoRule, LockRule,
              Choose, Skip, FindPrevious, data
<1>5. CASE Configure \/ UNCHANGED vars
  <2>1. UNCHANGED <<assigned, current, handovers>>
    BY <1>5 DEF Configure, DeactivateRule, ReplaceRule, ChangeTeam, DeactivateUser, vars, data
  <2> QED
    BY <1>1, <2>1
<1> QED
  BY <1>1, <1>2, <1>3, <1>4, <1>5 DEF Next, Session

(* Without routing-assign, the rows, the rule locks, the index and the      *)
(* activities of any number of sessions amount to AssignmentCustody.       *)
THEOREM TransactionsImplementCustody ==
  ASSUME RoutingAssign = {} PROVE Spec => ImplementsCustody
<1>1. ChainInv /\ ChainInv' /\ [Next]_vars => [Kept!Step]_(Kept!custody)
  BY CustodyStep
<1>2. Spec => []ChainInv
  BY ChainStart, ChainStep, PTL DEF Spec
<1> QED
  BY <1>1, <1>2, CustodyBegins, PTL DEF Spec, ImplementsCustody, Kept!Custody

-----------------------------------------------------------------------------
(* Round robin goes round.  A rule's cursor started at `first'; in the      *)
(* round under way those from there to the cursor have had their turn.      *)
HadTurn(first, cursor, u) ==
  IF cursor >= first THEN first < u /\ u <= cursor ELSE first < u \/ u <= cursor

Rounds(users, first, cursor, taken) ==
  \E k \in Nat : \A u \in users :
    taken[u] = IF HadTurn(first, cursor, u) THEN k + 1 ELSE k

LEMMA RoundRobinGoesOn ==
  ASSUME NEW C \in SUBSET Nat, C # {}, NEW cursor \in Nat
  PROVE  LET next == PickRoundRobin(C, cursor)
         IN  /\ next \in C
             /\ \/ cursor < next /\ \A u \in C : u <= cursor \/ next <= u
                \/ \A u \in C : u <= cursor /\ next <= u
<1> DEFINE above == {u \in C : u > cursor}
<1>1. above \in SUBSET Nat
  OBVIOUS
<1>2. CASE above = {}
  <2>1. \A u \in C : u <= cursor
    BY <1>2
  <2> QED
    BY <1>2, <2>1, MinOfNaturals DEF PickRoundRobin
<1>3. CASE above # {}
  <2>1. Min(above) \in above /\ \A u \in above : Min(above) <= u
    <3> HIDE DEF above
    <3> QED
      BY <1>1, <1>3, MinOfNaturals
  <2>2. \A u \in C : u <= cursor \/ u \in above
    OBVIOUS
  <2>3. PickRoundRobin(C, cursor) = Min(above)
    BY <1>3 DEF PickRoundRobin
  <2> QED
    BY <2>1, <2>2, <2>3
<1> QED
  BY <1>2, <1>3

(* A turn goes on with the round, or begins the next one.                   *)
LEMMA NextTurn ==
  ASSUME NEW C \in SUBSET Nat, C # {}, NEW first \in Nat, NEW cursor \in Nat,
         NEW taken, Rounds(C, first, cursor, taken), NEW after,
         \A u \in C : after[u] = IF u = PickRoundRobin(C, cursor) THEN taken[u] + 1 ELSE taken[u]
  PROVE  Rounds(C, first, PickRoundRobin(C, cursor), after)
<1> DEFINE next == PickRoundRobin(C, cursor)
<1>1. PICK k \in Nat : \A u \in C : taken[u] = IF HadTurn(first, cursor, u) THEN k + 1 ELSE k
  BY DEF Rounds
<1>2. /\ next \in C
      /\ \/ cursor < next /\ \A u \in C : u <= cursor \/ next <= u
         \/ \A u \in C : u <= cursor /\ next <= u
  BY RoundRobinGoesOn
<1>3. \A u \in C : after[u] = IF u = next THEN taken[u] + 1 ELSE taken[u]
  OBVIOUS
<1> HIDE DEF next
<1>4. CASE HadTurn(first, cursor, next)
  <2>1. ASSUME NEW u \in C
        PROVE  HadTurn(first, cursor, u) /\ (HadTurn(first, next, u) <=> u = next)
    BY <1>2, <1>4, <2>1 DEF HadTurn
  <2>2. \A u \in C : after[u] = IF HadTurn(first, next, u) THEN (k + 1) + 1 ELSE k + 1
    BY <1>1, <1>3, <2>1
  <2> QED
    BY <2>2 DEF Rounds, next
<1>5. CASE ~ HadTurn(first, cursor, next) /\ next # first
  <2>1. ASSUME NEW u \in C
        PROVE  HadTurn(first, next, u) <=> HadTurn(first, cursor, u) \/ u = next
    BY <1>2, <1>5, <2>1 DEF HadTurn
  <2>2. \A u \in C : after[u] = IF HadTurn(first, next, u) THEN k + 1 ELSE k
    BY <1>1, <1>3, <1>5, <2>1
  <2> QED
    BY <2>2 DEF Rounds, next
<1>6. CASE ~ HadTurn(first, cursor, next) /\ next = first
  <2>1. ASSUME NEW u \in C
        PROVE  ~ HadTurn(first, next, u) /\ (HadTurn(first, cursor, u) <=> u # next)
    BY <1>2, <1>6, <2>1 DEF HadTurn
  <2>2. \A u \in C : after[u] = IF HadTurn(first, next, u) THEN (k + 1) + 1 ELSE k + 1
    BY <1>1, <1>3, <1>6, <2>1
  <2> QED
    BY <2>2 DEF Rounds, next
<1> QED
  BY <1>4, <1>5, <1>6

(* What a status change has picked is what the rule, which it has locked,   *)
(* would pick again.                                                        *)
Picked(t) ==
  t.at \in {"previous", "end", "create"} \/ (t.at = "commit" /\ t.advances)

Right(t) ==
  /\ ~ t.override
  /\ t.at = "choose" => ~ t.advances
  /\ Picked(t) /\ t.to \in RoundRobin /\ ~ rule[t.to].team =>
       /\ rule[t.to].users # {}
       /\ t.user = PickRoundRobin(rule[t.to].users, rule[t.to].cursor)

TurnInv ==
  changes = 0 =>
    /\ active = User
    /\ \A s \in Status : rule[s].team = FirstRule[s].team /\ rule[s].users = FirstRule[s].users
    /\ \A x \in StatusChange : Right(session[x])
    /\ \A s \in RoundRobin : ~ FirstRule[s].team =>
         Rounds(FirstRule[s].users, FirstRule[s].cursor, rule[s].cursor, turns[s])

EvenInv == FreshInv /\ TurnInv

(* A step of one session that moves no cursor.                              *)
LEMMA TurnsWait ==
  ASSUME EvenInv, NEW x \in Session, NEW t, session' = [session EXCEPT ![x] = t],
         UNCHANGED <<rule, active, turns, changes>>,
         changes = 0 /\ x \in StatusChange => Right(t)
  PROVE  TurnInv'
<1> SUFFICES ASSUME changes = 0 PROVE TurnInv'
  BY DEF TurnInv
<1>1. ASSUME NEW y \in StatusChange PROVE Right(session'[y])
  <2>1. session'[y] = IF y = x THEN t ELSE session[y]
    BY DEF Session, EvenInv, FreshInv, TypeOK
  <2> QED
    BY <2>1 DEF EvenInv, TurnInv
<1>2. \A y \in StatusChange : Right(session[y])'
  BY <1>1 DEF Right
<1> QED
  BY <1>2 DEF EvenInv, TurnInv

(* The fields of t that matter: nothing new has been picked, or it is what  *)
(* x had picked.                                                            *)
LEMMA RightStays ==
  ASSUME NEW l \in Locals, NEW t, Right(l), ~ t.override, t.at # "choose",
         \/ ~ Picked(t)
         \/ Picked(l) /\ t.to = l.to /\ t.user = l.user
  PROVE  Right(t)
  BY DEF Right

LEMMA RoutingWaits ==
  ASSUME EvenInv, NEW x \in StatusChange, ChangeStatus(x) \/ Route(x)
  PROVE  TurnInv'
<1>1. x \in Session /\ session[x] \in Locals
  BY RecordOf DEF Session, EvenInv, FreshInv
<1>2. UNCHANGED <<rule, active, turns, changes>>
  BY DEF ChangeStatus, ReadProcess, UpdateStatus, Route, NoRule, LockRule, Choose, Skip,
         FindPrevious, config
<1>3. SUFFICES ASSUME changes = 0
               PROVE  \E t : session' = [session EXCEPT ![x] = t] /\ Right(t)
  <2>1. CASE changes # 0
    BY <1>2, <2>1 DEF TurnInv
  <2>2. ASSUME changes = 0,
               NEW t, session' = [session EXCEPT ![x] = t], x \in StatusChange => Right(t)
        PROVE  TurnInv'
    BY <1>1, <1>2, <2>2, TurnsWait
  <2> QED
    BY <2>1, <2>2, Zenon
<1>4. Right(session[x])
  BY <1>3 DEF EvenInv, TurnInv
<1>5. CASE ReadProcess(x)
  <2>1. PICK q \in Instance, s \in Status :
          session' = [session EXCEPT ![x] =
            [Idle EXCEPT !.at = "update", !.pi = q, !.to = s]]
    BY <1>5 DEF ReadProcess
  <2> DEFINE t == [Idle EXCEPT !.at = "update", !.pi = q, !.to = s]
  <2>2. t.at = "update" /\ ~ t.override
    BY DEF Idle
  <2>3. Right(t)
    BY <2>2 DEF Right, Picked
  <2> QED
    BY <2>1, <2>3
<1>6. CASE UpdateStatus(x)
  <2> DEFINE t == [session[x] EXCEPT !.at = "rule"]
  <2>1. t.at = "rule" /\ ~ t.override
    BY <1>1, <1>4 DEF Locals, Right
  <2>2. Right(t)
    BY <2>1 DEF Right, Picked
  <2> QED
    BY <1>6, <2>2 DEF UpdateStatus, Goto
<1>7. CASE NoRule(x) \/ Skip(x)
  <2> DEFINE t == [session[x] EXCEPT !.at = "commit"]
  <2>1. ~ session[x].advances
    BY <1>4, <1>7 DEF NoRule, Skip, EvenInv, FreshInv, LockInv, Right
  <2>2. t.at = "commit" /\ ~ t.override /\ ~ t.advances
    BY <1>1, <1>4, <2>1 DEF Locals, Right
  <2>3. Right(t)
    BY <2>2 DEF Right, Picked
  <2> QED
    BY <1>7, <2>3 DEF NoRule, Skip, Leave, Goto
<1>8. CASE LockRule(x)
  <2> DEFINE s == session[x].to
             t == [session[x] EXCEPT !.at = "choose", !.cursor = rule[s].cursor,
                                     !.team = rule[s].team]
  <2>1. ~ session[x].advances
    BY <1>8 DEF LockRule, EvenInv, FreshInv, LockInv
  <2>2. t.at = "choose" /\ ~ t.override /\ ~ t.advances
    BY <1>1, <1>4, <2>1 DEF Locals, Right
  <2>3. Right(t)
    BY <2>2 DEF Right, Picked
  <2>4. session' = [session EXCEPT ![x] = t]
    BY <1>8 DEF LockRule
  <2> QED
    BY <2>3, <2>4
<1>9. CASE Choose(x)
  <2> DEFINE s == session[x].to
             t == [session[x] EXCEPT !.at = "previous", !.user = Pick(x)]
  <2>1. session[x].at = "choose" /\ Candidates(x) # {} /\ session' = [session EXCEPT ![x] = t]
    BY <1>4, <1>9 DEF Choose, Right
  <2>2. t.at = "previous" /\ ~ t.override /\ t.to = s /\ t.user = Pick(x)
    <3> DEFINE u == Pick(x)
    <3> HIDE DEF u
    <3>1. LET r == [session[x] EXCEPT !.at = "previous", !.user = u]
          IN  r.at = "previous" /\ ~ r.override /\ r.to = s /\ r.user = u
      BY <1>1, <1>4 DEF Locals, Right
    <3> QED
      BY <3>1 DEF u
  <2>3. ASSUME s \in RoundRobin, ~ rule[s].team
        PROVE  rule[s].users # {} /\ Pick(x) = PickRoundRobin(rule[s].users, rule[s].cursor)
    <3>1. session[x].cursor = rule[s].cursor /\ session[x].team = rule[s].team
      BY <2>1 DEF EvenInv, FreshInv, LockInv, Working, Routed
    <3>2. s \in Status /\ rule[s].users \subseteq User
      BY <2>3, StatusAssumption DEF EvenInv, FreshInv, TypeOK, Rules
    <3>3. active = User
      BY <1>3 DEF EvenInv, TurnInv
    <3>4. Candidates(x) = rule[s].users
      BY <2>3, <3>1, <3>2, <3>3 DEF Candidates, Pool
    <3> QED
      BY <2>1, <2>3, <3>1, <3>4 DEF Pick
  <2> HIDE DEF t
  <2>4. Right(t)
    BY <2>2, <2>3 DEF Right
  <2> QED
    BY <2>1, <2>4
<1>10. CASE FindPrevious(x)
  <2>1. session[x].at = "previous"
    BY <1>10 DEF FindPrevious
  <2>2. Picked(session[x]) /\ ~ session[x].override
    BY <1>4, <2>1 DEF Picked, Right
  <2>3. CASE Goto(x, "create")
    <3> DEFINE t == [session[x] EXCEPT !.at = "create"]
    <3>1. t.at = "create" /\ t.to = session[x].to /\ t.user = session[x].user /\ ~ t.override
      BY <1>1, <2>2 DEF Locals
    <3> HIDE DEF t
    <3>2. Right(t)
      BY <1>1, <1>4, <2>2, <3>1, RightStays
    <3> QED
      BY <2>3, <3>2 DEF Goto, t
  <2>4. CASE \E r \in current[session[x].pi], a \in {"commit", "end"}, b \in BOOLEAN :
               session' = [session EXCEPT ![x].prev = r, ![x].at = a, ![x].advances = b]
    <3>1. PICK r \in current[session[x].pi], a \in {"commit", "end"}, b \in BOOLEAN :
            session' = [session EXCEPT ![x].prev = r, ![x].at = a, ![x].advances = b]
      BY <2>4
    <3> DEFINE t == [session[x] EXCEPT !.prev = r, !.at = a, !.advances = b]
    <3>2. t.at = a /\ t.to = session[x].to /\ t.user = session[x].user /\ ~ t.override
      BY <1>1, <2>2 DEF Locals
    <3>3. session' = [session EXCEPT ![x] = t]
      BY <3>1
    <3> HIDE DEF t
    <3>4. Right(t)
      BY <1>1, <1>4, <2>2, <3>2, RightStays
    <3> QED
      BY <3>3, <3>4
  <2> QED
    BY <1>1, <1>10, <2>3, <2>4, SessionAssumption DEF FindPrevious, Transaction
<1> QED
  BY <1>5, <1>6, <1>7, <1>8, <1>9, <1>10 DEF ChangeStatus, Route

LEMMA SupersedingWaits ==
  ASSUME EvenInv, NEW x \in Transaction,
         End(x) \/ Create(x) \/ CreateConflicts(x) \/ Fail(x)
  PROVE  TurnInv'
<1>1. x \in Session /\ session[x] \in Locals
  BY RecordOf DEF Session, Transaction, EvenInv, FreshInv
<1>2. UNCHANGED <<rule, active, turns, changes>>
  BY DEF End, Create, CreateConflicts, Fail, config
<1>3. SUFFICES ASSUME changes = 0
               PROVE  \E t : /\ session' = [session EXCEPT ![x] = t]
                             /\ x \in StatusChange => Right(t)
  <2>1. CASE changes # 0
    BY <1>2, <2>1 DEF TurnInv
  <2>2. ASSUME changes = 0,
               NEW t, session' = [session EXCEPT ![x] = t], x \in StatusChange => Right(t)
        PROVE  TurnInv'
    BY <1>1, <1>2, <2>2, TurnsWait
  <2> QED
    BY <2>1, <2>2, Zenon
<1>4. x \in StatusChange => Right(session[x])
  BY <1>3 DEF EvenInv, TurnInv
<1>5. CASE End(x)
  <2> DEFINE t == [session[x] EXCEPT !.at = "create", !.ended = session[x].prev]
  <2>1. session' = [session EXCEPT ![x] = t] /\ session[x].at = "end"
    BY <1>5 DEF End
  <2>2. t.at = "create" /\ t.to = session[x].to /\ t.user = session[x].user
        /\ t.override = session[x].override
    BY <1>1 DEF Locals
  <2> HIDE DEF t
  <2>3. ASSUME x \in StatusChange PROVE Right(t)
    <3>1. Picked(session[x]) /\ ~ session[x].override
      BY <1>4, <2>1, <2>3 DEF Picked, Right
    <3> QED
      BY <1>1, <1>4, <2>2, <2>3, <3>1, RightStays
  <2> QED
    BY <2>1, <2>3
<1>6. CASE Create(x)
  <2> DEFINE a == x \in StatusChange
             t == [session[x] EXCEPT !.at = "commit", !.created = TRUE, !.advances = a]
  <2>1. session' = [session EXCEPT ![x] = t] /\ session[x].at = "create"
    BY <1>6 DEF Create
  <2>2. t.at = "commit" /\ t.to = session[x].to /\ t.user = session[x].user
        /\ t.override = session[x].override
    BY <1>1 DEF Locals
  <2> HIDE DEF t
  <2>3. ASSUME x \in StatusChange PROVE Right(t)
    <3>1. Picked(session[x]) /\ ~ session[x].override
      BY <1>4, <2>1, <2>3 DEF Picked, Right
    <3> QED
      BY <1>1, <1>4, <2>2, <2>3, <3>1, RightStays
  <2> QED
    BY <2>1, <2>3
<1>7. CASE CreateConflicts(x) \/ Fail(x)
  <2>1. session' = [session EXCEPT ![x] = Idle]
    BY <1>7 DEF CreateConflicts, Fail
  <2>2. Right(Idle)
    BY DEF Right, Picked, Idle
  <2> QED
    BY <2>1, <2>2
<1> QED
  BY <1>5, <1>6, <1>7

(* A commit is the turn of the user it assigned: the others had picked from *)
(* other rules.                                                             *)
LEMMA CommitTakesATurn ==
  ASSUME EvenInv, NEW x \in Transaction, Commit(x),
         \A s \in Status : FirstRule[s].team => FirstRule[s].users = {}
  PROVE  TurnInv'
<1> DEFINE s == session[x].to
           u == session[x].user
<1>1. x \in Session /\ session[x] \in Locals /\ Proper(x, session[x], assigned)
  BY RecordOf DEF Session, Transaction, EvenInv, FreshInv
<1>2. /\ session[x].at = "commit" /\ UNCHANGED <<active, changes>>
      /\ session' = [session EXCEPT ![x] = Idle]
  BY DEF Commit
<1>3. Right(Idle)
  BY DEF Right, Picked, Idle
<1>4. CASE ~ session[x].advances
  <2>1. UNCHANGED <<rule, turns>>
    BY <1>4 DEF Commit
  <2> QED
    BY <1>1, <1>2, <1>3, <2>1, TurnsWait
<1>5. CASE session[x].advances
  <2>1. x \in StatusChange /\ s \in Status /\ u \in User /\ ruleLock[s] = x
    <3>1. x \in StatusChange
      BY <1>1, <1>5 DEF Proper, Transaction
    <3> QED
      BY <1>1, <1>2, <1>5, <3>1, SessionAssumption DEF Proper, EvenInv, FreshInv, LockInv
  <2>2. /\ rule' = [rule EXCEPT ![s].cursor = u]
        /\ turns' = [turns EXCEPT ![s][u] = turns[s][u] + 1]
    BY <1>5 DEF Commit, AdvanceCursor
  <2>3. \A r \in Status : rule[r] \in Rules /\ turns[r] \in [User -> Nat]
    BY DEF EvenInv, FreshInv, TypeOK
  <2>4. \A r \in Status : /\ rule'[r].team = rule[r].team
                          /\ rule'[r].users = rule[r].users
                          /\ rule'[r].cursor = IF r = s THEN u ELSE rule[r].cursor
                          /\ r # s => rule'[r] = rule[r] /\ turns'[r] = turns[r]
    BY <2>1, <2>2, <2>3 DEF EvenInv, FreshInv, TypeOK, Rules
  <2>5. \A v \in User : turns'[s][v] = IF v = u THEN turns[s][v] + 1 ELSE turns[s][v]
    BY <2>1, <2>2, <2>3 DEF EvenInv, FreshInv, TypeOK
  <2>6. SUFFICES ASSUME changes = 0 PROVE TurnInv'
    BY <1>2 DEF TurnInv
  <2>7. ASSUME NEW y \in StatusChange PROVE Right(session[y])'
    <3>1. Right(session[y]) /\ y \in Session
      BY <2>6 DEF EvenInv, TurnInv, Session
    <3>2. CASE y = x
      <4>1. session'[y] = Idle
        BY <1>1, <1>2, <3>2 DEF EvenInv, FreshInv, TypeOK
      <4> QED
        BY <4>1 DEF Right, Picked, Idle
    <3>3. CASE y # x
      <4>1. session'[y] = session[y]
        BY <1>2, <3>1, <3>3 DEF EvenInv, FreshInv, TypeOK
      <4>2. Picked(session[y]) => session[y].to \in Status /\ ruleLock[session[y].to] = y
        <5>1. ASSUME Picked(session[y]) PROVE session[y].at # "idle"
          BY <5>1 DEF Picked
        <5> QED
          BY <3>1, <5>1, HeldRules DEF EvenInv, FreshInv, LockInv, Picked, Working, Routed
      <4>3. Picked(session[y]) => rule'[session[y].to] = rule[session[y].to]
        BY <2>1, <2>4, <3>3, <4>2
      <4>4. Picked(session[y])' <=> Picked(session[y])
        BY <4>1 DEF Picked
      <4> QED
        BY <3>1, <4>1, <4>3, <4>4 DEF Right
    <3> QED
      BY <3>2, <3>3
  <2>8. ASSUME NEW r \in RoundRobin, ~ FirstRule[r].team
        PROVE  Rounds(FirstRule[r].users, FirstRule[r].cursor, rule'[r].cursor, turns'[r])
    <3> DEFINE C == FirstRule[r].users
               first == FirstRule[r].cursor
    <3>1. /\ r \in Status /\ Rounds(C, first, rule[r].cursor, turns[r])
          /\ rule[r].users = C /\ ~ rule[r].team
      BY <2>6, <2>8, StatusAssumption DEF EvenInv, TurnInv
    <3>2. CASE r # s
      BY <2>4, <3>1, <3>2
    <3>3. CASE r = s
      <4>1. C # {} /\ u = PickRoundRobin(C, rule[r].cursor)
        <5>1. Right(session[x]) /\ Picked(session[x])
          BY <1>2, <1>5, <2>1, <2>6 DEF EvenInv, TurnInv, Picked
        <5> QED
          BY <2>8, <3>1, <3>3, <5>1 DEF Right
      <4>2. C \in SUBSET User /\ C \in SUBSET Nat
        BY <3>1, UserAssumption, FirstAssumption DEF Rules
      <4>3. first \in Nat /\ rule[r].cursor \in Nat
        <5>1. FirstRule[r] \in Rules /\ rule[r] \in Rules
          BY <2>3, <3>1, FirstAssumption
        <5>2. User \cup {NoUser} \subseteq Nat
          BY UserAssumption DEF NoUser
        <5> QED
          BY <5>1, <5>2 DEF Rules
      <4>4. \A v \in C : turns'[r][v] =
              IF v = PickRoundRobin(C, rule[r].cursor) THEN turns[r][v] + 1 ELSE turns[r][v]
        BY <2>5, <3>3, <4>1, <4>2
      <4>5. rule'[r].cursor = PickRoundRobin(C, rule[r].cursor)
        BY <2>4, <3>1, <3>3, <4>1
      <4> HIDE DEF C, first
      <4>6. Rounds(C, first, PickRoundRobin(C, rule[r].cursor), turns'[r])
        BY <3>1, <4>1, <4>2, <4>3, <4>4, NextTurn
      <4> QED
        BY <4>5, <4>6 DEF C, first
    <3> QED
      BY <3>2, <3>3
  <2>9. /\ active' = User
        /\ \A r \in Status : /\ rule'[r].team = FirstRule[r].team
                             /\ rule'[r].users = FirstRule[r].users
    BY <1>2, <2>4, <2>6 DEF EvenInv, TurnInv
  <2> QED
    BY <2>7, <2>8, <2>9 DEF TurnInv
<1> QED
  BY <1>4, <1>5

LEMMA EvenStart == Init => EvenInv
<1> SUFFICES ASSUME Init PROVE TurnInv
  BY FreshStart DEF EvenInv
<1>1. ASSUME NEW x \in StatusChange PROVE Right(session[x])
  <2>1. session[x] = Idle
    BY DEF Init, Session
  <2> QED
    BY <2>1 DEF Right, Picked, Idle
<1>2. ASSUME NEW s \in RoundRobin
      PROVE  Rounds(FirstRule[s].users, FirstRule[s].cursor, rule[s].cursor, turns[s])
  <2>1. s \in Status
    BY StatusAssumption
  <2>2. /\ rule[s].cursor = FirstRule[s].cursor /\ FirstRule[s].cursor \in Nat
        /\ FirstRule[s].users \in SUBSET User
    <3>1. FirstRule[s] \in Rules /\ rule = FirstRule
      BY <2>1, FirstAssumption DEF Init
    <3>2. User \cup {NoUser} \subseteq Nat
      BY UserAssumption DEF NoUser
    <3> QED
      BY <3>1, <3>2 DEF Rules
  <2>3. ASSUME NEW u \in FirstRule[s].users
        PROVE  turns[s][u] = 0 /\ ~ HadTurn(FirstRule[s].cursor, rule[s].cursor, u)
    <3>1. u \in User /\ u \in Nat
      BY <2>2, UserAssumption
    <3>2. turns[s][u] = 0
      BY <2>1, <3>1 DEF Init
    <3> QED
      BY <2>2, <3>1, <3>2 DEF HadTurn
  <2>4. 0 \in Nat
    OBVIOUS
  <2> QED
    BY <2>3, <2>4 DEF Rounds
<1> QED
  BY <1>1, <1>2 DEF Init, TurnInv

LEMMA EvenStep ==
  ASSUME RoutingAssign = {}, \A s \in Status : FirstRule[s].team => FirstRule[s].users = {}
  PROVE  EvenInv /\ [Next]_vars => EvenInv'
<1> SUFFICES ASSUME EvenInv, [Next]_vars PROVE TurnInv'
  BY FreshStep DEF EvenInv
<1>1. ASSUME NEW x \in Reassign, ReadAssignment(x) PROVE TurnInv'
  <2>1. PICK q \in Instance, u \in active : \E r \in current[q] :
          session' = [session EXCEPT ![x] =
            [Idle EXCEPT !.at = "end", !.pi = q, !.user = u, !.prev = r]]
    BY <1>1 DEF ReadAssignment
  <2>2. PICK t : session' = [session EXCEPT ![x] = t]
    BY <2>1
  <2>3. x \in Session /\ x \notin StatusChange
    BY SessionAssumption DEF Session
  <2>4. UNCHANGED <<rule, active, turns, changes>>
    BY <1>1 DEF ReadAssignment, config
  <2> QED
    BY <2>2, <2>3, <2>4, TurnsWait
<1>2. ASSUME NEW x \in Session, Supersede(x) \/ Fail(x) PROVE TurnInv'
  BY <1>2, OnlyTransactions, SupersedingWaits DEF Supersede
<1>3. CASE Configure
  <2>1. changes \in Nat /\ changes' = changes + 1
    BY <1>3 DEF Configure, DeactivateRule, ReplaceRule, ChangeTeam, DeactivateUser, Change,
                EvenInv, FreshInv, TypeOK
  <2> QED
    BY <2>1 DEF TurnInv
<1>4. CASE UNCHANGED vars
  BY <1>4 DEF vars, config, EvenInv, TurnInv, Right, Rounds
<1> QED
  BY <1>1, <1>2, <1>3, <1>4, RoutingWaits, CommitTakesATurn DEF Next

(* The turns of an unchanged round-robin pool are even, for any number of   *)
(* users, rules, status changes and failures, wherever its cursor was at    *)
(* the beginning.  A Team pool has no users of its own.                     *)
THEOREM TransactionsTakeTurns ==
  ASSUME RoutingAssign = {}, \A s \in Status : FirstRule[s].team => FirstRule[s].users = {}
  PROVE  Spec => []TurnsAreEven
<1>1. EvenInv => TurnsAreEven
  <2> SUFFICES ASSUME EvenInv, changes = 0, NEW s \in RoundRobin,
                      NEW u \in FirstRule[s].users, NEW v \in FirstRule[s].users
               PROVE  turns[s][u] <= turns[s][v] + 1
    BY DEF TurnsAreEven
  <2>1. Rounds(FirstRule[s].users, FirstRule[s].cursor, rule[s].cursor, turns[s])
    BY StatusAssumption DEF EvenInv, TurnInv
  <2>2. PICK k \in Nat : \A w \in FirstRule[s].users : turns[s][w] \in {k, k + 1}
    BY <2>1 DEF Rounds
  <2> QED
    BY <2>2
<1> QED
  BY <1>1, EvenStart, EvenStep, PTL DEF Spec
=============================================================================
