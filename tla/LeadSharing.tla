---------------------------- MODULE LeadSharing ----------------------------
(***************************************************************************)
(* The shares of one lead (user_access_grants): LeadSharingService's       *)
(* create, update, revoke, reassign and deactivate, the assign of          *)
(* StatusRoutingService, the grace grant that both leave the previous      *)
(* holder (maybeGrantReassignmentGrace), and passive expiry.               *)
(*                                                                         *)
(* Users and roles live elsewhere: whether the reads find a user active, or *)
(* the previous holder entitled to a grace grant, is left open here.       *)
(*                                                                         *)
(* A request is one READ COMMITTED transaction: its reads are steps of     *)
(* their own, because others commit between them, and its writes are one   *)
(* step, because nobody sees them before it commits.  The bulk revocation  *)
(* of a deactivation picks its rows when it runs and holds them until the  *)
(* commit.  POST routing-assign is the exception: it runs assign on the    *)
(* plain client, and each of its statements commits by itself.             *)
(***************************************************************************)
EXTENDS Integers, FiniteSets, TLC

CONSTANTS
  User,
  Slot,        \* the lead's (process instance, assignment type) pairs
  Session,     \* request handlers that run at the same time
  Grant,       \* bound: ids of the user_access_grants rows ever created
  Extra,       \* capabilities besides 'view', which every share has
  Duration,    \* shareDurationsDays, in ticks
  Grace,       \* reassignmentGraceDays, in ticks
  MaxMove,     \* bound: assignments a slot is given after its first
  NoUser, NoGrant, NoSlot

ASSUME DurationAssumption == Duration \subseteq Nat \ {0} /\ Grace \in Duration
ASSUME GrantsAreFinite == IsFiniteSet(Grant)
ASSUME AbsentAssumption == NoUser \notin User /\ NoGrant \notin Grant /\ NoSlot \notin Slot
ASSUME MaxMoveAssumption == MaxMove \in Nat

VARIABLES
  (* user_access_grants *)
  made,        \* the rows that exist
  owner,       \* user_id
  extra,       \* actions, without 'view'
  left,        \* time until expires_at; 0 once it has passed
  revoked,     \* rows with a revoked_at
  (* the lead and its slots *)
  leadActive,
  holder,      \* whose assignment is_current, NoUser if nobody's
  move,        \* the number of the slot's last assignment
  owed,        \* history: ended assignments whose user was entitled to a
               \* grace grant and has neither got it nor had a live share
  cut,         \* history: those whose routing-assign stopped short
  (* requests *)
  session

grants == <<made, owner, extra, left, revoked>>
lead == <<leadActive, holder, move, owed, cut>>
vars == <<grants, lead, session>>

Capabilities == SUBSET Extra
Remaining == UNION {0 .. d : d \in Duration}

Unrevoked == made \ revoked
(* What getActiveDirectGrant and the list queries take for a share. *)
Live == {g \in Unrevoked : left[g] > 0}
OwnedBy(u) == {g \in made : owner[g] = u}

Assignment == Slot \X Nat

Idle == [at |-> "idle", user |-> NoUser, extra |-> {}, days |-> 0, grant |-> NoGrant,
         slot |-> NoSlot, move |-> 0, to |-> NoUser, entitled |-> FALSE, standing |-> {},
         graced |-> FALSE, swept |-> {}]

SessionType ==
  [at : {"idle", "existing", "insert", "update", "revoke", "grace", "move",
         "end", "create", "decide", "grant", "sweep", "close"},
   user : User \cup {NoUser}, extra : Capabilities, days : Duration \cup {0},
   grant : Grant \cup {NoGrant}, slot : Slot \cup {NoSlot}, move : Nat,
   to : User \cup {NoUser}, entitled : BOOLEAN, standing : SUBSET Grant,
   graced : BOOLEAN, swept : SUBSET Grant]

TypeOK ==
  /\ made \in SUBSET Grant
  /\ owner \in [Grant -> User \cup {NoUser}]
  /\ extra \in [Grant -> Capabilities]
  /\ left \in [Grant -> Remaining]
  /\ revoked \in SUBSET made
  /\ leadActive \in BOOLEAN
  /\ holder \in [Slot -> User \cup {NoUser}]
  /\ move \in [Slot -> Nat]
  /\ owed \in SUBSET Assignment
  /\ cut \in SUBSET Assignment
  /\ session \in [Session -> SessionType]

Init ==
  /\ made = {}
  /\ owner = [g \in Grant |-> NoUser]
  /\ extra = [g \in Grant |-> {}]
  /\ left = [g \in Grant |-> 0]
  /\ revoked = {}
  /\ leadActive = TRUE
  /\ holder \in [Slot -> User]
  /\ move = [s \in Slot |-> 0]
  /\ owed = {} /\ cut = {}
  /\ session = [x \in Session |-> Idle]

At(x, place) == session[x].at = place
Goes(x, place) == session' = [session EXCEPT ![x].at = place]
Ends(x) == session' = [session EXCEPT ![x] = Idle]

(* Rows a deactivation has updated and not yet committed are locked. *)
Locked(g) == \E y \in Session : At(y, "close") /\ g \in session[y].swept

(* Mutant: the unique index covers live rows only by looking at expires_at. *)
PairFreeOfLive(u) == OwnedBy(u) \cap Live = {}

(* user_access_grants_one_active_uq: one row per pair WHERE revoked_at IS   *)
(* NULL, whatever its expires_at says.                                      *)
PairFree(u) == OwnedBy(u) \cap Unrevoked = {}

(* createTimedAccessGrant. *)
Insert(g, u, E, days) ==
  /\ made' = made \cup {g}
  /\ owner' = [owner EXCEPT ![g] = u]
  /\ extra' = [extra EXCEPT ![g] = E]
  /\ left' = [left EXCEPT ![g] = days]
  /\ UNCHANGED revoked

-----------------------------------------------------------------------------
(* create: the lead is active (and so is the user) ... *)
Share(x, u, E, days) ==
  /\ At(x, "idle")
  /\ leadActive
  /\ session' = [session EXCEPT ![x] = [Idle EXCEPT !.at = "existing", !.user = u,
                                                     !.extra = E, !.days = days]]
  /\ UNCHANGED <<grants, lead>>

(* ... and no unrevoked row exists: otherwise already_shared. *)
FindExisting(x) ==
  /\ At(x, "existing")
  /\ IF OwnedBy(session[x].user) \cap Unrevoked = {} THEN Goes(x, "insert") ELSE Ends(x)
  /\ UNCHANGED <<grants, lead>>

(* The insert waits for a deactivation that holds the pair's row, and fails *)
(* if the pair has been taken meanwhile.                                    *)
InsertShare(x) ==
  LET u == session[x].user
  IN  /\ At(x, "insert")
      /\ \A g \in OwnedBy(u) : ~Locked(g)
      /\ IF PairFree(u)
           THEN \E g \in Grant \ made : Insert(g, u, session[x].extra, session[x].days)
           ELSE UNCHANGED grants
      /\ Ends(x)
      /\ UNCHANGED lead

(* update and revoke: the row is unrevoked when it is read ... *)
ReadGrant(x, g, place, E) ==
  /\ At(x, "idle")
  /\ g \in Unrevoked
  /\ session' = [session EXCEPT ![x] = [Idle EXCEPT !.at = place, !.grant = g, !.extra = E]]
  /\ UNCHANGED <<grants, lead>>

(* ... and is then updated by its id, whatever has become of it. *)
Update(x) ==
  LET g == session[x].grant
  IN  /\ At(x, "update")
      /\ ~Locked(g)
      /\ extra' = [extra EXCEPT ![g] = session[x].extra]
      /\ Ends(x)
      /\ UNCHANGED <<made, owner, left, revoked, lead>>

Revoke(x) ==
  LET g == session[x].grant
  IN  /\ At(x, "revoke")
      /\ ~Locked(g)
      /\ revoked' = revoked \cup {g}
      /\ Ends(x)
      /\ UNCHANGED <<made, owner, extra, left, lead>>

-----------------------------------------------------------------------------
(* reassign, and assign of StatusRoutingService within a status change,      *)
(* which mirrors it but for a slot that nobody holds: the current           *)
(* assignment and the new holder are read.  Nobody looks at whether the     *)
(* lead is active.                                                          *)
ReadSlot(x, s, v, place) ==
  /\ At(x, "idle")
  /\ move[s] < MaxMove
  /\ session' = [session EXCEPT ![x] =
                   [Idle EXCEPT !.at = place, !.slot = s, !.move = move[s],
                                !.user = holder[s], !.to = v]]
  /\ UNCHANGED <<grants, lead>>

(* The assignment the request read, if there was one. *)
ReadBy(x) ==
  IF session[x].user = NoUser THEN {} ELSE {<<session[x].slot, session[x].move>>}

(* Mutant: an expired share counts as standing view access. *)
StandingEver(u) == OwnedBy(u) \cap Unrevoked

StandingView(u) == OwnedBy(u) \cap Live

(* maybeGrantReassignmentGrace, up to the decision.  entitled and standing  *)
(* remember who asked for the grant and the live shares of this moment.     *)
Decision(x, eligible) ==
  LET u == session[x].user
  IN  /\ eligible => u # NoUser /\ u # session[x].to
      /\ session' = [session EXCEPT ![x].at = IF @ = "grace" THEN "move" ELSE "grant",
                                    ![x].graced = eligible /\ StandingView(u) = {},
                                    ![x].entitled = eligible,
                                    ![x].standing = OwnedBy(u) \cap Live]

CheckGrace(x, eligible) ==
  /\ At(x, "grace")
  /\ Decision(x, eligible)
  /\ UNCHANGED <<grants, lead>>

(* No grant was due, or the user had a share. *)
NothingDue(x) == ~session[x].entitled \/ session[x].standing # {}

(* The insertion at the end of maybeGrantReassignmentGrace. *)
GrantGrace(x) ==
  IF session[x].graced
    THEN \E g \in Grant \ made : Insert(g, session[x].user, {}, Grace)
    ELSE UNCHANGED grants

GraceBlocked(x) == session[x].graced /\ ~PairFree(session[x].user)
GraceWaits(x) ==
  session[x].graced /\ \E g \in OwnedBy(session[x].user) : Locked(g)

(* The request has given a fresh grace grant to whom it read. *)
Given(x) ==
  \E g \in made' \ made :
    owner'[g] = session[x].user /\ left'[g] = Grace /\ extra'[g] = {}

Provided(x) == IF NothingDue(x) \/ Given(x) THEN ReadBy(x) ELSE {}

(* assignments_current_type_uq: no current assignment but the one read. *)
SlotFree(x) ==
  LET s == session[x].slot
  IN  holder[s] = NoUser \/ move[s] = session[x].move

Assign(x) ==
  LET s == session[x].slot
  IN  /\ holder' = [holder EXCEPT ![s] = session[x].to]
      /\ move' = [move EXCEPT ![s] = @ + 1]

(* The replacement commits, unless another assignment is current by now or  *)
(* the grace grant meets an unrevoked row: then the whole reassignment is   *)
(* rolled back.                                                             *)
Replace(x) ==
  /\ SlotFree(x) /\ ~GraceBlocked(x)
  /\ Assign(x)
  /\ GrantGrace(x)
  /\ owed' = (owed \cup ReadBy(x)) \ Provided(x)

Reassign(x) ==
  /\ At(x, "move")
  /\ ~GraceWaits(x)
  /\ \/ Replace(x)
     \/ /\ ~SlotFree(x) \/ GraceBlocked(x)
        /\ UNCHANGED <<grants, holder, move, owed>>
  /\ Ends(x)
  /\ UNCHANGED <<leadActive, cut>>

-----------------------------------------------------------------------------
(* routing-assign: assign on the plain client.  The assignment that was     *)
(* read is ended by its id, whatever has become of it ...                   *)
End(x) ==
  LET s == session[x].slot
  IN  /\ At(x, "end")
      /\ Goes(x, "create")
      /\ IF move[s] = session[x].move /\ holder[s] # NoUser
           THEN /\ holder' = [holder EXCEPT ![s] = NoUser]
                /\ owed' = owed \cup ReadBy(x)
           ELSE UNCHANGED <<holder, owed>>
      /\ UNCHANGED <<grants, leadActive, move, cut>>

(* ... the new one is created; the cursor and the activity follow ...       *)
Create(x) ==
  /\ At(x, "create")
  /\ holder[session[x].slot] = NoUser
  /\ Assign(x)
  /\ Goes(x, "decide")
  /\ UNCHANGED <<grants, leadActive, owed, cut>>

CreateConflicts(x) ==
  /\ At(x, "create")
  /\ holder[session[x].slot] # NoUser
  /\ Ends(x)
  /\ cut' = cut \cup (owed \cap ReadBy(x))
  /\ UNCHANGED <<grants, leadActive, holder, move, owed>>

(* ... maybeGrantReassignmentGrace reads ...                                *)
DecideGrace(x, eligible) ==
  /\ At(x, "decide")
  /\ Decision(x, eligible)
  /\ UNCHANGED <<grants, lead>>

(* ... and inserts the grant, if that is what it decided, or fails.         *)
InsertGrace(x) ==
  /\ At(x, "grant")
  /\ ~GraceWaits(x)
  /\ IF GraceBlocked(x)
       THEN cut' = cut \cup (owed \cap ReadBy(x)) /\ UNCHANGED <<grants, owed>>
       ELSE GrantGrace(x) /\ owed' = owed \ Provided(x) /\ UNCHANGED cut
  /\ Ends(x)
  /\ UNCHANGED <<leadActive, holder, move>>

-----------------------------------------------------------------------------
(* deactivate: the lead was active when it was read ... *)
ReadLead(x) ==
  /\ At(x, "idle")
  /\ leadActive
  /\ session' = [session EXCEPT ![x] = [Idle EXCEPT !.at = "sweep"]]
  /\ UNCHANGED <<grants, lead>>

(* ... its row is updated by id, which waits for another deactivation, and  *)
(* its unrevoked shares are revoked ...                                     *)
Sweep(x) ==
  /\ At(x, "sweep")
  /\ \A y \in Session : ~At(y, "close")
  /\ session' = [session EXCEPT ![x].at = "close", ![x].swept = Unrevoked]
  /\ UNCHANGED <<grants, lead>>

(* ... and all of it becomes visible at the commit. *)
Close(x) ==
  /\ At(x, "close")
  /\ leadActive' = FALSE
  /\ revoked' = revoked \cup session[x].swept
  /\ Ends(x)
  /\ UNCHANGED <<made, owner, extra, left, holder, move, owed, cut>>

(* A routing-assign that has come past the end of an assignment.            *)
Underway(x) == session[x].at \in {"create", "decide", "grant"}

(* A statement fails or the process dies: a transaction is rolled back, of  *)
(* a routing-assign what it has done stays.                                 *)
Fail(x) ==
  /\ ~At(x, "idle")
  /\ Ends(x)
  /\ cut' = cut \cup (IF Underway(x) THEN owed \cap ReadBy(x) ELSE {})
  /\ UNCHANGED <<grants, leadActive, holder, move, owed>>

-----------------------------------------------------------------------------
(* Expiry is passive: only the clock moves. *)
Tick ==
  /\ \E g \in made : left[g] > 0
  /\ left' = [g \in Grant |-> IF left[g] > 0 THEN left[g] - 1 ELSE 0]
  /\ UNCHANGED <<made, owner, extra, revoked, lead, session>>

Request(x) ==
  \/ \E u \in User, E \in Capabilities, days \in Duration : Share(x, u, E, days)
  \/ \E g \in Grant :
       \/ \E E \in Capabilities : ReadGrant(x, g, "update", E)
       \/ ReadGrant(x, g, "revoke", {})
  \/ \E s \in Slot, v \in User :
       \/ ReadSlot(x, s, v, "grace")
       \/ holder[s] # v /\ ReadSlot(x, s, v, "end")
  \/ ReadLead(x)

Proceed(x) ==
  \/ FindExisting(x)
  \/ InsertShare(x)
  \/ Update(x)
  \/ Revoke(x)
  \/ \E eligible \in BOOLEAN : CheckGrace(x, eligible)
  \/ Reassign(x)
  \/ End(x) \/ Create(x) \/ CreateConflicts(x) \/ InsertGrace(x)
  \/ \E eligible \in BOOLEAN : DecideGrace(x, eligible)
  \/ Sweep(x)
  \/ Close(x)

Next ==
  \/ \E x \in Session : Request(x) \/ Proceed(x) \/ Fail(x)
  \/ Tick

Spec == Init /\ [][Next]_vars

-----------------------------------------------------------------------------
(* Properties.                                                              *)

(* migration.sql: "One live share per (user, lead)".  Shares, grace grants  *)
(* of two slots at once and deactivations never leave a user two.           *)
OneShareEach ==
  \A g, h \in Unrevoked : owner[g] = owner[h] => g = h

(* A share only wanes.  No request revives a revoked row or moves an expiry *)
(* out: reassignment-grace.ts calls that "a surprising action-at-a-distance"*)
SharesOnlyWane ==
  [][\A g \in made :
       /\ g \in made' /\ owner'[g] = owner[g]
       /\ g \in revoked => g \in revoked'
       /\ left'[g] <= left[g]]_vars

(* access-model.md: eligible users "receive a 30-day view-only grant the    *)
(* instant they stop being a lead's assignee".  Whoever was entitled to it  *)
(* and is no longer the assignee has been given one, or had a live share    *)
(* when that was decided, or was replaced by a routing-assign that is still *)
(* under way or stopped short: no reassignment that is a transaction, and   *)
(* no routing-assign that answers, leaves its previous holder without.      *)
PreviousHolderKeepsView ==
  owed \subseteq cut \cup UNION {ReadBy(x) : x \in {y \in Session : Underway(y)}}

(* reassignment-grace.ts: "Called from inside the same transaction as a     *)
(* genuine reassignment".  Not by routing-assign: whoever it failed after   *)
(* having ended their assignment is left without.                           *)
NobodyIsCutShort ==
  owed \subseteq UNION {ReadBy(x) : x \in {y \in Session : Underway(y)}}

(* access-model.md: "Expiry is fully passive: a grant simply stops          *)
(* satisfying" the queries.  Only a share that still counts is in the way   *)
(* of a reassignment's grace grant.                                         *)
ExpiredIsNoObstacle ==
  [][\A x \in Session :
       session[x].at \in {"move", "grant"} /\ session'[x] = Idle /\ owed' = owed
         /\ GraceBlocked(x)
       => OwnedBy(session[x].user) \cap Live # {}]_vars

(* Users, slots, requests and grants are interchangeable. *)
Symmetry ==
  Permutations(User) \cup Permutations(Slot) \cup Permutations(Session)
    \cup Permutations(Grant)
=============================================================================
