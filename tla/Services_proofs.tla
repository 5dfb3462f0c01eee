---------------------------- MODULE Services_proofs ----------------------------
(***************************************************************************)
(* Accounts, bulk imports and the page over them, stored files and         *)
(* notifications, for any clients, files, rules and bounds.                *)
(*                                                                         *)
(* Of accounts: what the guards of the statements and the rows the         *)
(* transactions hold guarantee of passwords, tokens, sessions and locks.   *)
(* Of imports: that a job, its leads and its preview tell one story, as    *)
(* leads and configuration decide the outcome of every row.  Of files:     *)
(* that no row is ahead of its object, wherever a request stops.  Of       *)
(* notifications: what an evaluation knows of rules edited beside it.  Of   *)
(* the import page: that what it commits was previewed.                    *)
(***************************************************************************)
EXTENDS LeadImport, Accounts, StoredFiles, Notifications, ImportWizard, FiniteSetTheorems, SequenceTheorems,
        WellFoundedInduction, TLAPS

-----------------------------------------------------------------------------
(* Accounts.                                                                *)

(* A count is covered by the failures recorded, and no history outgrows its  *)
(* bound.                                                                    *)
Covered ==
  /\ Len(failed) <= MaxFail /\ Len(writes) <= MaxWrite
  /\ attempt.count <= Len(failed)
  /\ \A c \in Client : task[c].op \in {"login", "wrong"} => task[c].saw.count <= Len(failed)

Typed == AcctTypeOK /\ Covered

(* What a request knows is told by the statement it is at. *)
LEMMA TaskKinds ==
  ASSUME AcctTypeOK, NEW c \in Client
  PROVE  /\ task[c].op = "login" => task[c] \in [op : {"login"}, at : 0 .. MaxTime, password : Password, saw : Attempt]
         /\ task[c].op = "wrong" => task[c] \in [op : {"wrong"}, at : 0 .. MaxTime, saw : Attempt]
         /\ task[c].op \in {"right", "cleared"} => task[c] \in [op : {"right", "cleared"}, at : 0 .. MaxTime, proof : Hash]
         /\ task[c].op \in {"found", "claimed"} => task[c] \in [op : {"found", "claimed"}, token : 1 .. MaxToken, password : Password]
         /\ task[c].op = "change" => task[c] \in [op : {"change"}, session : 1 .. MaxSession, password : Password]
         /\ task[c].op = "verified" => task[c] \in [op : {"verified"}, session : 1 .. MaxSession, expected : Hash]
<1>1. task[c] \in Task
  BY DEF AcctTypeOK
<1> QED
  BY <1>1 DEF Task, AtRest

LEMMA RevokedType ==
  ASSUME sessions \in Seq(SessionRow), NEW S
  PROVE  /\ Revoked(S) \in Seq(SessionRow) /\ Len(Revoked(S)) = Len(sessions)
         /\ DOMAIN Revoked(S) = DOMAIN sessions
         /\ \A i \in DOMAIN sessions :
              /\ Revoked(S)[i].born = sessions[i].born
              /\ sessions[i].revoked \/ i \in S => Revoked(S)[i].revoked
<1>1. \A i \in DOMAIN sessions : sessions[i] \in SessionRow
  OBVIOUS
<1>2. \A i \in DOMAIN sessions : [sessions[i] EXCEPT !.revoked = TRUE] \in SessionRow
  BY <1>1 DEF SessionRow
<1>3. DOMAIN sessions = 1 .. Len(sessions) /\ Len(sessions) \in Nat
  OBVIOUS
<1>4. Revoked(S) \in [1 .. Len(sessions) -> SessionRow]
  BY <1>1, <1>2, <1>3 DEF Revoked
<1>5. \A i \in DOMAIN sessions : Revoked(S)[i].born = sessions[i].born
  BY <1>1 DEF Revoked, SessionRow
<1>6. \A i \in DOMAIN sessions : sessions[i].revoked \/ i \in S => Revoked(S)[i].revoked
  BY <1>1 DEF Revoked, SessionRow
<1> QED
  BY <1>3, <1>4, <1>5, <1>6

LEMMA TokensType ==
  ASSUME AcctTypeOK
  PROVE  /\ DOMAIN tokens = 1 .. Len(tokens) /\ Len(tokens) \in Nat
         /\ \A t \in DOMAIN tokens : tokens[t] \in TokenRow
         /\ \A t : /\ [tokens EXCEPT ![t].used = TRUE] \in Seq(TokenRow)
                   /\ Len([tokens EXCEPT ![t].used = TRUE]) = Len(tokens)
<1>1. tokens \in Seq(TokenRow)
  BY DEF AcctTypeOK
<1>2. DOMAIN tokens = 1 .. Len(tokens) /\ Len(tokens) \in Nat /\ \A t \in DOMAIN tokens : tokens[t] \in TokenRow
  BY <1>1
<1>3. ASSUME NEW t
      PROVE  /\ [tokens EXCEPT ![t].used = TRUE] \in Seq(TokenRow)
             /\ Len([tokens EXCEPT ![t].used = TRUE]) = Len(tokens)
  <2>1. \A k \in DOMAIN tokens : [tokens[k] EXCEPT !.used = TRUE] \in TokenRow
    BY <1>2 DEF TokenRow
  <2>2. [tokens EXCEPT ![t].used = TRUE] \in [1 .. Len(tokens) -> TokenRow]
    BY <1>2, <2>1
  <2> QED
    BY <1>2, <2>2
<1> QED
  BY <1>2, <1>3

LEMMA ConstantTypes ==
  /\ MaxTime \in Nat /\ LockFor \in Nat /\ SessionTtl \in Nat /\ TokenTtl \in Nat /\ MaxWrite \in Nat
  /\ MaxFail \in Nat /\ MaxToken \in Nat \ {0} /\ MaxSession \in Nat /\ Window \in Nat
  BY AccountsAssumption

-----------------------------------------------------------------------------
(* Types *)

LEMMA TypedInit == AcctInit => Typed
<1> SUFFICES ASSUME AcctInit PROVE Typed
  OBVIOUS
<1> USE ConstantTypes DEF AcctInit
<1>1. attempt \in Attempt /\ attempt.count = 0 /\ hash \in Hash
  BY DEF Attempt, None, Hash
<1>2. tokens \in Seq(TokenRow) /\ Len(tokens) = 1
  BY DEF TokenRow
<1>3. task \in [Client -> Task] /\ \A c \in Client : task[c].op = "idle"
  BY DEF Task, AtRest
<1>4. AcctTypeOK
  BY <1>1, <1>2, <1>3 DEF AcctTypeOK
<1>5. Covered
  BY <1>1, <1>3 DEF Covered
<1> QED
  BY <1>4, <1>5 DEF Typed

(* A request that moves on to a task of the right kind. *)
LEMMA GoesType ==
  ASSUME AcctTypeOK, NEW c \in Client, NEW t \in Task, Goes(c, t)
  PROVE  /\ task' \in [Client -> Task] /\ task'[c] = t
         /\ \A d \in Client \ {c} : task'[d] = task[d]
  BY DEF AcctTypeOK, Goes

LEMMA LoginTyped ==
  ASSUME Typed, NEW c \in Client,
         (\E p \in Password : BeginLogin(c, p)) \/ Verify(c) \/ RecordFailure(c) \/ ClearAttempt(c) \/ IssueSession(c)
  PROVE  Typed'
<1> USE ConstantTypes DEF Typed
<1>0. AtRest \in Task /\ AtRest.op = "idle"
  BY DEF Task, AtRest
<1>1. ASSUME NEW p \in Password, BeginLogin(c, p) PROVE Typed'
  <2> DEFINE t == [op |-> "login", at |-> now, password |-> p, saw |-> attempt]
  <2>1. t \in Task
    BY DEF AcctTypeOK, Task
  <2>2. task' \in [Client -> Task] /\ task'[c] = t /\ \A d \in Client \ {c} : task'[d] = task[d]
    BY <1>1, <2>1, GoesType DEF BeginLogin
  <2>3. AcctTypeOK'
    BY <1>1, <2>2 DEF BeginLogin, AcctTypeOK
  <2>4. Covered'
    BY <1>1, <2>2 DEF BeginLogin, Covered
  <2> QED
    BY <2>3, <2>4
<1>2. CASE Verify(c)
  <2> DEFINE t == IF active /\ Matches(task[c].password)
                  THEN [op |-> "right", at |-> task[c].at, proof |-> hash]
                  ELSE [op |-> "wrong", at |-> task[c].at, saw |-> task[c].saw]
  <2>1. task[c] \in [op : {"login"}, at : 0 .. MaxTime, password : Password, saw : Attempt]
    BY <1>2, TaskKinds DEF Verify
  <2>2. t \in Task /\ (t.op \in {"login", "wrong"} => t.saw = task[c].saw)
    BY <2>1 DEF AcctTypeOK, Task
  <2>3. task' \in [Client -> Task] /\ task'[c] = t /\ \A d \in Client \ {c} : task'[d] = task[d]
    BY <1>2, <2>2, GoesType DEF Verify
  <2>4. AcctTypeOK'
    BY <1>2, <2>3 DEF Verify, AcctTypeOK
  <2>5. Covered'
    BY <1>2, <2>2, <2>3 DEF Verify, Covered
  <2> QED
    BY <2>4, <2>5
<1>3. CASE RecordFailure(c)
  <2>1. task[c] \in [op : {"wrong"}, at : 0 .. MaxTime, saw : Attempt]
    BY <1>3, TaskKinds DEF RecordFailure
  <2>2. task' \in [Client -> Task] /\ task'[c] = AtRest /\ \A d \in Client \ {c} : task'[d] = task[d]
    BY <1>0, <1>3, GoesType DEF RecordFailure
  <2>3. failed' \in Seq(0 .. MaxTime) /\ Len(failed') = Len(failed) + 1 /\ Len(failed) < MaxFail /\ Len(failed) \in Nat
    BY <1>3, <2>1 DEF RecordFailure, AcctTypeOK
  <2>4. task[c].saw.count <= Len(failed) /\ task[c].saw \in Attempt /\ task[c].at \in 0 .. MaxTime
    BY <1>3, <2>1 DEF RecordFailure, Covered
  <2>5. attempt' \in Attempt /\ attempt'.count <= Len(failed) + 1
    <3> DEFINE count == IF WithinWindow(task[c].at, task[c].saw) THEN task[c].saw.count + 1 ELSE 1
               since == IF WithinWindow(task[c].at, task[c].saw) THEN task[c].saw.since ELSE task[c].at
               until == IF count >= MaxAttempts THEN task[c].at + LockFor ELSE 0
    <3>1. count \in 0 .. MaxFail /\ count <= Len(failed) + 1
      <4>1. task[c].saw.count \in Nat
        BY <2>4 DEF Attempt
      <4>2. CASE WithinWindow(task[c].at, task[c].saw)
        <5>1. count = task[c].saw.count + 1
          BY <4>2
        <5> HIDE DEF count, since, until
        <5>2. ASSUME NEW n \in Nat, NEW m \in Nat, n <= m, m < MaxFail
              PROVE  n + 1 \in 0 .. MaxFail /\ n + 1 <= m + 1
          BY <5>2, ConstantTypes
        <5> QED
          BY <2>3, <2>4, <4>1, <5>1, <5>2
      <4>3. CASE ~WithinWindow(task[c].at, task[c].saw)
        BY <2>3, <4>3
      <4> QED
        BY <4>2, <4>3
    <3>2. since \in 0 .. MaxTime /\ until \in 0 .. MaxTime + LockFor
      <4> HIDE DEF count
      <4>1. since \in 0 .. MaxTime
        BY <2>4 DEF Attempt
      <4>2. task[c].at + LockFor \in 0 .. MaxTime + LockFor /\ 0 \in 0 .. MaxTime + LockFor
        BY <2>4, ConstantTypes
      <4> QED
        BY <4>1, <4>2
    <3>3. attempt' = [count |-> count, since |-> since, until |-> until]
      BY <1>3 DEF RecordFailure, Counted
    <3> QED
      BY <3>1, <3>2, <3>3 DEF Attempt
  <2>6. AcctTypeOK'
    BY <1>3, <2>2, <2>3, <2>5 DEF RecordFailure, AcctTypeOK
  <2>7. \A d \in Client : task'[d].op \in {"login", "wrong"} => task'[d].saw.count <= Len(failed')
    <3> SUFFICES ASSUME NEW d \in Client, task'[d].op \in {"login", "wrong"}
                 PROVE  task'[d].saw.count <= Len(failed')
      OBVIOUS
    <3>1. d # c /\ task'[d] = task[d]
      BY <1>0, <2>2
    <3>2. task[d].saw \in Attempt /\ task[d].saw.count <= Len(failed)
      BY <3>1, TaskKinds DEF Covered
    <3>3. task[d].saw.count \in Nat
      BY <3>2, ConstantTypes DEF Attempt
    <3>4. \A n \in Nat : n <= Len(failed) => n <= Len(failed')
      BY <2>3
    <3> QED
      BY <3>1, <3>2, <3>3, <3>4
  <2>8. Covered'
    BY <1>3, <2>3, <2>5, <2>7 DEF RecordFailure, Covered
  <2> QED
    BY <2>6, <2>8
<1>4. CASE ClearAttempt(c)
  <2>1. task[c] \in [op : {"right", "cleared"}, at : 0 .. MaxTime, proof : Hash]
    BY <1>4, TaskKinds DEF ClearAttempt
  <2>2. [task[c] EXCEPT !.op = "cleared"] \in [op : {"right", "cleared"}, at : 0 .. MaxTime, proof : Hash]
    BY <2>1
  <2>3. [task[c] EXCEPT !.op = "cleared"] \in Task /\ [task[c] EXCEPT !.op = "cleared"].op = "cleared"
    BY <2>1, <2>2 DEF Task
  <2>4. task' \in [Client -> Task] /\ task'[c].op = "cleared" /\ \A d \in Client \ {c} : task'[d] = task[d]
    BY <1>4, <2>3, GoesType DEF ClearAttempt
  <2>5. None \in Attempt /\ None.count = 0
    BY DEF None, Attempt
  <2>6. AcctTypeOK'
    BY <1>4, <2>4, <2>5 DEF ClearAttempt, AcctTypeOK
  <2>7. Len(failed) \in Nat
    BY DEF AcctTypeOK
  <2>8. Covered'
    BY <1>4, <2>4, <2>5, <2>7 DEF ClearAttempt, Covered
  <2> QED
    BY <2>6, <2>8
<1>5. CASE IssueSession(c)
  <2>1. task[c] \in [op : {"right", "cleared"}, at : 0 .. MaxTime, proof : Hash]
    BY <1>5, TaskKinds DEF IssueSession
  <2>2. SignedIn(task[c].at, task[c].proof) \in SessionRow
    BY <2>1 DEF SignedIn, SessionRow, AcctTypeOK, Covered
  <2>3. task' \in [Client -> Task] /\ task'[c] = AtRest /\ \A d \in Client \ {c} : task'[d] = task[d]
    BY <1>0, <1>5, GoesType DEF IssueSession
  <2>4. sessions' \in Seq(SessionRow) /\ Len(sessions') <= MaxSession
    BY <1>5, <2>2 DEF IssueSession, AcctTypeOK
  <2>5. AcctTypeOK'
    BY <1>5, <2>3, <2>4 DEF IssueSession, AcctTypeOK
  <2>6. Covered'
    BY <1>0, <1>5, <2>3 DEF IssueSession, Covered
  <2> QED
    BY <2>5, <2>6
<1> QED
  BY <1>1, <1>2, <1>3, <1>4, <1>5

(* A request that is not a login leaves the counts alone. *)
LEMMA CoveredStays ==
  ASSUME Covered, UNCHANGED <<attempt, failed>>, Len(writes') <= MaxWrite,
         \A d \in Client : task'[d] = task[d] \/ task'[d].op \notin {"login", "wrong"}
  PROVE  Covered'
  BY DEF Covered

LEMMA TokenTyped ==
  ASSUME Typed, NEW c \in Client,
         (\E p \in Password, k \in DOMAIN tokens : FindToken(c, k, p)) \/ Claim(c) \/ SetPassword(c) \/ LockInvited(c) \/ Invite(c) \/ Abort(c)
  PROVE  Typed'
<1> USE ConstantTypes DEF Typed
<1>0. AtRest \in Task /\ AtRest.op = "idle"
  BY DEF Task, AtRest
<1>1. ASSUME NEW p \in Password, NEW k \in DOMAIN tokens, FindToken(c, k, p) PROVE Typed'
  <2> DEFINE t == [op |-> "found", token |-> k, password |-> p]
  <2>1. k \in 1 .. MaxToken
    BY DEF AcctTypeOK
  <2>2. t \in Task
    BY <2>1 DEF Task
  <2>3. task' \in [Client -> Task] /\ task'[c] = t /\ \A d \in Client \ {c} : task'[d] = task[d]
    BY <1>1, <2>2, GoesType DEF FindToken
  <2>4. AcctTypeOK'
    BY <1>1, <2>3 DEF FindToken, AcctTypeOK
  <2>5. Covered'
    BY <1>1, <2>3 DEF FindToken, Covered
  <2> QED
    BY <2>4, <2>5
<1>2. CASE Claim(c)
  <2> DEFINE t == IF Claimable(task[c].token) THEN [task[c] EXCEPT !.op = "claimed"] ELSE AtRest
  <2>1. task[c] \in [op : {"found", "claimed"}, token : 1 .. MaxToken, password : Password]
    BY <1>2, TaskKinds DEF Claim
  <2>2. /\ [task[c] EXCEPT !.op = "claimed"] \in [op : {"found", "claimed"}, token : 1 .. MaxToken, password : Password]
        /\ [task[c] EXCEPT !.op = "claimed"].op = "claimed"
    BY <2>1
  <2>3. [task[c] EXCEPT !.op = "claimed"] \in Task
    BY <2>2 DEF Task
  <2>4. t \in Task /\ t.op \notin {"login", "wrong"}
    BY <1>0, <2>2, <2>3
  <2>5. task' \in [Client -> Task] /\ task'[c] = t /\ \A d \in Client \ {c} : task'[d] = task[d]
    BY <1>2, <2>4, GoesType DEF Claim
  <2>6. AcctTypeOK'
    BY <1>2, <2>5 DEF Claim, AcctTypeOK
  <2>7. Covered'
    BY <1>2, <2>4, <2>5, CoveredStays DEF Claim, Covered
  <2> QED
    BY <2>6, <2>7
<1>3. CASE SetPassword(c)
  <2>1. task[c] \in [op : {"found", "claimed"}, token : 1 .. MaxToken, password : Password]
    BY <1>3, TaskKinds DEF SetPassword
  <2>2. Len(writes) \in Nat /\ Len(writes) + 1 \in 1 .. MaxWrite
    BY <1>3 DEF SetPassword, AcctTypeOK
  <2>3. hash' \in Hash
    BY <1>3, <2>1, <2>2 DEF SetPassword, Hash
  <2>4. writes' \in Seq(Write) /\ Len(writes') = Len(writes) + 1
    BY <1>3, <2>1 DEF SetPassword, Write, AcctTypeOK
  <2>5. tokens' \in Seq(TokenRow) /\ Len(tokens') = Len(tokens)
    BY <1>3, <2>1, TokensType DEF SetPassword
  <2>6. sessions' \in Seq(SessionRow) /\ Len(sessions') = Len(sessions)
    BY <1>3, RevokedType DEF SetPassword, AcctTypeOK
  <2>7. task' \in [Client -> Task] /\ task'[c] = AtRest /\ \A d \in Client \ {c} : task'[d] = task[d]
    BY <1>0, <1>3, GoesType DEF SetPassword
  <2>8. AcctTypeOK'
    BY <1>3, <2>3, <2>4, <2>5, <2>6, <2>7 DEF SetPassword, AcctTypeOK
  <2>9. Covered'
    BY <1>0, <1>3, <2>2, <2>4, <2>7, CoveredStays DEF SetPassword
  <2> QED
    BY <2>8, <2>9
<1>4. CASE LockInvited(c)
  <2>1. [op |-> "inviting"] \in Task
    BY DEF Task
  <2>2. task' \in [Client -> Task] /\ task'[c] = [op |-> "inviting"] /\ \A d \in Client \ {c} : task'[d] = task[d]
    BY <1>4, <2>1, GoesType DEF LockInvited
  <2>3. AcctTypeOK'
    BY <1>4, <2>2 DEF LockInvited, AcctTypeOK
  <2>4. Covered'
    BY <1>4, <2>2 DEF LockInvited, Covered
  <2> QED
    BY <2>3, <2>4
<1>5. CASE Invite(c)
  <2> DEFINE spent == [t \in DOMAIN tokens |-> [tokens[t] EXCEPT !.used = TRUE]]
  <2>1. \A t \in DOMAIN tokens : [tokens[t] EXCEPT !.used = TRUE] \in TokenRow
    BY TokensType DEF TokenRow
  <2>2. spent \in Seq(TokenRow) /\ Len(spent) = Len(tokens)
    BY <2>1, TokensType
  <2>3. Fresh \in TokenRow
    BY DEF Fresh, TokenRow, AcctTypeOK
  <2>4. tokens' \in Seq(TokenRow) /\ Len(tokens') <= MaxToken
    <3> HIDE DEF spent
    <3> QED
      BY <1>5, <2>2, <2>3 DEF Invite, AcctTypeOK, spent
  <2>5. task' \in [Client -> Task] /\ task'[c] = AtRest /\ \A d \in Client \ {c} : task'[d] = task[d]
    BY <1>0, <1>5, GoesType DEF Invite
  <2>6. AcctTypeOK'
    BY <1>5, <2>4, <2>5 DEF Invite, AcctTypeOK
  <2>7. Covered'
    BY <1>0, <1>5, <2>5, CoveredStays DEF Invite, Covered
  <2> QED
    BY <2>6, <2>7
<1>6. CASE Abort(c)
  <2>1. task' \in [Client -> Task] /\ task'[c] = AtRest /\ \A d \in Client \ {c} : task'[d] = task[d]
    BY <1>0, <1>6, GoesType DEF Abort
  <2>2. AcctTypeOK'
    BY <1>6, <2>1 DEF Abort, AcctTypeOK
  <2>3. Covered'
    BY <1>0, <1>6, <2>1, CoveredStays DEF Abort, Covered
  <2> QED
    BY <2>2, <2>3
<1> QED
  BY <1>1, <1>2, <1>3, <1>4, <1>5, <1>6

LEMMA ChangeTyped ==
  ASSUME Typed, NEW c \in Client,
         \/ \E p \in Password, i \in DOMAIN sessions : BeginChange(c, i, p)
         \/ VerifyCurrent(c) \/ \E p \in Password : Replace(c, p)
  PROVE  Typed'
<1> USE ConstantTypes DEF Typed
<1>0. AtRest \in Task /\ AtRest.op = "idle"
  BY DEF Task, AtRest
<1>1. ASSUME NEW p \in Password, NEW i \in DOMAIN sessions, BeginChange(c, i, p) PROVE Typed'
  <2> DEFINE t == [op |-> "change", session |-> i, password |-> p]
  <2>1. i \in 1 .. MaxSession
    BY DEF AcctTypeOK
  <2>2. t \in Task
    BY <2>1 DEF Task
  <2>3. task' \in [Client -> Task] /\ task'[c] = t /\ \A d \in Client \ {c} : task'[d] = task[d]
    BY <1>1, <2>2, GoesType DEF BeginChange
  <2>4. AcctTypeOK'
    BY <1>1, <2>3 DEF BeginChange, AcctTypeOK
  <2>5. Covered'
    BY <1>1, <2>3 DEF BeginChange, Covered
  <2> QED
    BY <2>4, <2>5
<1>2. CASE VerifyCurrent(c)
  <2> DEFINE t == IF Matches(task[c].password)
                  THEN [op |-> "verified", session |-> task[c].session, expected |-> hash] ELSE AtRest
  <2>1. task[c] \in [op : {"change"}, session : 1 .. MaxSession, password : Password]
    BY <1>2, TaskKinds DEF VerifyCurrent
  <2>2. [op |-> "verified", session |-> task[c].session, expected |-> hash] \in Task
    BY <2>1 DEF Task, AcctTypeOK
  <2>3. t \in Task /\ t.op \notin {"login", "wrong"}
    BY <1>0, <2>2
  <2>4. task' \in [Client -> Task] /\ task'[c] = t /\ \A d \in Client \ {c} : task'[d] = task[d]
    BY <1>2, <2>3, GoesType DEF VerifyCurrent
  <2>5. AcctTypeOK'
    BY <1>2, <2>4 DEF VerifyCurrent, AcctTypeOK
  <2>6. Covered'
    BY <1>2, <2>3, <2>4, CoveredStays DEF VerifyCurrent, Covered
  <2> QED
    BY <2>5, <2>6
<1>3. ASSUME NEW p \in Password, Replace(c, p) PROVE Typed'
  <2>1. task[c] \in [op : {"verified"}, session : 1 .. MaxSession, expected : Hash]
    BY <1>3, TaskKinds DEF Replace
  <2>2. task' \in [Client -> Task] /\ task'[c] = AtRest /\ \A d \in Client \ {c} : task'[d] = task[d]
    BY <1>0, <1>3, GoesType DEF Replace
  <2>3. CASE Unchanged(task[c].expected)
    <3>1. Len(writes) \in Nat /\ Len(writes) + 1 \in 1 .. MaxWrite
      BY <1>3, <2>3 DEF Replace, AcctTypeOK
    <3>2. hash' \in Hash
      BY <1>3, <2>3, <3>1 DEF Replace, Hash
    <3>0. [by |-> "session", session |-> task[c].session, expected |-> task[c].expected] \in Write
      BY <2>1 DEF Write
    <3>3. writes' \in Seq(Write) /\ Len(writes') = Len(writes) + 1
      <4>1. writes' = Append(writes, [by |-> "session", session |-> task[c].session, expected |-> task[c].expected])
        BY <1>3, <2>3 DEF Replace
      <4> QED
        BY <3>0, <4>1 DEF AcctTypeOK
    <3>4. sessions' \in Seq(SessionRow) /\ Len(sessions') = Len(sessions)
      BY <1>3, <2>3, RevokedType DEF Replace, AcctTypeOK
    <3>5. AcctTypeOK'
      BY <1>3, <2>2, <3>2, <3>3, <3>4 DEF Replace, AcctTypeOK
    <3>6. Covered'
      BY <1>0, <1>3, <2>2, <3>1, <3>3, CoveredStays DEF Replace
    <3> QED
      BY <3>5, <3>6
  <2>4. CASE ~Unchanged(task[c].expected)
    <3>1. UNCHANGED <<hash, sessions, writes>>
      BY <1>3, <2>4 DEF Replace
    <3>2. AcctTypeOK'
      BY <1>3, <2>2, <3>1 DEF Replace, AcctTypeOK
    <3>3. Covered'
      BY <1>0, <1>3, <2>2, <3>1, CoveredStays DEF Replace, Covered
    <3> QED
      BY <3>2, <3>3
  <2> QED
    BY <2>3, <2>4
<1> QED
  BY <1>1, <1>2, <1>3

LEMMA TypedStep ==
  ASSUME Typed, [AcctNext]_acct
  PROVE  Typed'
<1> USE ConstantTypes DEF Typed
<1>1. CASE Tick
  BY <1>1 DEF Tick, AcctTypeOK, Covered
<1>2. CASE RequestReset
  <2>1. Fresh \in TokenRow
    BY DEF Fresh, TokenRow, AcctTypeOK
  <2>2. tokens' \in Seq(TokenRow) /\ Len(tokens') <= MaxToken
    BY <1>2, <2>1 DEF RequestReset, AcctTypeOK
  <2> QED
    BY <1>2, <2>2 DEF RequestReset, AcctTypeOK, Covered
<1>3. CASE Deactivate \/ \E i \in DOMAIN sessions : Logout(i)
  <2>1. sessions' \in Seq(SessionRow) /\ Len(sessions') = Len(sessions)
    BY <1>3, RevokedType DEF Deactivate, Logout, AcctTypeOK
  <2> QED
    BY <1>3, <2>1 DEF Deactivate, Logout, AcctTypeOK, Covered
<1>4. ASSUME NEW c \in Client,
             \/ \E p \in Password : BeginLogin(c, p) \/ Replace(c, p)
             \/ \E p \in Password, t \in DOMAIN tokens : FindToken(c, t, p)
             \/ \E p \in Password, i \in DOMAIN sessions : BeginChange(c, i, p)
             \/ Verify(c) \/ RecordFailure(c) \/ ClearAttempt(c) \/ IssueSession(c)
             \/ Claim(c) \/ SetPassword(c) \/ VerifyCurrent(c) \/ LockInvited(c) \/ Invite(c) \/ Abort(c)
      PROVE  Typed'
  <2> QED
    BY <1>4, LoginTyped, TokenTyped, ChangeTyped
<1>5. CASE UNCHANGED acct
  BY <1>5 DEF acct, AcctTypeOK, Covered
<1> QED
  BY <1>1, <1>2, <1>3, <1>4, <1>5 DEF AcctNext

-----------------------------------------------------------------------------
(* Passwords and tokens *)

(* The hash is of the last write, and a change knows one that was there.     *)
HashIsOfTheLastWrite ==
  /\ hash # NoHash => hash.salt = Len(writes)
  /\ \A c \in Client : task[c].op = "verified" => task[c].expected # NoHash

(* A token that is claimed is not used yet, and is claimed by one request.   *)
ClaimsHold ==
  /\ \A c \in Client : task[c].op \in {"found", "claimed"} => task[c].token \in DOMAIN tokens
  /\ \A c \in Client : task[c].op = "claimed" => ~tokens[task[c].token].used
  /\ \A c, d \in Client :
       task[c].op = "claimed" /\ task[d].op = "claimed" /\ task[c].token = task[d].token => c = d
  /\ \A k \in Spent : writes[k].token \in DOMAIN tokens

Passwords == HashIsOfTheLastWrite /\ ChangesReplaceWhatTheySaw /\ InvitesPrecedePasswords
Tokens == ClaimsHold /\ TokensSetOnce

(* Most steps bring no request to a statement about passwords and tokens.    *)
Harmless == {"idle", "login", "wrong", "right", "cleared", "change"}
Quiet ==
  /\ UNCHANGED <<hash, tokens, writes>>
  /\ \A d \in Client : task'[d] = task[d] \/ task'[d].op \in Harmless
  /\ UserLocked => active' = active

Weighty(c) ==
  \/ \E p \in Password, t \in DOMAIN tokens : FindToken(c, t, p)
  \/ Claim(c) \/ SetPassword(c) \/ VerifyCurrent(c) \/ LockInvited(c) \/ Invite(c)
  \/ \E p \in Password : Replace(c, p)

LEMMA MostAreQuiet ==
  ASSUME Typed, [AcctNext]_acct
  PROVE  Quiet \/ RequestReset \/ \E c \in Client : Weighty(c)
<1> USE DEF Typed
<1>1. CASE Tick \/ Deactivate \/ (\E i \in DOMAIN sessions : Logout(i)) \/ UNCHANGED acct
  BY <1>1 DEF Tick, Deactivate, Logout, acct, Quiet
<1>2. ASSUME NEW c \in Client,
             \/ \E p \in Password : BeginLogin(c, p)
             \/ \E p \in Password, i \in DOMAIN sessions : BeginChange(c, i, p)
             \/ Verify(c) \/ RecordFailure(c) \/ IssueSession(c) \/ Abort(c)
      PROVE  Quiet
  <2>1. task'[c].op \in Harmless /\ \A d \in Client \ {c} : task'[d] = task[d]
    BY <1>2 DEF AcctTypeOK, BeginLogin, BeginChange, Verify, RecordFailure, IssueSession, Abort, Goes, AtRest, Harmless
  <2>2. UNCHANGED <<hash, tokens, writes, active>>
    BY <1>2 DEF BeginLogin, BeginChange, Verify, RecordFailure, IssueSession, Abort
  <2> QED
    BY <2>1, <2>2 DEF Quiet
<1>3. ASSUME NEW c \in Client, ClearAttempt(c)
      PROVE  Quiet
  <2>1. task[c] \in [op : {"right", "cleared"}, at : 0 .. MaxTime, proof : Hash]
    BY <1>3, TaskKinds DEF ClearAttempt
  <2>2. [task[c] EXCEPT !.op = "cleared"].op = "cleared"
    BY <2>1
  <2>3. task'[c].op \in Harmless /\ \A d \in Client \ {c} : task'[d] = task[d]
    BY <1>3, <2>2 DEF AcctTypeOK, ClearAttempt, Goes, Harmless
  <2> QED
    BY <1>3, <2>3 DEF ClearAttempt, Quiet
<1> QED
  BY <1>1, <1>2, <1>3 DEF AcctNext, Weighty

LEMMA WritesType ==
  ASSUME Typed
  PROVE  /\ DOMAIN writes = 1 .. Len(writes) /\ Len(writes) \in Nat
         /\ \A w : LET more == Append(writes, w) IN
              /\ DOMAIN more = 1 .. Len(writes) + 1 /\ Len(more) = Len(writes) + 1
              /\ more[Len(writes) + 1] = w /\ \A k \in DOMAIN writes : more[k] = writes[k]
<1>1. writes \in Seq(Write)
  BY DEF Typed, AcctTypeOK
<1>2. DOMAIN writes = 1 .. Len(writes) /\ Len(writes) \in Nat
  BY <1>1
<1>3. ASSUME NEW w
      PROVE  /\ DOMAIN Append(writes, w) = 1 .. Len(writes) + 1 /\ Len(Append(writes, w)) = Len(writes) + 1
             /\ Append(writes, w)[Len(writes) + 1] = w /\ \A k \in DOMAIN writes : Append(writes, w)[k] = writes[k]
  <2>1. writes \in Seq(Write \cup {w}) /\ w \in Write \cup {w}
    BY <1>1
  <2> QED
    BY <1>2, <2>1
<1> QED
  BY <1>2, <1>3

LEMMA PasswordsStep ==
  ASSUME Typed, Passwords, [AcctNext]_acct
  PROVE  Passwords'
<1> USE DEF Typed, Passwords
<1>1. CASE Quiet
  <2>1. HashIsOfTheLastWrite'
    BY <1>1 DEF Quiet, HashIsOfTheLastWrite, Harmless
  <2>2. ChangesReplaceWhatTheySaw'
    BY <1>1 DEF Quiet, ChangesReplaceWhatTheySaw
  <2>3. InvitesPrecedePasswords'
    BY <1>1 DEF Quiet, InvitesPrecedePasswords, Harmless, UserLocked
  <2> QED
    BY <2>1, <2>2, <2>3
<1>2. CASE RequestReset
  BY <1>2 DEF RequestReset, HashIsOfTheLastWrite, ChangesReplaceWhatTheySaw, InvitesPrecedePasswords
<1>3. ASSUME NEW c \in Client, Weighty(c)
      PROVE  Passwords'
  <2>1. ASSUME NEW p \in Password, NEW t \in DOMAIN tokens, FindToken(c, t, p)
        PROVE  Passwords'
    BY <2>1 DEF FindToken, Goes, AcctTypeOK, HashIsOfTheLastWrite, ChangesReplaceWhatTheySaw, InvitesPrecedePasswords
  <2>2. CASE Claim(c)
    <3>1. task[c] \in [op : {"found", "claimed"}, token : 1 .. MaxToken, password : Password]
      BY <2>2, TaskKinds DEF Claim
    <3>2. [task[c] EXCEPT !.op = "claimed"].op = "claimed"
      BY <3>1
    <3>3. task'[c].op \in {"claimed", "idle"} /\ \A d \in Client \ {c} : task'[d] = task[d]
      BY <2>2, <3>2 DEF Claim, Goes, AcctTypeOK, AtRest
    <3> QED
      BY <2>2, <3>3 DEF Claim, HashIsOfTheLastWrite, ChangesReplaceWhatTheySaw, InvitesPrecedePasswords
  <2>3. CASE SetPassword(c)
    <3>1. task'[c].op = "idle" /\ \A d \in Client \ {c} : task'[d] = task[d]
      BY <2>3 DEF SetPassword, Goes, AcctTypeOK, AtRest
    <3>2. hash'.salt = Len(writes') /\ DOMAIN writes' = 1 .. Len(writes) + 1
      BY <2>3, WritesType DEF SetPassword
    <3>3. writes'[Len(writes) + 1].by = "token" /\ \A k \in DOMAIN writes : writes'[k] = writes[k]
      BY <2>3, WritesType DEF SetPassword
    <3>4. HashIsOfTheLastWrite'
      BY <3>1, <3>2 DEF HashIsOfTheLastWrite
    <3>5. ChangesReplaceWhatTheySaw'
      BY <3>2, <3>3, WritesType DEF ChangesReplaceWhatTheySaw
    <3>6. InvitesPrecedePasswords'
      BY <2>3, <3>1 DEF SetPassword, UserLocked, InvitesPrecedePasswords
    <3> QED
      BY <3>4, <3>5, <3>6
  <2>4. CASE VerifyCurrent(c)
    <3>1. /\ task'[c].op = "idle" \/ (task'[c].op = "verified" /\ task'[c].expected = hash /\ hash # NoHash)
          /\ \A d \in Client \ {c} : task'[d] = task[d]
      BY <2>4 DEF VerifyCurrent, Goes, AcctTypeOK, AtRest, Matches
    <3> QED
      BY <2>4, <3>1 DEF VerifyCurrent, HashIsOfTheLastWrite, ChangesReplaceWhatTheySaw, InvitesPrecedePasswords
  <2>5. CASE LockInvited(c)
    <3>1. task'[c].op = "inviting" /\ \A d \in Client \ {c} : task'[d] = task[d]
      BY <2>5 DEF LockInvited, Goes, AcctTypeOK
    <3> QED
      BY <2>5, <3>1 DEF LockInvited, Invitable, HashIsOfTheLastWrite, ChangesReplaceWhatTheySaw, InvitesPrecedePasswords
  <2>6. CASE Invite(c)
    <3>1. task'[c].op = "idle" /\ \A d \in Client \ {c} : task'[d] = task[d]
      BY <2>6 DEF Invite, Goes, AcctTypeOK, AtRest
    <3> QED
      BY <2>6, <3>1 DEF Invite, HashIsOfTheLastWrite, ChangesReplaceWhatTheySaw, InvitesPrecedePasswords
  <2>7. ASSUME NEW p \in Password, Replace(c, p)
        PROVE  Passwords'
    <3>1. task'[c].op = "idle" /\ \A d \in Client \ {c} : task'[d] = task[d]
      BY <2>7 DEF Replace, Goes, AcctTypeOK, AtRest
    <3>2. CASE Unchanged(task[c].expected)
      <4>1. /\ hash' = [password |-> p, salt |-> Len(writes) + 1]
            /\ writes' = Append(writes, [by |-> "session", session |-> task[c].session, expected |-> task[c].expected])
        BY <2>7, <3>2 DEF Replace
      <4>2. task[c].expected # NoHash /\ task[c].expected.salt = Len(writes)
        BY <2>7, <3>2 DEF Replace, Unchanged, HashIsOfTheLastWrite
      <4>3. /\ DOMAIN writes' = 1 .. Len(writes) + 1 /\ Len(writes') = Len(writes) + 1
            /\ writes'[Len(writes) + 1].expected = task[c].expected
            /\ \A k \in DOMAIN writes : writes'[k] = writes[k]
        BY <4>1, WritesType
      <4>4. HashIsOfTheLastWrite'
        BY <3>1, <4>1, <4>3 DEF HashIsOfTheLastWrite
      <4>5. ChangesReplaceWhatTheySaw'
        BY <4>2, <4>3, WritesType DEF ChangesReplaceWhatTheySaw
      <4>6. InvitesPrecedePasswords'
        BY <2>7, <3>1 DEF Replace, UserLocked, InvitesPrecedePasswords
      <4> QED
        BY <4>4, <4>5, <4>6
    <3>3. CASE ~Unchanged(task[c].expected)
      BY <2>7, <3>1, <3>3 DEF Replace, HashIsOfTheLastWrite, ChangesReplaceWhatTheySaw, InvitesPrecedePasswords
    <3> QED
      BY <3>2, <3>3
  <2> QED
    BY <1>3, <2>1, <2>2, <2>3, <2>4, <2>5, <2>6, <2>7 DEF Weighty
<1> QED
  BY <1>1, <1>2, <1>3, MostAreQuiet

LEMMA TokensStep ==
  ASSUME Typed, Tokens, [AcctNext]_acct
  PROVE  Tokens'
<1> USE DEF Typed, Tokens
<1>1. CASE Quiet
  <2>1. Spent' = Spent
    BY <1>1 DEF Quiet, Spent
  <2>2. ClaimsHold'
    BY <1>1, <2>1 DEF Quiet, ClaimsHold, Harmless
  <2>3. TokensSetOnce'
    BY <1>1, <2>1 DEF Quiet, TokensSetOnce
  <2> QED
    BY <2>2, <2>3
<1>2. ASSUME NEW row, tokens' = Append(tokens, row), UNCHANGED <<task, writes>>
      PROVE  Tokens'
  <2>1. DOMAIN tokens' = 1 .. Len(tokens) + 1 /\ \A t \in DOMAIN tokens : tokens'[t] = tokens[t]
    <3>1. tokens \in Seq(TokenRow \cup {row}) /\ row \in TokenRow \cup {row}
      BY TokensType DEF AcctTypeOK
    <3> QED
      BY <1>2, <3>1
  <2>2. Spent' = Spent
    BY <1>2 DEF Spent
  <2>3. ClaimsHold'
    BY <1>2, <2>1, <2>2, TokensType DEF ClaimsHold
  <2>4. TokensSetOnce'
    BY <1>2, <2>1, <2>2 DEF TokensSetOnce, ClaimsHold
  <2> QED
    BY <2>3, <2>4
<1>3. ASSUME NEW c \in Client, Weighty(c)
      PROVE  Tokens'
  <2>1. ASSUME NEW p \in Password, NEW t \in DOMAIN tokens, FindToken(c, t, p)
        PROVE  Tokens'
    <3>1. /\ task'[c].op = "found" /\ task'[c].token = t /\ \A d \in Client \ {c} : task'[d] = task[d]
      BY <2>1 DEF FindToken, Goes, AcctTypeOK
    <3>2. Spent' = Spent /\ UNCHANGED <<tokens, writes>>
      BY <2>1 DEF FindToken, Spent
    <3>3. ClaimsHold'
      BY <3>1, <3>2 DEF ClaimsHold
    <3>4. TokensSetOnce'
      BY <3>2 DEF TokensSetOnce
    <3> QED
      BY <3>3, <3>4
  <2>2. CASE Claim(c)
    <3>1. task[c] \in [op : {"found", "claimed"}, token : 1 .. MaxToken, password : Password]
      BY <2>2, TaskKinds DEF Claim
    <3>2. [task[c] EXCEPT !.op = "claimed"].op = "claimed" /\ [task[c] EXCEPT !.op = "claimed"].token = task[c].token
      BY <3>1
    <3>3. /\ task'[c].op = "idle" \/ (task'[c].op = "claimed" /\ task'[c].token = task[c].token /\ Claimable(task[c].token))
          /\ \A d \in Client \ {c} : task'[d] = task[d]
      BY <2>2, <3>2 DEF Claim, Goes, AcctTypeOK, AtRest
    <3>4. Spent' = Spent /\ UNCHANGED <<tokens, writes>>
      BY <2>2 DEF Claim, Spent
    <3>5. \A d \in Client : task[d].op = "claimed" => task[d].token # task[c].token
      BY <2>2 DEF Claim, Claimed
    <3>6. ClaimsHold'
      <4>1. /\ \A d \in Client : task'[d].op \in {"found", "claimed"} => task'[d].token \in DOMAIN tokens'
            /\ \A d \in Client : task'[d].op = "claimed" => ~tokens'[task'[d].token].used
        BY <2>2, <3>3, <3>4 DEF Claim, ClaimsHold, Claimable
      <4>2. ASSUME NEW d \in Client, NEW e \in Client,
                   task'[d].op = "claimed", task'[e].op = "claimed", task'[d].token = task'[e].token
            PROVE  d = e
        BY <3>3, <3>5, <4>2 DEF ClaimsHold
      <4> QED
        BY <3>4, <4>1, <4>2 DEF ClaimsHold
    <3>7. TokensSetOnce'
      BY <3>4 DEF TokensSetOnce
    <3> QED
      BY <3>6, <3>7
  <2>3. CASE SetPassword(c)
    <3> DEFINE t == task[c].token
    <3>1. task'[c].op = "idle" /\ \A d \in Client \ {c} : task'[d] = task[d]
      BY <2>3 DEF SetPassword, Goes, AcctTypeOK, AtRest
    <3>2. t \in DOMAIN tokens /\ ~tokens[t].used /\ \A d \in Client : task[d].op = "claimed" /\ task[d].token = t => d = c
      BY <2>3 DEF SetPassword, ClaimsHold
    <3>3. /\ DOMAIN tokens' = DOMAIN tokens /\ tokens'[t].used
          /\ \A s \in DOMAIN tokens \ {t} : tokens'[s] = tokens[s]
      <4>1. tokens' = [tokens EXCEPT ![t].used = TRUE]
        BY <2>3 DEF SetPassword
      <4>2. tokens[t] \in TokenRow
        BY <3>2, TokensType
      <4> QED
        BY <3>2, <4>1, <4>2 DEF TokenRow
    <3>4. /\ DOMAIN writes' = 1 .. Len(writes) + 1
          /\ writes'[Len(writes) + 1] = [by |-> "token", token |-> t]
          /\ \A k \in DOMAIN writes : writes'[k] = writes[k]
      BY <2>3, WritesType DEF SetPassword
    <3>5. Spent' = Spent \cup {Len(writes) + 1}
      BY <3>4, WritesType DEF Spent
    <3>6. \A k \in Spent : writes[k].token # t /\ writes'[k] = writes[k]
      BY <3>2, <3>4 DEF TokensSetOnce, Spent
    <3>7. ClaimsHold'
      <4>1. \A d \in Client : task'[d].op \in {"found", "claimed"} => task'[d].token \in DOMAIN tokens'
        BY <3>1, <3>3 DEF ClaimsHold
      <4>2. \A d \in Client : task'[d].op = "claimed" => ~tokens'[task'[d].token].used
        BY <3>1, <3>2, <3>3 DEF ClaimsHold
      <4>3. \A d, e \in Client :
              task'[d].op = "claimed" /\ task'[e].op = "claimed" /\ task'[d].token = task'[e].token => d = e
        BY <3>1 DEF ClaimsHold
      <4>4. \A k \in Spent' : writes'[k].token \in DOMAIN tokens'
        BY <3>2, <3>3, <3>4, <3>5, <3>6 DEF ClaimsHold
      <4> QED
        BY <4>1, <4>2, <4>3, <4>4 DEF ClaimsHold
    <3>8. TokensSetOnce'
      <4>1. \A j, k \in Spent' : writes'[j].token = writes'[k].token => j = k
        BY <3>4, <3>5, <3>6 DEF TokensSetOnce
      <4>2. \A k \in Spent' : tokens'[writes'[k].token].used
        BY <3>3, <3>4, <3>5, <3>6 DEF TokensSetOnce, ClaimsHold
      <4> QED
        BY <4>1, <4>2 DEF TokensSetOnce
    <3> QED
      BY <3>7, <3>8
  <2>4. CASE VerifyCurrent(c) \/ LockInvited(c)
    <3>1. /\ task'[c].op \in {"idle", "verified", "inviting"} /\ \A d \in Client \ {c} : task'[d] = task[d]
      BY <2>4 DEF VerifyCurrent, LockInvited, Goes, AcctTypeOK, AtRest
    <3>2. Spent' = Spent /\ UNCHANGED <<tokens, writes>>
      BY <2>4 DEF VerifyCurrent, LockInvited, Spent
    <3>3. ClaimsHold'
      BY <3>1, <3>2 DEF ClaimsHold
    <3>4. TokensSetOnce'
      BY <3>2 DEF TokensSetOnce
    <3> QED
      BY <3>3, <3>4
  <2>5. CASE Invite(c)
    <3> DEFINE spent == [t \in DOMAIN tokens |-> [tokens[t] EXCEPT !.used = TRUE]]
    <3>1. task'[c].op = "idle" /\ \A d \in Client \ {c} : task'[d] = task[d]
      BY <2>5 DEF Invite, Goes, AcctTypeOK, AtRest
    <3>2. \A d \in Client : task[d].op # "claimed"
      BY <2>5 DEF Invite, Claimed, ClaimsHold
    <3>3. spent \in Seq(TokenRow) /\ Len(spent) = Len(tokens) /\ \A t \in DOMAIN tokens : spent[t].used
      <4>1. \A t \in DOMAIN tokens : [tokens[t] EXCEPT !.used = TRUE] \in TokenRow /\ [tokens[t] EXCEPT !.used = TRUE].used
        BY TokensType DEF TokenRow
      <4>2. spent \in [1 .. Len(tokens) -> TokenRow] /\ \A t \in DOMAIN tokens : spent[t].used
        BY <4>1, TokensType
      <4>3. Len(tokens) \in Nat
        BY TokensType
      <4> HIDE DEF spent
      <4> QED
        BY <4>2, <4>3
    <3>4. DOMAIN tokens' = 1 .. Len(tokens) + 1 /\ \A t \in DOMAIN tokens : tokens'[t].used
      <4>1. tokens' = Append(spent, Fresh)
        BY <2>5 DEF Invite
      <4>2. spent \in Seq(TokenRow \cup {Fresh}) /\ Fresh \in TokenRow \cup {Fresh}
        BY <3>3
      <4>3. Len(tokens) \in Nat /\ DOMAIN tokens = 1 .. Len(tokens)
        BY TokensType
      <4> HIDE DEF spent
      <4> QED
        BY <3>3, <4>1, <4>2, <4>3
    <3>5. Spent' = Spent /\ writes' = writes
      BY <2>5 DEF Invite, Spent
    <3>6. ClaimsHold'
      BY <3>1, <3>2, <3>4, <3>5, TokensType DEF ClaimsHold
    <3>7. TokensSetOnce'
      BY <3>4, <3>5 DEF TokensSetOnce, ClaimsHold
    <3> QED
      BY <3>6, <3>7
  <2>6. ASSUME NEW p \in Password, Replace(c, p)
        PROVE  Tokens'
    <3>1. task'[c].op = "idle" /\ (\A d \in Client \ {c} : task'[d] = task[d]) /\ tokens' = tokens
      BY <2>6 DEF Replace, Goes, AcctTypeOK, AtRest
    <3>2. Spent' = Spent /\ \A k \in Spent : writes'[k] = writes[k]
      <4>1. CASE Unchanged(task[c].expected)
        <5>1. /\ DOMAIN writes' = 1 .. Len(writes) + 1
              /\ writes'[Len(writes) + 1].by = "session"
              /\ \A k \in DOMAIN writes : writes'[k] = writes[k]
          BY <2>6, <4>1, WritesType DEF Replace
        <5> QED
          BY <5>1, WritesType DEF Spent
      <4>2. CASE ~Unchanged(task[c].expected)
        BY <2>6, <4>2 DEF Replace, Spent
      <4> QED
        BY <4>1, <4>2
    <3>3. ClaimsHold'
      BY <3>1, <3>2 DEF ClaimsHold
    <3>4. TokensSetOnce'
      BY <3>1, <3>2 DEF TokensSetOnce
    <3> QED
      BY <3>3, <3>4
  <2> QED
    BY <1>3, <2>1, <2>2, <2>3, <2>4, <2>5, <2>6 DEF Weighty
<1> QED
  BY <1>1, <1>2, <1>3, MostAreQuiet DEF RequestReset

-----------------------------------------------------------------------------
(* Sessions *)

(* Sessions that are only ended, and passwords that are not written.         *)
LEMMA SessionsStay ==
  ASSUME Typed, WritesEndSessions, writes' = writes, NEW S, sessions' = sessions \/ sessions' = Revoked(S)
  PROVE  WritesEndSessions'
<1>1. /\ DOMAIN sessions' = DOMAIN sessions
      /\ \A i \in DOMAIN sessions : sessions'[i].born = sessions[i].born /\ (sessions[i].revoked => sessions'[i].revoked)
  BY RevokedType DEF Typed, AcctTypeOK
<1> QED
  BY <1>1 DEF WritesEndSessions

LEMMA SessionsStep ==
  ASSUME Typed, WritesEndSessions, [AcctNext]_acct
  PROVE  WritesEndSessions'
<1> USE DEF Typed
<1>1. CASE Tick \/ RequestReset \/ UNCHANGED acct
  BY <1>1 DEF Tick, RequestReset, acct, WritesEndSessions
<1>2. CASE Deactivate \/ \E i \in DOMAIN sessions : Logout(i)
  BY <1>2, SessionsStay DEF Deactivate, Logout
<1>3. ASSUME NEW c \in Client, IssueSession(c)
      PROVE  WritesEndSessions'
  <2> DEFINE s == SignedIn(task[c].at, task[c].proof)
  <2>1. sessions' = Append(sessions, s) /\ writes' = writes /\ s.born = Len(writes)
    BY <1>3 DEF IssueSession, SignedIn
  <2>2. sessions \in Seq(SessionRow \cup {s}) /\ s \in SessionRow \cup {s}
    BY DEF AcctTypeOK
  <2>3. /\ DOMAIN sessions' = 1 .. Len(sessions) + 1 /\ DOMAIN sessions = 1 .. Len(sessions) /\ Len(sessions) \in Nat
        /\ sessions'[Len(sessions) + 1] = s /\ \A i \in DOMAIN sessions : sessions'[i] = sessions[i]
    <3> HIDE DEF s
    <3> QED
      BY <2>1, <2>2
  <2> QED
    BY <2>1, <2>3 DEF WritesEndSessions
<1>4. ASSUME NEW c \in Client, SetPassword(c)
      PROVE  WritesEndSessions'
  <2>1. DOMAIN sessions' = DOMAIN sessions /\ \A i \in DOMAIN sessions : sessions'[i].revoked
    BY <1>4, RevokedType DEF SetPassword, EndedByReset, AcctTypeOK
  <2> QED
    BY <2>1 DEF WritesEndSessions
<1>5. ASSUME NEW c \in Client, NEW p \in Password, Replace(c, p)
      PROVE  WritesEndSessions'
  <2>1. CASE Unchanged(task[c].expected)
    <3>1. /\ DOMAIN sessions' = DOMAIN sessions
          /\ \A i \in DOMAIN sessions \ {task[c].session} : sessions'[i].revoked
      BY <1>5, <2>1, RevokedType DEF Replace, EndedByChange, AcctTypeOK
    <3>2. /\ Len(writes') = Len(writes) + 1
          /\ writes'[Len(writes')].by = "session" /\ writes'[Len(writes')].session = task[c].session
      BY <1>5, <2>1, WritesType DEF Replace
    <3> QED
      BY <3>1, <3>2 DEF WritesEndSessions
  <2>2. CASE ~Unchanged(task[c].expected)
    BY <1>5, <2>2, SessionsStay DEF Replace
  <2> QED
    BY <2>1, <2>2
<1>6. ASSUME NEW c \in Client,
             \/ \E p \in Password : BeginLogin(c, p)
             \/ \E p \in Password, t \in DOMAIN tokens : FindToken(c, t, p)
             \/ \E p \in Password, i \in DOMAIN sessions : BeginChange(c, i, p)
             \/ Verify(c) \/ RecordFailure(c) \/ ClearAttempt(c)
             \/ Claim(c) \/ VerifyCurrent(c) \/ LockInvited(c) \/ Invite(c) \/ Abort(c)
      PROVE  WritesEndSessions'
  <2>1. UNCHANGED <<sessions, writes>>
    BY <1>6 DEF BeginLogin, FindToken, BeginChange, Verify, RecordFailure, ClearAttempt,
                Claim, VerifyCurrent, LockInvited, Invite, Abort
  <2> QED
    BY <2>1 DEF WritesEndSessions
<1> QED
  BY <1>1, <1>2, <1>3, <1>4, <1>5, <1>6 DEF AcctNext

-----------------------------------------------------------------------------
(* Locks *)

(* What was read is not of the future, and a window is not yet to come.      *)
ReadInTime ==
  /\ attempt.since <= now
  /\ \A c \in Client : task[c].op \in {"login", "wrong"} =>
       task[c].saw.since <= task[c].at /\ task[c].at <= now

Locks == ReadInTime /\ LocksAreEarned

(* The failures of a window, and that they only become more.                 *)
FailuresFrom(f, since) == {i \in DOMAIN f : f[i] \in since .. since + Window}

LEMMA FailuresAreFinite ==
  ASSUME AcctTypeOK, NEW since
  PROVE  IsFiniteSet(FailuresFrom(failed, since)) /\ Cardinality(FailuresFrom(failed, since)) \in Nat
<1>1. DOMAIN failed = 1 .. Len(failed) /\ Len(failed) \in Nat
  BY DEF AcctTypeOK
<1>2. IsFiniteSet(DOMAIN failed)
  BY <1>1, FS_Interval
<1>3. FailuresFrom(failed, since) \in SUBSET DOMAIN failed
  BY DEF FailuresFrom
<1> QED
  BY <1>2, <1>3, FS_Subset, FS_CardinalityType

LEMMA FailuresGrow ==
  ASSUME AcctTypeOK, AcctTypeOK', NEW at \in 0 .. MaxTime, failed' = Append(failed, at), NEW since \in 0 .. MaxTime
  PROVE  /\ Cardinality(FailuresFrom(failed, since)) \in Nat /\ Cardinality(FailuresFrom(failed', since)) \in Nat
         /\ Cardinality(FailuresFrom(failed, since)) <= Cardinality(FailuresFrom(failed', since))
         /\ at \in since .. since + Window =>
              Cardinality(FailuresFrom(failed', since)) = Cardinality(FailuresFrom(failed, since)) + 1
<1>1. /\ DOMAIN failed' = 1 .. Len(failed) + 1 /\ DOMAIN failed = 1 .. Len(failed) /\ Len(failed) \in Nat
      /\ failed'[Len(failed) + 1] = at /\ \A i \in DOMAIN failed : failed'[i] = failed[i]
  BY DEF AcctTypeOK
<1>2. FailuresFrom(failed, since) \in SUBSET FailuresFrom(failed', since)
  BY <1>1 DEF FailuresFrom
<1>3. IsFiniteSet(FailuresFrom(failed, since)) /\ IsFiniteSet(FailuresFrom(failed', since))
  <2>1. IsFiniteSet(FailuresFrom(failed, since))
    BY FailuresAreFinite
  <2>2. IsFiniteSet(DOMAIN failed')
    BY <1>1, FS_Interval
  <2>3. FailuresFrom(failed', since) \in SUBSET DOMAIN failed'
    BY DEF FailuresFrom
  <2> QED
    BY <2>1, <2>2, <2>3, FS_Subset
<1>4. Cardinality(FailuresFrom(failed, since)) <= Cardinality(FailuresFrom(failed', since))
  BY <1>2, <1>3, FS_Subset
<1>5. ASSUME at \in since .. since + Window
      PROVE  Cardinality(FailuresFrom(failed', since)) = Cardinality(FailuresFrom(failed, since)) + 1
  <2>1. FailuresFrom(failed', since) = FailuresFrom(failed, since) \cup {Len(failed) + 1} /\ Len(failed) + 1 \notin FailuresFrom(failed, since)
    BY <1>1, <1>5 DEF FailuresFrom
  <2> QED
    BY <1>3, <2>1, FS_AddElement
<1> QED
  BY <1>3, <1>4, <1>5, FS_CardinalityType

LEMMA LocksStep ==
  ASSUME Typed, Locks, [AcctNext]_acct
  PROVE  Locks'
<1> USE ConstantTypes DEF Typed, Locks
<1>0. Typed'
  BY TypedStep
<1>1. CASE Tick
  <2>1. ReadInTime'
    <3>1. attempt.since \in Nat /\ now \in Nat
      BY DEF AcctTypeOK, Attempt
    <3>2. \A c \in Client : task[c].op \in {"login", "wrong"} => task[c].at \in Nat
      BY TaskKinds
    <3> QED
      BY <1>1, <3>1, <3>2 DEF Tick, ReadInTime
  <2>2. LocksAreEarned'
    BY <1>1 DEF Tick, LocksAreEarned, Earned
  <2> QED
    BY <2>1, <2>2
<1>2. CASE UNCHANGED <<now, attempt, failed>> /\ \A d \in Client : task'[d] = task[d] \/ task'[d].op \notin {"login", "wrong"}
  <2>1. ReadInTime'
    BY <1>2 DEF ReadInTime
  <2>2. LocksAreEarned'
    BY <1>2 DEF LocksAreEarned, Earned
  <2> QED
    BY <2>1, <2>2
<1>3. ASSUME NEW c \in Client, NEW p \in Password, BeginLogin(c, p)
      PROVE  Locks'
  <2>1. /\ task'[c] = [op |-> "login", at |-> now, password |-> p, saw |-> attempt]
        /\ \A d \in Client \ {c} : task'[d] = task[d]
    BY <1>3 DEF BeginLogin, Goes, AcctTypeOK
  <2>0. task'[c].op = "login" /\ task'[c].at = now /\ task'[c].saw = attempt /\ UNCHANGED <<now, attempt, failed>>
    BY <1>3, <2>1 DEF BeginLogin
  <2>2. ReadInTime'
    <3>1. now <= now
      BY DEF AcctTypeOK
    <3> QED
      BY <2>0, <2>1, <3>1 DEF ReadInTime
  <2>3. LocksAreEarned'
    <3>1. ASSUME NEW d \in Client, task'[d].op \in {"login", "wrong"} PROVE Earned(task[d].saw)'
      <4>1. CASE d = c
        BY <2>0, <4>1 DEF LocksAreEarned, Earned
      <4>2. CASE d # c
        BY <2>0, <2>1, <3>1, <4>2 DEF LocksAreEarned, Earned
      <4> QED
        BY <4>1, <4>2
    <3>2. Earned(attempt)'
      BY <2>0 DEF LocksAreEarned, Earned
    <3> QED
      BY <3>1, <3>2 DEF LocksAreEarned
  <2> QED
    BY <2>2, <2>3
<1>4. ASSUME NEW c \in Client, Verify(c)
      PROVE  Locks'
  <2>1. /\ task'[c].op \in {"login", "wrong"} => task'[c].at = task[c].at /\ task'[c].saw = task[c].saw
        /\ \A d \in Client \ {c} : task'[d] = task[d]
    BY <1>4 DEF Verify, Goes, AcctTypeOK
  <2>2. ReadInTime'
    BY <1>4, <2>1 DEF Verify, ReadInTime
  <2>3. LocksAreEarned'
    BY <1>4, <2>1 DEF Verify, LocksAreEarned, Earned
  <2> QED
    BY <2>2, <2>3
<1>5. ASSUME NEW c \in Client, RecordFailure(c)
      PROVE  Locks'
  <2> DEFINE at == task[c].at
             saw == task[c].saw
  <2>1. at \in 0 .. MaxTime /\ saw \in Attempt /\ saw.since <= at /\ at <= now
    BY <1>5, TaskKinds DEF RecordFailure, ReadInTime
  <2>2. /\ failed' = Append(failed, at) /\ attempt' = Counted(at, saw) /\ now' = now
        /\ task'[c].op = "idle" /\ \A d \in Client \ {c} : task'[d] = task[d]
    BY <1>5 DEF RecordFailure, Goes, AtRest, AcctTypeOK
  <2>3. \A since \in 0 .. MaxTime :
          /\ Cardinality(FailuresFrom(failed, since)) \in Nat /\ Cardinality(FailuresFrom(failed', since)) \in Nat
          /\ Cardinality(FailuresFrom(failed, since)) <= Cardinality(FailuresFrom(failed', since))
          /\ at \in since .. since + Window =>
               Cardinality(FailuresFrom(failed', since)) = Cardinality(FailuresFrom(failed, since)) + 1
    BY <1>0, <2>1, <2>2, FailuresGrow
  <2>4. saw.count <= Cardinality(FailuresFrom(failed, saw.since))
    BY <1>5 DEF RecordFailure, LocksAreEarned, Earned, FailuresFrom
  <2>5. attempt'.count <= Cardinality(FailuresFrom(failed', attempt'.since)) /\ attempt'.since <= at
    <3>1. CASE WithinWindow(at, saw)
      <4>1. attempt'.count = saw.count + 1 /\ attempt'.since = saw.since
        BY <2>2, <3>1 DEF Counted
      <4>2. saw.since \in 0 .. MaxTime /\ saw.count \in Nat /\ at \in saw.since .. saw.since + Window
        BY <2>1, <3>1 DEF WithinWindow, Attempt
      <4>3. Cardinality(FailuresFrom(failed', saw.since)) = Cardinality(FailuresFrom(failed, saw.since)) + 1
        BY <2>3, <4>2
      <4>4. saw.count + 1 <= Cardinality(FailuresFrom(failed', saw.since))
        BY <2>3, <2>4, <4>2, <4>3
      <4> QED
        BY <2>1, <4>1, <4>4
    <3>2. CASE ~WithinWindow(at, saw)
      <4>1. attempt'.count = 1 /\ attempt'.since = at
        BY <2>2, <3>2 DEF Counted
      <4>2. Cardinality(FailuresFrom(failed', at)) = Cardinality(FailuresFrom(failed, at)) + 1 /\ Cardinality(FailuresFrom(failed, at)) \in Nat
        BY <2>1, <2>3
      <4> QED
        BY <2>1, <4>1, <4>2
    <3> QED
      BY <3>1, <3>2
  <2>6. Earned(attempt)'
    BY <2>5 DEF Earned, FailuresFrom
  <2>7. ASSUME NEW d \in Client, task'[d].op \in {"login", "wrong"}
        PROVE  Earned(task[d].saw)' /\ task'[d] = task[d]
    <3>1. d # c /\ task'[d] = task[d]
      BY <2>2, <2>7
    <3>2. task[d].saw \in Attempt /\ Earned(task[d].saw)
      BY <2>7, <3>1, TaskKinds DEF LocksAreEarned
    <3>3. task[d].saw.since \in 0 .. MaxTime /\ task[d].saw.count \in Nat
      BY <3>2 DEF Attempt
    <3>4. task[d].saw.count <= Cardinality(FailuresFrom(failed, task[d].saw.since))
      BY <3>2 DEF Earned, FailuresFrom
    <3>5. Cardinality(FailuresFrom(failed', task[d].saw.since)) \in Nat
      BY <2>3, <3>3
    <3>6. task[d].saw.count <= Cardinality(FailuresFrom(failed', task[d].saw.since))
      BY <2>3, <3>3, <3>4, <3>5
    <3> QED
      BY <3>1, <3>6 DEF Earned, FailuresFrom
  <2>8. ReadInTime'
    <3>1. attempt'.since <= now'
      <4>0. attempt' \in Attempt /\ now \in 0 .. MaxTime
        BY <1>0 DEF AcctTypeOK
      <4>1. attempt'.since \in Nat /\ now \in Nat /\ at \in Nat
        BY <2>1, <4>0 DEF Attempt
      <4>2. attempt'.since <= at /\ at <= now /\ now' = now
        BY <2>1, <2>2, <2>5
      <4> HIDE DEF at, saw
      <4> QED
        BY <4>1, <4>2
    <3> QED
      BY <2>2, <2>7, <3>1 DEF ReadInTime
  <2> QED
    BY <2>6, <2>7, <2>8 DEF LocksAreEarned
<1>6. ASSUME NEW c \in Client, ClearAttempt(c)
      PROVE  Locks'
  <2>1. task[c] \in [op : {"right", "cleared"}, at : 0 .. MaxTime, proof : Hash]
    BY <1>6, TaskKinds DEF ClearAttempt
  <2>2. [task[c] EXCEPT !.op = "cleared"].op = "cleared"
    BY <2>1
  <2>3. /\ attempt' = None /\ failed' = failed /\ now' = now
        /\ task'[c].op = "cleared" /\ \A d \in Client \ {c} : task'[d] = task[d]
    BY <1>6, <2>2 DEF ClearAttempt, Goes, AcctTypeOK
  <2>4. ReadInTime'
    <3>1. attempt'.since = 0 /\ 0 <= now'
      BY <2>3 DEF None, AcctTypeOK
    <3> QED
      BY <2>3, <3>1 DEF ReadInTime
  <2>5. 0 <= Cardinality(FailuresFrom(failed, 0))
    BY FailuresAreFinite
  <2>6. Earned(attempt)'
    BY <2>3, <2>5 DEF Earned, None, FailuresFrom
  <2>7. LocksAreEarned'
    BY <2>3, <2>6 DEF LocksAreEarned, Earned
  <2> QED
    BY <2>4, <2>7
<1>7. ASSUME NEW c \in Client,
             \/ \E p \in Password, t \in DOMAIN tokens : FindToken(c, t, p)
             \/ \E p \in Password, i \in DOMAIN sessions : BeginChange(c, i, p)
             \/ \E p \in Password : Replace(c, p)
             \/ IssueSession(c) \/ SetPassword(c) \/ VerifyCurrent(c) \/ LockInvited(c) \/ Invite(c) \/ Abort(c)
      PROVE  Locks'
  <2>1. task'[c].op \notin {"login", "wrong"} /\ \A d \in Client \ {c} : task'[d] = task[d]
    <3>1. PICK t : Goes(c, t) /\ t.op \notin {"login", "wrong"}
      <4>1. CASE \E p \in Password, i \in DOMAIN tokens : FindToken(c, i, p)
        BY <4>1 DEF FindToken
      <4>2. CASE \E p \in Password, i \in DOMAIN sessions : BeginChange(c, i, p)
        BY <4>2 DEF BeginChange
      <4>3. CASE Goes(c, AtRest)
        BY <4>3 DEF AtRest
      <4>4. CASE VerifyCurrent(c)
        BY <4>4 DEF VerifyCurrent, AtRest
      <4>5. CASE LockInvited(c)
        BY <4>5 DEF LockInvited
      <4> QED
        BY <1>7, <4>1, <4>2, <4>3, <4>4, <4>5 DEF Replace, IssueSession, SetPassword, Invite, Abort
    <3> QED
      BY <1>2, <3>1 DEF Goes, AcctTypeOK
  <2>2. UNCHANGED <<now, attempt, failed>>
    BY <1>7 DEF FindToken, BeginChange, Replace, IssueSession, SetPassword, VerifyCurrent, LockInvited, Invite, Abort
  <2> QED
    BY <1>2, <2>1, <2>2
<1>8. ASSUME NEW c \in Client, Claim(c)
      PROVE  Locks'
  <2>1. task[c] \in [op : {"found", "claimed"}, token : 1 .. MaxToken, password : Password]
    BY <1>8, TaskKinds DEF Claim
  <2>2. [task[c] EXCEPT !.op = "claimed"].op = "claimed"
    BY <2>1
  <2>3. task'[c].op \notin {"login", "wrong"} /\ \A d \in Client \ {c} : task'[d] = task[d]
    BY <1>8, <2>2 DEF Claim, Goes, AtRest, AcctTypeOK
  <2> QED
    BY <1>2, <1>8, <2>3 DEF Claim
<1>9. CASE RequestReset \/ Deactivate \/ (\E i \in DOMAIN sessions : Logout(i)) \/ UNCHANGED acct
  BY <1>2, <1>9 DEF RequestReset, Deactivate, Logout, acct
<1> QED
  BY <1>1, <1>3, <1>4, <1>5, <1>6, <1>7, <1>8, <1>9 DEF AcctNext

-----------------------------------------------------------------------------
(* Every row, task and history keeps its type: a lockout counter is never    *)
(* above what was recorded, and no limit of a table is passed.               *)
THEOREM TypeCorrect == AcctSpec => []AcctTypeOK
<1>1. AcctInit => Typed
  BY TypedInit
<1>2. Typed /\ [AcctNext]_acct => Typed'
  BY TypedStep
<1>3. Typed => AcctTypeOK
  BY DEF Typed
<1> QED
  BY <1>1, <1>2, <1>3, PTL DEF AcctSpec

LEMMA AlwaysTyped == AcctSpec => []Typed
<1>1. AcctInit => Typed
  BY TypedInit
<1>2. Typed /\ [AcctNext]_acct => Typed'
  BY TypedStep
<1> QED
  BY <1>1, <1>2, PTL DEF AcctSpec

LEMMA PasswordsInit == AcctInit => Passwords
  BY DEF AcctInit, Passwords, HashIsOfTheLastWrite, ChangesReplaceWhatTheySaw, InvitesPrecedePasswords, AtRest

LEMMA AlwaysPasswords == AcctSpec => []Passwords
<1>1. AcctInit => Passwords
  BY PasswordsInit
<1>2. Typed /\ Passwords /\ [AcctNext]_acct => Passwords'
  BY PasswordsStep
<1> QED
  BY <1>1, <1>2, AlwaysTyped, PTL DEF AcctSpec

(* A change of the password replaces exactly the hash its request verified   *)
(* (replacePasswordAndRevokeOtherSessions compares the hash it was shown).   *)
THEOREM ChangesAreGuarded == AcctSpec => []ChangesReplaceWhatTheySaw
<1>1. Passwords => ChangesReplaceWhatTheySaw
  BY DEF Passwords
<1> QED
  BY <1>1, AlwaysPasswords, PTL

(* While an invitation is being renewed the account has no password and is   *)
(* not deactivated (resendInvite locks the user).                            *)
THEOREM InvitesComeFirst == AcctSpec => []InvitesPrecedePasswords
<1>1. Passwords => InvitesPrecedePasswords
  BY DEF Passwords
<1> QED
  BY <1>1, AlwaysPasswords, PTL

(* No token sets the password twice, whoever races for it.                   *)
THEOREM TokensAreSpent == AcctSpec => []TokensSetOnce
<1>1. AcctInit => Tokens
  BY DEF AcctInit, Tokens, ClaimsHold, TokensSetOnce, Spent, AtRest
<1>2. Typed /\ Tokens /\ [AcctNext]_acct => Tokens'
  BY TokensStep
<1>3. Tokens => TokensSetOnce
  BY DEF Tokens
<1> QED
  BY <1>1, <1>2, <1>3, AlwaysTyped, PTL DEF AcctSpec

(* Every write of the password leaves open only the session that made it and *)
(* those issued since.                                                       *)
THEOREM WritesEndTheRest == AcctSpec => []WritesEndSessions
<1>1. AcctInit => WritesEndSessions
  BY DEF AcctInit, WritesEndSessions
<1>2. Typed /\ WritesEndSessions /\ [AcctNext]_acct => WritesEndSessions'
  BY SessionsStep
<1> QED
  BY <1>1, <1>2, AlwaysTyped, PTL DEF AcctSpec

(* A count is covered by failures of its own window, so that a lock is       *)
(* always earned, whatever the overlap of logins loses.                      *)
THEOREM LocksFollowFailures == AcctSpec => []LocksAreEarned
<1>1. AcctInit => Locks
  <2> SUFFICES ASSUME AcctInit PROVE Locks
    OBVIOUS
  <2>1. AcctTypeOK
    BY TypedInit DEF Typed
  <2>2. 0 <= Cardinality(FailuresFrom(failed, 0))
    BY <2>1, FailuresAreFinite
  <2>3. Earned(attempt)
    BY <2>2 DEF AcctInit, Earned, None, FailuresFrom
  <2> QED
    BY <2>3 DEF AcctInit, Locks, ReadInTime, LocksAreEarned, None, AtRest
<1>2. Typed /\ Locks /\ [AcctNext]_acct => Locks'
  BY LocksStep
<1>3. Locks => LocksAreEarned
  BY DEF Locks
<1> QED
  BY <1>1, <1>2, <1>3, AlwaysTyped, PTL DEF AcctSpec

(* The account is guarded: all of the above at once, for any requests that   *)
(* overlap, any passwords and any times.                                     *)
THEOREM AccountStaysGuarded == AcctSpec => []AccountIsGuarded
<1>1. LocksAreEarned /\ WritesEndSessions /\ TokensSetOnce /\ InvitesPrecedePasswords
      /\ ChangesReplaceWhatTheySaw => AccountIsGuarded
  BY DEF AccountIsGuarded
<1> QED
  BY <1>1, LocksFollowFailures, WritesEndTheRest, TokensAreSpent, InvitesComeFirst,
     ChangesAreGuarded, PTL

-----------------------------------------------------------------------------
(* Imports.                                                                 *)

Created(o) == {i \in DOMAIN o : o[i] = "created"}
LeadOf(m, i) == [run |-> m.run, row |-> i, key |-> m.request.file[i].key, owner |-> m.request.file[i].owner]

(* What a run has written is what its outcomes say, and it ends with them.  *)
InStep(m) ==
  /\ Len(m.outcomes) <= Len(m.request.file)
  /\ m.at = "end" <=> Len(m.outcomes) = Len(m.request.file)
  /\ m.made = {LeadOf(m, i) : i \in Created(m.outcomes)}

(* A run is of one session, and has left nothing while it lasts.            *)
RunsApart ==
  /\ \A s \in Busy : /\ InStep(session[s]) /\ session[s].run <= begun
                     /\ jobs[session[s].run] = NoJob /\ \A l \in leads : l.run # session[s].run
  /\ \A s, t \in Busy : session[s].run = session[t].run => s = t
  /\ \A r \in Run : jobs[r] # NoJob => r <= begun
  /\ \A l \in leads : l.run <= begun

ImportInv == TypeOK /\ RunsApart /\ JobsAccountForLeads /\ StopMeansNothing

LEMMA ImportConstants ==
  /\ MaxRun \in Nat /\ MaxOther \in Nat /\ Blank \notin MatchKey \cup User
  /\ \A q \in Request : q.file \in Seq(Row) /\ Len(q.file) > 0
<1>1. MaxRun \in Nat /\ MaxOther \in Nat /\ Blank \notin MatchKey \cup User
  BY BlankAssumption
<1>2. ASSUME NEW q \in Request PROVE q.file \in Seq(Row) /\ Len(q.file) > 0
  <2>1. q.file \in File
    BY DEF Request
  <2>2. q.file \in Seq(Row) /\ q.file # <<>>
    BY <2>1, FileAssumption
  <2> QED
    BY <2>2
<1> QED
  BY <1>1, <1>2

LEMMA ImportInit == Init => ImportInv
<1> SUFFICES ASSUME Init PROVE ImportInv
  OBVIOUS
<1>1. TypeOK
  BY ImportConstants DEF Init, TypeOK, Config
<1>2. RunsApart
  BY DEF Init, RunsApart, Busy
<1>3. JobsAccountForLeads /\ StopMeansNothing
  BY DEF Init, JobsAccountForLeads, StopMeansNothing, NoJob
<1> QED
  BY <1>1, <1>2, <1>3 DEF ImportInv

(* A session that does something is an import.                              *)
LEMMA BusyIsImport ==
  ASSUME TypeOK, NEW s \in Session, session[s] # Idle
  PROVE  /\ session[s] \in Import /\ session[s].request \in Request /\ session[s].run \in Run
         /\ session[s].outcomes \in Seq(Outcome) /\ session[s].made \subseteq Lead
         /\ s \in Busy
<1>1. session[s] \in Import
  BY DEF TypeOK
<1> QED
  BY <1>1 DEF Import, Busy

LEMMA Underway ==
  ASSUME TypeOK, NEW s \in Session, At(s) # "idle"
  PROVE  session[s] # Idle
BY DEF At, Idle

(* An outcome of one row leaves everything else of the runs as it was.      *)
LEMMA DecidedIs ==
  ASSUME TypeOK, NEW s \in Session, session[s] # Idle, NEW o \in Outcome, NEW M \in SUBSET Lead, Decided(s, o, M)
  PROVE  /\ session' \in [Session -> Import \cup {Idle}]
         /\ \A t \in Session \ {s} : session'[t] = session[t]
         /\ session'[s] = [session[s] EXCEPT !.outcomes = Append(session[s].outcomes, o), !.made = M,
                             !.at = IF Len(session[s].outcomes) + 1 = Len(session[s].request.file) THEN "end" ELSE "row"]
         /\ session'[s] \in Import
<1> DEFINE m == session[s]
           n == [m EXCEPT !.outcomes = Append(m.outcomes, o), !.made = M,
                          !.at = IF Len(m.outcomes) + 1 = Len(m.request.file) THEN "end" ELSE "row"]
<1>1. m \in Import /\ m.outcomes \in Seq(Outcome)
  BY BusyIsImport
<1>2. session' = [session EXCEPT ![s] = n]
  BY DEF Decided
<1>3. Append(m.outcomes, o) \in Seq(Outcome)
  BY <1>1
<1>4. n \in Import
  BY <1>1, <1>3 DEF Import
<1>5. session \in [Session -> Import \cup {Idle}]
  BY DEF TypeOK
<1> HIDE DEF n
<1>6. session'[s] = n /\ session' \in [Session -> Import \cup {Idle}] /\ \A t \in Session \ {s} : session'[t] = session[t]
  BY <1>2, <1>4, <1>5
<1> QED
  BY <1>4, <1>6 DEF n

LEMMA DisturbedIs ==
  ASSUME TypeOK, NEW x, session' = Disturbed(x)
  PROVE  /\ session' \in [Session -> Import \cup {Idle}]
         /\ \A t \in Session : session'[t] # Idle =>
              /\ t # x /\ session[t] # Idle /\ session'[t] \in Import
              /\ session'[t] = [session[t] EXCEPT !.undisturbed = FALSE]
<1>1. ASSUME NEW t \in Session
      PROVE  \/ session'[t] = Idle
             \/ /\ t # x /\ session[t] # Idle /\ session'[t] \in Import
                /\ session'[t] = [session[t] EXCEPT !.undisturbed = FALSE]
  <2>1. CASE t = x \/ t \notin Busy
    BY <2>1 DEF Disturbed
  <2>2. CASE t # x /\ t \in Busy
    <3>1. session'[t] = [session[t] EXCEPT !.undisturbed = FALSE] /\ session[t] # Idle
      BY <2>2 DEF Disturbed, Busy
    <3>2. session[t] \in Import
      BY <3>1, BusyIsImport
    <3> QED
      BY <2>2, <3>1, <3>2 DEF Import
  <2> QED
    BY <2>1, <2>2
<1>2. DOMAIN session' = Session /\ session' = [t \in Session |-> session'[t]]
  BY DEF Disturbed
<1> QED
  BY <1>1, <1>2

(* Steps that keep every run where it was, or end it without a trace.       *)
LEMMA SameRuns ==
  ASSUME TypeOK, RunsApart, leads' = leads, jobs' = jobs, begun' = begun,
         \A t \in Session : session'[t] # Idle =>
           session[t] # Idle /\ session'[t].run = session[t].run /\ InStep(session'[t])
  PROVE  RunsApart'
<1>1. \A t \in Session : t \in Busy' => t \in Busy
  BY DEF Busy
<1>2. Busy' \subseteq Session /\ Busy \subseteq Session
  BY DEF Busy
<1>3. \A t \in Busy' : session'[t] # Idle
  BY DEF Busy
<1>4. \A t \in Busy' : session'[t].run = session[t].run /\ InStep(session'[t])
  BY <1>2, <1>3
<1> QED
  BY <1>1, <1>2, <1>4 DEF RunsApart

(* The end of a row is that of its run's record.                            *)
LEMMA RowInStep ==
  ASSUME NEW m \in Import, InStep(m), m.request \in Request, m.at # "end", NEW o \in Outcome,
         NEW n \in Import,
         n.outcomes = Append(m.outcomes, o), n.run = m.run, n.request = m.request,
         n.at = IF Len(m.outcomes) + 1 = Len(m.request.file) THEN "end" ELSE "row",
         n.made = IF o = "created" THEN m.made \cup {LeadOf(m, Len(m.outcomes) + 1)} ELSE m.made
  PROVE  InStep(n)
<1> DEFINE k == Len(m.outcomes) + 1
<1>1. /\ m.outcomes \in Seq(Outcome) /\ Len(m.outcomes) \in Nat
      /\ m.request.file \in Seq(Row) /\ Len(m.request.file) \in Nat
  BY ImportConstants DEF Import
<1>3. Len(n.outcomes) = k /\ DOMAIN n.outcomes = 1 .. k /\ DOMAIN m.outcomes = 1 .. k - 1
  BY <1>1
<1>4. \A i \in 1 .. k - 1 : n.outcomes[i] = m.outcomes[i]
  BY <1>1
<1>5. n.outcomes[k] = o
  BY <1>1
<1>6. Len(m.outcomes) < Len(m.request.file)
  BY <1>1 DEF InStep
<1>7. Created(n.outcomes) = IF o = "created" THEN Created(m.outcomes) \cup {k} ELSE Created(m.outcomes)
  <2>1. \A i : i \in 1 .. k <=> i \in 1 .. k - 1 \/ i = k
    BY <1>1
  <2> QED
    BY <1>3, <1>4, <1>5, <2>1 DEF Created
<1>8. \A i : LeadOf(n, i) = LeadOf(m, i)
  BY DEF LeadOf
<1>9. n.made = {LeadOf(n, i) : i \in Created(n.outcomes)}
  <2>1. m.made = {LeadOf(m, i) : i \in Created(m.outcomes)}
    BY DEF InStep
  <2> HIDE DEF k
  <2>2. CASE o = "created"
    <3>1. n.made = m.made \cup {LeadOf(m, k)} /\ Created(n.outcomes) = Created(m.outcomes) \cup {k}
      BY <1>7, <2>2 DEF k
    <3> QED
      BY <1>8, <2>1, <3>1
  <2>3. CASE o # "created"
    <3>1. n.made = m.made /\ Created(n.outcomes) = Created(m.outcomes)
      BY <1>7, <2>3 DEF k
    <3> QED
      BY <1>8, <2>1, <3>1
  <2> QED
    BY <2>2, <2>3
<1>10. Len(n.outcomes) <= Len(n.request.file) /\ (n.at = "end" <=> Len(n.outcomes) = Len(n.request.file))
  BY <1>1, <1>3, <1>6
<1> QED
  BY <1>9, <1>10 DEF InStep

LEMMA BeginStep ==
  ASSUME ImportInv, NEW s \in Session, NEW q \in Request, Begin(s, q)
  PROVE  ImportInv'
<1> DEFINE m == [at |-> "row", run |-> begun + 1, request |-> q, statuses |-> config.statuses,
                 users |-> config.users, outcomes |-> <<>>, made |-> {}, known |-> leads,
                 undisturbed |-> TRUE]
<1> USE DEF ImportInv
<1>1. session' = [session EXCEPT ![s] = m] /\ begun' = begun + 1
  BY DEF Begin
<1>2. /\ begun + 1 \in Run /\ config \in Config /\ leads \subseteq Lead
      /\ session \in [Session -> Import \cup {Idle}] /\ begun \in Nat
  BY ImportConstants DEF Begin, TypeOK, Run
<1>3. m \in Import
  BY <1>2 DEF Import, Config
<1>4. InStep(m)
  BY ImportConstants DEF InStep, Created
<1>5. m.run = begun + 1 /\ m # Idle
  BY DEF Idle
<1> HIDE DEF m
<1>6. session'[s] = m /\ \A t \in Session \ {s} : session'[t] = session[t]
  BY <1>1, <1>2
<1>7. UNCHANGED <<leads, jobs, config, others, foretold>>
  BY DEF Begin
<1>8. TypeOK'
  <2>1. session' \in [Session -> Import \cup {Idle}]
    BY <1>1, <1>2, <1>3
  <2>2. begun' \in 0 .. MaxRun
    BY <1>1, <1>2, ImportConstants DEF Run
  <2> QED
    BY <1>7, <2>1, <2>2 DEF TypeOK
<1>9. RunsApart'
  <2>1. \A t \in Busy' : t = s \/ (t # s /\ t \in Busy /\ session'[t] = session[t])
    BY <1>6 DEF Busy
  <2>2. \A t \in Busy : session[t].run \in Nat
    BY BusyIsImport, ImportConstants DEF Busy, Run
  <2>3. \A t \in Busy : session[t].run < begun + 1
    BY <1>2, <2>2 DEF RunsApart
  <2>4. \A t \in Busy : session[t].run <= begun + 1
    BY <1>2, <2>2 DEF RunsApart
  <2>5. \A t \in Busy' : InStep(session'[t]) /\ session'[t].run <= begun'
    BY <1>1, <1>2, <1>4, <1>5, <1>6, <2>1, <2>4 DEF RunsApart
  <2>6. \A t, u \in Busy' : session'[t].run = session'[u].run => t = u
    BY <1>2, <1>5, <1>6, <2>1, <2>2, <2>3 DEF RunsApart
  <2>7. \A r \in Run : jobs[r] # NoJob => r < begun + 1 /\ r <= begun + 1
    BY <1>2 DEF RunsApart, Run
  <2>8. \A l \in leads : l.run < begun + 1 /\ l.run <= begun + 1
    BY <1>2 DEF RunsApart, Run, Lead, Other
  <2>9. \A t \in Busy' : jobs[session'[t].run] = NoJob /\ \A l \in leads : l.run # session'[t].run
    BY <1>2, <1>5, <1>6, <2>1, <2>7, <2>8 DEF RunsApart
  <2> QED
    BY <1>1, <1>7, <2>5, <2>6, <2>7, <2>8, <2>9 DEF RunsApart
<1> QED
  BY <1>7, <1>8, <1>9 DEF JobsAccountForLeads, StopMeansNothing

(* What Match and CreateLead have in common: they end a row.                *)
LEMMA RowStep ==
  ASSUME ImportInv, NEW s \in Session, At(s) \in {"row", "create"}, NEW o \in Outcome,
         Decided(s, o, IF o = "created" THEN session[s].made \cup {LeadOf(session[s], Len(session[s].outcomes) + 1)}
                       ELSE session[s].made),
         UNCHANGED <<leads, jobs, config, begun, others, foretold>>
  PROVE  ImportInv'
<1> USE DEF ImportInv
<1> DEFINE m == session[s]
           l == LeadOf(m, Len(m.outcomes) + 1)
           M == IF o = "created" THEN m.made \cup {l} ELSE m.made
<1>1. m # Idle /\ m \in Import /\ m.request \in Request /\ m.outcomes \in Seq(Outcome) /\ m.made \subseteq Lead /\ m.run \in Run
      /\ s \in Busy
  BY Underway, BusyIsImport
<1>2. InStep(m) /\ m.at # "end"
  BY <1>1 DEF RunsApart, At
<1>3. l \in Lead
  <2>1. Len(m.outcomes) + 1 \in 1 .. Len(m.request.file)
    BY <1>1, <1>2, ImportConstants DEF InStep
  <2>2. m.request.file[Len(m.outcomes) + 1] \in Row
    BY <1>1, <2>1, ImportConstants
  <2>3. /\ m.request.file[Len(m.outcomes) + 1].key \in MatchKey \cup {Blank}
        /\ m.request.file[Len(m.outcomes) + 1].owner \in User \cup {Blank}
    BY <2>2 DEF Row
  <2>4. m.run \in {Other} \cup Run /\ Len(m.outcomes) + 1 \in Nat
    BY <1>1
  <2> HIDE DEF m
  <2> QED
    BY <2>3, <2>4 DEF LeadOf, Lead
<1>4. M \in SUBSET Lead
  <2>1. m.made \subseteq Lead /\ {l} \subseteq Lead
    BY <1>1, <1>3
  <2> HIDE DEF m, l
  <2> QED
    BY <2>1
<1>5. /\ session' \in [Session -> Import \cup {Idle}]
      /\ \A t \in Session \ {s} : session'[t] = session[t]
      /\ session'[s] = [m EXCEPT !.outcomes = Append(m.outcomes, o), !.made = M,
                             !.at = IF Len(m.outcomes) + 1 = Len(m.request.file) THEN "end" ELSE "row"]
      /\ session'[s] \in Import
  <2> HIDE DEF M
  <2>1. Decided(s, o, M)
    BY DEF M
  <2> QED
    BY <1>1, <1>4, <2>1, DecidedIs
<1>6. /\ session'[s].outcomes = Append(m.outcomes, o) /\ session'[s].made = M
      /\ session'[s].at = (IF Len(m.outcomes) + 1 = Len(m.request.file) THEN "end" ELSE "row")
      /\ session'[s].run = m.run /\ session'[s].request = m.request
  <2> HIDE DEF M
  <2> QED
    BY <1>1, <1>5 DEF Import
<1>7. InStep(session'[s])
  BY <1>1, <1>2, <1>5, <1>6, RowInStep
<1>8. TypeOK'
  BY <1>5 DEF TypeOK
<1>9. \A t \in Session : session'[t] # Idle =>
        session[t] # Idle /\ session'[t].run = session[t].run /\ InStep(session'[t])
  BY <1>1, <1>5, <1>6, <1>7 DEF RunsApart, Busy
<1>10. RunsApart'
  BY <1>9, SameRuns
<1> QED
  BY <1>8, <1>10 DEF JobsAccountForLeads, StopMeansNothing

LEMMA MatchStep ==
  ASSUME ImportInv, NEW s \in Session, Match(s)
  PROVE  ImportInv'
<1> DEFINE m == session[s]
<1>1. At(s) = "row" /\ UNCHANGED <<leads, jobs, config, begun, others, foretold>>
  BY DEF Match
<1>2. CASE \E o \in {"rejected", Skipped} : Decided(s, o, m.made)
  <2>1. PICK o \in {"rejected", Skipped} : Decided(s, o, m.made)
    BY <1>2
  <2>2. o \in Outcome /\ o # "created"
    BY DEF Skipped, Outcome
  <2>3. Decided(s, o, IF o = "created" THEN m.made \cup {LeadOf(m, Len(m.outcomes) + 1)} ELSE m.made)
    BY <2>1, <2>2
  <2> QED
    BY <1>1, <2>2, <2>3, RowStep
<1>3. CASE session' = [session EXCEPT ![s].at = "create"]
  <2>1. TypeOK /\ RunsApart
    BY DEF ImportInv
  <2>2. m # Idle /\ m \in Import /\ s \in Busy
    BY <1>1, <2>1, Underway, BusyIsImport
  <2>3. InStep(m) /\ m.at = "row"
    BY <1>1, <2>1, <2>2 DEF RunsApart, At
  <2>4. /\ session'[s] = [m EXCEPT !.at = "create"]
        /\ session' = [session EXCEPT ![s] = session'[s]]
        /\ \A t \in Session \ {s} : session'[t] = session[t]
    BY <1>3, <2>1 DEF TypeOK
  <2>5. session'[s] \in Import /\ session'[s].run = m.run /\ InStep(session'[s])
    BY <2>2, <2>3, <2>4 DEF Import, InStep, LeadOf
  <2>6. TypeOK'
    <3>1. session' \in [Session -> Import \cup {Idle}]
      BY <2>1, <2>4, <2>5 DEF TypeOK
    <3> QED
      BY <1>1, <2>1, <3>1 DEF TypeOK
  <2>7. \A t \in Session : session'[t] # Idle =>
          session[t] # Idle /\ session'[t].run = session[t].run /\ InStep(session'[t])
    BY <2>1, <2>2, <2>4, <2>5 DEF RunsApart, Busy
  <2>8. RunsApart'
    BY <1>1, <2>1, <2>7, SameRuns
  <2> QED
    BY <1>1, <2>6, <2>8 DEF ImportInv, JobsAccountForLeads, StopMeansNothing
<1> QED
  BY <1>2, <1>3 DEF Match

LEMMA CreateStep ==
  ASSUME ImportInv, NEW s \in Session, CreateLead(s)
  PROVE  ImportInv'
<1> DEFINE m == session[s]
           l == LeadOf(m, Len(m.outcomes) + 1)
<1>1. At(s) = "create" /\ UNCHANGED <<leads, jobs, config, begun, others, foretold>>
  BY DEF CreateLead
<1>2. RowOf(s) = m.request.file[Len(m.outcomes) + 1]
  BY DEF RowOf
<1>3. \/ Decided(s, "created", m.made \cup {l})
      \/ Decided(s, "rejected", m.made)
  BY <1>2 DEF CreateLead, LeadOf
<1>4. \E o \in {"created", "rejected"} : Decided(s, o, IF o = "created" THEN m.made \cup {l} ELSE m.made)
  <2>1. CASE Decided(s, "created", m.made \cup {l})
    BY <2>1
  <2>2. CASE Decided(s, "rejected", m.made)
    <3>1. Decided(s, "rejected", IF "rejected" = "created" THEN m.made \cup {l} ELSE m.made)
      BY <2>2
    <3> QED
      BY <3>1
  <2> QED
    BY <1>3, <2>1, <2>2
<1>5. PICK o \in {"created", "rejected"} : Decided(s, o, IF o = "created" THEN m.made \cup {l} ELSE m.made)
  BY <1>4
<1>6. o \in Outcome
  BY DEF Outcome
<1> QED
  BY <1>1, <1>5, <1>6, RowStep

LEMMA FaultStep ==
  ASSUME ImportInv, NEW s \in Session, session' = [session EXCEPT ![s] = Idle],
         leads' = leads, jobs' = jobs, config' = config, begun' = begun, others' = others, foretold' \subseteq Job
  PROVE  ImportInv'
<1> USE DEF ImportInv
<1>1. session'[s] = Idle /\ \A t \in Session \ {s} : session'[t] = session[t]
  BY DEF TypeOK
<1>2. TypeOK'
  <2>1. session' \in [Session -> Import \cup {Idle}]
    BY DEF TypeOK
  <2> QED
    BY <2>1 DEF TypeOK
<1>3. \A t \in Session : session'[t] # Idle =>
          session[t] # Idle /\ session'[t].run = session[t].run /\ InStep(session'[t])
  BY <1>1 DEF RunsApart, Busy
<1>4. RunsApart'
  BY <1>3, SameRuns
<1> QED
  BY <1>2, <1>4 DEF JobsAccountForLeads, StopMeansNothing

(* What is left of the others when something else is committed.             *)
LEMMA DisturbedInStep ==
  ASSUME TypeOK, RunsApart, NEW x, session' = Disturbed(x)
  PROVE  \A t \in Session : session'[t] # Idle =>
           t # x /\ session[t] # Idle /\ session'[t].run = session[t].run /\ InStep(session'[t])
<1> SUFFICES ASSUME NEW t \in Session, session'[t] # Idle
             PROVE  t # x /\ session[t] # Idle /\ session'[t].run = session[t].run /\ InStep(session'[t])
  OBVIOUS
<1>1. t # x /\ session[t] # Idle /\ session'[t] = [session[t] EXCEPT !.undisturbed = FALSE]
  BY DisturbedIs
<1>2. session[t] \in Import /\ t \in Busy
  BY <1>1, BusyIsImport
<1>3. InStep(session[t])
  BY <1>2 DEF RunsApart
<1> QED
  BY <1>1, <1>2, <1>3 DEF Import, InStep, LeadOf

LEMMA KeepStep ==
  ASSUME ImportInv, NEW s \in Session, At(s) = "end",
         NEW job, job = [request |-> session[s].request, outcomes |-> session[s].outcomes],
         Kept(session[s].request, job.outcomes),
         leads' = leads \cup session[s].made, jobs' = [jobs EXCEPT ![session[s].run] = job],
         session' = Disturbed(s), foretold' = {}, UNCHANGED <<config, begun, others>>
  PROVE  ImportInv'
<1> DEFINE m == session[s]
<1> USE DEF ImportInv
<1>1. m # Idle /\ m \in Import /\ m.request \in Request /\ m.outcomes \in Seq(Outcome) /\ m.made \subseteq Lead /\ m.run \in Run
      /\ s \in Busy
  BY Underway, BusyIsImport
<1>2. InStep(m) /\ m.at = "end" /\ m.run <= begun /\ \A l \in leads : l.run # m.run
  BY <1>1 DEF RunsApart, At
<1>3. job \in Job /\ job.request = m.request /\ job.outcomes = m.outcomes
  BY <1>1 DEF Job
<1>4. \A t \in Session : session'[t] # Idle =>
         t # s /\ session[t] # Idle /\ session'[t].run = session[t].run /\ InStep(session'[t])
  BY DisturbedInStep
<1>5. m.made = {LeadOf(m, i) : i \in Created(m.outcomes)}
  BY <1>2 DEF InStep
<1>6. \A i : LeadOf(m, i).run = m.run /\ LeadOf(m, i).row = i
  BY DEF LeadOf
<1>7. \A l \in m.made : l.run = m.run
  BY <1>5, <1>6
<1>8. \A r \in Run : jobs'[r] = IF r = m.run THEN job ELSE jobs[r]
  BY DEF TypeOK
<1>9. TypeOK'
  <2>1. session' \in [Session -> Import \cup {Idle}]
    BY DisturbedIs
  <2>2. jobs' \in [Run -> Job \cup {NoJob}]
    BY <1>1, <1>3 DEF TypeOK
  <2> QED
    BY <1>1, <2>1, <2>2 DEF TypeOK
<1>10. RunsApart'
  <2>1. \A t \in Busy' : t \in Session /\ t # s /\ session'[t] # Idle /\ t \in Busy
    BY <1>4 DEF Busy
  <2>2. \A t \in Busy' : session'[t].run = session[t].run /\ InStep(session'[t]) /\ session[t].run # m.run /\ session[t].run \in Run
    BY <1>1, <1>4, <2>1, BusyIsImport DEF RunsApart
  <2>3. \A t \in Busy' : session'[t].run <= begun'
    BY <2>1, <2>2 DEF RunsApart
  <2>4. \A t \in Busy' : jobs'[session'[t].run] = NoJob
    BY <1>8, <2>1, <2>2 DEF RunsApart
  <2>5. \A t \in Busy', l \in leads' : l.run # session'[t].run
    BY <1>7, <2>1, <2>2 DEF RunsApart
  <2>6. \A t, u \in Busy' : session'[t].run = session'[u].run => t = u
    BY <2>1, <2>2 DEF RunsApart
  <2>7. \A r \in Run : jobs'[r] # NoJob => r <= begun'
    BY <1>2, <1>8 DEF RunsApart
  <2>8. \A l \in leads' : l.run <= begun'
    BY <1>2, <1>7 DEF RunsApart
  <2> QED
    BY <2>2, <2>3, <2>4, <2>5, <2>6, <2>7, <2>8 DEF RunsApart
<1>11. JobsAccountForLeads'
  <2> SUFFICES ASSUME NEW r \in Run
               PROVE  /\ {l.row : l \in {l \in leads' : l.run = r}} = {i \in DOMAIN jobs'[r].outcomes : jobs'[r].outcomes[i] = "created"}
                      /\ jobs'[r] # NoJob => Len(jobs'[r].outcomes) = Len(jobs'[r].request.file)
    BY DEF JobsAccountForLeads
  <2>1. CASE r = m.run
    <3>1. {l \in leads' : l.run = r} = m.made
      BY <1>2, <1>7, <2>1
    <3>2. {l.row : l \in m.made} = Created(m.outcomes)
      BY <1>5, <1>6
    <3>3. Len(m.outcomes) = Len(m.request.file)
      BY <1>2 DEF InStep
    <3> QED
      BY <1>3, <1>8, <2>1, <3>1, <3>2, <3>3 DEF Created
  <2>2. CASE r # m.run
    <3>1. {l \in leads' : l.run = r} = {l \in leads : l.run = r}
      BY <1>7, <2>2
    <3> QED
      BY <1>8, <2>2, <3>1 DEF JobsAccountForLeads
  <2> QED
    BY <2>1, <2>2
<1>12. StopMeansNothing'
  <2>1. m.request.mode = "commit" /\ (m.request.stopOnError => \A i \in DOMAIN m.outcomes : m.outcomes[i] # "rejected")
    BY <1>3 DEF Kept
  <2> QED
    BY <1>3, <1>8, <2>1 DEF StopMeansNothing
<1> QED
  BY <1>9, <1>10, <1>11, <1>12

LEMMA ElsewhereStep ==
  ASSUME ImportInv, Elsewhere, config' \in Config,
         \/ leads' = leads
         \/ \E k \in MatchKey : leads' = leads \cup {[run |-> Other, row |-> others', key |-> k, owner |-> Blank]}
  PROVE  ImportInv'
<1> USE DEF ImportInv
<1>1. session' = Disturbed(Idle) /\ foretold' = {} /\ jobs' = jobs /\ begun' = begun /\ others' = others + 1 /\ others < MaxOther
  BY DEF Elsewhere
<1>2. \A t \in Session : session'[t] # Idle =>
         session[t] # Idle /\ session'[t].run = session[t].run /\ InStep(session'[t])
  BY <1>1, DisturbedInStep
<1>3. /\ leads \subseteq leads' /\ leads' \subseteq Lead
      /\ \A l \in leads' \ leads : l.run = 0
  <2>1. others' \in Nat
    BY <1>1, ImportConstants DEF TypeOK
  <2> QED
    BY <2>1 DEF Lead, Other, TypeOK
<1>4. TypeOK'
  <2>1. session' \in [Session -> Import \cup {Idle}]
    BY <1>1, DisturbedIs
  <2>2. others' \in 0 .. MaxOther
    BY <1>1, ImportConstants DEF TypeOK
  <2> QED
    BY <1>1, <1>3, <2>1, <2>2 DEF TypeOK
<1>5. begun \in Nat
  BY ImportConstants DEF TypeOK
<1>6. RunsApart'
  <2>1. \A t \in Busy' : /\ t \in Session /\ t \in Busy /\ session'[t].run = session[t].run /\ InStep(session'[t])
                         /\ session[t].run \in Run
    BY <1>2, BusyIsImport DEF Busy
  <2>2. \A t \in Busy' : /\ session'[t].run <= begun' /\ jobs'[session'[t].run] = NoJob
    BY <1>1, <2>1 DEF RunsApart
  <2>3. \A t \in Busy', l \in leads' : l.run # session'[t].run
    <3> SUFFICES ASSUME NEW t \in Busy', NEW l \in leads' PROVE l.run # session'[t].run
      OBVIOUS
    <3>1. CASE l \in leads
      BY <2>1, <3>1 DEF RunsApart
    <3>2. CASE l \notin leads
      <4>1. l.run = 0 /\ session'[t].run \in 1 .. MaxRun
        BY <1>3, <2>1, <3>2 DEF Run
      <4> QED
        BY <4>1, ImportConstants
    <3> QED
      BY <3>1, <3>2
  <2>4. \A t, u \in Busy' : session'[t].run = session'[u].run => t = u
    BY <2>1 DEF RunsApart
  <2>5. \A l \in leads' : l.run <= begun'
    BY <1>1, <1>3, <1>5 DEF RunsApart
  <2> QED
    BY <1>1, <2>1, <2>2, <2>3, <2>4, <2>5 DEF RunsApart
<1>7. JobsAccountForLeads'
  <2>1. ASSUME NEW r \in Run PROVE {l \in leads' : l.run = r} = {l \in leads : l.run = r}
    <3>1. r # 0
      BY ImportConstants DEF Run
    <3> QED
      BY <1>3, <3>1
  <2> QED
    BY <1>1, <2>1 DEF JobsAccountForLeads
<1> QED
  BY <1>1, <1>4, <1>6, <1>7 DEF StopMeansNothing

LEMMA ImportStep == ImportInv /\ [Next]_vars => ImportInv'
<1> SUFFICES ASSUME ImportInv, [Next]_vars PROVE ImportInv'
  OBVIOUS
<1>1. ASSUME NEW s \in Session, NEW q \in Request, Begin(s, q) PROVE ImportInv'
  BY <1>1, BeginStep
<1>2. ASSUME NEW s \in Session, Match(s) PROVE ImportInv'
  BY <1>2, MatchStep
<1>3. ASSUME NEW s \in Session, CreateLead(s) PROVE ImportInv'
  BY <1>3, CreateStep
<1>4. ASSUME NEW s \in Session, Finish(s) PROVE ImportInv'
  <2> DEFINE job == [request |-> session[s].request, outcomes |-> session[s].outcomes]
  <2>1. At(s) = "end" /\ UNCHANGED <<config, begun, others>> /\ foretold \subseteq Job
    BY <1>4 DEF Finish, ImportInv, TypeOK
  <2>2. session[s].request \in Request /\ session[s].outcomes \in Seq(Outcome)
    BY <2>1, Underway, BusyIsImport DEF ImportInv
  <2>3. job \in Job
    BY <2>2 DEF Job
  <2>4. CASE Kept(session[s].request, job.outcomes)
    <3>1. /\ leads' = leads \cup session[s].made /\ jobs' = [jobs EXCEPT ![session[s].run] = job]
          /\ session' = Disturbed(s) /\ foretold' = {}
      BY <1>4, <2>4 DEF Finish
    <3> HIDE DEF job
    <3>2. job = [request |-> session[s].request, outcomes |-> session[s].outcomes]
      BY DEF job
    <3> QED
      BY <2>1, <2>4, <3>1, <3>2, KeepStep
  <2>5. CASE ~Kept(session[s].request, job.outcomes)
    <3>1. /\ session' = [session EXCEPT ![s] = Idle] /\ leads' = leads /\ jobs' = jobs
          /\ foretold' \subseteq foretold \cup {job}
      BY <1>4, <2>5 DEF Finish
    <3>2. foretold' \subseteq Job
      BY <2>1, <2>3, <3>1
    <3> QED
      BY <2>1, <3>1, <3>2, FaultStep
  <2> QED
    BY <2>4, <2>5
<1>5. ASSUME NEW s \in Session, Fault(s) PROVE ImportInv'
  <2>1. foretold' \subseteq Job
    BY <1>5 DEF Fault, ImportInv, TypeOK
  <2> QED
    BY <1>5, <2>1, FaultStep DEF Fault
<1>6. ASSUME NEW k \in MatchKey, CreateSingle(k) PROVE ImportInv'
  <2>1. config' \in Config
    BY <1>6 DEF CreateSingle, ImportInv, TypeOK
  <2> QED
    BY <1>6, <2>1, ElsewhereStep DEF CreateSingle
<1>7. ASSUME NEW c \in Configs, Reconfigure(c) PROVE ImportInv'
  <2>1. config' \in Config
    BY <1>7, ConfigAssumption DEF Reconfigure, Config
  <2> QED
    BY <1>7, <2>1, ElsewhereStep DEF Reconfigure
<1>8. CASE UNCHANGED vars
  BY <1>8 DEF vars, ImportInv, TypeOK, RunsApart, Busy, InStep, Created, LeadOf, JobsAccountForLeads, StopMeansNothing
<1> QED
  BY <1>1, <1>2, <1>3, <1>4, <1>5, <1>6, <1>7, <1>8 DEF Next

(* Every reachable state: each run's leads and job tell the same story.     *)
THEOREM ImportsAreTyped == Spec => []ImportInv
<1>1. ImportInv /\ [Next]_vars => ImportInv'
  BY ImportStep
<1> QED
  BY ImportInit, <1>1, PTL DEF Spec

(* What becomes of row i of the file of q after the outcomes o, when the    *)
(* leads are L and the configuration is c all along.                        *)
Twin(L, q, o, i) ==
  /\ q.matching /\ q.file[i].key # Blank
  /\ \/ \E l \in L : l.key = q.file[i].key
     \/ \E j \in 1 .. i - 1 : o[j] = "created" /\ q.file[j].key = q.file[i].key
Settled(c, row) ==
  /\ row.status = "default" \/ row.status \in c.statuses
  /\ row.owner = Blank \/ row.owner \in c.users
Allowed(c, row) == row.status \in c.statuses /\ (c.strict => row.complete)
Verdict(L, c, q, o, i) ==
  IF ~q.file[i].readable THEN "rejected"
  ELSE IF Twin(L, q, o, i) THEN Skipped
  ELSE IF Settled(c, q.file[i]) /\ Allowed(c, q.file[i]) THEN "created" ELSE "rejected"
Foreseen(L, c, q, o) == \A i \in DOMAIN o : o[i] = Verdict(L, c, q, o, i)

(* A matching run makes no lead with a key it knew of or made before.       *)
Apart(m) ==
  m.request.matching =>
    /\ \A l \in m.made : l.key # Blank => \A k \in (m.known \cup m.made) \ {l} : k.key # l.key
    /\ m.at = "create" /\ m.request.file[Len(m.outcomes) + 1].key # Blank =>
         \A k \in m.known \cup m.made : k.key # m.request.file[Len(m.outcomes) + 1].key

(* A run nothing has disturbed has the outcomes that could be foreseen.     *)
OnCourse(L, c, m) ==
  m.undisturbed =>
    /\ m.statuses = c.statuses /\ m.users = c.users /\ Foreseen(L, c, m.request, m.outcomes)
    /\ m.at = "create" =>
         LET i == Len(m.outcomes) + 1
         IN m.request.file[i].readable /\ ~Twin(L, m.request, m.outcomes, i) /\ Settled(c, m.request.file[i])

Foresight ==
  /\ \A s \in Busy : /\ session[s].known \subseteq leads /\ Apart(session[s])
                     /\ OnCourse(leads, config, session[s])
  /\ \A p \in foretold : Len(p.outcomes) = Len(p.request.file) /\ Foreseen(leads, config, p.request, p.outcomes)

(* A row that is decided leaves what was foreseen of the rows above it.     *)
LEMMA VerdictsStay ==
  ASSUME NEW L, NEW c, NEW q, NEW o \in Seq(Outcome), NEW x \in Outcome, Foreseen(L, c, q, o),
         x = Verdict(L, c, q, o, Len(o) + 1)
  PROVE  Foreseen(L, c, q, Append(o, x))
<1> DEFINE n == Append(o, x)
<1>1. Len(o) \in Nat /\ DOMAIN o = 1 .. Len(o) /\ DOMAIN n = 1 .. Len(o) + 1 /\ n[Len(o) + 1] = x
  OBVIOUS
<1>2. \A i \in 1 .. Len(o) : n[i] = o[i]
  OBVIOUS
<1> HIDE DEF n
<1>3. ASSUME NEW i \in DOMAIN n PROVE Verdict(L, c, q, n, i) = Verdict(L, c, q, o, i)
  <2>1. \A j \in 1 .. i - 1 : n[j] = o[j]
    BY <1>1, <1>2
  <2>2. Twin(L, q, n, i) <=> Twin(L, q, o, i)
    BY <2>1 DEF Twin
  <2> QED
    BY <2>2 DEF Verdict
<1>4. ASSUME NEW i \in DOMAIN n PROVE n[i] = Verdict(L, c, q, o, i)
  <2>1. i \in 1 .. Len(o) \/ i = Len(o) + 1
    BY <1>1
  <2> QED
    BY <1>1, <1>2, <2>1 DEF Foreseen
<1>5. Foreseen(L, c, q, n)
  BY <1>3, <1>4 DEF Foreseen
<1> QED
  BY <1>5 DEF n

(* Leads and configuration decide the outcomes: of one file, with one       *)
(* setting of matching, there is one way to go.                             *)
LEMMA Determined ==
  ASSUME NEW L, NEW c, NEW q, NEW r, NEW o \in Seq(Outcome), NEW x \in Seq(Outcome),
         q.file = r.file, q.matching = r.matching, Len(o) = Len(x),
         Foreseen(L, c, q, o), Foreseen(L, c, r, x)
  PROVE  o = x
<1> DEFINE D == {i \in DOMAIN o : o[i] # x[i]}
<1>1. Len(o) \in Nat /\ DOMAIN o = 1 .. Len(o) /\ DOMAIN x = 1 .. Len(o)
  OBVIOUS
<1>2. CASE D = {}
  BY <1>1, <1>2
<1>3. CASE D # {}
  <2>1. D \subseteq Nat
    BY <1>1
  <2>2. PICK i \in D : \A j \in D : ~(<<j, i>> \in OpToRel(<, Nat))
    <3> HIDE DEF D
    <3> QED
      BY <1>3, <2>1, NatLessThanWellFounded, WFMin
  <2>3. i \in Nat /\ i \in DOMAIN o /\ i \in DOMAIN x /\ o[i] # x[i]
    BY <1>1
  <2>4. ASSUME NEW j \in 1 .. i - 1 PROVE o[j] = x[j]
    <3>1. j \in Nat /\ j < i /\ j \in DOMAIN o
      BY <1>1, <2>3
    <3>2. <<j, i>> \in OpToRel(<, Nat)
      BY <2>3, <3>1 DEF OpToRel
    <3> QED
      BY <2>2, <3>1, <3>2
  <2>5. Twin(L, q, o, i) <=> Twin(L, r, x, i)
    BY <2>4 DEF Twin
  <2>6. Verdict(L, c, q, o, i) = Verdict(L, c, r, x, i)
    BY <2>5 DEF Verdict
  <2> QED
    BY <2>3, <2>6 DEF Foreseen
<1> QED
  BY <1>2, <1>3

(* The duplicates a session sees are those of its run's record.             *)
LEMMA DuplicateIsTwin ==
  ASSUME NEW s \in Session, session[s].outcomes \in Seq(Outcome), InStep(session[s])
  PROVE  Duplicate(s, RowOf(s)) <=> Twin(leads, session[s].request, session[s].outcomes, Len(session[s].outcomes) + 1)
<1> DEFINE m == session[s]
           row == m.request.file[Len(m.outcomes) + 1]
<1>1. RowOf(s) = row
  BY DEF RowOf
<1>2. (\E l \in m.made : l.key = row.key)
        <=> \E j \in 1 .. Len(m.outcomes) : m.outcomes[j] = "created" /\ m.request.file[j].key = row.key
  <2>1. m.made = {LeadOf(m, i) : i \in Created(m.outcomes)}
    BY DEF InStep
  <2>2. \A j : LeadOf(m, j).key = m.request.file[j].key
    BY DEF LeadOf
  <2>3. \A j : j \in Created(m.outcomes) <=> j \in 1 .. Len(m.outcomes) /\ m.outcomes[j] = "created"
    BY DEF Created
  <2> QED
    BY <2>1, <2>2, <2>3
<1>3. Len(m.outcomes) + 1 - 1 = Len(m.outcomes)
  OBVIOUS
<1> QED
  BY <1>1, <1>2, <1>3 DEF Duplicate, Seen, Twin

(* A row that is decided as could be foreseen, and that makes no twin.      *)
LEMMA RowForeseen ==
  ASSUME ImportInv, Foresight, NEW s \in Session, At(s) \in {"row", "create"}, NEW o \in Outcome,
         Decided(s, o, IF o = "created" THEN session[s].made \cup {LeadOf(session[s], Len(session[s].outcomes) + 1)}
                       ELSE session[s].made),
         session[s].request.matching /\ o = "created" /\ RowOf(s).key # Blank
           => \A k \in session[s].known \cup session[s].made : k.key # RowOf(s).key,
         session[s].undisturbed
           => o = Verdict(leads, config, session[s].request, session[s].outcomes, Len(session[s].outcomes) + 1),
         UNCHANGED <<leads, jobs, config, begun, others, foretold>>
  PROVE  Foresight'
<1> USE DEF ImportInv
<1> DEFINE m == session[s]
           l == LeadOf(m, Len(m.outcomes) + 1)
           M == IF o = "created" THEN m.made \cup {l} ELSE m.made
<1>1. m # Idle /\ m \in Import /\ m.request \in Request /\ m.outcomes \in Seq(Outcome) /\ m.made \subseteq Lead /\ m.run \in Run
      /\ s \in Busy
  BY Underway, BusyIsImport
<1>2. InStep(m) /\ m.at # "end"
  BY <1>1 DEF RunsApart, At
<1>3. l \in Lead
  <2>1. Len(m.outcomes) + 1 \in 1 .. Len(m.request.file)
    BY <1>1, <1>2, ImportConstants DEF InStep
  <2>2. m.request.file[Len(m.outcomes) + 1] \in Row
    BY <1>1, <2>1, ImportConstants
  <2>3. /\ m.request.file[Len(m.outcomes) + 1].key \in MatchKey \cup {Blank}
        /\ m.request.file[Len(m.outcomes) + 1].owner \in User \cup {Blank}
    BY <2>2 DEF Row
  <2>4. m.run \in {Other} \cup Run /\ Len(m.outcomes) + 1 \in Nat
    BY <1>1
  <2> HIDE DEF m
  <2> QED
    BY <2>3, <2>4 DEF LeadOf, Lead
<1>4. M \in SUBSET Lead
  <2>1. m.made \subseteq Lead /\ {l} \subseteq Lead
    BY <1>1, <1>3
  <2> HIDE DEF m, l
  <2> QED
    BY <2>1
<1>5. /\ \A t \in Session \ {s} : session'[t] = session[t]
      /\ session'[s] = [m EXCEPT !.outcomes = Append(m.outcomes, o), !.made = M,
                             !.at = IF Len(m.outcomes) + 1 = Len(m.request.file) THEN "end" ELSE "row"]
  <2> HIDE DEF M
  <2>1. Decided(s, o, M)
    BY DEF M
  <2>2. /\ session' \in [Session -> Import \cup {Idle}]
        /\ \A t \in Session \ {s} : session'[t] = session[t]
        /\ session'[s] = [m EXCEPT !.outcomes = Append(m.outcomes, o), !.made = M,
                             !.at = IF Len(m.outcomes) + 1 = Len(m.request.file) THEN "end" ELSE "row"]
        /\ session'[s] \in Import
    BY <1>1, <1>4, <2>1, DecidedIs
  <2> QED
    BY <2>2
<1>6. /\ session'[s].outcomes = Append(m.outcomes, o) /\ session'[s].made = M /\ session'[s].at # "create"
      /\ session'[s].request = m.request /\ session'[s].known = m.known /\ session'[s].undisturbed = m.undisturbed
      /\ session'[s].statuses = m.statuses /\ session'[s].users = m.users
  <2> HIDE DEF M
  <2> QED
    BY <1>1, <1>5 DEF Import
<1>7. l.key = RowOf(s).key
  BY DEF LeadOf, RowOf
<1>8. m.known \subseteq leads /\ Apart(m) /\ OnCourse(leads, config, m)
  BY <1>1 DEF Foresight
<1>9. Apart(session'[s])
  <2> SUFFICES ASSUME m.request.matching, NEW x \in M, x.key # Blank, NEW k \in (m.known \cup M) \ {x}
               PROVE  k.key # x.key
    BY <1>6 DEF Apart
  <2>1. \A y \in m.made : y.key # Blank => \A z \in (m.known \cup m.made) \ {y} : z.key # y.key
    BY <1>8 DEF Apart
  <2>2. CASE o # "created"
    BY <2>1, <2>2
  <2>3. CASE o = "created"
    <3>1. M = m.made \cup {l}
      BY <2>3
    <3>2. l.key # Blank => \A z \in m.known \cup m.made : z.key # l.key
      BY <1>7, <2>3
    <3> HIDE DEF l, M
    <3> QED
      BY <2>1, <3>1, <3>2
  <2> QED
    BY <2>2, <2>3
<1>10. OnCourse(leads, config, session'[s])
  <2> SUFFICES ASSUME m.undisturbed
               PROVE  /\ m.statuses = config.statuses /\ m.users = config.users
                      /\ Foreseen(leads, config, m.request, Append(m.outcomes, o))
    BY <1>6 DEF OnCourse
  <2>1. m.statuses = config.statuses /\ m.users = config.users /\ Foreseen(leads, config, m.request, m.outcomes)
    BY <1>8 DEF OnCourse
  <2> QED
    BY <1>1, <2>1, VerdictsStay
<1>11. \A t \in Busy' : /\ session'[t].known \subseteq leads /\ Apart(session'[t])
                        /\ OnCourse(leads, config, session'[t])
  BY <1>5, <1>6, <1>8, <1>9, <1>10 DEF Foresight, Busy
<1> QED
  BY <1>11 DEF Foresight

LEMMA MatchForeseen ==
  ASSUME ImportInv, Foresight, NEW s \in Session, Match(s)
  PROVE  Foresight'
<1> DEFINE m == session[s]
           i == Len(m.outcomes) + 1
           row == RowOf(s)
<1>1. At(s) = "row" /\ UNCHANGED <<leads, jobs, config, begun, others, foretold>> /\ row = m.request.file[i]
  BY DEF Match, RowOf
<1>2. /\ m # Idle /\ m \in Import /\ s \in Busy /\ m.outcomes \in Seq(Outcome) /\ m.at = "row" /\ InStep(m)
  <2>1. m # Idle /\ m \in Import /\ s \in Busy /\ m.outcomes \in Seq(Outcome)
    BY <1>1, Underway, BusyIsImport DEF ImportInv
  <2> QED
    BY <1>1, <2>1 DEF ImportInv, RunsApart, At
<1>3. m.known \subseteq leads /\ Apart(m) /\ OnCourse(leads, config, m)
  BY <1>2 DEF Foresight
<1>4. Duplicate(s, row) <=> Twin(leads, m.request, m.outcomes, i)
  BY <1>2, DuplicateIsTwin
<1>5. m.undisturbed => (Resolved(s, row) <=> Settled(config, row))
  BY <1>3 DEF OnCourse, Resolved, Settled
<1> HIDE DEF row
<1>6. CASE \E o \in {"rejected", Skipped} : /\ Decided(s, o, m.made)
                                            /\ m.undisturbed => o = Verdict(leads, config, m.request, m.outcomes, i)
  <2>1. PICK o \in {"rejected", Skipped} : /\ Decided(s, o, m.made)
                                           /\ m.undisturbed => o = Verdict(leads, config, m.request, m.outcomes, i)
    BY <1>6
  <2>2. o \in Outcome /\ o # "created"
    BY DEF Skipped, Outcome
  <2>3. Decided(s, o, IF o = "created" THEN m.made \cup {LeadOf(m, i)} ELSE m.made)
    BY <2>1, <2>2
  <2> QED
    BY <1>1, <2>1, <2>2, <2>3, RowForeseen
<1>7. CASE row.readable /\ ~Duplicate(s, row) /\ Resolved(s, row) /\ session' = [session EXCEPT ![s].at = "create"]
  <2>1. session'[s] = [m EXCEPT !.at = "create"] /\ \A t \in Session \ {s} : session'[t] = session[t]
    BY <1>7 DEF ImportInv, TypeOK
  <2>2. /\ session'[s].known = m.known /\ session'[s].made = m.made /\ session'[s].request = m.request
        /\ session'[s].outcomes = m.outcomes /\ session'[s].undisturbed = m.undisturbed
        /\ session'[s].statuses = m.statuses /\ session'[s].users = m.users
    BY <1>2, <2>1 DEF Import
  <2>3. m.request.matching /\ row.key # Blank => \A k \in m.known \cup m.made : k.key # row.key
    BY <1>3, <1>7 DEF Duplicate, Seen
  <2>4. Apart(session'[s])
    BY <1>1, <1>3, <2>2, <2>3 DEF Apart
  <2>5. OnCourse(leads, config, session'[s])
    BY <1>1, <1>3, <1>4, <1>5, <1>7, <2>2 DEF OnCourse
  <2>6. \A t \in Busy' : /\ session'[t].known \subseteq leads /\ Apart(session'[t])
                         /\ OnCourse(leads, config, session'[t])
    BY <1>3, <2>1, <2>2, <2>4, <2>5 DEF Foresight, Busy
  <2> QED
    BY <1>1, <2>6 DEF Foresight
<1>8. \/ ~row.readable /\ Decided(s, "rejected", m.made)
      \/ row.readable /\ Duplicate(s, row) /\ Decided(s, Skipped, m.made)
      \/ row.readable /\ ~Duplicate(s, row) /\ ~Resolved(s, row) /\ Decided(s, "rejected", m.made)
      \/ row.readable /\ ~Duplicate(s, row) /\ Resolved(s, row) /\ session' = [session EXCEPT ![s].at = "create"]
  BY DEF Match, row
<1>9. CASE ~row.readable /\ Decided(s, "rejected", m.made)
  BY <1>1, <1>6, <1>9 DEF Verdict
<1>10. CASE row.readable /\ Duplicate(s, row) /\ Decided(s, Skipped, m.made)
  BY <1>1, <1>4, <1>6, <1>10 DEF Verdict
<1>11. CASE row.readable /\ ~Duplicate(s, row) /\ ~Resolved(s, row) /\ Decided(s, "rejected", m.made)
  BY <1>1, <1>4, <1>5, <1>6, <1>11 DEF Verdict
<1> QED
  BY <1>7, <1>8, <1>9, <1>10, <1>11

LEMMA CreateForeseen ==
  ASSUME ImportInv, Foresight, NEW s \in Session, CreateLead(s)
  PROVE  Foresight'
<1> DEFINE m == session[s]
           i == Len(m.outcomes) + 1
           row == m.request.file[i]
<1>1. At(s) = "create" /\ UNCHANGED <<leads, jobs, config, begun, others, foretold>> /\ RowOf(s) = row
  BY DEF CreateLead, RowOf
<1>2. /\ m # Idle /\ m \in Import /\ s \in Busy /\ m.outcomes \in Seq(Outcome) /\ m.at = "create"
  BY <1>1, Underway, BusyIsImport DEF ImportInv, At
<1>3. Apart(m) /\ OnCourse(leads, config, m)
  BY <1>2 DEF Foresight
<1>4. Creatable(row) <=> Allowed(config, row)
  BY DEF Creatable, Allowed
<1>5. m.undisturbed => Verdict(leads, config, m.request, m.outcomes, i) = IF Creatable(row) THEN "created" ELSE "rejected"
  BY <1>2, <1>3, <1>4 DEF OnCourse, Verdict
<1>6. m.request.matching /\ row.key # Blank => \A k \in m.known \cup m.made : k.key # row.key
  BY <1>2, <1>3 DEF Apart
<1>7. \/ Creatable(row) /\ Decided(s, "created", m.made \cup {LeadOf(m, i)})
      \/ ~Creatable(row) /\ Decided(s, "rejected", m.made)
  BY <1>1 DEF CreateLead, LeadOf
<1> HIDE DEF row
<1>8. \E o \in {"created", "rejected"} :
        /\ Decided(s, o, IF o = "created" THEN m.made \cup {LeadOf(m, i)} ELSE m.made)
        /\ m.undisturbed => o = Verdict(leads, config, m.request, m.outcomes, i)
  <2>1. CASE Creatable(row) /\ Decided(s, "created", m.made \cup {LeadOf(m, i)})
    BY <1>5, <2>1
  <2>2. CASE ~Creatable(row) /\ Decided(s, "rejected", m.made)
    <3>1. Decided(s, "rejected", IF "rejected" = "created" THEN m.made \cup {LeadOf(m, i)} ELSE m.made)
      BY <2>2
    <3> QED
      BY <1>5, <2>2, <3>1
  <2> QED
    BY <1>7, <2>1, <2>2
<1>9. PICK o \in {"created", "rejected"} :
        /\ Decided(s, o, IF o = "created" THEN m.made \cup {LeadOf(m, i)} ELSE m.made)
        /\ m.undisturbed => o = Verdict(leads, config, m.request, m.outcomes, i)
  BY <1>8
<1>10. o \in Outcome
  BY DEF Outcome
<1> QED
  BY <1>1, <1>6, <1>9, <1>10, RowForeseen

LEMMA BeginForeseen ==
  ASSUME ImportInv, Foresight, NEW s \in Session, NEW q \in Request, Begin(s, q)
  PROVE  Foresight'
<1> DEFINE m == [at |-> "row", run |-> begun + 1, request |-> q, statuses |-> config.statuses,
                 users |-> config.users, outcomes |-> <<>>, made |-> {}, known |-> leads,
                 undisturbed |-> TRUE]
<1>1. session' = [session EXCEPT ![s] = m] /\ UNCHANGED <<leads, config, foretold>>
  BY DEF Begin
<1>2. m.known = leads /\ Apart(m) /\ OnCourse(leads, config, m)
  BY DEF Apart, OnCourse, Foreseen
<1> HIDE DEF m
<1>3. session'[s] = m /\ \A t \in Session \ {s} : session'[t] = session[t]
  BY <1>1 DEF ImportInv, TypeOK
<1>4. \A t \in Busy' : /\ session'[t].known \subseteq leads /\ Apart(session'[t])
                       /\ OnCourse(leads, config, session'[t])
  BY <1>2, <1>3 DEF Foresight, Busy
<1> QED
  BY <1>1, <1>4 DEF Foresight

(* A run that ends without a trace adds a preview at most.                  *)
LEMMA EndForeseen ==
  ASSUME ImportInv, Foresight, NEW s \in Session, session' = [session EXCEPT ![s] = Idle],
         leads' = leads, config' = config,
         \A p \in foretold' : \/ p \in foretold
                              \/ Len(p.outcomes) = Len(p.request.file) /\ Foreseen(leads, config, p.request, p.outcomes)
  PROVE  Foresight'
<1>1. \A t \in Busy' : t \in Busy /\ session'[t] = session[t]
  BY DEF Busy, ImportInv, TypeOK
<1>2. \A t \in Busy' : /\ session'[t].known \subseteq leads /\ Apart(session'[t])
                       /\ OnCourse(leads, config, session'[t])
  BY <1>1 DEF Foresight
<1> QED
  BY <1>2 DEF Foresight

(* What happens elsewhere ends what was foreseen.                           *)
LEMMA DisturbedForeseen ==
  ASSUME ImportInv, Foresight, NEW x, session' = Disturbed(x), foretold' = {}, leads \subseteq leads'
  PROVE  Foresight'
<1> SUFFICES ASSUME NEW t \in Busy'
             PROVE  session'[t].known \subseteq leads' /\ Apart(session'[t]) /\ OnCourse(leads', config', session'[t])
  BY DEF Foresight
<1>1. t \in Session /\ session'[t] # Idle
  BY DEF Busy
<1>2. session[t] # Idle /\ session'[t] = [session[t] EXCEPT !.undisturbed = FALSE]
  BY <1>1, DisturbedIs DEF ImportInv
<1>3. session[t] \in Import /\ t \in Busy
  BY <1>1, <1>2, BusyIsImport DEF ImportInv
<1>4. /\ session'[t].known = session[t].known /\ session'[t].made = session[t].made
      /\ session'[t].request = session[t].request /\ session'[t].outcomes = session[t].outcomes
      /\ session'[t].at = session[t].at /\ session'[t].undisturbed = FALSE
  BY <1>2, <1>3 DEF Import
<1>5. session[t].known \subseteq leads /\ Apart(session[t])
  BY <1>3 DEF Foresight
<1> QED
  BY <1>4, <1>5 DEF Apart, OnCourse

LEMMA ForesightStep == ImportInv /\ Foresight /\ [Next]_vars => Foresight'
<1> SUFFICES ASSUME ImportInv, Foresight, [Next]_vars PROVE Foresight'
  OBVIOUS
<1>1. ASSUME NEW s \in Session, NEW q \in Request, Begin(s, q) PROVE Foresight'
  BY <1>1, BeginForeseen
<1>2. ASSUME NEW s \in Session, Match(s) PROVE Foresight'
  BY <1>2, MatchForeseen
<1>3. ASSUME NEW s \in Session, CreateLead(s) PROVE Foresight'
  BY <1>3, CreateForeseen
<1>4. ASSUME NEW s \in Session, Finish(s) PROVE Foresight'
  <2> DEFINE m == session[s]
             job == [request |-> m.request, outcomes |-> m.outcomes]
  <2>1. m # Idle /\ m \in Import /\ s \in Busy /\ InStep(m) /\ m.at = "end"
    BY <1>4, Underway, BusyIsImport DEF Finish, ImportInv, RunsApart, At
  <2>2. CASE Kept(m.request, job.outcomes)
    <3>1. leads' = leads \cup m.made /\ session' = Disturbed(s) /\ foretold' = {}
      BY <1>4, <2>2 DEF Finish
    <3> QED
      BY <3>1, DisturbedForeseen
  <2>3. CASE ~Kept(m.request, job.outcomes)
    <3>1. /\ session' = [session EXCEPT ![s] = Idle] /\ leads' = leads /\ config' = config
          /\ foretold' = IF m.undisturbed THEN foretold \cup {job} ELSE foretold
      BY <1>4, <2>3 DEF Finish
    <3>2. Len(job.outcomes) = Len(job.request.file)
      BY <2>1 DEF InStep
    <3>3. m.undisturbed => Foreseen(leads, config, job.request, job.outcomes)
      BY <2>1 DEF Foresight, OnCourse
    <3>4. \A p \in foretold' : \/ p \in foretold
                               \/ /\ Len(p.outcomes) = Len(p.request.file)
                                  /\ Foreseen(leads, config, p.request, p.outcomes)
      BY <3>1, <3>2, <3>3
    <3> QED
      BY <3>1, <3>4, EndForeseen
  <2> QED
    BY <2>2, <2>3
<1>5. ASSUME NEW s \in Session, Fault(s) PROVE Foresight'
  BY <1>5, EndForeseen DEF Fault
<1>6. ASSUME NEW k \in MatchKey, CreateSingle(k) PROVE Foresight'
  BY <1>6, DisturbedForeseen DEF CreateSingle, Elsewhere
<1>7. ASSUME NEW c \in Configs, Reconfigure(c) PROVE Foresight'
  BY <1>7, DisturbedForeseen DEF Reconfigure, Elsewhere
<1>8. CASE UNCHANGED vars
  <2>1. session' = session /\ leads' = leads /\ config' = config /\ foretold' = foretold
    BY <1>8 DEF vars
  <2> QED
    BY <2>1 DEF Foresight, Busy
<1> QED
  BY <1>1, <1>2, <1>3, <1>4, <1>5, <1>6, <1>7, <1>8 DEF Next

LEMMA ForesightAlways == Spec => [](ImportInv /\ Foresight)
<1>1. Init => Foresight
  BY DEF Init, Foresight, Busy
<1> QED
  BY ImportInit, ImportStep, <1>1, ForesightStep, PTL DEF Spec

(* The leads a step adds are the single one it creates, or those of the run *)
(* it ends.                                                                 *)
LEMMA OnlyTheEndAddsLeads ==
  ASSUME ImportInv, [Next]_vars
  PROVE  \/ \A l \in leads' \ leads : l.run = Other /\ l.owner = Blank
         \/ \E s \in Busy : /\ At(s) = "end" /\ leads' = leads \cup session[s].made
                            /\ jobs' = [jobs EXCEPT ![session[s].run] =
                                 [request |-> session[s].request, outcomes |-> session[s].outcomes]]
                            /\ Kept(session[s].request, session[s].outcomes)
<1>1. CASE leads' = leads
  BY <1>1
<1>2. ASSUME NEW s \in Session, Finish(s), leads' # leads
      PROVE  \E t \in Busy : /\ At(t) = "end" /\ leads' = leads \cup session[t].made
                             /\ jobs' = [jobs EXCEPT ![session[t].run] =
                                  [request |-> session[t].request, outcomes |-> session[t].outcomes]]
                             /\ Kept(session[t].request, session[t].outcomes)
  <2>1. s \in Busy
    BY <1>2, Underway, BusyIsImport DEF Finish, ImportInv
  <2> QED
    BY <1>2, <2>1 DEF Finish
<1>3. ASSUME NEW k \in MatchKey, CreateSingle(k)
      PROVE  \A l \in leads' \ leads : l.run = Other /\ l.owner = Blank
  BY <1>3 DEF CreateSingle
<1> QED
  BY <1>1, <1>2, <1>3 DEF Next, vars, Begin, Match, CreateLead, Fault, Reconfigure, Elsewhere

LEMMA NoTwinsStep ==
  ASSUME ImportInv, Foresight, [Next]_vars,
         NEW s \in Session, session[s] # Idle, session[s].request.matching,
         NEW l \in leads' \ leads, l.run = session[s].run, l.key # Blank,
         NEW k \in leads' \ {l}, k \in session[s].known \/ k.run = l.run
  PROVE  k.key # l.key
<1>1. s \in Busy /\ session[s].run \in Run /\ session[s].run # Other /\ InStep(session[s])
      /\ \A x \in leads : x.run # session[s].run
  <2>1. s \in Busy /\ session[s].run \in Run
    BY BusyIsImport DEF ImportInv
  <2> QED
    BY <2>1, ImportConstants DEF Run, Other, ImportInv, RunsApart
<1>2. PICK t \in Busy : At(t) = "end" /\ leads' = leads \cup session[t].made
  BY <1>1, OnlyTheEndAddsLeads
<1>3. \A u \in Busy : \A x \in session[u].made : x.run = session[u].run
  BY DEF ImportInv, RunsApart, InStep, LeadOf
<1>4. l \in session[t].made /\ session[t].run = l.run
  BY <1>2, <1>3
<1>5. s = t
  BY <1>1, <1>4 DEF ImportInv, RunsApart
<1>6. k \in session[s].known \cup session[s].made
  BY <1>1, <1>2, <1>5
<1>7. Apart(session[s])
  BY <1>1 DEF Foresight
<1> QED
  BY <1>4, <1>5, <1>6, <1>7 DEF Apart

(* A job is what its run was told, so it is what was foreseen.              *)
LEMMA PreviewStep ==
  ASSUME ImportInv, Foresight, [Next]_vars, NEW r \in Run, jobs[r] = NoJob, jobs'[r] # NoJob,
         NEW p \in foretold, p.request = [jobs'[r].request EXCEPT !.mode = "preview"],
         NEW s \in Session, session[s] # Idle, session[s].run = r, session[s].undisturbed
  PROVE  p.outcomes = jobs'[r].outcomes
<1>1. PICK t \in Session : Finish(t) /\ Kept(session[t].request, session[t].outcomes)
  BY DEF Next, vars, Begin, Match, CreateLead, Fault, CreateSingle, Reconfigure, Elsewhere, Finish
<1>2. t \in Busy /\ session[t] \in Import /\ session[t].run \in Run
  BY <1>1, Underway, BusyIsImport DEF Finish, ImportInv
<1>3. jobs' = [jobs EXCEPT ![session[t].run] = [request |-> session[t].request, outcomes |-> session[t].outcomes]]
  BY <1>1 DEF Finish
<1>4. session[t].run = r
  BY <1>2, <1>3 DEF ImportInv, TypeOK
<1>5. s = t /\ s \in Busy
  BY <1>2, <1>4 DEF ImportInv, RunsApart, Busy
<1>6. jobs'[r].request = session[s].request /\ jobs'[r].outcomes = session[s].outcomes
  BY <1>3, <1>4, <1>5 DEF ImportInv, TypeOK
<1>7. session[s].request \in Request /\ session[s].outcomes \in Seq(Outcome)
  BY BusyIsImport DEF ImportInv
<1>8. p.request.file = session[s].request.file /\ p.request.matching = session[s].request.matching
  BY <1>6, <1>7 DEF Request
<1>9. /\ p.outcomes \in Seq(Outcome) /\ Len(p.outcomes) = Len(p.request.file)
      /\ Foreseen(leads, config, p.request, p.outcomes)
  BY DEF Foresight, ImportInv, TypeOK, Job
<1>10. Foreseen(leads, config, session[s].request, session[s].outcomes)
  BY <1>5 DEF Foresight, OnCourse
<1>11. Len(session[s].outcomes) = Len(session[s].request.file)
  BY <1>1, <1>5 DEF Finish, At, ImportInv, RunsApart, InStep
<1>12. p.outcomes = session[s].outcomes
  <2> DEFINE o == p.outcomes
             x == session[s].outcomes
             q == p.request
             w == session[s].request
  <2>1. /\ o \in Seq(Outcome) /\ x \in Seq(Outcome) /\ q.file = w.file /\ q.matching = w.matching
        /\ Len(o) = Len(x) /\ Foreseen(leads, config, q, o) /\ Foreseen(leads, config, w, x)
    BY <1>7, <1>8, <1>9, <1>10, <1>11
  <2> HIDE DEF o, x, q, w
  <2>2. o = x
    BY <2>1, Determined
  <2> QED
    BY <2>2 DEF o, x
<1> QED
  BY <1>6, <1>12

(* A commit does what its preview said and its job says, once: the rows of  *)
(* a job are the leads of its run, a run that was to stop on an error left  *)
(* none, a run that matches makes no twin, and a preview nothing came       *)
(* between foretells the outcome of each row of the commit.                 *)
THEOREM ImportsAlwaysAddUp == Spec => ImportsAddUp
<1>1. ImportInv => JobsAccountForLeads /\ StopMeansNothing
  BY DEF ImportInv
<1>2. ImportInv /\ Foresight /\ [Next]_vars
        => [\A s \in Session : session[s] # Idle /\ session[s].request.matching =>
              \A l \in leads' \ leads : l.run = session[s].run /\ l.key # Blank =>
                \A k \in leads' \ {l} :
                  k \in session[s].known \/ k.run = l.run => k.key # l.key]_vars
  BY NoTwinsStep
<1>3. ImportInv /\ Foresight /\ [Next]_vars
        => [\A r \in Run :
              jobs[r] = NoJob /\ jobs'[r] # NoJob =>
                \A p \in foretold :
                  /\ p.request = [jobs'[r].request EXCEPT !.mode = "preview"]
                  /\ \E s \in Session : session[s] # Idle /\ session[s].run = r /\ session[s].undisturbed
                  => p.outcomes = jobs'[r].outcomes]_vars
  BY PreviewStep
<1>4. Spec => NoTwins
  BY ForesightAlways, <1>2, PTL DEF Spec, NoTwins
<1>5. Spec => PreviewForetells
  BY ForesightAlways, <1>3, PTL DEF Spec, PreviewForetells
<1> QED
  BY ForesightAlways, <1>1, <1>4, <1>5, PTL DEF ImportsAddUp

-----------------------------------------------------------------------------
(* Files.                                                                   *)

(* A row's key is of its version.                                           *)
Placed(r) == r.key = NoKey \/ \E n \in Name : r.key = ResourceKey(r.version, n)
OldRow == {r \in ResourceRow \cup {Absent} : Placed(r)}

Placing == [at : {"put"}, old : OldRow, version : 1 .. MaxRow, key : Key, file : Upload]
Entering == [at : {"insert", "write"}, old : OldRow, version : 0 .. MaxRow, key : Key, file : {0} \cup Upload,
             type : {"link", "file"}]
Clearing == [at : {"remove"}, key : Key]
Attaching == [at : {"attach", "insertDocument"}, file : Upload]
Taking == [at : {"deactivate"}, document : Nat]
Fetching == [at : {"find", "get"}, key : Key, file : {0} \cup Upload]
Serving == [at : {"served"}, file : {0} \cup Upload, content : Upload]
FileTask == {Rest} \cup Placing \cup Entering \cup Clearing \cup Attaching \cup Taking \cup Fetching \cup Serving

Named(d) == d.version \in 1 .. MaxRow /\ \E n \in Name : d.key = ResourceKey(d.version, n)

(* What a request is about to write fits the rows there are.                *)
Fits(d, r, D, u) ==
  /\ d.at = "put" => Named(d) /\ (d.old # Absent => r # Absent) /\ (d.old = Absent => d.version = 1)
  /\ d.at = "insert" => Named(d) /\ d.version = 1 /\ d.type = "file" /\ d.file # 0
  /\ d.at = "write" => r # Absent /\ (d.type = "file" /\ d.file # 0 => Named(d))
  /\ d.at \in {"attach", "insertDocument"} => d.file <= u
  /\ d.at = "deactivate" => d.document \in DOMAIN D

FilesTyped ==
  /\ StoredTypeOK /\ Placed(resource) /\ doing \in [Worker -> FileTask]
  /\ \A w \in Worker : Fits(doing[w], resource, documents, uploads)

LEMMA FileConstants ==
  /\ MaxUpload \in Nat /\ MaxRow \in Nat /\ 1 \in 1 .. MaxRow /\ Prefix \notin Name
  /\ NoKey \in Key /\ Absent \notin ResourceRow /\ Placed(Absent) /\ Absent.version = 0
  /\ \A r \in ResourceRow : r # Absent
BY StoredAssumption DEF Key, NoKey, Absent, ResourceRow, Placed

(* Documents and resources have keys of their own.                          *)
LEMMA KeysApart ==
  /\ \A n \in Name : \A v, u : ResourceKey(v, n) # DocumentKey(u)
  /\ \A n, m \in Name : \A v, u : ResourceKey(v, n) = ResourceKey(u, m) => v = u
  /\ \A u, v : DocumentKey(u) = DocumentKey(v) => u = v
  /\ NoKey = DocumentKey(0)
  /\ \A u \in Upload : DocumentKey(u) \in Key \ {NoKey}
  /\ \A v \in Nat \ {0}, n \in Name : ResourceKey(v, n) \in Key \ {NoKey}
BY StoredAssumption DEF ResourceKey, DocumentKey, Key, NoKey, Upload

LEMMA FileTasks ==
  ASSUME NEW d \in FileTask
  PROVE  /\ d.at = "put" => d \in Placing
         /\ d.at \in {"insert", "write"} => d \in Entering
         /\ d.at = "remove" => d \in Clearing
         /\ d.at \in {"attach", "insertDocument"} => d \in Attaching
         /\ d.at = "deactivate" => d \in Taking
         /\ d.at \in {"find", "get"} => d \in Fetching
         /\ d.at = "served" => d \in Serving
         /\ d.at = "rest" => d = Rest
         /\ d.at \in {"rest", "put", "insert", "write", "remove", "attach", "insertDocument", "deactivate",
                      "find", "get", "served"}
BY DEF FileTask, Rest, Placing, Entering, Clearing, Attaching, Taking, Fetching, Serving

LEMMA RestFits == Rest \in FileTask /\ Rest.at = "rest" /\ \A r, D, u : Fits(Rest, r, D, u)
BY DEF FileTask, Rest, Fits

LEMMA FilesInit == StoredInit => FilesTyped
<1> SUFFICES ASSUME StoredInit PROVE FilesTyped
  OBVIOUS
<1>1. \A w \in Worker : doing[w] = Rest
  BY DEF StoredInit
<1>2. doing \in [Worker -> FileTask] /\ \A w \in Worker : Fits(doing[w], resource, documents, uploads)
  BY <1>1, RestFits DEF StoredInit
<1>3. Placed(resource) /\ resource \in ResourceRow \cup {Absent}
  BY FileConstants DEF StoredInit
<1>4. \A w \in Worker : doing[w].at = "rest"
  BY <1>1, RestFits
<1>5. DOMAIN objects = {} /\ documents \in Seq(Document) /\ Len(documents) <= MaxRow
  BY FileConstants DEF StoredInit
<1>6. visible \in BOOLEAN /\ overlapped \in BOOLEAN
  BY Zenon DEF StoredInit
<1>7. uploads \in 0 .. MaxUpload
  BY FileConstants DEF StoredInit
<1>8. StoredTypeOK
  BY <1>3, <1>4, <1>5, <1>6, <1>7 DEF StoredTypeOK
<1> QED
  BY <1>2, <1>3, <1>8 DEF FilesTyped

(* One request moves; rows and uploads only become more.                    *)
LEMMA OneMoves ==
  ASSUME FilesTyped, NEW w \in Worker, NEW d \in FileTask, Does(w, d),
         Fits(d, resource', documents', uploads'),
         DOMAIN objects' \subseteq Key \ {NoKey}, \A k \in DOMAIN objects' : objects'[k] \in Upload,
         resource' \in ResourceRow \cup {Absent}, Placed(resource'), resource # Absent => resource' # Absent,
         visible' \in BOOLEAN, documents' \in Seq(Document), Len(documents') <= MaxRow,
         DOMAIN documents \subseteq DOMAIN documents',
         uploads' \in 0 .. MaxUpload, uploads <= uploads', overlapped' \in BOOLEAN
  PROVE  FilesTyped'
<1>1. doing' = [doing EXCEPT ![w] = d] /\ doing \in [Worker -> FileTask]
  BY DEF Does, FilesTyped
<1>2. doing' \in [Worker -> FileTask] /\ doing'[w] = d /\ \A v \in Worker \ {w} : doing'[v] = doing[v]
  BY <1>1
<1>3. ASSUME NEW v \in Worker \ {w} PROVE Fits(doing[v], resource', documents', uploads')
  <2>1. Fits(doing[v], resource, documents, uploads) /\ doing[v] \in FileTask /\ uploads \in Nat /\ uploads' \in Nat
    BY FileConstants DEF FilesTyped, StoredTypeOK
  <2>2. doing[v].at \in {"attach", "insertDocument"} => doing[v].file \in Nat
    BY <2>1, FileTasks DEF Attaching, Upload
  <2> QED
    BY <2>1, <2>2 DEF Fits
<1>4. \A v \in Worker : Fits(doing'[v], resource', documents', uploads')
  BY <1>2, <1>3
<1>5. \A v \in Worker : doing'[v].at \in {"rest", "put", "insert", "write", "remove", "attach", "insertDocument",
                                          "deactivate", "find", "get", "served"}
  BY <1>2, FileTasks
<1>6. StoredTypeOK'
  BY <1>5 DEF StoredTypeOK
<1> QED
  BY <1>2, <1>4, <1>6 DEF FilesTyped

(* What a put and a removal make of the bucket.                             *)
LEMMA PutFits ==
  ASSUME NEW k \in Key \ {NoKey}, NEW u \in Upload, Put(k, u),
         DOMAIN objects \subseteq Key \ {NoKey}, \A x \in DOMAIN objects : objects[x] \in Upload
  PROVE  DOMAIN objects' \subseteq Key \ {NoKey} /\ \A x \in DOMAIN objects' : objects'[x] \in Upload
BY DEF Put

LEMMA PutIs ==
  ASSUME NEW k, NEW u, Put(k, u)
  PROVE  /\ DOMAIN objects' = DOMAIN objects \cup {k} /\ objects'[k] = u
         /\ \A x \in DOMAIN objects \ {k} : objects'[x] = objects[x]
BY DEF Put

LEMMA RemoveIs ==
  ASSUME NEW k, Remove(k)
  PROVE  /\ DOMAIN objects' = DOMAIN objects \ {k} /\ \A x \in DOMAIN objects' : objects'[x] = objects[x]
BY DEF Remove

LEMMA Deactivated ==
  ASSUME documents \in Seq(Document), NEW i \in DOMAIN documents, documents' = [documents EXCEPT ![i].active = FALSE]
  PROVE  /\ documents' \in Seq(Document) /\ Len(documents') = Len(documents) /\ DOMAIN documents' = DOMAIN documents
         /\ \A j \in DOMAIN documents : /\ documents'[j].file = documents[j].file
                                        /\ documents'[j].active => j # i /\ documents[j].active
<1>1. DOMAIN documents = 1 .. Len(documents) /\ Len(documents) \in Nat /\ \A j \in DOMAIN documents : documents[j] \in Document
  OBVIOUS
<1>2. \A j \in DOMAIN documents : [documents[j] EXCEPT !.active = FALSE] \in Document
  BY <1>1 DEF Document
<1>3. documents' \in [1 .. Len(documents) -> Document]
  BY <1>1, <1>2
<1>4. documents' \in Seq(Document) /\ Len(documents') = Len(documents)
  BY <1>1, <1>3
<1>5. \A j \in DOMAIN documents : documents'[j] = IF j = i THEN [documents[j] EXCEPT !.active = FALSE] ELSE documents[j]
  BY <1>1
<1> QED
  BY <1>1, <1>3, <1>4, <1>5 DEF Document

LEMMA FilesStep == FilesTyped /\ [StoredNext]_stored => FilesTyped'
<1> SUFFICES ASSUME FilesTyped, [StoredNext]_stored PROVE FilesTyped'
  OBVIOUS
<1>1. /\ StoredTypeOK /\ Placed(resource) /\ doing \in [Worker -> FileTask]
      /\ resource \in ResourceRow \cup {Absent} /\ documents \in Seq(Document)
      /\ uploads \in 0 .. MaxUpload /\ uploads \in Nat /\ MaxUpload \in Nat /\ MaxRow \in Nat
      /\ \A w \in Worker : doing[w] \in FileTask /\ Fits(doing[w], resource, documents, uploads)
  BY FileConstants DEF FilesTyped, StoredTypeOK
<1>2. /\ DOMAIN objects \subseteq Key \ {NoKey} /\ \A k \in DOMAIN objects : objects[k] \in Upload
      /\ visible \in BOOLEAN /\ Len(documents) <= MaxRow /\ overlapped \in BOOLEAN
  BY <1>1 DEF StoredTypeOK
<1>3. resource # Absent => resource \in ResourceRow /\ resource.version \in 1 .. MaxRow
  BY <1>1 DEF ResourceRow
<1>4. ASSUME NEW w \in Worker, NEW d \in FileTask, Does(w, d), Fits(d, resource, documents, uploads'),
             UNCHANGED <<objects, resource, visible, documents>>, uploads' \in 0 .. MaxUpload, uploads <= uploads',
             overlapped' \in BOOLEAN
      PROVE  FilesTyped'
  BY <1>1, <1>2, <1>4, OneMoves
<1>5. ASSUME NEW w \in Worker, Does(w, Rest), UNCHANGED <<objects, resource, visible, documents, uploads>>,
             overlapped' \in BOOLEAN
      PROVE  FilesTyped'
  BY <1>1, <1>4, <1>5, RestFits
<1>6. ASSUME NEW w \in Worker, CreateLink(w) PROVE FilesTyped'
  <2>1. resource = Absent /\ UNCHANGED <<objects, visible, documents, doing, uploads>> /\ overlapped' \in BOOLEAN
    BY <1>1, <1>6, <1>2 DEF CreateLink, Alone
  <2>2. resource' \in ResourceRow /\ Placed(resource') /\ resource' # Absent
    BY <1>6, FileConstants DEF CreateLink, ResourceRow, Placed
  <2>3. \A w1 \in Worker : Fits(doing[w1], resource', documents, uploads)
    BY <1>1, <2>1, <2>2 DEF Fits
  <2> QED
    BY <1>1, <1>2, <2>1, <2>2, <2>3 DEF FilesTyped, StoredTypeOK
<1>7. ASSUME NEW w \in Worker, NEW n \in Name, BeginCreate(w, n) PROVE FilesTyped'
  <2> DEFINE d == [at |-> "put", old |-> Absent, version |-> 1, key |-> ResourceKey(1, n), file |-> uploads + 1]
  <2>1. /\ Does(w, d) /\ uploads' = uploads + 1 /\ uploads + 1 \in Upload /\ overlapped' \in BOOLEAN
        /\ UNCHANGED <<objects, resource, visible, documents>>
    BY <1>1, <1>7, <1>2 DEF BeginCreate, Alone, Upload
  <2>2. Absent \in OldRow /\ ResourceKey(1, n) \in Key
    BY FileConstants, KeysApart DEF OldRow
  <2>3. d \in Placing /\ Named(d) /\ d.at = "put"
    BY <2>1, <2>2, FileConstants DEF Placing, Named
  <2>4. d \in FileTask /\ Fits(d, resource, documents, uploads')
    BY <2>3 DEF FileTask, Fits
  <2> HIDE DEF d
  <2>5. uploads' \in 0 .. MaxUpload /\ uploads <= uploads'
    BY <1>1, <2>1 DEF Upload
  <2> QED
    BY <1>4, <2>1, <2>4, <2>5
<1>8. ASSUME NEW w \in Worker, NEW n \in Name, BeginReplace(w, n) PROVE FilesTyped'
  <2> DEFINE d == [at |-> "put", old |-> resource, version |-> resource.version + 1,
                   key |-> ResourceKey(resource.version + 1, n), file |-> uploads + 1]
  <2>1. /\ Does(w, d) /\ uploads' = uploads + 1 /\ uploads + 1 \in Upload /\ overlapped' \in BOOLEAN
        /\ UNCHANGED <<objects, resource, visible, documents>> /\ resource # Absent
    BY <1>1, <1>8, <1>2 DEF BeginReplace, Alone, Upload
  <2>2. resource.version + 1 \in 1 .. MaxRow /\ resource.version + 1 \in Nat \ {0}
    BY <1>1, <1>3, <1>8 DEF BeginReplace
  <2>3. resource \in OldRow /\ ResourceKey(resource.version + 1, n) \in Key
    BY <1>1, <2>2, KeysApart DEF OldRow
  <2>4. d \in Placing /\ Named(d) /\ d.at = "put" /\ d.old # Absent
    BY <2>1, <2>2, <2>3 DEF Placing, Named
  <2>5. d \in FileTask /\ Fits(d, resource, documents, uploads')
    BY <2>1, <2>4 DEF FileTask, Fits
  <2> HIDE DEF d
  <2>6. uploads' \in 0 .. MaxUpload /\ uploads <= uploads'
    BY <1>1, <2>1 DEF Upload
  <2> QED
    BY <1>4, <2>1, <2>5, <2>6
<1>9. ASSUME NEW w \in Worker, NEW type \in {"link", "file"}, BeginEdit(w, type) PROVE FilesTyped'
  <2> DEFINE d == [at |-> "write", old |-> resource, version |-> 0, key |-> NoKey, file |-> 0, type |-> type]
  <2>1. /\ Does(w, d) /\ overlapped' \in BOOLEAN /\ uploads' = uploads
        /\ UNCHANGED <<objects, resource, visible, documents>> /\ resource # Absent
    BY <1>9, <1>2 DEF BeginEdit, Alone
  <2>2. d \in Entering /\ d.at = "write" /\ d.file = 0
    BY <1>1, FileConstants DEF Entering, OldRow
  <2>3. d \in FileTask /\ Fits(d, resource, documents, uploads')
    BY <2>1, <2>2 DEF FileTask, Fits
  <2> HIDE DEF d
  <2>4. uploads' \in 0 .. MaxUpload /\ uploads <= uploads'
    BY <1>1, <2>1
  <2> QED
    BY <1>4, <2>1, <2>3, <2>4
<1>10. ASSUME NEW w \in Worker, PutFile(w) PROVE FilesTyped'
  <2> DEFINE c == doing[w]
             d == [at |-> IF c.old = Absent THEN "insert" ELSE "write", old |-> c.old,
                   version |-> c.version, key |-> c.key, file |-> c.file, type |-> "file"]
  <2>1. /\ Does(w, d) /\ c.at = "put" /\ Put(c.key, c.file)
        /\ UNCHANGED <<resource, visible, documents, uploads, overlapped>>
    BY <1>10 DEF PutFile
  <2>2. /\ c \in Placing /\ Named(c) /\ (c.old # Absent => resource # Absent)
        /\ (c.old = Absent => c.version = 1)
    BY <1>1, <2>1, FileTasks DEF Fits
  <2>3. c.key \in Key \ {NoKey} /\ c.file \in Upload /\ c.file # 0
    BY <2>2, KeysApart, FileConstants DEF Placing, Named, Upload
  <2>4. d \in Entering
    BY <2>2 DEF Placing, Entering
  <2>5. Named(d) /\ d.version = c.version /\ d.type = "file" /\ d.file = c.file /\ d.old = c.old
        /\ d.at = IF c.old = Absent THEN "insert" ELSE "write"
    BY <2>2 DEF Named
  <2>6. d \in FileTask /\ Fits(d, resource, documents, uploads)
    BY <2>2, <2>3, <2>4, <2>5 DEF FileTask, Fits
  <2>7. DOMAIN objects' \subseteq Key \ {NoKey} /\ \A k \in DOMAIN objects' : objects'[k] \in Upload
    BY <1>2, <2>1, <2>3, PutFits
  <2> HIDE DEF d
  <2> QED
    BY <1>1, <1>2, <2>1, <2>6, <2>7, OneMoves
<1>11. ASSUME NEW w \in Worker, Insert(w) PROVE FilesTyped'
  <2> DEFINE c == doing[w]
  <2>1. /\ Does(w, Rest) /\ c.at = "insert" /\ UNCHANGED <<objects, visible, documents, uploads, overlapped>>
        /\ resource' = [type |-> "file", key |-> c.key, file |-> c.file, version |-> 1, active |-> TRUE]
    BY <1>11 DEF Insert
  <2>2. c \in Entering /\ Named(c) /\ c.version = 1 /\ c.file # 0
    BY <1>1, <2>1, FileTasks DEF Fits
  <2>3. c.key \in Key /\ c.file \in {0} \cup Upload
    BY <2>2 DEF Entering
  <2>4. resource' \in ResourceRow /\ Placed(resource') /\ resource' # Absent
    BY <2>1, <2>2, <2>3, FileConstants DEF ResourceRow, Placed, Named
  <2>5. Rest \in FileTask /\ Fits(Rest, resource', documents', uploads')
    BY RestFits
  <2>6. /\ DOMAIN objects' \subseteq Key \ {NoKey} /\ \A k \in DOMAIN objects' : objects'[k] \in Upload
        /\ visible' \in BOOLEAN /\ overlapped' \in BOOLEAN /\ uploads' \in 0 .. MaxUpload /\ uploads <= uploads'
        /\ Len(documents') <= MaxRow /\ documents' \in Seq(Document) /\ DOMAIN documents \subseteq DOMAIN documents'
        /\ resource' \in ResourceRow \cup {Absent} /\ Placed(resource') /\ (resource # Absent => resource' # Absent)
    BY <1>1, <1>2, <2>1, <2>4
  <2> QED
    BY <2>1, <2>5, <2>6, OneMoves
<1>12. ASSUME NEW w \in Worker, WriteRow(w) PROVE FilesTyped'
  <2> DEFINE c == doing[w]
             d == IF Superseded(c.old) THEN [at |-> "remove", key |-> c.old.key] ELSE Rest
  <2>1. /\ Does(w, d) /\ c.at = "write" /\ UNCHANGED <<objects, visible, documents, uploads, overlapped>>
        /\ resource' = Written(c)
    BY <1>12 DEF WriteRow
  <2>2. c \in Entering /\ resource # Absent /\ (c.type = "file" /\ c.file # 0 => Named(c))
    BY <1>1, <2>1, FileTasks DEF Fits
  <2>3. /\ c.key \in Key /\ c.file \in {0} \cup Upload /\ c.old \in ResourceRow \cup {Absent}
        /\ c.type \in {"link", "file"} /\ c.old.key \in Key
    <3>1. /\ c.key \in Key /\ c.file \in {0} \cup Upload /\ c.old \in ResourceRow \cup {Absent}
          /\ c.type \in {"link", "file"}
      BY <2>2 DEF Entering, OldRow
    <3>2. c.old.key \in Key
      BY <3>1, FileConstants DEF ResourceRow, Absent
    <3> QED
      BY <3>1, <3>2
  <2>4. resource' \in ResourceRow /\ Placed(resource')
    <3>1. CASE c.type = "link"
      BY <1>3, <2>1, <2>2, <3>1, FileConstants DEF Written, ResourceRow, Placed
    <3>2. CASE c.type = "file" /\ c.file = 0
      BY <1>1, <1>3, <2>1, <2>2, <3>2 DEF Written, ResourceRow, Placed
    <3>3. CASE c.type = "file" /\ c.file # 0
      <4>1. resource' = [resource EXCEPT !.type = "file", !.key = c.key, !.file = c.file, !.version = c.version]
        BY <2>1, <3>3 DEF Written
      <4>2. c.version \in 1 .. MaxRow /\ \E n \in Name : c.key = ResourceKey(c.version, n)
        BY <2>2, <3>3 DEF Named
      <4>3. resource' \in ResourceRow
        BY <1>3, <2>2, <2>3, <4>1, <4>2 DEF ResourceRow
      <4> QED
        BY <1>3, <2>2, <4>1, <4>2, <4>3 DEF ResourceRow, Placed
    <3> QED
      BY <2>3, <3>1, <3>2, <3>3
  <2>5. d \in FileTask /\ Fits(d, resource', documents, uploads)
    <3>1. [at |-> "remove", key |-> c.old.key] \in FileTask
      BY <2>3 DEF FileTask, Clearing
    <3>2. Fits([at |-> "remove", key |-> c.old.key], resource', documents, uploads)
      BY DEF Fits
    <3> QED
      BY <3>1, <3>2, RestFits
  <2>6. resource' # Absent
    BY <2>4, FileConstants
  <2> HIDE DEF d
  <2> QED
    BY <1>1, <1>2, <2>1, <2>4, <2>5, <2>6, OneMoves
<1>13. CASE DeactivateResource
  <2>1. /\ resource.active /\ resource' = [resource EXCEPT !.active = FALSE]
        /\ UNCHANGED <<objects, visible, documents, doing, uploads, overlapped>>
    BY <1>13 DEF DeactivateResource
  <2>2. resource # Absent
    BY <2>1 DEF Absent
  <2>3. resource' \in ResourceRow /\ Placed(resource') /\ resource' # Absent
    BY <1>1, <1>3, <2>1, <2>2, FileConstants DEF ResourceRow, Placed
  <2>4. \A w \in Worker : Fits(doing[w], resource', documents, uploads)
    BY <1>1, <2>2, <2>3 DEF Fits
  <2> QED
    BY <1>1, <1>2, <2>1, <2>3, <2>4 DEF FilesTyped, StoredTypeOK
<1>14. CASE ReplaceVisibility
  BY <1>1, <1>2, <1>14 DEF ReplaceVisibility, FilesTyped, StoredTypeOK
<1>15. ASSUME NEW w \in Worker, BeginAttach(w) PROVE FilesTyped'
  <2> DEFINE d == [at |-> "attach", file |-> uploads + 1]
  <2>1. /\ Does(w, d) /\ uploads' = uploads + 1 /\ uploads + 1 \in Upload
        /\ UNCHANGED <<objects, resource, visible, documents, overlapped>>
    BY <1>1, <1>15 DEF BeginAttach, Upload
  <2>2. d \in Attaching /\ d.at = "attach" /\ d.file = uploads'
    BY <2>1 DEF Attaching
  <2>3. d \in FileTask /\ Fits(d, resource, documents, uploads')
    BY <1>1, <2>1, <2>2 DEF FileTask, Fits
  <2> HIDE DEF d
  <2>4. uploads' \in 0 .. MaxUpload /\ uploads <= uploads'
    BY <1>1, <2>1 DEF Upload
  <2> QED
    BY <1>2, <1>4, <2>1, <2>3, <2>4
<1>16. ASSUME NEW w \in Worker, PutDocument(w) PROVE FilesTyped'
  <2> DEFINE c == doing[w]
             d == [c EXCEPT !.at = "insertDocument"]
  <2>1. /\ Does(w, d) /\ c.at = "attach" /\ Put(DocumentKey(c.file), c.file)
        /\ UNCHANGED <<resource, visible, documents, uploads, overlapped>>
    BY <1>16 DEF PutDocument
  <2>2. c \in Attaching /\ c.file <= uploads
    BY <1>1, <2>1, FileTasks DEF Fits
  <2>3. d \in Attaching /\ d.at = "insertDocument" /\ d.file = c.file /\ c.file \in Upload
    BY <2>2 DEF Attaching
  <2>4. d \in FileTask /\ Fits(d, resource, documents, uploads)
    BY <2>2, <2>3 DEF FileTask, Fits
  <2>5. DOMAIN objects' \subseteq Key \ {NoKey} /\ \A k \in DOMAIN objects' : objects'[k] \in Upload
    <3>1. DocumentKey(c.file) \in Key \ {NoKey}
      BY <2>3, KeysApart
    <3> QED
      BY <1>2, <2>1, <2>3, <3>1, PutFits
  <2> HIDE DEF d
  <2> QED
    BY <1>1, <1>2, <2>1, <2>4, <2>5, OneMoves
<1>17. ASSUME NEW w \in Worker, InsertDocument(w) PROVE FilesTyped'
  <2> DEFINE c == doing[w]
  <2>1. /\ Does(w, Rest) /\ c.at = "insertDocument" /\ Len(documents) < MaxRow
        /\ documents' = Append(documents, [file |-> c.file, active |-> TRUE])
        /\ UNCHANGED <<objects, resource, visible, uploads, overlapped>>
    BY <1>17 DEF InsertDocument
  <2>2. c.file \in Upload
    BY <1>1, <2>1, FileTasks DEF Attaching
  <2>3. [file |-> c.file, active |-> TRUE] \in Document
    BY <2>2 DEF Document
  <2>4. documents' \in Seq(Document) /\ Len(documents') <= MaxRow /\ DOMAIN documents \subseteq DOMAIN documents'
    BY <1>1, <2>1, <2>3
  <2>5. Rest \in FileTask /\ Fits(Rest, resource', documents', uploads')
    BY RestFits
  <2>6. /\ DOMAIN objects' \subseteq Key \ {NoKey} /\ \A k \in DOMAIN objects' : objects'[k] \in Upload
        /\ visible' \in BOOLEAN /\ overlapped' \in BOOLEAN /\ uploads' \in 0 .. MaxUpload /\ uploads <= uploads'
        /\ Len(documents') <= MaxRow /\ documents' \in Seq(Document) /\ DOMAIN documents \subseteq DOMAIN documents'
        /\ resource' \in ResourceRow \cup {Absent} /\ Placed(resource') /\ (resource # Absent => resource' # Absent)
    BY <1>1, <1>2, <2>1, <2>4
  <2> QED
    BY <2>1, <2>5, <2>6, OneMoves
<1>18. ASSUME NEW w \in Worker, DeactivateDocument(w) PROVE FilesTyped'
  <2> DEFINE i == doing[w].document
             d == [at |-> "remove", key |-> DocumentKey(documents[i].file)]
  <2>1. /\ Does(w, d) /\ doing[w].at = "deactivate" /\ documents' = [documents EXCEPT ![i].active = FALSE]
        /\ UNCHANGED <<objects, resource, visible, uploads, overlapped>>
    BY <1>18 DEF DeactivateDocument
  <2>2. i \in DOMAIN documents
    BY <1>1, <2>1 DEF Fits
  <2>3. documents[i] \in Document
    BY <1>1, <2>2
  <2>4. documents' \in Seq(Document) /\ Len(documents') = Len(documents) /\ DOMAIN documents' = DOMAIN documents
    BY <1>1, <2>1, <2>2, Deactivated
  <2>5. d.key \in Key /\ d.at = "remove"
    BY <2>3, KeysApart DEF Document
  <2>6. d \in FileTask /\ Fits(d, resource, documents', uploads)
    BY <2>5 DEF FileTask, Clearing, Fits
  <2>7. /\ DOMAIN objects' \subseteq Key \ {NoKey} /\ \A k \in DOMAIN objects' : objects'[k] \in Upload
        /\ visible' \in BOOLEAN /\ overlapped' \in BOOLEAN /\ uploads' \in 0 .. MaxUpload /\ uploads <= uploads'
        /\ Len(documents') <= MaxRow /\ documents' \in Seq(Document) /\ DOMAIN documents \subseteq DOMAIN documents'
        /\ resource' \in ResourceRow \cup {Absent} /\ Placed(resource') /\ (resource # Absent => resource' # Absent)
        /\ Fits(d, resource', documents', uploads')
    BY <1>1, <1>2, <2>1, <2>4, <2>6
  <2> HIDE DEF d, i
  <2> QED
    BY <2>1, <2>6, <2>7, OneMoves
<1>19. ASSUME NEW w \in Worker, NEW i \in DOMAIN documents, BeginRemove(w, i) PROVE FilesTyped'
  <2> DEFINE d == [at |-> "deactivate", document |-> i]
  <2>1. Does(w, d) /\ UNCHANGED <<objects, resource, visible, documents, uploads, overlapped>>
    BY <1>19 DEF BeginRemove
  <2>2. i \in Nat
    BY <1>1
  <2>3. d \in FileTask /\ Fits(d, resource, documents, uploads)
    BY <2>2 DEF FileTask, Taking, Fits
  <2> HIDE DEF d
  <2> QED
    BY <1>1, <1>2, <1>4, <2>1, <2>3
<1>20. ASSUME NEW w \in Worker, RemoveObject(w) PROVE FilesTyped'
  <2>1. /\ Does(w, Rest) /\ Remove(doing[w].key) /\ UNCHANGED <<resource, visible, documents, uploads, overlapped>>
    BY <1>20 DEF RemoveObject
  <2>2. DOMAIN objects' \subseteq Key \ {NoKey} /\ \A k \in DOMAIN objects' : objects'[k] \in Upload
    BY <1>2, <2>1, RemoveIs
  <2> QED
    BY <1>1, <1>2, <2>1, <2>2, RestFits, OneMoves
<1>21. ASSUME NEW w \in Worker, FindResource(w) PROVE FilesTyped'
  <2> DEFINE d == [at |-> "find", key |-> resource.key, file |-> resource.file]
  <2>1. Does(w, d) /\ UNCHANGED <<objects, resource, visible, documents, uploads, overlapped>> /\ resource.active
    BY <1>21 DEF FindResource
  <2>2. resource.key \in Key /\ resource.file \in {0} \cup Upload
    BY <1>1, <2>1 DEF ResourceRow, Absent
  <2>3. d \in FileTask /\ Fits(d, resource, documents, uploads)
    BY <2>2 DEF FileTask, Fetching, Fits
  <2> HIDE DEF d
  <2> QED
    BY <1>1, <1>2, <1>4, <2>1, <2>3
<1>22. ASSUME NEW w \in Worker, Authorize(w) PROVE FilesTyped'
  <2> DEFINE c == doing[w]
             d == [c EXCEPT !.at = "get"]
  <2>1. /\ c.at = "find" /\ Does(w, IF visible THEN d ELSE Rest)
        /\ UNCHANGED <<objects, resource, visible, documents, uploads, overlapped>>
    BY <1>22 DEF Authorize
  <2>2. c \in Fetching
    BY <1>1, <2>1, FileTasks
  <2>3. d \in Fetching /\ d.at = "get"
    BY <2>2 DEF Fetching
  <2>4. d \in FileTask /\ Fits(d, resource, documents, uploads)
    BY <2>3 DEF FileTask, Fits
  <2> HIDE DEF d
  <2>5. CASE visible
    BY <1>1, <1>2, <1>4, <2>1, <2>4, <2>5
  <2>6. CASE ~visible
    BY <1>2, <1>5, <2>1, <2>6
  <2> QED
    BY <2>5, <2>6
<1>23. ASSUME NEW w \in Worker, NEW i \in DOMAIN documents, FindDocument(w, i) PROVE FilesTyped'
  <2> DEFINE d == [at |-> "get", key |-> DocumentKey(documents[i].file), file |-> documents[i].file]
  <2>1. Does(w, d) /\ UNCHANGED <<objects, resource, visible, documents, uploads, overlapped>>
    BY <1>23 DEF FindDocument
  <2>2. documents[i].file \in Upload
    <3>1. documents[i] \in Document
      BY <1>1
    <3> QED
      BY <3>1 DEF Document
  <2>3. DocumentKey(documents[i].file) \in Key
    BY <2>2, KeysApart
  <2>4. d \in FileTask /\ Fits(d, resource, documents, uploads)
    BY <2>2, <2>3 DEF FileTask, Fetching, Fits
  <2> HIDE DEF d
  <2> QED
    BY <1>1, <1>2, <1>4, <2>1, <2>4
<1>24. ASSUME NEW w \in Worker, Get(w) PROVE FilesTyped'
  <2> DEFINE c == doing[w]
             d == [at |-> "served", file |-> c.file, content |-> objects[c.key]]
  <2>1. /\ c.at = "get" /\ Does(w, IF c.key \in DOMAIN objects THEN d ELSE Rest)
        /\ UNCHANGED <<objects, resource, visible, documents, uploads, overlapped>>
    BY <1>24 DEF Get
  <2>2. c.file \in {0} \cup Upload
    BY <1>1, <2>1, FileTasks DEF Fetching
  <2>3. ASSUME c.key \in DOMAIN objects PROVE d \in FileTask /\ Fits(d, resource, documents, uploads)
    <3>1. d \in Serving /\ d.at = "served"
      BY <1>2, <2>2, <2>3 DEF Serving
    <3> QED
      BY <3>1 DEF FileTask, Fits
  <2> HIDE DEF d
  <2>4. CASE c.key \in DOMAIN objects
    BY <1>1, <1>2, <1>4, <2>1, <2>3, <2>4
  <2>5. CASE c.key \notin DOMAIN objects
    BY <1>2, <1>5, <2>1, <2>5
  <2> QED
    BY <2>4, <2>5
<1>25. ASSUME NEW w \in Worker, End(w) PROVE FilesTyped'
  BY <1>2, <1>5, <1>25 DEF End
<1>26. CASE UNCHANGED stored
  BY <1>26 DEF stored, FilesTyped, StoredTypeOK
<1> QED
  BY <1>6, <1>7, <1>8, <1>9, <1>10, <1>11, <1>12, <1>13, <1>14, <1>15, <1>16, <1>17, <1>18, <1>19, <1>20,
     <1>21, <1>22, <1>23, <1>24, <1>25, <1>26 DEF StoredNext

Attaches(d) == d.at \in {"attach", "insertDocument"}

(* Every upload has a row or a request of its own; a row is active only     *)
(* between the put of its object and its removal.                           *)
DocumentsSafe ==
  /\ DocumentsAreStored
  /\ \A u \in Upload : DocumentKey(u) \in DOMAIN objects => objects[DocumentKey(u)] = u
  /\ \A i \in DOMAIN documents : documents[i].file <= uploads
  /\ \A i, j \in DOMAIN documents : documents[i].file = documents[j].file => i = j
  /\ \A w \in Worker : Attaches(doing[w]) =>
       /\ \A i \in DOMAIN documents : documents[i].file # doing[w].file
       /\ \A v \in Worker \ {w} : Attaches(doing[v]) => doing[v].file # doing[w].file
       /\ doing[w].at = "insertDocument" => DocumentKey(doing[w].file) \in DOMAIN objects
  /\ \A w \in Worker, u \in Upload : doing[w].at = "remove" /\ doing[w].key = DocumentKey(u) =>
       /\ u <= uploads
       /\ \A i \in DOMAIN documents : documents[i].file = u => ~documents[i].active
       /\ \A v \in Worker : Attaches(doing[v]) => doing[v].file # u

LEMMA DocumentFiles ==
  ASSUME FilesTyped
  PROVE  /\ uploads \in Nat /\ Upload \subseteq Nat
         /\ \A i \in DOMAIN documents : documents[i].file \in Upload /\ documents[i].file \in Nat
         /\ \A w \in Worker : Attaches(doing[w]) =>
              doing[w].file \in Upload /\ doing[w].file \in Nat /\ doing[w].file <= uploads
<1>1. uploads \in Nat /\ Upload \subseteq Nat /\ documents \in Seq(Document)
  BY FileConstants DEF FilesTyped, StoredTypeOK, Upload
<1>2. \A i \in DOMAIN documents : documents[i] \in Document
  BY <1>1
<1>3. \A d \in Document : d.file \in Upload
  BY DEF Document
<1>4. \A w \in Worker : Attaches(doing[w]) => doing[w].file \in Upload /\ doing[w].file <= uploads
  BY FileTasks DEF FilesTyped, Fits, Attaches, Attaching
<1> QED
  BY <1>1, <1>2, <1>3, <1>4

(* A request that is not about documents.                                   *)
Aside(d) == ~Attaches(d) /\ (d.at = "remove" => \A u \in Upload : d.key # DocumentKey(u))

LEMMA DocumentsKeep ==
  ASSUME FilesTyped, FilesTyped', DocumentsSafe, documents' = documents, uploads <= uploads',
         \A u \in Upload : /\ DocumentKey(u) \in DOMAIN objects' <=> DocumentKey(u) \in DOMAIN objects
                           /\ DocumentKey(u) \in DOMAIN objects => objects'[DocumentKey(u)] = objects[DocumentKey(u)],
         \A v \in Worker : doing'[v] = doing[v] \/ Aside(doing'[v])
  PROVE  DocumentsSafe'
<1>1. /\ uploads \in Nat /\ uploads' \in Nat /\ Upload \subseteq Nat
      /\ \A i \in DOMAIN documents : documents[i].file \in Upload
  <2>1. uploads' \in Nat
    BY FileConstants DEF FilesTyped, StoredTypeOK
  <2> QED
    BY <2>1, DocumentFiles
<1>2. \A w \in Worker : Attaches(doing[w]) => doing[w].file \in Upload
  BY DocumentFiles
<1>3. DocumentsAreStored'
  BY <1>1 DEF DocumentsSafe, DocumentsAreStored, Holds
<1>4. \A u \in Upload : DocumentKey(u) \in DOMAIN objects' => objects'[DocumentKey(u)] = u
  BY DEF DocumentsSafe
<1>5. \A i \in DOMAIN documents' : documents'[i].file <= uploads'
  <2>1. \A i \in DOMAIN documents : documents[i].file \in Nat /\ documents[i].file <= uploads
    BY DocumentFiles DEF DocumentsSafe
  <2> QED
    BY <1>1, <2>1
<1>6. \A w \in Worker : Attaches(doing'[w]) => Attaches(doing[w]) /\ doing'[w] = doing[w]
  BY DEF Aside
<1>7. \A w \in Worker, u \in Upload : doing'[w].at = "remove" /\ doing'[w].key = DocumentKey(u) => doing'[w] = doing[w]
  BY DEF Aside
<1>8. ASSUME NEW w \in Worker, Attaches(doing'[w])
      PROVE  /\ \A i \in DOMAIN documents' : documents'[i].file # doing'[w].file
             /\ \A v \in Worker \ {w} : Attaches(doing'[v]) => doing'[v].file # doing'[w].file
             /\ doing'[w].at = "insertDocument" => DocumentKey(doing'[w].file) \in DOMAIN objects'
  BY <1>2, <1>6, <1>8 DEF DocumentsSafe
<1>9. ASSUME NEW w \in Worker, NEW u \in Upload, doing'[w].at = "remove", doing'[w].key = DocumentKey(u)
      PROVE  /\ u <= uploads'
             /\ \A i \in DOMAIN documents' : documents'[i].file = u => ~documents'[i].active
             /\ \A v \in Worker : Attaches(doing'[v]) => doing'[v].file # u
  <2>1. doing[w].at = "remove" /\ doing[w].key = DocumentKey(u)
    BY <1>7, <1>9
  <2>2. u <= uploads /\ u \in Nat
    BY <1>1, <2>1 DEF DocumentsSafe
  <2>3. u <= uploads'
    BY <1>1, <2>2
  <2> QED
    BY <1>6, <2>1, <2>3 DEF DocumentsSafe
<1>10. \A i, j \in DOMAIN documents' : documents'[i].file = documents'[j].file => i = j
  BY DEF DocumentsSafe
<1> QED
  BY <1>3, <1>4, <1>5, <1>8, <1>9, <1>10 DEF DocumentsSafe

LEMMA BeginAttachSafe ==
  ASSUME FilesTyped, FilesTyped', DocumentsSafe, NEW w \in Worker, BeginAttach(w)
  PROVE  DocumentsSafe'
<1> DEFINE f == uploads + 1
<1>1. /\ uploads \in Nat /\ uploads' = f /\ f \in Nat /\ Upload \subseteq Nat
      /\ UNCHANGED <<objects, resource, visible, documents, overlapped>>
      /\ doing' = [doing EXCEPT ![w] = [at |-> "attach", file |-> f]]
  BY FileConstants DEF BeginAttach, Does, FilesTyped, StoredTypeOK, Upload
<1>2. /\ doing'[w] = [at |-> "attach", file |-> f] /\ \A v \in Worker \ {w} : doing'[v] = doing[v]
  BY <1>1 DEF FilesTyped
<1>3. \A i \in DOMAIN documents : documents[i].file \in Nat /\ documents[i].file < f /\ documents[i].file <= f
  <2>1. \A i \in DOMAIN documents : documents[i].file \in Nat /\ documents[i].file <= uploads
    BY DocumentFiles DEF DocumentsSafe
  <2> QED
    BY <1>1, <2>1
<1>4. \A v \in Worker : Attaches(doing[v]) => doing[v].file \in Nat /\ doing[v].file < f
  <2>1. \A v \in Worker : Attaches(doing[v]) => doing[v].file \in Nat /\ doing[v].file <= uploads
    BY DocumentFiles
  <2> QED
    BY <1>1, <2>1
<1>5. ASSUME NEW v \in Worker, NEW u \in Upload, doing'[v].at = "remove", doing'[v].key = DocumentKey(u)
      PROVE  /\ u <= uploads'
             /\ \A i \in DOMAIN documents' : documents'[i].file = u => ~documents'[i].active
             /\ \A x \in Worker : Attaches(doing'[x]) => doing'[x].file # u
  <2>1. v # w /\ doing'[v] = doing[v]
    BY <1>2, <1>5
  <2>2. u <= uploads /\ u \in Nat
    BY <1>1, <1>5, <2>1 DEF DocumentsSafe
  <2>3. u <= f /\ u < f
    BY <1>1, <2>2
  <2> QED
    BY <1>1, <1>2, <1>5, <2>1, <2>3 DEF DocumentsSafe
<1>6. ASSUME NEW v \in Worker, Attaches(doing'[v])
      PROVE  /\ \A i \in DOMAIN documents' : documents'[i].file # doing'[v].file
             /\ \A x \in Worker \ {v} : Attaches(doing'[x]) => doing'[x].file # doing'[v].file
             /\ doing'[v].at = "insertDocument" => DocumentKey(doing'[v].file) \in DOMAIN objects'
  <2>1. CASE v = w
    BY <1>1, <1>2, <1>3, <1>4, <2>1
  <2>2. CASE v # w
    BY <1>1, <1>2, <1>4, <1>6, <2>2 DEF DocumentsSafe
  <2> QED
    BY <2>1, <2>2
<1>7. DocumentsAreStored'
  BY <1>1 DEF DocumentsSafe, DocumentsAreStored, Holds
<1> QED
  BY <1>1, <1>3, <1>5, <1>6, <1>7 DEF DocumentsSafe

LEMMA PutDocumentSafe ==
  ASSUME FilesTyped, FilesTyped', DocumentsSafe, NEW w \in Worker, PutDocument(w)
  PROVE  DocumentsSafe'
<1> DEFINE f == doing[w].file
<1>1. /\ doing[w].at = "attach" /\ Put(DocumentKey(f), f) /\ UNCHANGED <<documents, uploads>>
      /\ doing' = [doing EXCEPT ![w] = [doing[w] EXCEPT !.at = "insertDocument"]]
  BY DEF PutDocument, Does
<1>2. doing[w] \in Attaching /\ f \in Upload
  BY <1>1, FileTasks DEF FilesTyped, Attaching
<1>3. /\ doing'[w].at = "insertDocument" /\ doing'[w].file = f /\ \A v \in Worker \ {w} : doing'[v] = doing[v]
  BY <1>1, <1>2 DEF FilesTyped, Attaching
<1>4. /\ DOMAIN objects' = DOMAIN objects \cup {DocumentKey(f)} /\ objects'[DocumentKey(f)] = f
      /\ \A k \in DOMAIN objects \ {DocumentKey(f)} : objects'[k] = objects[k]
  BY <1>1, PutIs
<1>5. \A u \in Upload : DocumentKey(u) \in DOMAIN objects' => objects'[DocumentKey(u)] = u
  BY <1>4, KeysApart DEF DocumentsSafe
<1>6. DocumentsAreStored'
  <2>2. \A i \in DOMAIN documents : documents[i].file \in Upload
    BY DocumentFiles
  <2>3. \A i \in DOMAIN documents : documents[i].active => DocumentKey(documents[i].file) \in DOMAIN objects'
    BY <1>4 DEF DocumentsSafe, DocumentsAreStored, Holds
  <2> QED
    BY <1>1, <1>5, <2>2, <2>3 DEF DocumentsAreStored, Holds
<1>7. \A v \in Worker : /\ Attaches(doing'[v]) <=> Attaches(doing[v])
                        /\ Attaches(doing[v]) => doing'[v].file = doing[v].file
                        /\ doing'[v].at = "remove" => doing'[v] = doing[v]
  BY <1>1, <1>3 DEF Attaches
<1>8. ASSUME NEW v \in Worker, Attaches(doing'[v])
      PROVE  /\ \A i \in DOMAIN documents' : documents'[i].file # doing'[v].file
             /\ \A x \in Worker \ {v} : Attaches(doing'[x]) => doing'[x].file # doing'[v].file
             /\ doing'[v].at = "insertDocument" => DocumentKey(doing'[v].file) \in DOMAIN objects'
  BY <1>1, <1>3, <1>4, <1>7, <1>8 DEF DocumentsSafe
<1>9. ASSUME NEW v \in Worker, NEW u \in Upload, doing'[v].at = "remove", doing'[v].key = DocumentKey(u)
      PROVE  /\ u <= uploads'
             /\ \A i \in DOMAIN documents' : documents'[i].file = u => ~documents'[i].active
             /\ \A x \in Worker : Attaches(doing'[x]) => doing'[x].file # u
  BY <1>1, <1>7, <1>9 DEF DocumentsSafe
<1> QED
  BY <1>1, <1>5, <1>6, <1>8, <1>9 DEF DocumentsSafe

LEMMA InsertDocumentSafe ==
  ASSUME FilesTyped, FilesTyped', DocumentsSafe, NEW w \in Worker, InsertDocument(w)
  PROVE  DocumentsSafe'
<1> DEFINE f == doing[w].file
           n == Len(documents) + 1
<1>1. /\ doing[w].at = "insertDocument" /\ UNCHANGED <<objects, uploads>>
      /\ documents' = Append(documents, [file |-> f, active |-> TRUE])
      /\ doing' = [doing EXCEPT ![w] = Rest]
  BY DEF InsertDocument, Does
<1>2. f \in Upload /\ f <= uploads /\ Attaches(doing[w])
  BY <1>1, FileTasks DEF FilesTyped, Attaching, Fits, Attaches
<1>3. /\ ~Attaches(doing'[w]) /\ doing'[w].at # "remove" /\ \A v \in Worker \ {w} : doing'[v] = doing[v]
  BY <1>1, RestFits DEF FilesTyped, Attaches
<1>4. /\ DOMAIN documents' = DOMAIN documents \cup {n} /\ n \notin DOMAIN documents
      /\ documents'[n].file = f /\ \A i \in DOMAIN documents : documents'[i] = documents[i]
  <2>1. documents \in Seq(Document)
    BY DEF FilesTyped, StoredTypeOK
  <2>2. DOMAIN documents = 1 .. Len(documents) /\ Len(documents) \in Nat /\ DOMAIN documents' = 1 .. n
        /\ documents'[n] = [file |-> f, active |-> TRUE] /\ \A i \in 1 .. Len(documents) : documents'[i] = documents[i]
    BY <1>1, <2>1
  <2> QED
    BY <2>2
<1>5. Holds(DocumentKey(f), f)
  BY <1>1, <1>2 DEF DocumentsSafe, Holds
<1>6. \A i \in DOMAIN documents : documents[i].file # f
  BY <1>2 DEF DocumentsSafe
<1>7. DocumentsAreStored'
  <2>1. \A i \in DOMAIN documents : documents[i].active => Holds(DocumentKey(documents[i].file), documents[i].file)
    BY DEF DocumentsSafe, DocumentsAreStored
  <2> HIDE DEF n, f
  <2> QED
    BY <1>1, <1>4, <1>5, <2>1 DEF DocumentsAreStored, Holds
<1>8. ASSUME NEW v \in Worker, Attaches(doing'[v])
      PROVE  /\ \A i \in DOMAIN documents' : documents'[i].file # doing'[v].file
             /\ \A x \in Worker \ {v} : Attaches(doing'[x]) => doing'[x].file # doing'[v].file
             /\ doing'[v].at = "insertDocument" => DocumentKey(doing'[v].file) \in DOMAIN objects'
  <2> HIDE DEF n
  <2>1. v # w /\ doing'[v] = doing[v] /\ doing[v].file # f
    BY <1>2, <1>3, <1>8 DEF DocumentsSafe
  <2> QED
    BY <1>1, <1>3, <1>4, <1>8, <2>1 DEF DocumentsSafe
<1>9. ASSUME NEW v \in Worker, NEW u \in Upload, doing'[v].at = "remove", doing'[v].key = DocumentKey(u)
      PROVE  /\ u <= uploads'
             /\ \A i \in DOMAIN documents' : documents'[i].file = u => ~documents'[i].active
             /\ \A x \in Worker : Attaches(doing'[x]) => doing'[x].file # u
  <2> HIDE DEF n
  <2>1. v # w /\ doing'[v] = doing[v] /\ u # f
    BY <1>2, <1>3, <1>9 DEF DocumentsSafe
  <2> QED
    BY <1>1, <1>3, <1>4, <1>9, <2>1 DEF DocumentsSafe
<1>10. \A i \in DOMAIN documents' : documents'[i].file <= uploads'
  <2> HIDE DEF n
  <2> QED
    BY <1>1, <1>2, <1>4 DEF DocumentsSafe
<1>11. \A i, j \in DOMAIN documents' : documents'[i].file = documents'[j].file => i = j
  <2> HIDE DEF n
  <2> QED
    BY <1>4, <1>6 DEF DocumentsSafe
<1> QED
  BY <1>1, <1>7, <1>8, <1>9, <1>10, <1>11 DEF DocumentsSafe

LEMMA DeactivateDocumentSafe ==
  ASSUME FilesTyped, FilesTyped', DocumentsSafe, NEW w \in Worker, DeactivateDocument(w)
  PROVE  DocumentsSafe'
<1> DEFINE i == doing[w].document
           f == documents[i].file
<1>1. /\ doing[w].at = "deactivate" /\ UNCHANGED <<objects, uploads>>
      /\ documents' = [documents EXCEPT ![i].active = FALSE]
      /\ doing' = [doing EXCEPT ![w] = [at |-> "remove", key |-> DocumentKey(f)]]
  BY DEF DeactivateDocument, Does
<1>2. i \in DOMAIN documents
  BY <1>1 DEF FilesTyped, Fits
<1>3. /\ DOMAIN documents' = DOMAIN documents
      /\ \A j \in DOMAIN documents : /\ documents'[j].file = documents[j].file
                                     /\ documents'[j].active => j # i /\ documents[j].active
  <2>1. documents \in Seq(Document)
    BY DEF FilesTyped, StoredTypeOK
  <2> QED
    BY <1>1, <1>2, <2>1, Deactivated
<1>4. /\ doing'[w] = [at |-> "remove", key |-> DocumentKey(f)] /\ \A v \in Worker \ {w} : doing'[v] = doing[v]
  BY <1>1 DEF FilesTyped
<1> HIDE DEF i
<1>5. DocumentsAreStored'
  BY <1>1, <1>3 DEF DocumentsSafe, DocumentsAreStored, Holds
<1>6. ~Attaches(doing'[w])
  BY <1>4 DEF Attaches
<1>7. ASSUME NEW v \in Worker, Attaches(doing'[v])
      PROVE  /\ \A j \in DOMAIN documents' : documents'[j].file # doing'[v].file
             /\ \A x \in Worker \ {v} : Attaches(doing'[x]) => doing'[x].file # doing'[v].file
             /\ doing'[v].at = "insertDocument" => DocumentKey(doing'[v].file) \in DOMAIN objects'
  BY <1>1, <1>3, <1>4, <1>6, <1>7 DEF DocumentsSafe
<1>8. ASSUME NEW v \in Worker, NEW u \in Upload, doing'[v].at = "remove", doing'[v].key = DocumentKey(u)
      PROVE  /\ u <= uploads'
             /\ \A j \in DOMAIN documents' : documents'[j].file = u => ~documents'[j].active
             /\ \A x \in Worker : Attaches(doing'[x]) => doing'[x].file # u
  <2>1. CASE v = w
    <3>1. u = f
      BY <1>4, <1>8, <2>1, KeysApart
    <3>2. \A j \in DOMAIN documents : documents[j].file = f => j = i
      BY <1>2 DEF DocumentsSafe
    <3>3. \A x \in Worker : Attaches(doing'[x]) => doing'[x].file # f
      BY <1>2, <1>4, <1>6 DEF DocumentsSafe
    <3> QED
      BY <1>1, <1>2, <1>3, <3>1, <3>2, <3>3 DEF DocumentsSafe
  <2>2. CASE v # w
    BY <1>1, <1>3, <1>4, <1>6, <1>8, <2>2 DEF DocumentsSafe
  <2> QED
    BY <2>1, <2>2
<1> QED
  BY <1>1, <1>3, <1>5, <1>7, <1>8 DEF DocumentsSafe

LEMMA RemoveObjectSafe ==
  ASSUME FilesTyped, FilesTyped', DocumentsSafe, NEW w \in Worker, RemoveObject(w)
  PROVE  DocumentsSafe'
<1> DEFINE k == doing[w].key
<1>1. /\ doing[w].at = "remove" /\ Remove(k) /\ UNCHANGED <<documents, uploads>>
      /\ doing' = [doing EXCEPT ![w] = Rest]
  BY DEF RemoveObject, Does
<1>2. DOMAIN objects' = DOMAIN objects \ {k} /\ \A x \in DOMAIN objects' : objects'[x] = objects[x]
  BY <1>1, RemoveIs
<1>3. /\ ~Attaches(doing'[w]) /\ doing'[w].at # "remove" /\ \A v \in Worker \ {w} : doing'[v] = doing[v]
  BY <1>1, RestFits DEF FilesTyped, Attaches
<1>4. \A j \in DOMAIN documents : documents[j].file \in Upload
  BY DocumentFiles
<1>5. \A v \in Worker : Attaches(doing[v]) => doing[v].file \in Upload
  BY FileTasks DEF FilesTyped, Attaches, Attaching
<1>6. \A j \in DOMAIN documents : documents[j].active => DocumentKey(documents[j].file) # k
  BY <1>1, <1>4 DEF DocumentsSafe
<1>7. \A v \in Worker : Attaches(doing[v]) => DocumentKey(doing[v].file) # k
  BY <1>1, <1>5 DEF DocumentsSafe
<1> HIDE DEF k
<1>8. DocumentsAreStored'
  BY <1>1, <1>2, <1>6 DEF DocumentsSafe, DocumentsAreStored, Holds
<1>9. ASSUME NEW v \in Worker, Attaches(doing'[v])
      PROVE  /\ \A j \in DOMAIN documents' : documents'[j].file # doing'[v].file
             /\ \A x \in Worker \ {v} : Attaches(doing'[x]) => doing'[x].file # doing'[v].file
             /\ doing'[v].at = "insertDocument" => DocumentKey(doing'[v].file) \in DOMAIN objects'
  BY <1>1, <1>2, <1>3, <1>7, <1>9 DEF DocumentsSafe
<1>10. ASSUME NEW v \in Worker, NEW u \in Upload, doing'[v].at = "remove", doing'[v].key = DocumentKey(u)
       PROVE  /\ u <= uploads'
              /\ \A j \in DOMAIN documents' : documents'[j].file = u => ~documents'[j].active
              /\ \A x \in Worker : Attaches(doing'[x]) => doing'[x].file # u
  BY <1>1, <1>3, <1>10 DEF DocumentsSafe
<1>11. \A u \in Upload : DocumentKey(u) \in DOMAIN objects' => objects'[DocumentKey(u)] = u
  BY <1>2 DEF DocumentsSafe
<1> QED
  BY <1>1, <1>8, <1>9, <1>10, <1>11 DEF DocumentsSafe

LEMMA DocumentsStep == FilesTyped /\ DocumentsSafe /\ [StoredNext]_stored => DocumentsSafe'
<1> SUFFICES ASSUME FilesTyped, DocumentsSafe, [StoredNext]_stored PROVE DocumentsSafe'
  OBVIOUS
<1>1. FilesTyped'
  BY FilesStep
<1>2. /\ doing \in [Worker -> FileTask] /\ uploads \in Nat /\ uploads <= uploads /\ uploads <= uploads + 1
  BY DocumentFiles DEF FilesTyped
<1>3. ASSUME NEW w \in Worker, NEW d, Does(w, d), Aside(d), UNCHANGED <<objects, documents>>,
             uploads' = uploads \/ uploads' = uploads + 1
      PROVE  DocumentsSafe'
  <2>1. \A v \in Worker : doing'[v] = doing[v] \/ Aside(doing'[v])
    BY <1>2, <1>3 DEF Does
  <2> QED
    BY <1>1, <1>2, <1>3, <2>1, DocumentsKeep
<1>4. Aside(Rest)
  BY RestFits DEF Aside, Attaches
<1>5. ASSUME UNCHANGED <<objects, documents, doing, uploads>> PROVE DocumentsSafe'
  BY <1>1, <1>2, <1>5, DocumentsKeep
<1>6. ASSUME NEW w \in Worker, PutFile(w) PROVE DocumentsSafe'
  <2> DEFINE c == doing[w]
             d == [at |-> IF c.old = Absent THEN "insert" ELSE "write", old |-> c.old,
                   version |-> c.version, key |-> c.key, file |-> c.file, type |-> "file"]
  <2>1. /\ Does(w, d) /\ c.at = "put" /\ Put(c.key, c.file) /\ UNCHANGED <<documents, uploads>>
    BY <1>6 DEF PutFile
  <2>2. Named(c)
    BY <2>1 DEF FilesTyped, Fits
  <2>3. \A u \in Upload : c.key # DocumentKey(u)
    BY <2>2, KeysApart DEF Named
  <2>4. \A u \in Upload : /\ DocumentKey(u) \in DOMAIN objects' <=> DocumentKey(u) \in DOMAIN objects
                          /\ DocumentKey(u) \in DOMAIN objects => objects'[DocumentKey(u)] = objects[DocumentKey(u)]
    <3>1. /\ DOMAIN objects' = DOMAIN objects \cup {c.key}
          /\ \A x \in DOMAIN objects \ {c.key} : objects'[x] = objects[x]
      BY <2>1, PutIs
    <3> QED
      BY <2>3, <3>1
  <2>5. Aside(d)
    BY DEF Aside, Attaches
  <2> HIDE DEF d
  <2>6. \A v \in Worker : doing'[v] = doing[v] \/ Aside(doing'[v])
    BY <1>2, <2>1, <2>5 DEF Does
  <2> QED
    BY <1>1, <1>2, <2>1, <2>4, <2>6, DocumentsKeep
<1>7. ASSUME NEW w \in Worker, WriteRow(w) PROVE DocumentsSafe'
  <2> DEFINE c == doing[w]
             d == IF Superseded(c.old) THEN [at |-> "remove", key |-> c.old.key] ELSE Rest
  <2>1. /\ Does(w, d) /\ c.at = "write" /\ UNCHANGED <<objects, documents, uploads>>
    BY <1>7 DEF WriteRow
  <2>2. c \in Entering
    BY <1>2, <2>1, FileTasks
  <2>3. Placed(c.old)
    BY <2>2 DEF Entering, OldRow
  <2>4. \A u \in Upload : c.old.key # NoKey => c.old.key # DocumentKey(u)
    BY <2>3, KeysApart DEF Placed
  <2>5. Aside(d)
    BY <1>4, <2>4 DEF Superseded, Aside, Attaches
  <2> HIDE DEF d
  <2> QED
    BY <1>3, <2>1, <2>5
<1>8. ASSUME NEW w \in Worker, NEW n \in Name, BeginCreate(w, n) \/ BeginReplace(w, n) PROVE DocumentsSafe'
  <2>1. PICK d : Does(w, d) /\ d.at = "put"
    BY <1>8 DEF BeginCreate, BeginReplace
  <2>2. Aside(d)
    BY <2>1 DEF Aside, Attaches
  <2> QED
    BY <1>3, <1>8, <2>1, <2>2 DEF BeginCreate, BeginReplace
<1>9. ASSUME NEW w \in Worker, NEW type \in {"link", "file"}, BeginEdit(w, type) PROVE DocumentsSafe'
  <2>1. PICK d : Does(w, d) /\ d.at = "write"
    BY <1>9 DEF BeginEdit
  <2>2. Aside(d)
    BY <2>1 DEF Aside, Attaches
  <2> QED
    BY <1>3, <1>9, <2>1, <2>2 DEF BeginEdit
<1>10. ASSUME NEW w \in Worker, Insert(w) \/ End(w) PROVE DocumentsSafe'
  BY <1>3, <1>4, <1>10 DEF Insert, End
<1>11. ASSUME NEW w \in Worker, NEW i \in DOMAIN documents, BeginRemove(w, i) \/ FindDocument(w, i) PROVE DocumentsSafe'
  <2>1. PICK d : Does(w, d) /\ d.at \in {"deactivate", "get"}
    BY <1>11 DEF BeginRemove, FindDocument
  <2>2. Aside(d)
    BY <2>1 DEF Aside, Attaches
  <2> QED
    BY <1>3, <1>11, <2>1, <2>2 DEF BeginRemove, FindDocument
<1>12. ASSUME NEW w \in Worker, FindResource(w) PROVE DocumentsSafe'
  <2>1. PICK d : Does(w, d) /\ d.at = "find"
    BY <1>12 DEF FindResource
  <2>2. Aside(d)
    BY <2>1 DEF Aside, Attaches
  <2> QED
    BY <1>3, <1>12, <2>1, <2>2 DEF FindResource
<1>13. ASSUME NEW w \in Worker, Authorize(w) PROVE DocumentsSafe'
  <2> DEFINE d == [doing[w] EXCEPT !.at = "get"]
  <2>1. doing[w].at = "find" /\ Does(w, IF visible THEN d ELSE Rest)
    BY <1>13 DEF Authorize
  <2>2. d.at = "get"
    BY <1>2, <2>1, FileTasks DEF Fetching
  <2>3. Aside(IF visible THEN d ELSE Rest)
    BY <1>4, <2>2 DEF Aside, Attaches
  <2> HIDE DEF d
  <2> QED
    BY <1>3, <1>13, <2>1, <2>3 DEF Authorize
<1>14. ASSUME NEW w \in Worker, Get(w) PROVE DocumentsSafe'
  <2>1. PICK d : Does(w, d) /\ d.at \in {"served", "rest"}
    BY <1>14, RestFits DEF Get
  <2>2. Aside(d)
    BY <2>1 DEF Aside, Attaches
  <2> QED
    BY <1>3, <1>14, <2>1, <2>2 DEF Get
<1>15. ASSUME NEW w \in Worker, CreateLink(w) PROVE DocumentsSafe'
  BY <1>5, <1>15 DEF CreateLink
<1>16. CASE DeactivateResource \/ ReplaceVisibility \/ UNCHANGED stored
  BY <1>5, <1>16 DEF DeactivateResource, ReplaceVisibility, stored
<1> QED
  BY <1>1, <1>6, <1>7, <1>8, <1>9, <1>10, <1>11, <1>12, <1>13, <1>14, <1>15, <1>16,
     BeginAttachSafe, PutDocumentSafe, InsertDocumentSafe, DeactivateDocumentSafe, RemoveObjectSafe DEF StoredNext

LEMMA DocumentsInit == StoredInit => DocumentsSafe
<1> SUFFICES ASSUME StoredInit PROVE DocumentsSafe
  OBVIOUS
<1>1. \A w \in Worker : doing[w].at = "rest"
  BY RestFits DEF StoredInit
<1>2. DOMAIN documents = {} /\ DOMAIN objects = {}
  BY DEF StoredInit
<1> QED
  BY <1>1, <1>2 DEF DocumentsSafe, DocumentsAreStored, Attaches

(* A request that is in the course of an edit of the resource.              *)
Edits(d) ==
  \/ d.at \in {"put", "insert", "write"}
  \/ d.at = "remove" /\ \A u \in Upload : d.key # DocumentKey(u)

(* What a request knows of the bucket O and the row r when edits take turns. *)
InTurn(d, O, r) ==
  /\ d.at = "put" => d.version = r.version + 1 /\ (d.old = Absent => r = Absent)
  /\ d.at = "insert" => r = Absent /\ d.key \in DOMAIN O /\ O[d.key] = d.file
  /\ d.at = "write" /\ d.type = "file" /\ d.file = 0 => r.type = "file"
  /\ d.at = "write" /\ d.type = "file" /\ d.file # 0 =>
       d.version = r.version + 1 /\ d.key \in DOMAIN O /\ O[d.key] = d.file
  /\ d.at = "remove" => d.key # r.key
  /\ d.at \in {"find", "get"} =>
       /\ d.key \in DOMAIN O => O[d.key] = d.file
       /\ \A u \in Upload : d.key = DocumentKey(u) => d.file = u
       /\ \A v \in Nat, n \in Name : d.key = ResourceKey(v, n) => v <= r.version
  /\ d.at = "served" => d.content = d.file

SerialSafe ==
  ~overlapped =>
    /\ resource.type = "file" => resource.key \in DOMAIN objects /\ objects[resource.key] = resource.file
    /\ \A v, w \in Worker : Edits(doing[v]) /\ Edits(doing[w]) => v = w
    /\ \A w \in Worker : InTurn(doing[w], objects, resource)

LEMMA SerialMoves ==
  ASSUME FilesTyped, SerialSafe, ~overlapped, NEW w \in Worker, NEW d, Does(w, d),
         Edits(d) => \A v \in Worker \ {w} : ~Edits(doing[v]),
         InTurn(d, objects', resource'),
         resource'.type = "file" => resource'.key \in DOMAIN objects' /\ objects'[resource'.key] = resource'.file,
         \A v \in Worker \ {w} : InTurn(doing[v], objects', resource')
  PROVE  SerialSafe'
<1>1. doing'[w] = d /\ \A v \in Worker \ {w} : doing'[v] = doing[v]
  BY DEF Does, FilesTyped
<1>2. \A v \in Worker : InTurn(doing'[v], objects', resource')
  BY <1>1
<1>3. \A v, x \in Worker : Edits(doing'[v]) /\ Edits(doing'[x]) => v = x
  BY <1>1 DEF SerialSafe
<1> QED
  BY <1>2, <1>3 DEF SerialSafe

LEMMA RowFacts ==
  ASSUME NEW r \in ResourceRow \cup {Absent}, Placed(r)
  PROVE  /\ r.version \in Nat /\ (r # Absent => r \in ResourceRow)
         /\ (r = Absent <=> r.type = "none") /\ (r = Absent => r.version = 0)
         /\ \A u \in Upload : r.key # DocumentKey(u)
         /\ \A v \in Nat, n \in Name : r.key = ResourceKey(v, n) => v = r.version
<1>2. r.version \in Nat /\ (r # Absent => r \in ResourceRow)
      /\ (r = Absent <=> r.type = "none") /\ (r = Absent => r.version = 0)
  BY DEF ResourceRow, Absent
<1>3. \A v \in Nat, n \in Name : ResourceKey(v, n) # NoKey
  BY KeysApart
<1>4. \A u \in Upload : NoKey # DocumentKey(u)
  BY KeysApart
<1>5. \A u \in Upload : r.key # DocumentKey(u)
  BY <1>4, KeysApart DEF Placed
<1>6. \A v \in Nat, n \in Name : r.key = ResourceKey(v, n) => v = r.version
  BY <1>2, <1>3, KeysApart DEF Placed
<1> QED
  BY <1>2, <1>5, <1>6

(* Who does not edit keeps the turn while the row goes on.                  *)
LEMMA RowGoesOn ==
  ASSUME FilesTyped, FilesTyped', NEW v \in Worker, InTurn(doing[v], objects, resource), ~Edits(doing[v]),
         resource.version <= resource'.version
  PROVE  InTurn(doing[v], objects, resource')
<1> DEFINE d == doing[v]
<1>1. resource.version \in Nat
  BY RowFacts DEF FilesTyped, StoredTypeOK
<1>2. resource'.version \in Nat /\ \A u \in Upload : resource'.key # DocumentKey(u)
  BY RowFacts DEF FilesTyped, StoredTypeOK
<1>3. d.at = "remove" => d.key # resource'.key
  BY <1>2 DEF Edits
<1>4. d.at \in {"find", "get"} => \A x \in Nat, n \in Name : d.key = ResourceKey(x, n) => x <= resource'.version
  BY <1>1, <1>2 DEF InTurn
<1> QED
  BY <1>3, <1>4 DEF InTurn, Edits

LEMMA VersionIsNew ==
  ASSUME FilesTyped, NEW v \in Worker, InTurn(doing[v], objects, resource), ~Edits(doing[v]),
         NEW n \in Name, NEW u, Put(ResourceKey(resource.version + 1, n), u)
  PROVE  InTurn(doing[v], objects', resource)
<1> DEFINE d == doing[v]
           k == ResourceKey(resource.version + 1, n)
<1>1. /\ DOMAIN objects' = DOMAIN objects \cup {k} /\ \A x \in DOMAIN objects \ {k} : objects'[x] = objects[x]
  BY PutIs
<1>2. d.at \in {"find", "get"} => d.key # k
  <2> SUFFICES ASSUME d.at \in {"find", "get"}, d.key = k PROVE FALSE
    OBVIOUS
  <2>1. resource.version \in Nat
    BY RowFacts DEF FilesTyped, StoredTypeOK
  <2>2. resource.version + 1 \in Nat /\ ~(resource.version + 1 <= resource.version)
    BY <2>1
  <2>3. \A x \in Nat, y \in Name : d.key = ResourceKey(x, y) => x <= resource.version
    BY DEF InTurn
  <2> QED
    BY <2>2, <2>3
<1> HIDE DEF k
<1>3. d.at \in {"find", "get"} => (d.key \in DOMAIN objects' => objects'[d.key] = d.file)
  BY <1>1, <1>2 DEF InTurn
<1> QED
  BY <1>3 DEF InTurn, Edits

LEMMA DocumentIsItsOwn ==
  ASSUME FilesTyped, NEW v \in Worker, InTurn(doing[v], objects, resource),
         NEW u \in Upload, Put(DocumentKey(u), u)
  PROVE  InTurn(doing[v], objects', resource)
<1> DEFINE d == doing[v]
           k == DocumentKey(u)
<1>1. /\ DOMAIN objects' = DOMAIN objects \cup {k} /\ objects'[k] = u
      /\ \A x \in DOMAIN objects \ {k} : objects'[x] = objects[x]
  BY PutIs
<1>2. d.at = "insert" \/ (d.at = "write" /\ d.type = "file" /\ d.file # 0) => d.key # k
  BY KeysApart DEF FilesTyped, Fits, Named
<1>3. d.at \in {"find", "get"} => (d.key \in DOMAIN objects' => objects'[d.key] = d.file)
  BY <1>1 DEF InTurn
<1> HIDE DEF k
<1> QED
  BY <1>1, <1>2, <1>3 DEF InTurn

LEMMA LessIsLeft ==
  ASSUME NEW v \in Worker, InTurn(doing[v], objects, resource), NEW k, Remove(k),
         doing[v].at = "insert" \/ (doing[v].at = "write" /\ doing[v].type = "file" /\ doing[v].file # 0)
           => doing[v].key # k
  PROVE  InTurn(doing[v], objects', resource)
<1>1. DOMAIN objects' = DOMAIN objects \ {k} /\ \A x \in DOMAIN objects' : objects'[x] = objects[x]
  BY RemoveIs
<1> QED
  BY <1>1 DEF InTurn

LEMMA SerialStep == FilesTyped /\ DocumentsSafe /\ SerialSafe /\ [StoredNext]_stored => SerialSafe'
<1> SUFFICES ASSUME FilesTyped, DocumentsSafe, SerialSafe, [StoredNext]_stored, ~overlapped'
             PROVE  SerialSafe'
  BY DEF SerialSafe
<1>1. FilesTyped' /\ doing \in [Worker -> FileTask]
  BY FilesStep DEF FilesTyped
<1>2. \A w \in Worker : Alone(w) => ~overlapped /\ \A v \in Worker \ {w} : ~Edits(doing[v])
  BY DEF Alone, Writing, Edits
<1>3. \A w \in Worker : ~overlapped => InTurn(doing[w], objects, resource)
  BY DEF SerialSafe
<1>4. ~overlapped /\ resource.type = "file" => resource.key \in DOMAIN objects /\ objects[resource.key] = resource.file
  BY DEF SerialSafe
<1>5. ASSUME NEW w \in Worker, NEW d, Does(w, d), UNCHANGED <<objects, resource>>, ~overlapped,
             Edits(d) => \A v \in Worker \ {w} : ~Edits(doing[v]), InTurn(d, objects, resource)
      PROVE  SerialSafe'
  BY <1>3, <1>4, <1>5, SerialMoves
<1>6. InTurn(Rest, objects', resource') /\ InTurn(Rest, objects, resource) /\ ~Edits(Rest)
  BY RestFits DEF InTurn, Edits
<1>7. /\ resource \in ResourceRow \cup {Absent} /\ Placed(resource) /\ resource.version \in Nat
      /\ (resource = Absent <=> resource.type = "none") /\ (resource = Absent => resource.version = 0)
      /\ resource' \in ResourceRow \cup {Absent} /\ Placed(resource')
  BY <1>1, RowFacts DEF FilesTyped, StoredTypeOK
<1>8. ASSUME NEW w \in Worker, Does(w, Rest), UNCHANGED <<objects, resource>>, ~overlapped PROVE SerialSafe'
  BY <1>5, <1>6, <1>8
<1>9. ASSUME NEW w \in Worker, NEW n \in Name, BeginCreate(w, n) PROVE SerialSafe'
  <2> DEFINE d == [at |-> "put", old |-> Absent, version |-> 1, key |-> ResourceKey(1, n), file |-> uploads + 1]
  <2>1. /\ Does(w, d) /\ Alone(w) /\ resource = Absent /\ UNCHANGED <<objects, resource>>
    BY <1>9 DEF BeginCreate
  <2>2. InTurn(d, objects, resource)
    BY <1>7, <2>1 DEF InTurn
  <2> HIDE DEF d
  <2> QED
    BY <1>2, <1>5, <2>1, <2>2
<1>10. ASSUME NEW w \in Worker, NEW n \in Name, BeginReplace(w, n) PROVE SerialSafe'
  <2> DEFINE d == [at |-> "put", old |-> resource, version |-> resource.version + 1,
                   key |-> ResourceKey(resource.version + 1, n), file |-> uploads + 1]
  <2>1. /\ Does(w, d) /\ Alone(w) /\ resource # Absent /\ UNCHANGED <<objects, resource>>
    BY <1>10 DEF BeginReplace
  <2>2. InTurn(d, objects, resource)
    BY <1>7, <2>1 DEF InTurn
  <2> HIDE DEF d
  <2> QED
    BY <1>2, <1>5, <2>1, <2>2
<1>11. ASSUME NEW w \in Worker, NEW type \in {"link", "file"}, BeginEdit(w, type) PROVE SerialSafe'
  <2> DEFINE d == [at |-> "write", old |-> resource, version |-> 0, key |-> NoKey, file |-> 0, type |-> type]
  <2>1. /\ Does(w, d) /\ Alone(w) /\ (type = "file" => resource.type = "file") /\ UNCHANGED <<objects, resource>>
    BY <1>11 DEF BeginEdit
  <2>2. InTurn(d, objects, resource)
    BY <2>1 DEF InTurn
  <2> HIDE DEF d
  <2> QED
    BY <1>2, <1>5, <2>1, <2>2
<1>12. ASSUME NEW w \in Worker, PutFile(w) PROVE SerialSafe'
  <2> DEFINE c == doing[w]
             d == [at |-> IF c.old = Absent THEN "insert" ELSE "write", old |-> c.old,
                   version |-> c.version, key |-> c.key, file |-> c.file, type |-> "file"]
  <2>1. /\ Does(w, d) /\ c.at = "put" /\ Put(c.key, c.file) /\ resource' = resource /\ ~overlapped
    BY <1>12 DEF PutFile
  <2>2. c \in Placing /\ Named(c) /\ (c.old # Absent => resource # Absent)
    BY <1>1, <2>1, FileTasks DEF FilesTyped, Fits
  <2>3. c.version = resource.version + 1 /\ (c.old = Absent => resource = Absent)
    BY <1>3, <2>1 DEF InTurn
  <2>4. PICK n \in Name : c.key = ResourceKey(resource.version + 1, n)
    BY <2>2, <2>3 DEF Named
  <2>5. \A v \in Worker \ {w} : ~Edits(doing[v])
    BY <2>1 DEF SerialSafe, Edits
  <2>6. /\ DOMAIN objects' = DOMAIN objects \cup {c.key} /\ objects'[c.key] = c.file
        /\ \A x \in DOMAIN objects \ {c.key} : objects'[x] = objects[x]
    BY <2>1, PutIs
  <2>7. \A v \in Worker \ {w} : InTurn(doing[v], objects', resource')
    BY <1>3, <2>1, <2>4, <2>5, VersionIsNew
  <2>8. /\ d.at = (IF c.old = Absent THEN "insert" ELSE "write") /\ d.key = c.key /\ d.file = c.file
        /\ d.version = c.version /\ d.type = "file"
    OBVIOUS
  <2>9. c.file # 0
    BY <2>2 DEF Placing, Upload
  <2> HIDE DEF d
  <2>10. InTurn(d, objects', resource')
    <3>1. CASE c.old = Absent
      BY <2>1, <2>3, <2>6, <2>8, <3>1 DEF InTurn
    <3>2. CASE c.old # Absent
      BY <2>1, <2>3, <2>6, <2>8, <2>9, <3>2 DEF InTurn
    <3> QED
      BY <3>1, <3>2
  <2>11. resource.type = "file" => resource.key # c.key
    <3>1. \A v \in Nat, m \in Name : resource.key = ResourceKey(v, m) => v = resource.version
      BY <1>7, RowFacts
    <3>2. resource.version + 1 \in Nat /\ resource.version + 1 # resource.version
      BY <1>7
    <3> QED
      BY <2>4, <3>1, <3>2
  <2> QED
    BY <1>4, <2>1, <2>5, <2>6, <2>7, <2>10, <2>11, SerialMoves
<1>13. ASSUME NEW w \in Worker, Insert(w) PROVE SerialSafe'
  <2> DEFINE c == doing[w]
  <2>1. /\ Does(w, Rest) /\ c.at = "insert" /\ objects' = objects /\ ~overlapped
        /\ resource' = [type |-> "file", key |-> c.key, file |-> c.file, version |-> 1, active |-> TRUE]
    BY <1>13 DEF Insert
  <2>2. resource = Absent /\ c.key \in DOMAIN objects /\ objects[c.key] = c.file
    BY <1>3, <2>1 DEF InTurn
  <2>3. \A v \in Worker \ {w} : ~Edits(doing[v])
    BY <2>1 DEF SerialSafe, Edits
  <2>4. resource.version <= resource'.version
    BY <1>7, <2>1, <2>2
  <2>5. \A v \in Worker \ {w} : InTurn(doing[v], objects, resource')
    BY <1>1, <1>3, <2>1, <2>3, <2>4, RowGoesOn
  <2> QED
    BY <1>6, <2>1, <2>2, <2>5, SerialMoves
<1>14. ASSUME NEW w \in Worker, WriteRow(w) PROVE SerialSafe'
  <2> DEFINE c == doing[w]
             d == IF Superseded(c.old) THEN [at |-> "remove", key |-> c.old.key] ELSE Rest
  <2>1. /\ Does(w, d) /\ c.at = "write" /\ objects' = objects /\ resource' = Written(c) /\ ~overlapped
    BY <1>14 DEF WriteRow
  <2>2. c \in Entering /\ resource # Absent /\ c.type \in {"link", "file"}
    BY <1>1, <2>1, FileTasks DEF FilesTyped, Fits, Entering
  <2>3. resource \in ResourceRow
    BY <1>7, <2>2
  <2>4. \A v \in Worker \ {w} : ~Edits(doing[v])
    BY <2>1 DEF SerialSafe, Edits
  <2>5. /\ resource.version <= resource'.version
        /\ resource'.type = "file" => resource'.key \in DOMAIN objects /\ objects[resource'.key] = resource'.file
    <3>1. CASE c.type = "link"
      BY <1>7, <2>1, <2>3, <3>1 DEF Written, ResourceRow
    <3>2. CASE c.type = "file" /\ c.file = 0
      <4>1. resource.type = "file"
        BY <1>3, <2>1, <3>2 DEF InTurn
      <4> QED
        BY <1>4, <1>7, <2>1, <2>3, <3>2, <4>1 DEF Written, ResourceRow
    <3>3. CASE c.type = "file" /\ c.file # 0
      <4>1. c.version = resource.version + 1 /\ c.key \in DOMAIN objects /\ objects[c.key] = c.file
        BY <1>3, <2>1, <3>3 DEF InTurn
      <4> QED
        BY <1>7, <2>1, <2>3, <3>3, <4>1 DEF Written, ResourceRow
    <3> QED
      BY <2>2, <3>1, <3>2, <3>3
  <2>6. \A v \in Worker \ {w} : InTurn(doing[v], objects, resource')
    BY <1>1, <1>3, <2>1, <2>4, <2>5, RowGoesOn
  <2>7. InTurn(d, objects, resource')
    <3>1. CASE Superseded(c.old)
      BY <3>1 DEF Superseded, InTurn
    <3>2. CASE ~Superseded(c.old)
      BY <1>6, <2>1, <3>2
    <3> QED
      BY <3>1, <3>2
  <2> HIDE DEF d
  <2> QED
    BY <2>1, <2>4, <2>5, <2>6, <2>7, SerialMoves
<1>15. ASSUME NEW w \in Worker, RemoveObject(w) PROVE SerialSafe'
  <2> DEFINE k == doing[w].key
  <2>1. /\ Does(w, Rest) /\ doing[w].at = "remove" /\ Remove(k) /\ resource' = resource /\ ~overlapped
    BY <1>15 DEF RemoveObject
  <2>2. k # resource.key
    BY <1>3, <2>1 DEF InTurn
  <2>3. DOMAIN objects' = DOMAIN objects \ {k} /\ \A x \in DOMAIN objects' : objects'[x] = objects[x]
    BY <2>1, RemoveIs
  <2>4. ASSUME NEW v \in Worker \ {w},
               doing[v].at = "insert" \/ (doing[v].at = "write" /\ doing[v].type = "file" /\ doing[v].file # 0)
        PROVE  doing[v].key # k
    <3>1. Edits(doing[v]) /\ Named(doing[v])
      BY <2>4 DEF Edits, FilesTyped, Fits
    <3>2. ~Edits(doing[w])
      BY <2>1, <3>1 DEF SerialSafe
    <3>3. PICK u \in Upload : k = DocumentKey(u)
      BY <2>1, <3>2 DEF Edits
    <3> QED
      BY <3>1, <3>3, KeysApart DEF Named
  <2> HIDE DEF k
  <2>5. \A v \in Worker \ {w} : InTurn(doing[v], objects', resource)
    BY <1>3, <2>1, <2>4, LessIsLeft
  <2> QED
    BY <1>4, <1>6, <2>1, <2>2, <2>3, <2>5, SerialMoves
<1>16. ASSUME NEW w \in Worker, CreateLink(w) PROVE SerialSafe'
  <2>1. /\ doing[w] = Rest /\ resource = Absent /\ Alone(w) /\ UNCHANGED <<objects, doing>>
        /\ resource' = [type |-> "link", key |-> NoKey, file |-> 0, version |-> 1, active |-> TRUE]
    BY <1>16 DEF CreateLink
  <2>2. ~overlapped /\ \A v \in Worker \ {w} : ~Edits(doing[v])
    BY <1>2, <2>1
  <2>3. resource.version <= resource'.version /\ resource'.type # "file"
    BY <1>7, <2>1
  <2>4. \A v \in Worker \ {w} : InTurn(doing[v], objects, resource')
    BY <1>1, <1>3, <2>2, <2>3, RowGoesOn
  <2>5. Does(w, Rest)
    BY <1>1, <2>1 DEF Does
  <2> QED
    BY <1>6, <2>1, <2>2, <2>3, <2>4, <2>5, SerialMoves
<1>17. CASE DeactivateResource
  <2>1. /\ resource.active /\ resource' = [resource EXCEPT !.active = FALSE]
        /\ UNCHANGED <<objects, doing, overlapped>>
    BY <1>17 DEF DeactivateResource
  <2>2. resource # Absent /\ resource \in ResourceRow
    BY <1>7, <2>1 DEF Absent
  <2>3. /\ resource'.type = resource.type /\ resource'.key = resource.key /\ resource'.file = resource.file
        /\ resource'.version = resource.version
    BY <2>1, <2>2 DEF ResourceRow
  <2>4. \A v \in Worker : InTurn(doing[v], objects, resource) => InTurn(doing[v], objects, resource')
    BY <2>2, <2>3 DEF InTurn
  <2> QED
    BY <2>1, <2>3, <2>4 DEF SerialSafe
<1>18. CASE ReplaceVisibility \/ UNCHANGED stored
  BY <1>18 DEF ReplaceVisibility, stored, SerialSafe
<1>19. ASSUME NEW w \in Worker, BeginAttach(w) PROVE SerialSafe'
  <2>1. PICK d : Does(w, d) /\ d.at = "attach" /\ UNCHANGED <<objects, resource, overlapped>>
    BY <1>19 DEF BeginAttach
  <2>2. InTurn(d, objects, resource) /\ ~Edits(d)
    BY <2>1 DEF InTurn, Edits
  <2> QED
    BY <1>5, <2>1, <2>2
<1>20. ASSUME NEW w \in Worker, PutDocument(w) PROVE SerialSafe'
  <2> DEFINE c == doing[w]
             d == [c EXCEPT !.at = "insertDocument"]
  <2>1. /\ Does(w, d) /\ c.at = "attach" /\ Put(DocumentKey(c.file), c.file) /\ resource' = resource /\ ~overlapped
    BY <1>20 DEF PutDocument
  <2>2. c \in Attaching /\ c.file \in Upload
    BY <1>1, <2>1, FileTasks DEF Attaching
  <2>3. d.at = "insertDocument"
    BY <2>2 DEF Attaching
  <2>4. InTurn(d, objects', resource') /\ ~Edits(d)
    BY <2>3 DEF InTurn, Edits
  <2>5. \A v \in Worker \ {w} : InTurn(doing[v], objects', resource)
    BY <1>3, <2>1, <2>2, DocumentIsItsOwn
  <2>6. /\ DOMAIN objects' = DOMAIN objects \cup {DocumentKey(c.file)}
        /\ \A x \in DOMAIN objects \ {DocumentKey(c.file)} : objects'[x] = objects[x]
    BY <2>1, PutIs
  <2>7. resource.key # DocumentKey(c.file)
    BY <1>7, <2>2, RowFacts
  <2> HIDE DEF d
  <2> QED
    BY <1>4, <2>1, <2>4, <2>5, <2>6, <2>7, SerialMoves
<1>21. ASSUME NEW w \in Worker, InsertDocument(w) \/ End(w) PROVE SerialSafe'
  BY <1>8, <1>21 DEF InsertDocument, End
<1>22. ASSUME NEW w \in Worker, DeactivateDocument(w) PROVE SerialSafe'
  <2> DEFINE i == doing[w].document
             f == documents[i].file
             d == [at |-> "remove", key |-> DocumentKey(f)]
  <2>1. /\ Does(w, d) /\ doing[w].at = "deactivate" /\ UNCHANGED <<objects, resource, overlapped>>
    BY <1>22 DEF DeactivateDocument
  <2>2. i \in DOMAIN documents
    BY <2>1 DEF FilesTyped, Fits
  <2>3. f \in Upload
    BY <2>2, DocumentFiles
  <2>4. d.at = "remove" /\ d.key = DocumentKey(f) /\ resource.key # DocumentKey(f)
    BY <1>7, <2>3, RowFacts
  <2> HIDE DEF f, d
  <2>5. InTurn(d, objects, resource) /\ ~Edits(d)
    BY <2>3, <2>4 DEF InTurn, Edits
  <2> QED
    BY <1>5, <2>1, <2>5
<1>23. ASSUME NEW w \in Worker, NEW i \in DOMAIN documents, BeginRemove(w, i) PROVE SerialSafe'
  <2>1. PICK d : Does(w, d) /\ d.at = "deactivate" /\ UNCHANGED <<objects, resource, overlapped>>
    BY <1>23 DEF BeginRemove
  <2>2. InTurn(d, objects, resource) /\ ~Edits(d)
    BY <2>1 DEF InTurn, Edits
  <2> QED
    BY <1>5, <2>1, <2>2
<1>24. ASSUME NEW w \in Worker, FindResource(w) PROVE SerialSafe'
  <2> DEFINE d == [at |-> "find", key |-> resource.key, file |-> resource.file]
  <2>1. /\ Does(w, d) /\ resource.type = "file" /\ UNCHANGED <<objects, resource, overlapped>>
    BY <1>24 DEF FindResource
  <2>2. d.at = "find" /\ d.key = resource.key /\ d.file = resource.file
    OBVIOUS
  <2>3. /\ \A u \in Upload : resource.key # DocumentKey(u)
        /\ \A v \in Nat, n \in Name : resource.key = ResourceKey(v, n) => v <= resource.version
    BY <1>7, RowFacts
  <2> HIDE DEF d
  <2>4. InTurn(d, objects, resource) /\ ~Edits(d)
    BY <1>4, <2>1, <2>2, <2>3 DEF InTurn, Edits
  <2> QED
    BY <1>5, <2>1, <2>4
<1>25. ASSUME NEW w \in Worker, Authorize(w) PROVE SerialSafe'
  <2> DEFINE c == doing[w]
             d == [c EXCEPT !.at = "get"]
  <2>1. /\ c.at = "find" /\ Does(w, IF visible THEN d ELSE Rest) /\ UNCHANGED <<objects, resource, overlapped>>
    BY <1>25 DEF Authorize
  <2>2. c \in Fetching
    BY <1>1, <2>1, FileTasks
  <2>3. d.at = "get" /\ d.key = c.key /\ d.file = c.file
    BY <2>2 DEF Fetching
  <2> HIDE DEF d
  <2>4. InTurn(d, objects, resource) /\ ~Edits(d)
    BY <1>3, <2>1, <2>3 DEF InTurn, Edits
  <2>5. CASE visible
    BY <1>5, <2>1, <2>4, <2>5
  <2>6. CASE ~visible
    BY <1>8, <2>1, <2>6
  <2> QED
    BY <2>5, <2>6
<1>26. ASSUME NEW w \in Worker, NEW i \in DOMAIN documents, FindDocument(w, i) PROVE SerialSafe'
  <2> DEFINE f == documents[i].file
             d == [at |-> "get", key |-> DocumentKey(f), file |-> f]
  <2>1. /\ Does(w, d) /\ UNCHANGED <<objects, resource, overlapped>>
    BY <1>26 DEF FindDocument
  <2>2. f \in Upload
    BY DocumentFiles
  <2>3. d.at = "get" /\ d.key = DocumentKey(f) /\ d.file = f
    OBVIOUS
  <2>4. DocumentKey(f) \in DOMAIN objects => objects[DocumentKey(f)] = f
    BY <2>2 DEF DocumentsSafe
  <2> HIDE DEF d, f
  <2>5. InTurn(d, objects, resource) /\ ~Edits(d)
    BY <2>3, <2>4, KeysApart DEF InTurn, Edits
  <2> QED
    BY <1>5, <2>1, <2>5
<1>27. ASSUME NEW w \in Worker, Get(w) PROVE SerialSafe'
  <2> DEFINE c == doing[w]
             d == [at |-> "served", file |-> c.file, content |-> objects[c.key]]
  <2>1. /\ c.at = "get" /\ Does(w, IF c.key \in DOMAIN objects THEN d ELSE Rest)
        /\ UNCHANGED <<objects, resource, overlapped>>
    BY <1>27 DEF Get
  <2>2. d.at = "served" /\ d.file = c.file /\ d.content = objects[c.key]
    OBVIOUS
  <2> HIDE DEF d
  <2>3. CASE c.key \in DOMAIN objects
    <3>1. InTurn(d, objects, resource) /\ ~Edits(d)
      BY <1>3, <2>1, <2>2, <2>3 DEF InTurn, Edits
    <3> QED
      BY <1>5, <2>1, <2>3, <3>1
  <2>4. CASE c.key \notin DOMAIN objects
    BY <1>8, <2>1, <2>4
  <2> QED
    BY <2>3, <2>4
<1> QED
  BY <1>9, <1>10, <1>11, <1>12, <1>13, <1>14, <1>15, <1>16, <1>17, <1>18, <1>19, <1>20, <1>21, <1>22,
     <1>23, <1>24, <1>25, <1>26, <1>27 DEF StoredNext

LEMMA SerialInit == StoredInit => SerialSafe
<1> SUFFICES ASSUME StoredInit PROVE SerialSafe
  OBVIOUS
<1>1. \A w \in Worker : doing[w].at = "rest"
  BY RestFits DEF StoredInit
<1>2. resource.type # "file"
  BY DEF StoredInit, Absent
<1> QED
  BY <1>1, <1>2 DEF SerialSafe, InTurn, Edits

(* The row of a document or resource is never ahead of its object, for any  *)
(* requests, names and bounds, wherever a request stops.                    *)
THEOREM FilesStayStored == StoredSpec => []FilesAreStored
<1> DEFINE I == FilesTyped /\ DocumentsSafe /\ SerialSafe
<1>1. StoredInit => I
  BY FilesInit, DocumentsInit, SerialInit
<1>2. I /\ [StoredNext]_stored => I'
  BY FilesStep, DocumentsStep, SerialStep
<1>3. I => FilesAreStored
  BY DEF FilesTyped, DocumentsSafe, SerialSafe, InTurn, FilesAreStored, SerialEditsKeepTheFile, SerialDownloadsMatch, Holds
<1> QED
  BY <1>1, <1>2, <1>3, PTL DEF StoredSpec

-----------------------------------------------------------------------------
(* Notifications.                                                           *)

(* Evaluations: what one knows of the rules, given as they are stored now.   *)
(* Whatever it listed or told by is still so, or was edited meanwhile; and   *)
(* once it evaluates a reassignment, whoever is to hold the lead is told by  *)
(* each rule that is done with.                                              *)
Evaluating(e) == e.at \in {"list", "evaluate"}
OfReassignment(e) == e.activity.trigger = "lead_reassigned"

HolderTold(e, x) == [rule |-> x.rule, activity |-> e.activity.id, user |-> e.holder] \in e.told

Knows(e, known) ==
  /\ OfReassignment(e) => e.holder \in Person
  /\ \A q \in e.rules :
       \/ q[1] \in e.edited
       \/ /\ known[q[1]].life = "active" /\ known[q[1]].trigger = e.activity.trigger
          /\ known[q[1]].scope = q[2]
  /\ \A n \in e.told :
       \/ n.rule \in e.edited
       \/ /\ known[n.rule].life = "active" /\ known[n.rule].trigger = e.activity.trigger
          /\ Concerns(e.activity, known[n.rule].scope)
  /\ \A x \in e.recipients : known[x.rule].life # "none"
  /\ e.at = "evaluate" /\ OfReassignment(e) => \A x \in e.recipients : x.resolver = "assignment_holder" =>
       \/ x.rule \in e.edited
       \/ \E q \in e.rules : q[1] = x.rule
       \/ Concerns(e.activity, known[x.rule].scope) => HolderTold(e, x)

(* Edits: one that nobody overlapped has seen the recipients there are, and  *)
(* nobody else is about to replace them.                                     *)
EditOf(t, r) == t.at = "edit" /\ t.rule = r

Replaces(s) ==
  LET t == telling[s]
  IN /\ rule[t.rule].life # "none" /\ \A x \in t.seen : x.rule = t.rule
     /\ t.alone => t.seen = RecipientsOf(t.rule) /\ \A v \in Handler \ {s} : ~EditOf(telling[v], t.rule)

NoteInv ==
  /\ NoteTypeOK /\ DOMAIN telling = Handler
  /\ \A x \in recipients : rule[x.rule].life # "none"
  /\ \A s \in Handler : Evaluating(telling[s]) => Knows(telling[s], rule)
  /\ \A s \in Handler : telling[s].at = "edit" => Replaces(s)
  /\ RecipientsAreOneEdits

LEMMA TellingKinds ==
  ASSUME NoteTypeOK, NEW s \in Handler
  PROVE  /\ telling[s].at = "edit" => telling[s] \in Edit
         /\ Evaluating(telling[s]) => telling[s] \in Evaluation
         /\ telling[s] = Free => telling[s].at = "free"
<1>1. telling[s] = Free \/ telling[s] \in Edit \/ telling[s] \in Evaluation
  BY DEF NoteTypeOK
<1>2. Free.at = "free"
  BY DEF Free
<1>3. telling[s] \in Edit => telling[s].at = "edit"
  BY DEF Edit
<1>4. telling[s] \in Evaluation => telling[s].at \in {"list", "evaluate"}
  BY DEF Evaluation
<1> QED
  BY <1>1, <1>2, <1>3, <1>4 DEF Evaluating

LEMMA BecomeIs ==
  ASSUME DOMAIN telling = Handler, NEW s \in Handler, NEW t, Become(s, t)
  PROVE  /\ DOMAIN telling' = Handler /\ telling'[s] = t
         /\ \A v \in Handler \ {s} : telling'[v] = telling[v]
BY DEF Become

(* A step of one handler that leaves the rules as they are.                  *)
LEMMA HandlerMoves ==
  ASSUME NoteInv, NEW s \in Handler, NEW t, Become(s, t), UNCHANGED <<rule, recipients, mixed>>,
         t = Free \/ (t \in Evaluation /\ Knows(t, rule)), NoteTypeOK'
  PROVE  NoteInv'
<1> USE DEF NoteInv
<1>1. /\ DOMAIN telling' = Handler /\ telling'[s] = t
      /\ \A v \in Handler \ {s} : telling'[v] = telling[v]
  BY BecomeIs
<1>2. t.at # "edit" /\ (Evaluating(t) => Knows(t, rule))
  BY DEF Free, Evaluation, Evaluating
<1>3. \A v \in Handler : Evaluating(telling'[v]) => Knows(telling'[v], rule')
  <2> SUFFICES ASSUME NEW v \in Handler, Evaluating(telling'[v]) PROVE Knows(telling'[v], rule)
    OBVIOUS
  <2>1. CASE v = s
    BY <1>1, <1>2, <2>1
  <2>2. CASE v # s
    BY <1>1, <2>2
  <2> QED
    BY <2>1, <2>2
<1>4. ASSUME NEW v \in Handler, telling'[v].at = "edit" PROVE Replaces(v)'
  <2>1. v # s /\ telling'[v] = telling[v]
    BY <1>1, <1>2, <1>4
  <2>2. Replaces(v)
    BY <1>4, <2>1
  <2>3. \A w \in Handler : EditOf(telling'[w], telling[v].rule) => EditOf(telling[w], telling[v].rule)
    BY <1>1, <1>2 DEF EditOf
  <2> QED
    BY <2>1, <2>2, <2>3 DEF Replaces, RecipientsOf
<1>5. RecipientsAreOneEdits'
  BY DEF RecipientsAreOneEdits
<1> QED
  BY <1>1, <1>3, <1>4, <1>5

LEMMA NoteInitOK == NoteInit => NoteInv
<1> SUFFICES ASSUME NoteInit PROVE NoteInv
  OBVIOUS
<1> USE NotificationsAssumption DEF NoteInit
<1>1. \A s \in Handler : telling[s] = Free
  OBVIOUS
<1>2. Free.at = "free"
  BY DEF Free
<1>3. Unmade \in RuleType
  BY DEF Unmade, RuleType, Trigger, Scope
<1>4. NoteTypeOK
  BY <1>1, <1>3 DEF NoteTypeOK
<1> QED
  BY <1>1, <1>2, <1>4 DEF NoteInv, Evaluating, RecipientsAreOneEdits

-----------------------------------------------------------------------------
(* Rules go on.                                                             *)

(* A change of one rule disturbs no evaluation that counts it as edited, nor *)
(* any if there was no such rule.                                            *)
LEMMA KnowsGoesOn ==
  ASSUME NEW e \in Evaluation, NEW old, NEW new, NEW r \in Rule, Knows(e, old),
         \A q \in Rule \ {r} : new[q] = old[q], new[r].life # "none",
         r \in e.edited \/ old[r].life = "none"
  PROVE  Knows(e, new)
<1>1. /\ e.rules \subseteq Rule \X Scope \X Nat /\ e.recipients \subseteq Recipient /\ e.told \subseteq Note
  BY DEF Evaluation
<1>2. \A q \in e.rules : q[1] \in Rule
  BY <1>1
<1>3. \A x \in e.recipients : x.rule \in Rule
  BY <1>1 DEF Recipient
<1>4. \A n \in e.told : n.rule \in Rule
  BY <1>1 DEF Note
<1>5. ASSUME NEW q \in e.rules, q[1] \notin e.edited
      PROVE  /\ new[q[1]].life = "active" /\ new[q[1]].trigger = e.activity.trigger
             /\ new[q[1]].scope = q[2]
  <2>1. old[q[1]].life = "active" /\ old[q[1]].trigger = e.activity.trigger /\ old[q[1]].scope = q[2]
    BY <1>5 DEF Knows
  <2> QED
    BY <1>2, <1>5, <2>1
<1>6. ASSUME NEW n \in e.told, n.rule \notin e.edited
      PROVE  /\ new[n.rule].life = "active" /\ new[n.rule].trigger = e.activity.trigger
             /\ Concerns(e.activity, new[n.rule].scope)
  <2>1. /\ old[n.rule].life = "active" /\ old[n.rule].trigger = e.activity.trigger
        /\ Concerns(e.activity, old[n.rule].scope)
    BY <1>6 DEF Knows
  <2> QED
    BY <1>4, <1>6, <2>1
<1>7. \A x \in e.recipients : new[x.rule].life # "none" /\ old[x.rule].life # "none"
  BY <1>3 DEF Knows
<1>8. ASSUME NEW x \in e.recipients, e.at = "evaluate", OfReassignment(e),
             x.resolver = "assignment_holder", x.rule \notin e.edited
      PROVE  \/ \E q \in e.rules : q[1] = x.rule
             \/ Concerns(e.activity, new[x.rule].scope) => HolderTold(e, x)
  <2>1. new[x.rule] = old[x.rule]
    BY <1>3, <1>7, <1>8
  <2> QED
    BY <1>8, <2>1 DEF Knows
<1>9. OfReassignment(e) => e.holder \in Person
  BY DEF Knows
<1> QED
  BY <1>5, <1>6, <1>7, <1>8, <1>9 DEF Knows

LEMMA EditedKnows ==
  ASSUME NEW e \in Evaluation, NEW r \in Rule, NEW known, Knows(e, known)
  PROVE  /\ [e EXCEPT !.edited = @ \cup {r}] \in Evaluation
         /\ Knows([e EXCEPT !.edited = @ \cup {r}], known)
<1> DEFINE f == [e EXCEPT !.edited = @ \cup {r}]
<1>1. f \in Evaluation
  BY DEF Evaluation
<1>2. /\ f.at = e.at /\ f.activity = e.activity /\ f.holder = e.holder /\ f.rules = e.rules
      /\ f.recipients = e.recipients /\ f.told = e.told /\ f.edited = e.edited \cup {r}
  BY DEF Evaluation
<1> HIDE DEF f
<1>3. Knows(f, known)
  BY <1>2 DEF Knows, HolderTold, OfReassignment
<1> QED
  BY <1>1, <1>3 DEF f

-----------------------------------------------------------------------------
(* The steps.                                                               *)

LEMMA CreatesRules ==
  ASSUME NoteInv, NEW r \in Rule, NEW as \in Settings, CreateRule(r, as)
  PROVE  NoteInv'
<1> USE NotificationsAssumption DEF NoteInv
<1> DEFINE new == [life |-> "active", trigger |-> as.trigger, scope |-> as.scope, version |-> 1]
           rows == Rows(r, made'.edits, as)
<1>1. /\ rule' = [rule EXCEPT ![r] = new] /\ recipients' = recipients \cup rows
      /\ rule[r].life = "none" /\ telling' = telling /\ mixed' = mixed
  BY DEF CreateRule
<1>2. as \in Setting /\ new \in RuleType /\ new.life = "active"
  BY DEF Setting, RuleType
<1>3. made' \in [edits : 0 .. MaxEdit, activities : 0 .. MaxActivity]
  BY DEF CreateRule, CountEdit, NoteTypeOK
<1>4. rows \subseteq Recipient /\ \A x \in rows : x.rule = r /\ x.edit = made'.edits
  <2>1. as.resolvers \subseteq Resolver
    BY <1>2 DEF Setting
  <2>2. made'.edits \in Nat
    BY <1>3
  <2> QED
    BY <2>1, <2>2 DEF Rows, Recipient
<1> HIDE DEF new, rows
<1>5. /\ rule' \in [Rule -> RuleType] /\ rule'[r].life = "active"
      /\ \A q \in Rule \ {r} : rule'[q] = rule[q]
  BY <1>1, <1>2 DEF NoteTypeOK
<1>6. NoteTypeOK'
  BY <1>1, <1>3, <1>4, <1>5 DEF NoteTypeOK, CreateRule
<1>7. \A x \in recipients : x.rule \in Rule /\ x.rule # r
  BY <1>1 DEF NoteTypeOK, Recipient
<1>8. \A x \in recipients' : rule'[x.rule].life # "none"
  BY <1>1, <1>4, <1>5, <1>7
<1>9. ASSUME NEW s \in Handler, Evaluating(telling'[s]) PROVE Knows(telling'[s], rule')
  BY <1>1, <1>5, <1>9, KnowsGoesOn, TellingKinds
<1>10. ASSUME NEW s \in Handler, telling'[s].at = "edit" PROVE Replaces(s)'
  <2>1. telling[s] \in Edit /\ Replaces(s)
    BY <1>1, <1>10, TellingKinds
  <2>2. telling[s].rule \in Rule /\ telling[s].rule # r
    BY <1>1, <2>1 DEF Edit, Replaces
  <2>3. RecipientsOf(telling[s].rule)' = RecipientsOf(telling[s].rule)
    BY <1>1, <1>4, <2>2 DEF RecipientsOf
  <2> QED
    BY <1>1, <1>5, <2>1, <2>2, <2>3 DEF Replaces
<1>11. RecipientsAreOneEdits'
  BY <1>1, <1>4, <1>7 DEF RecipientsAreOneEdits
<1> QED
  BY <1>1, <1>6, <1>8, <1>9, <1>10, <1>11

LEMMA BeginsEdits ==
  ASSUME NoteInv, NEW s \in Handler, NEW r \in Rule, NEW as \in Settings, UpdateRule(s, r, as)
  PROVE  NoteInv'
<1> USE NotificationsAssumption DEF NoteInv
<1> DEFINE new == [at |-> "edit", rule |-> r, edit |-> made'.edits, as |-> as,
                   seen |-> RecipientsOf(r), alone |-> Rivals(r) = {}]
<1>1. /\ telling' = [t \in Handler |-> IF t = s THEN new
                       ELSE IF t \in Rivals(r) THEN [telling[t] EXCEPT !.alone = FALSE] ELSE telling[t]]
      /\ telling[s] = Free /\ rule[r].life # "none"
      /\ UNCHANGED <<rule, recipients, employed, holder, grants, notes, mixed>>
  BY DEF UpdateRule
<1>2. made' \in [edits : 0 .. MaxEdit, activities : 0 .. MaxActivity]
  BY DEF UpdateRule, CountEdit, NoteTypeOK
<1>3. new \in Edit /\ new.at = "edit" /\ new.rule = r /\ new.seen = RecipientsOf(r) /\ new.alone = (Rivals(r) = {})
  <2>1. as \in Setting /\ RecipientsOf(r) \in SUBSET Recipient
    BY DEF RecipientsOf, NoteTypeOK
  <2>3. made'.edits \in Nat
    BY <1>2
  <2>2. (Rivals(r) = {}) \in BOOLEAN
    OBVIOUS
  <2> QED
    BY <2>1, <2>2, <2>3 DEF Edit
<1> HIDE DEF new
<1>4. ASSUME NEW v \in Handler \ {s}
      PROVE  /\ v \notin Rivals(r) => telling'[v] = telling[v]
             /\ v \in Rivals(r) => /\ telling[v] \in Edit /\ telling'[v] \in Edit /\ telling'[v].rule = r
                                   /\ telling'[v].at = "edit" /\ telling'[v].alone = FALSE
  <2>1. CASE v \notin Rivals(r)
    BY <1>1, <2>1
  <2>2. CASE v \in Rivals(r)
    <3>1. telling'[v] = [telling[v] EXCEPT !.alone = FALSE]
      BY <1>1, <2>2
    <3>2. telling[v] \in Edit /\ telling[v].rule = r /\ telling[v].at = "edit"
      BY <2>2, TellingKinds DEF Rivals
    <3> QED
      BY <2>2, <3>1, <3>2 DEF Edit
  <2> QED
    BY <2>1, <2>2
<1>5. telling'[s] = new
  BY <1>1
<1>6. NoteTypeOK'
  <2>1. \A v \in Handler : telling'[v] = Free \/ telling'[v] \in Edit \/ telling'[v] \in Evaluation
    BY <1>3, <1>4, <1>5 DEF NoteTypeOK
  <2> QED
    BY <1>1, <1>2, <2>1 DEF NoteTypeOK
<1>7. ASSUME NEW v \in Handler, Evaluating(telling'[v]) PROVE Knows(telling'[v], rule')
  <2>1. v # s
    BY <1>3, <1>5, <1>7 DEF Evaluating
  <2>2. telling'[v] = telling[v]
    BY <1>4, <1>7, <2>1 DEF Evaluating
  <2> QED
    BY <1>1, <1>7, <2>2
<1>8. ASSUME NEW v \in Handler, telling'[v].at = "edit" PROVE Replaces(v)'
  <2>1. \A q : RecipientsOf(q)' = RecipientsOf(q)
    BY <1>1 DEF RecipientsOf
  <2>5. \A x \in RecipientsOf(r) : x.rule = r
    BY DEF RecipientsOf
  <2>2. CASE v = s
    <3>1. Rivals(r) = {} => \A w \in Handler \ {s} : ~EditOf(telling'[w], r)
      BY <1>4 DEF EditOf, Rivals
    <3> QED
      <4>1. /\ telling'[v].rule = r /\ telling'[v].seen = RecipientsOf(r)
            /\ telling'[v].alone = (Rivals(r) = {})
        BY <1>3, <1>5, <2>2
      <4>2. rule'[r].life # "none" /\ RecipientsOf(r)' = RecipientsOf(r)
        BY <1>1, <2>1
      <4> QED
        BY <2>2, <2>5, <3>1, <4>1, <4>2 DEF Replaces
  <2>3. CASE v # s /\ v \in Rivals(r)
    <3>1. Replaces(v) /\ telling[v].rule = r /\ telling'[v].seen = telling[v].seen
      BY <1>1, <2>3, TellingKinds DEF Rivals, Edit
    <3> QED
      BY <1>1, <1>4, <2>3, <3>1 DEF Replaces
  <2>4. CASE v # s /\ v \notin Rivals(r)
    <3>1. telling'[v] = telling[v] /\ telling[v].rule # r
      BY <1>4, <1>8, <2>4 DEF Rivals
    <3>2. \A w \in Handler \ {v} : EditOf(telling'[w], telling[v].rule) => EditOf(telling[w], telling[v].rule)
      BY <1>3, <1>4, <1>5, <3>1 DEF EditOf
    <3>3. Replaces(v)
      BY <1>8, <3>1
    <3> QED
      BY <1>1, <2>1, <3>1, <3>2, <3>3 DEF Replaces
  <2> QED
    BY <2>2, <2>3, <2>4
<1>9. RecipientsAreOneEdits'
  BY <1>1 DEF RecipientsAreOneEdits
<1> QED
  BY <1>1, <1>6, <1>7, <1>8, <1>9

LEMMA SavesRules ==
  ASSUME NoteInv, NEW s \in Handler, SaveRule(s)
  PROVE  NoteInv'
<1> USE NotificationsAssumption DEF NoteInv
<1> DEFINE c == telling[s]
           r == c.rule
           rows == Rows(r, c.edit, c.as)
           new == [life |-> c.as.life, trigger |-> c.as.trigger,
                   scope |-> KeptScope(rule[r].scope, c.as), version |-> rule[r].version + 1]
<1>1. /\ c.at = "edit" /\ rule' = [rule EXCEPT ![r] = new]
      /\ recipients' = (recipients \ c.seen) \cup rows
      /\ mixed' = (IF c.alone THEN mixed \ {r} ELSE mixed \cup {r})
      /\ telling' = [Edited(r) EXCEPT ![s] = Free]
      /\ UNCHANGED <<employed, holder, grants, notes, made>>
  BY DEF SaveRule, Deleted, NoteTypeOK
<1>2. c \in Edit /\ Replaces(s)
  BY <1>1, TellingKinds
<1>3. r \in Rule /\ c.as \in Setting /\ c.edit \in Nat /\ c.seen \subseteq Recipient /\ rule[r].life # "none"
  BY <1>2 DEF Edit, Replaces
<1>4. new \in RuleType /\ new.life # "none"
  BY <1>3 DEF NoteTypeOK, RuleType, Setting, KeptScope
<1>5. rows \subseteq Recipient /\ \A x \in rows : x.rule = r /\ x.edit = c.edit
  BY <1>3 DEF Rows, Recipient, Setting
<1>6. c.alone => c.seen = RecipientsOf(r) /\ \A v \in Handler \ {s} : ~EditOf(telling[v], r)
  BY <1>2 DEF Replaces
<1> HIDE DEF new, rows
<1>7. /\ rule' \in [Rule -> RuleType] /\ rule'[r].life # "none"
      /\ \A q \in Rule \ {r} : rule'[q] = rule[q]
  BY <1>1, <1>3, <1>4 DEF NoteTypeOK
<1>8. telling'[s] = Free /\ DOMAIN telling' = Handler
  BY <1>1 DEF Edited
<1>9. ASSUME NEW v \in Handler \ {s}
      PROVE  /\ ~Evaluating(telling[v]) => telling'[v] = telling[v]
             /\ Evaluating(telling[v]) => /\ telling'[v] \in Evaluation /\ Knows(telling'[v], rule')
  <2>1. telling'[v] = Edited(r)[v]
    BY <1>1 DEF Edited
  <2>2. CASE ~Evaluating(telling[v])
    BY <2>1, <2>2 DEF Edited, Evaluating
  <2>3. CASE Evaluating(telling[v])
    <3> DEFINE e == [telling[v] EXCEPT !.edited = @ \cup {r}]
    <3>1. telling'[v] = e
      BY <2>1, <2>3 DEF Edited, Evaluating
    <3>2. telling[v] \in Evaluation /\ Knows(telling[v], rule)
      BY <2>3, TellingKinds
    <3>3. e \in Evaluation /\ Knows(e, rule) /\ r \in e.edited
      <4>1. e \in Evaluation /\ Knows(e, rule)
        BY <1>3, <3>2, EditedKnows
      <4>2. r \in e.edited
        BY <3>2 DEF Evaluation
      <4> QED
        BY <4>1, <4>2
    <3> HIDE DEF e
    <3> QED
      BY <1>3, <1>7, <2>3, <3>1, <3>3, KnowsGoesOn
  <2> QED
    BY <2>2, <2>3
<1>10. \A v \in Handler : telling'[v].at = "edit" => v # s /\ telling'[v] = telling[v]
  BY <1>8, <1>9 DEF Free, Evaluation
<1>11. NoteTypeOK'
  <2>1. \A v \in Handler : telling'[v] = Free \/ telling'[v] \in Edit \/ telling'[v] \in Evaluation
    BY <1>8, <1>9 DEF NoteTypeOK
  <2>2. recipients' \subseteq Recipient /\ mixed' \subseteq Rule
    BY <1>1, <1>3, <1>5 DEF NoteTypeOK
  <2> QED
    BY <1>1, <1>7, <2>1, <2>2 DEF NoteTypeOK
<1>12. \A x \in recipients' : rule'[x.rule].life # "none"
  BY <1>1, <1>5, <1>7 DEF NoteTypeOK, Recipient
<1>13. ASSUME NEW v \in Handler, Evaluating(telling'[v]) PROVE Knows(telling'[v], rule')
  <2>1. v # s
    BY <1>8, <1>13 DEF Evaluating, Free
  <2> QED
    BY <1>9, <1>13, <2>1
<1>14. ASSUME NEW v \in Handler, telling'[v].at = "edit" PROVE Replaces(v)'
  <2>1. v # s /\ telling'[v] = telling[v] /\ telling[v].at = "edit"
    BY <1>10, <1>14
  <2>2. telling[v] \in Edit /\ Replaces(v)
    BY <2>1, TellingKinds
  <2>3. telling[v].rule \in Rule /\ rule'[telling[v].rule].life # "none"
    BY <1>7, <2>2 DEF Edit, Replaces
  <2>4. \A w \in Handler : EditOf(telling'[w], telling[v].rule) => EditOf(telling[w], telling[v].rule)
    BY <1>10 DEF EditOf
  <2>5. ASSUME telling[v].alone
        PROVE  telling[v].seen = {x \in recipients' : x.rule = telling[v].rule}
    <3>1. telling[v].rule # r
      BY <1>1, <2>1, <2>2, <2>5 DEF Replaces, EditOf
    <3>2. \A x \in c.seen \cup rows : x.rule = r
      BY <1>2, <1>5 DEF Replaces
    <3>3. \A q : q # r => RecipientsOf(q)' = RecipientsOf(q)
      BY <1>1, <3>2 DEF RecipientsOf
    <3> QED
      BY <2>2, <2>5, <3>1, <3>3 DEF Replaces, RecipientsOf
  <2> QED
    BY <2>1, <2>2, <2>3, <2>4, <2>5 DEF Replaces, RecipientsOf
<1>15. RecipientsAreOneEdits'
  <2> SUFFICES ASSUME NEW x \in recipients', NEW y \in recipients', x.rule = y.rule, x.edit # y.edit
               PROVE  x.rule \in mixed'
    BY DEF RecipientsAreOneEdits
  <2>1. CASE x.rule = r
    <3>1. CASE c.alone
      <4>1. x \in rows /\ y \in rows
        BY <1>1, <1>6, <2>1, <3>1 DEF RecipientsOf
      <4> QED
        BY <1>5, <4>1
    <3>2. CASE ~c.alone
      BY <1>1, <2>1, <3>2
    <3> QED
      BY <3>1, <3>2
  <2>2. CASE x.rule # r
    BY <1>1, <1>5, <2>2 DEF RecipientsAreOneEdits
  <2> QED
    BY <2>1, <2>2
<1> QED
  BY <1>8, <1>11, <1>12, <1>13, <1>14, <1>15

LEMMA WritesActivities ==
  ASSUME NoteInv, NEW s \in Handler, NEW x \in Activities, NEW u \in Person \cup {NoUser}, WriteActivity(s, x, u)
  PROVE  NoteInv'
<1> USE NotificationsAssumption DEF NoteInv
<1> DEFINE e == [at |-> "list", activity |-> x, holder |-> u, rules |-> Listed(x),
                 recipients |-> {}, told |-> {}, edited |-> {}]
<1>1. Become(s, e) /\ UNCHANGED <<rule, recipients, employed, holder, grants, notes, mixed>>
  BY DEF WriteActivity
<1>2. made' \in [edits : 0 .. MaxEdit, activities : 0 .. MaxActivity]
  BY DEF WriteActivity, CountActivity, NoteTypeOK
<1>3. x \in Activity
  <2>1. made.activities + 1 \in Nat /\ employed \subseteq Person /\ holder \in Person \cup {NoUser}
    BY DEF NoteTypeOK
  <2>2. {g.user : g \in {h \in grants : ~h.expired}} \subseteq Person
    BY DEF NoteTypeOK, Grant
  <2> QED
    BY <2>1, <2>2 DEF Activities, Activity, Trigger
<1>4. Listed(x) \subseteq Rule \X Scope \X Nat
  BY DEF Listed, NoteTypeOK, RuleType
<1>5. \A q \in Listed(x) : rule[q[1]].life = "active" /\ rule[q[1]].trigger = x.trigger /\ rule[q[1]].scope = q[2]
  BY DEF Listed
<1>6. e \in Evaluation
  BY <1>3, <1>4 DEF Evaluation
<1>7. Knows(e, rule)
  <2>1. x.trigger = "lead_reassigned" => u \in Person
    BY DEF WriteActivity
  <2> QED
    BY <1>5, <2>1 DEF Knows, OfReassignment
<1> HIDE DEF e
<1>8. NoteTypeOK'
  BY <1>1, <1>2, <1>6, BecomeIs DEF NoteTypeOK
<1> QED
  BY <1>1, <1>6, <1>7, <1>8, HandlerMoves

LEMMA ListsRecipients ==
  ASSUME NoteInv, NEW s \in Handler, ListRecipients(s)
  PROVE  NoteInv'
<1> USE DEF NoteInv
<1> DEFINE c == telling[s]
           R == {x \in recipients : \E q \in c.rules : q[1] = x.rule}
           e == [c EXCEPT !.at = "evaluate", !.recipients = R]
<1>1. /\ c.at = "list" /\ Become(s, e)
      /\ UNCHANGED <<rule, recipients, employed, holder, grants, notes, made, mixed>>
  BY DEF ListRecipients
<1>2. c \in Evaluation /\ Knows(c, rule)
  BY <1>1, TellingKinds DEF Evaluating
<1>3. R \subseteq Recipient /\ \A x \in R : rule[x.rule].life # "none" /\ \E q \in c.rules : q[1] = x.rule
  BY DEF NoteTypeOK
<1> HIDE DEF R
<1>4. /\ e \in Evaluation /\ e.at = "evaluate" /\ e.recipients = R /\ e.holder = c.holder /\ e.rules = c.rules
      /\ e.activity = c.activity /\ e.told = c.told /\ e.edited = c.edited
  BY <1>2, <1>3 DEF Evaluation
<1> HIDE DEF e
<1>5. Knows(e, rule)
  BY <1>2, <1>3, <1>4 DEF Knows, OfReassignment
<1>6. NoteTypeOK'
  BY <1>1, <1>4, BecomeIs DEF NoteTypeOK
<1> QED
  BY <1>1, <1>4, <1>5, <1>6, HandlerMoves

(* Whomever a recipient stands for is a user.                                *)
LEMMA ResolvedArePersons ==
  ASSUME NoteTypeOK, NEW resolver \in Resolver, NEW x \in Activity, NEW whom \in Person \cup {NoUser}
  PROVE  Resolve(resolver, x, whom) \subseteq Person
<1>1. /\ (IF whom = NoUser THEN {} ELSE {Manager[whom]}) \ {NoUser} \subseteq Person
      /\ {x.old} \ {NoUser} \subseteq Person /\ {whom} \ {NoUser} \subseteq Person
      /\ Holders \cap employed \subseteq Person
  BY NotificationsAssumption DEF Activity
<1>2. /\ {g.by : g \in grants} \subseteq Person
      /\ {g.user : g \in {h \in grants : ~h.expired /\ h.user \in employed /\ h.user # x.actor}} \subseteq Person
  BY DEF NoteTypeOK, Grant
<1> QED
  BY <1>1, <1>2 DEF Resolve, Resolver

LEMMA Evaluates ==
  ASSUME NoteInv, NEW s \in Handler, NEW q \in telling[s].rules, Evaluate(s, q)
  PROVE  NoteInv'
<1> USE DEF NoteInv
<1> DEFINE c == telling[s]
           x == c.activity
           whom == HolderSeen(c)
           users == UNION {Resolve(y.resolver, x, whom) : y \in {z \in c.recipients : z.rule = q[1]}}
           new == [rule : {q[1]}, activity : {x.id}, user : users]
           told == IF Concerns(x, q[2]) THEN c.told \cup new ELSE c.told
           e == [c EXCEPT !.rules = c.rules \ {q}, !.told = told]
<1>1. /\ c.at = "evaluate"
      /\ UNCHANGED <<rule, recipients, employed, holder, grants, notes, made, mixed>>
  BY DEF Evaluate
<1>2. c \in Evaluation /\ Knows(c, rule)
  BY <1>1, TellingKinds DEF Evaluating
<1>3. /\ c.rules \subseteq Rule \X Scope \X Nat /\ c.recipients \subseteq Recipient /\ c.told \subseteq Note
      /\ x \in Activity /\ whom \in Person \cup {NoUser}
  BY <1>2 DEF Evaluation, HolderSeen, NoteTypeOK
<1>4. Become(s, e)
  BY <1>2 DEF Evaluate, Evaluation
<1>16. OfReassignment(c) => c.holder \in Person /\ whom = c.holder
  BY <1>2, NotificationsAssumption DEF Knows, HolderSeen
<1> HIDE DEF whom
<1>5. q[1] \in Rule /\ x.id \in Nat
  BY <1>3 DEF Activity
<1>6. users \subseteq Person
  <2>1. \A y \in c.recipients : Resolve(y.resolver, x, whom) \subseteq Person
    BY <1>3, ResolvedArePersons DEF Recipient
  <2> QED
    BY <2>1
<1>7. OfReassignment(c) =>
        \A y \in c.recipients : y.rule = q[1] /\ y.resolver = "assignment_holder" => c.holder \in users
  <2>1. OfReassignment(c) => Resolve("assignment_holder", x, whom) = {c.holder}
    BY <1>16, NotificationsAssumption DEF Resolve
  <2> QED
    BY <2>1
<1> HIDE DEF users
<1>8. new \subseteq Note /\ \A n \in new : n.rule = q[1]
  BY <1>5, <1>6 DEF Note
<1>9. OfReassignment(c) =>
        \A y \in c.recipients : y.rule = q[1] /\ y.resolver = "assignment_holder" =>
          [rule |-> y.rule, activity |-> x.id, user |-> c.holder] \in new
  BY <1>7
<1> HIDE DEF new
<1>10. told \subseteq Note
  BY <1>3, <1>8
<1>11. /\ e \in Evaluation /\ e.at = c.at /\ e.activity = x /\ e.holder = c.holder /\ e.rules = c.rules \ {q}
       /\ e.recipients = c.recipients /\ e.told = told /\ e.edited = c.edited
  BY <1>2, <1>10 DEF Evaluation
<1>12. ASSUME NEW n \in told, n.rule \notin c.edited
       PROVE  /\ rule[n.rule].life = "active" /\ rule[n.rule].trigger = x.trigger
              /\ Concerns(x, rule[n.rule].scope)
  <2>1. CASE n \in c.told
    BY <1>2, <1>12, <2>1 DEF Knows
  <2>2. CASE n \in new /\ Concerns(x, q[2])
    BY <1>2, <1>8, <1>12, <2>2 DEF Knows
  <2> QED
    BY <2>1, <2>2
<1>13. ASSUME OfReassignment(c), NEW y \in c.recipients, y.resolver = "assignment_holder", y.rule \notin c.edited,
              ~ \E p \in c.rules \ {q} : p[1] = y.rule, Concerns(x, rule[y.rule].scope)
       PROVE  [rule |-> y.rule, activity |-> x.id, user |-> c.holder] \in told
  <2>1. CASE q[1] = y.rule
    <3>1. rule[y.rule].scope = q[2]
      BY <1>2, <1>13, <2>1 DEF Knows
    <3> QED
      BY <1>9, <1>13, <2>1, <3>1
  <2>2. CASE q[1] # y.rule
    BY <1>1, <1>2, <1>13, <2>2 DEF Knows, HolderTold
  <2> QED
    BY <2>1, <2>2
<1>17. OfReassignment(e) <=> OfReassignment(c)
  BY <1>11 DEF OfReassignment
<1> HIDE DEF e, told
<1>14. Knows(e, rule)
  <2>1. /\ OfReassignment(e) => e.holder \in Person
        /\ \A y \in e.recipients : rule[y.rule].life # "none"
        /\ \A p \in e.rules : \/ p[1] \in e.edited
                              \/ /\ rule[p[1]].life = "active" /\ rule[p[1]].trigger = e.activity.trigger
                                 /\ rule[p[1]].scope = p[2]
    BY <1>2, <1>11, <1>17 DEF Knows
  <2> QED
    BY <1>11, <1>12, <1>13, <1>17, <2>1 DEF Knows, HolderTold
<1>15. NoteTypeOK'
  BY <1>1, <1>4, <1>11, BecomeIs DEF NoteTypeOK
<1> QED
  BY <1>1, <1>4, <1>11, <1>14, <1>15, HandlerMoves

LEMMA EndsEvaluations ==
  ASSUME NoteInv, NEW s \in Handler, Commit(s) \/ Rollback(s)
  PROVE  NoteInv'
<1> USE DEF NoteInv
<1>1. Become(s, Free) /\ UNCHANGED <<rule, recipients, employed, grants, made, mixed>>
  BY DEF Commit, Rollback
<1>2. telling[s].at \in {"list", "evaluate"}
  BY DEF Commit, Rollback
<1>3. telling[s].holder \in Person \cup {NoUser} /\ telling[s].told \subseteq Note
  BY <1>2, TellingKinds DEF Evaluating, Evaluation
<1>4. holder' \in Person \cup {NoUser} /\ notes' \subseteq Note
  BY <1>3 DEF Commit, Rollback, NoteTypeOK
<1>5. NoteTypeOK'
  BY <1>1, <1>4, BecomeIs DEF NoteTypeOK
<1> QED
  BY <1>1, <1>5, HandlerMoves

LEMMA PeopleAndSharesGo ==
  ASSUME NoteInv, (\E u \in Person : Leave(u)) \/ \E g \in grants : Expire(g)
  PROVE  NoteInv'
<1> USE DEF NoteInv
<1>1. UNCHANGED <<rule, recipients, holder, notes, telling, made, mixed>>
  BY DEF Leave, Expire
<1>2. employed' \subseteq Person /\ grants' \subseteq Grant
  BY DEF Leave, Expire, NoteTypeOK, Grant
<1>3. NoteTypeOK'
  BY <1>1, <1>2 DEF NoteTypeOK
<1>4. \A s \in Handler : Replaces(s) <=> Replaces(s)'
  BY <1>1 DEF Replaces, RecipientsOf
<1> QED
  BY <1>1, <1>3, <1>4 DEF RecipientsAreOneEdits

LEMMA NoteStep == NoteInv /\ [NoteNext]_noteVars => NoteInv'
<1> SUFFICES ASSUME NoteInv, [NoteNext]_noteVars PROVE NoteInv'
  OBVIOUS
<1>1. CASE NoteRequest
  BY <1>1, CreatesRules, BeginsEdits, WritesActivities DEF NoteRequest
<1>2. ASSUME NEW s \in Handler, SaveRule(s) \/ ListRecipients(s) \/ Commit(s) \/ Rollback(s)
      PROVE  NoteInv'
  BY <1>2, SavesRules, ListsRecipients, EndsEvaluations
<1>3. ASSUME NEW s \in Handler, NEW q \in telling[s].rules, Evaluate(s, q) PROVE NoteInv'
  BY <1>3, Evaluates
<1>4. CASE (\E u \in Person : Leave(u)) \/ \E g \in grants : Expire(g)
  BY <1>4, PeopleAndSharesGo
<1>5. CASE UNCHANGED noteVars
  <2>1. UNCHANGED <<rule, recipients, employed, holder, grants, notes, telling, made, mixed>>
    BY <1>5 DEF noteVars
  <2>2. \A s \in Handler : Replaces(s) <=> Replaces(s)'
    BY <2>1 DEF Replaces, RecipientsOf
  <2> QED
    BY <2>1, <2>2 DEF NoteInv, NoteTypeOK, RecipientsAreOneEdits
<1> QED
  BY <1>1, <1>2, <1>3, <1>4, <1>5 DEF NoteNext

(* What a commit tells, of any step that is one.                             *)
LEMMA CommitsTellByARule ==
  ASSUME NoteInv, NEW s \in Handler, Commit(s), NEW n \in notes' \ notes
  PROVE  \/ n.rule \in telling[s].edited
         \/ /\ rule[n.rule].life = "active"
            /\ rule[n.rule].trigger = telling[s].activity.trigger
            /\ Concerns(telling[s].activity, rule[n.rule].scope)
BY DEF NoteInv, Commit, Evaluating, Knows

LEMMA CommitsTellTheHolder ==
  ASSUME NoteInv, NEW s \in Handler, Commit(s), NEW x \in telling[s].recipients,
         rule[x.rule].scope = NoField
  PROVE  HolderIsTold(s, x)
<1>1. Knows(telling[s], rule) /\ telling[s].at = "evaluate" /\ telling[s].rules = {}
  BY DEF NoteInv, Commit, Evaluating
<1>2. notes' = notes \cup telling[s].told /\ (OfReassignment(telling[s]) => holder' = telling[s].holder)
  BY <1>1, NotificationsAssumption DEF Commit, Knows
<1> QED
  BY <1>1, <1>2 DEF HolderIsTold, Knows, HolderTold, Concerns, OfReassignment

(* For any rules, settings and reporting lines: the recipients of a rule are *)
(* those of one edit unless the last edits overlapped, whoever is told was   *)
(* to be told, and the new holder of a lead is.                              *)
THEOREM ConcernedAreAlwaysTold == NoteSpec => ConcernedAreTold
<1> DEFINE Told == \A s \in Handler : Commit(s) =>
                     \A n \in notes' \ notes :
                       \/ n.rule \in telling[s].edited
                       \/ /\ rule[n.rule].life = "active"
                          /\ rule[n.rule].trigger = telling[s].activity.trigger
                          /\ Concerns(telling[s].activity, rule[n.rule].scope)
           Holder == \A s \in Handler : Commit(s) => \A x \in telling[s].recipients :
                       rule[x.rule].scope = NoField => HolderIsTold(s, x)
<1>1. NoteInit => NoteInv
  BY NoteInitOK
<1>2. NoteInv /\ [NoteNext]_noteVars => NoteInv'
  BY NoteStep
<1>3. NoteInv => NoteTypeOK /\ RecipientsAreOneEdits
  BY DEF NoteInv
<1>4. NoteInv => Told
  BY CommitsTellByARule
<1>5. NoteInv => Holder
  BY CommitsTellTheHolder
<1> QED
  BY <1>1, <1>2, <1>3, <1>4, <1>5, PTL DEF NoteSpec, ConcernedAreTold, ToldByARule, NewHolderIsTold

-----------------------------------------------------------------------------
(* The import page: what a commit confirms.                                *)
AnyStatus == UNION {Statuses(j) : j \in Journey}
Draft == [journey : Journey \cup {Unset}, status : AnyStatus \cup {Unset},
          owner : OwnerType \cup {Unset}, columns : [Header -> Target] \cup {<<>>},
          matchKeys : SUBSET ({LeadName} \cup Custom)]

Shot == [sheet : Sheet, mapping : Draft, stop : BOOLEAN, disturbed : BOOLEAN]
Asked == [kind : Kind, sheet : Sheet, mapping : Draft, stop : BOOLEAN, hash : Sheet \cup {Unset},
          at : {"asked", "done", "refused"}, shown : Shot \cup {Unset}, disturbed : BOOLEAN]
Past == [kind : Kind, at : {"gone"}]

(* What may be asked to be previewed: of the reasons to refuse a file only  *)
(* the two are left that the page does not know.                           *)
Sound(d) == validateMapping(d) \subseteq {"field", "owned twice"}
As(p, f, d, stop) == p.sheet = f /\ p.mapping = d /\ p.stop = stop

(* What each request is of, while nothing was changed since: a preview of   *)
(* the draft as it is, a commit of the preview that was on screen.         *)
Truly(r, f, d, stop) ==
  /\ r.kind = "preview" => Sound(r.mapping) /\ (~r.disturbed => As(r, f, d, stop))
  /\ r.kind = "commit" => /\ r.shown # Unset
                          /\ ~r.shown.disturbed => As(r, r.shown.sheet, r.shown.mapping, r.shown.stop)
TrulyNow(r) == Truly(r, sheet, draft, stopOnError)

(* What the invariant says of the requests and of the buttons, and of the   *)
(* page.                                                                    *)
RequestsInv ==
  /\ sent \in Seq(Asked \cup Past)
  /\ \A i \in DOMAIN sent : sent[i].at # "gone" => TrulyNow(sent[i])
WatchedInv ==
  /\ watched \in [Kind -> Nat]
  /\ \A k \in Kind : Watching(k) =>
       watched[k] \in DOMAIN sent /\ sent[watched[k]].kind = k /\ sent[watched[k]].at # "gone"
PageInv ==
  /\ screen \in Step /\ sheet \in Sheet \cup {Unset} /\ draft \in Draft /\ stopOnError \in BOOLEAN
  /\ preview \in Shot \cup {Unset} /\ imported \in BOOLEAN /\ touches \in Nat
  /\ IF sheet = Unset THEN draft.columns = <<>> /\ draft.matchKeys = {}
     ELSE draft.columns \in [Header -> Target]
  /\ draft.matchKeys \subseteq availableMatchKeys(draft.columns)
  /\ screen = "preview" /\ preview # Unset /\ ~preview.disturbed => As(preview, sheet, draft, stopOnError)
WizardInv == PageInv /\ RequestsInv /\ WatchedInv

LEMMA ADraftIs ==
  ASSUME NEW j \in Journey \cup {Unset}, NEW s \in AnyStatus \cup {Unset},
         NEW o \in OwnerType \cup {Unset}, NEW c \in [Header -> Target] \cup {<<>>},
         NEW m \in SUBSET ({LeadName} \cup Custom)
  PROVE  [journey |-> j, status |-> s, owner |-> o, columns |-> c, matchKeys |-> m] \in Draft
BY DEF Draft

LEMMA EmptyIsADraft ==
  ASSUME NEW c \in [Header -> Target] \cup {<<>>}
  PROVE  /\ emptyDraft(c) \in Draft
         /\ emptyDraft(c).columns = c /\ emptyDraft(c).matchKeys = {}
<1>1. emptyDraft(c) \in Draft
  <2>1. Unset \in Journey \cup {Unset} /\ Unset \in OwnerType \cup {Unset}
    OBVIOUS
  <2>2. Unset \in AnyStatus \cup {Unset}
    OBVIOUS
  <2>3. {} \in SUBSET ({LeadName} \cup Custom)
    OBVIOUS
  <2> QED
    BY <2>1, <2>2, <2>3, ADraftIs DEF emptyDraft
<1> QED
  BY <1>1 DEF emptyDraft

LEMMA NothingIsADraft == emptyDraft(<<>>) \in Draft /\ emptyDraft(<<>>).columns = <<>> /\ emptyDraft(<<>>).matchKeys = {}
<1>1. <<>> \in [Header -> Target] \cup {<<>>}
  OBVIOUS
<1> QED
  BY <1>1, EmptyIsADraft

LEMMA WizardInitInv == WizardInit => WizardInv
<1> SUFFICES ASSUME WizardInit PROVE WizardInv
  OBVIOUS
<1>1. draft \in Draft /\ draft.columns = <<>> /\ draft.matchKeys = {}
  BY NothingIsADraft DEF WizardInit
<1>2. sent = <<>> /\ DOMAIN sent = {} /\ sent \in Seq(Asked \cup Past)
  BY DEF WizardInit
<1>3. watched \in [Kind -> Nat] /\ \A k \in Kind : ~Watching(k)
  BY DEF WizardInit, Watching
<1> QED
  BY <1>1, <1>2, <1>3 DEF WizardInit, WizardInv, PageInv, RequestsInv, WatchedInv, Step

(* A mapping the page finds nothing missing in is refused for nothing else. *)
LEMMA NothingMissingIsSound ==
  ASSUME NEW d, d.columns \in [Header -> Target], d.matchKeys \subseteq availableMatchKeys(d.columns),
         mappingProblems(d) = {}
  PROVE  Sound(d)
<1>1. "name" \notin mappingProblems(d) /\ "twice" \notin mappingProblems(d)
  OBVIOUS
<1>2. LeadName \in Mapped(d.columns)
  BY <1>1 DEF mappingProblems
<1>3. ~TwoAlike(d.columns)
  BY <1>1 DEF mappingProblems
<1>4. d.matchKeys \subseteq Mapped(d.columns)
  BY DEF availableMatchKeys
<1>5. DOMAIN d.columns = Header
  OBVIOUS
<1> QED
  BY <1>2, <1>3, <1>4, <1>5 DEF Sound, validateMapping

LEMMA KindsOfRequest == Asked \cap Past = {} /\ \A r \in Asked \cup Past : r.kind \in Kind /\ (r.at = "gone" <=> r \in Past)
BY DEF Asked, Past

LEMMA OvertakenOnce ==
  ASSUME NEW r \in Asked
  PROVE  LET q == [r EXCEPT !.disturbed = TRUE]
         IN  /\ q \in Asked /\ q.disturbed /\ q.kind = r.kind /\ q.at = r.at /\ q.shown = r.shown
             /\ q.sheet = r.sheet /\ q.mapping = r.mapping /\ q.stop = r.stop
BY DEF Asked

(* Requests overtaken by a change keep what they are of.                    *)
LEMMA OvertakenAre ==
  ASSUME sent \in Seq(Asked \cup Past)
  PROVE  /\ Overtaken \in Seq(Asked \cup Past) /\ DOMAIN Overtaken = DOMAIN sent
         /\ \A i \in DOMAIN sent :
              /\ Overtaken[i].kind = sent[i].kind /\ Overtaken[i].at = sent[i].at
              /\ sent[i].at # "gone" =>
                   /\ Overtaken[i].disturbed /\ Overtaken[i].mapping = sent[i].mapping
                   /\ Overtaken[i].sheet = sent[i].sheet /\ Overtaken[i].stop = sent[i].stop
                   /\ Overtaken[i].shown = sent[i].shown
<1>1. \A i \in 1 .. Len(sent) : sent[i] \in Asked \cup Past
  BY ElementOfSeq
<1>2. DOMAIN sent = 1 .. Len(sent) /\ Len(sent) \in Nat
  OBVIOUS
<1>3. DOMAIN Overtaken = DOMAIN sent
  BY DEF Overtaken
<1>4. ASSUME NEW i \in DOMAIN sent
      PROVE  /\ Overtaken[i] \in Asked \cup Past
             /\ Overtaken[i].kind = sent[i].kind /\ Overtaken[i].at = sent[i].at
             /\ sent[i].at # "gone" =>
                   /\ Overtaken[i].disturbed /\ Overtaken[i].mapping = sent[i].mapping
                   /\ Overtaken[i].sheet = sent[i].sheet /\ Overtaken[i].stop = sent[i].stop
                   /\ Overtaken[i].shown = sent[i].shown
  <2>1. Overtaken[i] = IF sent[i].at = "gone" THEN sent[i] ELSE [sent[i] EXCEPT !.disturbed = TRUE]
    BY DEF Overtaken
  <2>2. sent[i] \in Asked \cup Past
    BY <1>1, <1>2
  <2>3. CASE sent[i].at = "gone"
    BY <2>1, <2>2, <2>3
  <2>4. CASE sent[i].at # "gone"
    <3>1. sent[i] \in Asked
      BY <2>2, <2>4, KindsOfRequest
    <3>2. Overtaken[i] = [sent[i] EXCEPT !.disturbed = TRUE]
      BY <2>1, <2>4
    <3> QED
      BY <3>1, <3>2, OvertakenOnce
  <2> QED
    BY <2>3, <2>4
<1>5. Overtaken \in Seq(Asked \cup Past)
  <2>1. Overtaken \in [1 .. Len(sent) -> Asked \cup Past]
    BY <1>2, <1>3, <1>4 DEF Overtaken
  <2> QED
    BY <2>1, <1>2, IsASeq
<1> QED
  BY <1>3, <1>4, <1>5


(* Changes leave every request what it is of, and nothing of now.           *)
LEMMA OvertakenKeepsRequests ==
  ASSUME RequestsInv, WatchedInv, sent' = Overtaken
  PROVE  /\ RequestsInv'
         /\ watched' \in {watched, [k \in Kind |-> 0]} => WatchedInv'
<1>1. sent \in Seq(Asked \cup Past)
  BY DEF RequestsInv
<1>2. sent' \in Seq(Asked \cup Past) /\ DOMAIN sent' = DOMAIN sent
  BY <1>1, OvertakenAre
<1>3. ASSUME NEW i \in DOMAIN sent', sent'[i].at # "gone"
      PROVE  Truly(sent'[i], sheet', draft', stopOnError')
  <2>1. sent[i].at # "gone" /\ TrulyNow(sent[i])
    BY <1>1, <1>2, <1>3, OvertakenAre DEF RequestsInv
  <2>2. sent'[i].disturbed /\ sent'[i].mapping = sent[i].mapping /\ sent'[i].shown = sent[i].shown
        /\ sent'[i].sheet = sent[i].sheet /\ sent'[i].stop = sent[i].stop /\ sent'[i].kind = sent[i].kind
    BY <1>1, <1>2, <2>1, OvertakenAre
  <2> QED
    BY <2>1, <2>2 DEF Truly, TrulyNow, As
<1>4. ASSUME watched' \in {watched, [k \in Kind |-> 0]}
      PROVE  WatchedInv'
  <2>1. CASE watched' = watched
    <3>1. ASSUME NEW k \in Kind, watched[k] # 0
          PROVE  watched[k] \in DOMAIN sent' /\ sent'[watched[k]].kind = k /\ sent'[watched[k]].at # "gone"
      <4>1. watched[k] \in DOMAIN sent /\ sent[watched[k]].kind = k /\ sent[watched[k]].at # "gone"
        BY <3>1 DEF WatchedInv, Watching
      <4> QED
        BY <4>1, <1>1, <1>2, OvertakenAre
    <3> QED
      BY <2>1, <3>1 DEF WatchedInv, Watching
  <2>2. CASE watched' = [k \in Kind |-> 0]
    BY <2>2 DEF WatchedInv, Watching
  <2> QED
    BY <1>4, <2>1, <2>2
<1> QED
  BY <1>2, <1>3, <1>4 DEF RequestsInv, TrulyNow

(* A request that is asked is of what it should be of.                      *)
LEMMA AskKeepsRequests ==
  ASSUME RequestsInv, WatchedInv, NEW k \in Kind, NEW f \in Sheet, NEW digest \in Sheet \cup {Unset},
         NEW shown \in Shot \cup {Unset}, draft \in Draft, stopOnError \in BOOLEAN, Ask(k, f, digest, shown),
         UNCHANGED <<sheet, draft, stopOnError>>,
         k = "preview" => Sound(draft) /\ f = sheet,
         k = "commit" => shown # Unset /\ (~shown.disturbed => f = shown.sheet /\ draft = shown.mapping
                                                                 /\ stopOnError = shown.stop)
  PROVE  RequestsInv' /\ WatchedInv'
<1> DEFINE r == [kind |-> k, sheet |-> f, mapping |-> draft, stop |-> stopOnError, hash |-> digest,
                 at |-> "asked", shown |-> shown, disturbed |-> FALSE]
<1>1. r \in Asked /\ r \in Asked \cup Past
  BY DEF Asked
<1>2. sent \in Seq(Asked \cup Past) /\ Len(sent) \in Nat /\ DOMAIN sent = 1 .. Len(sent)
  BY DEF RequestsInv
<1>3. sent' = Append(sent, r)
  BY DEF Ask
<1>4. Truly(r, sheet', draft', stopOnError')
  BY DEF Truly, As
<1>5. r.kind = k /\ r.at = "asked"
  OBVIOUS
<1> HIDE DEF r
<1>6. /\ sent' \in Seq(Asked \cup Past) /\ DOMAIN sent' = 1 .. Len(sent) + 1
      /\ sent'[Len(sent) + 1] = r
      /\ \A i \in DOMAIN sent : sent'[i] = sent[i] /\ i \in DOMAIN sent'
  BY <1>1, <1>2, <1>3
<1>7. ASSUME NEW i \in DOMAIN sent', sent'[i].at # "gone"
      PROVE  Truly(sent'[i], sheet', draft', stopOnError')
  <2>1. CASE i = Len(sent) + 1
    BY <2>1, <1>4, <1>6
  <2>2. CASE i \in DOMAIN sent
    <3>1. TrulyNow(sent[i])
      BY <2>2, <1>6, <1>7 DEF RequestsInv
    <3>2. Truly(sent[i], sheet', draft', stopOnError')
      BY <3>1 DEF TrulyNow
    <3> QED
      BY <3>2, <2>2, <1>6
  <2> QED
    BY <2>1, <2>2, <1>2, <1>6
<1>8. WatchedInv'
  <2>1. watched' = [watched EXCEPT ![k] = Len(sent) + 1] /\ watched \in [Kind -> Nat]
    BY DEF Ask, WatchedInv
  <2>2. ASSUME NEW q \in Kind, watched'[q] # 0
        PROVE  watched'[q] \in DOMAIN sent' /\ sent'[watched'[q]].kind = q /\ sent'[watched'[q]].at # "gone"
    <3>1. CASE q = k
      <4>1. watched'[q] = Len(sent) + 1
        BY <2>1, <3>1
      <4> QED
        BY <4>1, <3>1, <1>2, <1>5, <1>6
    <3>2. CASE q # k
      <4>1. watched'[q] = watched[q]
        BY <2>1, <3>2
      <4>2. watched[q] \in DOMAIN sent /\ sent[watched[q]].kind = q /\ sent[watched[q]].at # "gone"
        BY <2>2, <4>1 DEF WatchedInv, Watching
      <4> QED
        BY <4>1, <4>2, <1>6
    <3> QED
      BY <3>1, <3>2
  <2>3. watched' \in [Kind -> Nat]
    BY <2>1, <1>2
  <2> QED
    BY <2>2, <2>3 DEF WatchedInv, Watching
<1> QED
  BY <1>6, <1>7, <1>8 DEF RequestsInv, TrulyNow

(* What is left of a request is nothing a button watches.                   *)
LEMMA GoneKeepsRequests ==
  ASSUME NEW s \in Seq(Asked \cup Past), NEW i \in DOMAIN s
  PROVE  /\ Gone(s, i) \in Seq(Asked \cup Past) /\ DOMAIN Gone(s, i) = DOMAIN s
         /\ Gone(s, i)[i].at = "gone" /\ \A j \in DOMAIN s \ {i} : Gone(s, i)[j] = s[j]
<1> DEFINE e == [kind |-> s[i].kind, at |-> "gone"]
<1>1. s[i] \in Asked \cup Past /\ i \in 1 .. Len(s)
  OBVIOUS
<1>2. e \in Asked \cup Past /\ e.at = "gone"
  BY <1>1, KindsOfRequest DEF Past
<1>3. Gone(s, i) = [s EXCEPT ![i] = e]
  BY DEF Gone
<1> HIDE DEF e
<1>4. Gone(s, i) \in Seq(Asked \cup Past)
  BY <1>1, <1>2, <1>3, ExceptSeq
<1> QED
  BY <1>1, <1>2, <1>3, <1>4

LEMMA UnwatchedKeepsWatched ==
  ASSUME WatchedInv, NEW i, Unwatched(i), DOMAIN sent' = DOMAIN sent,
         \A j \in DOMAIN sent \ {i} : sent[j].at # "gone" => sent'[j].kind = sent[j].kind /\ sent'[j].at # "gone"
  PROVE  WatchedInv'
<1>1. watched' \in [Kind -> Nat]
  BY DEF WatchedInv, Unwatched
<1>2. ASSUME NEW k \in Kind, watched'[k] # 0
      PROVE  watched'[k] \in DOMAIN sent' /\ sent'[watched'[k]].kind = k /\ sent'[watched'[k]].at # "gone"
  <2>1. watched'[k] = watched[k] /\ watched[k] # i
    BY <1>2 DEF Unwatched
  <2>2. watched[k] \in DOMAIN sent /\ sent[watched[k]].kind = k /\ sent[watched[k]].at # "gone"
    BY <1>2, <2>1 DEF WatchedInv, Watching
  <2> QED
    BY <2>1, <2>2
<1> QED
  BY <1>1, <1>2 DEF WatchedInv, Watching

(* A page in sight of no preview.                                           *)
LEMMA ControlKeeps ==
  ASSUME WizardInv, NEW d \in Draft, NEW stop \in BOOLEAN, Control(d, stop),
         d.columns \in [Header -> Target], d.matchKeys \subseteq availableMatchKeys(d.columns)
  PROVE  WizardInv'
<1>1. RequestsInv' /\ WatchedInv'
  BY OvertakenKeepsRequests DEF WizardInv, Control
<1>2. PageInv'
  BY DEF WizardInv, PageInv, Control
<1> QED
  BY <1>1, <1>2 DEF WizardInv

LEMMA DraftsFields ==
  ASSUME NEW d \in Draft
  PROVE  /\ d.journey \in Journey \cup {Unset} /\ d.status \in AnyStatus \cup {Unset}
         /\ d.owner \in OwnerType \cup {Unset} /\ d.columns \in [Header -> Target] \cup {<<>>}
         /\ d.matchKeys \in SUBSET ({LeadName} \cup Custom)
         /\ d = [journey |-> d.journey, status |-> d.status, owner |-> d.owner, columns |-> d.columns,
                 matchKeys |-> d.matchKeys]
BY DEF Draft

LEMMA ChangedKeys ==
  ASSUME NEW d \in Draft, NEW m \in SUBSET ({LeadName} \cup Custom)
  PROVE  LET e == [d EXCEPT !.matchKeys = m]
         IN  e \in Draft /\ e.columns = d.columns /\ e.matchKeys = m
BY DEF Draft

LEMMA EditKeeps ==
  ASSUME WizardInv, screen = "map", sheet # Unset,
         \/ \E j \in Journey : ChooseJourney(j) \/ \E s \in Statuses(j) : ChooseStatus(s)
         \/ \E o \in OwnerType \cup {Unset} : ChooseOwner(o)
         \/ \E h \in Header, t \in Target : setColumn(h, t)
         \/ \E k \in {LeadName} \cup Custom : toggleMatchKey(k)
         \/ ToggleStop
  PROVE  WizardInv'
<1>1. /\ draft \in Draft /\ draft.columns \in [Header -> Target] /\ stopOnError \in BOOLEAN
      /\ draft.matchKeys \subseteq availableMatchKeys(draft.columns)
  BY DEF WizardInv, PageInv
<1>2. ASSUME NEW j \in Journey, ChooseJourney(j)
      PROVE  WizardInv'
  <2>1. [draft EXCEPT !.journey = j, !.status = Unset] \in Draft
    BY <1>1 DEF Draft
  <2>2. /\ [draft EXCEPT !.journey = j, !.status = Unset].columns = draft.columns
        /\ [draft EXCEPT !.journey = j, !.status = Unset].matchKeys = draft.matchKeys
    BY <1>1, DraftsFields
  <2> QED
    BY <1>1, <1>2, <2>1, <2>2, ControlKeeps DEF ChooseJourney
<1>3. ASSUME NEW j \in Journey, NEW s \in Statuses(j), ChooseStatus(s)
      PROVE  WizardInv'
  <2>1. [draft EXCEPT !.status = s] \in Draft
    <3>1. s \in AnyStatus
      BY DEF AnyStatus
    <3> QED
      BY <1>1, <3>1 DEF Draft
  <2>2. /\ [draft EXCEPT !.status = s].columns = draft.columns
        /\ [draft EXCEPT !.status = s].matchKeys = draft.matchKeys
    BY <1>1, DraftsFields
  <2> QED
    BY <1>1, <1>3, <2>1, <2>2, ControlKeeps DEF ChooseStatus
<1>4. ASSUME NEW o \in OwnerType \cup {Unset}, ChooseOwner(o)
      PROVE  WizardInv'
  <2>1. [draft EXCEPT !.owner = o] \in Draft
    BY <1>1 DEF Draft
  <2>2. /\ [draft EXCEPT !.owner = o].columns = draft.columns
        /\ [draft EXCEPT !.owner = o].matchKeys = draft.matchKeys
    BY <1>1, DraftsFields
  <2> QED
    BY <1>1, <1>4, <2>1, <2>2, ControlKeeps DEF ChooseOwner
<1>5. ASSUME NEW h \in Header, NEW t \in Target, setColumn(h, t)
      PROVE  WizardInv'
  <2> DEFINE columns == [draft.columns EXCEPT ![h] = t]
             keys == draft.matchKeys \cap availableMatchKeys(columns)
             d == [draft EXCEPT !.columns = columns, !.matchKeys = @ \cap availableMatchKeys(columns)]
  <2>1. columns \in [Header -> Target]
    BY <1>1
  <2>2. keys \in SUBSET ({LeadName} \cup Custom) /\ keys \subseteq availableMatchKeys(columns)
    BY DEF availableMatchKeys
  <2>4. Control(d, stopOnError)
    BY <1>5 DEF setColumn
  <2>5. d = [draft EXCEPT !.columns = columns, !.matchKeys = keys]
    BY <1>1 DEF Draft
  <2> HIDE DEF columns, keys
  <2> HIDE DEF d
  <2>6. d \in Draft /\ d.columns = columns /\ d.matchKeys = keys
    <3>1. columns \in [Header -> Target] \cup {<<>>}
      BY <2>1
    <3>2. keys \in SUBSET ({LeadName} \cup Custom)
      BY <2>2
    <3>3. LET e == [draft EXCEPT !.columns = columns, !.matchKeys = keys]
          IN  e \in Draft /\ e.columns = columns /\ e.matchKeys = keys
      <4>1. draft \in Draft
        BY <1>1
      <4> QED
        BY <3>1, <3>2, <4>1 DEF Draft
    <3> QED
      BY <2>5, <3>3
  <2> QED
    BY <1>1, <2>1, <2>2, <2>4, <2>6, ControlKeeps
<1>6. ASSUME NEW k \in {LeadName} \cup Custom, toggleMatchKey(k)
      PROVE  WizardInv'
  <2> DEFINE keys == IF k \in draft.matchKeys THEN draft.matchKeys \ {k} ELSE draft.matchKeys \cup {k}
             d == [draft EXCEPT !.matchKeys = IF k \in @ THEN @ \ {k} ELSE @ \cup {k}]
  <2>1. draft.matchKeys \in SUBSET ({LeadName} \cup Custom)
    BY <1>1, DraftsFields
  <2>2. keys \in SUBSET ({LeadName} \cup Custom) /\ keys \subseteq availableMatchKeys(draft.columns)
    BY <1>1, <1>6, <2>1 DEF toggleMatchKey
  <2>4. Control(d, stopOnError)
    BY <1>6 DEF toggleMatchKey
  <2>5. d = [draft EXCEPT !.matchKeys = keys]
    BY <1>1 DEF Draft
  <2> HIDE DEF keys, d
  <2>6. d \in Draft /\ d.columns = draft.columns /\ d.matchKeys = keys
    <3>1. LET e == [draft EXCEPT !.matchKeys = keys]
          IN  e \in Draft /\ e.columns = draft.columns /\ e.matchKeys = keys
      BY <1>1, <2>2, ChangedKeys
    <3> QED
      BY <2>5, <3>1
  <2> QED
    BY <1>1, <2>2, <2>4, <2>6, ControlKeeps
<1>7. ASSUME ToggleStop
      PROVE  WizardInv'
  BY <1>1, <1>7, ControlKeeps DEF ToggleStop
<1> QED
  BY <1>2, <1>3, <1>4, <1>5, <1>6, <1>7

LEMMA AskingKeeps ==
  ASSUME WizardInv, (\E f \in Sheet : Analyze(f)) \/ Preview \/ Confirm
  PROVE  WizardInv'
<1>1. draft \in Draft /\ stopOnError \in BOOLEAN /\ RequestsInv /\ WatchedInv /\ PageInv
  BY DEF WizardInv, PageInv
<1>2. PageInv' /\ UNCHANGED <<sheet, draft, stopOnError>>
  BY <1>1 DEF PageInv, Analyze, Preview, Confirm
<1>3. Unset \in Sheet \cup {Unset} /\ Unset \in Shot \cup {Unset} /\ {"analyze", "preview", "commit"} \subseteq Kind
  BY DEF Kind
<1>4. ASSUME NEW f \in Sheet, Analyze(f)
      PROVE  RequestsInv' /\ WatchedInv'
  BY <1>1, <1>2, <1>3, <1>4, AskKeepsRequests DEF Analyze
<1>5. ASSUME Preview
      PROVE  RequestsInv' /\ WatchedInv'
  <2>1. sheet \in Sheet /\ Ask("preview", sheet, Unset, Unset)
    BY <1>1, <1>5 DEF Preview, PageInv
  <2>2. Sound(draft)
    BY <1>1, <1>5, NothingMissingIsSound DEF Preview, PageInv
  <2> QED
    BY <1>1, <1>2, <1>3, <2>1, <2>2, AskKeepsRequests
<1>6. ASSUME Confirm
      PROVE  RequestsInv' /\ WatchedInv'
  <2>1. /\ sheet \in Sheet /\ Ask("commit", sheet, preview.sheet, preview)
        /\ preview # Unset /\ preview \in Shot
        /\ ~preview.disturbed => As(preview, sheet, draft, stopOnError)
    BY <1>1, <1>6 DEF Confirm, PageInv
  <2>2. preview.sheet \in Sheet
    BY <2>1 DEF Shot
  <2> QED
    BY <1>1, <1>2, <1>3, <2>1, <2>2, AskKeepsRequests DEF As
<1> QED
  BY <1>2, <1>4, <1>5, <1>6 DEF WizardInv

LEMMA GoToKeeps ==
  ASSUME WizardInv, NEW id \in Step, GoTo(id)
  PROVE  WizardInv'
<1>1. PageInv'
  BY DEF WizardInv, PageInv, GoTo
<1>2. RequestsInv' /\ WatchedInv'
  BY DEF WizardInv, RequestsInv, WatchedInv, GoTo, TrulyNow, Watching
<1> QED
  BY <1>1, <1>2 DEF WizardInv

LEMMA startOverKeeps ==
  ASSUME WizardInv, startOver
  PROVE  WizardInv'
<1>1. PageInv'
  <2>1. draft' \in Draft /\ draft'.columns = <<>> /\ draft'.matchKeys = {}
    BY NothingIsADraft DEF startOver
  <2> QED
    BY <2>1 DEF WizardInv, PageInv, startOver, Step
<1>2. RequestsInv' /\ WatchedInv'
  BY OvertakenKeepsRequests DEF WizardInv, startOver
<1> QED
  BY <1>1, <1>2 DEF WizardInv

LEMMA ServeKeeps ==
  ASSUME WizardInv, NEW i \in DOMAIN sent, Serve(i)
  PROVE  WizardInv'
<1> DEFINE at == IF Refused(sent[i]) THEN "refused" ELSE "done"
           e == [sent[i] EXCEPT !.at = at]
<1>1. /\ PageInv /\ RequestsInv /\ WatchedInv
      /\ sent \in Seq(Asked \cup Past) /\ i \in 1 .. Len(sent) /\ sent[i].at = "asked"
      /\ UNCHANGED <<screen, sheet, draft, stopOnError, preview, imported, watched, touches>>
  BY DEF WizardInv, RequestsInv, Serve
<1>2. sent[i] \in Asked
  <2>1. sent[i] \in Asked \cup Past
    BY <1>1
  <2> QED
    BY <1>1, <2>1, KindsOfRequest
<1>3. sent' = [sent EXCEPT ![i] = e]
  BY <1>1 DEF Serve
<1>4. at \in {"refused", "done"}
  OBVIOUS
<1> HIDE DEF at
<1>5. /\ e \in Asked /\ e.at = at /\ e.kind = sent[i].kind /\ e.mapping = sent[i].mapping /\ e.sheet = sent[i].sheet
      /\ e.stop = sent[i].stop /\ e.shown = sent[i].shown /\ e.disturbed = sent[i].disturbed
  BY <1>2, <1>4 DEF Asked
<1> HIDE DEF e
<1>6. /\ sent' \in Seq(Asked \cup Past) /\ DOMAIN sent' = DOMAIN sent /\ sent'[i] = e
      /\ \A j \in DOMAIN sent \ {i} : sent'[j] = sent[j]
  <2>1. sent' \in Seq(Asked \cup Past)
    BY <1>1, <1>3, <1>5, ExceptSeq
  <2> QED
    BY <1>1, <1>3, <2>1
<1>7. ASSUME NEW j \in DOMAIN sent', sent'[j].at # "gone"
      PROVE  Truly(sent'[j], sheet', draft', stopOnError')
  <2>1. sent[j].at # "gone" /\ Truly(sent[j], sheet, draft, stopOnError)
    BY <1>1, <1>6, <1>7 DEF RequestsInv, TrulyNow
  <2> QED
    BY <1>1, <1>5, <1>6, <2>1 DEF Truly, As
<1>8. WatchedInv'
  <2>1. ASSUME NEW k \in Kind, watched[k] # 0
        PROVE  watched[k] \in DOMAIN sent' /\ sent'[watched[k]].kind = k /\ sent'[watched[k]].at # "gone"
    <3>1. watched[k] \in DOMAIN sent /\ sent[watched[k]].kind = k /\ sent[watched[k]].at # "gone"
      BY <1>1, <2>1 DEF WatchedInv, Watching
    <3> QED
      BY <3>1, <1>4, <1>5, <1>6
  <2> QED
    BY <1>1, <2>1 DEF WatchedInv, Watching
<1>9. PageInv'
  BY <1>1 DEF PageInv
<1> QED
  BY <1>6, <1>7, <1>8, <1>9 DEF WizardInv, RequestsInv, TrulyNow

(* The requests beside the one that goes are untouched.                     *)
LEMMA GoingKeepsRequests ==
  ASSUME RequestsInv, WatchedInv, NEW i \in DOMAIN sent, sent' = Gone(sent, i), Unwatched(i),
         UNCHANGED <<sheet, draft, stopOnError>>
  PROVE  RequestsInv' /\ WatchedInv'
<1>1. sent \in Seq(Asked \cup Past)
  BY DEF RequestsInv
<1>2. /\ sent' \in Seq(Asked \cup Past) /\ DOMAIN sent' = DOMAIN sent /\ sent'[i].at = "gone"
      /\ \A j \in DOMAIN sent \ {i} : sent'[j] = sent[j]
  BY <1>1, GoneKeepsRequests
<1>3. ASSUME NEW j \in DOMAIN sent', sent'[j].at # "gone"
      PROVE  Truly(sent'[j], sheet', draft', stopOnError')
  BY <1>2, <1>3 DEF RequestsInv, TrulyNow
<1>4. WatchedInv'
  BY <1>2, UnwatchedKeepsWatched
<1> QED
  BY <1>2, <1>3, <1>4 DEF RequestsInv, TrulyNow

LEMMA LostKeeps ==
  ASSUME WizardInv, NEW i \in DOMAIN sent, Lost(i)
  PROVE  WizardInv'
<1>1. RequestsInv' /\ WatchedInv'
  BY GoingKeepsRequests DEF WizardInv, Lost
<1>2. PageInv'
  BY DEF WizardInv, PageInv, Lost
<1> QED
  BY <1>1, <1>2 DEF WizardInv

LEMMA AnswerKeeps ==
  ASSUME WizardInv, NEW i \in DOMAIN sent, Answer(i)
  PROVE  WizardInv'
<1>1. /\ PageInv /\ RequestsInv /\ WatchedInv
      /\ sent \in Seq(Asked \cup Past) /\ sent[i].at = "done" /\ Unwatched(i)
      /\ stopOnError' = stopOnError /\ touches' = touches
  BY DEF WizardInv, RequestsInv, Answer
<1>2. sent[i] \in Asked /\ Truly(sent[i], sheet, draft, stopOnError)
  <2>1. sent[i] \in Asked \cup Past
    BY <1>1
  <2> QED
    BY <1>1, <2>1, KindsOfRequest DEF RequestsInv, TrulyNow
<1>3. CASE /\ sent[i].kind = "analyze" /\ sent' = Gone(Overtaken, i)
           /\ sheet' = sent[i].sheet /\ draft' = emptyDraft(initialColumnTargets) /\ screen' = "map"
           /\ UNCHANGED <<preview, imported>>
  <2>1. PageInv'
    <3>1. sheet' \in Sheet /\ sheet' # Unset
      BY <1>2, <1>3, ImportWizardAssumption DEF Asked
    <3>2. initialColumnTargets \in [Header -> Target]
      BY DEF initialColumnTargets, Target
    <3>3. draft' \in Draft /\ draft'.columns = initialColumnTargets /\ draft'.matchKeys = {}
      BY <1>3, <3>2, EmptyIsADraft
    <3> QED
      BY <1>1, <1>3, <3>1, <3>2, <3>3 DEF PageInv, Step
  <2>2. /\ Overtaken \in Seq(Asked \cup Past) /\ DOMAIN Overtaken = DOMAIN sent
    BY <1>1, OvertakenAre
  <2>3. /\ sent' \in Seq(Asked \cup Past) /\ DOMAIN sent' = DOMAIN sent /\ sent'[i].at = "gone"
        /\ \A j \in DOMAIN sent \ {i} : sent'[j] = Overtaken[j]
    BY <1>3, <2>2, GoneKeepsRequests
  <2>4. ASSUME NEW j \in DOMAIN sent', sent'[j].at # "gone"
        PROVE  Truly(sent'[j], sheet', draft', stopOnError')
    <3>1. j \in DOMAIN sent /\ sent'[j] = Overtaken[j] /\ Overtaken[j].at # "gone"
      BY <2>3, <2>4
    <3>2. sent[j].at # "gone" /\ Truly(sent[j], sheet, draft, stopOnError)
      BY <1>1, <3>1, OvertakenAre DEF RequestsInv, TrulyNow
    <3>3. Overtaken[j].disturbed /\ Overtaken[j].mapping = sent[j].mapping /\ Overtaken[j].shown = sent[j].shown
          /\ Overtaken[j].sheet = sent[j].sheet /\ Overtaken[j].stop = sent[j].stop
          /\ Overtaken[j].kind = sent[j].kind
      BY <1>1, <3>1, <3>2, OvertakenAre
    <3> QED
      BY <3>1, <3>2, <3>3 DEF Truly, As
  <2>5. WatchedInv'
    BY <1>1, <2>3, OvertakenAre, UnwatchedKeepsWatched
  <2> QED
    BY <2>1, <2>3, <2>4, <2>5 DEF WizardInv, RequestsInv, TrulyNow
<1>4. CASE /\ sent[i].kind = "preview"
           /\ preview' = [sheet |-> sent[i].sheet, mapping |-> sent[i].mapping, stop |-> sent[i].stop,
                          disturbed |-> sent[i].disturbed]
           /\ screen' = "preview" /\ sent' = Gone(sent, i)
           /\ UNCHANGED <<sheet, draft, imported>>
  <2>1. RequestsInv' /\ WatchedInv'
    BY <1>1, <1>4, GoingKeepsRequests
  <2>2. preview' \in Shot
    BY <1>2, <1>4 DEF Asked, Shot
  <2>3. ~preview'.disturbed => As(preview', sheet, draft, stopOnError)
    BY <1>2, <1>4 DEF Truly, As
  <2>4. PageInv'
    BY <1>1, <1>4, <2>2, <2>3 DEF PageInv, Step
  <2> QED
    BY <2>1, <2>4 DEF WizardInv
<1>5. CASE /\ sent[i].kind = "commit" /\ imported' = TRUE /\ screen' = "result" /\ sent' = Gone(sent, i)
           /\ UNCHANGED <<sheet, draft, preview>>
  <2>1. RequestsInv' /\ WatchedInv'
    BY <1>1, <1>5, GoingKeepsRequests
  <2>2. PageInv'
    BY <1>1, <1>5 DEF PageInv, Step
  <2> QED
    BY <2>1, <2>2 DEF WizardInv
<1> QED
  BY <1>3, <1>4, <1>5 DEF Answer

LEMMA WizardStepInv == WizardInv /\ [WizardNext]_wizardVars => WizardInv'
<1> SUFFICES ASSUME WizardInv, [WizardNext]_wizardVars PROVE WizardInv'
  OBVIOUS
<1>1. ASSUME UNCHANGED wizardVars
      PROVE  WizardInv'
  <2>1. UNCHANGED <<screen, sheet, draft, stopOnError, preview, imported, sent, watched, touches>>
    BY <1>1 DEF wizardVars
  <2> QED
    BY <2>1 DEF WizardInv, PageInv, RequestsInv, WatchedInv, Watching, TrulyNow
<1>2. ASSUME NEW f \in Sheet, Analyze(f)
      PROVE  WizardInv'
  BY <1>2, AskingKeeps
<1>3. ASSUME \/ \E j \in Journey : ChooseJourney(j) \/ \E s \in Statuses(j) : ChooseStatus(s)
             \/ \E o \in OwnerType \cup {Unset} : ChooseOwner(o)
             \/ \E h \in Header, t \in Target : setColumn(h, t)
             \/ \E k \in {LeadName} \cup Custom : toggleMatchKey(k)
             \/ ToggleStop
      PROVE  WizardInv'
  <2>1. screen = "map" /\ sheet # Unset
    BY <1>3 DEF ChooseJourney, ChooseStatus, ChooseOwner, setColumn, toggleMatchKey, ToggleStop, Control
  <2> QED
    BY <1>3, <2>1, EditKeeps
<1>4. ASSUME Preview \/ Confirm
      PROVE  WizardInv'
  BY <1>4, AskingKeeps
<1>5. ASSUME startOver
      PROVE  WizardInv'
  BY <1>5, startOverKeeps
<1>6. ASSUME NEW id \in Step, GoTo(id)
      PROVE  WizardInv'
  BY <1>6, GoToKeeps
<1>7. ASSUME NEW i \in DOMAIN sent, Serve(i) \/ Lost(i) \/ Answer(i)
      PROVE  WizardInv'
  BY <1>7, ServeKeeps, LostKeeps, AnswerKeeps
<1> QED
  BY <1>1, <1>2, <1>3, <1>4, <1>5, <1>6, <1>7 DEF WizardNext

(* What is asked is what the invariant says of it.                          *)
LEMMA WizardInvTells == WizardInv => CommitsWerePreviewed
<1> SUFFICES ASSUME WizardInv PROVE CommitsWerePreviewed
  OBVIOUS
<1>1. WizardTypeOK
  <2>1. draft.matchKeys \in SUBSET ({LeadName} \cup Custom)
    BY DraftsFields DEF WizardInv, PageInv
  <2>2. IF sheet = Unset THEN DOMAIN draft.columns = {} ELSE draft.columns \in [Header -> Target]
    BY DEF WizardInv, PageInv
  <2> QED
    BY <2>1, <2>2 DEF WizardTypeOK, WizardInv, PageInv, WatchedInv
<1>2. ProblemsAreTold
  BY DEF ProblemsAreTold, Requests, WizardInv, RequestsInv, TrulyNow, Truly, Sound
<1>3. SettledCommitsWerePreviewed
  BY DEF SettledCommitsWerePreviewed, Requests, WizardInv, RequestsInv, TrulyNow, Truly, As
<1> QED
  BY <1>1, <1>2, <1>3 DEF CommitsWerePreviewed

(* Whatever is edited, uploaded, started over, lost or answered late, and in *)
(* whatever order: a commit carried out is of the preview it was confirmed   *)
(* under, unless something was changed while that preview was being made;   *)
(* and of the reasons to refuse a mapping the page has told all but two.    *)
THEOREM CommitsStayPreviewed == WizardSpec => []CommitsWerePreviewed
<1>1. WizardInit => WizardInv
  BY WizardInitInv
<1>2. WizardInv /\ [WizardNext]_wizardVars => WizardInv'
  BY WizardStepInv
<1>3. WizardInv => CommitsWerePreviewed
  BY WizardInvTells
<1> QED
  BY <1>1, <1>2, <1>3, PTL DEF WizardSpec
================================================================================
