------------------------------- MODULE Accounts -------------------------------
(* One account of apps/api/src/auth: logins and their lockout, sessions,     *)
(* reset tokens and invitations, and the writes of the password.  Requests   *)
(* are processes; each statement or transaction that commits is a step.      *)
(* A transaction that holds one row while it asks for another is two steps;  *)
(* the rows it holds are read off its task.  Audit rows and mails are left   *)
(* out.  A hash is a password with the salt of the write that made it.       *)
EXTENDS Naturals, FiniteSets, Sequences

CONSTANTS Client, Password,
          MaxTime, Window, LockFor, SessionTtl, TokenTtl, MaxAttempts,
          MaxSession, MaxToken, MaxWrite, MaxFail, NoHash

ASSUME AccountsAssumption ==
  /\ {MaxTime, Window, LockFor, SessionTtl, TokenTtl, MaxSession, MaxWrite, MaxFail} \subseteq Nat
  /\ MaxAttempts \in Nat \ {0} /\ MaxToken \in Nat \ {0}

VARIABLES now,
          active, hash,      \* the row of users
          attempt,           \* the row of failed_login_attempts, or None
          sessions, tokens,  \* rows in the order of their insertion
          task,              \* what each client's request is doing
          failed,            \* history: the times of the failures recorded
          writes             \* history: the writes of the password

acct == <<now, active, hash, attempt, sessions, tokens, task, failed, writes>>

None == [count |-> 0, since |-> 0, until |-> 0]
AtRest == [op |-> "idle"]
Hash == [password : Password, salt : 1 .. MaxWrite] \cup {NoHash}
Attempt == [count : 0 .. MaxFail, since : 0 .. MaxTime, until : 0 .. MaxTime + LockFor]
SessionRow == [expires : Nat, revoked : BOOLEAN, proof : Hash, born : 0 .. MaxWrite]
TokenRow == [expires : Nat, used : BOOLEAN]
Task ==
  {AtRest}
  \cup [op : {"login"}, at : 0 .. MaxTime, password : Password, saw : Attempt]
  \cup [op : {"wrong"}, at : 0 .. MaxTime, saw : Attempt]
  \cup [op : {"right", "cleared"}, at : 0 .. MaxTime, proof : Hash]
  \cup [op : {"found", "claimed"}, token : 1 .. MaxToken, password : Password]
  \cup [op : {"inviting"}]
  \cup [op : {"change"}, session : 1 .. MaxSession, password : Password]
  \cup [op : {"verified"}, session : 1 .. MaxSession, expected : Hash]
Write ==
  [by : {"token"}, token : 1 .. MaxToken] \cup [by : {"session"}, session : 1 .. MaxSession, expected : Hash]

AcctTypeOK ==
  /\ now \in 0 .. MaxTime /\ active \in BOOLEAN /\ hash \in Hash /\ attempt \in Attempt
  /\ sessions \in Seq(SessionRow) /\ Len(sessions) <= MaxSession
  /\ tokens \in Seq(TokenRow) /\ Len(tokens) <= MaxToken
  /\ task \in [Client -> Task]
  /\ failed \in Seq(0 .. MaxTime) /\ writes \in Seq(Write)

(* createUser: an account without a password, and the invitation that names  *)
(* its first token.                                                          *)
AcctInit ==
  /\ now = 0 /\ active = TRUE /\ hash = NoHash /\ attempt = None
  /\ sessions = <<>> /\ tokens = <<[expires |-> TokenTtl, used |-> FALSE]>>
  /\ task = [c \in Client |-> AtRest] /\ failed = <<>> /\ writes = <<>>

Tick == now < MaxTime /\ now' = now + 1 /\ UNCHANGED <<active, hash, attempt, sessions, tokens, task, failed, writes>>

Goes(c, t) == task' = [task EXCEPT ![c] = t]
Revoked(S) == [i \in DOMAIN sessions |-> IF i \in S THEN [sessions[i] EXCEPT !.revoked = TRUE] ELSE sessions[i]]
Open(i) == ~sessions[i].revoked /\ sessions[i].expires > now

(* validateSession: the session's row, then the user's.                      *)
Valid(i) == Open(i) /\ active
SignedIn(at, proof) == [expires |-> at + SessionTtl, revoked |-> FALSE, proof |-> proof, born |-> Len(writes)]

-----------------------------------------------------------------------------
(* login: the attempt is read first, then the user; the hash is verified,    *)
(* and what follows is written from those two reads.                         *)
BeginLogin(c, p) ==
  /\ task[c] = AtRest /\ attempt.until <= now /\ Len(failed) < MaxFail
  /\ Goes(c, [op |-> "login", at |-> now, password |-> p, saw |-> attempt])
  /\ UNCHANGED <<now, active, hash, attempt, sessions, tokens, failed, writes>>

Matches(p) == hash # NoHash /\ hash.password = p

Verify(c) ==
  /\ task[c].op = "login"
  /\ Goes(c, IF active /\ Matches(task[c].password)
             THEN [op |-> "right", at |-> task[c].at, proof |-> hash]
             ELSE [op |-> "wrong", at |-> task[c].at, saw |-> task[c].saw])
  /\ UNCHANGED <<now, active, hash, attempt, sessions, tokens, failed, writes>>

WithinWindow(at, saw) == saw # None /\ at - saw.since <= Window

(* The row is overwritten with what the read led to, whatever it holds now.  *)
Counted(at, saw) ==
  LET count == IF WithinWindow(at, saw) THEN saw.count + 1 ELSE 1 IN
  [count |-> count,
   since |-> IF WithinWindow(at, saw) THEN saw.since ELSE at,
   until |-> IF count >= MaxAttempts THEN at + LockFor ELSE 0]

RecordFailure(c) ==
  /\ task[c].op = "wrong" /\ Len(failed) < MaxFail
  /\ attempt' = Counted(task[c].at, task[c].saw)
  /\ failed' = Append(failed, task[c].at) /\ Goes(c, AtRest)
  /\ UNCHANGED <<now, active, hash, sessions, tokens, writes>>

ClearAttempt(c) ==
  /\ task[c].op = "right" /\ attempt' = None
  /\ Goes(c, [task[c] EXCEPT !.op = "cleared"])
  /\ UNCHANGED <<now, active, hash, sessions, tokens, failed, writes>>

(* The user is not looked at again.                                          *)
IssueSession(c) ==
  /\ task[c].op = "cleared" /\ Len(sessions) < MaxSession
  /\ sessions' = Append(sessions, SignedIn(task[c].at, task[c].proof))
  /\ Goes(c, AtRest) /\ UNCHANGED <<now, active, hash, attempt, tokens, failed, writes>>

Logout(i) ==
  /\ Valid(i) /\ sessions' = Revoked({i})
  /\ UNCHANGED <<now, active, hash, attempt, tokens, task, failed, writes>>

-----------------------------------------------------------------------------
UserLocked == \E c \in Client : task[c].op = "inviting"
Claimed(t) == \E c \in Client : task[c].op = "claimed" /\ task[c].token = t
Fresh == [expires |-> now + TokenTtl, used |-> FALSE]

Usable(t) == ~tokens[t].used /\ tokens[t].expires > now

(* requestPasswordReset, for an active user with or without a password.      *)
RequestReset ==
  /\ active /\ Len(tokens) < MaxToken /\ tokens' = Append(tokens, Fresh)
  /\ UNCHANGED <<now, active, hash, attempt, sessions, task, failed, writes>>

FindToken(c, t, p) ==
  /\ task[c] = AtRest /\ Usable(t) /\ Len(writes) < MaxWrite
  /\ Goes(c, [op |-> "found", token |-> t, password |-> p])
  /\ UNCHANGED <<now, active, hash, attempt, sessions, tokens, failed, writes>>

(* updateMany ... usedAt: null, which waits for whoever holds the row.       *)
Claimable(t) == ~tokens[t].used

Claim(c) ==
  /\ task[c].op = "found" /\ ~Claimed(task[c].token)
  /\ Goes(c, IF Claimable(task[c].token) THEN [task[c] EXCEPT !.op = "claimed"] ELSE AtRest)
  /\ UNCHANGED <<now, active, hash, attempt, sessions, tokens, failed, writes>>

EndedByReset == DOMAIN sessions

(* The rest of completePasswordResetTransaction and its commit.              *)
SetPassword(c) ==
  LET t == task[c] IN
  /\ t.op = "claimed" /\ ~UserLocked /\ Len(writes) < MaxWrite
  /\ tokens' = [tokens EXCEPT ![t.token].used = TRUE]
  /\ hash' = [password |-> t.password, salt |-> Len(writes) + 1]
  /\ sessions' = Revoked(EndedByReset)
  /\ writes' = Append(writes, [by |-> "token", token |-> t.token])
  /\ Goes(c, AtRest) /\ UNCHANGED <<now, active, attempt, failed>>

(* changeAuthenticatedPassword behind a session that was valid when the      *)
(* request came in.                                                          *)
BeginChange(c, i, p) ==
  /\ task[c] = AtRest /\ Valid(i) /\ Len(writes) < MaxWrite
  /\ Goes(c, [op |-> "change", session |-> i, password |-> p])
  /\ UNCHANGED <<now, active, hash, attempt, sessions, tokens, failed, writes>>

VerifyCurrent(c) ==
  /\ task[c].op = "change"
  /\ Goes(c, IF Matches(task[c].password)
             THEN [op |-> "verified", session |-> task[c].session, expected |-> hash] ELSE AtRest)
  /\ UNCHANGED <<now, active, hash, attempt, sessions, tokens, failed, writes>>

SamePassword(expected) == hash # NoHash /\ hash.password = expected.password /\ active
Unchanged(expected) == hash = expected /\ active
EndedByChange(i) == DOMAIN sessions \ {i}

Replace(c, p) ==
  LET t == task[c] IN
  /\ t.op = "verified" /\ ~UserLocked /\ Goes(c, AtRest)
  /\ \/ /\ Unchanged(t.expected) /\ Len(writes) < MaxWrite
        /\ hash' = [password |-> p, salt |-> Len(writes) + 1]
        /\ sessions' = Revoked(EndedByChange(t.session))
        /\ writes' = Append(writes, [by |-> "session", session |-> t.session, expected |-> t.expected])
     \/ ~Unchanged(t.expected) /\ UNCHANGED <<hash, sessions, writes>>
  /\ UNCHANGED <<now, active, attempt, tokens, failed>>

-----------------------------------------------------------------------------
Deactivate ==
  /\ active /\ ~UserLocked /\ active' = FALSE /\ sessions' = Revoked(DOMAIN sessions)
  /\ UNCHANGED <<now, hash, attempt, tokens, task, failed, writes>>

Invitable == active /\ hash = NoHash

(* resendInvite locks the user, looks, and then invalidates the tokens.      *)
LockInvited(c) ==
  /\ task[c] = AtRest /\ ~UserLocked /\ Invitable /\ Len(tokens) < MaxToken
  /\ Goes(c, [op |-> "inviting"])
  /\ UNCHANGED <<now, active, hash, attempt, sessions, tokens, failed, writes>>

Invite(c) ==
  /\ task[c].op = "inviting" /\ Len(tokens) < MaxToken
  /\ \A t \in DOMAIN tokens : ~Claimed(t)
  /\ tokens' = Append([t \in DOMAIN tokens |-> [tokens[t] EXCEPT !.used = TRUE]], Fresh)
  /\ Goes(c, AtRest) /\ UNCHANGED <<now, active, hash, attempt, sessions, failed, writes>>

(* The invitation waits for the token, its reset for the user: Postgres      *)
(* takes one of them back, with everything it did.                           *)
Deadlocked == UserLocked /\ \E t \in DOMAIN tokens : Claimed(t)
Abort(c) ==
  /\ Deadlocked /\ task[c].op \in {"claimed", "inviting"} /\ Goes(c, AtRest)
  /\ UNCHANGED <<now, active, hash, attempt, sessions, tokens, failed, writes>>

AcctNext ==
  \/ Tick \/ RequestReset \/ Deactivate
  \/ \E i \in DOMAIN sessions : Logout(i)
  \/ \E c \in Client :
       \/ \E p \in Password : BeginLogin(c, p) \/ Replace(c, p)
       \/ \E p \in Password, t \in DOMAIN tokens : FindToken(c, t, p)
       \/ \E p \in Password, i \in DOMAIN sessions : BeginChange(c, i, p)
       \/ Verify(c) \/ RecordFailure(c) \/ ClearAttempt(c) \/ IssueSession(c)
       \/ Claim(c) \/ SetPassword(c) \/ VerifyCurrent(c) \/ LockInvited(c) \/ Invite(c) \/ Abort(c)

AcctSpec == AcctInit /\ [][AcctNext]_acct

-----------------------------------------------------------------------------
Earned(a) == a.count <= Cardinality({i \in DOMAIN failed : failed[i] \in a.since .. a.since + Window})

(* Logins that overlap lose failures from the count but never add one: a     *)
(* count is covered by failures inside its window, so a lock is always       *)
(* earned by MaxAttempts of them (recordFailure, lockoutWindowMs).           *)
LocksAreEarned ==
  /\ Earned(attempt)
  /\ \A c \in Client : task[c].op \in {"login", "wrong"} => Earned(task[c].saw)

(* Every write of the password ends the sessions that were there: one that   *)
(* is still open was inserted after the last write (by a login that may have *)
(* read the hash before it), or is the session that made the write.          *)
WritesEndSessions ==
  \A i \in DOMAIN sessions :
    sessions[i].revoked \/ sessions[i].born = Len(writes)
      \/ LET w == writes[Len(writes)] IN w.by = "session" /\ w.session = i

Spent == {k \in DOMAIN writes : writes[k].by = "token"}

(* A token sets the password at most once, whoever races for it and whatever *)
(* is aborted, and once it has, it is used: the claim, the hash and the end  *)
(* of the sessions are one transaction (completePasswordResetTransaction).   *)
TokensSetOnce ==
  /\ \A j, k \in Spent : writes[j].token = writes[k].token => j = k
  /\ \A k \in Spent : tokens[writes[k].token].used

(* An invitation is for an account that never had a password: while one is   *)
(* under way or has been renewed, no reset slips in between.                 *)
InvitesPrecedePasswords ==
  \A c \in Client : task[c].op = "inviting" => hash = NoHash /\ active

(* A change replaces exactly the hash its own request verified, also when    *)
(* the same password was set again meanwhile: what a reset or another change *)
(* wrote is never overwritten by a request that began before it, and the     *)
(* session it comes from was not ended by a write in between.                *)
ChangesReplaceWhatTheySaw ==
  \A k \in DOMAIN writes :
    writes[k].by = "session" =>
      /\ writes[k].expected # NoHash
      /\ writes[k].expected.salt = k - 1

(* The five together: what the statements of login.ts, password-reset.ts and *)
(* prisma-auth-repository.ts keep between them, none of which any one keeps.  *)
AccountIsGuarded ==
  /\ LocksAreEarned /\ WritesEndSessions /\ TokensSetOnce
  /\ InvitesPrecedePasswords /\ ChangesReplaceWhatTheySaw

-----------------------------------------------------------------------------
(* Stated by docs/api/auth.md:11 and broken by logins that overlap: that     *)
(* many failures, here at one moment and with no success ever, lock the      *)
(* account.                                                                  *)
FailuresLock ==
  hash = NoHash /\ MaxAttempts <= Cardinality({i \in DOMAIN failed : failed[i] = now})
    => attempt.until > now

(* Not stated anywhere, and not so: a lock lasts until it ends.              *)
LocksStand == [][attempt.until > now => attempt' = attempt]_acct

(* Not so either: an open session was proved with the hash of today.         *)
ProofsAreCurrent ==
  \A i \in DOMAIN sessions :
    sessions[i].revoked \/ sessions[i].proof = hash
      \/ LET w == writes[Len(writes)] IN w.by = "session" /\ w.session = i
=============================================================================
