---------------------------- MODULE RefreshTokens ----------------------------
(***************************************************************************)
(* Refresh-token sessions (app/auth/refresh_tokens.py) and the HTTP        *)
(* handlers that read and write them (app/api/v1/auth.py, set_status of    *)
(* app/api/v1/admin.py), run by a pool of worker threads against           *)
(* PostgreSQL at READ COMMITTED.                                           *)
(*                                                                         *)
(* Each handler is cut where another transaction can commit between two of *)
(* its statements: a SELECT is one step, and the writes of a transaction   *)
(* become visible in the step that commits them.  Only rotate keeps        *)
(* uncommitted writes, hence row locks, across a further SELECT.  A        *)
(* request that is answered without writing anything at its first          *)
(* statement (unknown or expired token, wrong password, nothing to change) *)
(* leaves every variable as it is and has no action of its own.            *)
(***************************************************************************)
EXTENDS Integers, FiniteSets

CONSTANTS
  Users,          \* account ids
  SessionIds,     \* ids a session row can get; bounds the logins and refreshes
  Workers,        \* threads of the server that run handlers
  Fresh,          \* sessions[s] before the row is inserted
  Gone,           \* sessions[s] after the row is deleted
  None,           \* SQL NULL, and an unset local variable
  Lifetime,       \* refresh_token_lifetime_days, in ticks of the clock
  MaxTime,        \* bound on the clock
  SerialFamilies  \* logins (by first row) whose holder waits for each answer

VARIABLES
  sessions,  \* table sessions, by id
  account,   \* users.status by id, or "deleted" once the row is gone
  now,       \* the clock
  task,      \* what each worker is doing: its statement and local variables
  burned     \* history: families whose replay was detected and committed

vars == <<sessions, account, now, task, burned>>

(* models.Session.  The raw token, its hash and the row id name the same   *)
(* row, so the id stands for all three; a family is named by the row its   *)
(* login inserted.  revoked is "revoked_at is not None".                   *)
Row == [owner: Users, family: SessionIds, revoked: BOOLEAN,
        expires: Nat, next: SessionIds \cup {None}]

Statuses == {"active", "disabled"}

Steps == {"idle", "authed", "issue", "replay", "burn", "rotate", "flushed",
          "checked", "revoke", "delete", "status"}

Task == [pc: Steps, user: Users \cup {None}, tok: SessionIds \cup {None},
         fam: SessionIds \cup {None}, rows: SUBSET SessionIds,
         new: SessionIds \cup {None}, exp: Nat, st: Statuses]

ASSUME ConstantsOK ==
  /\ Fresh # Gone
  /\ Fresh \notin Row /\ Gone \notin Row
  /\ None \notin SessionIds /\ None \notin Users
  /\ Lifetime \in Nat \ {0} /\ MaxTime \in Nat
  /\ SerialFamilies \subseteq SessionIds

Idle == [pc |-> "idle", user |-> None, tok |-> None, fam |-> None,
         rows |-> {}, new |-> None, exp |-> 0, st |-> "active"]

TypeOK ==
  /\ sessions \in [SessionIds -> Row \cup {Fresh, Gone}]
  /\ account \in [Users -> Statuses \cup {"deleted"}]
  /\ now \in 0..MaxTime
  /\ task \in [Workers -> Task]
  /\ burned \subseteq SessionIds

Init ==
  /\ sessions = [s \in SessionIds |-> Fresh]
  /\ account = [u \in Users |-> "active"]
  /\ now = 0
  /\ task = [w \in Workers |-> Idle]
  /\ burned = {}

-----------------------------------------------------------------------------
(* The table as a committed-state query sees it.                           *)

Stored(s) == sessions[s] \notin {Fresh, Gone}

Live(s) == Stored(s) /\ ~sessions[s].revoked

RowsOf(u) == {s \in SessionIds : Stored(s) /\ sessions[s].owner = u}

FamilyRowsRootOnly(f) == {s \in SessionIds : Stored(s) /\ s = f}

FamilyRows(f) == {s \in SessionIds : Stored(s) /\ sessions[s].family = f}

Expired(s) == sessions[s].expires <= now

(* Row locks held by a rotation that has flushed and not yet committed: it *)
(* updated the presented row, and its insert share-locks the owner's row.  *)
Holding(w) == task[w].pc \in {"flushed", "checked"}

RowLocked(s) == \E w \in Workers : Holding(w) /\ task[w].tok = s

UserLocked(u) == \E w \in Workers : Holding(w) /\ task[w].user = u

(* uuid4 gives an id that no row and no other open transaction has.        *)
Unused(s) == sessions[s] = Fresh /\ \A w \in Workers : task[w].new # s

(* Bound: a request that will insert a row starts only while an id is left *)
(* for it, so that running out of SessionIds never leaves one unanswered.  *)
IdLeft ==
  Cardinality({w \in Workers :
                 task[w].pc \in {"issue", "rotate", "flushed", "checked"}})
    < Cardinality({s \in SessionIds : sessions[s] = Fresh})

(* A disciplined client starts nothing on a family while it still waits    *)
(* for an answer about it; the holders of the other logins do as they like.*)
MayStart(s) ==
  sessions[s].family \in SerialFamilies =>
    \A w \in Workers : task[w].fam # sessions[s].family

-----------------------------------------------------------------------------
(* Column values written.                                                  *)

InitialRow(s, u) ==
  [owner |-> u, family |-> s, revoked |-> FALSE,
   expires |-> now + Lifetime, next |-> None]

SuccessorRowNoOwner(t) ==
  [owner |-> None, family |-> t.fam, revoked |-> FALSE,
   expires |-> t.exp, next |-> None]

SuccessorRowNewFamily(t) ==
  [owner |-> t.user, family |-> t.new, revoked |-> FALSE,
   expires |-> t.exp, next |-> None]

SuccessorRow(t) ==
  [owner |-> t.user, family |-> t.fam, revoked |-> FALSE,
   expires |-> t.exp, next |-> None]

SupersededNotRevoked(r, n) == [r EXCEPT !.next = n]

SupersededUnlinked(r, n) == [r EXCEPT !.revoked = TRUE]

Superseded(r, n) == [r EXCEPT !.revoked = TRUE, !.next = n]

RevokedToggle(r) == [r EXCEPT !.revoked = ~r.revoked]

Revoked(r) == [r EXCEPT !.revoked = TRUE]

-----------------------------------------------------------------------------
(* Every request starts on an idle worker and ends with the worker idle:   *)
(* get_db closes the SQLAlchemy session, which rolls back what was not     *)
(* committed and frees its locks.                                          *)

Start(w, t) == task[w] = Idle /\ task' = [task EXCEPT ![w] = t]

Finish(w) == task' = [task EXCEPT ![w] = Idle]

(* POST /login, password right: SELECT the user, verify, then issue_initial*)
(* inserts the first row of a new family and the handler commits.          *)
LoginSelect(w, u) ==
  /\ account[u] = "active"
  /\ IdLeft
  /\ Start(w, [Idle EXCEPT !.pc = "issue", !.user = u])
  /\ UNCHANGED <<sessions, account, now, burned>>

LoginIssue(w, s) ==
  /\ task[w].pc = "issue"
  /\ account[task[w].user] # "deleted"
  /\ Unused(s)
  /\ sessions' = [sessions EXCEPT ![s] = InitialRow(s, task[w].user)]
  /\ Finish(w)
  /\ UNCHANGED <<account, now, burned>>

(* POST /refresh, rotate: SELECT the presented row.  Revoked means replay, *)
(* and is looked at before the expiry.                                     *)
RefreshReplay(w, s) ==
  /\ Stored(s) /\ sessions[s].revoked
  /\ MayStart(s)
  /\ Start(w, [Idle EXCEPT !.pc = "replay", !.tok = s,
                           !.fam = sessions[s].family])
  /\ UNCHANGED <<sessions, account, now, burned>>

RefreshLive(w, s) ==
  /\ Live(s) /\ ~Expired(s)
  /\ IdLeft
  /\ MayStart(s)
  /\ Start(w, [Idle EXCEPT !.pc = "rotate", !.tok = s,
                           !.fam = sessions[s].family,
                           !.user = sessions[s].owner])
  /\ UNCHANGED <<sessions, account, now, burned>>

(* _revoke_family: SELECT the family, then UPDATE the rows that were seen  *)
(* unrevoked; the refresh handler commits and counts the replay.           *)
BurnSelect(w) ==
  /\ task[w].pc = "replay"
  /\ task' = [task EXCEPT ![w].pc = "burn",
                          ![w].rows = {s \in FamilyRows(task[w].fam) : Live(s)}]
  /\ UNCHANGED <<sessions, account, now, burned>>

BurnCommit(w) ==
  /\ task[w].pc = "burn"
  /\ \A s \in task[w].rows : Stored(s) /\ ~RowLocked(s)
  /\ sessions' = [s \in SessionIds |->
                    IF s \in task[w].rows THEN Revoked(sessions[s])
                                          ELSE sessions[s]]
  /\ burned' = burned \cup {task[w].fam}
  /\ Finish(w)
  /\ UNCHANGED <<account, now>>

(* rotate: INSERT the successor, UPDATE the presented row.  Both stay      *)
(* invisible until the handler commits, but the locks are taken.           *)
RotateFlush(w, n) ==
  /\ task[w].pc = "rotate"
  /\ Stored(task[w].tok) /\ ~RowLocked(task[w].tok)
  /\ Unused(n)
  /\ task' = [task EXCEPT ![w].pc = "flushed", ![w].new = n,
                          ![w].exp = now + Lifetime]
  /\ UNCHANGED <<sessions, account, now, burned>>

(* refresh, after rotate: SELECT the owner; go on only if it is active.    *)
RefreshCheck(w) ==
  /\ task[w].pc = "flushed"
  /\ account[task[w].user] = "active"
  /\ task' = [task EXCEPT ![w].pc = "checked"]
  /\ UNCHANGED <<sessions, account, now, burned>>

RefreshRefuseHalfCommitted(w) ==
  /\ task[w].pc = "flushed"
  /\ account[task[w].user] # "active"
  /\ sessions' = [sessions EXCEPT ![task[w].tok] = Superseded(@, task[w].new)]
  /\ Finish(w)
  /\ UNCHANGED <<account, now, burned>>

RefreshRefuseLeftOpen(w) ==
  /\ task[w].pc = "flushed"
  /\ account[task[w].user] # "active"
  /\ UNCHANGED vars

RefreshRefuse(w) ==
  /\ task[w].pc = "flushed"
  /\ account[task[w].user] # "active"
  /\ Finish(w)
  /\ UNCHANGED <<sessions, account, now, burned>>

RefreshCommit(w) ==
  LET t == task[w] IN
  /\ t.pc = "checked"
  /\ sessions' = [sessions EXCEPT ![t.tok] = Superseded(@, t.new),
                                  ![t.new] = SuccessorRow(t)]
  /\ Finish(w)
  /\ UNCHANGED <<account, now, burned>>

(* POST /logout: SELECT by token hash; an unrevoked row is revoked.        *)
LogoutSelect(w, s) ==
  /\ Live(s)
  /\ MayStart(s)
  /\ Start(w, [Idle EXCEPT !.pc = "revoke", !.tok = s,
                           !.fam = sessions[s].family])
  /\ UNCHANGED <<sessions, account, now, burned>>

RevokeCommit(w) ==
  /\ task[w].pc = "revoke"
  /\ Stored(task[w].tok) /\ ~RowLocked(task[w].tok)
  /\ sessions' = [sessions EXCEPT ![task[w].tok] = Revoked(@)]
  /\ Finish(w)
  /\ UNCHANGED <<account, now, burned>>

(* get_current_user: a valid bearer token and an active account.           *)
Authenticate(w, u) ==
  /\ account[u] = "active"
  /\ Start(w, [Idle EXCEPT !.pc = "authed", !.user = u])
  /\ UNCHANGED <<sessions, account, now, burned>>

(* GET /me, GET /sessions, and the requests answered 404: nothing written. *)
AuthedReply(w) ==
  /\ task[w].pc = "authed"
  /\ Finish(w)
  /\ UNCHANGED <<sessions, account, now, burned>>

(* DELETE /sessions/{id}: SELECT by id, owner only, then revoke_session.   *)
RevokeOneSelect(w, s) ==
  /\ task[w].pc = "authed"
  /\ Live(s) /\ sessions[s].owner = task[w].user
  /\ MayStart(s)
  /\ task' = [task EXCEPT ![w].pc = "revoke", ![w].tok = s,
                          ![w].fam = sessions[s].family]
  /\ UNCHANGED <<sessions, account, now, burned>>

(* DELETE /me: db.delete loads the user's rows to cascade to, the commit   *)
(* deletes those rows and the user.  A row inserted in between fails the   *)
(* foreign key of sessions.user_id.                                        *)
DeleteSelect(w) ==
  /\ task[w].pc = "authed"
  /\ task' = [task EXCEPT ![w].pc = "delete", ![w].rows = RowsOf(task[w].user)]
  /\ UNCHANGED <<sessions, account, now, burned>>

ForeignKeyUnchecked(w) == TRUE

ForeignKeyHolds(w) == RowsOf(task[w].user) \subseteq task[w].rows

DeleteCommit(w) ==
  /\ task[w].pc = "delete"
  /\ ~UserLocked(task[w].user)
  /\ ForeignKeyHolds(w)
  /\ sessions' = [s \in SessionIds |->
                    IF s \in task[w].rows /\ Stored(s) THEN Gone ELSE sessions[s]]
  /\ account' = [account EXCEPT ![task[w].user] = "deleted"]
  /\ Finish(w)
  /\ UNCHANGED <<now, burned>>

(* PATCH /admin/users/{id}/status: SELECT the target; SQLAlchemy emits an  *)
(* UPDATE only if the value differs from the one loaded.                   *)
SetStatusSelect(w, u, st) ==
  /\ account[u] \notin {st, "deleted"}
  /\ Start(w, [Idle EXCEPT !.pc = "status", !.user = u, !.st = st])
  /\ UNCHANGED <<sessions, account, now, burned>>

SetStatusCommit(w) ==
  /\ task[w].pc = "status"
  /\ account[task[w].user] # "deleted"
  /\ account' = [account EXCEPT ![task[w].user] = task[w].st]
  /\ Finish(w)
  /\ UNCHANGED <<sessions, now, burned>>

(* An UPDATE of a row that is gone (StaleDataError) or a foreign key that  *)
(* does not hold (IntegrityError) is a 500: the transaction is undone.     *)
FlushError(w) ==
  /\ \/ task[w].pc \in {"issue", "status"} /\ account[task[w].user] = "deleted"
     \/ task[w].pc \in {"rotate", "revoke"} /\ ~Stored(task[w].tok)
     \/ task[w].pc = "burn" /\ \E s \in task[w].rows : ~Stored(s)
     \/ task[w].pc = "delete" /\ ~UserLocked(task[w].user) /\ ~ForeignKeyHolds(w)
  /\ Finish(w)
  /\ UNCHANGED <<sessions, account, now, burned>>

(* The connection drops, the worker dies or the database aborts the        *)
(* transaction as a deadlock victim, at any point before the commit.       *)
Disconnect(w) ==
  /\ task[w].pc # "idle"
  /\ Finish(w)
  /\ UNCHANGED <<sessions, account, now, burned>>

Tick ==
  /\ now < MaxTime
  /\ now' = now + 1
  /\ UNCHANGED <<sessions, account, task, burned>>

(* No request is in flight and the server waits for the next one: the only *)
(* place where it may rest.                                                *)
AwaitRequest ==
  /\ \A w \in Workers : task[w].pc = "idle"
  /\ UNCHANGED vars

-----------------------------------------------------------------------------
Arrive(w) ==
  \/ \E u \in Users : LoginSelect(w, u) \/ Authenticate(w, u)
  \/ \E s \in SessionIds :
       RefreshReplay(w, s) \/ RefreshLive(w, s) \/ LogoutSelect(w, s)
  \/ \E u \in Users, st \in Statuses : SetStatusSelect(w, u, st)

Proceed(w) ==
  \/ \E s \in SessionIds : LoginIssue(w, s)
  \/ BurnSelect(w)
  \/ BurnCommit(w)
  \/ \E n \in SessionIds : RotateFlush(w, n)
  \/ RefreshCheck(w)
  \/ RefreshRefuse(w)
  \/ RefreshCommit(w)
  \/ \E s \in SessionIds : RevokeOneSelect(w, s)
  \/ RevokeCommit(w)
  \/ AuthedReply(w)
  \/ DeleteSelect(w)
  \/ DeleteCommit(w)
  \/ SetStatusCommit(w)
  \/ FlushError(w)

Next ==
  \/ \E w \in Workers : Arrive(w) \/ Proceed(w) \/ Disconnect(w)
  \/ Tick
  \/ AwaitRequest

Spec == Init /\ [][Next]_vars

(* A started handler runs on: the thread is scheduled and the database     *)
(* answers its statements.  A statement that waits for a row lock gets it  *)
(* if the lock keeps being freed: PostgreSQL wakes the waiters of a row    *)
(* when its holder ends.  Nothing obliges a client to send a request.      *)
AcquireLock(w) ==
  \/ \E n \in SessionIds : RotateFlush(w, n)
  \/ BurnCommit(w)
  \/ RevokeCommit(w)
  \/ DeleteCommit(w)
  \/ FlushError(w)

Fairness ==
  \A w \in Workers : WF_vars(Proceed(w)) /\ SF_vars(AcquireLock(w))

FairSpec == Spec /\ Fairness

-----------------------------------------------------------------------------
(* The tokens of login f that a refresh accepts.                           *)
LiveOf(f) == {s \in SessionIds : Live(s) /\ sessions[s].family = f}

OneLive(f) == \A s, t \in LiveOf(f) : s = t

(* At most one token of a disciplined login is accepted at any time: a     *)
(* used or stolen copy cannot live on next to its successor                *)
(* (refresh_tokens.rotate), whatever the holders of the other logins do.   *)
OneLivePerFamily == \A f \in SerialFamilies : OneLive(f)

(* What the module docstring says of every login, also when two requests   *)
(* with the same token overlap.                                            *)
OneLiveAlways == \A f \in SessionIds : OneLive(f)

(* Once a replay has been answered, no token of that login is accepted     *)
(* ever again (_revoke_family, called before every later refresh).         *)
BurnedStaysDead == \A f \in SerialFamilies \cap burned : LiveOf(f) = {}

(* The rows of a login form one chain along replaced_by_session_id: every  *)
(* row but the first is the replacement of exactly one other row.          *)
FamiliesAreChains ==
  \A s \in SessionIds :
    /\ Stored(s)
    /\ sessions[s].family \in SerialFamilies
    /\ s # sessions[s].family
    => \E r \in SessionIds :
         /\ Stored(r) /\ sessions[r].next = s
         /\ \A q \in SessionIds : Stored(q) /\ sessions[q].next = s => q = r

(* A replaced row is revoked and its replacement is a committed row of the *)
(* same login and account: rotate is all or nothing, whatever overlaps it, *)
(* also when the account check refuses after the flush.                    *)
ChainsAreLinked ==
  \A s \in SessionIds :
    Stored(s) /\ sessions[s].next # None =>
      LET n == sessions[s].next IN
      /\ sessions[s].revoked
      /\ Stored(n)
      /\ sessions[n].family = sessions[s].family
      /\ sessions[n].owner = sessions[s].owner

(* No session outlives its account: a login, refresh or logout that was    *)
(* under way when DELETE /me committed brings nothing back.                *)
OwnersExist ==
  \A s \in SessionIds : Stored(s) => account[sessions[s].owner] # "deleted"

KeepsRevocations ==
  \A s \in SessionIds :
    /\ sessions[s] = Gone => sessions'[s] = Gone
    /\ Stored(s) /\ sessions'[s] # Gone =>
         /\ sessions'[s].owner = sessions[s].owner
         /\ sessions'[s].family = sessions[s].family
         /\ sessions[s].revoked => sessions'[s].revoked

(* Revocation and deletion are final, and a row never changes its login or *)
(* its account, although handlers write back what they read earlier.       *)
RevocationIsFinal == [][KeepsRevocations]_vars

(* Every request is answered: whoever holds a row commits or rolls back,   *)
(* so lock waits end.  Only a deletion may wait for ever, and only if      *)
(* refreshes of the same account overlap so that one of them always holds  *)
(* the share lock of its insert (such locks do not queue behind a DELETE). *)
RequestsFinish ==
  \A w \in Workers :
    /\ task[w].pc \notin {"idle", "delete"} ~> task[w].pc \in {"idle", "delete"}
    /\ \A u \in Users :
         task[w].pc = "delete" /\ task[w].user = u
           ~> (task[w].pc = "idle" \/ []UserLocked(u))

(* The promise of the scheme, seen through the committed rows of the       *)
(* disciplined logins; the other rows only use up identifiers.             *)
Families == INSTANCE TokenFamilies
  WITH live <- [f \in SessionIds |->
                  IF f \in SerialFamilies THEN LiveOf(f) ELSE {}],
       burned <- burned \cap SerialFamilies,
       used <- {s \in SessionIds : sessions[s] # Fresh}

(* For every login whose holder sends one request at a time, the handlers  *)
(* implement the atomic scheme, whatever other users, undisciplined logins,*)
(* administrators and account deletions do meanwhile.                      *)
ImplementsFamilies == Families!ASpec

-----------------------------------------------------------------------------
(* The inductive invariant behind the properties above.                    *)

(* Which local variables of a handler are set at which statement.          *)
LocalsSet ==
  \A w \in Workers :
    /\ task[w].pc \in {"authed", "issue", "rotate", "flushed", "checked",
                       "delete", "status"} => task[w].user \in Users
    /\ task[w].pc \in {"replay", "burn", "rotate", "flushed", "checked", "revoke"}
         <=> task[w].fam # None
    /\ task[w].fam # None => task[w].tok # None
    /\ task[w].new # None <=> Holding(w)

(* What a handler remembers of the rows it read is still so, or the row is *)
(* gone; a row on which it holds a lock cannot be gone.                    *)
ReadsStillHold ==
  \A w \in Workers :
    /\ task[w].fam # None =>
         /\ sessions[task[w].fam] # Fresh
         /\ sessions[task[w].tok] # Fresh
         /\ Stored(task[w].tok) => sessions[task[w].tok].family = task[w].fam
    /\ task[w].pc \in {"rotate", "flushed", "checked"} /\ Stored(task[w].tok) =>
         sessions[task[w].tok].owner = task[w].user
    /\ Holding(w) => Stored(task[w].tok)
    /\ \A s \in task[w].rows :
         /\ sessions[s] # Fresh
         /\ task[w].pc = "burn" /\ Stored(s) => sessions[s].family = task[w].fam
         /\ task[w].pc = "delete" /\ Stored(s) => sessions[s].owner = task[w].user

(* The id of an uncommitted row belongs to its transaction alone.          *)
NewIdsPrivate ==
  \A w \in Workers :
    task[w].new # None =>
      /\ sessions[task[w].new] = Fresh
      /\ \A v \in Workers : task[v].new = task[w].new => v = w

(* A family is named by an id that was handed out, and has one owner.      *)
FamiliesOwned ==
  \A s \in SessionIds :
    Stored(s) =>
      /\ sessions[sessions[s].family] # Fresh
      /\ \A t \in SessionIds :
           Stored(t) /\ sessions[t].family = sessions[s].family =>
             sessions[t].owner = sessions[s].owner

BaseInv ==
  /\ TypeOK
  /\ LocalsSet
  /\ ReadsStillHold
  /\ NewIdsPrivate
  /\ FamiliesOwned
  /\ OwnersExist
  /\ ChainsAreLinked

(* A handler is alone on the family of a disciplined login: the token it   *)
(* rotates stays live, and the rows it burns are all the live ones.        *)
AloneOnFamily ==
  \A w \in Workers :
    task[w].fam \in SerialFamilies =>
      /\ \A v \in Workers : task[v].fam = task[w].fam => v = w
      /\ task[w].pc \in {"rotate", "flushed", "checked"} /\ Stored(task[w].tok) =>
           Live(task[w].tok)
      /\ task[w].pc = "burn" => LiveOf(task[w].fam) \subseteq task[w].rows

BurnedKnown == \A f \in burned : sessions[f] # Fresh

SerialInv ==
  /\ BaseInv
  /\ AloneOnFamily
  /\ BurnedKnown
  /\ OneLivePerFamily
  /\ BurnedStaysDead
  /\ FamiliesAreChains
=============================================================================
