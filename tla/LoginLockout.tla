---------------------------- MODULE LoginLockout ----------------------------
(***************************************************************************)
(* The failed-login counter and the lock of one account: POST /login of    *)
(* app/api/v1/auth.py, run by several worker threads at once.  A login     *)
(* SELECTs the user, spends a long time on Argon2 and then writes back     *)
(* what it computed from the row it read: the counter is incremented in    *)
(* Python, and SQLAlchemy's UPDATE names only the columns whose value      *)
(* differs from the one loaded.  The end of a lock is computed before the  *)
(* UPDATE that stores it, so two failures may commit in the opposite order *)
(* of their clock readings.  Accounts share nothing, so one is enough.     *)
(* What a successful login does next (issue_initial) is in RefreshTokens.  *)
(***************************************************************************)
EXTENDS Integers

CONSTANTS
  Workers,      \* threads of the server that run the handler
  MaxFailed,    \* settings.max_failed_logins
  LockTime,     \* settings.lockout_minutes, in ticks of the clock
  None,         \* SQL NULL
  MaxTime,      \* bound on the clock
  MaxAttempts   \* bound on the logins that are started

VARIABLES
  row,        \* the account: failed_login_count, locked_until, status
  now,        \* the clock
  task,       \* per worker: idle, or the row it read, the verdict, the clock
  started,    \* logins started, for the bound
  wrong,      \* history: failures answered since the last accepted login
  since,      \* history: failures since one was accepted alone
  lastWrong,  \* history: the clock reading of the last failure committed
  crowded,    \* history: workers whose login another one has overlapped
  overlapped, \* history: two logins have overlapped since one was accepted alone
  racing      \* history: workers that were busy when the lock in the row was set

vars ==
  <<row, now, task, started, wrong, since, lastWrong, crowded, overlapped, racing>>

ASSUME LockoutConstants ==
  /\ MaxFailed \in Nat \ {0}
  /\ LockTime \in Nat \ {0}
  /\ MaxTime \in Nat
  /\ MaxAttempts \in Nat
  /\ None \notin Nat

(* models.User, the columns login reads and writes.                        *)
Account == [count: Nat, lock: Nat \cup {None}, status: {"active", "disabled"}]

Task == [pc: {"idle", "verify", "record"}, seen: Account, ok: BOOLEAN, at: Nat]

NewAccount == [count |-> 0, lock |-> None, status |-> "active"]

Idle == [pc |-> "idle", seen |-> NewAccount, ok |-> FALSE, at |-> 0]

TypeOK ==
  /\ row \in Account
  /\ now \in 0..MaxTime
  /\ task \in [Workers -> Task]
  /\ started \in 0..MaxAttempts
  /\ wrong \in Nat /\ since \in Nat /\ lastWrong \in Nat
  /\ crowded \subseteq Workers /\ racing \subseteq Workers
  /\ overlapped \in BOOLEAN

Init ==
  /\ row = NewAccount
  /\ now = 0
  /\ task = [w \in Workers |-> Idle]
  /\ started = 0
  /\ wrong = 0 /\ since = 0 /\ lastWrong = 0
  /\ crowded = {} /\ racing = {}
  /\ overlapped = FALSE

(* user.locked_until and _aware(user.locked_until) > _now()                *)
Locked(r) == r.lock # None /\ r.lock > now

Busy == {w \in Workers : task[w].pc # "idle"}

LockDueLate(count) == count > MaxFailed

LockDue(count) == count >= MaxFailed

-----------------------------------------------------------------------------
(* Argon2 checks what was sent against the row as it is now; a right       *)
(* password counts only if the account is active.                          *)
Begin(w, right) ==
  /\ started < MaxAttempts
  /\ w \notin Busy
  /\ task' = [task EXCEPT ![w] = [pc |-> "verify", seen |-> row, at |-> 0,
                                  ok |-> right /\ row.status = "active"]]
  /\ started' = started + 1
  /\ overlapped' = (overlapped \/ Busy # {})
  /\ crowded' = IF Busy # {} THEN Busy \cup {w} ELSE {}
  /\ UNCHANGED <<row, now, wrong, since, lastWrong, racing>>

LoginSelectWhileLocked(w, right) == Begin(w, right)

(* SELECT the user; an account that is locked is refused at once, which    *)
(* changes nothing.                                                        *)
LoginSelect(w, right) == ~Locked(row) /\ Begin(w, right)

(* The login of worker w is over.                                          *)
Leave(w) ==
  /\ task' = [task EXCEPT ![w] = Idle]
  /\ crowded' = crowded \ {w}

(* Wrong: the new count and the end of a lock are computed, with the clock *)
(* as it is now, from the row that was read.                               *)
LoginFail(w) ==
  /\ task[w].pc = "verify" /\ ~task[w].ok
  /\ task' = [task EXCEPT ![w] = [pc |-> "record", seen |-> task[w].seen,
                                  ok |-> FALSE, at |-> now]]
  /\ UNCHANGED <<row, now, started, wrong, since, lastWrong, crowded, overlapped,
                 racing>>

(* UPDATE and commit what was computed: the count, and a lock if it is due.*)
FailCommit(w) ==
  LET count == task[w].seen.count + 1
      at == task[w].at IN
  /\ task[w].pc = "record"
  /\ row' = [row EXCEPT !.count = count,
                        !.lock = IF LockDue(count) THEN at + LockTime ELSE @]
  /\ racing' = (IF LockDue(count) THEN Busy ELSE racing) \ {w}
  /\ wrong' = wrong + 1
  /\ since' = since + 1
  /\ lastWrong' = at
  /\ Leave(w)
  /\ UNCHANGED <<now, started, overlapped>>

ResetToNull(seen) == [row EXCEPT !.count = None, !.lock = None]

ResetAlways(seen) == [row EXCEPT !.count = 0, !.lock = None]

ResetForgetsCount(seen) ==
  [row EXCEPT !.lock = IF seen.lock # None THEN None ELSE @]

(* The UPDATE of an accepted login: a column already at its reset value    *)
(* when it was read is not written.                                        *)
Reset(seen) ==
  [row EXCEPT !.count = IF seen.count # 0 THEN 0 ELSE @,
              !.lock = IF seen.lock # None THEN None ELSE @]

LoginSucceed(w) ==
  /\ task[w].pc = "verify" /\ task[w].ok
  /\ row' = Reset(task[w].seen)
  /\ wrong' = 0
  /\ since' = IF w \in crowded THEN since ELSE 0
  /\ Leave(w)
  /\ overlapped' = (overlapped /\ w \in crowded)
  /\ racing' = racing \ {w}
  /\ UNCHANGED <<now, started, lastWrong>>

(* The request dies before its commit.                                     *)
Disconnect(w) ==
  /\ w \in Busy
  /\ Leave(w)
  /\ racing' = racing \ {w}
  /\ UNCHANGED <<row, now, started, wrong, since, lastWrong, overlapped>>

(* An administrator disables or enables the account.                       *)
SetStatus(st) ==
  /\ row.status # st
  /\ row' = [row EXCEPT !.status = st]
  /\ UNCHANGED <<now, task, started, wrong, since, lastWrong, crowded, overlapped,
                 racing>>

Tick ==
  /\ now < MaxTime
  /\ now' = now + 1
  /\ UNCHANGED <<row, task, started, wrong, since, lastWrong, crowded, overlapped,
                 racing>>

Next ==
  \/ \E w \in Workers :
       \/ \E right \in BOOLEAN : LoginSelect(w, right)
       \/ LoginFail(w)
       \/ FailCommit(w)
       \/ LoginSucceed(w)
       \/ Disconnect(w)
  \/ \E st \in {"active", "disabled"} : SetStatus(st)
  \/ Tick

Spec == Init /\ [][Next]_vars

-----------------------------------------------------------------------------
(* An account is locked only after MaxFailed wrong answers since the last  *)
(* login accepted with no other beside it, however many logins overlapped  *)
(* before and since (auth.login counts up from a value it read, and a      *)
(* stale count must not come back after a reset that nothing raced with).  *)
NoPrematureLock == row.lock # None => since >= MaxFailed

(* Until two logins of the account overlap, and again from a login that is *)
(* accepted with no other beside it, the counter is the number of failures *)
(* since the last accepted login: the UPDATE of login, which leaves out    *)
(* the columns that were already reset, loses and forgets none.            *)
CountIsExact == ~overlapped => row.count = wrong

(* As long, the MaxFailed-th failure in a row and every later one set the  *)
(* lock, to run for LockTime from the last, and with fewer failures since  *)
(* the last accepted login there is none (the account lockout policy of    *)
(* auth.login, and its counter that accepted logins reset).                *)
LockedAfterMax ==
  ~overlapped =>
    row.lock = IF wrong >= MaxFailed THEN lastWrong + LockTime ELSE None

(* As long, a lock that is still running is not shortened or lifted: not   *)
(* by a right password, not by an administrator who enables the account    *)
(* again (auth.login, admin.set_status).                                   *)
KeepsLock ==
  ~overlapped /\ Locked(row) => row'.lock # None /\ row'.lock >= row.lock

LockRunsItsTime == [][KeepsLock]_vars

(* Worker w, with a right password, lifts the lock: it had read an earlier *)
(* lock of the account, which had run out.                                 *)
LiftedLate(w) ==
  /\ task[w].pc = "verify" /\ task[w].ok
  /\ task[w].seen.lock # None /\ task[w].seen.lock <= now
  /\ row'.lock = None

(* Worker w stores a lock whose end it computed at an earlier time than    *)
(* the failure that set the lock in the row.                               *)
StoredLate(w) ==
  /\ task[w].pc = "record"
  /\ task[w].seen.count + 1 >= MaxFailed
  /\ row'.lock = task[w].at + LockTime

EndsLock ==
  Locked(row) =>
    \/ row'.lock # None /\ row'.lock >= row.lock
    \/ \E w \in racing : LiftedLate(w) \/ StoredLate(w)

(* However logins overlap, a running lock is shortened or lifted only by a *)
(* login that was past the lock check before the lock was set, and by it   *)
(* in two ways only: a right password that was checked while an earlier    *)
(* lock, run out by then, was still in the row lifts it (the UPDATE leaves *)
(* out a locked_until that was NULL when it was read, auth.py:114), and a  *)
(* failure that is due and read the clock before the one that set the lock *)
(* shortens it by committing after it (auth.py:108-109).                   *)
LockOutlivesReads == [][EndsLock]_vars

(* What the documentation says of every history: after MaxFailed failures  *)
(* in a row locked_until is set (docs/PHASE2-STATUS.md:21).                *)
LockSetAtMax == wrong >= MaxFailed => row.lock # None

-----------------------------------------------------------------------------
(* Inductive invariants: for all histories, and for logins on their own.   *)

CountsBacked ==
  /\ row.count <= since
  /\ \A w \in Busy : task[w].seen.count <= since

(* A lock that a login has read has run out, none is set for longer than   *)
(* LockTime, and whoever is busy while one runs was there when it was set. *)
LocksTimely ==
  /\ row.lock # None => row.lock <= now + LockTime
  /\ \A w \in Busy :
       /\ task[w].at <= now
       /\ task[w].seen.lock # None => task[w].seen.lock <= now
  /\ Locked(row) => Busy \subseteq racing

(* Nobody has logged in beside the login that worker w is busy with.       *)
Lone(w) == w \in Busy /\ w \notin crowded

OneBusy ==
  /\ crowded \subseteq Busy
  /\ crowded # {} => overlapped
  /\ \A w \in Busy : Lone(w) => Busy = {w}

ReadIsCurrent ==
  \A w \in Workers :
    Lone(w) =>
      /\ task[w].seen.count = row.count
      /\ task[w].seen.lock = row.lock
      /\ ~Locked(row)

SerialInv ==
  TypeOK /\ OneBusy /\ ReadIsCurrent /\ CountIsExact /\ LockedAfterMax

OverlapInv ==
  /\ TypeOK /\ OneBusy /\ ReadIsCurrent
  /\ CountsBacked /\ NoPrematureLock /\ LocksTimely
=============================================================================
