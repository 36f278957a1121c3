-------------------------- MODULE ServerResources --------------------------
(***************************************************************************)
(* What a request holds while it waits for something else: a thread of the *)
(* pool that runs plain def functions, a connection of SQLAlchemy's pool,  *)
(* and row locks of PostgreSQL.  A function get_current_user and the       *)
(* handler it guards each take a thread, and FastAPI takes one more to     *)
(* check what the handler returns; the connection that the first one       *)
(* checks out stays with the request's SQLAlchemy session until it commits *)
(* or get_db closes it.  Which rows exist, and what is read and written,   *)
(* is in RefreshTokens, Jobs and Accounts.                                 *)
(***************************************************************************)
EXTENDS Integers, FiniteSets

CONSTANTS
  MaxRequests,  \* bound: requests 1..MaxRequests arrive, in this order
  Threads,      \* threads of the pool
  PoolSize,     \* connections of the engine, pool_size and max_overflow
  Users,        \* rows of users
  Sessions,     \* rows of sessions
  Jobs,         \* rows of processing_jobs
  OwnerOf,      \* OwnerOf[c]: the account of a session or a job
  Rank,         \* primary-key order; rows of users come after the others
  Inputs        \* the operations that clients ask for

VARIABLES
  req  \* per request: statement, operation, rows to lock and rows locked

vars == <<req>>

Requests == 1..MaxRequests

Children == Sessions \cup Jobs

Rows == Children \cup Users

-----------------------------------------------------------------------------
(* The rows a handler locks, by operation.                                 *)

(* register: the INSERT of a user waits for another transaction that has   *)
(* inserted or deleted a row with the same address; u stands for it.       *)
Registrations == {[kind |-> "register", rows |-> {u}] : u \in Users}

(* login: UPDATE of the user, then the INSERT that refers to it.           *)
Logins == {[kind |-> "login", rows |-> {u}] : u \in Users}

(* rotate: the INSERT of the successor share-locks the user it refers to,  *)
(* then UPDATE of the presented row.                                       *)
Rotations == {[kind |-> "rotate", rows |-> {s, OwnerOf[s]}] : s \in Sessions}

(* _revoke_family: UPDATEs of the rows that were read.                     *)
Burns == {[kind |-> "burn", rows |-> R] : R \in SUBSET Sessions}

(* logout; revoke_one and delete_job: UPDATE of one row.                   *)
Revocations == {[kind |-> "logout", rows |-> {s}] : s \in Sessions}
Hidings == {[kind |-> "hide", rows |-> {c}] : c \in Children}

(* embed, extract, verify: an INSERT that refers to the user.              *)
Insertions == {[kind |-> "insert", rows |-> {u}] : u \in Users}

(* set_status: UPDATE of the user.                                         *)
StatusChanges == {[kind |-> "status", rows |-> {u}] : u \in Users}

(* delete_me: DELETE of the rows that were loaded, then of the user.       *)
Deletions ==
  UNION {{[kind |-> "delete", rows |-> R \cup {u}] :
            R \in SUBSET {c \in Children : OwnerOf[c] = u}} : u \in Users}

(* me and the lists: no lock.                                              *)
Reads == {[kind |-> "read", rows |-> {}]}

Operations ==
  Registrations \cup Logins \cup Rotations \cup Burns \cup Revocations
    \cup Hidings \cup Insertions \cup StatusChanges \cup Deletions \cup Reads

Kinds == {"register", "login", "rotate", "burn", "logout", "hide", "insert",
          "status", "delete", "read"}

(* Operations behind Depends(get_current_user).                            *)
Guarded == {"hide", "insert", "status", "delete", "read"}

(* Operations whose handler returns a value that FastAPI checks against a  *)
(* response model or a return annotation, and those that return nothing, a *)
(* Response or an error.  A login is of the first if it is accepted; of    *)
(* the insertions verify is of the first, embed and extract of the second. *)
Modelled == {"register", "login", "rotate", "insert", "status", "read"}
Plain == {"login", "burn", "logout", "hide", "insert", "delete"}

ASSUME ResourceConstants ==
  /\ MaxRequests \in Nat /\ Threads \in Nat \ {0} /\ PoolSize \in Nat \ {0}
  /\ Users \cap Children = {}
  /\ OwnerOf \in [Children -> Users]
  /\ Rank \in [Rows -> Nat]
  /\ \A x, y \in Rows : Rank[x] = Rank[y] => x = y
  /\ \A c \in Children, u \in Users : Rank[c] < Rank[u]
  /\ Inputs \subseteq Operations

Steps == {"new", "arrived", "auth", "ready", "connect", "run", "flushed",
          "return", "respond", "validate", "close", "done"}

Request == [pc: Steps, kind: Kinds, todo: SUBSET Rows, held: SUBSET Rows,
            conn: BOOLEAN]

Nothing == [pc |-> "new", kind |-> "read", todo |-> {}, held |-> {},
            conn |-> FALSE]

Init ==
  req = [r \in Requests |-> Nothing]

-----------------------------------------------------------------------------
OnThread == {"auth", "connect", "run", "flushed", "return", "validate"}

HasThread(r) == req[r].pc \in OnThread

HasConnection(r) == req[r].conn

ThreadFree == Cardinality({r \in Requests : HasThread(r)}) < Threads

ConnectionLeft == Cardinality({r \in Requests : HasConnection(r)}) <= PoolSize

ConnectionFree == Cardinality({r \in Requests : HasConnection(r)}) < PoolSize

BurnUnsorted(k, x, y) ==
  IF k = "rotate" /\ {x, y} \cap Users # {} THEN x \in Users
  ELSE IF k = "burn" THEN Rank[y] <= Rank[x]
  ELSE Rank[x] <= Rank[y]

(* The INSERT comes before the UPDATE in rotate; the unit of work sorts    *)
(* everything else by table and primary key.                               *)
Before(k, x, y) ==
  IF k = "rotate" /\ {x, y} \cap Users # {} THEN x \in Users
  ELSE Rank[x] <= Rank[y]

(* The rows the next statement may lock: one, as the order is total.       *)
NextRows(r) ==
  {x \in req[r].todo : \A y \in req[r].todo : Before(req[r].kind, x, y)}

(* The rows that DELETE FROM users looks for when it has deleted the row:  *)
(* the foreign keys' NO ACTION check locks what still refers to the user,  *)
(* which the handler had not loaded.                                       *)
Referring(r) ==
  IF req[r].kind = "delete" /\ req[r].todo = {}
    THEN {c \in Children : OwnerOf[c] \in req[r].held} \ req[r].held
    ELSE {}

(* FOR KEY SHARE of a row referred to, FOR NO KEY UPDATE, FOR UPDATE, and  *)
(* the wait for a transaction that inserts or deletes the same key.        *)
Mode(k, x) ==
  CASE k = "delete" -> "delete"
    [] k = "register" -> "insert"
    [] k \in {"rotate", "insert"} /\ x \in Users -> "share"
    [] OTHER -> "update"

Conflict(m, n) ==
  \/ "delete" \in {m, n}
  \/ m = n /\ m \in {"update", "insert"}

(* A row that is not to be locked but looked for is looked for in share    *)
(* mode.                                                                   *)
Blocks(v, r, x) ==
  /\ v # r
  /\ x \in req[v].held
  /\ Conflict(Mode(req[v].kind, x),
              IF x \in req[r].todo THEN Mode(req[r].kind, x) ELSE "share")

Running == {r \in Requests : req[r].pc = "run"}

WaitsFor(r, v) ==
  /\ r \in Running
  /\ \E x \in NextRows(r) \cup Referring(r) : Blocks(v, r, x)

(* Transactions each of which waits for another one of them.               *)
Deadlocked(S) == S # {} /\ \A r \in S : \E v \in S : WaitsFor(r, v)

TypeOK ==
  /\ req \in [Requests -> Request]
  /\ Cardinality({r \in Requests : HasThread(r)}) <= Threads
  /\ Cardinality({r \in Requests : HasConnection(r)}) <= PoolSize

Go(r, pc) == req' = [req EXCEPT ![r].pc = pc]

(* Answered: nothing is held, and what was asked for does not matter.      *)
Finish(r) == req' = [req EXCEPT ![r] = [Nothing EXCEPT !.pc = "done"]]

-----------------------------------------------------------------------------
Arrive(r, op) ==
  /\ req[r].pc = "new"
  /\ \A v \in 1..(r - 1) : req[v].pc # "new"
  /\ req' = [req EXCEPT ![r].pc = "arrived", ![r].kind = op.kind,
                        ![r].todo = op.rows]

(* run_in_threadpool of the first function of the request.                 *)
TakeThread(r) ==
  /\ req[r].pc = "arrived"
  /\ ThreadFree
  /\ Go(r, IF req[r].kind \in Guarded THEN "auth" ELSE "connect")

(* get_current_user: db.get checks a connection out, the function returns  *)
(* and frees its thread; the connection stays with the session.  (get_db   *)
(* before and require_admin_user after it use a thread and wait for        *)
(* nothing.)                                                               *)
Authenticate(r) ==
  /\ req[r].pc = "auth"
  /\ ConnectionFree
  /\ req' = [req EXCEPT ![r].pc = "ready", ![r].conn = TRUE]

(* The handler runs on a thread of its own, and so does the check of what  *)
(* it returns (run_in_threadpool of the response field).                   *)
TakeThreadAgain(r) ==
  /\ req[r].pc \in {"ready", "respond"}
  /\ ThreadFree
  /\ Go(r, IF req[r].pc = "ready" THEN "run" ELSE "validate")

(* The first statement of register, login, refresh or logout.              *)
Connect(r) ==
  /\ req[r].pc = "connect"
  /\ ConnectionFree
  /\ req' = [req EXCEPT ![r].pc = "run", ![r].conn = TRUE]

(* QueuePool gives up after pool_timeout: an error that nothing catches.   *)
PoolTimeout(r) ==
  /\ req[r].pc \in {"auth", "connect"}
  /\ ~ConnectionFree
  /\ Finish(r)

(* The next statement that writes gets its row lock.                       *)
Lock(r, x) ==
  /\ req[r].pc = "run"
  /\ x \in NextRows(r)
  /\ \A v \in Requests : ~Blocks(v, r, x)
  /\ req' = [req EXCEPT ![r].todo = @ \ {x}, ![r].held = @ \cup {x}]

(* A deletion has deleted all its rows and finds that nothing refers to    *)
(* the user any more.  (If something still does, it is refused: Fail.)     *)
LookForReferring(r) ==
  /\ req[r].pc = "run" /\ req[r].kind = "delete" /\ req[r].todo = {}
  /\ \A c \in Referring(r), v \in Requests : ~Blocks(v, r, c)
  /\ Go(r, "flushed")

(* All that is to be written is.                                           *)
Flushed(r) ==
  \/ req[r].pc = "flushed"
  \/ /\ req[r].pc = "run" /\ req[r].kind \notin {"read", "delete"}
     /\ req[r].todo = {}

(* commit frees the locks and gives the connection back; with              *)
(* expire_on_commit=False the handler builds its answer without a query.   *)
Commit(r) ==
  /\ Flushed(r)
  /\ req' = [req EXCEPT ![r].pc = "return", ![r].held = {}, ![r].conn = FALSE]

(* The handler returns and frees its thread: after its commit, or, if it   *)
(* only reads, with its connection; then its value is to be checked.       *)
Return(r) ==
  /\ \/ req[r].pc = "return"
     \/ req[r].pc = "run" /\ req[r].kind = "read"
  /\ req[r].kind \in Modelled
  /\ Go(r, "respond")

(* Nothing to check: get_db closes a session that has no connection.       *)
ReturnPlain(r) ==
  /\ req[r].pc = "return" /\ req[r].kind \in Plain
  /\ Finish(r)

Validate(r) ==
  /\ req[r].pc = "validate"
  /\ Go(r, "close")

(* A refusal, an error of the database, a lost connection: the exception   *)
(* leaves the handler, whose locks are still held.                         *)
Fail(r) ==
  /\ req[r].pc \in {"ready", "run", "flushed"}
  /\ Go(r, "close")

(* PostgreSQL finds a cycle and ends one of the transactions in it.        *)
DeadlockVictim(r) ==
  /\ \E S \in SUBSET Running : r \in S /\ Deadlocked(S)
  /\ req' = [req EXCEPT ![r].pc = "close", ![r].held = {}]

CloseWithoutRollback(r) == req[r].pc = "close" /\ Go(r, "done")

(* get_db's finally: rolls back, gives the connection back.  FastAPI runs  *)
(* it outside the limit on threads.                                        *)
Close(r) ==
  /\ req[r].pc = "close"
  /\ Finish(r)

Proceed(r) ==
  \/ TakeThread(r) \/ Authenticate(r) \/ TakeThreadAgain(r) \/ Connect(r)
  \/ PoolTimeout(r)
  \/ \E x \in Rows : Lock(r, x)
  \/ LookForReferring(r) \/ Commit(r) \/ Return(r) \/ ReturnPlain(r) \/ Validate(r)
  \/ DeadlockVictim(r)
  \/ Close(r)

AllDone == (\A r \in Requests : req[r].pc = "done") /\ UNCHANGED vars

Next ==
  \/ \E r \in Requests :
       \/ \E op \in Inputs : Arrive(r, op)
       \/ Proceed(r)
       \/ Fail(r)
  \/ AllDone

Spec == Init /\ [][Next]_vars

(* While some request can go on, one does: the handlers run, a thread or a *)
(* connection that is free goes to a request that waits, a wait for a      *)
(* connection times out, the database finds its deadlocks.                 *)
FairSpec == Spec /\ WF_vars(\E r \in Requests : Proceed(r))

-----------------------------------------------------------------------------
(* Deletion d waits for the user row that rotation r has share-locked.     *)
MeetsRotation(d, r) ==
  /\ req[d].kind = "delete" /\ req[r].kind = "rotate"
  /\ req[d].todo \cap req[r].held \cap Users # {}

(* Deletion d has deleted the user and looks for rows that refer to it; it *)
(* waits for one that it had not loaded and deletion e has deleted, and e  *)
(* has that user still to delete.                                          *)
MeetsDeletion(d, e) ==
  /\ req[d].kind = "delete" /\ req[e].kind = "delete"
  /\ Referring(d) \cap req[e].held # {}
  /\ req[e].todo \cap req[d].held \cap Users # {}

(* Row locks are waited for in a circle only if an account is deleted      *)
(* while one of its refresh tokens is rotated (rotate locks the user first *)
(* and the session then, delete_me the other way round), or if it is       *)
(* deleted by two requests at once that loaded different rows.  All other  *)
(* handlers, however many, lock what they lock in one order (the sorted    *)
(* flushes of refresh_tokens.py:132-139 and auth.py:173).                  *)
CyclesNeedDeletion ==
  \A S \in SUBSET Running :
    Deadlocked(S) =>
      \E d, r \in S : MeetsRotation(d, r) \/ MeetsDeletion(d, r)

InFlight(r) == req[r].pc \notin {"new", "done"}

(* Every request is answered, although requests that hold connections wait *)
(* for threads, requests that hold threads wait for connections, and both  *)
(* wait for row locks: as the requests are finitely many, there is always  *)
(* a later moment with none in flight.                                     *)
AllAnswered == []<>(\A r \in Requests : ~InFlight(r))

(* What Proceed(r) waits for, statement by statement.                      *)
CanProceed(r) ==
  \/ req[r].pc \in {"arrived", "ready", "respond"} /\ ThreadFree
  \/ req[r].pc \in {"auth", "connect", "flushed", "return", "validate", "close"}
  \/ /\ req[r].pc = "run"
     /\ \/ req[r].kind = "read"
        \/ \E x \in NextRows(r) : \A v \in Requests : ~Blocks(v, r, x)
        \/ /\ req[r].todo = {}
           /\ \A c \in Referring(r), v \in Requests : ~Blocks(v, r, c)
  \/ \E S \in SUBSET Running : r \in S /\ Deadlocked(S)

(* While requests are in flight, one of them can go on, without waiting    *)
(* for a new one or for a failure: threads, connections and row locks are  *)
(* never all held by requests that wait for each other but for a wait that *)
(* the pool or the database ends (session.py:26, QueuePool's timeout).     *)
NoStandstill ==
  (\E r \in Requests : InFlight(r)) => \E r \in Requests : CanProceed(r)

-----------------------------------------------------------------------------
(* Inductive invariant.                                                    *)

(* Of a request in state q: what it has locked comes before what it still  *)
(* has to lock; it holds no locks outside its handler's transaction and no *)
(* connection before its first statement; a read locks nothing, and with   *)
(* the rows of an account a deletion locks the account.                    *)
Fits(q) ==
  /\ \A x \in q.held, y \in q.todo : x # y /\ Before(q.kind, x, y)
  /\ q.pc \notin {"run", "flushed", "close"} => q.held = {}
  /\ q.pc \in {"new", "arrived", "auth", "connect", "done"} => ~q.conn
  /\ q.kind = "read" => q.held = {} /\ q.todo = {}
  /\ q.kind = "delete" =>
       \A c \in (q.held \cup q.todo) \cap Children :
         OwnerOf[c] \in q.held \cup q.todo

(* A row that a deletion has locked is locked by nobody else.              *)
DeletedAlone ==
  \A d, v \in Requests :
    req[d].kind = "delete" /\ d # v => req[d].held \cap req[v].held = {}

ResourcesInv == TypeOK /\ DeletedAlone /\ \A r \in Requests : Fits(req[r])
=============================================================================
