----------------------- MODULE ServerResourcesProofs ------------------------
(***************************************************************************)
(* Proofs about ServerResources, for any number of requests, threads and   *)
(* connections and any rows.  ResourcesInv is inductive; that deadlocks    *)
(* need a deletion follows from it by looking at a deletion that checks    *)
(* what refers to its user, or else at the request that waits for the row  *)
(* of the highest rank.                                                    *)
(***************************************************************************)
EXTENDS ServerResources, FiniteSetTheorems, WellFoundedInduction, TLAPS

(* A finite set that is not empty has a member where f is largest.         *)
LEMMA Highest ==
  ASSUME NEW S, IsFiniteSet(S), S # {}, NEW f, \A r \in S : f[r] \in Nat
  PROVE  \E r \in S : \A v \in S : f[v] <= f[r]
<1> DEFINE Above(r) == {v \in S : f[r] < f[v]}
           T == {Above(r) : r \in S}
<1>1. T \subseteq FiniteSubsetsOf(S) /\ T # {}
  <2>1. FiniteSubsetsOf(S) = SUBSET S
    BY FS_FiniteSubsetsOfFinite
  <2>2. \A r \in S : Above(r) \in SUBSET S
    OBVIOUS
  <2>3. T \subseteq SUBSET S
    BY <2>2
  <2>4. T # {}
    OBVIOUS
  <2> HIDE DEF T
  <2> QED
    BY <2>1, <2>3, <2>4
<1>2. PICK A \in T : \A B \in T : <<B, A>> \notin StrictSubsetOrdering(S)
  BY <1>1, WFMin, FS_StrictSubsetOrderingWellFounded
<1>3. PICK r \in S : A = Above(r)
  OBVIOUS
<1>4. SUFFICES ASSUME NEW v \in S, ~(f[v] <= f[r])
               PROVE  FALSE
  OBVIOUS
<1>5. f[r] < f[v]
  BY <1>4
<1>6. Above(v) \subseteq A
  BY <1>3, <1>5
<1>7. v \in A /\ v \notin Above(v)
  BY <1>3, <1>5
<1>8. <<Above(v), A>> \in StrictSubsetOrdering(S)
  BY <1>3, <1>6, <1>7 DEF StrictSubsetOrdering
<1> QED
  BY <1>2, <1>8

(* Any set of requests is finite.                                          *)
LEMMA RequestsFinite ==
  ASSUME NEW S \in SUBSET Requests
  PROVE  IsFiniteSet(S) /\ Cardinality(S) \in Nat
<1>1. IsFiniteSet(Requests)
  BY ResourceConstants, FS_Interval DEF Requests
<1>2. IsFiniteSet(S)
  BY <1>1, FS_Subset
<1> QED
  BY <1>2, FS_CardinalityType

(* A set of requests that grows by at most one while there is room.        *)
LEMMA OneMore ==
  ASSUME NEW S \in SUBSET Requests, NEW T \in SUBSET Requests,
         NEW r \in Requests, NEW n \in Nat,
         T \subseteq S \/ (T \subseteq S \cup {r} /\ Cardinality(S) < n),
         Cardinality(S) <= n
  PROVE  Cardinality(T) <= n
<1>1. IsFiniteSet(S) /\ Cardinality(S) \in Nat /\ Cardinality(T) \in Nat
  BY RequestsFinite
<1>2. CASE T \subseteq S
  BY <1>1, <1>2, FS_Subset
<1>3. CASE T \subseteq S \cup {r} /\ Cardinality(S) < n
  <2>1. IsFiniteSet(S \cup {r}) /\ Cardinality(S \cup {r}) <= n
    <3>1. /\ IsFiniteSet(S \cup {r})
          /\ \/ Cardinality(S \cup {r}) = Cardinality(S)
             \/ Cardinality(S \cup {r}) = Cardinality(S) + 1
      BY <1>1, FS_AddElement
    <3> QED
      BY <1>1, <1>3, <3>1
  <2>2. Cardinality(T) <= Cardinality(S \cup {r})
    BY <1>3, <2>1, FS_Subset
  <2>3. Cardinality(S \cup {r}) \in Nat
    BY <2>1, FS_CardinalityType
  <2> QED
    BY <1>1, <2>1, <2>2, <2>3
<1> QED
  BY <1>2, <1>3

(* Moving one request to a state that fits, with a thread or a connection  *)
(* only if it had one or one is free, and with locks only that it had or   *)
(* that no deletion is concerned with, keeps the invariant.                *)
LEMMA RequestStep ==
  ASSUME ResourcesInv, NEW r \in Requests, NEW q \in Request, Fits(q),
         req' = [req EXCEPT ![r] = q],
         q.pc \in OnThread => HasThread(r) \/ ThreadFree,
         q.conn => HasConnection(r) \/ ConnectionFree,
         \/ q.held = {}
         \/ q.kind = req[r].kind /\ q.held = req[r].held
         \/ \A v \in Requests :
              v # r /\ "delete" \in {q.kind, req[v].kind} =>
                q.held \cap req[v].held = {}
  PROVE  ResourcesInv'
<1> USE ResourceConstants
<1>1. /\ req' \in [Requests -> Request]
      /\ \A v \in Requests : req'[v] = IF v = r THEN q ELSE req[v]
  BY DEF ResourcesInv, TypeOK
<1>2. Cardinality({v \in Requests : HasThread(v)'}) <= Threads
  <2> DEFINE S == {v \in Requests : HasThread(v)}
             T == {v \in Requests : HasThread(v)'}
  <2>1. T \subseteq S \/ (T \subseteq S \cup {r} /\ Cardinality(S) < Threads)
    BY <1>1 DEF HasThread, ThreadFree
  <2>2. Cardinality(S) <= Threads
    BY DEF ResourcesInv, TypeOK
  <2> HIDE DEF S, T
  <2>3. S \in SUBSET Requests /\ T \in SUBSET Requests
    BY DEF S, T
  <2>4. Cardinality(T) <= Threads
    BY <2>1, <2>2, <2>3, OneMore
  <2> QED
    BY <2>4 DEF T
<1>3. Cardinality({v \in Requests : HasConnection(v)'}) <= PoolSize
  <2> DEFINE S == {v \in Requests : HasConnection(v)}
             T == {v \in Requests : HasConnection(v)'}
  <2>1. T \subseteq S \/ (T \subseteq S \cup {r} /\ Cardinality(S) < PoolSize)
    BY <1>1 DEF HasConnection, ConnectionFree
  <2>2. Cardinality(S) <= PoolSize
    BY DEF ResourcesInv, TypeOK
  <2> HIDE DEF S, T
  <2>3. S \in SUBSET Requests /\ T \in SUBSET Requests
    BY DEF S, T
  <2>4. Cardinality(T) <= PoolSize
    BY <2>1, <2>2, <2>3, OneMore
  <2> QED
    BY <2>4 DEF T
<1>4. \A v \in Requests : Fits(req'[v])
  BY <1>1 DEF ResourcesInv
<1>5. DeletedAlone'
  <2> SUFFICES ASSUME NEW d \in Requests, NEW v \in Requests,
                      req'[d].kind = "delete", d # v
               PROVE  req'[d].held \cap req'[v].held = {}
    BY DEF DeletedAlone
  <2>1. CASE d # r /\ v # r
    BY <1>1, <2>1 DEF ResourcesInv, DeletedAlone
  <2>2. CASE d = r
    BY <1>1, <2>2 DEF ResourcesInv, DeletedAlone
  <2>3. CASE v = r
    BY <1>1, <2>3 DEF ResourcesInv, DeletedAlone
  <2> QED
    BY <2>1, <2>2, <2>3
<1> QED
  BY <1>1, <1>2, <1>3, <1>4, <1>5 DEF ResourcesInv, TypeOK

(* What was asked for and not begun, and what has been answered, fits.     *)
LEMMA NothingFits ==
  ASSUME NEW pc \in Steps
  PROVE  /\ [Nothing EXCEPT !.pc = pc] \in Request
         /\ Fits([Nothing EXCEPT !.pc = pc])
BY DEF Nothing, Request, Kinds, Steps, Fits

(* The rows of an operation are rows, and with the rows of an account that *)
(* is deleted goes the account.                                            *)
LEMMA OperationRows ==
  ASSUME NEW op \in Operations
  PROVE  /\ op.kind \in Kinds /\ op.rows \subseteq Rows
         /\ op.kind = "read" => op.rows = {}
         /\ op.kind = "delete" =>
              \A c \in op.rows \cap Children : OwnerOf[c] \in op.rows
<1> USE ResourceConstants
<1>1. CASE op \in Deletions
  <2>1. PICK u \in Users :
          op \in {[kind |-> "delete", rows |-> R \cup {u}] :
                    R \in SUBSET {c \in Children : OwnerOf[c] = u}}
    BY <1>1 DEF Deletions
  <2> DEFINE Owned == {c \in Children : OwnerOf[c] = u}
  <2>2. PICK R \in SUBSET Owned : op = [kind |-> "delete", rows |-> R \cup {u}]
    BY <2>1
  <2>3. op.kind = "delete" /\ op.rows = R \cup {u}
    BY <2>2
  <2>4. \A c \in op.rows \cap Children : OwnerOf[c] = u
    BY <2>3
  <2> QED
    BY <2>3, <2>4 DEF Kinds, Rows
<1>2. CASE op \in Registrations \/ op \in Logins \/ op \in Insertions
             \/ op \in StatusChanges \/ op \in Reads
  BY <1>2 DEF Registrations, Logins, Insertions, StatusChanges, Reads, Kinds,
              Rows
<1>3. CASE op \in Rotations \/ op \in Burns \/ op \in Revocations
             \/ op \in Hidings
  BY <1>3 DEF Rotations, Burns, Revocations, Hidings, Kinds, Rows, Children
<1> QED
  BY <1>1, <1>2, <1>3 DEF Operations

(* An arriving request holds nothing.                                      *)
LEMMA ArriveStep ==
  ASSUME ResourcesInv, NEW r \in Requests, NEW op \in Inputs, Arrive(r, op)
  PROVE  ResourcesInv'
<1> USE ResourceConstants
<1> DEFINE q == [req[r] EXCEPT !.pc = "arrived", !.kind = op.kind,
                               !.todo = op.rows]
<1>1. req[r] \in Request /\ Fits(req[r]) /\ req[r].pc = "new"
  BY DEF ResourcesInv, TypeOK, Arrive
<1>2. req[r].held = {} /\ ~req[r].conn
  BY <1>1 DEF Fits
<1>3. /\ op.kind \in Kinds /\ op.rows \subseteq Rows
      /\ op.kind = "read" => op.rows = {}
      /\ op.kind = "delete" =>
           \A c \in op.rows \cap Children : OwnerOf[c] \in op.rows
  BY OperationRows
<1>4. /\ q \in Request /\ q.pc = "arrived" /\ q.kind = op.kind
      /\ q.todo = op.rows /\ q.held = req[r].held /\ q.conn = req[r].conn
  BY <1>1, <1>3 DEF Request, Steps
<1>5. req' = [req EXCEPT ![r] = q]
  BY DEF Arrive, ResourcesInv, TypeOK
<1> HIDE DEF q
<1>6. Fits(q)
  BY <1>2, <1>3, <1>4 DEF Fits
<1> QED
  BY <1>2, <1>4, <1>5, <1>6, RequestStep DEF OnThread

(* The steps that change no more than the statement a request is at.       *)
LEMMA GoStep ==
  ASSUME ResourcesInv, NEW r \in Requests, NEW pc \in Steps, Go(r, pc),
         pc \notin {"run", "flushed", "close"} => req[r].held = {},
         pc \in {"new", "arrived", "auth", "connect", "done"} => ~req[r].conn,
         pc \in OnThread => HasThread(r) \/ ThreadFree
  PROVE  ResourcesInv'
<1> DEFINE q == [req[r] EXCEPT !.pc = pc]
<1>1. req[r] \in Request /\ Fits(req[r])
  BY DEF ResourcesInv, TypeOK
<1>2. /\ q \in Request /\ q.pc = pc /\ q.kind = req[r].kind
      /\ q.todo = req[r].todo /\ q.held = req[r].held /\ q.conn = req[r].conn
  BY <1>1 DEF Request
<1>3. req' = [req EXCEPT ![r] = q]
  BY DEF Go, ResourcesInv, TypeOK
<1> HIDE DEF q
<1>4. Fits(q)
  BY <1>1, <1>2 DEF Fits
<1> QED
  BY <1>2, <1>3, <1>4, RequestStep DEF HasConnection

(* The first statement takes a connection.                                 *)
LEMMA ConnectStep ==
  ASSUME ResourcesInv, NEW r \in Requests, NEW pc \in {"ready", "run"},
         req' = [req EXCEPT ![r].pc = pc, ![r].conn = TRUE],
         req[r].pc \in {"auth", "connect"}, ConnectionFree
  PROVE  ResourcesInv'
<1> DEFINE q == [req[r] EXCEPT !.pc = pc, !.conn = TRUE]
<1>1. req[r] \in Request /\ Fits(req[r])
  BY DEF ResourcesInv, TypeOK
<1>2. req[r].held = {}
  BY <1>1 DEF Fits
<1>3. /\ q \in Request /\ q.pc = pc /\ q.kind = req[r].kind
      /\ q.todo = req[r].todo /\ q.held = req[r].held
  BY <1>1 DEF Request, Steps
<1>4. req' = [req EXCEPT ![r] = q]
  BY DEF ResourcesInv, TypeOK
<1> HIDE DEF q
<1>5. Fits(q)
  BY <1>1, <1>2, <1>3 DEF Fits
<1> QED
  BY <1>2, <1>3, <1>4, <1>5, RequestStep DEF HasThread, OnThread

(* A request that is answered lets everything go.                          *)
LEMMA FinishStep ==
  ASSUME ResourcesInv, NEW r \in Requests, Finish(r)
  PROVE  ResourcesInv'
<1> DEFINE q == [Nothing EXCEPT !.pc = "done"]
<1>1. q \in Request /\ Fits(q)
  BY NothingFits DEF Steps
<1>2. q.pc = "done" /\ q.held = {} /\ ~q.conn
  BY DEF Nothing
<1>3. req' = [req EXCEPT ![r] = q]
  BY DEF Finish
<1> HIDE DEF q
<1> QED
  BY <1>1, <1>2, <1>3, RequestStep DEF OnThread

(* The row that gets locked comes before those that are left, and is not   *)
(* one that a deletion has locked, or locks what another request has.      *)
LEMMA LockStep ==
  ASSUME ResourcesInv, NEW r \in Requests, NEW x \in Rows, Lock(r, x)
  PROVE  ResourcesInv'
<1> DEFINE q == [req[r] EXCEPT !.todo = @ \ {x}, !.held = @ \cup {x}]
<1>1. req[r] \in Request /\ Fits(req[r]) /\ req[r].pc = "run"
  BY DEF ResourcesInv, TypeOK, Lock
<1>2. /\ q \in Request /\ q.pc = "run" /\ q.kind = req[r].kind
      /\ q.todo = req[r].todo \ {x} /\ q.held = req[r].held \cup {x}
      /\ q.conn = req[r].conn
  BY <1>1 DEF Request
<1>3. x \in req[r].todo /\ \A y \in req[r].todo : Before(req[r].kind, x, y)
  BY DEF Lock, NextRows
<1>4. req' = [req EXCEPT ![r] = q]
  BY DEF Lock, ResourcesInv, TypeOK
<1> HIDE DEF q
<1>5. Fits(q)
  <2>1. q.held \cup q.todo = req[r].held \cup req[r].todo
    BY <1>2, <1>3
  <2>2. \A y \in q.held, z \in q.todo : y # z /\ Before(q.kind, y, z)
    BY <1>1, <1>2, <1>3 DEF Fits
  <2> QED
    BY <1>1, <1>2, <2>1, <2>2 DEF Fits
<1>6. ASSUME NEW v \in Requests, v # r, "delete" \in {q.kind, req[v].kind}
      PROVE  q.held \cap req[v].held = {}
  <2>1. req[r].held \cap req[v].held = {}
    BY <1>2, <1>6 DEF ResourcesInv, DeletedAlone
  <2>2. ~Blocks(v, r, x)
    BY DEF Lock
  <2>3. x \notin req[v].held
    BY <1>2, <1>3, <1>6, <2>2 DEF Blocks, Conflict, Mode
  <2> QED
    BY <1>2, <2>1, <2>3
<1> QED
  BY <1>1, <1>2, <1>4, <1>5, <1>6, RequestStep DEF HasThread, HasConnection

(* The locks go with the commit, and with the abort of a deadlock's        *)
(* victim.                                                                 *)
LEMMA ReleaseStep ==
  ASSUME ResourcesInv, NEW r \in Requests, NEW q \in Request,
         req' = [req EXCEPT ![r] = q],
         q.pc \in {"return", "close"}, q.kind = req[r].kind,
         q.todo = req[r].todo, q.held = {},
         q.conn => HasConnection(r),
         q.pc = "return" => HasThread(r)
  PROVE  ResourcesInv'
<1> USE ResourceConstants
<1>1. req[r] \in Request /\ Fits(req[r])
  BY DEF ResourcesInv, TypeOK
<1>2. ASSUME q.kind = "delete", NEW c \in q.todo \cap Children
      PROVE  OwnerOf[c] \in q.todo
  <2>1. OwnerOf[c] \in req[r].held \cup req[r].todo
    BY <1>1, <1>2 DEF Fits
  <2>2. c \in Rows /\ OwnerOf[c] \in Users /\ OwnerOf[c] \in Rows
    BY DEF Rows
  <2>3. CASE OwnerOf[c] \in req[r].held
    <3>1. OwnerOf[c] # c /\ Before("delete", OwnerOf[c], c)
      BY <1>1, <1>2, <2>3 DEF Fits
    <3>2. Rank[OwnerOf[c]] <= Rank[c]
      BY <3>1 DEF Before
    <3>3. Rank[c] < Rank[OwnerOf[c]]
      BY <2>2
    <3>4. Rank[c] \in Nat /\ Rank[OwnerOf[c]] \in Nat
      BY <2>2
    <3> QED
      BY <3>2, <3>3, <3>4
  <2> QED
    BY <2>1, <2>3
<1>3. Fits(q)
  BY <1>1, <1>2 DEF Fits
<1> QED
  BY <1>3, RequestStep DEF OnThread

(* The invariant holds at the start and is kept by every step.             *)
LEMMA Inductive ==
  /\ Init => ResourcesInv
  /\ ResourcesInv /\ [Next]_vars => ResourcesInv'
<1> USE ResourceConstants
<1>1. ASSUME Init PROVE ResourcesInv
  <2>1. Nothing \in Request /\ Fits(Nothing) /\ Nothing.held = {}
    BY DEF Nothing, Request, Kinds, Steps, Fits
  <2>2. {r \in Requests : HasThread(r)} = {}
          /\ {r \in Requests : HasConnection(r)} = {}
    BY <1>1 DEF Init, HasThread, HasConnection, Nothing, OnThread
  <2>3. Cardinality({}) = 0
    BY FS_EmptySet
  <2>4. DeletedAlone
    BY <1>1, <2>1 DEF Init, DeletedAlone
  <2> QED
    BY <1>1, <2>1, <2>2, <2>3, <2>4 DEF Init, ResourcesInv, TypeOK
<1>2. ASSUME ResourcesInv, NEW r \in Requests, Proceed(r)
      PROVE  ResourcesInv'
  <2> USE <1>2 DEF HasThread, HasConnection, OnThread, Steps
  <2>1. /\ Fits(req[r]) /\ req[r] \in Request
        /\ req \in [Requests -> Request]
    BY DEF ResourcesInv, TypeOK
  <2>2. CASE TakeThread(r)
    BY <2>1, <2>2, GoStep DEF TakeThread, Fits
  <2>3. CASE Authenticate(r)
    BY <2>3, ConnectStep DEF Authenticate
  <2>4. CASE TakeThreadAgain(r)
    BY <2>1, <2>4, GoStep DEF TakeThreadAgain, Fits
  <2>5. CASE Connect(r)
    BY <2>5, ConnectStep DEF Connect
  <2>6. CASE PoolTimeout(r) \/ ReturnPlain(r) \/ Close(r)
    BY <2>6, FinishStep DEF PoolTimeout, ReturnPlain, Close
  <2>7. CASE LookForReferring(r)
    BY <2>7, GoStep DEF LookForReferring
  <2>8. CASE Commit(r)
    <3> DEFINE q == [req[r] EXCEPT !.pc = "return", !.held = {},
                                   !.conn = FALSE]
    <3>1. /\ q \in Request /\ q.pc = "return" /\ q.kind = req[r].kind
          /\ q.todo = req[r].todo /\ q.held = {} /\ ~q.conn
      BY <2>1 DEF Request
    <3>2. req' = [req EXCEPT ![r] = q]
      BY <2>1, <2>8 DEF Commit
    <3>3. HasThread(r)
      BY <2>8 DEF Commit, Flushed
    <3> HIDE DEF q
    <3> QED
      BY <3>1, <3>2, <3>3, ReleaseStep
  <2>9. CASE Return(r)
    <3>1. req[r].held = {}
      <4>1. CASE req[r].pc = "return"
        BY <2>1, <4>1 DEF Fits
      <4>2. CASE req[r].pc = "run" /\ req[r].kind = "read"
        BY <2>1, <4>2 DEF Fits
      <4> QED
        BY <2>9, <4>1, <4>2 DEF Return
    <3> QED
      BY <2>9, <3>1, GoStep DEF Return
  <2>10. CASE Validate(r)
    BY <2>10, GoStep DEF Validate
  <2>11. CASE DeadlockVictim(r)
    <3> DEFINE q == [req[r] EXCEPT !.pc = "close", !.held = {}]
    <3>1. /\ q \in Request /\ q.pc = "close" /\ q.kind = req[r].kind
          /\ q.todo = req[r].todo /\ q.held = {} /\ q.conn = req[r].conn
      BY <2>1 DEF Request
    <3>2. req' = [req EXCEPT ![r] = q]
      BY <2>1, <2>11 DEF DeadlockVictim
    <3> HIDE DEF q
    <3> QED
      BY <3>1, <3>2, ReleaseStep
  <2> QED
    BY <2>2, <2>3, <2>4, <2>5, <2>6, <2>7, <2>8, <2>9, <2>10, <2>11, LockStep
       DEF Proceed
<1>3. ASSUME ResourcesInv, NEW r \in Requests, Fail(r)
      PROVE  ResourcesInv'
  BY <1>3, GoStep DEF Fail, OnThread, Steps
<1>4. ASSUME ResourcesInv, UNCHANGED vars
      PROVE  ResourcesInv'
  BY <1>4 DEF vars, ResourcesInv, TypeOK, HasThread, HasConnection, DeletedAlone
<1> QED
  BY <1>1, <1>2, <1>3, <1>4, ArriveStep DEF Next, AllDone

(* At no time do more requests run than there are threads, or hold more    *)
(* connections than there are.                                             *)
THEOREM PoolsBounded == Spec => []TypeOK
<1>1. ResourcesInv => TypeOK
  BY DEF ResourcesInv
<1> QED
  BY <1>1, Inductive, PTL DEF Spec

(* A deletion in a circle of waits that has nothing left to lock waits for *)
(* a row that another deletion in it has deleted, and that one waits for   *)
(* the user.                                                               *)
LEMMA ChecksWaitForDeletions ==
  ASSUME ResourcesInv, NEW S \in SUBSET Running, Deadlocked(S),
         NEW d \in S, req[d].todo = {}
  PROVE  \E e \in S : MeetsDeletion(d, e)
<1> USE ResourceConstants
<1>1. NextRows(d) = {}
  BY DEF NextRows
<1>2. PICK e \in S, c \in Referring(d) : Blocks(e, d, c)
  BY <1>1 DEF Deadlocked, WaitsFor
<1>3. /\ d \in Requests /\ e \in Requests /\ e # d
      /\ c \in req[e].held /\ c \notin req[d].todo
  BY <1>2 DEF Running, Blocks
<1>4. /\ req[d].kind = "delete" /\ c \in Children
      /\ OwnerOf[c] \in req[d].held /\ OwnerOf[c] \in Users
  BY <1>2 DEF Referring
<1>5. req[e].kind = "delete"
  BY <1>2, <1>3 DEF Blocks, Conflict, Mode
<1>6. OwnerOf[c] \in req[e].held \cup req[e].todo
  BY <1>3, <1>4, <1>5 DEF ResourcesInv, Fits
<1>7. OwnerOf[c] \notin req[e].held
  BY <1>3, <1>4 DEF ResourcesInv, DeletedAlone
<1> QED
  BY <1>2, <1>3, <1>4, <1>5, <1>6, <1>7 DEF MeetsDeletion

(* In a circle of waits for rows to lock, the request that waits for the   *)
(* row of the highest rank is a deletion and waits for a rotation.         *)
LEMMA HighestWaitsForRotation ==
  ASSUME ResourcesInv, NEW S \in SUBSET Running, Deadlocked(S),
         \A d \in S : req[d].todo # {}
  PROVE  \E d, r \in S : MeetsRotation(d, r)
<1> USE ResourceConstants
<1> DEFINE Waits(r, x, v) == x \in NextRows(r) /\ Blocks(v, r, x)
           Want(r) == CHOOSE x \in Rows : \E v \in S : Waits(r, x, v)
           f == [r \in S |-> Rank[Want(r)]]
<1>0. S \in SUBSET Requests
  BY DEF Running
<1>1. ASSUME NEW r \in S
      PROVE  /\ Want(r) \in Rows /\ Want(r) \in NextRows(r)
             /\ \E v \in S : Blocks(v, r, Want(r))
  <2>1. req[r] \in Request
    BY <1>0 DEF ResourcesInv, TypeOK
  <2>2. NextRows(r) \subseteq Rows
    BY <2>1 DEF NextRows, Request
  <2>3. Referring(r) = {}
    BY DEF Referring
  <2>4. PICK x \in NextRows(r) : \E v \in S : Blocks(v, r, x)
    BY <2>3 DEF Deadlocked, WaitsFor
  <2>5. \E y \in Rows : \E v \in S : Waits(r, y, v)
    BY <2>2, <2>4
  <2> QED
    BY <2>5
<1> HIDE DEF Want
<1>2. PICK r \in S : \A v \in S : f[v] <= f[r]
  <2>1. S # {} /\ IsFiniteSet(S)
    BY <1>0, RequestsFinite DEF Deadlocked
  <2>2. \A v \in S : f[v] \in Nat
    BY <1>1
  <2> HIDE DEF f
  <2> QED
    BY <2>1, <2>2, Highest
<1>3. PICK v \in S : Blocks(v, r, Want(r))
  BY <1>1
<1> DEFINE x == Want(r)
           y == Want(v)
<1>4. /\ x \in Rows /\ y \in Rows /\ Rank[y] <= Rank[x]
      /\ x \in req[r].todo /\ y \in req[v].todo /\ x \in req[v].held
  BY <1>1, <1>2, <1>3 DEF NextRows, Blocks
<1>5. x # y /\ Before(req[v].kind, x, y)
  BY <1>0, <1>4 DEF ResourcesInv, Fits
<1>6. req[v].kind = "rotate" /\ x \in Users
  <2>1. SUFFICES ASSUME ~(req[v].kind = "rotate" /\ {x, y} \cap Users # {})
                 PROVE  FALSE
    BY <1>5 DEF Before
  <2>2. Rank[x] <= Rank[y]
    BY <1>5, <2>1 DEF Before
  <2>3. Rank[x] \in Nat /\ Rank[y] \in Nat
    BY <1>4
  <2> QED
    BY <1>4, <1>5, <2>2, <2>3
<1>7. req[r].kind = "delete"
  <2>1. Mode("rotate", x) = "share"
    BY <1>6 DEF Mode
  <2>2. Conflict("share", Mode(req[r].kind, x))
    BY <1>3, <1>4, <1>6, <2>1 DEF Blocks
  <2>3. Mode(req[r].kind, x) = "delete"
    BY <2>2 DEF Conflict
  <2> QED
    BY <2>3 DEF Mode
<1> QED
  BY <1>4, <1>6, <1>7 DEF MeetsRotation

(* Requests that wait for each other's row locks in a circle are never     *)
(* without a deletion of an account that waits for a rotation of one of    *)
(* its refresh tokens, or for another deletion of the same account that    *)
(* has loaded a row which this one had not.                                *)
THEOREM DeadlocksNeedDeletion == Spec => []CyclesNeedDeletion
<1>1. ASSUME ResourcesInv PROVE CyclesNeedDeletion
  <2> SUFFICES ASSUME NEW S \in SUBSET Running, Deadlocked(S)
               PROVE  \E d, r \in S : MeetsRotation(d, r) \/ MeetsDeletion(d, r)
    BY DEF CyclesNeedDeletion
  <2>1. CASE \E d \in S : req[d].todo = {}
    BY <1>1, <2>1, ChecksWaitForDeletions
  <2>2. CASE \A d \in S : req[d].todo # {}
    BY <1>1, <2>2, HighestWaitsForRotation
  <2> QED
    BY <2>1, <2>2
<1> QED
  BY <1>1, Inductive, PTL DEF Spec

-----------------------------------------------------------------------------
(* Of the rows a request still has to lock, one comes next.                *)
LEMMA SomeNextRow ==
  ASSUME ResourcesInv, NEW r \in Requests, req[r].todo # {}
  PROVE  NextRows(r) # {}
<1> USE ResourceConstants
<1> DEFINE todo == req[r].todo
           k == req[r].kind
<1>1. todo \subseteq Rows
  BY DEF ResourcesInv, TypeOK, Request
<1>2. CASE k = "rotate" /\ todo \cap Users # {}
  <2>1. PICK u \in todo : u \in Users
    BY <1>2
  <2> QED
    BY <1>2, <2>1 DEF NextRows, Before
<1>3. CASE ~(k = "rotate" /\ todo \cap Users # {})
  <2>1. PICK y \in todo : TRUE
    OBVIOUS
  <2> DEFINE n == Rank[y]
             S == {i \in 0..n : \E x \in todo : Rank[x] = i}
             f == [i \in S |-> n - i]
  <2>2. n \in Nat
    BY <1>1
  <2>3. IsFiniteSet(S)
    <3>1. IsFiniteSet(0..n)
      BY <2>2, FS_Interval
    <3> QED
      BY <3>1, FS_Subset
  <2>4. S # {} /\ \A i \in S : f[i] \in Nat
    BY <2>2
  <2>5. PICK i \in S : \A j \in S : f[j] <= f[i]
    <3> HIDE DEF S, f
    <3> QED
      BY <2>3, <2>4, Highest
  <2>6. PICK x \in todo : Rank[x] = i
    OBVIOUS
  <2>7. ASSUME NEW z \in todo
        PROVE  Rank[x] <= Rank[z]
    <3>1. Rank[z] \in Nat /\ i \in 0..n
      BY <1>1
    <3>2. CASE Rank[z] > n
      BY <2>2, <2>6, <3>1, <3>2
    <3>3. CASE ~(Rank[z] > n)
      <4>1. Rank[z] \in S
        BY <2>2, <3>1, <3>3
      <4>2. n - Rank[z] <= n - i
        BY <2>5, <4>1
      <4> QED
        BY <2>2, <2>6, <3>1, <4>2
    <3> QED
      BY <3>2, <3>3
  <2>8. \A z \in todo : Before(k, x, z)
    BY <1>3, <2>7 DEF Before
  <2> QED
    BY <2>8 DEF NextRows
<1> QED
  BY <1>2, <1>3

(* While requests are in flight, one of them can go on.  If none could,    *)
(* all would wait for row locks, and so in a circle, which the database    *)
(* breaks; or all would wait for threads, with none of them taken.         *)
THEOREM NeverStandsStill == Spec => []NoStandstill
<1> USE ResourceConstants
<1>1. ASSUME ResourcesInv PROVE NoStandstill
  <2> SUFFICES ASSUME NEW q \in Requests, InFlight(q),
                      \A r \in Requests : ~CanProceed(r)
               PROVE  FALSE
    BY DEF NoStandstill
  <2>1. ASSUME NEW r \in Requests
        PROVE  /\ req[r] \in Request /\ Fits(req[r])
               /\ req[r].pc \notin {"auth", "connect", "flushed", "return",
                                    "validate", "close"}
    BY <1>1 DEF ResourcesInv, TypeOK, CanProceed
  <2>2. ASSUME NEW r \in Running
        PROVE  \E v \in Running : WaitsFor(r, v)
    <3>1. PICK x \in NextRows(r) \cup Referring(r), v \in Requests :
            Blocks(v, r, x)
      <4>1. CASE req[r].todo # {}
        <5>1. \A x \in NextRows(r) : \E v \in Requests : Blocks(v, r, x)
          BY DEF CanProceed, Running
        <5>2. NextRows(r) # {}
          BY <1>1, <4>1, SomeNextRow DEF Running
        <5> QED
          BY <5>1, <5>2
      <4>2. CASE req[r].todo = {}
        BY <4>2 DEF CanProceed, Running
      <4> QED
        BY <4>1, <4>2
    <3>2. v \in Running
      BY <2>1, <3>1 DEF Blocks, Fits, Running
    <3> QED
      BY <3>1, <3>2 DEF WaitsFor
  <2>3. Running = {}
    <3>1. SUFFICES ASSUME NEW r \in Running PROVE FALSE
      OBVIOUS
    <3>2. Deadlocked(Running)
      BY <2>2 DEF Deadlocked
    <3> QED
      BY <3>2 DEF CanProceed, Running
  <2>4. {r \in Requests : HasThread(r)} = {}
    BY <2>1, <2>3 DEF HasThread, OnThread, Running
  <2>5. ThreadFree
    BY <2>4, FS_EmptySet DEF ThreadFree
  <2>6. req[q].pc \in {"arrived", "ready", "respond"}
    BY <2>1, <2>3 DEF InFlight, Request, Steps, Running
  <2> QED
    BY <2>5, <2>6 DEF CanProceed
<1> QED
  BY <1>1, Inductive, PTL DEF Spec

=============================================================================
