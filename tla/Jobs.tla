-------------------------------- MODULE Jobs --------------------------------
(***************************************************************************)
(* Processing jobs: the handlers of app/api/v1/jobs.py with the account    *)
(* deletion that cascades to jobs, the administrator's set_status, and the *)
(* in-process counters of app/core/metrics.py.  A job is processed for a   *)
(* long time between the authentication of its request and the commit of   *)
(* its row; other requests commit meanwhile.  What the processing computes *)
(* is in PngValidator and StegoImage; here it succeeds or is refused.      *)
(***************************************************************************)
EXTENDS Integers, FiniteSets

CONSTANTS
  Users,       \* account ids
  JobIds,      \* ids a job row can get; bounds the jobs
  Workers,     \* threads of the server
  Fresh,       \* jobs[j] before the row is inserted
  Gone,        \* jobs[j] after the row is deleted
  None,        \* an unset local variable
  FkEnforced   \* TRUE: PostgreSQL; FALSE: SQLite, which needs a PRAGMA for it

VARIABLES
  jobs,      \* table processing_jobs, by id
  account,   \* users.status by id, or "deleted" once the row is gone
  counters,  \* metrics._counters: embed, extract and verify jobs
  task,      \* per worker: statement and local variables
  made,      \* history: rows committed per kind since the process started
  hidden     \* history: jobs whose DELETE was answered

vars == <<jobs, account, counters, task, made, hidden>>

Kinds == {"EMBED", "EXTRACT", "VERIFY"}

(* models.ProcessingJob; deleted is "deleted_at is not None".              *)
Job == [owner: Users, kind: Kinds, deleted: BOOLEAN]

Statuses == {"active", "disabled"}

ASSUME JobConstants ==
  /\ Fresh # Gone
  /\ Fresh \notin Job /\ Gone \notin Job
  /\ None \notin JobIds /\ None \notin Users
  /\ FkEnforced \in BOOLEAN

Task == [pc: {"idle", "authed", "insert", "count", "serve", "hide", "erase"},
         user: Users \cup {None}, kind: Kinds, job: JobIds \cup {None},
         rows: SUBSET JobIds, old: SUBSET JobIds]

Idle == [pc |-> "idle", user |-> None, kind |-> "EMBED", job |-> None,
         rows |-> {}, old |-> {}]

TypeOK ==
  /\ jobs \in [JobIds -> Job \cup {Fresh, Gone}]
  /\ account \in [Users -> Statuses \cup {"deleted"}]
  /\ counters \in [Kinds -> Nat]
  /\ task \in [Workers -> Task]
  /\ made \in [Kinds -> Nat]
  /\ hidden \subseteq JobIds

Init ==
  /\ jobs = [j \in JobIds |-> Fresh]
  /\ account = [u \in Users |-> "active"]
  /\ counters = [k \in Kinds |-> 0]
  /\ task = [w \in Workers |-> Idle]
  /\ made = [k \in Kinds |-> 0]
  /\ hidden = {}

-----------------------------------------------------------------------------
Stored(j) == jobs[j] \notin {Fresh, Gone}

JobsOf(u) == {j \in JobIds : Stored(j) /\ jobs[j].owner = u}

VisibleDeletedToo(u) == JobsOf(u)

(* The rows a list, a get or a delete of this user can find.               *)
Visible(u) == {j \in JobsOf(u) : ~jobs[j].deleted}

(* uuid4 gives an id that no row and no other open transaction has.        *)
Unused(j) == jobs[j] = Fresh

OwnerReferenced(u) == FkEnforced => account[u] # "deleted"

HiddenToggle(r) == [r EXCEPT !.deleted = ~r.deleted]

Hidden(r) == [r EXCEPT !.deleted = TRUE]

Finish(w) == task' = [task EXCEPT ![w] = Idle]

-----------------------------------------------------------------------------
(* get_current_user, the dependency of every route.  old remembers, for    *)
(* the properties, which deletions were answered before the request.       *)
Authenticate(w, u) ==
  /\ task[w] = Idle
  /\ account[u] = "active"
  /\ task' = [task EXCEPT ![w] = [Idle EXCEPT !.pc = "authed", !.user = u,
                                              !.old = hidden]]
  /\ UNCHANGED <<jobs, account, counters, made, hidden>>

(* An error response and no row, from _load_png if the upload is refused.  *)
Refuse(w) ==
  /\ task[w].pc = "authed"
  /\ Finish(w)
  /\ UNCHANGED <<jobs, account, counters, made, hidden>>

(* The work is done, the row comes next.                                   *)
Process(w, k) ==
  /\ task[w].pc = "authed"
  /\ task' = [task EXCEPT ![w].pc = "insert", ![w].kind = k]
  /\ UNCHANGED <<jobs, account, counters, made, hidden>>

(* POST /embed: the upload or the payload's size is refused, or it does    *)
(* not fit; POST /extract: the upload is refused or the content does not   *)
(* authenticate; POST /verify reports on any picture.                      *)
Embed(w) == Refuse(w) \/ Process(w, "EMBED")

Extract(w) == Refuse(w) \/ Process(w, "EXTRACT")

Verify(w) == Refuse(w) \/ Process(w, "VERIFY")

(* _owned_job_or_404: an id that is malformed, or of no row the caller     *)
(* can see.                                                                *)
NotFound(w) == Refuse(w)

InsertUntyped(w, j) ==
  /\ task[w].pc = "insert"
  /\ OwnerReferenced(task[w].user)
  /\ Unused(j)
  /\ jobs' = [jobs EXCEPT ![j] = [owner |-> task[w].user, kind |-> None,
                                  deleted |-> FALSE]]
  /\ made' = [made EXCEPT ![task[w].kind] = @ + 1]
  /\ task' = [task EXCEPT ![w].pc = "count", ![w].job = j]
  /\ UNCHANGED <<account, counters, hidden>>

(* db.add and commit.                                                      *)
InsertCommit(w, j) ==
  LET t == task[w] IN
  /\ t.pc = "insert"
  /\ OwnerReferenced(t.user)
  /\ Unused(j)
  /\ jobs' = [jobs EXCEPT ![j] = [owner |-> t.user, kind |-> t.kind,
                                  deleted |-> FALSE]]
  /\ made' = [made EXCEPT ![t.kind] = @ + 1]
  /\ task' = [task EXCEPT ![w].pc = "count", ![w].job = j]
  /\ UNCHANGED <<account, counters, hidden>>

InsertFailsCounted(w) ==
  /\ task[w].pc = "insert"
  /\ ~OwnerReferenced(task[w].user)
  /\ counters' = [counters EXCEPT ![task[w].kind] = @ + 1]
  /\ Finish(w)
  /\ UNCHANGED <<jobs, account, made, hidden>>

(* IntegrityError: the owner was deleted during the processing.            *)
InsertFails(w) ==
  /\ task[w].pc = "insert"
  /\ ~OwnerReferenced(task[w].user)
  /\ Finish(w)
  /\ UNCHANGED <<jobs, account, counters, made, hidden>>

(* metrics.increment, then the response.                                   *)
CountAndReply(w) ==
  /\ task[w].pc = "count"
  /\ counters' = [counters EXCEPT ![task[w].kind] = @ + 1]
  /\ Finish(w)
  /\ UNCHANGED <<jobs, account, made, hidden>>

(* GET "" and GET /{job_id}: SELECT, then the response is built.           *)
ListSelect(w) ==
  /\ task[w].pc = "authed"
  /\ task' = [task EXCEPT ![w].pc = "serve", ![w].rows = Visible(task[w].user)]
  /\ UNCHANGED <<jobs, account, counters, made, hidden>>

GetSelect(w, j) ==
  /\ task[w].pc = "authed"
  /\ j \in Visible(task[w].user)
  /\ task' = [task EXCEPT ![w].pc = "serve", ![w].rows = {j}]
  /\ UNCHANGED <<jobs, account, counters, made, hidden>>

Serve(w) ==
  /\ task[w].pc = "serve"
  /\ Finish(w)
  /\ UNCHANGED <<jobs, account, counters, made, hidden>>

(* DELETE /{job_id}: the same lookup, then deleted_at is set.              *)
HideSelect(w, j) ==
  /\ task[w].pc = "authed"
  /\ j \in Visible(task[w].user)
  /\ task' = [task EXCEPT ![w].pc = "hide", ![w].job = j]
  /\ UNCHANGED <<jobs, account, counters, made, hidden>>

HideCommit(w) ==
  LET j == task[w].job IN
  /\ task[w].pc = "hide"
  /\ Stored(j)
  /\ jobs' = [jobs EXCEPT ![j] = Hidden(@)]
  /\ hidden' = hidden \cup {j}
  /\ Finish(w)
  /\ UNCHANGED <<account, counters, made>>

(* StaleDataError: the row went with its account.                          *)
HideFails(w) ==
  /\ task[w].pc = "hide"
  /\ ~Stored(task[w].job)
  /\ Finish(w)
  /\ UNCHANGED <<jobs, account, counters, made, hidden>>

(* DELETE /me: db.delete loads the rows to cascade to, commit deletes them *)
(* and the user; PostgreSQL refuses if another row came in between.        *)
EraseSelect(w) ==
  /\ task[w].pc = "authed"
  /\ task' = [task EXCEPT ![w].pc = "erase", ![w].rows = JobsOf(task[w].user)]
  /\ UNCHANGED <<jobs, account, counters, made, hidden>>

NoneUnseenIgnored(w) == TRUE

NoneUnseen(w) == FkEnforced => JobsOf(task[w].user) \subseteq task[w].rows

EraseCommit(w) ==
  LET t == task[w] IN
  /\ t.pc = "erase"
  /\ NoneUnseen(w)
  /\ jobs' = [j \in JobIds |->
                IF j \in t.rows /\ Stored(j) THEN Gone ELSE jobs[j]]
  /\ account' = [account EXCEPT ![t.user] = "deleted"]
  /\ Finish(w)
  /\ UNCHANGED <<counters, made, hidden>>

EraseFails(w) ==
  /\ task[w].pc = "erase"
  /\ ~NoneUnseen(w)
  /\ Finish(w)
  /\ UNCHANGED <<jobs, account, counters, made, hidden>>

(* An administrator disables or enables an account.                        *)
SetStatus(u, st) ==
  /\ account[u] \notin {st, "deleted"}
  /\ account' = [account EXCEPT ![u] = st]
  /\ UNCHANGED <<jobs, counters, task, made, hidden>>

(* The database connection drops before the commit.                        *)
Abort(w) ==
  /\ task[w].pc \notin {"idle", "count"}
  /\ Finish(w)
  /\ UNCHANGED <<jobs, account, counters, made, hidden>>

(* The process dies: requests and counters are lost, rows are not.         *)
Restart ==
  /\ task' = [w \in Workers |-> Idle]
  /\ counters' = [k \in Kinds |-> 0]
  /\ made' = [k \in Kinds |-> 0]
  /\ UNCHANGED <<jobs, account, hidden>>

Next ==
  \/ \E w \in Workers :
       \/ \E u \in Users : Authenticate(w, u)
       \/ Embed(w) \/ Extract(w) \/ Verify(w) \/ NotFound(w)
       \/ \E j \in JobIds :
            InsertCommit(w, j) \/ GetSelect(w, j) \/ HideSelect(w, j)
       \/ InsertFails(w) \/ CountAndReply(w)
       \/ ListSelect(w) \/ Serve(w)
       \/ HideCommit(w) \/ HideFails(w)
       \/ EraseSelect(w) \/ EraseCommit(w) \/ EraseFails(w)
       \/ Abort(w)
  \/ \E u \in Users, st \in Statuses : SetStatus(u, st)
  \/ Restart

Spec == Init /\ [][Next]_vars

-----------------------------------------------------------------------------
(* A request sees nobody else's jobs, and none whose DELETE was answered   *)
(* before the request arrived (_owned_job_or_404, list_jobs).              *)
ServedRight ==
  \A w \in Workers :
    task[w].pc = "serve" =>
      \A j \in task[w].rows :
        /\ j \notin task[w].old
        /\ Stored(j) => jobs[j].owner = task[w].user

(* No job outlives its account, not even one that was being processed when *)
(* the account was deleted ("cascades to sessions and jobs", auth.py:173). *)
JobsHaveOwners ==
  \A j \in JobIds : Stored(j) => account[jobs[j].owner] # "deleted"

(* Requests that have committed a row and not counted it yet.              *)
Counting(k) == {w \in Workers : task[w].pc = "count" /\ task[w].kind = k}

(* Since the process started, each counter is the number of rows committed *)
(* minus those whose request has not come to its increment yet: a failed   *)
(* commit is not counted, a committed one is counted once.                 *)
CountersExact ==
  \A k \in Kinds : counters[k] + Cardinality(Counting(k)) = made[k]

KeepsJobs ==
  \A j \in JobIds :
    /\ jobs[j] = Gone => jobs'[j] = Gone
    /\ Stored(j) /\ jobs'[j] # Gone =>
         /\ jobs'[j].owner = jobs[j].owner
         /\ jobs'[j].kind = jobs[j].kind
         /\ jobs[j].deleted => jobs'[j].deleted

(* A soft delete is final, also when two of them overlap, and a job never  *)
(* changes hands or kind.                                                  *)
DeleteIsFinal == [][KeepsJobs]_vars

-----------------------------------------------------------------------------
(* Inductive invariant.                                                    *)

LocalsSet ==
  \A w \in Workers :
    /\ task[w].pc # "idle" => task[w].user \in Users
    /\ task[w].pc \in {"count", "hide"} => task[w].job \in JobIds
    /\ task[w].pc = "hide" =>
         /\ jobs[task[w].job] # Fresh
         /\ Stored(task[w].job) => jobs[task[w].job].owner = task[w].user
    /\ \A j \in task[w].rows :
         /\ jobs[j] # Fresh
         /\ Stored(j) => jobs[j].owner = task[w].user

(* A job whose deletion was answered is marked, or gone.                   *)
HiddenMarked ==
  /\ \A j \in hidden : jobs[j] # Fresh /\ (Stored(j) => jobs[j].deleted)
  /\ \A w \in Workers : task[w].old \subseteq hidden

JobsInv == TypeOK /\ LocalsSet /\ HiddenMarked /\ ServedRight
=============================================================================
