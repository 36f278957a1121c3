----------------------------- MODULE JobsProofs -----------------------------
(***************************************************************************)
(* Proofs about Jobs, for any number of users, jobs and workers.           *)
(***************************************************************************)
EXTENDS Jobs, FiniteSetTheorems, TLAPS

(* The facts about the constants that every step uses.                     *)
LEMMA JobFacts ==
  /\ Fresh # Gone /\ Fresh \notin Job /\ Gone \notin Job
  /\ None \notin JobIds /\ None \notin Users
BY JobConstants

(* The idle record is well typed, and it is nobody's request.              *)
LEMMA IdleTyped ==
  /\ Idle \in Task
  /\ Idle.pc = "idle" /\ Idle.rows = {} /\ Idle.old = {}
BY DEF Idle, Task, Kinds

(* A worker that ends changes no other one.                                *)
LEMMA FinishOthers ==
  ASSUME TypeOK, NEW w \in Workers, Finish(w)
  PROVE  /\ task' \in [Workers -> Task]
         /\ task'[w] = Idle
         /\ \A v \in Workers : v # w => task'[v] = task[v]
BY IdleTyped DEF TypeOK, Finish

(* A step that ends a request and leaves the rest as it was.               *)
LEMMA EndStep ==
  ASSUME JobsInv, NEW w \in Workers, Finish(w),
         UNCHANGED <<jobs, account, made, hidden>>,
         counters' \in [Kinds -> Nat]
  PROVE  JobsInv'
<1>1. TypeOK'
  BY FinishOthers DEF JobsInv, TypeOK
<1>2. LocalsSet' /\ HiddenMarked' /\ ServedRight'
  BY FinishOthers, IdleTyped
     DEF JobsInv, LocalsSet, HiddenMarked, ServedRight, Stored
<1> QED
  BY <1>1, <1>2 DEF JobsInv

(* The new variables of a worker that goes on, in a step that changes no   *)
(* table: what must hold of them for the invariant to be kept.             *)
LEMMA GoOnStep ==
  ASSUME JobsInv, NEW w \in Workers, NEW t \in Task,
         task' = [task EXCEPT ![w] = t],
         UNCHANGED <<jobs, account, counters, made, hidden>>,
         t.pc # "idle" => t.user \in Users,
         t.pc \in {"count", "hide"} => t.job \in JobIds,
         t.pc = "hide" => /\ jobs[t.job] # Fresh
                          /\ Stored(t.job) => jobs[t.job].owner = t.user,
         \A j \in t.rows : /\ jobs[j] # Fresh
                           /\ Stored(j) => jobs[j].owner = t.user,
         t.old \subseteq hidden,
         t.pc = "serve" => \A j \in t.rows : j \notin t.old
  PROVE  JobsInv'
<1>1. /\ task'[w] = t /\ task' \in [Workers -> Task]
      /\ \A v \in Workers : v # w => task'[v] = task[v]
  BY DEF JobsInv, TypeOK
<1>2. TypeOK'
  BY <1>1 DEF JobsInv, TypeOK
<1>3. LocalsSet'
  BY <1>1 DEF JobsInv, LocalsSet, Stored
<1>4. HiddenMarked' /\ ServedRight'
  BY <1>1 DEF JobsInv, HiddenMarked, ServedRight, Stored
<1> QED
  BY <1>2, <1>3, <1>4 DEF JobsInv

(* A row found by a list or a get is the caller's, stored and not one whose*)
(* deletion was answered.                                                  *)
LEMMA VisibleRows ==
  ASSUME JobsInv, NEW w \in Workers, NEW j \in Visible(task[w].user)
  PROVE  /\ j \in JobIds /\ Stored(j) /\ jobs[j] # Fresh
         /\ jobs[j].owner = task[w].user
         /\ j \notin hidden /\ j \notin task[w].old
BY DEF JobsInv, HiddenMarked, Visible, JobsOf, Stored

(* Fields of the variables of a worker that goes on.                       *)
LEMMA TaskFields ==
  ASSUME TypeOK, NEW w \in Workers
  PROVE  /\ task[w] \in Task
         /\ task[w].rows \subseteq JobIds /\ task[w].old \subseteq JobIds
         /\ task[w].kind \in Kinds
BY DEF TypeOK, Task

(* Every step of every handler keeps the invariant.                        *)
LEMMA JobsStep == JobsInv /\ [Next]_vars => JobsInv'
<1> SUFFICES ASSUME JobsInv, [Next]_vars PROVE JobsInv'
  OBVIOUS
<1> USE JobFacts
<1>0. TypeOK /\ LocalsSet /\ HiddenMarked /\ ServedRight
  BY DEF JobsInv
<1>1. ASSUME NEW w \in Workers, NEW u \in Users, Authenticate(w, u)
      PROVE  JobsInv'
  <2> DEFINE t == [Idle EXCEPT !.pc = "authed", !.user = u, !.old = hidden]
  <2>1. /\ t \in Task /\ t.pc = "authed" /\ t.user = u /\ t.rows = {}
        /\ t.old = hidden
    BY <1>0 DEF Idle, Task, TypeOK, Kinds
  <2>2. task' = [task EXCEPT ![w] = t]
    BY <1>1 DEF Authenticate
  <2> HIDE DEF t
  <2> QED
    BY <1>1, <2>1, <2>2, GoOnStep DEF Authenticate
<1>2. ASSUME NEW w \in Workers, Refuse(w) \/ InsertFails(w) \/ Serve(w)
                                  \/ HideFails(w) \/ EraseFails(w) \/ Abort(w)
      PROVE  JobsInv'
  <2>1. Finish(w) /\ UNCHANGED <<jobs, account, counters, made, hidden>>
    BY <1>2 DEF Refuse, InsertFails, Serve, HideFails, EraseFails, Abort
  <2>2. counters' \in [Kinds -> Nat]
    BY <1>0, <2>1 DEF TypeOK
  <2> QED
    BY <2>1, <2>2, EndStep
<1>3. ASSUME NEW w \in Workers, CountAndReply(w)
      PROVE  JobsInv'
  <2>1. counters' \in [Kinds -> Nat]
    BY <1>0, <1>3, TaskFields DEF CountAndReply, TypeOK
  <2> QED
    BY <1>3, <2>1, EndStep DEF CountAndReply
<1>4. ASSUME NEW w \in Workers, NEW k \in Kinds, Process(w, k)
      PROVE  JobsInv'
  <2> DEFINE t == [task[w] EXCEPT !.pc = "insert", !.kind = k]
  <2>1. /\ t \in Task /\ t.pc = "insert" /\ t.user = task[w].user
        /\ t.rows = task[w].rows /\ t.old = task[w].old
    BY <1>0, TaskFields DEF Task
  <2>2. task' = [task EXCEPT ![w] = t]
    BY <1>0, <1>4 DEF Process, TypeOK, Task
  <2>3. t.user \in Users
    BY <1>0, <1>4, <2>1 DEF Process, LocalsSet
  <2> HIDE DEF t
  <2>4. \A j \in t.rows : /\ jobs[j] # Fresh
                          /\ Stored(j) => jobs[j].owner = t.user
    BY <1>0, <2>1 DEF LocalsSet
  <2>5. t.old \subseteq hidden
    BY <1>0, <2>1 DEF HiddenMarked
  <2>6. UNCHANGED <<jobs, account, counters, made, hidden>>
    BY <1>4 DEF Process
  <2>7. t.pc \notin {"idle", "count", "hide", "serve"}
    BY <2>1
  <2> QED
    BY <2>1, <2>2, <2>3, <2>4, <2>5, <2>6, <2>7, GoOnStep
<1>5. ASSUME NEW w \in Workers, ListSelect(w)
      PROVE  JobsInv'
  <2> DEFINE t == [task[w] EXCEPT !.pc = "serve", !.rows = Visible(task[w].user)]
  <2>1. Visible(task[w].user) \subseteq JobIds
    BY DEF Visible, JobsOf
  <2>2. /\ t \in Task /\ t.pc = "serve" /\ t.user = task[w].user
        /\ t.rows = Visible(task[w].user) /\ t.old = task[w].old
    BY <1>0, <2>1, TaskFields DEF Task
  <2>3. task' = [task EXCEPT ![w] = t]
    BY <1>0, <1>5 DEF ListSelect, TypeOK, Task
  <2>4. t.user \in Users
    BY <1>0, <1>5, <2>2 DEF ListSelect, LocalsSet
  <2>5. \A j \in t.rows : jobs[j] # Fresh /\ jobs[j].owner = t.user /\ j \notin t.old
    BY <2>2, VisibleRows
  <2> HIDE DEF t
  <2> QED
    BY <1>0, <1>5, <2>2, <2>3, <2>4, <2>5, GoOnStep DEF ListSelect, HiddenMarked
<1>6. ASSUME NEW w \in Workers, NEW j \in JobIds, GetSelect(w, j)
      PROVE  JobsInv'
  <2> DEFINE t == [task[w] EXCEPT !.pc = "serve", !.rows = {j}]
  <2>1. /\ t \in Task /\ t.pc = "serve" /\ t.user = task[w].user
        /\ t.rows = {j} /\ t.old = task[w].old
    BY <1>0, TaskFields DEF Task
  <2>2. task' = [task EXCEPT ![w] = t]
    BY <1>0, <1>6 DEF GetSelect, TypeOK, Task
  <2>3. t.user \in Users
    BY <1>0, <1>6, <2>1 DEF GetSelect, LocalsSet
  <2>4. jobs[j] # Fresh /\ jobs[j].owner = t.user /\ j \notin t.old
    BY <1>6, <2>1, VisibleRows DEF GetSelect
  <2> HIDE DEF t
  <2>5. \A i \in t.rows : jobs[i] # Fresh /\ jobs[i].owner = t.user /\ i \notin t.old
    BY <2>1, <2>4
  <2>6. t.old \subseteq hidden
    BY <1>0, <2>1 DEF HiddenMarked
  <2>7. UNCHANGED <<jobs, account, counters, made, hidden>>
    BY <1>6 DEF GetSelect
  <2> QED
    BY <2>1, <2>2, <2>3, <2>5, <2>6, <2>7, GoOnStep
<1>7. ASSUME NEW w \in Workers, NEW j \in JobIds, HideSelect(w, j)
      PROVE  JobsInv'
  <2> DEFINE t == [task[w] EXCEPT !.pc = "hide", !.job = j]
  <2>1. /\ t \in Task /\ t.pc = "hide" /\ t.user = task[w].user /\ t.job = j
        /\ t.rows = task[w].rows /\ t.old = task[w].old
    BY <1>0, TaskFields DEF Task
  <2>2. task' = [task EXCEPT ![w] = t]
    BY <1>0, <1>7 DEF HideSelect, TypeOK, Task
  <2>3. t.user \in Users
    BY <1>0, <1>7, <2>1 DEF HideSelect, LocalsSet
  <2>4. jobs[j] # Fresh /\ jobs[j].owner = t.user
    BY <1>7, <2>1, VisibleRows DEF HideSelect
  <2> HIDE DEF t
  <2>5. \A i \in t.rows : /\ jobs[i] # Fresh
                          /\ Stored(i) => jobs[i].owner = t.user
    BY <1>0, <2>1 DEF LocalsSet
  <2>6. t.old \subseteq hidden
    BY <1>0, <2>1 DEF HiddenMarked
  <2>7. UNCHANGED <<jobs, account, counters, made, hidden>>
    BY <1>7 DEF HideSelect
  <2> QED
    BY <2>1, <2>2, <2>3, <2>4, <2>5, <2>6, <2>7, GoOnStep
<1>8. ASSUME NEW w \in Workers, EraseSelect(w)
      PROVE  JobsInv'
  <2> DEFINE t == [task[w] EXCEPT !.pc = "erase", !.rows = JobsOf(task[w].user)]
  <2>1. /\ t \in Task /\ t.pc = "erase" /\ t.user = task[w].user
        /\ t.rows = JobsOf(task[w].user) /\ t.old = task[w].old
    BY <1>0, TaskFields DEF Task, JobsOf
  <2>2. task' = [task EXCEPT ![w] = t]
    BY <1>0, <1>8 DEF EraseSelect, TypeOK, Task
  <2>3. t.user \in Users
    BY <1>0, <1>8, <2>1 DEF EraseSelect, LocalsSet
  <2>4. \A j \in t.rows : jobs[j] # Fresh /\ jobs[j].owner = t.user
    BY <2>1 DEF JobsOf, Stored
  <2> HIDE DEF t
  <2> QED
    BY <1>0, <1>8, <2>1, <2>2, <2>3, <2>4, GoOnStep DEF EraseSelect, HiddenMarked
<1>9. ASSUME NEW w \in Workers, NEW j \in JobIds, InsertCommit(w, j)
      PROVE  JobsInv'
  <2> DEFINE row == [owner |-> task[w].user, kind |-> task[w].kind, deleted |-> FALSE]
             t == [task[w] EXCEPT !.pc = "count", !.job = j]
  <2>1. row \in Job /\ row # Fresh /\ row # Gone
    <3>1. task[w].user \in Users /\ task[w].kind \in Kinds
      BY <1>0, <1>9, TaskFields DEF InsertCommit, LocalsSet
    <3>2. row \in Job
      BY <3>1 DEF Job
    <3> QED
      BY <3>2
  <2>2. /\ t \in Task /\ t.pc = "count" /\ t.user = task[w].user /\ t.job = j
        /\ t.rows = task[w].rows /\ t.old = task[w].old
    BY <1>0, TaskFields DEF Task
  <2>3. task' = [task EXCEPT ![w] = t] /\ t.user \in Users
    BY <1>0, <1>9 DEF InsertCommit, TypeOK, Task, LocalsSet
  <2>4. jobs' = [jobs EXCEPT ![j] = row] /\ jobs[j] = Fresh
    BY <1>9 DEF InsertCommit, Unused
  <2> HIDE DEF t, row
  <2>5. /\ task'[w] = t /\ task' \in [Workers -> Task]
        /\ \A v \in Workers : v # w => task'[v] = task[v]
    BY <1>0, <2>2, <2>3 DEF TypeOK
  <2>6. /\ jobs'[j] = row /\ jobs' \in [JobIds -> Job \cup {Fresh, Gone}]
        /\ \A i \in JobIds : i # j => jobs'[i] = jobs[i]
    BY <1>0, <2>1, <2>4 DEF TypeOK
  <2>7. TypeOK'
    <3>1. made' \in [Kinds -> Nat]
      BY <1>0, <1>9, TaskFields DEF InsertCommit, TypeOK
    <3> QED
      BY <1>0, <1>9, <2>5, <2>6, <3>1 DEF InsertCommit, TypeOK
  <2>8. LocalsSet'
    <3>1. \A v \in Workers : j \notin task[v].rows
            /\ (task[v].pc = "hide" => task[v].job # j)
      BY <1>0, <2>4 DEF LocalsSet
    <3>2. \A v \in Workers : task'[v].rows = task[v].rows
      BY <2>2, <2>5
    <3>3. \A v \in Workers : task'[v].rows \subseteq JobIds
      BY <1>0, <3>2, TaskFields
    <3> QED
      BY <1>0, <2>2, <2>3, <2>5, <2>6, <3>1, <3>2, <3>3 DEF LocalsSet, Stored
  <2>9. HiddenMarked'
    <3>1. j \notin hidden
      BY <1>0, <2>4 DEF HiddenMarked
    <3> QED
      BY <1>0, <1>9, <2>2, <2>5, <2>6, <3>1
         DEF InsertCommit, HiddenMarked, Stored, TypeOK
  <2>10. ServedRight'
    <3>1. \A v \in Workers : task'[v].pc = "serve" =>
            v # w /\ task'[v] = task[v] /\ j \notin task[v].rows
      BY <1>0, <2>2, <2>4, <2>5 DEF LocalsSet
    <3> QED
      BY <1>0, <2>6, <3>1, TaskFields DEF ServedRight, Stored
  <2> QED
    BY <2>7, <2>8, <2>9, <2>10 DEF JobsInv
<1>10. ASSUME NEW w \in Workers, HideCommit(w)
       PROVE  JobsInv'
  <2> DEFINE j == task[w].job
  <2>1. j \in JobIds /\ jobs[j] \in Job /\ Stored(j)
    BY <1>0, <1>10 DEF HideCommit, LocalsSet, TypeOK, Stored
  <2>2. Hidden(jobs[j]) \in Job /\ Hidden(jobs[j]).owner = jobs[j].owner
        /\ Hidden(jobs[j]).deleted
    BY <2>1 DEF Hidden, Job
  <2>3. /\ jobs' \in [JobIds -> Job \cup {Fresh, Gone}]
        /\ jobs'[j] = Hidden(jobs[j])
        /\ \A i \in JobIds : i # j => jobs'[i] = jobs[i]
    BY <1>0, <1>10, <2>1, <2>2 DEF HideCommit, TypeOK
  <2>4. \A i \in JobIds : /\ jobs[i] # Fresh => jobs'[i] # Fresh
                          /\ Stored(i)' => Stored(i) /\ jobs'[i].owner = jobs[i].owner
                          /\ Stored(i)' /\ jobs[i].deleted => jobs'[i].deleted
    BY <2>1, <2>2, <2>3 DEF Stored
  <2>5. /\ task'[w] = Idle /\ task' \in [Workers -> Task]
        /\ \A v \in Workers : v # w => task'[v] = task[v]
    BY <1>0, <1>10, FinishOthers DEF HideCommit
  <2> HIDE DEF j
  <2>6. hidden' = hidden \cup {j} /\ UNCHANGED <<account, counters, made>>
    BY <1>10 DEF HideCommit, j
  <2>7. TypeOK'
    BY <1>0, <2>1, <2>3, <2>5, <2>6 DEF TypeOK
  <2>8. LocalsSet'
    <3>1. \A v \in Workers : task[v].rows \subseteq JobIds
      BY <1>0, TaskFields
    <3> QED
      BY <1>0, <2>4, <2>5, <3>1, IdleTyped DEF LocalsSet
  <2>9. HiddenMarked'
    <3>1. \A i \in hidden' : i \in JobIds /\ jobs'[i] # Fresh
                               /\ (Stored(i)' => jobs'[i].deleted)
      BY <1>0, <2>1, <2>2, <2>3, <2>4, <2>6 DEF HiddenMarked, TypeOK
    <3> QED
      BY <1>0, <2>5, <2>6, <3>1, IdleTyped DEF HiddenMarked
  <2>10. ServedRight'
    <3>1. \A v \in Workers : task[v].rows \subseteq JobIds
      BY <1>0, TaskFields
    <3> QED
      BY <1>0, <2>4, <2>5, <3>1, IdleTyped DEF ServedRight
  <2> QED
    BY <2>7, <2>8, <2>9, <2>10 DEF JobsInv
<1>11. ASSUME NEW w \in Workers, EraseCommit(w)
       PROVE  JobsInv'
  <2>1. task[w].user \in Users
    BY <1>0, <1>11 DEF EraseCommit, LocalsSet
  <2>2. \A i \in JobIds : jobs'[i] = jobs[i] \/ (jobs'[i] = Gone /\ Stored(i))
    BY <1>11 DEF EraseCommit
  <2>3. /\ task'[w] = Idle /\ task' \in [Workers -> Task]
        /\ \A v \in Workers : v # w => task'[v] = task[v]
    BY <1>0, <1>11, FinishOthers DEF EraseCommit
  <2>4. TypeOK'
    <3>1. jobs' \in [JobIds -> Job \cup {Fresh, Gone}]
      BY <1>0, <1>11 DEF EraseCommit, TypeOK
    <3>2. account' \in [Users -> Statuses \cup {"deleted"}]
      BY <1>0, <1>11 DEF EraseCommit, TypeOK
    <3> QED
      BY <1>0, <1>11, <2>3, <3>1, <3>2 DEF EraseCommit, TypeOK
  <2>5. \A i \in JobIds : /\ jobs[i] # Fresh => jobs'[i] # Fresh
                          /\ Stored(i)' => Stored(i) /\ jobs'[i] = jobs[i]
    BY <2>2 DEF Stored
  <2>6. LocalsSet'
    <3>1. \A v \in Workers : task[v].rows \subseteq JobIds
      BY <1>0, TaskFields
    <3> QED
      BY <1>0, <2>3, <2>5, <3>1, IdleTyped DEF LocalsSet
  <2>7. HiddenMarked'
    <3>1. hidden' = hidden /\ hidden \subseteq JobIds
      BY <1>0, <1>11 DEF EraseCommit, TypeOK
    <3> QED
      BY <1>0, <2>3, <2>5, <3>1, IdleTyped DEF HiddenMarked
  <2>8. ServedRight'
    <3>1. \A v \in Workers : task[v].rows \subseteq JobIds
      BY <1>0, TaskFields
    <3> QED
      BY <1>0, <2>3, <2>5, <3>1, IdleTyped DEF ServedRight
  <2> QED
    BY <2>4, <2>6, <2>7, <2>8 DEF JobsInv
<1>12. ASSUME NEW u \in Users, NEW st \in Statuses, SetStatus(u, st)
       PROVE  JobsInv'
  BY <1>0, <1>12 DEF SetStatus, JobsInv, TypeOK, LocalsSet, HiddenMarked,
                     ServedRight, Stored
<1>13. CASE Restart
  <2>1. task' \in [Workers -> Task] /\ \A v \in Workers : task'[v] = Idle
    BY <1>13, IdleTyped DEF Restart
  <2>2. TypeOK'
    BY <1>0, <1>13, <2>1 DEF Restart, TypeOK
  <2> QED
    BY <1>0, <1>13, <2>1, <2>2, IdleTyped
       DEF Restart, JobsInv, LocalsSet, HiddenMarked, ServedRight, Stored
<1>14. CASE UNCHANGED vars
  BY <1>0, <1>14 DEF vars, JobsInv, TypeOK, LocalsSet, HiddenMarked, ServedRight,
                     Stored
<1> QED
  BY <1>1, <1>2, <1>3, <1>4, <1>5, <1>6, <1>7, <1>8, <1>9, <1>10, <1>11, <1>12,
     <1>13, <1>14 DEF Next, Embed, Extract, Verify, NotFound, Kinds

(* The invariant holds from the start.                                     *)
LEMMA JobsStart == Init => JobsInv
BY JobFacts, IdleTyped DEF Init, JobsInv, TypeOK, LocalsSet, HiddenMarked,
   ServedRight, Stored, Kinds, Statuses

(* The inductive invariant of the jobs handlers.                           *)
THEOREM JobsInvariant == Spec => []JobsInv
BY JobsStart, JobsStep, PTL DEF Spec

(* The handlers keep the types of the tables and of their own variables.   *)
THEOREM JobsTypeCorrect == Spec => []TypeOK
<1>1. JobsInv => TypeOK
  BY DEF JobsInv
<1> QED
  BY <1>1, JobsInvariant, PTL

(* Whatever overlaps it, a request is served its owner's jobs only, and    *)
(* none whose deletion was answered before the request arrived.            *)
THEOREM OnlyOwnVisibleJobs == Spec => []ServedRight
<1>1. JobsInv => ServedRight
  BY DEF JobsInv
<1> QED
  BY <1>1, JobsInvariant, PTL

-----------------------------------------------------------------------------
(* A database that enforces foreign keys refuses a row whose account is    *)
(* gone, and an account some row of which the deletion has not seen.       *)
LEMMA OwnersStep ==
  ASSUME FkEnforced
  PROVE  JobsInv /\ JobsHaveOwners /\ [Next]_vars => JobsHaveOwners'
<1> SUFFICES ASSUME JobsInv, JobsHaveOwners, [Next]_vars PROVE JobsHaveOwners'
  OBVIOUS
<1> USE JobFacts
<1>0. TypeOK /\ LocalsSet
  BY DEF JobsInv
<1>1. ASSUME NEW w \in Workers, NEW j \in JobIds, InsertCommit(w, j)
      PROVE  JobsHaveOwners'
  <2> DEFINE row == [owner |-> task[w].user, kind |-> task[w].kind, deleted |-> FALSE]
  <2>1. account[task[w].user] # "deleted" /\ account' = account
    BY <1>1 DEF InsertCommit, OwnerReferenced
  <2>2. jobs'[j] = row /\ \A i \in JobIds : i # j => jobs'[i] = jobs[i]
    BY <1>0, <1>1 DEF InsertCommit, TypeOK
  <2> QED
    BY <2>1, <2>2 DEF JobsHaveOwners, Stored
<1>2. ASSUME NEW w \in Workers, HideCommit(w)
      PROVE  JobsHaveOwners'
  <2> DEFINE j == task[w].job
  <2>1. j \in JobIds /\ jobs[j] \in Job /\ Stored(j) /\ account' = account
    BY <1>0, <1>2 DEF HideCommit, LocalsSet, TypeOK, Stored
  <2>2. jobs'[j].owner = jobs[j].owner /\ \A i \in JobIds : i # j => jobs'[i] = jobs[i]
    BY <1>0, <1>2, <2>1 DEF HideCommit, TypeOK, Hidden, Job
  <2> QED
    BY <2>1, <2>2 DEF JobsHaveOwners, Stored
<1>3. ASSUME NEW w \in Workers, EraseCommit(w)
      PROVE  JobsHaveOwners'
  <2> DEFINE u == task[w].user
  <2>1. JobsOf(u) \subseteq task[w].rows
    BY <1>3 DEF EraseCommit, NoneUnseen
  <2>2. \A i \in JobIds : Stored(i)' =>
           Stored(i) /\ jobs'[i] = jobs[i] /\ i \notin task[w].rows
    BY <1>3 DEF EraseCommit, Stored
  <2>3. \A i \in JobIds : Stored(i)' => jobs'[i].owner # u
    BY <2>1, <2>2 DEF JobsOf
  <2>4. \A v \in Users : v # u => account'[v] = account[v]
    BY <1>0, <1>3 DEF EraseCommit, TypeOK
  <2>5. \A i \in JobIds : Stored(i) => jobs[i].owner \in Users
    BY <1>0 DEF TypeOK, Stored, Job
  <2> QED
    BY <2>2, <2>3, <2>4, <2>5 DEF JobsHaveOwners
<1>4. ASSUME NEW u \in Users, NEW st \in Statuses, SetStatus(u, st)
      PROVE  JobsHaveOwners'
  <2>1. \A v \in Users : account[v] # "deleted" => account'[v] # "deleted"
    BY <1>0, <1>4 DEF SetStatus, TypeOK, Statuses
  <2>2. \A i \in JobIds : Stored(i) => jobs[i].owner \in Users
    BY <1>0 DEF TypeOK, Stored, Job
  <2> QED
    BY <1>4, <2>1, <2>2 DEF SetStatus, JobsHaveOwners, Stored
<1>5. CASE UNCHANGED <<jobs, account>>
  BY <1>5 DEF JobsHaveOwners, Stored
<1> QED
  BY <1>1, <1>2, <1>3, <1>4, <1>5
     DEF Next, Embed, Extract, Verify, NotFound, vars, Authenticate, Process,
         GetSelect, HideSelect, Refuse, InsertFails,
         CountAndReply, ListSelect, Serve, HideFails, EraseSelect, EraseFails,
         Abort, Restart

(* On a database that enforces foreign keys no job outlives its account,   *)
(* not even one that was being processed when the account was deleted.     *)
THEOREM NoOrphanJobs ==
  ASSUME FkEnforced PROVE Spec => []JobsHaveOwners
<1>1. Init => JobsHaveOwners
  BY DEF Init, JobsHaveOwners, Stored
<1>2. JobsInv /\ JobsHaveOwners /\ [Next]_vars => JobsHaveOwners'
  BY OwnersStep
<1> QED
  BY <1>1, <1>2, JobsInvariant, PTL DEF Spec

(* No step brings back a deleted job or gives one to another account.      *)
THEOREM DeletedJobsStay == Spec => DeleteIsFinal
<1>1. JobsInv /\ [Next]_vars => [KeepsJobs]_vars
  <2> SUFFICES ASSUME JobsInv, Next PROVE KeepsJobs
    BY DEF vars
  <2> USE JobFacts
  <2>0. TypeOK /\ LocalsSet
    BY DEF JobsInv
  <2>1. ASSUME NEW w \in Workers, NEW j \in JobIds, InsertCommit(w, j)
        PROVE  KeepsJobs
    <3>1. jobs[j] = Fresh /\ \A i \in JobIds : i # j => jobs'[i] = jobs[i]
      BY <2>0, <2>1 DEF InsertCommit, Unused, TypeOK
    <3> QED
      BY <3>1 DEF KeepsJobs, Stored
  <2>2. ASSUME NEW w \in Workers, HideCommit(w)
        PROVE  KeepsJobs
    <3> DEFINE j == task[w].job
    <3>1. j \in JobIds /\ jobs[j] \in Job /\ jobs[j] # Gone
      BY <2>0, <2>2 DEF HideCommit, LocalsSet, TypeOK, Stored
    <3>2. jobs'[j] = Hidden(jobs[j]) /\ \A i \in JobIds : i # j => jobs'[i] = jobs[i]
      BY <2>0, <2>2, <3>1 DEF HideCommit, TypeOK
    <3>3. /\ Hidden(jobs[j]).owner = jobs[j].owner
          /\ Hidden(jobs[j]).kind = jobs[j].kind
          /\ Hidden(jobs[j]).deleted
      BY <3>1 DEF Hidden, Job
    <3> QED
      BY <3>1, <3>2, <3>3 DEF KeepsJobs
  <2>3. ASSUME NEW w \in Workers, EraseCommit(w)
        PROVE  KeepsJobs
    <3>1. \A i \in JobIds : jobs'[i] = jobs[i] \/ (jobs'[i] = Gone /\ Stored(i))
      BY <2>3 DEF EraseCommit
    <3> QED
      BY <3>1 DEF KeepsJobs, Stored
  <2>4. CASE jobs' = jobs
    BY <2>4 DEF KeepsJobs, Stored
  <2> QED
    BY <2>1, <2>2, <2>3, <2>4
       DEF Next, Embed, Extract, Verify, NotFound, Authenticate, Process,
           GetSelect, HideSelect, Refuse, InsertFails,
           CountAndReply, ListSelect, Serve, HideFails, EraseSelect, EraseFails,
           Abort, SetStatus, Restart
<1> QED
  BY <1>1, JobsInvariant, PTL DEF Spec, DeleteIsFinal

-----------------------------------------------------------------------------
(* A step of one worker that neither was nor is about to count a job.      *)
LEMMA CountingSame ==
  ASSUME TypeOK, NEW w \in Workers, task[w].pc # "count", task'[w].pc # "count",
         \A v \in Workers : v # w => task'[v] = task[v]
  PROVE  \A k \in Kinds : Counting(k)' = Counting(k)
BY DEF Counting

(* The requests about to count are finitely many.                          *)
LEMMA CountingFinite ==
  ASSUME IsFiniteSet(Workers), NEW k \in Kinds
  PROVE  IsFiniteSet(Counting(k)) /\ Cardinality(Counting(k)) \in Nat
<1>1. Counting(k) \subseteq Workers
  BY DEF Counting
<1> QED
  BY <1>1, FS_Subset, FS_CardinalityType

(* A commit makes one request owe its increment, an increment pays it.     *)
LEMMA CountersStep ==
  ASSUME IsFiniteSet(Workers)
  PROVE  JobsInv /\ CountersExact /\ [Next]_vars => CountersExact'
<1> SUFFICES ASSUME JobsInv, CountersExact, [Next]_vars PROVE CountersExact'
  OBVIOUS
<1> USE JobFacts
<1>0. TypeOK /\ LocalsSet
  BY DEF JobsInv
<1>1. ASSUME NEW w \in Workers, NEW j \in JobIds, InsertCommit(w, j)
      PROVE  CountersExact'
  <2> PICK k \in Kinds : k = task[w].kind
    BY <1>0, TaskFields
  <2>1. task[w].pc = "insert"
    BY <1>1 DEF InsertCommit
  <2>2. /\ task'[w].pc = "count" /\ task'[w].kind = k
        /\ \A v \in Workers : v # w => task'[v] = task[v]
    BY <1>0, <1>1 DEF InsertCommit, TypeOK, Task
  <2>3. Counting(k)' = Counting(k) \cup {w} /\ w \notin Counting(k)
    BY <2>1, <2>2 DEF Counting
  <2>4. \A i \in Kinds : i # k => Counting(i)' = Counting(i)
    BY <2>1, <2>2 DEF Counting
  <2>5. Cardinality(Counting(k)') = Cardinality(Counting(k)) + 1
    BY <2>1, <2>3, CountingFinite, FS_AddElement
  <2>6. /\ counters' = counters /\ made'[k] = made[k] + 1
        /\ \A i \in Kinds : i # k => made'[i] = made[i]
    BY <1>0, <1>1, <2>1 DEF InsertCommit, TypeOK
  <2>7. \A i \in Kinds : /\ counters[i] \in Nat /\ made[i] \in Nat
                          /\ Cardinality(Counting(i)) \in Nat
    BY <1>0, CountingFinite DEF TypeOK
  <2> SUFFICES ASSUME NEW i \in Kinds
               PROVE  counters'[i] + Cardinality(Counting(i)') = made'[i]
    BY DEF CountersExact
  <2>8. counters[i] + Cardinality(Counting(i)) = made[i]
    BY DEF CountersExact
  <2>9. CASE i = k
    BY <2>5, <2>6, <2>7, <2>8, <2>9
  <2>10. CASE i # k
    BY <2>4, <2>6, <2>8, <2>10
  <2> QED
    BY <2>9, <2>10
<1>2. ASSUME NEW w \in Workers, CountAndReply(w)
      PROVE  CountersExact'
  <2> PICK k \in Kinds : k = task[w].kind
    BY <1>0, TaskFields
  <2>1. task[w].pc = "count"
    BY <1>2 DEF CountAndReply
  <2>2. task'[w].pc = "idle" /\ \A v \in Workers : v # w => task'[v] = task[v]
    BY <1>0, <1>2, FinishOthers, IdleTyped DEF CountAndReply
  <2>3. Counting(k)' = Counting(k) \ {w} /\ w \in Counting(k)
    BY <2>1, <2>2 DEF Counting
  <2>4. \A i \in Kinds : i # k => Counting(i)' = Counting(i)
    BY <2>1, <2>2 DEF Counting
  <2>5. Cardinality(Counting(k)') = Cardinality(Counting(k)) - 1
    BY <2>1, <2>3, CountingFinite, FS_RemoveElement
  <2>6. /\ made' = made /\ counters'[k] = counters[k] + 1
        /\ \A i \in Kinds : i # k => counters'[i] = counters[i]
    BY <1>0, <1>2, <2>1 DEF CountAndReply, TypeOK
  <2>7. \A i \in Kinds : /\ counters[i] \in Nat /\ made[i] \in Nat
                          /\ Cardinality(Counting(i)) \in Nat
    BY <1>0, CountingFinite DEF TypeOK
  <2> SUFFICES ASSUME NEW i \in Kinds
               PROVE  counters'[i] + Cardinality(Counting(i)') = made'[i]
    BY DEF CountersExact
  <2>8. counters[i] + Cardinality(Counting(i)) = made[i]
    BY DEF CountersExact
  <2>9. CASE i = k
    BY <2>5, <2>6, <2>7, <2>8, <2>9
  <2>10. CASE i # k
    BY <2>4, <2>6, <2>8, <2>10
  <2> QED
    BY <2>9, <2>10
<1>3. CASE Restart
  <2>1. \A k \in Kinds : Counting(k)' = {}
    BY <1>3, IdleTyped DEF Restart, Counting
  <2>2. \A k \in Kinds : counters'[k] = 0 /\ made'[k] = 0
    BY <1>3 DEF Restart
  <2>3. Cardinality({}) = 0
    BY FS_EmptySet
  <2> QED
    BY <2>1, <2>2, <2>3 DEF CountersExact
<1>4. ASSUME NEW w \in Workers, UNCHANGED <<counters, made>>,
             task[w].pc # "count", task'[w].pc # "count",
             \A v \in Workers : v # w => task'[v] = task[v]
      PROVE  CountersExact'
  BY <1>0, <1>4, CountingSame DEF CountersExact
<1>5. ASSUME NEW w \in Workers, Finish(w), UNCHANGED <<counters, made>>,
             task[w].pc # "count"
      PROVE  CountersExact'
  BY <1>0, <1>4, <1>5, FinishOthers, IdleTyped
<1>6. ASSUME NEW w \in Workers,
             \/ Refuse(w) \/ InsertFails(w) \/ Serve(w) \/ HideCommit(w)
             \/ HideFails(w) \/ EraseCommit(w) \/ EraseFails(w) \/ Abort(w)
      PROVE  CountersExact'
  BY <1>5, <1>6 DEF Refuse, InsertFails, Serve, HideCommit, HideFails, EraseCommit,
                    EraseFails, Abort
<1>7. ASSUME NEW w \in Workers, NEW u \in Users, Authenticate(w, u)
      PROVE  CountersExact'
  <2>1. /\ task[w].pc = "idle" /\ task'[w].pc = "authed"
        /\ \A v \in Workers : v # w => task'[v] = task[v]
    BY <1>0, <1>7, IdleTyped DEF Authenticate, TypeOK, Idle
  <2> QED
    BY <1>4, <1>7, <2>1 DEF Authenticate
<1>8. CASE UNCHANGED <<task, counters, made>>
  BY <1>8 DEF CountersExact, Counting
<1>9. ASSUME NEW w \in Workers,
             \/ \E k \in Kinds : Process(w, k)
             \/ ListSelect(w) \/ EraseSelect(w)
             \/ \E j \in JobIds : GetSelect(w, j) \/ HideSelect(w, j)
       PROVE  CountersExact'
  <2>1. /\ task[w].pc = "authed" /\ task'[w].pc # "count"
        /\ \A v \in Workers : v # w => task'[v] = task[v]
    BY <1>0, <1>9 DEF Process, ListSelect, EraseSelect, GetSelect, HideSelect,
                       TypeOK, Task
  <2> QED
    BY <1>4, <1>9, <2>1 DEF Process, ListSelect, EraseSelect, GetSelect, HideSelect
<1> QED
  BY <1>1, <1>2, <1>3, <1>6, <1>7, <1>8, <1>9
     DEF Next, Embed, Extract, Verify,
     NotFound, Kinds, vars, SetStatus

(* The counters lag the committed rows by exactly the requests that have   *)
(* not come to their increment.                                            *)
THEOREM CountersFollowRows ==
  ASSUME IsFiniteSet(Workers) PROVE Spec => []CountersExact
<1>1. Init => CountersExact
  <2> SUFFICES ASSUME Init PROVE CountersExact
    OBVIOUS
  <2>1. \A k \in Kinds : Counting(k) = {} /\ counters[k] = 0 /\ made[k] = 0
    BY IdleTyped DEF Init, Counting
  <2> QED
    BY <2>1, FS_EmptySet DEF CountersExact
<1>2. JobsInv /\ CountersExact /\ [Next]_vars => CountersExact'
  BY CountersStep
<1> QED
  BY <1>1, <1>2, JobsInvariant, PTL DEF Spec
=============================================================================
