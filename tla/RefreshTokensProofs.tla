------------------------ MODULE RefreshTokensProofs ------------------------
(***************************************************************************)
(* Proofs about RefreshTokens, for every set of users, session ids and     *)
(* workers, every token lifetime and every bound on the clock.             *)
(*                                                                         *)
(* BaseInv is inductive whatever the clients do; SerialInv adds what holds *)
(* of the logins of SerialFamilies, any set of logins.  Most steps only    *)
(* move one worker to its next statement, so they share one lemma          *)
(* (TaskStep...); the six steps that commit something have a lemma each.   *)
(***************************************************************************)
EXTENDS RefreshTokens, TLAPS

-----------------------------------------------------------------------------
(* Rows.                                                                   *)

(* A stored row has the columns of models.Session.                         *)
LEMMA StoredIsRow ==
  ASSUME TypeOK, NEW s \in SessionIds
  PROVE  /\ Stored(s) <=> sessions[s] \in Row
         /\ sessions[s] \in Row => sessions[s] # Fresh /\ sessions[s] # Gone
BY ConstantsOK DEF TypeOK, Stored, ConstantsOK

(* revoke_session and _revoke_family change revoked_at only.               *)
LEMMA RevokedIsRow ==
  ASSUME NEW r \in Row
  PROVE  /\ Revoked(r) \in Row
         /\ Revoked(r).owner = r.owner
         /\ Revoked(r).family = r.family
         /\ Revoked(r).next = r.next
         /\ Revoked(r).revoked
BY DEF Revoked, Row

(* rotate revokes the presented row and links it to its successor.         *)
LEMMA SupersededIsRow ==
  ASSUME NEW r \in Row, NEW n \in SessionIds
  PROVE  /\ Superseded(r, n) \in Row
         /\ Superseded(r, n).owner = r.owner
         /\ Superseded(r, n).family = r.family
         /\ Superseded(r, n).next = n
         /\ Superseded(r, n).revoked
BY DEF Superseded, Row

-----------------------------------------------------------------------------
(* Steps that only move one worker to its next statement.                  *)

(* What BaseInv asks of a worker w that goes on with the local state t.    *)
TaskFits(w, t) ==
  /\ t \in Task
  /\ t.pc \in {"authed", "issue", "rotate", "flushed", "checked",
               "delete", "status"} => t.user \in Users
  /\ t.pc \in {"replay", "burn", "rotate", "flushed", "checked", "revoke"}
       <=> t.fam # None
  /\ t.fam # None =>
       /\ t.tok # None
       /\ sessions[t.fam] # Fresh
       /\ sessions[t.tok] # Fresh
       /\ Stored(t.tok) => sessions[t.tok].family = t.fam
  /\ t.pc \in {"rotate", "flushed", "checked"} /\ Stored(t.tok) =>
       sessions[t.tok].owner = t.user
  /\ t.pc \in {"flushed", "checked"} => Stored(t.tok)
  /\ t.new # None <=> t.pc \in {"flushed", "checked"}
  /\ t.new # None => /\ sessions[t.new] = Fresh
                     /\ \A v \in Workers \ {w} : task[v].new # t.new
  /\ \A s \in t.rows :
       /\ sessions[s] # Fresh
       /\ t.pc = "burn" /\ Stored(s) => sessions[s].family = t.fam
       /\ t.pc = "delete" /\ Stored(s) => sessions[s].owner = t.user

(* BaseInv says this of every worker as it stands.                         *)
LEMMA TaskFitsNow ==
  ASSUME BaseInv, NEW w \in Workers
  PROVE  TaskFits(w, task[w])
<1> USE DEF BaseInv
<1>1. task[w] \in Task
  BY DEF TypeOK
<1> QED
  BY <1>1 DEF TaskFits, LocalsSet, ReadsStillHold, NewIdsPrivate, Holding

(* A worker whose request has ended asks nothing.                          *)
LEMMA IdleFits ==
  ASSUME NEW w \in Workers
  PROVE  TaskFits(w, Idle)
BY ConstantsOK DEF TaskFits, Idle, Task, Steps, Statuses, ConstantsOK

(* Moving one worker to a fitting local state keeps BaseInv.               *)
LEMMA TaskStepBase ==
  ASSUME BaseInv, NEW w \in Workers, NEW t, TaskFits(w, t),
         task' = [task EXCEPT ![w] = t],
         UNCHANGED <<sessions, account, now, burned>>
  PROVE  BaseInv'
<1> USE DEF BaseInv
<1>1. \A v \in Workers : task'[v] = IF v = w THEN t ELSE task[v]
  BY DEF TypeOK
<1>2. TypeOK'
  BY DEF TypeOK, TaskFits
<1>3. LocalsSet'
  BY <1>1 DEF LocalsSet, Holding, TaskFits
<1>4. ReadsStillHold'
  BY <1>1 DEF ReadsStillHold, Holding, Stored, TaskFits
<1>5. NewIdsPrivate'
  BY <1>1 DEF NewIdsPrivate, TaskFits
<1>6. FamiliesOwned' /\ OwnersExist' /\ ChainsAreLinked'
  BY DEF FamiliesOwned, OwnersExist, ChainsAreLinked, Stored
<1> QED
  BY <1>2, <1>3, <1>4, <1>5, <1>6

(* Ending a request without a write keeps BaseInv.                         *)
LEMMA FinishBase ==
  ASSUME BaseInv, NEW w \in Workers, Finish(w),
         UNCHANGED <<sessions, account, now, burned>>
  PROVE  BaseInv'
BY IdleFits, TaskStepBase DEF Finish

-----------------------------------------------------------------------------
(* Handlers' first and middle statements, one lemma per action.            *)

(* login that found an account and goes on to issue a token keeps BaseInv. *)
LEMMA LoginSelectBase ==
  ASSUME BaseInv, NEW w \in Workers, NEW u \in Users, LoginSelect(w, u)
  PROVE  BaseInv'
<1>1. TaskFits(w, [Idle EXCEPT !.pc = "issue", !.user = u])
  BY ConstantsOK DEF TaskFits, Idle, Task, Steps, Statuses, ConstantsOK
<1> QED
  BY <1>1, TaskStepBase DEF LoginSelect, Start

(* get_current_user keeps BaseInv: the account it read exists.             *)
LEMMA AuthenticateBase ==
  ASSUME BaseInv, NEW w \in Workers, NEW u \in Users, Authenticate(w, u)
  PROVE  BaseInv'
<1>1. TaskFits(w, [Idle EXCEPT !.pc = "authed", !.user = u])
  BY ConstantsOK DEF TaskFits, Idle, Task, Steps, Statuses, ConstantsOK
<1> QED
  BY <1>1, TaskStepBase DEF Authenticate, Start

(* The administrator's SELECT of an account keeps BaseInv.                 *)
LEMMA SetStatusSelectBase ==
  ASSUME BaseInv, NEW w \in Workers, NEW u \in Users, NEW st \in Statuses,
         SetStatusSelect(w, u, st)
  PROVE  BaseInv'
<1>1. TaskFits(w, [Idle EXCEPT !.pc = "status", !.user = u, !.st = st])
  BY ConstantsOK DEF TaskFits, Idle, Task, Steps, Statuses, ConstantsOK
<1> QED
  BY <1>1, TaskStepBase DEF SetStatusSelect, Start

(* A row just read tells its family, which is no longer a fresh id.        *)
LEMMA ReadRow ==
  ASSUME BaseInv, NEW s \in SessionIds, Stored(s)
  PROVE  /\ sessions[s] # Fresh
         /\ sessions[s].owner \in Users
         /\ sessions[s].family \in SessionIds
         /\ sessions[s].family # None
         /\ sessions[sessions[s].family] # Fresh
         /\ s # None
<1>1. sessions[s] \in Row
  BY StoredIsRow DEF BaseInv
<1>2. sessions[s].family \in SessionIds /\ sessions[s].owner \in Users
  BY <1>1 DEF Row
<1> QED
  BY <1>2, ConstantsOK DEF ConstantsOK, BaseInv, FamiliesOwned, Stored

(* refresh with a revoked token keeps BaseInv: its family is the row's.    *)
LEMMA RefreshReplayBase ==
  ASSUME BaseInv, NEW w \in Workers, NEW s \in SessionIds, RefreshReplay(w, s)
  PROVE  BaseInv'
<1>1. TaskFits(w, [Idle EXCEPT !.pc = "replay", !.tok = s,
                               !.fam = sessions[s].family])
  BY ReadRow, ConstantsOK DEF RefreshReplay, TaskFits, Idle, Task, Steps, Statuses, ConstantsOK
<1> QED
  BY <1>1, TaskStepBase DEF RefreshReplay, Start

(* refresh with a live token keeps BaseInv: it copies owner and family of  *)
(* the row it read.                                                        *)
LEMMA RefreshLiveBase ==
  ASSUME BaseInv, NEW w \in Workers, NEW s \in SessionIds, RefreshLive(w, s)
  PROVE  BaseInv'
<1>1. TaskFits(w, [Idle EXCEPT !.pc = "rotate", !.tok = s,
                               !.fam = sessions[s].family,
                               !.user = sessions[s].owner])
  BY ReadRow, ConstantsOK
     DEF RefreshLive, Live, TaskFits, Idle, Task, Steps, Statuses, ConstantsOK
<1> QED
  BY <1>1, TaskStepBase DEF RefreshLive, Start

(* logout that found a live row keeps BaseInv.                             *)
LEMMA LogoutSelectBase ==
  ASSUME BaseInv, NEW w \in Workers, NEW s \in SessionIds, LogoutSelect(w, s)
  PROVE  BaseInv'
<1>1. TaskFits(w, [Idle EXCEPT !.pc = "revoke", !.tok = s,
                               !.fam = sessions[s].family])
  BY ReadRow, ConstantsOK
     DEF LogoutSelect, Live, TaskFits, Idle, Task, Steps, Statuses, ConstantsOK
<1> QED
  BY <1>1, TaskStepBase DEF LogoutSelect, Start

(* DELETE /sessions/{id} of the caller's own live row keeps BaseInv.       *)
LEMMA RevokeOneSelectBase ==
  ASSUME BaseInv, NEW w \in Workers, NEW s \in SessionIds, RevokeOneSelect(w, s)
  PROVE  BaseInv'
<1>1. TaskFits(w, [task[w] EXCEPT !.pc = "revoke", !.tok = s,
                                  !.fam = sessions[s].family])
  BY ReadRow, TaskFitsNow, ConstantsOK
     DEF RevokeOneSelect, Live, TaskFits, Task, Steps, ConstantsOK
<1> QED
  BY <1>1, TaskStepBase DEF RevokeOneSelect, BaseInv, TypeOK

(* The SELECT of a family about to be revoked keeps BaseInv: every row it  *)
(* returns belongs to that family.                                         *)
LEMMA BurnSelectBase ==
  ASSUME BaseInv, NEW w \in Workers, BurnSelect(w)
  PROVE  BaseInv'
<1> DEFINE seen == {s \in FamilyRows(task[w].fam) : Live(s)}
<1>1. /\ seen \subseteq SessionIds
      /\ \A s \in seen : /\ sessions[s] # Fresh
                          /\ sessions[s].family = task[w].fam
  BY DEF FamilyRows, Live, Stored
<1>2. TaskFits(w, [task[w] EXCEPT !.pc = "burn", !.rows = seen])
  <2> HIDE DEF seen
  <2> QED
    BY <1>1, TaskFitsNow DEF BurnSelect, TaskFits, Task, Steps
<1> QED
  BY <1>2, TaskStepBase DEF BurnSelect, BaseInv, TypeOK

(* The SELECT of the rows a deletion cascades to keeps BaseInv: every row  *)
(* it returns belongs to the caller.                                       *)
LEMMA DeleteSelectBase ==
  ASSUME BaseInv, NEW w \in Workers, DeleteSelect(w)
  PROVE  BaseInv'
<1> DEFINE seen == RowsOf(task[w].user)
<1>1. /\ seen \subseteq SessionIds
      /\ \A s \in seen : /\ sessions[s] # Fresh
                          /\ sessions[s].owner = task[w].user
  BY DEF RowsOf, Stored
<1>2. TaskFits(w, [task[w] EXCEPT !.pc = "delete", !.rows = seen])
  <2> HIDE DEF seen
  <2> QED
    BY <1>1, TaskFitsNow DEF DeleteSelect, TaskFits, Task, Steps
<1> QED
  BY <1>2, TaskStepBase DEF DeleteSelect, BaseInv, TypeOK

(* The flush of a rotation keeps BaseInv: the successor's id belongs to no *)
(* row and to no other transaction.                                        *)
LEMMA RotateFlushBase ==
  ASSUME BaseInv, NEW w \in Workers, NEW n \in SessionIds, RotateFlush(w, n)
  PROVE  BaseInv'
<1>1. now + Lifetime \in Nat
  BY ConstantsOK DEF BaseInv, TypeOK, ConstantsOK
<1>2. TaskFits(w, [task[w] EXCEPT !.pc = "flushed", !.new = n,
                                  !.exp = now + Lifetime])
  BY <1>1, TaskFitsNow, ConstantsOK
     DEF RotateFlush, Unused, TaskFits, Task, Steps, ConstantsOK
<1> QED
  BY <1>2, TaskStepBase DEF RotateFlush, BaseInv, TypeOK

(* refresh that finds the owner active keeps BaseInv.                      *)
LEMMA RefreshCheckBase ==
  ASSUME BaseInv, NEW w \in Workers, RefreshCheck(w)
  PROVE  BaseInv'
<1>1. TaskFits(w, [task[w] EXCEPT !.pc = "checked"])
  BY TaskFitsNow DEF RefreshCheck, TaskFits, Task, Steps
<1> QED
  BY <1>1, TaskStepBase DEF RefreshCheck, BaseInv, TypeOK

-----------------------------------------------------------------------------
(* Commits.                                                                *)

(* A step that does nothing to the table but set revoked_at.               *)
OnlyRevokes ==
  /\ sessions' \in [SessionIds -> Row \cup {Fresh, Gone}]
  /\ \A s \in SessionIds :
       /\ sessions[s] \in {Fresh, Gone} => sessions'[s] = sessions[s]
       /\ sessions[s] \in Row =>
            /\ sessions'[s] \in Row
            /\ sessions'[s].owner = sessions[s].owner
            /\ sessions'[s].family = sessions[s].family
            /\ sessions'[s].next = sessions[s].next
            /\ sessions[s].revoked => sessions'[s].revoked

(* A commit that only revokes rows, and ends its request, keeps BaseInv.   *)
LEMMA RevokingKeepsBase ==
  ASSUME BaseInv, NEW w \in Workers, OnlyRevokes, Finish(w),
         account' = account, now' = now, burned' \subseteq SessionIds
  PROVE  BaseInv'
<1> USE DEF BaseInv
<1>0. \A s \in SessionIds : (Stored(s) <=> sessions[s] \in Row) /\ (Stored(s)' <=> Stored(s))
                 /\ (sessions[s] = Fresh <=> sessions'[s] = Fresh)
  BY StoredIsRow, ConstantsOK DEF OnlyRevokes, Stored, ConstantsOK
<1>1. TypeOK'
  BY DEF TypeOK, OnlyRevokes, Finish, Idle, Task, Steps, Statuses
<1>2. LocalsSet'
  BY ConstantsOK DEF LocalsSet, Finish, Idle, TypeOK, Task, ConstantsOK, Holding
<1>3. ReadsStillHold'
  BY <1>0, ConstantsOK DEF ReadsStillHold, LocalsSet, Finish, Idle, TypeOK, Task, Holding, OnlyRevokes, ConstantsOK
<1>4. NewIdsPrivate'
  BY <1>0 DEF NewIdsPrivate, Finish, Idle, TypeOK, Task, Holding, OnlyRevokes
<1>5. FamiliesOwned'
  BY <1>0 DEF FamiliesOwned, OnlyRevokes, TypeOK, Row
<1>6. OwnersExist'
  BY <1>0 DEF OwnersExist, OnlyRevokes
<1>7. ChainsAreLinked'
  BY <1>0, ConstantsOK DEF ChainsAreLinked, OnlyRevokes, ConstantsOK, TypeOK, Row
<1> QED
  BY <1>1, <1>2, <1>3, <1>4, <1>5, <1>6, <1>7

(* The commit of a family revocation only revokes rows.                    *)
LEMMA BurnCommitRevokes ==
  ASSUME BaseInv, NEW w \in Workers, BurnCommit(w)
  PROVE  OnlyRevokes
BY StoredIsRow, RevokedIsRow DEF BurnCommit, OnlyRevokes, BaseInv, TypeOK

(* The commit of a family revocation keeps BaseInv.                        *)
LEMMA BurnCommitBase ==
  ASSUME BaseInv, NEW w \in Workers, BurnCommit(w)
  PROVE  BaseInv'
<1>1. burned' \subseteq SessionIds
  BY ConstantsOK DEF BurnCommit, BaseInv, TypeOK, LocalsSet, Task, ConstantsOK
<1> QED
  BY <1>1, BurnCommitRevokes, RevokingKeepsBase DEF BurnCommit

(* The commit of logout or revoke_one only revokes a row.                  *)
LEMMA RevokeCommitRevokes ==
  ASSUME BaseInv, NEW w \in Workers, RevokeCommit(w)
  PROVE  OnlyRevokes
<1>1. task[w].tok \in SessionIds
  BY ConstantsOK DEF RevokeCommit, BaseInv, TypeOK, LocalsSet, Task, ConstantsOK
<1> QED
  BY <1>1, StoredIsRow, RevokedIsRow DEF RevokeCommit, OnlyRevokes, BaseInv, TypeOK

(* The commit of logout or revoke_one keeps BaseInv.                       *)
LEMMA RevokeCommitBase ==
  ASSUME BaseInv, NEW w \in Workers, RevokeCommit(w)
  PROVE  BaseInv'
BY RevokeCommitRevokes, RevokingKeepsBase DEF RevokeCommit, BaseInv, TypeOK

(* What the commit of a rotation leaves in the table.                      *)
LEMMA RefreshCommitRows ==
  ASSUME BaseInv, NEW w \in Workers, RefreshCommit(w)
  PROVE  /\ task[w].tok \in SessionIds /\ task[w].new \in SessionIds
         /\ task[w].fam \in SessionIds /\ task[w].user \in Users
         /\ Stored(task[w].tok) /\ sessions[task[w].new] = Fresh
         /\ sessions' \in [SessionIds -> Row \cup {Fresh, Gone}]
         /\ sessions'[task[w].tok] = Superseded(sessions[task[w].tok], task[w].new)
         /\ sessions'[task[w].new] = SuccessorRow(task[w])
         /\ SuccessorRow(task[w]) \in Row
         /\ \A s \in SessionIds \ {task[w].tok, task[w].new} : sessions'[s] = sessions[s]
<1> USE DEF BaseInv
<1>1. task[w].tok \in SessionIds /\ task[w].new \in SessionIds /\ task[w].fam \in SessionIds /\ task[w].user \in Users
  BY ConstantsOK DEF RefreshCommit, TypeOK, LocalsSet, Task, ConstantsOK, Holding
<1>2. Stored(task[w].tok) /\ sessions[task[w].new] = Fresh
  BY <1>1, ConstantsOK DEF RefreshCommit, NewIdsPrivate, ReadsStillHold, Holding, ConstantsOK
<1>3. SuccessorRow(task[w]) \in Row
  BY <1>1 DEF SuccessorRow, Row, TypeOK, Task
<1>4. task[w].tok # task[w].new
  BY <1>2 DEF Stored
<1>5. sessions[task[w].tok] \in Row
  BY <1>1, <1>2, StoredIsRow
<1>6. Superseded(sessions[task[w].tok], task[w].new) \in Row
  BY <1>1, <1>5, SupersededIsRow
<1> QED
  BY <1>1, <1>2, <1>3, <1>4, <1>6 DEF RefreshCommit, TypeOK

(* Seen from outside: k is the presented row, n its successor, both of     *)
(* family f and owner u; every other row is as before.                     *)
LEMMA RefreshCommitTable ==
  ASSUME BaseInv, NEW w \in Workers, RefreshCommit(w)
  PROVE  \E k, n, f \in SessionIds, u \in Users :
           /\ task[w].tok = k /\ task[w].new = n /\ task[w].fam = f /\ task[w].user = u
           /\ Stored(k) /\ sessions[n] = Fresh /\ sessions[f] # Fresh
           /\ sessions[k].owner = u /\ sessions[k].family = f
           /\ sessions' \in [SessionIds -> Row \cup {Fresh, Gone}]
           /\ sessions'[k].owner = u /\ sessions'[k].family = f
           /\ sessions'[k].next = n /\ sessions'[k].revoked
           /\ sessions'[n].owner = u /\ sessions'[n].family = f
           /\ sessions'[n].next = None /\ ~sessions'[n].revoked
           /\ \A s \in SessionIds \ {k, n} : sessions'[s] = sessions[s]
           /\ \A s \in SessionIds : Stored(s)' <=> Stored(s) \/ s = n
           /\ \A s \in SessionIds : sessions[s] # Fresh => sessions'[s] # Fresh
           /\ sessions'[n] # Fresh
<1> USE DEF BaseInv
<1>0. PICK k \in SessionIds, n \in SessionIds, f \in SessionIds, u \in Users :
        task[w].tok = k /\ task[w].new = n /\ task[w].fam = f /\ task[w].user = u
  BY RefreshCommitRows
<1>1. /\ Stored(k) /\ sessions[n] = Fresh
      /\ sessions' \in [SessionIds -> Row \cup {Fresh, Gone}]
      /\ sessions'[k] = Superseded(sessions[k], n)
      /\ sessions'[n] = SuccessorRow(task[w])
      /\ SuccessorRow(task[w]) \in Row
      /\ \A s \in SessionIds \ {k, n} : sessions'[s] = sessions[s]
  BY <1>0, RefreshCommitRows
<1>2. /\ sessions[k] \in Row /\ sessions[k].owner = u /\ sessions[k].family = f
      /\ sessions[f] # Fresh
  BY <1>0, <1>1, StoredIsRow, ConstantsOK DEF ReadsStillHold, RefreshCommit, ConstantsOK
<1>3. /\ sessions'[k] \in Row
      /\ sessions'[k].owner = u
      /\ sessions'[k].family = f
      /\ sessions'[k].next = n
      /\ sessions'[k].revoked
  BY <1>1, <1>2, SupersededIsRow
<1>4. /\ sessions'[n] \in Row
      /\ sessions'[n].owner = u
      /\ sessions'[n].family = f
      /\ sessions'[n].next = None
      /\ ~sessions'[n].revoked
  BY <1>0, <1>1 DEF SuccessorRow
<1>5. sessions'[k] \notin {Fresh, Gone} /\ sessions'[n] \notin {Fresh, Gone}
  BY <1>3, <1>4, ConstantsOK DEF ConstantsOK
<1>6. /\ \A s \in SessionIds : Stored(s)' <=> Stored(s) \/ s = n
      /\ \A s \in SessionIds : sessions[s] # Fresh => sessions'[s] # Fresh
  BY <1>5, <1>1 DEF Stored
<1> QED
  BY <1>0, <1>1, <1>2, <1>3, <1>4, <1>5, <1>6

(* The commit of a rotation keeps BaseInv: the presented row is revoked    *)
(* and linked to its successor in one step, and the account still exists.  *)
LEMMA RefreshCommitBase ==
  ASSUME BaseInv, NEW w \in Workers, RefreshCommit(w)
  PROVE  BaseInv'
<1> USE DEF BaseInv
<1>0. PICK k \in SessionIds, n \in SessionIds, f \in SessionIds, u \in Users :
        /\ task[w].tok = k /\ task[w].new = n /\ task[w].fam = f /\ task[w].user = u
        /\ Stored(k) /\ sessions[n] = Fresh /\ sessions[f] # Fresh
        /\ sessions[k].owner = u /\ sessions[k].family = f
        /\ sessions' \in [SessionIds -> Row \cup {Fresh, Gone}]
        /\ sessions'[k].owner = u /\ sessions'[k].family = f
        /\ sessions'[k].next = n /\ sessions'[k].revoked
        /\ sessions'[n].owner = u /\ sessions'[n].family = f
        /\ sessions'[n].next = None
        /\ \A s \in SessionIds \ {k, n} : sessions'[s] = sessions[s]
        /\ \A s \in SessionIds : Stored(s)' <=> Stored(s) \/ s = n
        /\ \A s \in SessionIds : sessions[s] # Fresh => sessions'[s] # Fresh
        /\ sessions'[n] # Fresh
  BY RefreshCommitTable
<1>5. TypeOK'
  BY <1>0 DEF RefreshCommit, TypeOK, Finish, Idle, Task, Steps, Statuses
<1>7. \A s \in SessionIds : Stored(s)' =>
        \/ /\ s = n
           /\ sessions'[s].owner = u /\ sessions'[s].family = f /\ sessions'[s].next = None
        \/ /\ s # n /\ Stored(s)
           /\ sessions'[s].owner = sessions[s].owner
           /\ sessions'[s].family = sessions[s].family
           /\ \/ sessions'[s] = sessions[s]
              \/ s = k /\ sessions'[s].next = n /\ sessions'[s].revoked
  BY <1>0 DEF Stored
<1>8. /\ account' = account
      /\ \A v \in Workers : task'[v] = IF v = w THEN Idle ELSE task[v]
      /\ \A v \in Workers \ {w} : task[v].new # n
  BY <1>0, ConstantsOK DEF RefreshCommit, Finish, NewIdsPrivate, TypeOK, ConstantsOK
<1>9. /\ Idle.fam = None /\ Idle.rows = {} /\ Idle.pc = "idle" /\ Idle.new = None
      /\ \A v \in Workers :
           /\ task[v].rows \subseteq SessionIds
           /\ task[v].fam \in SessionIds \cup {None}
           /\ task[v].tok \in SessionIds \cup {None}
           /\ task[v].new \in SessionIds \cup {None}
           /\ task[v].pc \in {"rotate", "flushed", "checked"} => task[v].fam # None
           /\ task[v].fam # None => task[v].tok # None
  BY DEF Idle, TypeOK, Task, LocalsSet
<1>10. LocalsSet'
  BY ConstantsOK DEF LocalsSet, RefreshCommit, Finish, Idle, TypeOK, Task, ConstantsOK, Holding
<1>11. ReadsStillHold'
  <2> SUFFICES ASSUME NEW v \in Workers \ {w}
      PROVE /\ task[v].fam # None =>
                 /\ sessions'[task[v].fam] # Fresh
                 /\ sessions'[task[v].tok] # Fresh
                 /\ (Stored(task[v].tok) \/ task[v].tok = n) =>
                      sessions'[task[v].tok].family = task[v].fam
            /\ task[v].pc \in {"rotate", "flushed", "checked"} /\ (Stored(task[v].tok) \/ task[v].tok = n) =>
                      sessions'[task[v].tok].owner = task[v].user
            /\ Holding(v) => Stored(task[v].tok)
            /\ \A s \in task[v].rows :
                 /\ sessions'[s] # Fresh
                 /\ task[v].pc = "burn" /\ (Stored(s) \/ s = n) => sessions'[s].family = task[v].fam
                 /\ task[v].pc = "delete" /\ (Stored(s) \/ s = n) => sessions'[s].owner = task[v].user
    BY <1>0, <1>8, <1>9 DEF ReadsStillHold, Holding
  <2> QED
    BY <1>0, <1>7, <1>9 DEF ReadsStillHold, Holding
<1>12. NewIdsPrivate'
  BY <1>0, <1>8, <1>9 DEF NewIdsPrivate, Stored
<1>13. FamiliesOwned'
  <2> SUFFICES ASSUME NEW s \in SessionIds, NEW t \in SessionIds, Stored(s)', Stored(t)'
               PROVE  /\ sessions'[sessions'[s].family] # Fresh
                      /\ sessions'[t].family = sessions'[s].family =>
                           sessions'[t].owner = sessions'[s].owner
    BY DEF FamiliesOwned
  <2>1. sessions[s].family \in SessionIds \/ s = n
    BY <1>7, StoredIsRow DEF Row
  <2> QED
    BY <1>0, <1>7, <2>1 DEF FamiliesOwned
<1>14. OwnersExist'
  BY <1>0, <1>7, <1>8 DEF OwnersExist
<1>15. ChainsAreLinked'
  <2> SUFFICES ASSUME NEW s \in SessionIds, NEW q, Stored(s)', sessions'[s].next = q, q # None
               PROVE  /\ sessions'[s].revoked
                      /\ Stored(q)'
                      /\ sessions'[q].family = sessions'[s].family
                      /\ sessions'[q].owner = sessions'[s].owner
    BY DEF ChainsAreLinked, Stored
  <2>1. CASE q = n /\ s = k /\ sessions'[s].revoked
    BY <2>1, <1>0
  <2>2. CASE sessions'[s] = sessions[s] /\ Stored(s)
    <3>1. q \in SessionIds /\ sessions[s].next = q
      BY <2>2, StoredIsRow DEF Row
    <3>2. sessions[s].revoked /\ Stored(q) /\ sessions[q].family = sessions[s].family
            /\ sessions[q].owner = sessions[s].owner
      BY <2>2, <3>1 DEF ChainsAreLinked
    <3> QED
      BY <2>2, <3>1, <3>2, <1>0, <1>7 DEF Stored
  <2> QED
    BY <1>0, <1>7, <2>1, <2>2
<1> QED
  BY <1>5, <1>10, <1>11, <1>12, <1>13, <1>14, <1>15

(* The commit of a login keeps BaseInv: the first row of a family no other *)
(* row has, of an account that still exists.                               *)
LEMMA LoginIssueBase ==
  ASSUME BaseInv, NEW w \in Workers, NEW s \in SessionIds, LoginIssue(w, s)
  PROVE  BaseInv'
<1> USE DEF BaseInv
<1>1. task[w].user \in Users
  BY DEF LoginIssue, LocalsSet
<1>2. /\ InitialRow(s, task[w].user) \in Row
      /\ InitialRow(s, task[w].user).owner = task[w].user
      /\ InitialRow(s, task[w].user).family = s
      /\ InitialRow(s, task[w].user).next = None
  BY <1>1, ConstantsOK DEF InitialRow, Row, TypeOK, ConstantsOK
<1>3. /\ sessions[s] = Fresh
      /\ sessions' \in [SessionIds -> Row \cup {Fresh, Gone}]
      /\ sessions'[s] = InitialRow(s, task[w].user)
      /\ \A r \in SessionIds \ {s} : sessions'[r] = sessions[r]
      /\ account' = account
      /\ \A v \in Workers : task'[v] = IF v = w THEN Idle ELSE task[v]
  BY <1>2 DEF LoginIssue, Unused, Finish, TypeOK
<1>4. /\ \A r \in SessionIds : Stored(r)' <=> Stored(r) \/ r = s
      /\ \A r \in SessionIds : sessions[r] # Fresh => sessions'[r] # Fresh
      /\ ~Stored(s)
  BY <1>2, <1>3, ConstantsOK DEF Stored, ConstantsOK
<1>5. TypeOK'
  BY <1>3 DEF LoginIssue, Finish, TypeOK, Idle, Task, Steps, Statuses
<1>6. LocalsSet'
  BY ConstantsOK DEF LoginIssue, LocalsSet, Finish, Idle, TypeOK, Task, Holding, ConstantsOK
<1>7. ReadsStillHold'
  BY <1>3, <1>4, ConstantsOK
     DEF ReadsStillHold, LocalsSet, Idle, TypeOK, Task, Holding, ConstantsOK
<1>8. NewIdsPrivate'
  BY <1>3 DEF LoginIssue, Unused, NewIdsPrivate, Idle, TypeOK, Task
<1>9. FamiliesOwned'
  <2>1. \A r \in SessionIds : Stored(r) => /\ sessions[r].family \in SessionIds
                                           /\ sessions[sessions[r].family] # Fresh
    BY ReadRow
  <2>2. \A r \in SessionIds : Stored(r)' =>
          \/ r = s /\ sessions'[r].family = s
          \/ Stored(r) /\ sessions'[r] = sessions[r] /\ sessions[r].family # s
    BY <1>2, <1>3, <1>4, <2>1
  <2> SUFFICES ASSUME NEW p \in SessionIds, NEW q \in SessionIds, Stored(p)', Stored(q)'
               PROVE  /\ sessions'[sessions'[p].family] # Fresh
                      /\ sessions'[q].family = sessions'[p].family =>
                           sessions'[q].owner = sessions'[p].owner
    BY DEF FamiliesOwned
  <2>3. CASE p = s
    BY <2>2, <2>3, <1>2, <1>3, <1>4, ConstantsOK DEF ConstantsOK, Stored
  <2>4. CASE p # s
    <3>1. Stored(p) /\ sessions'[p] = sessions[p]
      BY <2>2, <2>4
    <3>2. sessions'[sessions'[p].family] # Fresh
      BY <3>1, <2>1, <1>4
    <3>3. CASE q = s
      BY <3>1, <3>3, <2>2, <2>4, <1>4, <3>2
    <3>4. CASE q # s
      <4>1. Stored(q) /\ sessions'[q] = sessions[q]
        BY <3>4, <2>2
      <4> QED
        BY <3>1, <4>1, <3>2 DEF FamiliesOwned
    <3> QED
      BY <3>2, <3>3, <3>4
  <2> QED
    BY <2>3, <2>4
<1>10. OwnersExist'
  BY <1>2, <1>3, <1>4 DEF LoginIssue, OwnersExist
<1>11. ChainsAreLinked'
  BY <1>2, <1>3, <1>4, StoredIsRow DEF ChainsAreLinked, Row
<1> QED
  BY <1>5, <1>6, <1>7, <1>8, <1>9, <1>10, <1>11

(* The commit of a deletion keeps BaseInv: the foreign key lets it through *)
(* only when every row of the account is gone.                             *)
LEMMA DeleteCommitBase ==
  ASSUME BaseInv, NEW w \in Workers, DeleteCommit(w)
  PROVE  BaseInv'
<1> USE DEF BaseInv
<1>1. /\ sessions' \in [SessionIds -> Row \cup {Fresh, Gone}]
      /\ \A s \in SessionIds :
           /\ Stored(s)' <=> Stored(s) /\ s \notin task[w].rows
           /\ Stored(s)' => sessions'[s] = sessions[s]
           /\ sessions'[s] = Fresh <=> sessions[s] = Fresh
      /\ account' = [account EXCEPT ![task[w].user] = "deleted"]
      /\ \A v \in Workers : task'[v] = IF v = w THEN Idle ELSE task[v]
  BY ConstantsOK DEF DeleteCommit, Finish, Stored, TypeOK, ConstantsOK
<1>2. \A s \in SessionIds :
        Stored(s) => (s \in task[w].rows <=> sessions[s].owner = task[w].user)
  BY DEF DeleteCommit, ForeignKeyHolds, RowsOf, ReadsStillHold
<1>3. task[w].user \in Users
  BY DEF DeleteCommit, LocalsSet
<1>4. TypeOK'
  BY <1>1 DEF DeleteCommit, Finish, TypeOK, Idle, Task, Steps, Statuses
<1>5. LocalsSet'
  BY ConstantsOK DEF DeleteCommit, LocalsSet, Finish, Idle, TypeOK, Task, Holding, ConstantsOK
<1>6. ReadsStillHold'
  <2>1. \A v \in Workers : Holding(v) /\ v # w => Stored(task[v].tok)'
    BY <1>1, <1>2, TaskFitsNow DEF DeleteCommit, UserLocked, Holding, TaskFits, Task
  <2> QED
    BY <1>1, <2>1, ConstantsOK
       DEF ReadsStillHold, LocalsSet, Idle, TypeOK, Task, Holding, ConstantsOK
<1>7. NewIdsPrivate'
  BY <1>1 DEF NewIdsPrivate, Idle, TypeOK, Task
<1>8. FamiliesOwned'
  BY <1>1, ReadRow DEF FamiliesOwned
<1>9. OwnersExist'
  BY <1>1, <1>2, <1>3, ReadRow DEF OwnersExist, TypeOK
<1>10. ChainsAreLinked'
  BY <1>1, <1>2, StoredIsRow DEF ChainsAreLinked, Row
<1> QED
  BY <1>4, <1>5, <1>6, <1>7, <1>8, <1>9, <1>10

(* The administrator's commit keeps BaseInv.                               *)
LEMMA SetStatusCommitBase ==
  ASSUME BaseInv, NEW w \in Workers, SetStatusCommit(w)
  PROVE  BaseInv'
<1> USE DEF BaseInv
<1>1. /\ sessions' = sessions
      /\ task[w].user \in Users /\ task[w].st \in Statuses
      /\ account[task[w].user] # "deleted"
      /\ account' = [account EXCEPT ![task[w].user] = task[w].st]
      /\ \A v \in Workers : task'[v] = IF v = w THEN Idle ELSE task[v]
  BY DEF SetStatusCommit, LocalsSet, Finish, TypeOK, Task
<1>2. TypeOK'
  BY <1>1 DEF SetStatusCommit, Finish, TypeOK, Idle, Task, Steps, Statuses
<1>3. LocalsSet' /\ NewIdsPrivate'
  BY <1>1 DEF LocalsSet, NewIdsPrivate, Idle, Holding
<1>4. ReadsStillHold'
  BY <1>1 DEF ReadsStillHold, Idle, Holding, Stored
<1>5. FamiliesOwned' /\ ChainsAreLinked'
  BY <1>1 DEF FamiliesOwned, ChainsAreLinked, Stored
<1>6. OwnersExist'
  BY <1>1, ReadRow DEF OwnersExist, Stored, TypeOK, Statuses
<1> QED
  BY <1>2, <1>3, <1>4, <1>5, <1>6

-----------------------------------------------------------------------------
(* The invariant of every execution.                                       *)

(* BaseInv holds in the empty database.                                    *)
LEMMA InitBase == Init => BaseInv
<1> SUFFICES ASSUME Init PROVE BaseInv
  OBVIOUS
<1>1. TypeOK
  BY ConstantsOK DEF Init, TypeOK, Idle, Task, Steps, Statuses, ConstantsOK
<1>2. \A s \in SessionIds : ~Stored(s)
  BY DEF Init, Stored
<1> QED
  BY <1>1, <1>2 DEF Init, Idle, BaseInv, LocalsSet, ReadsStillHold, NewIdsPrivate,
                    FamiliesOwned, OwnersExist, ChainsAreLinked, Holding

(* Every step of every handler, and of the clock, keeps BaseInv.           *)
LEMMA NextBase == BaseInv /\ [Next]_vars => BaseInv'
<1> SUFFICES ASSUME BaseInv, [Next]_vars PROVE BaseInv'
  OBVIOUS
<1>1. ASSUME NEW w \in Workers, Arrive(w) PROVE BaseInv'
  BY <1>1, LoginSelectBase, AuthenticateBase, RefreshReplayBase, RefreshLiveBase,
     LogoutSelectBase, SetStatusSelectBase DEF Arrive
<1>2. ASSUME NEW w \in Workers, Proceed(w) PROVE BaseInv'
  <2>1. ASSUME NEW s \in SessionIds,
               LoginIssue(w, s) \/ RotateFlush(w, s) \/ RevokeOneSelect(w, s)
        PROVE  BaseInv'
    BY <2>1, LoginIssueBase, RotateFlushBase, RevokeOneSelectBase
  <2>2. CASE BurnSelect(w) \/ BurnCommit(w)
    BY <2>2, BurnSelectBase, BurnCommitBase
  <2>3. CASE RefreshCheck(w) \/ RefreshCommit(w) \/ RevokeCommit(w)
    BY <2>3, RefreshCheckBase, RefreshCommitBase, RevokeCommitBase
  <2>4. CASE DeleteSelect(w) \/ DeleteCommit(w) \/ SetStatusCommit(w)
    BY <2>4, DeleteSelectBase, DeleteCommitBase, SetStatusCommitBase
  <2>5. CASE AuthedReply(w) \/ RefreshRefuse(w) \/ FlushError(w)
    BY <2>5, FinishBase DEF AuthedReply, RefreshRefuse, FlushError
  <2> QED
    BY <1>2, <2>1, <2>2, <2>3, <2>4, <2>5 DEF Proceed
<1>3. ASSUME NEW w \in Workers, Disconnect(w) PROVE BaseInv'
  BY <1>3, FinishBase DEF Disconnect
<1>4. CASE Tick
  <2>1. TypeOK'
    BY <1>4, ConstantsOK DEF Tick, BaseInv, TypeOK, ConstantsOK
  <2> QED
    BY <1>4, <2>1 DEF Tick, BaseInv, LocalsSet, ReadsStillHold, NewIdsPrivate,
       FamiliesOwned, OwnersExist, ChainsAreLinked, Holding, Stored
<1>5. CASE AwaitRequest \/ UNCHANGED vars
  BY <1>5 DEF AwaitRequest, vars, BaseInv, TypeOK, LocalsSet, ReadsStillHold, NewIdsPrivate,
     FamiliesOwned, OwnersExist, ChainsAreLinked, Holding, Stored
<1> QED
  BY <1>1, <1>2, <1>3, <1>4, <1>5 DEF Next

(* BaseInv holds in every execution, whatever overlaps.                    *)
THEOREM BaseInvariant == Spec => []BaseInv
BY InitBase, NextBase, PTL DEF Spec

(* Every row, account and local variable keeps its type.                   *)
THEOREM TypeCorrect == Spec => []TypeOK
<1>1. BaseInv => TypeOK
  BY DEF BaseInv
<1> QED
  BY <1>1, BaseInvariant, PTL

(* No session outlives its account, whatever was under way when the        *)
(* account was deleted.                                                    *)
THEOREM NoOrphanSession == Spec => []OwnersExist
<1>1. BaseInv => OwnersExist
  BY DEF BaseInv
<1> QED
  BY <1>1, BaseInvariant, PTL

(* A rotation is all or nothing: a replaced row is revoked and leads to a  *)
(* committed row of the same login and account.                            *)
THEOREM RotationIsAtomic == Spec => []ChainsAreLinked
<1>1. BaseInv => ChainsAreLinked
  BY DEF BaseInv
<1> QED
  BY <1>1, BaseInvariant, PTL

(* Revocation and deletion are final, and rows keep their login and owner. *)
THEOREM RevocationStays == Spec => RevocationIsFinal
<1>1. BaseInv /\ [Next]_vars => [KeepsRevocations]_vars
  <2> SUFFICES ASSUME BaseInv, Next PROVE KeepsRevocations
    BY DEF vars
  <2>1. CASE sessions' = sessions
    BY <2>1 DEF KeepsRevocations
  <2>2. ASSUME NEW w \in Workers, BurnCommit(w) \/ RevokeCommit(w)
        PROVE  KeepsRevocations
    <3>1. OnlyRevokes
      BY <2>2, BurnCommitRevokes, RevokeCommitRevokes
    <3> QED
      BY <3>1, StoredIsRow DEF OnlyRevokes, KeepsRevocations, BaseInv
  <2>3. ASSUME NEW w \in Workers, RefreshCommit(w)
        PROVE  KeepsRevocations
    BY <2>3, RefreshCommitTable, ConstantsOK DEF KeepsRevocations, Stored, ConstantsOK
  <2>4. ASSUME NEW w \in Workers, NEW s \in SessionIds, LoginIssue(w, s)
        PROVE  KeepsRevocations
    BY <2>4, ConstantsOK
       DEF LoginIssue, Unused, KeepsRevocations, Stored, BaseInv, TypeOK, ConstantsOK
  <2>5. ASSUME NEW w \in Workers, DeleteCommit(w)
        PROVE  KeepsRevocations
    BY <2>5, ConstantsOK
       DEF DeleteCommit, KeepsRevocations, Stored, BaseInv, TypeOK, ConstantsOK
  <2> QED
    BY <2>1, <2>2, <2>3, <2>4, <2>5
       DEF Next, Arrive, Proceed, LoginSelect, Authenticate, RefreshReplay, RefreshLive,
           LogoutSelect, SetStatusSelect, BurnSelect, RotateFlush, RefreshCheck,
           RefreshRefuse, RevokeOneSelect, AuthedReply, DeleteSelect, SetStatusCommit,
           FlushError, Disconnect, Tick, AwaitRequest, vars
<1> QED
  BY <1>1, BaseInvariant, PTL DEF RevocationIsFinal, Spec

-----------------------------------------------------------------------------
(* What RefreshTokens guarantees to a client that sends one request at a   *)
(* time on its login (a login of SerialFamilies), for every set of such    *)
(* logins and whatever the others do: SerialInv is inductive, and on these *)
(* logins the handlers implement the atomic scheme of TokenFamilies.       *)

-----------------------------------------------------------------------------
(* Steps that only move one worker.                                        *)

(* What AloneOnFamily asks of a worker w that goes on with local state t.  *)
AloneFits(w, t) ==
  t.fam \in SerialFamilies =>
    /\ \A v \in Workers \ {w} : task[v].fam # t.fam
    /\ t.pc \in {"rotate", "flushed", "checked"} /\ Stored(t.tok) => Live(t.tok)
    /\ t.pc = "burn" => LiveOf(t.fam) \subseteq t.rows

(* None names no login.                                                    *)
LEMMA NoneNotSerial == None \notin SerialFamilies
BY ConstantsOK DEF ConstantsOK

(* A worker's own local state satisfies what AloneOnFamily asks of it.     *)
LEMMA AloneFitsNow ==
  ASSUME AloneOnFamily, NEW w \in Workers
  PROVE  AloneFits(w, task[w])
BY DEF AloneFits, AloneOnFamily

(* A step that only moves worker w to local state t keeps SerialInv if t   *)
(* fits.                                                                   *)
LEMMA TaskStepSerial ==
  ASSUME SerialInv, BaseInv', NEW w \in Workers, NEW t, AloneFits(w, t),
         task' = [task EXCEPT ![w] = t],
         UNCHANGED <<sessions, burned>>
  PROVE  SerialInv'
<1> USE DEF SerialInv
<1>1. \A v \in Workers : task'[v] = IF v = w THEN t ELSE task[v]
  BY DEF BaseInv, TypeOK
<1>2. AloneOnFamily'
  BY <1>1 DEF AloneOnFamily, AloneFits, LiveOf, Live, Stored
<1>3. BurnedKnown' /\ OneLivePerFamily' /\ BurnedStaysDead' /\ FamiliesAreChains'
  BY DEF BurnedKnown, OneLivePerFamily, OneLive, BurnedStaysDead, FamiliesAreChains,
         LiveOf, Live, Stored
<1> QED
  BY <1>2, <1>3

(* Ending a request without a write keeps SerialInv.                       *)
LEMMA FinishSerial ==
  ASSUME SerialInv, BaseInv', NEW w \in Workers, Finish(w),
         UNCHANGED <<sessions, burned>>
  PROVE  SerialInv'
<1>1. AloneFits(w, Idle)
  BY NoneNotSerial DEF AloneFits, Idle
<1> QED
  BY <1>1, TaskStepSerial DEF Finish

(* A request that names a row starts alone on its family.                  *)
LEMMA StartSerial ==
  ASSUME SerialInv, BaseInv', NEW w \in Workers,
         NEW s \in SessionIds, MayStart(s), NEW t,
         t.fam = sessions[s].family, t.tok = s,
         t.pc \in {"replay", "rotate", "revoke"},
         t.pc = "rotate" => Live(s),
         task' = [task EXCEPT ![w] = t],
         UNCHANGED <<sessions, burned>>
  PROVE  SerialInv'
<1>1. AloneFits(w, t)
  BY DEF AloneFits, MayStart
<1> QED
  BY <1>1, TaskStepSerial

(* The first statement of a request that names a row keeps SerialInv: the  *)
(* client has no other request on that login.                              *)
LEMMA RowRequestsSerial ==
  ASSUME SerialInv, BaseInv', NEW w \in Workers,
         NEW s \in SessionIds,
         \/ RefreshReplay(w, s) \/ RefreshLive(w, s)
         \/ LogoutSelect(w, s) \/ RevokeOneSelect(w, s)
  PROVE  SerialInv'
<1>1. CASE RefreshReplay(w, s)
  BY <1>1, StartSerial DEF RefreshReplay, Start, Idle
<1>2. CASE RefreshLive(w, s)
  BY <1>2, StartSerial DEF RefreshLive, Start, Idle
<1>3. CASE LogoutSelect(w, s)
  BY <1>3, StartSerial DEF LogoutSelect, Start, Idle
<1>4. CASE RevokeOneSelect(w, s)
  <2> DEFINE t == [task[w] EXCEPT !.pc = "revoke", !.tok = s,
                                  !.fam = sessions[s].family]
  <2>1. t.fam = sessions[s].family /\ t.tok = s /\ t.pc = "revoke"
    BY DEF SerialInv, BaseInv, TypeOK, Task
  <2>2. task' = [task EXCEPT ![w] = t]
    BY <1>4 DEF RevokeOneSelect, SerialInv, BaseInv, TypeOK
  <2>3. MayStart(s) /\ UNCHANGED <<sessions, burned>>
    BY <1>4 DEF RevokeOneSelect
  <2> HIDE DEF t
  <2> QED
    BY <2>1, <2>2, <2>3, StartSerial
<1> QED
  BY <1>1, <1>2, <1>3, <1>4

(* The reads of the other handlers, and the later reads of a request, keep *)
(* SerialInv.                                                              *)
LEMMA OtherReadsSerial ==
  ASSUME SerialInv, BaseInv', NEW w \in Workers,
         \/ \E u \in Users : LoginSelect(w, u) \/ Authenticate(w, u)
         \/ \E u \in Users, st \in Statuses : SetStatusSelect(w, u, st)
         \/ BurnSelect(w) \/ RefreshCheck(w) \/ DeleteSelect(w)
         \/ \E n \in SessionIds : RotateFlush(w, n)
  PROVE  SerialInv'
<1>0. task[w] \in Task /\ AloneFits(w, task[w])
  BY AloneFitsNow DEF SerialInv, BaseInv, TypeOK
<1>1. ASSUME NEW t, t.fam = None, Start(w, t), UNCHANGED <<sessions, burned>>
      PROVE  SerialInv'
  <2>1. AloneFits(w, t)
    BY <1>1, NoneNotSerial DEF AloneFits
  <2> QED
    BY <1>1, <2>1, TaskStepSerial DEF Start
<1>2. CASE \E u \in Users : LoginSelect(w, u) \/ Authenticate(w, u)
  BY <1>1, <1>2 DEF LoginSelect, Authenticate, Idle
<1>3. CASE \E u \in Users, st \in Statuses : SetStatusSelect(w, u, st)
  BY <1>1, <1>3 DEF SetStatusSelect, Idle
<1>4. CASE BurnSelect(w)
  <2> DEFINE t == [task[w] EXCEPT !.pc = "burn",
                     !.rows = {s \in FamilyRows(task[w].fam) : Live(s)}]
  <2>1. AloneFits(w, t)
    BY <1>0 DEF AloneFits, FamilyRows, LiveOf, Live, Task
  <2>2. task' = [task EXCEPT ![w] = t]
    BY <1>4 DEF BurnSelect, SerialInv, BaseInv, TypeOK
  <2> QED
    BY <1>4, <2>1, <2>2, TaskStepSerial DEF BurnSelect
<1>5. CASE DeleteSelect(w)
  <2> DEFINE t == [task[w] EXCEPT !.pc = "delete", !.rows = RowsOf(task[w].user)]
  <2>1. AloneFits(w, t)
    BY <1>0, <1>5 DEF AloneFits, Task, DeleteSelect
  <2>2. task' = [task EXCEPT ![w] = t]
    BY <1>5 DEF DeleteSelect, SerialInv, BaseInv, TypeOK
  <2> QED
    BY <1>5, <2>1, <2>2, TaskStepSerial DEF DeleteSelect
<1>6. CASE RefreshCheck(w)
  <2>1. AloneFits(w, [task[w] EXCEPT !.pc = "checked"])
    BY <1>0, <1>6 DEF AloneFits, Task, RefreshCheck
  <2> QED
    BY <1>6, <2>1, TaskStepSerial DEF RefreshCheck
<1>7. ASSUME NEW n \in SessionIds, RotateFlush(w, n)
      PROVE  SerialInv'
  <2> DEFINE t == [task[w] EXCEPT !.pc = "flushed", !.new = n, !.exp = now + Lifetime]
  <2>1. AloneFits(w, t)
    BY <1>0, <1>7 DEF AloneFits, Task, RotateFlush
  <2>2. task' = [task EXCEPT ![w] = t]
    BY <1>7 DEF RotateFlush, SerialInv, BaseInv, TypeOK
  <2> QED
    BY <1>7, <2>1, <2>2, TaskStepSerial DEF RotateFlush
<1> QED
  BY <1>2, <1>3, <1>4, <1>5, <1>6, <1>7

-----------------------------------------------------------------------------
(* Commits.                                                                *)

(* The two commits that only revoke touch rows of their own family.        *)
LEMMA RevokingSerial ==
  ASSUME SerialInv, BaseInv', NEW w \in Workers, OnlyRevokes, Finish(w),
         \A s \in SessionIds :
           Stored(s) /\ sessions'[s] # sessions[s] => sessions[s].family = task[w].fam,
         task[w].fam # None,
         \A f \in burned' : sessions[f] # Fresh,
         BurnedStaysDead'
  PROVE  SerialInv'
<1> USE DEF SerialInv
<1>1. \A s \in SessionIds :
        /\ Stored(s)' <=> Stored(s)
        /\ sessions'[s] = Fresh <=> sessions[s] = Fresh
        /\ Stored(s) => /\ sessions'[s].family = sessions[s].family
                        /\ sessions'[s].next = sessions[s].next
        /\ Live(s)' => Live(s)
  BY StoredIsRow, ConstantsOK DEF OnlyRevokes, BaseInv, Live, Stored, ConstantsOK
<1>2. \A v \in Workers : task'[v] = IF v = w THEN Idle ELSE task[v]
  BY DEF Finish, BaseInv, TypeOK
<1>3. AloneOnFamily'
  <2>1. \A v \in Workers : task[v].fam # None =>
          /\ task[v].tok \in SessionIds
          /\ Stored(task[v].tok) => sessions[task[v].tok].family = task[v].fam
    BY ConstantsOK DEF BaseInv, TypeOK, LocalsSet, ReadsStillHold, Task, ConstantsOK
  <2>2. \A v \in Workers \ {w} : task[v].fam \in SerialFamilies =>
          /\ task[v].fam # task[w].fam
          /\ Stored(task[v].tok) => sessions'[task[v].tok] = sessions[task[v].tok]
    BY <2>1, NoneNotSerial DEF AloneOnFamily
  <2> SUFFICES ASSUME NEW v \in Workers, task'[v].fam \in SerialFamilies
               PROVE  /\ \A x \in Workers : task'[x].fam = task'[v].fam => x = v
                      /\ task'[v].pc \in {"rotate", "flushed", "checked"}
                            /\ Stored(task[v].tok)' => Live(task[v].tok)'
                      /\ task'[v].pc = "burn" =>
                           \A s \in SessionIds :
                             Live(s)' /\ sessions'[s].family = task'[v].fam
                               => s \in task'[v].rows
    BY DEF AloneOnFamily, LiveOf
  <2>3. v # w /\ task'[v] = task[v] /\ task[v].fam \in SerialFamilies
    BY <1>2, NoneNotSerial DEF Idle
  <2>4. \A x \in Workers : task'[x].fam = task'[v].fam => x = v
    BY <1>2, <2>3, NoneNotSerial DEF AloneOnFamily, Idle
  <2>5. ASSUME task'[v].pc \in {"rotate", "flushed", "checked"}, Stored(task[v].tok)'
        PROVE  Live(task[v].tok)'
    <3>1. Stored(task[v].tok)
      BY <1>1, <2>1, <2>3, <2>5, NoneNotSerial DEF Stored
    <3> QED
      BY <3>1, <2>2, <2>3, <2>5 DEF AloneOnFamily, Live
  <2>6. ASSUME task'[v].pc = "burn", NEW s \in SessionIds,
               Live(s)', sessions'[s].family = task'[v].fam
        PROVE  s \in task'[v].rows
    BY <1>1, <2>3, <2>6 DEF AloneOnFamily, LiveOf, Live
  <2> QED
    BY <2>4, <2>5, <2>6
<1>4. BurnedKnown'
  BY <1>1 DEF BurnedKnown, BaseInv, TypeOK
<1>5. OneLivePerFamily'
  BY <1>1 DEF OneLivePerFamily, OneLive, LiveOf, Live
<1>6. BurnedStaysDead'
  OBVIOUS
<1>7. FamiliesAreChains'
  BY <1>1 DEF FamiliesAreChains
<1> QED
  BY <1>3, <1>4, <1>5, <1>6, <1>7

(* The commit of a family revocation keeps SerialInv: alone on its family, *)
(* it saw every live row.                                                  *)
LEMMA BurnCommitSerial ==
  ASSUME SerialInv, BaseInv', NEW w \in Workers, BurnCommit(w)
  PROVE  SerialInv'
<1> USE DEF SerialInv
<1>1. OnlyRevokes
  BY BurnCommitRevokes
<1>2. task[w].fam # None /\ task[w].fam \in SessionIds /\ sessions[task[w].fam] # Fresh
  BY DEF BurnCommit, BaseInv, LocalsSet, ReadsStillHold, TypeOK, Task
<1>3. \A s \in SessionIds :
        Stored(s) /\ sessions'[s] # sessions[s] => sessions[s].family = task[w].fam
  BY DEF BurnCommit, BaseInv, ReadsStillHold, TypeOK
<1>4. \A f \in burned' : sessions[f] # Fresh
  BY <1>2 DEF BurnCommit, BurnedKnown
<1>5. BurnedStaysDead'
  <2> SUFFICES ASSUME NEW s \in SessionIds, Live(s)',
                      sessions'[s].family \in SerialFamilies
               PROVE  sessions'[s].family \notin burned'
    BY DEF BurnedStaysDead, LiveOf
  <2>1. Stored(s)' /\ ~sessions'[s].revoked
    BY DEF Live
  <2>2. Live(s) /\ sessions'[s].family = sessions[s].family
    BY <1>1, <2>1, StoredIsRow, ConstantsOK DEF OnlyRevokes, BaseInv, Live, Stored, ConstantsOK
  <2>3. s \notin task[w].rows
    BY <2>1, <2>2, StoredIsRow, RevokedIsRow DEF BurnCommit, Live, BaseInv
  <2>4. sessions[s].family # task[w].fam
    BY <2>2, <2>3, <1>2 DEF BurnCommit, AloneOnFamily, LiveOf
  <2> QED
    BY <2>2, <2>4 DEF BurnCommit, BurnedStaysDead, LiveOf
<1> QED
  BY <1>1, <1>2, <1>3, <1>4, <1>5, RevokingSerial DEF BurnCommit

(* The commit of logout or revoke_one keeps SerialInv.                     *)
LEMMA RevokeCommitSerial ==
  ASSUME SerialInv, BaseInv', NEW w \in Workers, RevokeCommit(w)
  PROVE  SerialInv'
<1> USE DEF SerialInv
<1>1. OnlyRevokes
  BY RevokeCommitRevokes
<1>2. task[w].fam # None
  BY DEF RevokeCommit, BaseInv, LocalsSet
<1>3. \A s \in SessionIds :
        Stored(s) /\ sessions'[s] # sessions[s] => sessions[s].family = task[w].fam
  BY <1>2 DEF RevokeCommit, BaseInv, ReadsStillHold, TypeOK
<1>4. \A f \in burned' : sessions[f] # Fresh
  BY DEF RevokeCommit, BurnedKnown
<1>5. BurnedStaysDead'
  <2> SUFFICES ASSUME NEW s \in SessionIds, Live(s)',
                      sessions'[s].family \in SerialFamilies
               PROVE  sessions'[s].family \notin burned'
    BY DEF BurnedStaysDead, LiveOf
  <2>1. Stored(s)' /\ ~sessions'[s].revoked
    BY DEF Live
  <2>2. Live(s) /\ sessions'[s].family = sessions[s].family
    BY <1>1, <2>1, StoredIsRow, ConstantsOK DEF OnlyRevokes, BaseInv, Live, Stored, ConstantsOK
  <2> QED
    BY <2>2 DEF RevokeCommit, BurnedStaysDead, LiveOf
<1> QED
  BY <1>1, <1>2, <1>3, <1>4, <1>5, RevokingSerial DEF RevokeCommit

(* The commit of a rotation keeps SerialInv: alone on its family, it       *)
(* replaces the one live row by the one successor.                         *)
LEMMA RefreshCommitSerial ==
  ASSUME SerialInv, BaseInv', NEW w \in Workers, RefreshCommit(w)
  PROVE  SerialInv'
<1> USE DEF SerialInv
<1>1. PICK k \in SessionIds, n \in SessionIds, f \in SessionIds, u \in Users :
        /\ task[w].tok = k /\ task[w].fam = f
        /\ Stored(k) /\ sessions[n] = Fresh /\ sessions[f] # Fresh
        /\ sessions[k].family = f
        /\ sessions'[k].family = f /\ sessions'[k].next = n /\ sessions'[k].revoked
        /\ sessions'[n].family = f /\ sessions'[n].next = None
        /\ \A s \in SessionIds \ {k, n} : sessions'[s] = sessions[s]
        /\ \A s \in SessionIds : Stored(s)' <=> Stored(s) \/ s = n
        /\ \A s \in SessionIds : sessions[s] # Fresh => sessions'[s] # Fresh
  BY RefreshCommitTable
<1>2. f # None /\ task[w].pc = "checked" /\ (f \in SerialFamilies => Live(k))
  BY <1>1, ConstantsOK DEF RefreshCommit, AloneOnFamily, ConstantsOK
<1>3. /\ burned' = burned
      /\ \A v \in Workers : task'[v] = IF v = w THEN Idle ELSE task[v]
  BY DEF RefreshCommit, Finish, BaseInv, TypeOK
<1>4. \A s \in SessionIds :
        /\ Live(s)' => s = n \/ (s # k /\ Live(s) /\ sessions'[s] = sessions[s])
        /\ Stored(s)' /\ s \notin {k, n} => Stored(s) /\ sessions'[s] = sessions[s]
  BY <1>1 DEF Live
<1>5. AloneOnFamily'
  <2>1. \A v \in Workers : task[v].fam # None =>
          /\ task[v].tok \in SessionIds
          /\ sessions[task[v].tok] # Fresh
          /\ Stored(task[v].tok) => sessions[task[v].tok].family = task[v].fam
    BY ConstantsOK DEF BaseInv, TypeOK, LocalsSet, ReadsStillHold, Task, ConstantsOK
  <2> SUFFICES ASSUME NEW v \in Workers, task'[v].fam \in SerialFamilies
               PROVE  /\ \A x \in Workers : task'[x].fam = task'[v].fam => x = v
                      /\ task'[v].pc \in {"rotate", "flushed", "checked"}
                            /\ Stored(task[v].tok)' => Live(task[v].tok)'
                      /\ task'[v].pc = "burn" =>
                           \A s \in SessionIds :
                             Live(s)' /\ sessions'[s].family = task'[v].fam
                               => s \in task'[v].rows
    BY DEF AloneOnFamily, LiveOf
  <2>2. /\ v # w /\ task'[v] = task[v]
        /\ task[v].fam \in SerialFamilies /\ task[v].fam # None /\ task[v].fam # f
    BY <1>1, <1>3, NoneNotSerial DEF Idle, AloneOnFamily
  <2>3. \A x \in Workers : task'[x].fam = task'[v].fam => x = v
    BY <1>3, <2>2, NoneNotSerial DEF AloneOnFamily, Idle
  <2>4. ASSUME task'[v].pc \in {"rotate", "flushed", "checked"}, Stored(task[v].tok)'
        PROVE  Live(task[v].tok)'
    <3>1. task[v].tok # n /\ Stored(task[v].tok)
      BY <1>1, <2>1, <2>2, <2>4
    <3>2. Live(task[v].tok) /\ sessions'[task[v].tok] = sessions[task[v].tok]
      BY <3>1, <1>1, <2>1, <2>2, <2>4 DEF AloneOnFamily
    <3> QED
      BY <3>2, <2>2, <2>4 DEF Live
  <2>5. ASSUME task'[v].pc = "burn", NEW s \in SessionIds,
               Live(s)', sessions'[s].family = task'[v].fam
        PROVE  s \in task'[v].rows
    BY <1>1, <1>4, <2>2, <2>5 DEF AloneOnFamily, LiveOf
  <2> QED
    BY <2>3, <2>4, <2>5
<1>6. BurnedKnown'
  BY <1>1, <1>3 DEF BurnedKnown, BaseInv, TypeOK
<1>7. OneLivePerFamily'
  BY <1>1, <1>2, <1>4 DEF OneLivePerFamily, OneLive, LiveOf
<1>8. BurnedStaysDead'
  BY <1>1, <1>2, <1>3, <1>4 DEF BurnedStaysDead, LiveOf
<1>9. FamiliesAreChains'
  <2> SUFFICES ASSUME NEW s \in SessionIds, Stored(s)', s # sessions'[s].family,
                      sessions'[s].family \in SerialFamilies
               PROVE  \E r \in SessionIds :
                        /\ Stored(r)' /\ sessions'[r].next = s
                        /\ \A q \in SessionIds : Stored(q)' /\ sessions'[q].next = s => q = r
    BY DEF FamiliesAreChains
  <2>0. \A q \in SessionIds : Stored(q) => sessions[q].next # n
    BY <1>1, ConstantsOK DEF BaseInv, ChainsAreLinked, Stored, ConstantsOK
  <2>1. CASE s = n
    <3>1. \A q \in SessionIds : Stored(q)' /\ sessions'[q].next = n => q = k
      BY <1>1, <1>4, <2>0, ConstantsOK DEF ConstantsOK
    <3> QED
      BY <2>1, <3>1, <1>1
  <2>2. CASE s # n
    <3>1. Stored(s) /\ sessions'[s].family = sessions[s].family
      BY <2>2, <1>1
    <3>2. PICK r \in SessionIds :
            /\ Stored(r) /\ sessions[r].next = s
            /\ \A q \in SessionIds : Stored(q) /\ sessions[q].next = s => q = r
      BY <3>1 DEF FamiliesAreChains
    <3>3. s # None /\ r # k /\ r # n
      BY <3>2, <1>1, <1>2, ConstantsOK DEF BaseInv, ChainsAreLinked, Live, Stored, ConstantsOK
    <3>4. \A q \in SessionIds : Stored(q)' /\ sessions'[q].next = s => q = r
      BY <1>1, <1>4, <2>2, <3>2, <3>3
    <3> QED
      BY <1>1, <3>2, <3>3, <3>4
  <2> QED
    BY <2>1, <2>2
<1> QED
  BY <1>5, <1>6, <1>7, <1>8, <1>9

(* The commit of a login keeps SerialInv: its family has that one row.     *)
LEMMA LoginIssueSerial ==
  ASSUME SerialInv, BaseInv', NEW w \in Workers, NEW s \in SessionIds, LoginIssue(w, s)
  PROVE  SerialInv'
<1> USE DEF SerialInv
<1>1. /\ sessions[s] = Fresh /\ sessions'[s] # Fresh /\ Stored(s)'
      /\ sessions'[s].family = s /\ sessions'[s].next = None
      /\ \A r \in SessionIds \ {s} : sessions'[r] = sessions[r] /\ (Stored(r)' <=> Stored(r))
      /\ burned' = burned
      /\ \A v \in Workers : task'[v] = IF v = w THEN Idle ELSE task[v]
  <2>1. InitialRow(s, task[w].user) \in Row
    <3>1. task[w].user \in Users
      BY DEF LoginIssue, BaseInv, LocalsSet
    <3> QED
      BY <3>1, ConstantsOK DEF InitialRow, Row, BaseInv, TypeOK, ConstantsOK
  <2>2. InitialRow(s, task[w].user) \notin {Fresh, Gone}
    BY <2>1, ConstantsOK DEF ConstantsOK
  <2> QED
    BY <2>2 DEF LoginIssue, Unused, Finish, BaseInv, TypeOK, Stored, InitialRow
<1>2. \A r \in SessionIds : Stored(r) => sessions[r].family \in SessionIds \ {s} /\ r # s
  BY <1>1, ReadRow DEF Stored
<1>3. AloneOnFamily'
  <2>1. \A v \in Workers : task[v].fam # None =>
          /\ task[v].tok \in SessionIds \ {s}
          /\ task[v].fam # s
    BY <1>1, ConstantsOK DEF BaseInv, TypeOK, LocalsSet, ReadsStillHold, Task, ConstantsOK
  <2> SUFFICES ASSUME NEW v \in Workers, task'[v].fam \in SerialFamilies
               PROVE  /\ \A x \in Workers : task'[x].fam = task'[v].fam => x = v
                      /\ task'[v].pc \in {"rotate", "flushed", "checked"}
                            /\ Stored(task[v].tok)' => Live(task[v].tok)'
                      /\ task'[v].pc = "burn" =>
                           \A r \in SessionIds :
                             Live(r)' /\ sessions'[r].family = task'[v].fam
                               => r \in task'[v].rows
    BY DEF AloneOnFamily, LiveOf
  <2>2. /\ v # w /\ task'[v] = task[v]
        /\ task[v].fam \in SerialFamilies /\ task[v].fam # None
    BY <1>1, NoneNotSerial DEF Idle
  <2>3. \A x \in Workers : task'[x].fam = task'[v].fam => x = v
    BY <1>1, <2>2, NoneNotSerial DEF AloneOnFamily, Idle
  <2>4. ASSUME task'[v].pc \in {"rotate", "flushed", "checked"}, Stored(task[v].tok)'
        PROVE  Live(task[v].tok)'
    <3>1. Stored(task[v].tok) /\ sessions'[task[v].tok] = sessions[task[v].tok]
      BY <1>1, <2>1, <2>2, <2>4
    <3> QED
      BY <3>1, <2>2, <2>4 DEF AloneOnFamily, Live
  <2>5. ASSUME task'[v].pc = "burn", NEW r \in SessionIds,
               Live(r)', sessions'[r].family = task'[v].fam
        PROVE  r \in task'[v].rows
    BY <1>1, <2>1, <2>2, <2>5 DEF AloneOnFamily, LiveOf, Live
  <2> QED
    BY <2>3, <2>4, <2>5
<1>4. BurnedKnown'
  BY <1>1 DEF BurnedKnown, BaseInv, TypeOK
<1>5. OneLivePerFamily'
  BY <1>1, <1>2 DEF OneLivePerFamily, OneLive, LiveOf, Live
<1>6. BurnedStaysDead'
  BY <1>1 DEF BurnedStaysDead, BurnedKnown, LiveOf, Live
<1>7. FamiliesAreChains'
  <2>1. \A q \in SessionIds : Stored(q)' /\ sessions'[q].next # None => Stored(q) /\ sessions'[q] = sessions[q]
    BY <1>1
  <2>2. s # None
    BY ConstantsOK DEF ConstantsOK
  <2> SUFFICES ASSUME NEW p \in SessionIds, Stored(p)', p # sessions'[p].family,
                      sessions'[p].family \in SerialFamilies
               PROVE  \E r \in SessionIds :
                        /\ Stored(r)' /\ sessions'[r].next = p
                        /\ \A q \in SessionIds : Stored(q)' /\ sessions'[q].next = p => q = r
    BY DEF FamiliesAreChains
  <2>3. Stored(p) /\ sessions'[p] = sessions[p] /\ p # None
    BY <1>1, ConstantsOK DEF ConstantsOK
  <2>4. PICK r \in SessionIds :
          /\ Stored(r) /\ sessions[r].next = p
          /\ \A q \in SessionIds : Stored(q) /\ sessions[q].next = p => q = r
    BY <2>3 DEF FamiliesAreChains
  <2> QED
    BY <1>1, <1>2, <2>1, <2>3, <2>4
<1> QED
  BY <1>3, <1>4, <1>5, <1>6, <1>7

(* The commit of a deletion keeps SerialInv: it removes whole families.    *)
LEMMA DeleteCommitSerial ==
  ASSUME SerialInv, BaseInv', NEW w \in Workers, DeleteCommit(w)
  PROVE  SerialInv'
<1> USE DEF SerialInv
<1>1. /\ \A s \in SessionIds :
           /\ Stored(s)' <=> Stored(s) /\ s \notin task[w].rows
           /\ Stored(s)' => sessions'[s] = sessions[s]
           /\ sessions'[s] = Fresh <=> sessions[s] = Fresh
      /\ burned' = burned
      /\ \A v \in Workers : task'[v] = IF v = w THEN Idle ELSE task[v]
  BY ConstantsOK DEF DeleteCommit, Finish, Stored, BaseInv, TypeOK, ConstantsOK
<1>2. \A s \in SessionIds :
        Stored(s) => (s \in task[w].rows <=> sessions[s].owner = task[w].user)
  BY DEF DeleteCommit, ForeignKeyHolds, RowsOf, BaseInv, ReadsStillHold
<1>3. AloneOnFamily'
  <2>1. \A v \in Workers : task[v].fam # None => task[v].tok \in SessionIds
    BY ConstantsOK DEF BaseInv, TypeOK, LocalsSet, Task, ConstantsOK
  <2> QED
    BY <1>1, <2>1, NoneNotSerial DEF AloneOnFamily, Idle, LiveOf, Live
<1>4. BurnedKnown'
  BY <1>1 DEF BurnedKnown, BaseInv, TypeOK
<1>5. OneLivePerFamily' /\ BurnedStaysDead'
  BY <1>1 DEF OneLivePerFamily, OneLive, BurnedStaysDead, LiveOf, Live
<1>6. FamiliesAreChains'
  <2> SUFFICES ASSUME NEW s \in SessionIds, Stored(s)', s # sessions'[s].family,
                      sessions'[s].family \in SerialFamilies
               PROVE  \E r \in SessionIds :
                        /\ Stored(r)' /\ sessions'[r].next = s
                        /\ \A q \in SessionIds : Stored(q)' /\ sessions'[q].next = s => q = r
    BY DEF FamiliesAreChains
  <2>1. Stored(s) /\ sessions'[s] = sessions[s] /\ s # None
    BY <1>1, ConstantsOK DEF ConstantsOK
  <2>2. PICK r \in SessionIds :
          /\ Stored(r) /\ sessions[r].next = s
          /\ \A q \in SessionIds : Stored(q) /\ sessions[q].next = s => q = r
    BY <2>1 DEF FamiliesAreChains
  <2>3. sessions[r].owner = sessions[s].owner
    BY <2>1, <2>2 DEF BaseInv, ChainsAreLinked
  <2>4. Stored(r)' /\ sessions'[r] = sessions[r]
    BY <1>1, <1>2, <2>1, <2>2, <2>3
  <2> QED
    BY <1>1, <2>2, <2>4
<1> QED
  BY <1>3, <1>4, <1>5, <1>6

-----------------------------------------------------------------------------
(* The invariant of a client that sends one request at a time.             *)

(* SerialInv holds in the empty database.                                  *)
LEMMA InitSerial == Init => SerialInv
<1> SUFFICES ASSUME Init PROVE SerialInv
  OBVIOUS
<1>1. \A s \in SessionIds : ~Stored(s)
  BY DEF Init, Stored
<1> QED
  BY <1>1, InitBase, NoneNotSerial
     DEF Init, Idle, SerialInv, AloneOnFamily, BurnedKnown, OneLivePerFamily, OneLive,
         BurnedStaysDead, FamiliesAreChains, LiveOf, Live

(* Every step keeps SerialInv.                                             *)
LEMMA NextSerial == SerialInv /\ [Next]_vars => SerialInv'
<1> SUFFICES ASSUME SerialInv, [Next]_vars PROVE SerialInv'
  OBVIOUS
<1>0. BaseInv'
  BY NextBase DEF SerialInv
<1>1. ASSUME NEW w \in Workers, Arrive(w) PROVE SerialInv'
  BY <1>0, <1>1, RowRequestsSerial, OtherReadsSerial DEF Arrive
<1>2. ASSUME NEW w \in Workers, Proceed(w) PROVE SerialInv'
  <2>1. ASSUME NEW s \in SessionIds,
               LoginIssue(w, s) \/ RotateFlush(w, s) \/ RevokeOneSelect(w, s)
        PROVE  SerialInv'
    BY <1>0, <2>1, LoginIssueSerial, OtherReadsSerial, RowRequestsSerial
  <2>2. CASE BurnSelect(w) \/ RefreshCheck(w) \/ DeleteSelect(w)
    BY <1>0, <2>2, OtherReadsSerial
  <2>3. CASE BurnCommit(w) \/ RevokeCommit(w)
    BY <1>0, <2>3, BurnCommitSerial, RevokeCommitSerial
  <2>4. CASE RefreshCommit(w) \/ DeleteCommit(w)
    BY <1>0, <2>4, RefreshCommitSerial, DeleteCommitSerial
  <2>5. CASE AuthedReply(w) \/ RefreshRefuse(w) \/ FlushError(w) \/ SetStatusCommit(w)
    BY <1>0, <2>5, FinishSerial DEF AuthedReply, RefreshRefuse, FlushError, SetStatusCommit
  <2> QED
    BY <1>2, <2>1, <2>2, <2>3, <2>4, <2>5 DEF Proceed
<1>3. ASSUME NEW w \in Workers, Disconnect(w) PROVE SerialInv'
  BY <1>0, <1>3, FinishSerial DEF Disconnect
<1>4. CASE Tick \/ AwaitRequest \/ UNCHANGED vars
  BY <1>0, <1>4 DEF Tick, AwaitRequest, vars, SerialInv, AloneOnFamily, BurnedKnown,
     OneLivePerFamily, OneLive, BurnedStaysDead, FamiliesAreChains, LiveOf, Live, Stored
<1> QED
  BY <1>1, <1>2, <1>3, <1>4 DEF Next

(* SerialInv holds in every execution, whatever the undisciplined logins do*)
THEOREM SerialInvariant == Spec => []SerialInv
BY InitSerial, NextSerial, PTL DEF Spec

(* At most one token of a disciplined login is ever accepted.              *)
THEOREM OneLiveToken == Spec => []OneLivePerFamily
<1>1. SerialInv => OneLivePerFamily
  BY DEF SerialInv
<1> QED
  BY <1>1, SerialInvariant, PTL

(* A disciplined login whose replay was detected never has an accepted     *)
(* token again.                                                            *)
THEOREM BurnIsFinal == Spec => []BurnedStaysDead
<1>1. SerialInv => BurnedStaysDead
  BY DEF SerialInv
<1> QED
  BY <1>1, SerialInvariant, PTL

(* The rows of a disciplined login form one chain of replacements.         *)
THEOREM FamiliesStayChains == Spec => []FamiliesAreChains
<1>1. SerialInv => FamiliesAreChains
  BY DEF SerialInv
<1> QED
  BY <1>1, SerialInvariant, PTL

-----------------------------------------------------------------------------
(* The handlers implement the atomic scheme on the disciplined logins:     *)
(* login, rotation, revocation, burn and account deletion each happen at   *)
(* their commit.  What the other logins commit is hidden by the mapping,   *)
(* but for the ids it spends.                                              *)

(* The mapped value of live.                                               *)
Seen == [f \in SessionIds |-> IF f \in SerialFamilies THEN LiveOf(f) ELSE {}]

(* The ids handed out.                                                     *)
Used == {s \in SessionIds : sessions[s] # Fresh}

(* The empty database is an initial state of the atomic scheme.            *)
LEMMA InitSimulates == Init => Families!AInit
BY DEF Init, Families!AInit, LiveOf, Live, Stored

(* A step that leaves the rows and the burned families alone is a stutter. *)
LEMMA StutterSimulates ==
  ASSUME UNCHANGED <<sessions, burned>>
  PROVE  UNCHANGED Families!avars
BY DEF Families!avars, LiveOf, Live, Stored

(* The commit of a login is the atomic scheme's login, or spends an id.    *)
LEMMA LoginSimulates ==
  ASSUME SerialInv, NEW w \in Workers, NEW s \in SessionIds, LoginIssue(w, s)
  PROVE  Families!Login(s) \/ Families!Spend(s)
<1> USE DEF SerialInv
<1>1. /\ sessions[s] = Fresh /\ sessions'[s] # Fresh /\ Live(s)'
      /\ sessions'[s].family = s
      /\ \A r \in SessionIds \ {s} :
           sessions'[r] = sessions[r] /\ (Stored(r)' <=> Stored(r))
      /\ burned' = burned
  <2>1. task[w].user \in Users
    BY DEF LoginIssue, BaseInv, LocalsSet
  <2>2. InitialRow(s, task[w].user) \in Row
    BY <2>1, ConstantsOK DEF InitialRow, Row, BaseInv, TypeOK, ConstantsOK
  <2>3. InitialRow(s, task[w].user) \notin {Fresh, Gone}
    BY <2>2, ConstantsOK DEF ConstantsOK
  <2> QED
    BY <2>3 DEF LoginIssue, Unused, BaseInv, TypeOK, Stored, Live, InitialRow
<1>2. \A r \in SessionIds : Stored(r) => sessions[r].family \in SessionIds \ {s} /\ r # s
  BY <1>1, ReadRow DEF Stored
<1>3. LiveOf(s)' = {s} /\ \A f \in SessionIds \ {s} : LiveOf(f)' = LiveOf(f)
  BY <1>1, <1>2 DEF LiveOf, Live
<1>4. Used' = Used \cup {s} /\ s \notin Used
  BY <1>1 DEF Used
<1>5. CASE s \in SerialFamilies
  <2>1. Seen' = [Seen EXCEPT ![s] = {s}]
    BY <1>3, <1>5 DEF Seen
  <2> QED
    BY <1>1, <1>4, <2>1 DEF Families!Login, Seen, Used
<1>6. CASE s \notin SerialFamilies
  <2>1. Seen' = Seen
    BY <1>3, <1>6 DEF Seen
  <2> QED
    BY <1>1, <1>4, <2>1 DEF Families!Spend, Seen, Used
<1> QED
  BY <1>5, <1>6

(* The commit of a rotation is the atomic scheme's rotation, or spends an  *)
(* id.                                                                     *)
LEMMA RotationSimulates ==
  ASSUME SerialInv, NEW w \in Workers, RefreshCommit(w)
  PROVE  \E f, n \in SessionIds : Families!Rotate(f, n) \/ Families!Spend(n)
<1> USE DEF SerialInv
<1>1. PICK k \in SessionIds, n \in SessionIds, f \in SessionIds, u \in Users :
        /\ task[w].tok = k /\ task[w].fam = f
        /\ Stored(k) /\ sessions[n] = Fresh
        /\ sessions[k].family = f
        /\ sessions'[k].family = f /\ sessions'[k].revoked
        /\ sessions'[n].family = f /\ ~sessions'[n].revoked /\ sessions'[n] # Fresh
        /\ \A s \in SessionIds \ {k, n} : sessions'[s] = sessions[s]
        /\ \A s \in SessionIds : Stored(s)' <=> Stored(s) \/ s = n
        /\ \A s \in SessionIds : sessions[s] # Fresh => sessions'[s] # Fresh
  BY RefreshCommitTable
<1>2. \A g \in SessionIds \ {f} : LiveOf(g)' = LiveOf(g)
  BY <1>1 DEF LiveOf, Live, Stored
<1>3. Used' = Used \cup {n} /\ n \notin Used /\ burned' = burned
  <2>1. \A s \in SessionIds : sessions'[s] # Fresh <=> sessions[s] # Fresh \/ s = n
    BY <1>1 DEF Stored
  <2> QED
    BY <1>1, <2>1 DEF Used, RefreshCommit
<1>4. CASE f \in SerialFamilies
  <2>1. Live(k)
    BY <1>1, <1>4 DEF RefreshCommit, AloneOnFamily
  <2>2. k \in LiveOf(f) /\ k # n
    BY <1>1, <2>1 DEF LiveOf, Stored
  <2>3. LiveOf(f)' = {n}
    BY <1>1, <1>4, <2>1 DEF LiveOf, Live, OneLivePerFamily, OneLive
  <2>4. Seen' = [Seen EXCEPT ![f] = {n}] /\ Seen[f] # {}
    BY <1>2, <1>4, <2>2, <2>3 DEF Seen
  <2>5. Families!Rotate(f, n)
    BY <1>3, <2>4 DEF Families!Rotate, Seen, Used
  <2> QED
    BY <2>5
<1>5. CASE f \notin SerialFamilies
  <2>1. Seen' = Seen
    BY <1>2, <1>5 DEF Seen
  <2>2. Families!Spend(n)
    BY <1>3, <2>1 DEF Families!Spend, Seen, Used
  <2> QED
    BY <2>2
<1> QED
  BY <1>4, <1>5

(* A commit that only revokes removes tokens of its family, and no others; *)
(* a logout of a token that was revoked meanwhile is a stutter, and so is  *)
(* one of an undisciplined login.                                          *)
LEMMA RevocationSimulates ==
  ASSUME SerialInv, NEW w \in Workers, RevokeCommit(w)
  PROVE  (\E f \in SessionIds : Families!Revoke(f)) \/ UNCHANGED Families!avars
<1> USE DEF SerialInv
<1>1. PICK k \in SessionIds, f \in SessionIds :
        task[w].tok = k /\ task[w].fam = f
  BY ConstantsOK DEF RevokeCommit, BaseInv, TypeOK, LocalsSet, Task, ConstantsOK
<1>2. /\ Stored(k) /\ sessions[k] \in Row /\ sessions[k].family = f
      /\ sessions' = [sessions EXCEPT ![k] = Revoked(sessions[k])]
      /\ Revoked(sessions[k]) \in Row
      /\ burned' = burned
  BY <1>1, StoredIsRow, RevokedIsRow, ConstantsOK
     DEF RevokeCommit, BaseInv, ReadsStillHold, ConstantsOK
<1>3. /\ Stored(k)' /\ sessions'[k].revoked /\ sessions'[k] # Fresh
      /\ \A s \in SessionIds \ {k} : sessions'[s] = sessions[s]
  BY <1>2, RevokedIsRow, ConstantsOK DEF BaseInv, TypeOK, Stored, ConstantsOK
<1>4. \A g \in SessionIds \ {f} : LiveOf(g)' = LiveOf(g)
  BY <1>2, <1>3, RevokedIsRow DEF LiveOf, Live, Stored
<1>5. Used' = Used
  BY <1>2, <1>3 DEF Used, Stored
<1>6. CASE f \in SerialFamilies /\ Live(k)
  <2>1. k \in LiveOf(f)
    BY <1>2, <1>6 DEF LiveOf
  <2>2. LiveOf(f)' = {}
    BY <1>2, <1>3, <1>6 DEF LiveOf, Live, Stored, OneLivePerFamily, OneLive
  <2>3. Seen' = [Seen EXCEPT ![f] = {}] /\ Seen[f] # {}
    BY <1>4, <1>6, <2>1, <2>2 DEF Seen
  <2>4. Families!Revoke(f)
    BY <1>2, <1>5, <2>3 DEF Families!Revoke, Seen, Used
  <2> QED
    BY <2>4
<1>7. CASE f \notin SerialFamilies \/ ~Live(k)
  <2>1. ~Live(k) => LiveOf(f)' = LiveOf(f)
    BY <1>2, <1>3 DEF LiveOf, Live, Stored
  <2>2. Seen' = Seen
    BY <1>4, <1>7, <2>1 DEF Seen
  <2> QED
    BY <1>2, <1>5, <2>2 DEF Families!avars, Seen, Used
<1> QED
  BY <1>6, <1>7

(* The commit of a family revocation is the atomic scheme's replay; for an *)
(* undisciplined login it is a stutter.                                    *)
LEMMA BurnSimulates ==
  ASSUME SerialInv, SerialInv', NEW w \in Workers, BurnCommit(w)
  PROVE  (\E f \in SessionIds : Families!Burn(f)) \/ UNCHANGED Families!avars
<1> USE DEF SerialInv
<1>1. PICK f \in SessionIds : task[w].fam = f /\ f # None /\ sessions[f] # Fresh
  BY DEF BurnCommit, BaseInv, TypeOK, LocalsSet, ReadsStillHold, Task
<1>2. OnlyRevokes
  BY BurnCommitRevokes
<1>3. \A s \in SessionIds :
        /\ Stored(s)' <=> Stored(s)
        /\ sessions'[s] = Fresh <=> sessions[s] = Fresh
        /\ Stored(s) => sessions'[s].family = sessions[s].family
  BY <1>2, StoredIsRow, ConstantsOK DEF OnlyRevokes, BaseInv, Stored, ConstantsOK
<1>4. burned' = burned \cup {f}
  BY <1>1 DEF BurnCommit
<1>5. \A s \in SessionIds :
        Stored(s) /\ sessions[s].family # f => sessions'[s] = sessions[s]
  BY <1>1 DEF BurnCommit, BaseInv, ReadsStillHold, TypeOK
<1>6. \A g \in SessionIds \ {f} : LiveOf(g)' = LiveOf(g)
  BY <1>3, <1>5 DEF LiveOf, Live
<1>7. Used' = Used /\ f \in Used
  BY <1>1, <1>3 DEF Used
<1>8. CASE f \in SerialFamilies
  <2>1. LiveOf(f)' = {}
    BY <1>4, <1>8 DEF BurnedStaysDead
  <2>2. Seen' = [Seen EXCEPT ![f] = {}]
    BY <1>6, <1>8, <2>1 DEF Seen
  <2>3. (burned \cap SerialFamilies)' = (burned \cap SerialFamilies) \cup {f}
    BY <1>4, <1>8
  <2>4. Families!Burn(f)
    BY <1>7, <2>2, <2>3 DEF Families!Burn, Seen, Used
  <2> QED
    BY <2>4
<1>9. CASE f \notin SerialFamilies
  <2>1. Seen' = Seen
    BY <1>6, <1>9 DEF Seen
  <2>2. (burned \cap SerialFamilies)' = burned \cap SerialFamilies
    BY <1>4, <1>9
  <2> QED
    BY <1>7, <2>1, <2>2 DEF Families!avars, Seen, Used
<1> QED
  BY <1>8, <1>9

(* The commit of a deletion is the atomic scheme's deletion.               *)
LEMMA DeletionSimulates ==
  ASSUME SerialInv, NEW w \in Workers, DeleteCommit(w)
  PROVE  \E F \in SUBSET SessionIds : Families!Erase(F)
<1> USE DEF SerialInv
<1>0. PICK F \in SUBSET SessionIds :
        \A f \in SessionIds : f \in F <=>
          \E s \in SessionIds : /\ Stored(s) /\ sessions[s].owner = task[w].user
                               /\ sessions[s].family = f
  <2>1. {f \in SessionIds : \E s \in SessionIds :
           Stored(s) /\ sessions[s].owner = task[w].user /\ sessions[s].family = f}
          \in SUBSET SessionIds
    OBVIOUS
  <2> QED
    BY <2>1
<1>1. /\ \A s \in SessionIds :
           /\ Stored(s)' <=> Stored(s) /\ s \notin task[w].rows
           /\ Stored(s)' => sessions'[s] = sessions[s]
           /\ sessions'[s] = Fresh <=> sessions[s] = Fresh
      /\ burned' = burned
  BY ConstantsOK DEF DeleteCommit, Stored, BaseInv, TypeOK, ConstantsOK
<1>2. \A s \in SessionIds :
        Stored(s) => (s \in task[w].rows <=> sessions[s].owner = task[w].user)
  BY DEF DeleteCommit, ForeignKeyHolds, RowsOf, BaseInv, ReadsStillHold
<1>3. \A s \in SessionIds : Stored(s) => (Stored(s)' <=> sessions[s].family \notin F)
  <2>1. \A s \in SessionIds : Stored(s) => sessions[s].family \in SessionIds
    BY ReadRow
  <2> QED
    BY <1>0, <1>1, <1>2, <2>1 DEF BaseInv, FamiliesOwned
<1>4. \A f \in SessionIds : LiveOf(f)' = IF f \in F THEN {} ELSE LiveOf(f)
  BY <1>1, <1>3 DEF LiveOf, Live
<1>5. Used' = Used
  BY <1>1 DEF Used
<1>6. Seen' = [f \in SessionIds |-> IF f \in F THEN {} ELSE Seen[f]]
  BY <1>4 DEF Seen
<1>7. Families!Erase(F)
  BY <1>1, <1>5, <1>6 DEF Families!Erase, Seen, Used
<1> QED
  BY <1>7

(* Every step of the handlers is a step of the atomic scheme or changes    *)
(* nothing it sees.                                                        *)
LEMMA NextSimulates ==
  SerialInv /\ [Next]_vars => [Families!ANext]_(Families!avars)
<1> SUFFICES ASSUME SerialInv, [Next]_vars
             PROVE  [Families!ANext]_(Families!avars)
  OBVIOUS
<1>0. SerialInv'
  BY NextSerial
<1>1. CASE UNCHANGED <<sessions, burned>>
  BY <1>1, StutterSimulates
<1>2. ASSUME NEW w \in Workers, NEW s \in SessionIds, LoginIssue(w, s)
      PROVE  Families!ANext
  BY <1>2, LoginSimulates DEF Families!ANext
<1>3. ASSUME NEW w \in Workers, RefreshCommit(w)
      PROVE  Families!ANext
  BY <1>3, RotationSimulates DEF Families!ANext
<1>4. ASSUME NEW w \in Workers, RevokeCommit(w)
      PROVE  [Families!ANext]_(Families!avars)
  BY <1>4, RevocationSimulates DEF Families!ANext
<1>5. ASSUME NEW w \in Workers, BurnCommit(w)
      PROVE  [Families!ANext]_(Families!avars)
  BY <1>0, <1>5, BurnSimulates DEF Families!ANext
<1>6. ASSUME NEW w \in Workers, DeleteCommit(w)
      PROVE  Families!ANext
  BY <1>6, DeletionSimulates DEF Families!ANext
<1> QED
  BY <1>1, <1>2, <1>3, <1>4, <1>5, <1>6
     DEF Next, Arrive, Proceed, LoginSelect, Authenticate, RefreshReplay, RefreshLive,
         LogoutSelect, SetStatusSelect, BurnSelect, RotateFlush, RefreshCheck,
         RefreshRefuse, RevokeOneSelect, AuthedReply, DeleteSelect, SetStatusCommit,
         FlushError, Disconnect, Tick, AwaitRequest, vars

(* Every execution of the handlers is, seen through the committed rows, an *)
(* execution of the atomic scheme.                                         *)
THEOREM HandlersImplementFamilies == Spec => ImplementsFamilies
BY InitSimulates, SerialInvariant, NextSimulates, PTL
   DEF Spec, ImplementsFamilies, Families!ASpec
=============================================================================
