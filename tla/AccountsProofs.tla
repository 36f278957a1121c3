--------------------------- MODULE AccountsProofs ---------------------------
(***************************************************************************)
(* Proofs about Accounts, for any people, addresses, ids and workers and   *)
(* any token lifetime.  AccountsInv is inductive: most steps only move one *)
(* worker (TaskStep); five change the accounts or what was issued.         *)
(***************************************************************************)
EXTENDS Accounts, TLAPS

(* A worker that waits for a request fits anything.                        *)
LEMMA IdleFits == Idle \in Task /\ LocalsFit(Idle)
  BY AccountConstants DEF Idle, Task, LocalsFit, Acting, Statuses

(* Moving one worker to a local state that fits keeps the invariant.       *)
LEMMA TaskStep ==
  ASSUME AccountsInv, NEW w \in Workers, NEW t \in Task, LocalsFit(t),
         task' = [task EXCEPT ![w] = t],
         UNCHANGED <<users, tokens, logins, owner>>
  PROVE  AccountsInv'
<1>1. task' \in [Workers -> Task]
  BY DEF AccountsInv, TypeOK
<1>2. \A v \in Workers : task'[v] = IF v = w THEN t ELSE task[v]
  BY DEF AccountsInv, TypeOK
<1>3. TypeOK'
  BY <1>1 DEF AccountsInv, TypeOK
<1>4. \A v \in Workers : LocalsFit(task'[v])
  BY <1>2 DEF AccountsInv, LocalsSet
<1>5. LocalsSet'
  BY <1>4 DEF LocalsSet, LocalsFit
<1>6. TokensAreOwners'
  BY <1>4 DEF AccountsInv, TokensAreOwners, LocalsFit
<1>7. RowsOwned' /\ IssuedKnown' /\ EmailsUnique'
  BY DEF AccountsInv, RowsOwned, IssuedKnown, EmailsUnique, Stored
<1> QED
  BY <1>3, <1>5, <1>6, <1>7 DEF AccountsInv

(* What a step that ends the request of w leaves of the local variables.   *)
LEMMA FinishStep ==
  ASSUME AccountsInv, NEW w \in Workers, Finish(w)
  PROVE  /\ task' \in [Workers -> Task]
         /\ \A v \in Workers : task'[v] = IF v = w THEN Idle ELSE task[v]
BY IdleFits DEF Finish, AccountsInv, TypeOK

(* A request that ends without effect.                                     *)
LEMMA QuietEnd ==
  ASSUME AccountsInv, NEW w \in Workers, Finish(w),
         UNCHANGED <<users, tokens, logins, owner>>
  PROVE  AccountsInv'
BY IdleFits, TaskStep DEF Finish

(* Starting a registration, a login or a refresh.                          *)
LEMMA ArriveStep ==
  ASSUME AccountsInv, NEW w \in Workers, Arrive(w)
  PROVE  AccountsInv'
<1> USE AccountConstants
<1>1. ASSUME NEW p \in People, NEW a \in Addresses, RegisterSelect(w, p, a)
      PROVE  AccountsInv'
  <2> DEFINE t == [Idle EXCEPT !.pc = "register", !.person = p,
                               !.email = Normal(a)]
  <2>1. t \in Task /\ LocalsFit(t)
    BY IdleFits DEF Idle, Task, LocalsFit, Acting, Normal
  <2> QED
    BY <1>1, <2>1, TaskStep DEF RegisterSelect, Start
<1>2. ASSUME NEW p \in People, NEW a \in Addresses, LoginSelect(w, p, a)
      PROVE  AccountsInv'
  <2>1. PICK u \in WithEmail(Normal(a)) :
          /\ users[u].secret = p
          /\ Start(w, [Idle EXCEPT !.pc = "verified", !.person = p,
                                   !.user = u, !.email = Normal(a)])
          /\ UNCHANGED <<users, tokens, logins, owner>>
    BY <1>2 DEF LoginSelect, PasswordRight
  <2> DEFINE t == [Idle EXCEPT !.pc = "verified", !.person = p, !.user = u,
                               !.email = Normal(a)]
  <2>2. u \in UserIds /\ Stored(u)
    BY DEF WithEmail
  <2>3. p = owner[u]
    BY <2>1, <2>2 DEF AccountsInv, RowsOwned
  <2>4. t \in Task /\ LocalsFit(t)
    BY <2>2, <2>3 DEF Idle, Task, LocalsFit, Acting, Normal, Stored, Statuses
  <2> QED
    BY <2>1, <2>4, TaskStep DEF Start
<1>3. ASSUME NEW l \in logins, Refresh(w, l)
      PROVE  AccountsInv'
  <2> DEFINE t == [Idle EXCEPT !.pc = "rotated", !.person = l.holder,
                               !.user = l.sub]
  <2>1. l \in Login /\ users[l.sub] # Fresh /\ l.holder = owner[l.sub]
    BY DEF AccountsInv, TypeOK, IssuedKnown, TokensAreOwners
  <2>2. t \in Task /\ LocalsFit(t)
    BY <2>1 DEF Idle, Task, Login, LocalsFit, Acting, Statuses
  <2> QED
    BY <1>3, <2>2, TaskStep DEF Refresh, Start
<1>4. ASSUME NEW k \in tokens, Authenticate(w, k)
      PROVE  AccountsInv'
  <2> DEFINE t == [Idle EXCEPT !.pc = "authed", !.person = k.holder,
                               !.user = k.sub]
  <2>1. k \in Token /\ users[k.sub] # Fresh /\ k.holder = owner[k.sub]
    BY DEF AccountsInv, TypeOK, IssuedKnown, TokensAreOwners
  <2>2. t \in Task /\ LocalsFit(t)
    BY <2>1 DEF Idle, Task, Token, LocalsFit, Acting, Statuses
  <2> QED
    BY <1>4, <2>2, TaskStep DEF Authenticate, Start
<1>5. ASSUME NEW k \in tokens, AuthenticateAdmin(w, k)
      PROVE  AccountsInv'
  <2> DEFINE t == [Idle EXCEPT !.pc = "admin", !.person = k.holder,
                               !.user = k.sub]
  <2>1. k \in Token /\ users[k.sub] # Fresh /\ k.holder = owner[k.sub]
    BY DEF AccountsInv, TypeOK, IssuedKnown, TokensAreOwners
  <2>2. k.sub = Root
    BY <1>5, <2>1 DEF AuthenticateAdmin, Active, IsAdmin, AccountsInv,
                      RowsOwned, Token
  <2>3. t \in Task /\ LocalsFit(t)
    BY <2>1, <2>2 DEF Idle, Task, Token, LocalsFit, Acting, Statuses
  <2> QED
    BY <1>5, <2>3, TaskStep DEF AuthenticateAdmin, Start
<1> QED
  BY <1>1, <1>2, <1>3, <1>4, <1>5 DEF Arrive

(* The other requests are not disturbed by a step that ends the request of *)
(* w, forgets no account and changes the owner of none.                    *)
LEMMA OthersKept ==
  ASSUME AccountsInv, NEW w \in Workers, Finish(w),
         \A u \in UserIds :
           users[u] # Fresh => users'[u] # Fresh /\ owner'[u] = owner[u]
  PROVE  /\ LocalsSet'
         /\ \A v \in Workers :
              task'[v].user # None => task'[v].person = owner'[task'[v].user]
<1>1. task' \in [Workers -> Task]
        /\ \A v \in Workers : task'[v] = IF v = w THEN Idle ELSE task[v]
  BY FinishStep
<1>2. \A v \in Workers : task[v] \in Task /\ LocalsFit(task[v])
  BY DEF AccountsInv, TypeOK, LocalsSet
<1>3. ASSUME NEW v \in Workers
      PROVE  LocalsFit(task[v])'
  <2>1. CASE v = w
    BY <1>1, <2>1, AccountConstants DEF LocalsFit, Idle, Acting
  <2>2. CASE v # w
    <3>1. task'[v] = task[v] /\ LocalsFit(task[v]) /\ task[v] \in Task
      BY <1>1, <1>2, <2>2
    <3>2. task[v].user # None =>
            /\ users'[task[v].user] # Fresh
            /\ task[v].person = owner'[task[v].user]
      BY <3>1 DEF LocalsFit, Task
    <3>3. task[v].pc = "status" =>
            task[v].target # None /\ users'[task[v].target] # Fresh
      BY <3>1 DEF LocalsFit, Task
    <3> QED
      BY <3>1, <3>2, <3>3 DEF LocalsFit
  <2> QED
    BY <2>1, <2>2
<1>4. LocalsSet'
  BY <1>3 DEF LocalsSet
<1> QED
  BY <1>4 DEF LocalsSet, LocalsFit

(* A registration gives an id and an address that nobody has.              *)
LEMMA RegisterStep ==
  ASSUME AccountsInv, NEW w \in Workers, NEW u \in UserIds, RegisterCommit(w, u)
  PROVE  AccountsInv'
<1> USE AccountConstants
<1> DEFINE p == task[w].person
           e == task[w].email
           new == [email |-> e, secret |-> p, role |-> "user",
                   status |-> "active"]
<1>1. p \in People /\ e \in Addresses /\ Canon[e] = e
  BY DEF RegisterCommit, AccountsInv, LocalsSet, LocalsFit
<1>2. /\ new \in Row
      /\ \A v \in UserIds : users'[v] = IF v = u THEN new ELSE users[v]
      /\ \A v \in UserIds : owner'[v] = IF v = u THEN p ELSE owner[v]
  BY <1>1 DEF RegisterCommit, AccountsInv, TypeOK, Row, Statuses
<1>3. users[u] = Fresh /\ Finish(w) /\ UNCHANGED <<tokens, logins>>
  BY DEF RegisterCommit
<1>4. \A v \in UserIds :
        users[v] # Fresh => users'[v] # Fresh /\ owner'[v] = owner[v]
  BY <1>2, <1>3
<1>5. TypeOK'
  <2>1. users' \in [UserIds -> Row \cup {Fresh, Gone}]
    BY <1>1, <1>2 DEF RegisterCommit, AccountsInv, TypeOK
  <2>2. owner' \in [UserIds -> People \cup {None}]
    BY <1>1 DEF RegisterCommit, AccountsInv, TypeOK
  <2> QED
    BY <1>3, <2>1, <2>2, FinishStep DEF AccountsInv, TypeOK
<1>6. LocalsSet'
        /\ \A v \in Workers :
             task'[v].user # None => task'[v].person = owner'[task'[v].user]
  BY <1>3, <1>4, OthersKept
<1>7. \A v \in UserIds : Stored(v)' <=> v = u \/ Stored(v)
  BY <1>2, <1>3 DEF Stored
<1>8. RowsOwned'
  BY <1>1, <1>2, <1>7 DEF AccountsInv, RowsOwned
<1>9. IssuedKnown' /\ (\A t \in tokens' : t.holder = owner'[t.sub])
        /\ (\A l \in logins' : l.holder = owner'[l.sub])
  BY <1>3, <1>4 DEF AccountsInv, TypeOK, Token, Login, IssuedKnown,
                    TokensAreOwners
<1>10. EmailsUnique'
  <2>1. \A v \in UserIds : Stored(v) => users[v].email # e
    BY DEF RegisterCommit, WithEmail
  <2>2. \A v \in UserIds : Stored(v) => Canon[users[v].email] = users[v].email
    BY DEF AccountsInv, RowsOwned
  <2> QED
    BY <1>1, <1>2, <1>7, <2>1, <2>2 DEF AccountsInv, EmailsUnique
<1> QED
  BY <1>5, <1>6, <1>8, <1>9, <1>10 DEF AccountsInv, TokensAreOwners

(* A token is issued for the row that was read, if it is still there, and  *)
(* that row is the person's own.                                           *)
LEMMA IssueStep ==
  ASSUME AccountsInv, NEW w \in Workers, Issue(w)
  PROVE  AccountsInv'
<1> USE AccountConstants
<1> DEFINE u == task[w].user
           p == task[w].person
           k == [sub |-> u, holder |-> p, left |-> Lifetime]
           l == [sub |-> u, holder |-> p]
<1>1. u \in UserIds /\ p \in People /\ p = owner[u] /\ users[u] # Fresh
  <2>1. task[w] \in Task /\ LocalsFit(task[w]) /\ u # None
    BY DEF Issue, AccountsInv, TypeOK, LocalsSet, LocalsFit, Acting
  <2>2. u \in UserIds /\ p = owner[u] /\ users[u] # Fresh
    BY <2>1 DEF Task, LocalsFit
  <2>3. Stored(u) /\ users[u] \in Row \cup {Fresh, Gone}
    BY <2>2 DEF Issue, AccountsInv, TypeOK
  <2>4. users[u].secret \in People /\ users[u].secret = owner[u]
    BY <2>2, <2>3 DEF Stored, Row, AccountsInv, RowsOwned
  <2> QED
    BY <2>2, <2>4
<1>2. k \in Token /\ l \in Login
  BY <1>1 DEF Token, Login
<1>3. /\ tokens' = tokens \cup {k} /\ logins' = logins \cup {l}
      /\ Finish(w) /\ UNCHANGED <<users, owner>>
  BY DEF Issue
<1>4. TypeOK'
  BY <1>2, <1>3, FinishStep DEF AccountsInv, TypeOK
<1>5. LocalsSet'
        /\ \A v \in Workers :
             task'[v].user # None => task'[v].person = owner'[task'[v].user]
  BY <1>3, OthersKept
<1>6. RowsOwned' /\ EmailsUnique'
  BY <1>3 DEF AccountsInv, RowsOwned, EmailsUnique, Stored
<1>7. IssuedKnown' /\ (\A t \in tokens' : t.holder = owner'[t.sub])
        /\ (\A x \in logins' : x.holder = owner'[x.sub])
  BY <1>1, <1>3 DEF AccountsInv, IssuedKnown, TokensAreOwners
<1> QED
  BY <1>4, <1>5, <1>6, <1>7 DEF AccountsInv, TokensAreOwners

(* A deletion takes the row and its logins; the id stays used.             *)
LEMMA DeleteStep ==
  ASSUME AccountsInv, NEW w \in Workers, DeleteMe(w)
  PROVE  AccountsInv'
<1> USE AccountConstants
<1> DEFINE u == task[w].user
<1>1. /\ u \in UserIds /\ users[u] # Fresh
  BY DEF DeleteMe, AccountsInv, TypeOK, Task, LocalsSet, LocalsFit, Acting
<1>2. /\ \A v \in UserIds : users'[v] = IF v = u THEN Gone ELSE users[v]
      /\ users' \in [UserIds -> Row \cup {Fresh, Gone}]
      /\ logins' \subseteq logins /\ Finish(w) /\ UNCHANGED <<tokens, owner>>
  BY DEF DeleteMe, AccountsInv, TypeOK
<1>3. \A v \in UserIds :
        users[v] # Fresh => users'[v] # Fresh /\ owner'[v] = owner[v]
  BY <1>2
<1>4. TypeOK'
  BY <1>2, FinishStep DEF AccountsInv, TypeOK
<1>5. LocalsSet'
        /\ \A v \in Workers :
             task'[v].user # None => task'[v].person = owner'[task'[v].user]
  BY <1>2, <1>3, OthersKept
<1>6. \A v \in UserIds : Stored(v)' => Stored(v) /\ users'[v] = users[v]
  BY <1>2 DEF Stored
<1>7. RowsOwned' /\ EmailsUnique'
  BY <1>2, <1>6 DEF AccountsInv, RowsOwned, EmailsUnique
<1>8. IssuedKnown' /\ (\A t \in tokens' : t.holder = owner'[t.sub])
        /\ (\A x \in logins' : x.holder = owner'[x.sub])
  BY <1>2, <1>3 DEF AccountsInv, TypeOK, Token, Login, IssuedKnown,
                    TokensAreOwners
<1> QED
  BY <1>4, <1>5, <1>7, <1>8 DEF AccountsInv, TokensAreOwners

(* set_status writes nothing but the status of a row that is there.        *)
LEMMA StatusStep ==
  ASSUME AccountsInv, NEW w \in Workers, SetStatusCommit(w)
  PROVE  /\ AccountsInv'
         /\ \A v \in UserIds :
              \/ users'[v] = users[v]
              \/ /\ Stored(v)
                 /\ \E st \in Statuses :
                      users'[v] = [users[v] EXCEPT !.status = st]
<1> USE AccountConstants
<1> DEFINE u == task[w].target
           st == task[w].wanted
<1>1. u \in UserIds /\ st \in Statuses /\ Finish(w)
        /\ UNCHANGED <<tokens, logins, owner>>
  BY DEF SetStatusCommit, AccountsInv, TypeOK, Task, LocalsSet, LocalsFit
<1>2. /\ users' \in [UserIds -> Row \cup {Fresh, Gone}]
      /\ \A v \in UserIds :
           \/ users'[v] = users[v]
           \/ /\ Stored(v) /\ users[v] \in Row
              /\ users'[v] = [users[v] EXCEPT !.status = st]
  BY <1>1 DEF SetStatusCommit, AccountsInv, TypeOK, Stored, Row, Statuses
<1>3. \A v \in UserIds :
        /\ Stored(v)' <=> Stored(v)
        /\ users[v] # Fresh => users'[v] # Fresh /\ owner'[v] = owner[v]
        /\ Stored(v) => /\ users'[v].email = users[v].email
                        /\ users'[v].secret = users[v].secret
                        /\ users'[v].role = users[v].role
  BY <1>1, <1>2 DEF Stored, Row
<1>4. TypeOK'
  BY <1>1, <1>2, FinishStep DEF AccountsInv, TypeOK
<1>5. LocalsSet'
        /\ \A v \in Workers :
             task'[v].user # None => task'[v].person = owner'[task'[v].user]
  BY <1>1, <1>3, OthersKept
<1>6. RowsOwned' /\ EmailsUnique'
  BY <1>1, <1>3 DEF AccountsInv, RowsOwned, EmailsUnique
<1>7. IssuedKnown' /\ (\A t \in tokens' : t.holder = owner'[t.sub])
        /\ (\A x \in logins' : x.holder = owner'[x.sub])
  BY <1>1, <1>3 DEF AccountsInv, TypeOK, Token, Login, IssuedKnown,
                    TokensAreOwners
<1> QED
  BY <1>1, <1>2, <1>4, <1>5, <1>6, <1>7 DEF AccountsInv, TokensAreOwners

(* The steps of a request under way.                                       *)
LEMMA ProceedStep ==
  ASSUME AccountsInv, NEW w \in Workers, Proceed(w)
  PROVE  AccountsInv'
<1> USE AccountConstants
<1>1. task[w] \in Task /\ LocalsFit(task[w])
  BY DEF AccountsInv, TypeOK, LocalsSet
<1>2. ASSUME NEW u \in UserIds, NEW st \in Statuses, SetStatusSelect(w, u, st)
      PROVE  AccountsInv'
  <2> DEFINE ld == IF u = task[w].user THEN "active" ELSE users[u].status
             t == [task[w] EXCEPT !.pc = "status", !.target = u,
                                  !.wanted = st, !.loaded = ld]
  <2>1. ld \in Statuses /\ users[u] # Fresh
    BY <1>1, <1>2 DEF SetStatusSelect, Stored, AccountsInv, TypeOK, Row,
                      Statuses, LocalsFit, Acting
  <2>2. t \in Task /\ task' = [task EXCEPT ![w] = t]
    BY <1>1, <1>2, <2>1 DEF SetStatusSelect, Task, AccountsInv, TypeOK
  <2>3. LocalsFit(t)
    BY <1>1, <1>2, <2>1 DEF SetStatusSelect, LocalsFit, Acting, Task
  <2> QED
    BY <1>2, <2>2, <2>3, TaskStep DEF SetStatusSelect
<1>3. ASSUME RegisterFails(w)
      PROVE  AccountsInv'
  <2> DEFINE t == [task[w] EXCEPT !.pc = "error"]
  <2>1. t \in Task /\ task' = [task EXCEPT ![w] = t]
    BY <1>1, <1>3 DEF RegisterFails, Task, AccountsInv, TypeOK
  <2>2. LocalsFit(t)
    BY <1>1, <1>3 DEF RegisterFails, LocalsFit, Acting, Task
  <2> QED
    BY <1>3, <2>1, <2>2, TaskStep DEF RegisterFails
<1>4. ASSUME Reply(w) \/ IssueFails(w) \/ SetStatusFails(w)
      PROVE  AccountsInv'
  BY <1>4, QuietEnd DEF Reply, IssueFails, SetStatusFails
<1> QED
  BY <1>2, <1>3, <1>4, RegisterStep, IssueStep, DeleteStep, StatusStep
     DEF Proceed

(* Time only shortens the lives of tokens.                                 *)
LEMMA TickStep ==
  ASSUME AccountsInv, Tick
  PROVE  AccountsInv'
<1>1. \A k \in tokens' : k \in Token
        /\ \E t \in tokens : k.sub = t.sub /\ k.holder = t.holder
  <2> SUFFICES ASSUME NEW k \in tokens'
               PROVE  k \in Token
                 /\ \E t \in tokens : k.sub = t.sub /\ k.holder = t.holder
    OBVIOUS
  <2>1. PICK t \in tokens : t.left > 1 /\ k = [t EXCEPT !.left = @ - 1]
    BY DEF Tick
  <2> QED
    BY <2>1, AccountConstants DEF AccountsInv, TypeOK, Token
<1>2. UNCHANGED <<users, logins, task, owner>>
  BY DEF Tick
<1>3. TypeOK'
  BY <1>1, <1>2 DEF AccountsInv, TypeOK
<1>4. LocalsSet' /\ RowsOwned' /\ EmailsUnique'
  BY <1>2 DEF AccountsInv, LocalsSet, LocalsFit, RowsOwned, EmailsUnique, Stored
<1>5. IssuedKnown' /\ TokensAreOwners'
  BY <1>1, <1>2 DEF AccountsInv, IssuedKnown, TokensAreOwners
<1> QED
  BY <1>3, <1>4, <1>5 DEF AccountsInv

(* The invariant holds at the start and is kept by every step.             *)
LEMMA Inductive ==
  /\ Init => AccountsInv
  /\ AccountsInv /\ [Next]_vars => AccountsInv'
<1> USE AccountConstants
<1>1. ASSUME Init PROVE AccountsInv
  <2>1. TypeOK
    BY <1>1 DEF Init, TypeOK, Row, Idle, Task, Statuses
  <2>2. LocalsSet
    BY <1>1, IdleFits DEF Init, LocalsSet
  <2>3. \A u \in UserIds : Stored(u) => u = Root
    BY <1>1 DEF Init, Stored
  <2>4. RowsOwned /\ EmailsUnique
    BY <1>1, <2>3 DEF Init, RowsOwned, EmailsUnique
  <2>5. IssuedKnown /\ TokensAreOwners
    BY <1>1 DEF Init, IssuedKnown, TokensAreOwners, Idle
  <2> QED
    BY <2>1, <2>2, <2>4, <2>5 DEF AccountsInv
<1>2. ASSUME AccountsInv, Next PROVE AccountsInv'
  <2>1. ASSUME NEW w \in Workers, Disconnect(w) PROVE AccountsInv'
    BY <1>2, <2>1, QuietEnd DEF Disconnect
  <2> QED
    BY <1>2, <2>1, ArriveStep, ProceedStep, TickStep DEF Next
<1>3. ASSUME AccountsInv, UNCHANGED vars PROVE AccountsInv'
  BY <1>3 DEF vars, AccountsInv, TypeOK, LocalsSet, LocalsFit, RowsOwned,
              IssuedKnown, EmailsUnique, TokensAreOwners, Stored
<1> QED
  BY <1>1, <1>2, <1>3

(* The table, the tokens and the local variables keep their types.         *)
THEOREM AccountsTypeCorrect == Spec => []TypeOK
<1>1. AccountsInv => TypeOK
  BY DEF AccountsInv
<1> QED
  BY <1>1, Inductive, PTL DEF Spec

(* However many registrations and deletions overlap, an address has at     *)
(* most one account.                                                       *)
THEOREM OneAccountPerAddress == Spec => []EmailsUnique
<1>1. AccountsInv => EmailsUnique
  BY DEF AccountsInv
<1> QED
  BY <1>1, Inductive, PTL DEF Spec

(* No token, login or request comes to an account of another person.       *)
THEOREM TokensStayWithOwners == Spec => []TokensAreOwners
<1>1. AccountsInv => TokensAreOwners
  BY DEF AccountsInv
<1> QED
  BY <1>1, Inductive, PTL DEF Spec

(* A row that keeps its status is unchanged.                               *)
LEMMA SameStatus ==
  ASSUME AccountsInv, NEW v \in UserIds, Stored(v)
  PROVE  \E st \in Statuses : users[v] = [users[v] EXCEPT !.status = st]
<1>1. users[v] \in Row
  BY DEF AccountsInv, TypeOK, Stored
<1>2. users[v].status \in Statuses
        /\ users[v] = [users[v] EXCEPT !.status = users[v].status]
  BY <1>1 DEF Row
<1> QED
  BY <1>2

(* Accounts are deleted by their owners only and for good, and changed by  *)
(* the administrator only.                                                 *)
THEOREM ChangesByRight == Spec => OnlyByRight
<1> USE AccountConstants
<1>1. ASSUME AccountsInv, [Next]_vars PROVE ChangedByRight
  <2>1. ASSUME users' = users PROVE ChangedByRight
    BY <2>1, <1>1, SameStatus DEF ChangedByRight, Stored
  <2>2. ASSUME NEW w \in Workers, NEW u \in UserIds, RegisterCommit(w, u)
        PROVE  ChangedByRight
    <3>1. \A v \in UserIds : users[v] # Fresh => users'[v] = users[v]
      BY <1>1, <2>2 DEF RegisterCommit, AccountsInv, TypeOK
    <3> QED
      BY <1>1, <3>1, SameStatus DEF ChangedByRight, Stored
  <2>3. ASSUME NEW w \in Workers, DeleteMe(w) PROVE ChangedByRight
    <3>1. task[w] \in Task /\ LocalsFit(task[w])
      BY <1>1 DEF AccountsInv, TypeOK, LocalsSet
    <3>2. task[w].pc = "authed" /\ task[w].user \in UserIds
            /\ task[w].person = owner[task[w].user]
      BY <2>3, <3>1 DEF DeleteMe, Task, LocalsFit, Acting
    <3>3. MayDelete(task[w].user)
      BY <3>2 DEF MayDelete
    <3>4. \A v \in UserIds :
            users'[v] = IF v = task[w].user THEN Gone ELSE users[v]
      BY <1>1, <2>3 DEF DeleteMe, AccountsInv, TypeOK
    <3> QED
      BY <1>1, <3>3, <3>4, SameStatus DEF ChangedByRight, Stored
  <2>4. ASSUME NEW w \in Workers, SetStatusCommit(w) PROVE ChangedByRight
    <3>1. MaySetStatus
      BY <1>1, <2>4 DEF SetStatusCommit, MaySetStatus, AccountsInv, LocalsSet,
                        LocalsFit
    <3>2. \A v \in UserIds :
            \/ users'[v] = users[v]
            \/ Stored(v) /\ \E st \in Statuses :
                 users'[v] = [users[v] EXCEPT !.status = st]
      BY <1>1, <2>4, StatusStep
    <3>3. \A v \in UserIds : Stored(v) =>
            \E st \in Statuses : users'[v] = [users[v] EXCEPT !.status = st]
      BY <1>1, <3>2, SameStatus
    <3>4. \A v \in UserIds : users[v] = Gone => users'[v] = Gone
      BY <3>2 DEF Stored
    <3> QED
      BY <3>1, <3>2, <3>3, <3>4 DEF ChangedByRight
  <2>5. ASSUME NEW w \in Workers, Arrive(w) \/ Disconnect(w)
        PROVE  users' = users
    BY <2>5 DEF Arrive, Disconnect, RegisterSelect, LoginSelect, Refresh,
                Authenticate, AuthenticateAdmin
  <2>6. ASSUME NEW w \in Workers, Proceed(w)
        PROVE  ChangedByRight
    <3>1. ASSUME NEW u \in UserIds, NEW st \in Statuses,
                 SetStatusSelect(w, u, st)
          PROVE  users' = users
      BY <3>1 DEF SetStatusSelect
    <3>2. RegisterFails(w) \/ Issue(w) \/ IssueFails(w) \/ Reply(w)
            \/ SetStatusFails(w) => users' = users
      BY DEF RegisterFails, Issue, IssueFails, Reply, SetStatusFails
    <3> QED
      BY <2>1, <2>2, <2>3, <2>4, <2>6, <3>1, <3>2 DEF Proceed
  <2>7. Tick \/ UNCHANGED vars => users' = users
    BY DEF Tick, vars
  <2> QED
    BY <1>1, <2>1, <2>5, <2>6, <2>7 DEF Next
<1> QED
  BY <1>1, Inductive, PTL DEF Spec, OnlyByRight

(* Ageing or keeping the tokens, and starting no request, adds no access.  *)
LEMMA NothingAdded ==
  ASSUME NEW u \in UserIds, RequestsOf(u)' \subseteq RequestsOf(u),
         tokens \subseteq Token, tokens' = tokens
  PROVE  NoNewAccess(u)
BY DEF NoNewAccess, Token

(* A worker that starts a request, or moves on with its own, is the only   *)
(* one whose request may become another account's.                         *)
LEMMA RequestsKept ==
  ASSUME AccountsInv, NEW u \in UserIds, NEW w \in Workers, NEW t,
         task' = [task EXCEPT ![w] = t],
         t.user = u => task[w].user = u
  PROVE  RequestsOf(u)' \subseteq RequestsOf(u)
BY DEF AccountsInv, TypeOK, RequestsOf

(* What is left of the access to an account that is disabled or deleted    *)
(* only gets less.                                                         *)
THEOREM AccessOnlyShrinks == Spec => AccessShrinks
<1> USE AccountConstants
<1>1. ASSUME AccountsInv, [Next]_vars, NEW u \in UserIds, ~Active(u)
      PROVE  NoNewAccess(u)
  <2>1. /\ tokens \subseteq Token /\ logins \subseteq Login
        /\ \A w \in Workers : task[w] \in Task /\ task \in [Workers -> Task]
    BY <1>1 DEF AccountsInv, TypeOK
  <2>2. Idle.user # u
    BY DEF Idle
  <2>3. ASSUME NEW w \in Workers, Finish(w)
        PROVE  RequestsOf(u)' \subseteq RequestsOf(u)
    BY <1>1, <2>2, <2>3, RequestsKept DEF Finish
  <2>4. ASSUME NEW w \in Workers, Arrive(w)
        PROVE  NoNewAccess(u)
    <3>1. ASSUME NEW p \in People, NEW a \in Addresses,
                 RegisterSelect(w, p, a) \/ LoginSelect(w, p, a)
          PROVE  NoNewAccess(u)
      <4>1. PICK t : t.user # u /\ Start(w, t) /\ tokens' = tokens
        <5>1. CASE RegisterSelect(w, p, a)
          BY <5>1 DEF RegisterSelect, Idle
        <5>2. CASE LoginSelect(w, p, a)
          BY <1>1, <5>2 DEF LoginSelect, WithEmail, Idle
        <5> QED
          BY <3>1, <5>1, <5>2
      <4>2. RequestsOf(u)' \subseteq RequestsOf(u)
        BY <1>1, <4>1, RequestsKept DEF Start
      <4> QED
        BY <2>1, <4>1, <4>2, NothingAdded
    <3>2. ASSUME NEW l \in logins, Refresh(w, l)
          PROVE  NoNewAccess(u)
      BY <1>1, <2>1, <3>2, NothingAdded, RequestsKept
         DEF Refresh, Start, Idle
    <3>3. ASSUME NEW t \in tokens, Authenticate(w, t) \/ AuthenticateAdmin(w, t)
          PROVE  NoNewAccess(u)
      BY <1>1, <2>1, <3>3, NothingAdded, RequestsKept
         DEF Authenticate, AuthenticateAdmin, Start, Idle
    <3> QED
      BY <2>4, <3>1, <3>2, <3>3 DEF Arrive
  <2>5. ASSUME NEW w \in Workers, Issue(w)
        PROVE  NoNewAccess(u)
    <3>1. RequestsOf(u)' \subseteq RequestsOf(u) /\ w \notin RequestsOf(u)'
      BY <2>1, <2>2, <2>3, <2>5 DEF Issue, Finish, RequestsOf
    <3>2. ASSUME NEW t \in tokens', t.sub = u, t \notin tokens
          PROVE  w \in RequestsOf(u) /\ task[w].pc \in {"verified", "rotated"}
      BY <2>5, <3>2 DEF Issue, RequestsOf
    <3>3. \A t \in tokens : t.left <= t.left
      BY <2>1 DEF Token
    <3> QED
      BY <3>1, <3>2, <3>3 DEF NoNewAccess
  <2>6. ASSUME NEW w \in Workers, Proceed(w), ~Issue(w)
        PROVE  NoNewAccess(u)
    <3>1. tokens' = tokens
      BY <2>6 DEF Proceed, RegisterCommit, SetStatusSelect, RegisterFails,
           IssueFails, Reply, DeleteMe, SetStatusCommit, SetStatusFails
    <3>2. CASE RegisterFails(w) \/ \E v \in UserIds, st \in Statuses :
                                     SetStatusSelect(w, v, st)
      <4>1. PICK t : t.user = task[w].user /\ task' = [task EXCEPT ![w] = t]
        <5>1. CASE RegisterFails(w)
          BY <2>1, <5>1 DEF RegisterFails, Task
        <5>2. ASSUME NEW v \in UserIds, NEW st \in Statuses,
                     SetStatusSelect(w, v, st)
              PROVE  \E t : t.user = task[w].user
                              /\ task' = [task EXCEPT ![w] = t]
          BY <2>1, <5>2 DEF SetStatusSelect, Task
        <5> QED
          BY <3>2, <5>1, <5>2
      <4>2. RequestsOf(u)' \subseteq RequestsOf(u)
        BY <1>1, <4>1, RequestsKept
      <4> QED
        BY <2>1, <3>1, <4>2, NothingAdded
    <3>3. CASE Finish(w)
      BY <2>1, <2>3, <3>1, <3>3, NothingAdded
    <3> QED
      BY <2>6, <3>2, <3>3 DEF Proceed, RegisterCommit, IssueFails, Reply,
           DeleteMe, SetStatusCommit, SetStatusFails
  <2>7. ASSUME NEW w \in Workers, Disconnect(w)
        PROVE  NoNewAccess(u)
    BY <2>1, <2>3, <2>7, NothingAdded DEF Disconnect
  <2>8. ASSUME Tick PROVE NoNewAccess(u)
    <3>1. RequestsOf(u)' = RequestsOf(u)
      BY <2>8 DEF Tick, RequestsOf
    <3>2. ASSUME NEW t \in tokens', t.sub = u
          PROVE  \E x \in tokens :
                   x.sub = u /\ x.holder = t.holder /\ t.left <= x.left
      <4>1. PICK x \in tokens : t = [x EXCEPT !.left = @ - 1]
        BY <2>8 DEF Tick
      <4>2. x \in Token
        BY <2>1
      <4> QED
        BY <3>2, <4>1, <4>2 DEF Token
    <3> QED
      BY <3>1, <3>2 DEF NoNewAccess
  <2>9. ASSUME UNCHANGED vars PROVE NoNewAccess(u)
    BY <2>1, <2>9, NothingAdded DEF vars, RequestsOf
  <2> QED
    BY <1>1, <2>4, <2>5, <2>6, <2>7, <2>8, <2>9 DEF Next
<1>2. AccountsInv /\ [Next]_vars =>
        \A u \in UserIds : ~Active(u) /\ ~Active(u)' => NoNewAccess(u)
  BY <1>1
<1> QED
  BY <1>2, Inductive, PTL DEF Spec, AccessShrinks

=============================================================================
