------------------------------ MODULE Accounts ------------------------------
(***************************************************************************)
(* Accounts and access tokens: register, login, refresh and delete_me of   *)
(* app/api/v1/auth.py as far as they concern the table users, the tokens   *)
(* of app/auth/jwt.py, the checks of app/auth/dependencies.py, and the     *)
(* administrator's set_status.  An address is what a client typed; the     *)
(* schemas bring it to its normal form.  A password is the person's who    *)
(* registered with it.  An address can be registered again after its       *)
(* account is deleted; ids never come back.                                *)
(***************************************************************************)
EXTENDS Integers

CONSTANTS
  People,     \* those who send requests, each with a password of their own
  Addresses,  \* email addresses as typed
  Canon,      \* Canon[a]: the address in its normal form, v.strip().lower()
  UserIds,    \* ids an account can get; bounds the registrations
  Root,       \* the administrator's account, set up with the database
  RootRow,    \* and its row
  Workers,    \* threads of the server
  Fresh,      \* users[u] before the row is inserted
  Gone,       \* users[u] after the row is deleted
  None,       \* an unset local variable
  Lifetime    \* access_token_lifetime_minutes, in ticks

VARIABLES
  users,   \* table users, by id
  tokens,  \* access tokens that have not expired, wherever they are
  logins,  \* logins with a refresh token: whose account, who has it
  task,    \* per worker: statement and local variables
  owner    \* history: who registered an account

vars == <<users, tokens, logins, task, owner>>

Statuses == {"active", "disabled"}

(* models.User; secret stands for the person whose password was hashed.    *)
Row == [email: Addresses, secret: People, role: {"user", "admin"},
        status: Statuses]

(* The claims sub and exp (as the ticks that are left), and who got it;    *)
(* nobody reads the claim role.                                            *)
Token == [sub: UserIds, holder: People, left: 1..Lifetime]

Login == [sub: UserIds, holder: People]

(* email is the address a login was made with; loaded is what set_status   *)
(* read and wanted is what it was asked for.                               *)
Task == [pc: {"idle", "register", "verified", "rotated", "authed", "admin",
              "status", "error"},
         person: People \cup {None}, email: Addresses \cup {None},
         user: UserIds \cup {None}, target: UserIds \cup {None},
         loaded: Statuses, wanted: Statuses]

Idle == [pc |-> "idle", person |-> None, email |-> None, user |-> None,
         target |-> None, loaded |-> "active", wanted |-> "active"]

ASSUME AccountConstants ==
  /\ Canon \in [Addresses -> Addresses]
  /\ \A a \in Addresses : Canon[Canon[a]] = Canon[a]
  /\ Root \in UserIds
  /\ RootRow \in Row /\ Canon[RootRow.email] = RootRow.email
  /\ Fresh # Gone /\ Fresh \notin Row /\ Gone \notin Row
  /\ None \notin UserIds \cup People \cup Addresses
  /\ Lifetime \in Nat \ {0}

TypeOK ==
  /\ users \in [UserIds -> Row \cup {Fresh, Gone}]
  /\ tokens \subseteq Token
  /\ logins \subseteq Login
  /\ task \in [Workers -> Task]
  /\ owner \in [UserIds -> People \cup {None}]

Init ==
  /\ users = [u \in UserIds |-> IF u = Root THEN RootRow ELSE Fresh]
  /\ tokens = {}
  /\ logins = {}
  /\ task = [w \in Workers |-> Idle]
  /\ owner = [u \in UserIds |-> IF u = Root THEN RootRow.secret ELSE None]

-----------------------------------------------------------------------------
Stored(u) == users[u] \notin {Fresh, Gone}

Active(u) == Stored(u) /\ users[u].status = "active"

AsTyped(a) == a

(* The validators of RegisterRequest.email and LoginRequest.email.         *)
Normal(a) == Canon[a]

(* SELECT users WHERE email = ...                                          *)
WithEmail(e) == {u \in UserIds : Stored(u) /\ users[u].email = e}

(* verify_password.                                                        *)
PasswordRight(u, p) == users[u].secret = p

(* A rotation has flushed its successor, which holds the user's row.       *)
Held(u) == \E w \in Workers : task[w].pc = "rotated" /\ task[w].user = u

Start(w, t) == task[w] = Idle /\ task' = [task EXCEPT ![w] = t]

Finish(w) == task' = [task EXCEPT ![w] = Idle]

-----------------------------------------------------------------------------
(* register: the address is free (else a 409), so hash the password, which *)
(* takes long, then insert.                                                *)
RegisterSelect(w, p, a) ==
  /\ WithEmail(Normal(a)) = {}
  /\ Start(w, [Idle EXCEPT !.pc = "register", !.person = p,
                           !.email = Normal(a)])
  /\ UNCHANGED <<users, tokens, logins, owner>>

(* users.email is unique, and uuid4 gives an id no row ever had.           *)
RegisterCommit(w, u) ==
  LET t == task[w] IN
  /\ t.pc = "register"
  /\ WithEmail(t.email) = {}
  /\ users[u] = Fresh
  /\ users' = [users EXCEPT ![u] = [email |-> t.email, secret |-> t.person,
                                    role |-> "user", status |-> "active"]]
  /\ owner' = [owner EXCEPT ![u] = t.person]
  /\ Finish(w)
  /\ UNCHANGED <<tokens, logins>>

(* IntegrityError, which nothing catches: a 500 although auth.py:77 and    *)
(* tests/auth/test_auth_flow.py:22 speak of a conflict.                    *)
RegisterFails(w) ==
  /\ task[w].pc = "register"
  /\ WithEmail(task[w].email) # {}
  /\ task' = [task EXCEPT ![w].pc = "error"]
  /\ UNCHANGED <<users, tokens, logins, owner>>

(* login: SELECT by email and verify_password.  LoginLockout has the       *)
(* counter and the lock, which refuse some of these logins.                *)
LoginSelect(w, p, a) ==
  \E u \in WithEmail(Normal(a)) :
    /\ Active(u)
    /\ PasswordRight(u, p)
    /\ Start(w, [Idle EXCEPT !.pc = "verified", !.person = p, !.user = u,
                             !.email = Normal(a)])
    /\ UNCHANGED <<users, tokens, logins, owner>>

RefreshUnchecked(w, l) ==
  /\ l \in logins
  /\ Start(w, [Idle EXCEPT !.pc = "rotated", !.person = l.holder,
                           !.user = l.sub])
  /\ UNCHANGED <<users, tokens, logins, owner>>

(* refresh: rotate has flushed, then db.get of the user.  A refusal rolls  *)
(* back and changes nothing.  RefreshTokens says when a login has ended;   *)
(* here it may be used as long as the account exists.                      *)
Refresh(w, l) ==
  /\ l \in logins
  /\ Active(l.sub)
  /\ Start(w, [Idle EXCEPT !.pc = "rotated", !.person = l.holder,
                           !.user = l.sub])
  /\ UNCHANGED <<users, tokens, logins, owner>>

IssueByEmail(w) ==
  LET t == task[w] IN
  /\ t.pc \in {"verified", "rotated"}
  /\ \E u \in IF t.pc = "rotated" THEN {t.user} ELSE WithEmail(t.email) :
       /\ tokens' = tokens \cup {[sub |-> u, holder |-> t.person,
                                  left |-> Lifetime]}
       /\ logins' = logins \cup {[sub |-> u, holder |-> t.person]}
  /\ Finish(w)
  /\ UNCHANGED <<users, owner>>

(* create_access_token and the commit, for the row that was loaded: its    *)
(* status is not looked at again.                                          *)
Issue(w) ==
  LET t == task[w] IN
  /\ t.pc \in {"verified", "rotated"}
  /\ Stored(t.user)
  /\ tokens' = tokens \cup {[sub |-> t.user, holder |-> t.person,
                             left |-> Lifetime]}
  /\ logins' = logins \cup {[sub |-> t.user, holder |-> t.person]}
  /\ Finish(w)
  /\ UNCHANGED <<users, owner>>

(* StaleDataError: the UPDATE of the user finds no row.                    *)
IssueFails(w) ==
  /\ task[w].pc = "verified"
  /\ ~Stored(task[w].user)
  /\ Finish(w)
  /\ UNCHANGED <<users, tokens, logins, owner>>

(* get_current_user: a token that decode_access_token accepts, whose       *)
(* account exists and is active.                                           *)
Authenticate(w, t) ==
  /\ t \in tokens
  /\ Active(t.sub)
  /\ Start(w, [Idle EXCEPT !.pc = "authed", !.person = t.holder,
                           !.user = t.sub])
  /\ UNCHANGED <<users, tokens, logins, owner>>

AnyRole(u) == TRUE

(* The role is the row's, not the token's.                                 *)
IsAdmin(u) == users[u].role = "admin"

(* require_admin_user, on the row get_current_user has loaded.             *)
AuthenticateAdmin(w, t) ==
  /\ t \in tokens
  /\ Active(t.sub)
  /\ IsAdmin(t.sub)
  /\ Start(w, [Idle EXCEPT !.pc = "admin", !.person = t.holder,
                           !.user = t.sub])
  /\ UNCHANGED <<users, tokens, logins, owner>>

(* me, list_users and every other answer that changes no account; the 500. *)
Reply(w) ==
  /\ task[w].pc \in {"authed", "admin", "error"}
  /\ Finish(w)
  /\ UNCHANGED <<users, tokens, logins, owner>>

(* delete_me.  What it cascades to, and what can make it fail, is in       *)
(* RefreshTokens and Jobs.  A second DELETE of the row finds nothing.      *)
DeleteMe(w) ==
  LET u == task[w].user IN
  /\ task[w].pc = "authed"
  /\ ~Held(u)
  /\ users' = [users EXCEPT ![u] = Gone]
  /\ logins' = {l \in logins : l.sub # u}
  /\ Finish(w)
  /\ UNCHANGED <<tokens, owner>>

(* set_status: db.get of the target.  The administrator's own row is       *)
(* already in the session and is not read again.                           *)
SetStatusSelect(w, u, st) ==
  /\ task[w].pc = "admin"
  /\ u = task[w].user \/ Stored(u)
  /\ task' = [task EXCEPT
       ![w].pc = "status", ![w].target = u, ![w].wanted = st,
       ![w].loaded = IF u = task[w].user THEN "active" ELSE users[u].status]
  /\ UNCHANGED <<users, tokens, logins, owner>>

(* SQLAlchemy writes nothing when the status is the one it loaded.         *)
SetStatusCommit(w) ==
  LET t == task[w] IN
  /\ t.pc = "status"
  /\ \/ t.wanted = t.loaded /\ users' = users
     \/ /\ t.wanted # t.loaded
        /\ Stored(t.target)
        /\ users' = [users EXCEPT ![t.target].status = t.wanted]
  /\ Finish(w)
  /\ UNCHANGED <<tokens, logins, owner>>

(* StaleDataError: the target was deleted in between.                      *)
SetStatusFails(w) ==
  /\ task[w].pc = "status"
  /\ task[w].wanted # task[w].loaded
  /\ ~Stored(task[w].target)
  /\ Finish(w)
  /\ UNCHANGED <<users, tokens, logins, owner>>

(* The database connection drops: the transaction is rolled back.          *)
Disconnect(w) ==
  /\ task[w] # Idle
  /\ Finish(w)
  /\ UNCHANGED <<users, tokens, logins, owner>>

TickLate ==
  /\ tokens' = {[t EXCEPT !.left = @ - 1] : t \in {x \in tokens : x.left > 0}}
  /\ UNCHANGED <<users, logins, task, owner>>

(* Time passes; pyjwt refuses a token from its exp on.                     *)
Tick ==
  /\ tokens' = {[t EXCEPT !.left = @ - 1] : t \in {x \in tokens : x.left > 1}}
  /\ UNCHANGED <<users, logins, task, owner>>

-----------------------------------------------------------------------------
(* A request arrives.                                                      *)
Arrive(w) ==
  \/ \E a \in Addresses, p \in People :
       RegisterSelect(w, p, a) \/ LoginSelect(w, p, a)
  \/ \E l \in logins : Refresh(w, l)
  \/ \E t \in tokens : Authenticate(w, t) \/ AuthenticateAdmin(w, t)

(* Its next statement.                                                     *)
Proceed(w) ==
  \/ \E u \in UserIds :
       \/ RegisterCommit(w, u)
       \/ \E st \in Statuses : SetStatusSelect(w, u, st)
  \/ RegisterFails(w)
  \/ Issue(w) \/ IssueFails(w)
  \/ Reply(w) \/ DeleteMe(w)
  \/ SetStatusCommit(w) \/ SetStatusFails(w)

Next ==
  \/ \E w \in Workers : Arrive(w) \/ Proceed(w) \/ Disconnect(w)
  \/ Tick

Spec == Init /\ [][Next]_vars

(* Threads that run are scheduled, and the clock does not stop.            *)
Fairness == WF_vars(Tick) /\ \A w \in Workers : WF_vars(Proceed(w))

FairSpec == Spec /\ Fairness

-----------------------------------------------------------------------------
(* One address in any spelling has one account, however registrations,     *)
(* deletions and registrations again overlap (the check of auth.py:75 and  *)
(* the unique constraint of models.py:47, both on the normal form).        *)
EmailsUnique ==
  \A u, v \in UserIds :
    /\ Stored(u) /\ Stored(v)
    /\ Canon[users[u].email] = Canon[users[v].email]
    => u = v

(* Whoever holds a token of an account, has a login of it, or has a        *)
(* request under way as its user, registered that very account: nobody     *)
(* comes to another's account through an address that changed hands.       *)
TokensAreOwners ==
  /\ \A t \in tokens : t.holder = owner[t.sub]
  /\ \A l \in logins : l.holder = owner[l.sub]
  /\ \A w \in Workers :
       task[w].user # None => task[w].person = owner[task[w].user]

MayDelete(u) ==
  \E w \in Workers : task[w].pc = "authed" /\ task[w].person = owner[u]

MaySetStatus == \E w \in Workers : task[w].pc = "status" /\ task[w].user = Root

ChangedByRight ==
  \A u \in UserIds :
    /\ users[u] = Gone => users'[u] = Gone
    /\ Stored(u) =>
         \/ users'[u] = Gone /\ MayDelete(u)
         \/ \E st \in Statuses : users'[u] = [users[u] EXCEPT !.status = st]
    /\ Stored(u) /\ users'[u] # Gone /\ users'[u] # users[u] => MaySetStatus

(* An account disappears for good, and only in a request of the person who *)
(* registered it; only its status ever changes, and only in a request of   *)
(* the administrator; a deletion that overlaps a set_status is not undone  *)
(* by it.                                                                  *)
OnlyByRight == [][ChangedByRight]_vars

Access(u) ==
  \/ \E t \in tokens : t.sub = u
  \/ \E w \in Workers : task[w].user = u

(* Once an account stays disabled or is deleted, all that was issued for   *)
(* it before, or by a login or a refresh that overlapped the change, runs  *)
(* out: no valid token and no request of it is left (jwt.py:3-5).          *)
AccessDiesOut == \A u \in UserIds : <>[]~Active(u) => <>[]~Access(u)

RequestsOf(u) == {w \in Workers : task[w].user = u}

NoNewAccess(u) ==
  /\ RequestsOf(u)' \subseteq RequestsOf(u)
  /\ \A t \in {x \in tokens' : x.sub = u} :
       \/ \E x \in tokens : x.sub = u /\ x.holder = t.holder /\ t.left <= x.left
       \/ \E w \in RequestsOf(u) :
            task[w].pc \in {"verified", "rotated"} /\ w \notin RequestsOf(u)'

(* While an account is disabled or deleted, no request begins in its name, *)
(* and the tokens there are only age, but for one that a login or refresh  *)
(* which had read the account before may still hand out as it ends: what   *)
(* remains of the access can only get less (dependencies.py:39,            *)
(* auth.py:133, and login's check of the status).                          *)
AccessShrinks ==
  [][\A u \in UserIds : ~Active(u) /\ ~Active(u)' => NoNewAccess(u)]_vars

-----------------------------------------------------------------------------
(* Inductive invariant.                                                    *)

Acting == {"verified", "rotated", "authed", "admin", "status"}

(* What a worker in local state t has read.                                *)
LocalsFit(t) ==
  /\ t.pc = "register" =>
       t.person \in People /\ t.email \in Addresses /\ Canon[t.email] = t.email
  /\ t.pc \in Acting <=> t.user # None
  /\ t.user # None => users[t.user] # Fresh /\ t.person = owner[t.user]
  /\ t.pc \in {"admin", "status"} => t.user = Root
  /\ t.pc = "status" => t.target # None /\ users[t.target] # Fresh

LocalsSet == \A w \in Workers : LocalsFit(task[w])

(* A row has the password of its owner and an address in normal form; only *)
(* Root is an administrator.                                               *)
RowsOwned ==
  \A u \in UserIds :
    Stored(u) =>
      /\ users[u].secret = owner[u]
      /\ Canon[users[u].email] = users[u].email
      /\ users[u].role = "admin" => u = Root

(* Nothing was issued for an id that has not been given yet.               *)
IssuedKnown ==
  /\ \A t \in tokens : users[t.sub] # Fresh
  /\ \A l \in logins : users[l.sub] # Fresh

AccountsInv ==
  TypeOK /\ LocalsSet /\ RowsOwned /\ IssuedKnown /\ EmailsUnique
    /\ TokensAreOwners
=============================================================================
