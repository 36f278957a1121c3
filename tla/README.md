# Verification of the secure steganography platform

The program (`src/app`) is a FastAPI service.  Users register, log in with a
password, and hold short-lived access tokens and rotating refresh tokens; with
them they embed an encrypted payload in a PNG, extract it, verify a PNG's
structure, and look at or delete the records of those jobs.  Handlers are plain
`def` functions, so they run in a pool of threads, usually in several
processes, over one relational database (SQLite by default, PostgreSQL in
production); nothing in the program serialises them.  This directory holds TLA+
models of that program, TLC runs over small instances, and TLAPS proofs for
every size.

## 1. Inventory

| Component (source) | State | Operations | What is hard | What makes it correct |
| --- | --- | --- | --- | --- |
| refresh tokens, sessions (`auth/refresh_tokens.py`, `api/v1/auth.py`) | table `sessions` | login's issue, refresh (rotate or revoke the family), logout, sessions, revoke one, delete account | two requests on one token; a request that fails after its flush; account deletion while another request inserts | one accepted token per login; a replay ends the login; rotation all or nothing; no session without its account; revocation is final; everyone is answered |
| login and lockout (`api/v1/auth.py`) | `users.failed_login_count`, `locked_until`, `status` | login, administrator's set_status | Argon2 takes long between the read and the write of the counter; the end of a lock is computed before it is stored | locked at the configured failure, not before; a lock runs its time |
| upload validation (`files/validators.py`) | Pillow's global `Image.MAX_IMAGE_PIXELS` | validate_png | threads change and restore the same global | no bomb is decoded; the global comes back; the verdict does not depend on other calls |
| steganography engine (`services`, `steganography`, `crypto`) | none; the picture at the client | embed_payload, extract, verify | where the header ends, which bits a second embedding leaves, which size check counts what | extract returns exactly what was embedded last, or fails |
| jobs (`api/v1/jobs.py`, `core/metrics.py`) | table `processing_jobs`, counters of the process | embed, extract, verify, list, get, delete | the job's row is inserted long after its user was checked | owner only; soft delete is final; no orphans; counters follow commits |
| administration (`api/v1/admin.py`, `auth/dependencies.py`) | `users.status` | set_status, lists | disabling a user whose requests are under way; a target that is deleted meanwhile | changes by right only; a disabled account loses its access |
| registration (`register`, `schemas/auth.py`) | table `users` | register | check, then a slow hash, then insert; an address is freed and taken again | one account per address in any spelling |
| access tokens (`auth/jwt.py`, `auth/dependencies.py`) | none: the tokens are at the clients | create, decode | cannot be withdrawn; the account is checked once per request | only their owner's account; dead after their lifetime |
| server resources (`db/session.py`, FastAPI's thread pool, the engine's pool, row locks) | threads, connections, locks | get_db, every handler's statements and commit | requests hold one kind while they wait for another | bounded pools; only deletions of an account can deadlock; everyone is answered |
| passwords, permission helpers | none | pure functions | | |
| audit, MFA, rate limiting, storage, cleanup, signatures, CLI | none | none: the files hold a docstring or a TODO | | |

Components interact through the database (a handler's transaction sees what
others committed), through the account (`get_current_user` reads its status
once, at the start of a request; `delete_me` cascades to sessions and jobs),
through Pillow's global, through the threads, connections and row locks they
compete for, and through plain calls (the jobs routes call the validator and the
engine).

`PROJECT.json` lists the hazards with their lines.

## 2. Modules

| Module | Models |
| --- | --- |
| `TokenFamilies` | abstract: what rotation promises. Login, rotation, revocation, replay are atomic; `Spend` is an id that goes to a login which is promised nothing |
| `RefreshTokens` | the session handlers, one action per statement that reads or writes the database |
| `LoginLockout` | the login handler up to its verdict's commit |
| `PngValidator` | validate_png, one action per access to Pillow's global |
| `Jobs` | the jobs routes, delete_me's cascade to jobs, the counters, restarts |
| `StegoImage` | embed_payload, extract, verify on one picture |
| `Accounts` | register, login, refresh, delete_me and set_status as far as they touch `users`; access tokens and who may use them |
| `ServerResources` | which thread, connection and row locks each request holds and waits for |
| `MC*` | instances for TLC: symmetry sets, uploads, pictures, permutations |
| `*Proofs` | theorems; each EXTENDS the module it is about |

### Correspondence with the code

**A handler** is a worker: `task[w]` holds the next statement (`pc`) and the
local variables.  A statement that reads the database is one action, a flush or
commit another; what happens between two of them in the thread cannot be seen
by others and is part of the earlier one.  A request ends with the worker
`Idle`, which also stands for `get_db` closing (and rolling back) its session.

**`RefreshTokens`.**  `sessions[s]` is the row, `Fresh` before it is inserted,
`Gone` after it is deleted.  The raw token, its hash and the row's id name the
same row, so the id stands for all three; a family is named by the id of its
first row.  `LoginSelect`/`LoginIssue` are `login` and `_token_response`;
`RefreshReplay`, `BurnSelect`, `BurnCommit` and `RefreshLive`, `RotateFlush`,
`RefreshCheck`, `RefreshRefuse`, `RefreshCommit` are the two ways through
`refresh`; `LogoutSelect` and `RevokeOneSelect` end in `RevokeCommit`;
`DeleteSelect` is the cascade's load and `DeleteCommit` its commit.  Requests
that write nothing (unknown or expired token, 404) are `AuthedReply` or are
left out.  `SerialFamilies` are the disciplined logins: their holder waits for
the answer before sending the next request on the login (`MayStart`).  It is any
set of logins, chosen before they exist; the holders of the others overlap
requests as they like.  The database is PostgreSQL under READ COMMITTED: statements see
committed rows; a flushed rotation holds the lock of the presented row and a
share lock of its user (`RowLocked`, `UserLocked`); an UPDATE of a vanished
row or a violated foreign key is `FlushError`; `Disconnect` is everything else
that ends a request early.

**`LoginLockout`.**  One account (accounts share nothing).  `seen` is the row as
it was read.  A wrong password takes two steps: `LoginFail` computes the count
and the end of the lock, with the clock as it is then, and `FailCommit` is the
UPDATE and its commit; others may commit in between.  `Reset` writes only
columns that differ from `seen`, as SQLAlchemy does.  `racing` is a history
variable: who was busy when the lock in the row was set.

**`PngValidator`.**  An upload is what the checks tell apart.  `ceiling` is
Pillow's global, `saved` is `original_max`.  Pillow raises past twice the
ceiling (`Bomb`); that it warns below is left out.  The decoder may refuse what
the probe's `verify` accepted (`decodes`).

**`Jobs`.**  A job row is owner, kind and whether it is soft-deleted.  What
processing computes is in `PngValidator` and `StegoImage`; here it succeeds
(`Process`) or not (`Refuse`): `Embed`, `Extract` and `Verify` are the three
routes up to their INSERT, `NotFound` is `_owned_job_or_404`'s refusal.
`FkEnforced` tells PostgreSQL from SQLite.

**`Accounts`.**  A row is address, whose password was hashed, role and status.
An address is what a client typed and `Canon` its normal form; both
`RegisterRequest` and `LoginRequest` apply it.  `RegisterSelect`,
`RegisterCommit` and `RegisterFails` are `register`; `LoginSelect` and
`Refresh` read, `Issue` is `_token_response` or the end of `refresh`;
`Authenticate` and `AuthenticateAdmin` are the two dependencies, on a token some
client got earlier; `Reply`, `DeleteMe` and `SetStatus*` are what follows.  A
token has a number of ticks to live.  `owner` is a history variable: who
registered the account.  Which refresh token is still accepted is in
`RefreshTokens`, which login is refused by the lock in `LoginLockout`; here a
login can be refreshed as long as its account exists, and any right password
logs in, which allows more than the code.  Requests that change nothing (409,
401, 422) are left out.

**`ServerResources`.**  An operation is a handler and the rows it locks.  A
request `TakeThread`s, runs `get_current_user` (`Authenticate`: takes a
connection, gives the thread back) or goes straight to its handler (`Connect`),
`TakeThreadAgain`s for the handler, `Lock`s row after row in the order the
handler or SQLAlchemy's unit of work flushes them (`Before`), and `Commit`s,
which frees locks and connection.  A deletion first looks for rows that still
refer to the user it has deleted (`LookForReferring`): the foreign keys of
sessions and jobs have no ON DELETE, so PostgreSQL's check share-locks such rows
and waits for another deletion that has deleted one and not committed.  A
handler that returns a value gives its thread back (`Return`; one that only read
still has its connection) and `TakeThreadAgain`s for FastAPI's check of the
value (`Validate`); one that returns a Response, nothing or an error is answered
at once (`ReturnPlain`).  What fails ends in `Close`, get_db's finally, like a
checked answer.  `PoolTimeout` and `DeadlockVictim` are the two ways the pool and
the database end a wait.  A registration's row is one of `Users` that stands for
its address: two INSERTs of one address wait on the unique index, and for a
deletion of the account that has it.  Locks that PostgreSQL would queue are
given in any order.  The data is in the other modules; `RefreshTokens` takes the
lock of one row and waits at its commit, which this module splits into single
locks.

**`StegoImage`.**  Only least significant bits are touched, so a picture is one
bit per channel byte and a bit is named by where it comes from (which bit of
which envelope, or noise).  `Order` is numpy's permutation, any one.  scrypt and
AES-GCM are ideal: any difference in key, nonce, length or ciphertext fails.
`harm` says what a damaged length reads as and what damaged cost parameters
come to (another key, a ValueError, a MemoryError).  `extract` and `verify` do
not write, so they are the operators `Extract` and `StructureValid`.

## 3. Runs

Passing runs:

| Run | Instance | Shows |
| --- | --- | --- |
| `refresh_serial` | 2 users, 3 rows, 2 workers, 2 clock values; of the three possible logins two are disciplined | on the disciplined logins the statement-by-statement handlers refine `TokenFamilies`; one live token per login, replay is final, rows form chains |
| `refresh_free` | 1 user, 3 rows, 2 workers, no discipline, fairness | rotation is all or nothing, no orphan session, revocation is final, every request is answered |
| `lockout` | 3 workers, lock at 3 failures, 7 logins, 5 clock values | no lock before 3 failures since a login accepted alone; a running lock is lifted or shortened only by a login that was past the check before it was set, in two ways; until two logins overlap, and again from one accepted alone, counter exact, lock on time and for its time |
| `validate` | 3 workers, 7 uploads that fail at different checks | same verdict as alone; until two calls overlap, bomb guard and restored ceiling |
| `jobs_postgres` | 2 users, 2 jobs, 2 workers | ownership, finality, no orphans, exact counters |
| `accounts` | 2 people, 3 addresses of 2 accounts, 3 ids (one the administrator's), 2 workers, fairness | one account per address, tokens stay with owners, changes by right, access of a disabled or deleted account only gets less and dies out |
| `server_resources` | 4 requests, 2 threads, 2 connections; rotation, family revocation, deletion that loaded two sessions or one, read, on 1 user, fairness | pools bounded, the two kinds of deadlock, one of the requests in flight can always go on, every request ends |
| `stego_round_trip` | 5 pictures, 2 envelopes, 2 passphrases, 2 damaged bits | extract exact, size checks agree |

Runs that find a disagreement between the code and what a comment or a document
says of it (`PROJECT.json` quotes the lines):

| Run | What happens |
| --- | --- |
| `refresh_overlap_rotate` | two refreshes with the same token both read it unrevoked, both rotate: two live tokens |
| `lockout_lost_count` | two failures read the same counter: the lock comes late |
| `validate_bomb_decoded` | another call's restore raises the ceiling again before this call's `Image.open` |
| `jobs_sqlite` | a job processed while its account is deleted is stored without an owner |

Seen while modelling, with no run of their own: a rotation in flight is not among
the rows `_revoke_family` reads, so its successor stays live (`BurnedStaysDead`,
like `OneLivePerFamily`, holds of the disciplined logins only); a right password
that was checked while a lock of the past was still in the row lifts the lock
that overlapping failures have set meanwhile (`LiftedLate`), and of two
overlapping failures that are both due the one that read the clock first may
commit last and shorten the lock (`StoredLate`); TLC reaches both.  A count that
was computed before an overlapping login's reset and stored after it may lock
the account with fewer failures since that reset.  A validation that saved
another's ceiling and ends last leaves that value in the process; `fits()`
accepts the empty payload for a picture too small for any envelope
(`CapacityAgrees` is stated for the others); `verify` compares the declared
length with a capacity that still includes the header, so it accepts lengths
that `extract` cannot read; damaged scrypt parameters that ask for too much
memory raise MemoryError, which `extract`'s except clause does not list
(`OutOfMemory`), although `extractor.py:3-5` says every failure becomes
ExtractionError; of two registrations of an address that overlap, the second
ends in an IntegrityError nobody catches (`RegisterFails`), a 500 where
`tests/auth/test_auth_flow.py:22` wants "a clean 409"; an administrator can
disable or delete the only administrator; requests that hold connections and
wait for threads, and threads that wait in `get_current_user` for connections,
can use up both pools: without `PoolTimeout` TLC finds `AllAnswered` violated,
so it takes the pool's 30 seconds and an error to get out.  Two requests that
delete one account and loaded different sessions, as a login committed between
the loads, can deadlock without any other (`MeetsDeletion`); PostgreSQL ends one
of them with an error nobody catches, a 500.

**Bounds.** Ids (`SessionIds`, `JobIds`, `Envelopes`) bound the rows; three
sessions are a login and two successors, which is what a fork or a late
successor takes, or two logins of which one is rotated: `refresh_serial` reaches
an undisciplined login with a live token after its replay was answered, next to
a disciplined one. `IdLeft` keeps a request that needs a row from starting when
none is left, so the bound never leaves a request hanging. Two workers make
every overlap of two handlers, three where a third changes something (two
failures and a success; two validations around a third). `MaxTime` bounds the
clock: 1 is enough for a token to expire, 4 for a lock of 2 to be set, run out,
be set again and run out. `MaxFailed = 3` keeps the first, the last and a middle
failure apart. In `StegoImage` a byte has two bits and the header five bytes,
every field at least one bit and the length two; the pictures are smaller than a
header, hold an empty payload, or one byte, in each mode and with a size that
does not divide; two damaged bits cover a field together with a ciphertext bit.
In `Accounts` three ids let an address be registered, freed and registered
again; two workers overlap any two requests, also two of the administrator's;
`Lifetime = 1` is a token that is there or not. In `ServerResources` two threads
and two connections are the fewest with which requests can wait for each other's
row locks, and four requests the fewest that then use up both pools (as many
hold connections and wait for threads as there are connections, as many hold
threads and wait for connections as there are threads; which pool is the larger,
40 threads over 15 connections by default, does not matter); two sessions give a
revocation two locks, and a deletion one that it has not loaded. The theorems
lift these bounds. Symmetry is used only where rows, users and workers are
interchangeable, and not in runs with liveness.

**Overlap.**  In `LoginLockout` and `PngValidator` some promises hold only while
the calls come one after the other, and fail once two overlap (the `violation`
runs).  A history variable `overlapped`, which no guard reads, records that it has
happened, and those properties are stated until then: the same run explores
both.  In `LoginLockout` it is taken back when a login is accepted that no other
overlapped (`crowded` records which workers' logins one has): what overlapping
logins made of the counter and the lock ends there.

**Deadlock** is checked in every run.  `RefreshTokens` may rest only with no
request in flight (`AwaitRequest`), `ServerResources` when all requests are
answered (`AllDone`); where the bounds stop a model, time
(`LoginLockout`) or an administrator (`SetStatus`, as in the code) still moves,
and the picture can always be exchanged.

**Fairness.**  `RefreshTokens!Fairness`, used by `refresh_free`: weak
fairness of a handler's own next statement: a thread that runs is scheduled, and
the database answers.  Strong fairness of the statements that wait for a row
lock: PostgreSQL wakes the waiters of a row when its holder ends, so a lock that
is freed again and again is obtained.  No fairness for arrivals, disconnects or
the clock.  A deletion is excepted where refreshes of the same account follow
each other so closely that one always holds the share lock (`RequestsFinish`
says so), because such locks do not queue behind a DELETE.

`Accounts`: weak fairness of a worker's next statement and of the clock, so that
tokens expire.  `ServerResources`: weak fairness of all requests together: while
some request can go on, one does (a free thread or connection is given to a
waiting request, a full pool times out, a deadlock is found).  Since only
finitely many requests arrive, nobody starves for lack of fairness between them;
that none starves under endless arrivals is not claimed.

## 4. Proofs

All theorems hold for every value of the constants that satisfies the named
ASSUMEs (`ConstantsOK`, `LockoutConstants`, `ValidatorConstants`,
`JobConstants`, `StegoConstants`, `HeaderLayout`, `OrderPermutes`,
`AccountConstants`, `ResourceConstants`), which TLC evaluates on each run.

* **`RefreshTokensProofs`**: `TypeCorrect`, `NoOrphanSession`,
  `RotationIsAtomic`, `RevocationStays`, with any number of overlapping
  requests.  The invariant is `BaseInv`.  The three properties are not inductive
  alone: one needs that what a handler remembers of a row is still so or the row
  is gone (`ReadsStillHold`), that the id of an uncommitted row belongs to one
  transaction (`NewIdsPrivate`), and that a family has one owner.
  In the same module, for every set `SerialFamilies` of disciplined logins next to
  any others, `OneLiveToken`, `BurnIsFinal`, `FamiliesStayChains`, and
  `HandlersImplementFamilies`: every step of the handlers is a step of
  `TokenFamilies` on these logins or changes nothing it sees.  Nothing is assumed
  of the others: one client's discipline protects its own login, whatever
  overlaps elsewhere.  The invariant adds `AloneOnFamily`: on a disciplined login
  the token a handler rotates stays live and the rows it revokes are all the live
  ones.  Of a login that is not disciplined TLC refutes the same claim
  (`OneLiveAlways` in `refresh_overlap_rotate`), so the discipline is needed.
* **`TokenFamiliesProofs`**: the abstract scheme keeps its promise.
* **`LoginLockoutProofs`**, for any number of workers: `LockoutTypeCorrect`,
  `NeverLockedEarly` (no counter in the row or in a login exceeds the failures
  since the last login accepted alone) and `LocksOutliveReads` (`LocksTimely`: a
  lock that a login in progress has read had run out, and whoever is busy while
  a lock runs was so when it was set);
  `SerialCount`, `SerialLock` and `SerialLockRuns`, which hold until two logins
  overlap and again from one that is accepted alone (`SerialInv`: what a login
  read is current as long as no other came beside it).
* **`PngValidatorProofs`**, for any uploads and threads: `ValidatorTypeCorrect` and
  `VerdictIndependent` (`Progress`: what is known of the upload at each
  statement); `SerialGuard` and `SerialRestore`, until two calls overlap
  (`CeilingMine`: the one call that holds the ceiling saved Pillow's value).
* **`JobsProofs`**: `OnlyOwnVisibleJobs` and `DeletedJobsStay` on any database;
  `NoOrphanJobs` where the foreign key is enforced; `CountersFollowRows` for a
  finite set of workers.
* **`AccountsProofs`**: `OneAccountPerAddress`, `TokensStayWithOwners`,
  `ChangesByRight` and `AccessOnlyShrinks`, for any people, addresses, ids and
  workers. `AccountsInv` adds what a worker has read (`LocalsFit`), that rows
  have their owner's password and a normal address (`RowsOwned`), and that
  nothing was issued for an id not yet given (`IssuedKnown`): without it an id
  could be registered under a token that is already out.
* **`ServerResourcesProofs`**: `PoolsBounded`, `DeadlocksNeedDeletion` and
  `NeverStandsStill`, for any number of requests, accounts, sessions and jobs and
  any set of operations.  `ResourcesInv` says that what a request holds comes
  before what it still wants, that a row a deletion has locked is locked by
  nobody else (`DeletedAlone`), and that with an account's row a deletion locks
  the account.  Of the requests in a circle, one that has nothing left to lock is
  a deletion in its foreign-key check; it waits for a row of another deletion,
  which cannot have the user yet (`ChecksWaitForDeletions`).  If there is none,
  the one that wants the row of the highest rank must wait for a rotation's user
  row, so it deletes an account (`HighestWaitsForRotation`; `Highest` finds it,
  by the well-foundedness of strict inclusion).
  `NeverStandsStill` says that some request can take its next step as long as any
  is in flight: if none could, those at the database would all wait for row locks
  and so form a set the database breaks, and those that wait for a thread would
  find one.
* **`StegoImageProofs`**: for pictures, headers and payloads of any size and any
  permutation, `ExtractIsExact`, `VerifyCovers`, `CapacityChecksAgree`.  The
  invariant `StegoInv` says where the bits of the last envelope are; a field of
  the header that still reads as an envelope's can then only be the last one's,
  undamaged.  The capacity theorem is arithmetic on `\div`.

Model-checked only: `RequestsFinish`, `AccessDiesOut` and `AllAnswered`
(liveness under fairness, and ENABLED, are out of the prover's reach).  The safety
facts that two of them rest on are proved.  Of `AllAnswered`: there is always a
request that can go on (`NeverStandsStill`); that a request takes finitely many
steps is seen from the actions and checked by TLC, not proved.  `NoStandstill`
speaks of `CanProceed`, a state predicate; that it is ENABLED of `Proceed(r)`
was compared by TLC on the instance of `server_resources`.  Of `AccessDiesOut`:
what remains of a disabled account's access can only get less
(`AccessOnlyShrinks`); fairness of the workers and the clock does the rest.

## 5. Not modelled

Argon2, JSON schemas beyond the normal form of addresses, request ids, headers,
wording of responses. A login refused for its lock, and one whose password is
wrong, are in `LoginLockout` only. That the PNG `embed` returns may be larger
than `max_upload_bytes` and then cannot be uploaded again depends on
compression. Limits and counters that are only incremented (failure metrics).
`revoke_all_for_user`, `needs_rehash` and `auth/permissions.py` have no caller
in the application. Audit, MFA, rate limiting, storage and cleanup are stubs.
Deployment files.

## 6. Plan

1. Done: `TokenFamilies`, `RefreshTokens`, `LoginLockout`, `PngValidator`,
   `Jobs`, `StegoImage`, `Accounts`, `ServerResources`, their runs and proofs.
2. A proof that `RefreshTokens` with single row locks, as in `ServerResources`,
   implements the one that waits at the commit.
3. A composition of `Jobs` with the validator's and the engine's outcomes
   instead of a free choice between success and refusal.
