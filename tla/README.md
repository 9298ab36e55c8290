# Verification of the account backend

TLA+ models of the NestJS account backend in `src/`, their TLC runs and TLAPS
proofs. This file says what the system is, which module models which part, what
each run and each theorem shows, and what is left out.

## 1. The system

The backend keeps accounts of a trading site. A client registers a wallet
address, confirms an e-mail address, waits for an administrator's approval,
resets or changes its password; administrators lock, unlock, approve and reject.

| component | state | operations | talks to |
|---|---|---|---|
| Users table (`users.entity.ts`, migration `users`, two connections) | one row per account, unique `address` and `email`; `master` is written, `report` is read | TypeORM `findOne`, `save`, `UPDATE`, `DELETE` | MySQL |
| `UsersService`, `UsersController` | none of their own, everything in the table, the redis cache (activation tokens) and the mail queue | registration, forgot / reset / change password, resend verification, confirm, lock, unlock, approve / reject, setFirstLogin, remove | table, cache, `MailService` |
| `AuthService`, passport strategies | none of their own; JWTs carry what a session is, `login_histories` records logins | login, admin login, access-token renewal, JWT guard, verify e-mail | table, login history |
| `MailService`, `MailProcessor`, `MailConsole` | the Bull queue `mail` in redis | ten kinds of mail (six are ever queued), queued by requests and sent by worker loops | SMTP |
| `EventsGateway`, redis adapter, `SocketEmitter` | rooms of sockets | join on connect, emit to a room | redis |
| `HealthService` | a redis client per call, never closed | `SELECT 1`, redis `SET` | both connections, redis |
| guards, pipe, filter, interceptors | none | turn the outcome of a handler into an answer | every request |
| `main.ts`, `console.ts`, configuration, migrations | none | wiring | |

**What is hard.** Every `await` is a point where another request runs. Reads go to
`report`, writes to `master`. Four operations read a row, wait (a bcrypt hash, a
lookup) and `save` the row they read: TypeORM selects the row again and updates
every column that differs from the entity, so a column that another request has
changed meanwhile is written back to what it was. `save` of a row that was deleted
inserts it again. Mails are queued beside the writes they announce, in no
transaction with them.

Mail jobs are worked by several loops per process, under a lock that can run out
while its owner is still sending. What makes each part correct:

- **accounts**: an id keeps its wallet and address, which no other account has; a
  password in the table was accepted for that account; `Active` was approved; a used
  reset code stays used; operations that write one column undo no other;
- **sessions**: a login serves requests for a bounded time and is on record; the last
  login shown is an earlier one;
- **mail queue**: a mail is tried, tried only so often, and its job ends, for good;
- **health check**: what it says was so;
- **sign-in**: an answer means what it says although lookups are stale, registrations
  race and steps fail, and whoever tries again gets past the guard (where the handler
  answers `user.NOT_ADMIN`, to everybody: section 4);
- **rooms**: an event reaches its owner's sockets, those only, in order and once.

`PROJECT.json` lists the hazards line by line, with the property that watches each.

## 2. Modules

| module | what it is |
|---|---|
| `UsersTable` | rows, unique indexes, hashes, lookups, `UPDATE`, the diff of TypeORM's `save` |
| `Accounts` | the account operations as requests in flight over that table |
| `AccountSafety` | their properties |
| `AccountDirectory` | abstract: ids and identities, nothing else |
| `AccountInvariant` | the inductive invariant of `Accounts` |
| `MCAccounts` | seeds and symmetry for TLC |
| `AccountTypeProofs`, `AccountProofs`, `CodeProofs` | theorems |
| `MailQueue`, `MailSafety`, `MCMailQueue`, `MailProofs` | the mail queue, its properties and invariant, TLC instances, theorems |
| `Outbox` | abstract: a mail is due, tried, closed or given up |
| `Sessions`, `MCSessions`, `SessionProofs` | logins and tokens, TLC instances, theorems |
| `Health`, `MCHealth`, `HealthProofs` | `GET /ping`, its TLC instances, theorems |
| `Pipeline` | what interceptors, pipe and filter make of an outcome, as operators |
| `SignIn`, `MCSignIn`, `SignInProofs` | registration and sign-in over the two connections, composed with `Pipeline`; TLC instance, theorems |
| `Rooms`, `RoomProofs` | sockets, their rooms, and events on Redis pub/sub, theorems |

A definition headed "Faulty variant" is not part of any model. It is the code with a
plausible mistake in it, kept beside the right definition, and is there to show
that a property notices the mistake.

### 2.1 Accounts

A request occupies a slot of `req`; an action is what the request does between two
awaits of its handler. Each first action starts the request and makes its first
read; when that read refuses the request nothing changes, so there is no action
for it.

| handler | actions |
|---|---|
| `POST /users`, `validateUser` of the login | `CreateCheck`, `Insert` |
| `UsersService.create` | `Register`, `Insert` |
| `forgotPassword` | `ForgotRead`, `SaveSelect`, `SaveUpdate` or `SaveInsert`, `Mail` |
| `resetPassword` | `ResetCheck`, `UpdatePassword`, the save, `Mail` |
| `changePassword` | `ChangeGuard`, `ChangePassword`, the save |
| `resendVerifyEmail` | `ResendRead`, `Mail` |
| `verifyEmail` | `VerifyRead`, the save |
| `active` (`GET /users/confirm`) | `ConfirmRead`, `ConfirmForget`, `SaveUpdate` |
| `lock`, `unlock` | `LockRead`, `SaveUpdate` |
| `updateStatusUserRegistration` | `StatusRead`, `SaveUpdate` |
| `setFirstLogin`, `remove`, `generateActiveToken` | one action each |
| replication, clock, token expiry, an error or crash at an await | `CatchUp`, `Tick`, `ActiveTokenExpires`, `Fail` |

`save(entity)` is `SELECT` by id, then `UPDATE` of the columns in which the entity
differs (`Differing`, `Updated`) or `INSERT` when there is no row (`Restored`:
`@BeforeInsert` hashes the password of an entity once more). A bcrypt hash is a plain
text and a count of hashings; two hashes of one text differ, so a save that hashed
always writes the password; a password change saves the raw row, in which
`isFirstLogin` is a number, and always writes that column, too (`Rehashed`).

A registration keeps whatever exposed column its body carries, since the pipe has no
whitelist and `plainToClass` takes them all (`users.service.ts:265`): besides the
wallet, the password and the e-mail address, `locked`, `isFirstLogin`,
`tokenResetPassword` and `expire` may be the client's (`Bodies`). `status` and `role`
are set by the service; that a body of `UsersService.create`, which has no caller, could
carry a role or an id is not modelled.

`checkPassToken` accepts the number 0 for an account whose code is `NULL`, as the code
does, so `ResetCheck` tries 0 besides the codes. `fate` records, for each account and
number, whether it was drawn or registered (`issued`), used (`spent`), drawn again
(`redrawn`), or written back by a verification (`returned`). `accepted` are the
passwords the program took for an account, `approved` and `removed` the accounts it
approved and deleted. These four are histories: no guard reads them, but for the
bound on `Remove`.

In this commit `lock`, `unlock`, `updateStatusUserRegistration`, `remove`,
`setFirstLogin`, `generateActiveToken` and `UsersService.create` are called by nobody in
`src/`. They are public methods of an injectable service and are modelled as such; a
theorem or run that lists them among its operations speaks of a program that calls
them.

Assumptions of the model: a request carries an e-mail address where the handler takes
one; the MySQL mode inserts a column's implicit default where a partial row leaves it
out; whoever calls change-password holds a token that `JwtStrategy` accepts; `links` are
the tokens that resend-verify-email mailed (`Sessions` has the others that pass for
one); an approval call names one account (a batch is several); `isLocked` is never
`NULL`; `userType` and the profile columns, which no operation branches on, are left
out. `job` holds the last queued mail only, which is what the properties about mails
need.

### 2.2 Mail queue

`Add` is any `send...Job`; `Take`, `Send` or `Refuse`, and `Finish` are a worker loop
at a job: Bull hands it the head of the list, the `MailProcessor` method of its name
awaits `MailService`, catches every error, returns 1, and Bull moves the job to
`completed`, or to `failed` when the first call did not reach redis. The lock belongs
to the process. `LockLost` is its expiry, `Stall` the periodic check that gives a job
back to the head of the list at most `maxStalledCount` times, `Crash` the death and
restart of a process. `Renders` compares the variables a template uses with the ones
its method passes, since templates are compiled strict.

A mail for an account without an e-mail address is refused by nodemailer before it
reaches SMTP; the model counts that as a `Refuse`, and `EndedWasTried` as an attempt.

Bull and redis are external: they are modelled from how `mail.module.ts`,
`mail.service.ts` and `mail.processor.ts` use them. Only the six names that some
operation queues are in `Queued`.

### 2.3 Sessions

`LoginRead` is `AuthService.login` up to its second await: the last login is read on
`report` and both tokens are signed. `LoginSave` writes the row of `login_histories`
and answers. `LoginFails` covers an error or a crash on both sides of the save.
`SendLink` signs the token of a verification mail.

A token is a record: for which purpose it was signed, whose it is, until when, and
(for the properties) from which login or link it comes. The code reads signature and
age, never a purpose, so `Passes` compares secrets: a token passes wherever the secret
is the one it was signed with. `GetAccessToken`, `Validate` (the JWT guard) and
`VerifyEmail` differ only in what they do then. `Configurations` holds the secrets the
program may be started with: `config/default.yml:9,11,13` and `config/test.yml` give
all three purposes one secret, and `config/custom-environment-variables.yml:7,9,11`
lets the environment set each. With one secret an access token renews itself without
end, and a link or a refresh token passes the guard. `SessionEnds` is therefore stated
for a refresh secret of its own (`RefreshApart`), and `SessionOnRecord` allows a mailed
link, where links share a secret, in place of a login. Nothing revokes a token. Who
is locked does not change: `lock` and `unlock` have no caller.

`login` is modelled as a method called with the `req.user` that the local strategy
sets. In this commit the guard of `POST /auth/login` is commented out
(`auth.controller.ts:26`), so that route throws on `user.id` and changes nothing, and
`admin/login` refuses everybody (`NotAdmin` in `SignIn`); the properties of
`Sessions` are about the method, whoever calls it.

### 2.4 Health check

`Ping` opens the client and sends `SET`; `RedisReplies` is its callback; `SendQueries`
sends two queries and answers; `QueryEnds` is a query's late end. `Dies` is the
connection error that a client without an `'error'` listener turns into the end of
the process. Redis answers `SET` with `OK` or an error, so the third branch of the
callback is not reached.

### 2.5 Answers and sign-in

An outcome of a guard, the pipe or a handler is a value, a refusal (an
`HttpException`) or a fault (any other error). `main.ts` installs the
`SentryInterceptor` around the `ResponseTransformInterceptor`, and a filter for
`HttpException` alone; `Respond` composes them. Guards run before interceptors, so what
a guard throws meets the filter only, and a fault there is left to Nest's own handler
(`ExceptionsHandler`). Two details show in the answers: the filter reads `code` and
`message`, while most exceptions carry a `key`, so clients read 'Unknown'; and the
`errorCode` and `statusCode` that `BodyValidationPipe` sets are read by nobody.

`SignIn` follows two requests through their awaits. `POST /auth/admin/login`: `Login`
is the first lookup of `validateUser` on `report`, `LoginInsert` the `INSERT` for a
wallet that was not found, `LoginAgain` the second lookup, all in the guard; whom the
guard lets through, the handler answers 403, always (`NotAdmin`). `POST /users`:
`Create` is the pipe, or the lookup of the handler; `CreateInsert` the `INSERT`, whose
row may have the e-mail address of the body. An `INSERT` of a wallet or an address
that is there already breaks a unique index and is a fault. `Fails` is any other fault
of a step: MySQL is away or refuses a value, bcrypt gets a password that is no string.
`shown` says how many rows `report` has. `Accounts` models the same inserts as
`CreateCheck` and `Insert`, among all other operations and without the answers.
A sign-in carries both credentials; one that lacks them gets a 401 from passport and
touches nothing.

### 2.6 Rooms

`Connect` is the handshake: `handleConnection` verifies the token and joins the room
of its user, or leaves the socket connected without a room. `Emit` is
`emitUpdatedTrades`, which nothing in the repository calls yet. The emitter publishes
on Redis; `Deliver` is the adapter of one subscribed process handing the event to its
sockets in the room. `LoseRedis` drops what is on the connection, `Subscribe` starts
anew with nothing, `Crash` takes the sockets of a process along. Socket slots are used
again, so that a newcomer could hear what was meant for whoever was there before. The
adapter and the emitter are external, modelled as these two files use them; the
user id is a number when it is joined and a string when it is emitted to, and
socket.io makes strings of both.

## 3. Runs

| cfg | instance | shows |
|---|---|---|
| `AccountsDirectory` | 2 ids, 1 wallet, 1 e-mail address, 2 kinds of body, 2 requests, no account or one of any status, lagging | `ActiveWasApproved`, `ImplementsDirectory` |
| `AccountsColumns` | a user or an admin of any status, 2 requests, removal, a clock of 2 values | `TypeOK`, `OwnColumnsOnly`; deadlock checked |
| `AccountsCodes` | an account with a code, without one, or not yet verified, beside an admin without one; 2 codes, 2 passwords, 2 requests | `StoredCodeIsLive`, `StoredPasswordWasAccepted`, `ZeroNeedsCode` |
| `MailJobs` | 3 loops of 2 processes, 2 jobs of 2 names, 1 stall, fair | `MailsBounded`, `EndedWasTried`, `ImplementsOutbox`, `EndIsFinal`, `EveryJobEnds` |
| `SessionLogins` | 2 users, 3 configurations, 2 logins at once, 2 rows, lives 1 and 2, a clock up to 3, lagging | `SessionEnds`, `SessionOnRecord`, `LastLoginIsPast` |
| `HealthRedis` | 2 calls, 3 clients | `RedisAnswerIsTrue` |
| `SignIn` | 3 clients, two of them with one wallet, 1 e-mail address, 1 failing step, fair | `TypeOK`, `AnswersMean`, `EveryClientPassesGuard`; deadlock checked |
| `Rooms` | 2 sockets, 2 processes, 2 users, 2 events, a clock of 2 values, fair | `OnlyOwnersHear`, `HeardInOrder`, `MembersHear`; deadlock checked |

Bounds. Every hazard of the accounts needs two requests: one that holds a copy and
one that changes the original. One account is enough where a property speaks of one
row; where accounts may be mixed up (`AccountsCodes`, `AccountsDirectory`) there are
two. In `AccountsDirectory` two registrations race for one wallet and one e-mail
address while copies of the account are held over the lag of the replica; in
`AccountsColumns` the account is removed under a save that brings its row back, partly
filled. That no two accounts share a wallet or an address is part of the directory
(`Distinct`), for every instance by the theorem `Implements`.

`AccountsCodes` has two codes: one that was given before the run and one that is drawn
in it, and either may be drawn again. It starts with an account that has no code, one
that has one, and one that has one and awaits verification, so that a first draw, a
second code and a late verification all occur; the admin beside it, for whom no code is
drawn before his first login, is the account into which a foreign password, or for
which 0, could pass. Registration, change of password, removal and a lagging replica
are left out of this run, which they would make too large, and are in the theorems
`CodesLive`, `PasswordsAccepted` and `ZerosNeedCodes`. No code expires there: an
expired code is refused, which only removes behaviours. The clock of `AccountsColumns`
runs because nothing there may depend on it.

Two jobs are the fewest of which one can stall in front of the other, and a process
with two loops beside one with a single loop is the smallest setting in which the lock
of a process protects a job from the wrong loop. Two of the six names stand
for mails with different variables; `EndedWereTried` covers all six.
`SessionLogins` has a row of another user to confuse the last login with, a user with a
link and one who may be locked, and the configurations of section 2.3: one secret, a
refresh secret apart, three secrets. It lets the clock run to
`RefreshTtl + AccessTtl`, so that a chain of renewals has the time to exceed it. Three
clients let two checks overlap and one more start
afterwards. In `SignIn` two clients with one wallet race, and the third shifts ids and
rows between them and races them for the e-mail address; one failure is enough to
meet each await. In `Rooms` two events have an order, the second process has the
subscription that the first one lost, and a socket slot serves one user after another. The
theorems of section 5 hold for every value of the constants.

`AccountsDirectory` and `AccountsCodes` declare `VIEW NoJob`: states that differ only in
`job`, the mail queued last, are taken as one. No guard reads `job` and no property of
these two runs does, so nothing of what they check is lost. `AccountsColumns` checks
`TypeOK`, which reads `job`, and has no view; nor have the three runs about mails.

Deadlock is not checked where a server with nothing left to do within the bounds may
stop (no request to come, every job ended, the clock at its end). `AccountsColumns`,
`SignIn` and `Rooms` have operations that can always be called and check it. Symmetry
is over request slots and calls, which no constant and no property tells apart.

## 4. What the program says and does not do

Four runs show a disagreement between the code and what a mail, a message or the
configuration says; each ends in a counterexample.

| cfg | property | in short |
|---|---|---|
| `AccountsApprovalMail` | `ApprovalMailMeansApproved` | the approval mail is queued before an `UPDATE` that may fail |
| `AccountsChangedMail` | `ChangedPasswordSticks` | a verification in flight writes the old password back |
| `AccountsCodeMail` | `MailedCodeHasExpiry` | a password change in flight removes the expiry of a mailed code |
| `HealthMysql` | `MysqlAnswerIsTrue` | the queries are not awaited, MySQL is always reported well |

Four more have no run. A reset clears the code and leaves `expire`
(`users.service.ts:191`), and `Number(null)` is 0 (`users.service.ts:183`), so until
that time has passed the number 0 is accepted as the code of that account, though no
code is in force; the migration describes the column as a 6 digit number. The model
does the same (`CodeAccepted`), and `ZeroNeedsCode` says how far it goes: to accounts
that had a code or an expiry, and to no other. `getUserByWalletAccount` selects
the id only (`users.service.ts:225`), so the role that `auth.controller.ts:51` looks at is
undefined and every admin is answered `user.NOT_ADMIN`: a sign-in that passes the guard
has that answer and no other. The verification link lives
for `jwt_verify_email_token_expiration_time`, half an hour in `config/default.yml:14`,
while `verify-email.hbs:120` says 24 hours. `queue.enable: false` only sets
`processors: []` (`mail.module.ts:22`), and `MailProcessor` stays a provider, so the
process goes on working jobs.

## 5. Proofs

Every theorem holds for all values of the constants that satisfy the named
assumptions; TLC evaluates the assumptions in each run.

**Accounts** (`TableConstants`, `NullIsNoRow`, `NullIsNoIdentity`, `AccountConstants`).
The safety properties speak of the table, but the table is only as good as the copies
that will be saved over it. `Invariant` therefore says of every copy (the `report` row,
the row each request holds) what the properties say of the table: `TypeOK`; `Shape`, a
request carries what its next step needs; `Agreement`, a copy of an account that was
never removed has its identity; `Approvals`, an `Active` copy was approved;
`Acceptances`, the password in a copy was accepted for that account. `Types` proves the
first two, `InvariantHolds` all five, from one lemma per action. `TypeCorrect`,
`PasswordsAccepted` and `Approved` follow. `Implements` proves that `Accounts`
implements `AccountDirectory`: identity, `used` and `removed` are mapped, each `Insert`
is a `Register`, `Remove` a `Delete`, a save to a removed id a `Return`, and everything
else a stutter.

**Mail queue** (`MailConstants`). `MailsBounded` is not inductive: it has to count
the mails that are about to be sent. `Counted` bounds sent and about-to-be-sent mails by
what is `Due` at the job's place: nothing before it is queued, as many as it has stalled while
it waits, one more once it was taken. Taking a job is safe because a waiting job is
one short of its bound; that needs `WaitListed` (the list holds each waiting job once)
and `Placed` (a lock is only held on an active job, so `Finish` cannot move a waiting one).
`Busy` says that a worker that is done has tried. `MailInvariantHolds` proves them
together; `MailsAreBounded`, `EndedWereTried` and `EndsAreFinal` follow.
`TemplatesRender` proves the premise of `EndedWereTried`: each queued kind of mail
passes every variable its template uses.

**Sessions** (`SessionConstants`). `Signed`: a token is `Traced` to a login on record or
to a mailed link, an access token to a link only where secrets are shared that far; and
it is `Bounded` by what its login or link allows, an access token only where refresh
tokens have a secret of their own. `InFlight`: a login in flight read a row that is
there, which gives `LastLoginIsPast` when it is answered, since its own row comes after.
`SessionsEnd`, `SessionsOnRecord` and `LastLoginsArePast` follow.

**Reset codes** (`AddressesStay`: no `remove`, or no registrations, so that the e-mail
address of a removed account is not registered again). `CodesLive` is about the diffs of
pending saves, over a replica as late as may be, and about the accounts that a save
inserts again after their removal. A verification saves the whole row it read and may
bring a used code back; `fate` then says `returned`, and the theorem says that no other
save does. `CodesTraced` follows a code by what became of it: a code that was drawn once
and is on its way to the table is not stored yet; one that is being used will be cleared
by the save, or already is (`CodeOf`); only a code that was drawn twice or written back
(`Loose`) is in two hands (`InOneHand`); a code that the replica shows was given, and is
on its way only when it is loose (`ReportSafe`), so that a reset which is accepted for a
stale code takes none out of another hand. `updatePassword` looks its account up again
by e-mail address, so all this holds only if it finds the account that the code was
accepted for (`SameAccount`). That is what `Steady` says: without removals every copy of
an account has the address of its row, which is unique; without registrations an address
belongs to one account in the table, the replica and every request, removed accounts
included (`Settled`), because no step gives a copy an address that no copy of that
account had. `CodeInvariant` joins the parts with `Invariant`.

**The number 0** (no premise). `OpeningsKnown` follows the expiry instead of the code: a
copy of an account, in the table, the replica or a request, has an expiry only if the
account was given a code or registered with an expiry (`Opened`), because every step
takes the expiry of a copy from another copy or sets it with a code. `ZerosNeedCodes`
follows, since 0 is accepted before an expiry only.

**Passwords of removed accounts** (`AddressesStay`). `StoredPasswordWasAccepted` stops
speaking when an account is removed; `OwnPassword` goes on: also an account that a
pending save inserted again has a password of its own, or the empty string of a
partial save. `PasswordsOwn` proves it, without removals from `PasswordsAccepted`,
without registrations from `Settled` and `OwnCopies`, which says the same of every copy.
Two accounts, removals, resets and a lagging replica together are more than a run may
take, so no run checks `OwnPassword`; smaller instances (one account, or no lag) were
explored before it was proved, and with `create` besides `remove` they violate it.

**Columns** (`OwnColumnsOps`: no `reset`, `change` or `verify`, which save whole
rows). `OwnColumns` needs, beside the types, only `Narrow`: no request in flight is
one of these, and what `forgot` writes lies in its two columns.

**Outbox.** `QueueIsOutbox` maps waiting and active jobs to mails that are due, ended
ones to closed or, when they stalled too often, given up. Each action of `MailQueue`
is then a step of `Outbox` or a stutter: `Finish` closes only what was tried, by
`Busy`; a late `Finish` moves nothing, by `Placed`; `sent` is bounded by `Counted`.

**Health** (`HealthConstants`). `Noticing`: a call that waits for `SET` has noted how
Redis is now; `Unanswered`: it has said nothing yet.

**Sign-in** (`SignInConstants`: `None` is no number, no wording and no e-mail address).
What an answer says is judged long after it was sent, so `Invariant` is about what
cannot change any more: rows are only appended, a request between two of its awaits has
said nothing, and one that looks its wallet up again has inserted it (`InProgress`).
The lemmas about `Pipeline` say what becomes of each outcome the handlers have: none
leaves without the fields its status promises, whichever of pipe, guard and handler
threw it. `AnswersComplete` and `AnswersAreTrue` follow.

**Rooms** (`RoomConstants`). `InOwnRoom`: a socket is in a room only while
it is connected, by a token that was alive. `Ahead`: what waits for a process is sorted and
comes after everything its sockets have heard. `OnlyOwners` and `InOrder` follow.

Every invariant, action property and refinement that a passing run checks is stated by a
theorem. Only model-checked: `EveryJobEnds`, `EveryClientPassesGuard` and `MembersHear`,
because liveness under fairness and `ENABLED` are beyond the proof system, and the four
violations. `OwnColumns` has the premise of the run that checks the same property;
`CodesLive` needs `AddressesStay`, which cannot be left out: with `remove` and `create`
TLC finds a behaviour of some ten steps that stores a used code.

**Fairness.** `Accounts`, `Sessions` and `Health` assume none. `SignIn` assumes that the
server goes on with a request it has begun, that replication catches up, and that a
client that can sign in again and again does: the retry is the client's, the code has
none. Failures are bounded (`MaxFailures`), so `EveryClientPassesGuard` says that he
gets through when they have ended. `Rooms` assumes that a process hands on what it has
received; nothing of Redis or of processes staying up. `FairSpec` of `MailQueue` assumes
weak fairness of each loop's `Take` (Bull loops block on the list), of its sending
(nodemailer's timeouts end it one way or the other), of `Finish`, of the expiry of a
lock that no worker renews, and of the stalled check, which every process runs each half
minute. Nothing is assumed of SMTP or of processes staying alive. Crashes may go on for
ever: each of them can cost a job one stall, and the stalls are counted, so the job ends
all the same.

## 6. Not modelled

- That a socket stays in its room after its token has expired or its account was locked:
  the model does it, no property forbids it, because nothing says it should not.
- What a mail says when it arrives late: two loops may send two codes in the other order
  than they were drawn. `MailQueue` has the interleavings and not the codes.
- The text of validation messages (`getMessageFromErrs`, `getPropertyAndContraints`).
- `PaginationInterceptor`, `RolesGuardAdmin`: no module uses them. `LoggerMiddleware`
  only writes a log.
- `RolesGuard` guards handlers that name no role, so it admits everybody
  that the JWT guard admits.
- `changeUserType`, `getProfile`, check-valid-email and the unused repository
  queries: they change nothing that another operation reads.
- Captcha, signature recovery, network clients, contract ABI: no caller reaches them.
- The customer migration, the configuration files and the start of the processes.

## 7. Plan

Done: the survey; the accounts with their refinement; the mail queue and the outbox it
implements; sessions; the health check; the request pipeline under registration and
sign-in; rooms; the theorems of section 5.

What is left: an answer of `lock` and `unlock` to judge (the hazard at
`users.service.ts:282`).

## 8. Running

    tlasany M.tla
    tlc -workers 2 -config X.cfg M
    tlapm M.tla

`PROJECT.json` names the module of each cfg. No run takes more than five minutes.
