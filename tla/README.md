# A verification of the banking back office

This directory holds TLA+ models of the account and session logic of the
repository, the TLC configurations that check them on small instances, and
proofs, checked by TLAPS, of the most important properties for every value of
the constants.

The system is an Express API (`apps/backend`), a React single-page application
(`apps/frontend`) and one MongoDB. Several replicas of the API share the
database (`helm-chart`, `k8s`). In what follows `services/`, `repositories/`
and so on are under `apps/backend/src`.

## 1. Inventory

| Part | State it keeps | Operations | Model |
|---|---|---|---|
| Account service, repository | collection `accounts` | create, getById, getByAccountNumber, list, update, changeStatus, close, purge | `AccountStore`, `Accounts` |
| Authorisation | the role table, constant | `requirePermission`, `assertPermission` | `Roles`, in `Accounts` |
| Audit trail | collection `auditlogs`, append-only | append | in `Accounts` |
| Login and lockout | counters and lock of a `users` document | login | `Login` |
| Refresh-token sessions | collection `sessions` | login, refresh, logout, changePassword; TTL index | `Sessions` |
| Password change, history | `passwordHash`, `passwordHistory` | changePassword | `Passwords` |
| Seed script | one `users` document | create, mark one-time | in `Passwords` |
| Cookies, CSRF, authentication | three cookies | set, clear, compare | in `Browser` |
| SPA client, auth context | shared refresh, signed-in state | request, refresh, bootstrap, login, logout | `Browser` |
| SPA pages | filters, rows, account, form, address | load, page, look up, navigate, write | `Pages`; versions in `Accounts` |
| Readiness, server lifecycle | `connected`, `shuttingDown` | driver events, signals, exits | `Server` |
| Account numbers | none | generate | `Iban` |
| Validation, error handler, DTOs | none | parse, classify, format | as the sets of requests and answers |
| Field encryption, rate limiters, configuration, logging, UI components, infrastructure | none of their own that changes | - | not modelled |

**How they interact.** A request passes `authenticate` (a read of `users`),
`requirePermission`, validation, a controller and a service, which awaits
repository calls. Nothing is held in memory between requests but the two flags
above (and a library's rate counters); all shared state is in MongoDB, whose operations on one document are
atomic. Node runs a handler without interruption from one `await` to the next,
so *interleaving happens at awaits*, within a process and between replicas.
There are no transactions: each handler is a sequence of single-document
operations.

**What is hard.** Every mutating handler reads a document, decides, and writes
later. Accounts carry a version and writes may be conditional on it; user and
session documents are written unconditionally. Audit entries come one await
after what they record. A process may die, or a database call throw, between
any two awaits; the client may never see the answer and try again. Time matters
for locks, idle and absolute timeouts and the TTL index. In the browser several
tabs share one cookie jar, each with a refresh of its own; the answers to a
page's calls come in any order, and a page is kept when only the id in its
address changes.

**What makes each part correct.**
- Accounts: no change lost between tabs that send `expectedVersion`; a closed
  account is final and empty; a live one is never erased; numbers are unique;
  every request is answered.
- Audit: entries are true, complete as long as the collection accepts them,
  and status changes connect.
- Login: three wrong passwords lock, a lock stands until it expires, and the
  report of failed attempts is right - one request at a time; with concurrent
  requests the delay of the lock is bounded.
- Sessions: no lifetime beyond the absolute timeout; reuse can always be
  recognised; one live token per family; what is burnt or evicted stays dead.
- Passwords: none of the last ten comes back; a change evicts the sessions
  opened before it; a seeded password is marked one-time.
- Browser: one refresh per tab; reuse detection does not fire on the console
  itself; a sign-out ends the session; every call ends.
- Pages: what is shown, and what is written to, is what the address says; a
  spinner waits for something.
- Server: a clean exit cuts no request, a shutdown ends, `/readyz` is true.

`PROJECT.json` lists the hazards, each at its line, with the properties that
cover it. Where the code falls for a hazard, and a property is about the rest,
a note says which part is excused. Known limits that are plain from the code and leave nothing to check
are not in that list: `mustChangePassword` is reported and never enforced;
`authenticate` reads the role once per request; the key of the rate limiter of
`/refresh` has no e-mail in it, so all tabs and operators of one address share
ten refreshes in fifteen minutes; the key ring holds only the current key; an
uncaught error ends with the exit code of a clean shutdown; `expectedVersion:
null` is coerced to 0.

## 2. Modules

| Module | What it is |
|---|---|
| `Roles` | `domain/constants.js`: roles and their permissions |
| `AccountStore` | documents of `accounts` and the repository's queries, as operators on one document or on the collection |
| `Accounts` | the account API: one action per section of a handler, clients, audit trail, faults |
| `AccountLifecycle` | abstract: one account's life, NEW - ACTIVE/DORMANT/FROZEN - CLOSED - ERASED, closed only when empty |
| `XProofs` | theorems about `X`: `Accounts`, `Login`, `Sessions`, `Passwords`, `Browser`, `Pages`, `Server` |
| `MCAccounts` | constants and symmetry for TLC |
| `Login` | `login()`: read, scrypt, unconditional write of the counters |
| `LoginPolicy` | abstract: the lockout policy, one attempt at a time |
| `Sessions` | login, refresh, logout, changePassword on the `sessions` collection, TTL index, clock |
| `MCSessions`, `MCPasswords` | symmetry for TLC |
| `Passwords` | one operator's password: seed, login, refresh, changePassword, cut at their awaits |
| `Browser` | tabs, cookie jar, API client, auth context, and the server's answers |
| `MCBrowser` | which activity belongs to which tab, symmetry |
| `Pages` | the three pages in one tab: addresses, calls under way, answers in any order |
| `Server` | one API process: driver events, connections, handlers, shutdown, restart |
| `Iban` | the arithmetic of account numbers, with its proofs |

`Accounts` builds on `AccountStore` and `Roles` and refines `AccountLifecycle`;
`Login` refines `LoginPolicy` when requests do not overlap. `Login` and
`Sessions` are the two halves of `auth.service.js`: they share only `isActive`,
which an administrator changes from outside in both. `Passwords` looks at the
same handlers again for what a hash, a history and a session's origin are
worth. `Browser` holds as much of `Sessions` as decides an answer, its rotation
cut in two where two refreshes may meet; `Pages` takes answers as good or bad
and leaves the documents to `Accounts`.

### Accounts and the code

A client (`c`) has one request in flight. `pc[c]` says which section of the
handler comes next, `req`, `current` and `result` are the handler's variables,
`seen[c]` is the last document an answer showed the client.

    arrival -> [deny] | number* -> insert -> audit -> answer    (create)
                      | find -> [write] -> audit -> answer      (others)

| Action | Code |
|---|---|
| `Post` ... `DeletePurge`, by `Receive` | route, `authorize`; the request is one the schemas let through |
| `CandidateTaken`, `CandidateFree` | a turn of `allocateAccountNumber` |
| `Insert`, `InsertRefused` | `accountRepository.create`, and E11000 answered 409 by the error handler |
| `FindToRead` | `getById`, `getByAccountNumber` |
| `FindToWrite` | `findById` and everything the mutating methods decide before their write, the early return of `changeStatus` included |
| `Write`, `WriteRefused` | `findOneAndUpdate` with its filter, by `updateById` or `softDeleteById` |
| `Purge` | `hardDeleteById`, whose result is ignored |
| `AppendAudit`, `FailAudit` | `audit()` of the service, and the entry of a denial |
| `Reply`, `Drop` | the answer; a crash, a thrown driver error, or a lost answer |

Names, addresses and the like are one abstract value, `details`. A number
stands for its blind index. Sections before the first await of a method are
merged with it. `assertPermission` repeats the test `authorize` has made on the
same actor object, so it never refuses and is not a step. `UniqueIndex` says
whether mongoose has built the indexes (`autoIndex`, `db/mongo.js`).

### Login and Sessions and the code

`Login` keeps the four fields of the user document that login reads and writes.
`Find` is the read with the checks on it, `WrongPassword` and `RightPassword`
are the `updateById` after `verifyPassword`; both write fields of the copy, as
the code does. An unknown e-mail changes no state and is left out.

`Sessions` maps tokens to documents. Places of a request name the await it is
in: `minting` and `exchanging` precede `sessionRepository.create`, `replayed`
precedes `findAnyByTokenHash`, `burning`, `lapsing`, `rotating`, `evicting`
precede the revocations, `admitting` the read of the user, `hashing` the write
of the new password. `updateMany` is one step: a document inserted while it
runs is as if inserted after it. `touch` of the repository is never called, so
`lastUsedAt` is the time of creation. The auxiliary variables (`parent`,
`bornAt`, `burnt`, `evicted`) are read by properties only.

### Passwords and the code

| Action | Code |
|---|---|
| `LoginFind`, `LoginVerify`, `LoginOpen` | `login`: the read, `verifyPassword`, the session |
| `RefreshFind`, `RefreshRevoke`, `RefreshInsert` | `refresh`: `findActiveByTokenHash`, `revokeById`, `create` |
| `ChangeFind`, `ChangeVerify`, `ChangeCompare`, `ChangeWrite`, `Evict` | `changePassword`: the read, the old password, the history, `updateById`, `revokeAllForUser` |
| `SeedLook`, `SeedLookAgain`, `SeedCreate`, `SeedMark` | `seed-admin.js` and `createUser` |
| `Crash`, `SeedDie`, `End` | death of a process; sessions that end otherwise |

A hash stands for its password, a session for the password its login verified;
`live` is the set of such sessions, so that one element may stand for several
documents, and `RefreshRevoke` may or may not remove it. `updateById` writes
hash, history and mark together from the copy. `revokeAllForUser` (`Evict`)
ends what is stored when it runs, and not what a login or a refresh is about
to store: those sessions have `escaped`, if their password had been replaced.
`overtaken`, `past`, `forgetful`, `unevicted` and `seedDied` are auxiliary too.

### Browser and the code

Responses that set cookies are numbered; the jar holds one number and whether
the access cookie is still there, a session is live or not, a family is the
number of its login. An activity is one run of the client's JavaScript.

| Action | Code |
|---|---|
| `Start`, `EndCall` | a call of a page, `login`, `logout` and their ends |
| `Renew`, `Join`, `Renewed` | `refreshSession`: made, awaited, settled |
| `Boot` | the effect of `AuthProvider`, whose refresh is outside `refreshSession` |
| `ServePage`, `ServeLogin`, `ServeRefresh`, `ServeRotation`, `ServeLogout` | the routes, with `csrfProtection` where they have it |
| `Attach`, `Lose`, `ExpireAccess`, `Reload` | browser and network |

The header of a request is read in the turn that composes it (`Exchange`), its
cookies when it is sent (`Attach`). A GET is a call that CSRF lets pass, so
calls of pages are all "write". Timeouts of sessions are not here: a refused
refresh is a lost one. `logout` is answered 204 whatever its token is worth, so
`left` has the family of every token so presented, and `ServeLogout` revokes
only if the token is live. `left`, `held`, `lost` and `crossed` are auxiliary:
what was signed out, what tokens the jar has had, of which families an answer
with cookies got lost, and whether a refresh met a logout or a refresh outside
its single flight.

### Pages and the code

`history` and `at` are the tab's, `view` is the `useState` of the page shown.
`calls` are those of the page whose answers it shows; an answer that finds no
page is of no effect, so they end with the page. `errands` are a lookup, a close
and a save, whose answer calls `navigate` whether their page is still there
(`here`) or not. `Show` is what React Router and the effects make of a new
address: another page is made anew, the same page with another id keeps its
state and runs its effect again, after `Cancelled` if it is the form. The
actions have the names of what the operator does and of the answers
(`AnswerList`, `AnswerGet`, ...). `mishaps` records what excuses a page, and is
cleared when it is made anew.

### Server and the code

`Start`, `Signal`, `Uncaught`, `Shutdown`, `Drained`, `DisconnectMongo`,
`ForceExit` are the parts of `main`; `Reconnected`, `Disconnected`,
`DriverError` the listeners of `connectMongo`. `driver` is mongoose's
`readyState`, `connected` the flag. A handler (`work`) outlives its connection
(`conn`) when the client goes away.

### Iban and the code

Digit strings are numbers: `Bban` is bank, branch, account part and key side by
side, `Rearranged` what `mod97` is given. `mod97` itself works on a string:
`Mod97Step` is one turn of its loop, `Remainders` what all its turns go through
and `Mod97` what it returns; `NumberOf` is the number a string of digits stands
for. Both are instances of `Turns`, the recursion of such a loop.

## 3. Runs

Each finishes within two minutes on two workers, most in seconds.

| Run | Instance | Shows |
|---|---|---|
| `accounts_lifecycle` | 2 admins, 1 id, 2 details, deposits {0, 1}, crashes, optional `expectedVersion` | the inductive invariant (types, closure and the worth of copies in it), version soundness, truthful audit, refinement of `AccountLifecycle` |
| `accounts_spa` | 2 admins, 1 id, versions to 2, `expectedVersion` always sent | the trail is complete and its status changes connect |
| `accounts_numbers` | admin and officer, 2 ids, 1 number, crashes, refused entries, fairness | unique numbers; every request is answered |
| `login_serial` | 1 request, limit 3, lock of 2, clock to 5, crashes | the policy, the limit, the report |
| `login_bounded` | 2 requests, limit 3, crashes | at most 5 wrong passwords between locks |
| `sessions_serial` | 1 request, 4 tokens, lifetime 3, idle 1, clock to 4, 1 password change, crashes | the inductive invariant, absolute timeout, traceable reuse, one live token per family; burnt and evicted families stay so |
| `passwords` | 2 requests, 2 seeds, 3 passwords, history of 2, changes while fewer than 4 | no reuse until changes overlap, stale sessions explained, the mark of a seed |
| `browser` | 2 tabs, 3 activities (two in one tab), 4 responses with cookies, 1 loss | one refresh per tab, burns, sign-outs and CSRF refusals explained |
| `browser_ends` | the same with 3 responses, fairness | every activity ends |
| `pages` | 2 accounts, 2 filters, 2 pages of the list, history of 3, 2 calls, fairness | pages show and address what they should; spinners end |
| `server` | 3 connections, fairness | clean exits, readiness, shutdowns end |

Where a property has an excuse ("unless two changes overlap", `crossed`,
`mishaps`), the excuse names a behaviour the code does have; without it TLC
finds that behaviour at once. So such a property does not guard against its
excuse: that is a hazard the code is open to. It says that, as far as the model
goes, the state it forbids has no other cause. The excuses are:
- two changes that overlap: the later writes a history without the earlier
  one's password;
- a login that verified the old password stores its session after the
  revocation, a refresh that has found its session before stores the successor
  after, and a process that dies before `revokeAllForUser` leaves every session
  live, for nothing does it again;
- a seed that dies before its mark leaves a password that need not be changed;
- a lost answer to a refresh, a second tab, or the bootstrap refreshing next to
  a call burns the operator's own family;
- a logout with a rotated token revokes nothing and is answered 204: because a
  refresh overtook it, or because the answer to an earlier refresh got lost;
  then a session stays live of which the browser has never had the token;
- cookies replaced between the composing and the sending of a request make the
  double-submit check refuse it, and 403 is not retried;
- list and account answers out of order leave the earlier one on the page;
- the form kept between two addresses saves one account's fields under the
  other's id if the operator is faster than the load, or the load failed; that
  the versions differ as a rule, not by necessity, is all that stops it;
- the empty form reached from a loading one keeps its spinner for ever;
- a driver error on a connection that stays up leaves `/readyz` at 503;
- a handler whose client has gone is cut by a clean exit.

One violation run shows where the code and a comment of its own part:
`sessions_evict_race` is `EvictedStaysEvicted` of `sessions_serial` with a
second request - a refresh in flight gives a family that a password change
evicted a live token.

The models reach more such behaviours, which have no run of their own:
- "Graceful shutdown drains in-flight requests so a restart or redeploy does
  not truncate a write" (`server.js`, header): the forced exit after ten
  seconds (`ForceExit`) cuts whatever is under way, and a request may take
  thirty; only a clean exit is promised anything (`CleanExitCutsNothing`);
- a logout that fails leaves the session live while the page says anonymous
  (`EndCall` after `Lose`; `LogoutEndsFamily` is about logouts answered 204);
- two writes to one account are under way at once from one page;
- with two requests, two refreshes of one token both succeed
  (`OneLivePerFamily`), and a logged-out or burnt family comes to life again
  (`BurntStaysBurnt`);
- with two requests, three wrong passwords need not lock (`LocksAfterLimit`),
  and a login that read the operator before a lock writes it away;
- a change stands without its entry when the append fails or the process dies
  (`AuditComplete` in `accounts_spa` with `AuditFails` or `Crashes`);
- production builds no index (`autoIndex`), and there is no migration: with
  `UniqueIndex = FALSE` two creates insert one number;
- a stale `expectedVersion` is answered 200 when the status is already the
  requested one: `changeStatus` returns before it is looked at.

**Bounds, and why they are enough.** Two clients are what every race in the
list needs, and a third adds no new pair. One account id suffices where
accounts do not meet (everything but numbers); two ids over one number let two
creates race for it, and let it be taken, freed by erasure and taken again. `MaxVersion` stops arrivals
of writes at a version, not writes in flight. `MaxAttempts` is 2 for 5: the
loop is uniform. Lock, idle and absolute timeouts keep their order and are
small; the clock runs past every one of them. Four tokens let one family be
refreshed twice beside another. A history of two over three passwords, with
four changes, lets each password come back. Two activities in
one tab and one in another are a shared refresh and one it does not know of;
four numbers are a login from before, a refresh by each tab and a login, or
three refreshes in a row. One loss reaches each of the cases the properties
tell apart, and section 4 has any number of losses. Two
accounts, three addresses back and forth and two calls under way let a page be
kept, left, and answered out of order. Three connections are one at work, one
idle and one whose client has gone. The clock, the count of wrong passwords and the
password changes are bounded by `MaxTime`, `MaxWrong`, `MaxPassword`.

**Symmetry** is over ids, numbers, tokens, passwords, requests and seeds, which
are only compared, over clients of equal role, and over the activities of one
tab; runs with liveness use none.

**Fairness.** `Answered` assumes weak fairness of `Serve(c)` for each client:
Node's event loop resumes every handler whose database call has returned, and
the driver's timeouts (`db/mongo.js`, 5 s and 20 s) make every call return or
throw. `ActivitiesEnd` assumes the same of the client's event loop and the
network for each activity (`Serve(a) \/ Client(a)`): a fetch is answered or
rejects. `SpinnerEnds` assumes that some call under way is answered as long as
there is one, in any order, and speaks of operators who wait (`<>[][~User]`).
`ShutdownEnds` assumes of the whole process only that the timer of the grace
fires: neither requests, nor their clients, nor the database need ever come to
an end. Crashes, arrivals, operators and clocks are not fair.

`UndercountBounded` deserves a word: with W overlapping requests and a limit of
L, at most choose(L + W - 1, W) - 1 wrong passwords pass without a lock. Section
4 proves that for every W and L; TLC also finds the bound to be exact for L up
to 4 with W = 2, and for L = 2 and 3 with W = 3.

## 4. Proofs

For any sets of clients, ids, numbers and details, any roles, with or without
faults, versions or an index, `AccountsProofs` proves:

| Theorem | Says |
|---|---|
| `Invariance` | `Spec => []IndInv` |
| `TypeCorrect` | `Spec => []TypeOK` |
| `VersionsIdentify` | a copy with the stored version is the stored document |
| `ClosedMeansEmpty` | `isDeleted`, CLOSED and an empty balance go together |
| `NumbersUnique` | with the index, numbers are unique |
| `ClosureIsFinal` | a closed account is never written, an id filled once |
| `NothingOverwritten` | a write with `expectedVersion` replaces what its client saw |
| `TrailTruthful` | no audit entry says more than happened |
| `Refinement` | `Accounts` implements `AccountLifecycle` |

without crashes and failing appends:

| Theorem | Says |
|---|---|
| `TrailComplete` | every version, erasure and read has its audit entry |
| `StatusTrail` | with versions on every write, entries name the status replaced |

For any number of requests and tokens and any two timeouts, with crashes,
`SessionsProofs` proves:

| Theorem | Says |
|---|---|
| `Invariance`, `TypeCorrect` | `Spec => []IndInv`, `Spec => []TypeOK` |
| `TimeoutIsAbsolute` | no session outlives its login's lifetime |
| `ReuseDetectable` | the TTL index never hides a reuse |

and with one request at a time, which may die between any two of its steps:

| Theorem | Says |
|---|---|
| `RotationReplaces` | a family never has two live tokens |
| `BurningIsFinal` | a burnt or logged-out family has none again |
| `EvictionIsFinal` | nor has a family a password change has found |

For any limit, any length of the lock and any number of requests, with crashes,
`LoginProofs` proves:

| Theorem | Says |
|---|---|
| `TypeCorrect` | `Spec => []TypeOK` |
| `Undercount` | however requests overwrite one another's counts, wrong passwords lock the operator in the end, and after how many at the latest |

and with one request at a time:

| Theorem | Says |
|---|---|
| `LimitLocks` | the limit locks |
| `ReportTrue` | the reported failures are those since the last login |
| `LockHolds` | a lock stands until it expires |
| `Refinement` | `Login` implements `LoginPolicy` |

For any number of requests, seed runs and passwords and any size of the
history, `PasswordsProofs` proves:

| Theorem | Says |
|---|---|
| `TypeCorrect` | types, and that the history never exceeds its size |
| `StaleSessions` | a session of an old password was about to be stored, by its login or a refresh, when the sessions were revoked; or the revocation is to come or died |
| `SeededMark` | a seeded password stays one-time |
| `NoReuse` | no recent password comes back until two changes overlap |

For any number of tabs and activities, `BrowserProofs` proves:

| Theorem | Says |
|---|---|
| `SingleFlight` | a tab's calls never have two refreshes under way |
| `RefusalExplained` | a header misses the cookies it goes with only if they were replaced or missing |
| `TokenInvariance`, `TypeCorrect` | `Spec => []TokenInv`, `Spec => []TypeOK` |
| `BurnsAreExplained` | reuse detection burns a family only if an answer with its cookies got lost, or a refresh met a logout or another refresh |
| `LogoutEnds` | after a 204, whatever token was presented, a live token of the family is one the browser never had, its answer lost; nor does the jar keep one, unless an answer of the family got lost; a refresh that met a logout or another refresh excuses both |

For any accounts and filters, any length of a tab's history and any number of
calls under way, `PagesProofs` proves:

| Theorem | Says |
|---|---|
| `PagesInvariance`, `TypeCorrect` | `Spec => []PagesInv`, `Spec => []TypeOK` |
| `RowsOfFilters` | a settled list shows the rows of its filters |
| `AccountOfAddress` | a settled page shows the account of its address |
| `WritesWhatIsSeen` | a write goes to the account the operator saw |
| `AccountThere` | the page of an account never renders without one |

For any number of connections, `ServerProofs` proves `TypeCorrect`, `CleanExit`
and `Readiness`. For all inputs, `Iban` proves:

| Theorem | Says |
|---|---|
| `Mod97StepCorrect` | a turn of `mod97` keeps the remainder of what it has read |
| `Mod97Correct` | for a string of any length the loop returns the remainder of its number, and holds nothing above 96 between two turns |
| `CheckComputed` | so the check digits computed from the string are `CheckDigits` of the number, for a BBAN of any length |
| `RibKeyFits` | the key has two digits, its sum is exact in JavaScript numbers |
| `RibValid`, `CheckValid` | generated numbers pass both checks |
| `AlwaysFR76` | every one of them begins with FR76 |

**Assumptions**: those of the modules - deposits are natural numbers, timeouts
and limits have the sign they need, `Null` is none of the values it stands
beside (accounts, rows, activities), roles are roles, flags are Booleans, a
browser runs finitely many activities - and, where named, `UniqueIndex`,
no faults, versions, or that `Workers` has one member. The last cannot be
dropped: section 3 says what a second request does.

**The argument for accounts.** The properties are not inductive: that a close
leaves an empty account depends on a decision made from a copy some steps ago.
`IndInv` adds what the copies are worth: `VersionIdentifiesContent` and
`BalancesFixed` relate every held copy to the stored document, `RequestShape`
says what a handler has in hand in each section, `PendingDecisions` that what it
decided still holds when it writes. The proof first reduces the dozen actions to
the four things a step can do to the store (`StoreStep`: nothing, insert,
replace an open document by its successor, erase a closed one) and the two ways
a copy comes about (`HeldStep`: it was held before, or is the stored document).
The document parts of `IndInv`, the action properties and the refinement follow
from these two lemmas; the request parts take one step per action.

The audit properties speak of an entry appended an await after the work it is
about. `TrailInv` says what a request at `audit` has in hand and that nobody
takes it away (`DoneStep`), so that its entry is true whenever it is appended
(`EntryTruthful`) and stays so (`TruthfulStays`). Completeness counts the
entries about to be appended as well: without faults none is struck
(`TrailGrows`). For `StatusTrail`, `Expecting` shows that a write which carries
a version replaces the very document its handler has read
(`ReplacesWhatItRead`); `StatusInv` then chains the entries of an account to its
status.

**The argument for sessions.** Between a refresh's read and its insert the
document it read may be revoked by others, expire and be reaped. What survives
is that a document's family and expiry never change and that it disappears only
after its expiry (`IssuedStep`). So `CopiesBounded` carries the bound of
`AbsoluteTimeout` in the copy, and `PendingExchange` carries to the insert that
the presented token is revoked and lasts as long as its successor can, or that
the time has passed; `Descent` is the same between stored documents. The three
theorems with one request speak of documents nobody has revoked, expired or not,
so that the clock drops out (`SerialInv`): a family has one at most, and a
request on its way to an exchange holds it (`ExchangeUndisturbed`). The family a
login starts cannot be a dead one, because only issued tokens name those.

**The argument for login.** With one request the copy it holds is what is
stored (`CopyIsFresh`), so the counters count (`CountersTrue`), and a password
is checked only while no lock stands.

With more, a count may be stored over a higher one, and no measure of the
stored count alone tells that wrong passwords come to an end. `BoundInv` looks
at what each request would count from, its copy or the stored count, whichever
is lower (`Basis`), and at how many requests are below each level (`Profile`).
A wrong password without a lock makes the profile later, by the lowest level at
which the two differ (`WrongPasswordBound`): the request that stores its count
leaves the level it counted from, and nobody falls to it or below. No other step
makes it earlier, except a right password, which begins afresh. So there have been at most
as many wrong passwords as there are earlier profiles; profiles are the
non-decreasing functions on L - 1 levels with values up to W, and there are
choose(L + W - 1, W) of those (`ProfilesChoose`, by Pascal's triangle). The
library's induction theorems are out of the provers' reach; `Induction` is
proved here for a set of numbers, from the least number principle that
`WFMin` gives, and used at the set of the numbers for which a claim holds.

**The argument for passwords.** A request that no change has overtaken holds
the hash and the history in force (`CopiesOK`), and until two changes overlap
the stored history is the latest of what was ever replaced (`HistoryIsPast`);
so the passwords compared are the recent ones. A write overtakes all others and
is the only step that changes the hash. What `StaleSessionsExplained` says of
the sessions that are stored is not inductive, since logins and refreshes store
more: `HoldsOK` says it of the sessions these have in hand as well. A write
leaves a revocation owed (`Owed`), which explains them all; the revocation ends
the stored ones and marks those in hand (`EvictOK`); a death keeps it owed.

**The argument for the browser.** Whoever refreshes for a call is the one its
tab's `flight` names (`OwnsFlight`), and a composed header is the jar's token or
has seen it replaced (`HeaderFits`). A step moves one activity and sets the
others aside (`MoverKeeps`, `AsideKeeps`), except that a settled refresh takes
with it those who wait for it (`ResumeFields`).

That burns and sign-outs are explained takes an invariant about every token
under way, in two more layers. `NumbersInv` is the bookkeeping: responses are
numbered in order (the assumption on activities is for this: each that may still
be answered with cookies has a number left), and the family a login has started
is known to nobody else. `CalmInv` holds until a refresh meets a logout or
another refresh, and says what losses can do until then. There is one refresh at
most, and not next to a logout (`Alone`), and a family has one live token at most
(`OneLive`). A live token was given to the browser, is on its way, or was lost
(`Delivered`); if the browser has had it and keeps one of its family, in the jar
or in a logout, it is that one (`UpToDate`). A family that was left has no live
token but a lost one (`LeftDead`). A token in the jar is live, or its successor or
removal is on the way (`JarExplained`), and one that a refresh presents is live
(`Presented`), unless its family has lost an answer. A burn needs a presented token that is
not live, so its family has lost an answer. No layer is inductive alone:
`CalmInv` needs the single flight of `BrowserInv` and the numbers.

**The argument for pages.** What a page will show is decided by its last call
under way: `ListInv` says that it asks for the filters, or, with none left, that
the rows answer them; `DetailInv` that a call for another account, or another
account on the page, is followed by a `get` for the address's. A step adds a
call at the end (`AskedKeeps`), or takes one out of the middle
(`RemoveAtProperties`): if it was not the first, `reordered` excuses the page
from then on, and if it was, the rest keeps its order (`InOrder`). For the form
order does not matter, since its effect cancels what it has made before:
`FormInv` says that only the answer for the address's account can still fill it
(`FillsKept`). A write reads account and address in one turn, of a page on which
nothing that could change the account is under way, or `hasty` says so
(`SeenIsAddressed`). The moves between addresses are one lemma each for a page
made anew, one whose effect runs again, and one that stays (`MountKeeps`,
`RerunKeeps`, `SameKeeps`).

**The argument for account numbers.** `Mod97Correct` is an induction over the
digits read, of the same kind as that for `Undercount`, once the recursion of
`Turns` is known to have a solution (`SomeFollows`). `CheckComputed` writes the
six digits behind the BBAN out. The rest is arithmetic of remainders.

**Only model-checked**: the liveness properties, which are out of the prover's
reach.

## 5. Plan

Done: all modules of section 2 and the proofs of section 4.

To extend the model:

1. `Sessions` and `Browser` as a refinement: a session family (absent, live,
   dead) that both implement with one request at a time.
2. Field encryption over restarts with a new key, if the key ring ever gets a
   second one; rate limits, if their counters move to a shared store.
3. The age of passwords and the enforcement of `mustChangePassword`, if the
   code comes to enforce it.

To prove: the refinement of item 1, once it is stated.

## 6. Not modelled

Cryptography, token formats and timing; HTTP parsing, headers, CORS,
compression; logging; rendering and field contents; infrastructure and CI.

- Field encryption: the ciphers are library code; the key ring is built once
  with one key and never changes.
- Rate limiters: the counters are a library's, in the memory of one process.
- The operator's role and `isActive` as `authenticate` reads them: no code
  changes them; where an administrator does so in the database, `Login` and
  `Sessions` have the step.
- The entries of the audit trail about logins, logouts and passwords: they are
  appended at the end of handlers that are modelled, and nothing reads them.
- `list` and its count: two reads, with no state kept.

- React's `StrictMode` runs effects twice in development, so that a tab
  bootstraps twice at once; the models are of the production build.
- The audit trail of `Accounts` is a set of entries without actor and
  correlation id: of two entries that differ in nothing else, one could be
  missing unnoticed.
- `sanitizeFilter: true` (`db/mongo.js`). The models take every filter to mean
  what the repositories write. mongoose rewrites a filter's values that hold a
  `$` operator unless they are marked as trusted, and `expiresAt: { $gt }`
  (`session.repository.mongo.js`) and `isDeleted: { $in }`
  (`account.repository.mongo.js`, `list`) are not. If it does so here,
  `findActiveByTokenHash` fails on a real database, and with it every refresh
  and logout that presents a token; the tests use repositories in memory and
  would not show it. What a library does with a filter is not modelled.

MongoDB's replication is abstracted to atomic operations, as majority write and
read concerns in `db/mongo.js` ask for.
