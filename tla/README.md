# A TLA+ verification of go-spark

go-spark is a web application starter: accounts with sessions, mailed tokens,
two-factor authentication and passkeys over SQLite, a durable email outbox, and
background jobs. One HTTP process and one or more worker processes share the
database. This directory holds TLA+ models of the parts whose correctness
depends on order and interleaving, TLC runs on small instances, and proofs
checked by TLAPS.

## Inventory

| component | state | operations | what is hard | what makes it correct |
|---|---|---|---|---|
| email outbox (`internal/email/processor.go`, `internal/database/email_outbox_store.go`) | table `email_outbox` | enqueue, claim, mark sent / failed / permanently failed, prune | several workers, crashes between send and mark, claims that expire, ids that come back | a claim is exclusive while it lasts; no message lost, none settled without cause; duplicates only where unavoidable; nothing stranded |
| cleanup job (`internal/jobs/cleanup.go`) | none of its own | six delete statements per run | runs beside everything else, with cut-offs computed earlier; one statement of six fails | deletes only what is settled, expired or consumed; a failed run is followed by another |
| job runner, process lifecycle (`internal/jobs/runner.go`, `cmd/app/main.go`) | goroutines, contexts, the error channel | start, run, signal, shut down, close | cancellation during a job, a listener that fails, the order of shutdown, who waits for whom | an error does not end a job loop; the process exits when it is stopped; the database outlives its users |
| configuration (`internal/config/config.go`, `internal/app/build.go`) | environment, file `.env` | read, check, build | two layers of checks that must agree, blank and zero values | what the first layer accepts the second does not refuse |
| SQLite pool (`internal/platform/sqlite`) | one connection per process | statement, transaction | handlers and jobs wait for the one connection | nobody starves, nobody waits for himself |
| accounts and sessions (`internal/auth/auth.go`, `auth_store.go`) | tables `users`, `sessions` | register, login, logout, revoke, change password, delete account | a request reads, hashes for a long time, then writes | unique addresses; a password or address change revokes sessions; no orphans |
| mailed tokens (same files) | three token tables | request, resend, consume, prune | links followed late, after other changes | a verified address was proved; tokens go to the account's addresses; used once |
| two-factor authentication (`internal/auth/totp.go`, `totp_store.go`) | tables `user_totp`, `totp_backup_codes` | begin, confirm, disable, regenerate, verify at login | check and write in different statements, replays in flight | a code is good once; enabled means confirmed; codes replaced as a set |
| passkeys (`internal/auth/webauthn.go`) | table `webauthn_credentials`, ceremony cookie | register, login, rename, delete | another user signs in between begin and finish, concurrent logins write the counter | a ceremony is good for its user; the counter falls only in an overlap |
| signing in (`internal/server/auth_handlers.go`, `totp_handlers.go`, `webauthn_handlers.go`) | signed cookies: session, pending login, ceremonies | log in, answer the challenge, passkey login, log out | the half-finished sign-in is in a cookie that tabs share and the server cannot revoke | a session only after every factor; a replaced password runs out |
| rate limiter (`internal/server/rate_limit.go`) | map of fixed windows, call counter | allow, clean up | clock read before the lock, map at its limit, several limits per route | bounded bursts, justified refusals, ceilings first |
| routes, access middleware, handlers (`internal/server`, `internal/paths`) | signed cookies: session, flash message, reset token, pending login | load the session, admit or redirect, answer, set cookies | gates and handlers redirect to each other; answers arrive late and in any order; the account changes meanwhile | redirects end, messages are shown, an answer does not sign a browser out by accident |
| hashing, encryption, templates, projects table, headers | - | - | little: stateless or single statements | - |

The components interact through the database (every table is shared by all
processes and SQLite runs one write transaction at a time) and through the
outbox: account operations enqueue mail in the transaction that makes the token.
`PROJECT.json` lists all components, also those not modelled, and the hazards
line by line.

## Modules

| module | models | composes |
|---|---|---|
| `DeliveryContract` | what the outbox promises to callers, without table, claims or clock | |
| `EmailOutbox` | the table, the workers' `ProcessPending` loop, crashes, pruning | implements `DeliveryContract` |
| `EmailOutboxProof` | theorems about `EmailOutbox` | |
| `EmailOutboxContractProof` | the refinement of `DeliveryContract`, and duplicates | extends `EmailOutboxProof` |
| `Accounts` | users, sessions, the three token tables, requests in flight | |
| `TOTP` | one user's second factor, requests in flight | |
| `SignIn` | password, challenge and passkey sign-in, the cookies, the passkey table | |
| `RateLimiter` | the limiter's map and the middleware | |
| `Settings` | the environment, its checks, and the checks of the constructors | |
| `Lifecycle` | a process from its arguments to its exit: server, handlers, jobs, the pool's connection, shutdown | extends `Settings` |
| `Pages` | routes, gates, handlers as answers, cookies, and a browser that follows redirects | |
| `AccountsProof`, `TOTPProof`, `SignInProof`, `RateLimiterProof`, `LifecycleProof`, `PagesProof` | theorems about the module each is named for | |
| `MC...` | small instances for TLC | one per component |
| `MCEmailOutboxLive` | `EmailOutbox` with a clock that never stops, for liveness | extends `MCEmailOutbox` |

### EmailOutbox

`rows` is the table by id, with the columns the statements read or write
(`claimed_at`, `last_error` and the message text are left out: nothing reads them
back). A worker's `pc` follows `ProcessPending`: `StartCycle` reads the clock,
`ClaimPending` is the claim statement, `Send` the call of the sender with its three
outcomes (accepted, rejected, accepted but reported as an error), `Mark`,
`SkipClaimLost` and `MarkError` the mark statement that succeeds, finds no row, or
fails. `ClaimError` and `MarkError` include a statement that was committed and
whose answer was lost. `Stop` is a crash or a cancelled context, at any point;
`Start` the restart. The cleanup job's two statements use a clock value from any
earlier moment.

Each statement uses the clock value its caller read before; time may pass in
between. A row id is the largest in the table plus one, as SQLite assigns it for
an `INTEGER PRIMARY KEY` without `AUTOINCREMENT`, so ids of pruned rows come back.
Claim tokens are random in the code and fresh in the model; one that no row and
no worker remembers may be used again, which keeps the state finite.

### Accounts

A request is a record in `req`: the operation, how far it is, and what it has
read. `Authenticate` is the session middleware followed by `requireAuth` or, for the
operations behind it, `requireVerifiedAuth` (`Admitted`);
`RegisterCheck`, `LoginVerify`, `ChangePassword`, `RequestEmailChange`,
`ResendVerificationEmail`, `CheckDeletePassword`, `RequestPasswordReset` and
`ResendVerificationEmailByAddress` are the reading halves,
`CreateUserWithEmailVerification`, `CreateSession`, `InsertTokenAndEnqueue`,
`SetPasswordAndRevokeSessions` and `DeleteAccount` the writing halves.
`ConsumePasswordResetToken` is the first of the two writes of a reset. Link
handlers are one transaction each. A request may `Abort` anywhere. Requests that
are refused without a write are left out: they change nothing. Expiry is a flag
that turns true at any time; deletion of an account cascades.

The fields `held`, `proven`, `told` (users), `login`, `late` (sessions), `applied`
(tokens) and the variables `created`, `retired` are history; no action's guard
reads them except the bound on `created`.

### TOTP

One user's row is `secret`, `enabled`, `last`. A TOTP code is its secret and time
step; a backup code its set and number. Every operation first reads the row
(`ReadForCode`, `ReadForBackupCode`), then claims the counter or consumes the
backup code, then writes (`EnableTOTPWithBackupCodes`, `ReplaceBackupCodes`,
`DeleteTOTPAndBackupCodes`, `LoginSucceeds`), each in a statement or transaction of
its own. `late` marks a setup that looked at the row before another setup was
completed; only `StaysOnUntilDisabled` reads what becomes of it.

### SignIn

`jar` holds a browser's cookies, which its tabs share; `tab` is a tab with the
request it has under way. `Login`, `CheckTOTP` and `CreateSession` are the three parts
of a password login; with 2FA on `CheckTOTP` answers with the pending cookie, and
`Challenge` and `VerifyCode` are the request that comes with it. A passkey ceremony is
`passkeyRegisterBegin`, `MakeCredential` (the authenticator),
`passkeyRegisterFinish`, `CreateWebAuthnCredential`, or `passkeyLoginBegin`, `Sign`,
`passkeyLoginFinish`, `UpdateWebAuthnCredentialOnLogin`, `CreateSession`. What other
requests do to the accounts (`SetPassword`, `EnableTOTP`, `DisableTOTP`,
`DeletePasskey`) may come between any two of them. The WebAuthn library is external:
`CreateCredential` and `ValidatePasskeyLogin` are the comparisons the code relies on,
`SignCount` its treatment of the counter. The schema says that a counter that does
not increase "is logged"; no code reads the library's warning, and the model has
no log.

Cookies carry ages instead of times, so no bound on time is needed. `site`, chosen
once, says whether passkeys are configured, who uses 2FA and which browser a tab
belongs to. `facts` is history of a sign-in. Names of passkeys are read by nothing,
so renaming is no step.

### RateLimiter

`Allow` is one step, under its mutex; `Arrive` reads the clock. Times are stored
relative to the present, so no bound on time is needed. `Specs` is the list of
limits of a guarded route (a per-IP ceiling, then per IP and address); a form
without a valid address falls back to the IP.

Two variables are history: `log[b][n]` is the number of requests that bucket `b`
admitted less than `n` ticks ago, and `passed[ip][n]` the same for all narrow limits of
a client together. They count cumulatively, so that a property about a stretch of
time reads one number; nothing older than the longest window and the delay is kept.

### Settings and Lifecycle

`Settings` has no state: it says which environments `FromEnvWithProcess` accepts,
what `Config` it makes of them, and which configurations `buildRuntime` and the
constructors under it refuse. A variable's text is a word for a class its parser
tells apart: unset, empty, blank, zero, positive, too short, well-formed, junk. The
rate limits are read alike for every policy, so one pair stands for all of them.

`Lifecycle` follows the main goroutine with `main`: `parseCLIArgs`, `LoadConfig` or
`runMigrate`, `Build`, `Run`, then the `select` of `runAll` and `runWeb` (`SelectDone`,
`SelectErr`), `Shutdown`, `ShutdownReturns`, `stopJobs`, `WaitForJobs`, `Close`, `Exit`.
Beside it run the goroutine in `ListenAndServe` (`Listen`, `AcceptFails`), the handlers
(`Accept`, `BeginTx`, `EndTx`, `AnswerWithoutTx`) and the two job loops (`Start`,
`runJobOnceReturns`, `Tick`, `Done`), with the statements of the cleanup run
(`DeleteRows`) and the email run (`ClaimPending`, `Send`, `TalkEnds`, `Mark`). What the
statements do to the tables is the business of the other modules; here a statement
is a use of the connection `conn`, which fails or not. `MailServerHangs` is the mail
server falling silent: the dial has a timeout and the context, the conversation
after it has neither. `net/http`, `database/sql` and `net/smtp` are modelled from their
use. `ErrServerClosed` is not represented: from `Shutdown` on, nobody reads the
channel. Signals come only once `NotifyContext` is in place. `gaveUp` is history.

### Pages

Each path of `internal/paths` is a string in one of four sets by the middleware
that guards it. A tab's request goes through `sent`, `handler` and `answered`:
`loadSession` reads the session cookie's session and applies the gate
(`requireAnonymous`, `requireAuth`, `requireVerifiedAuth`); the handler changes the tables
and fixes the answer; `Receive` applies the answer's cookies to `jar` and follows a
redirect, `Lose` is an answer nobody gets. Between any two of these the other tab and
`Elsewhere` (other browsers, links opened there, expiry) may do anything to the
accounts and sessions. The statements of a handler are one step here, because
`Accounts`, `TOTP` and `SignIn` take them apart.

An answer is where it leads and what it does to each cookie. A message in the flash
cookie is present or not; its lifetime of five minutes is taken to be longer than a
navigation. Signatures hold: a cookie is what the server made it. The script of a
passkey login goes where the JSON says, as a browser does with a redirect. `visit`,
chosen once, says which requests are begun in which tab; redirects lead on from
there. `hops` and `owed` are history.

## Runs

| run | instance | shows |
|---|---|---|
| `outbox` | 2 workers, 2 messages, 2 row ids, 3 clock values, 1 fault, batches of 2, 2 attempts | claims are exclusive, copies current, `sent` means accepted, retries exact, duplicates excused; `EmailOutbox` implements `DeliveryContract` |
| `outbox_live` | the same with batches of 1 and a clock that never stops (`MCEmailOutboxLive`) | no row is stranded, unless workers outlive their claims for ever |
| `accounts_sessions` | 1 address, 2 accounts one after the other, 2 requests, 2 sessions, 2 tokens, 2 passwords | only an overtaken login leaves a stale session; no orphan rows |
| `accounts_address` | 2 accounts, 2 addresses, 2 requests, 3 tokens, 1 session | addresses unique and proved, mail to the right mailbox, former addresses told, their sessions revoked |
| `accounts_reset`, `accounts_reuse` | 2 requests, 1 user id | disagreements, see below |
| `totp` | 2 requests, 2 secrets, 2 sets of 2 codes, steps 0 to 2 | TOTP and backup codes good once, whoever has 2FA on has one whole set of codes, 2FA stays on until it is disabled |
| `totp_confirm` | 2 requests, 2 secrets, 2 sets of 1 code | a disagreement, see below |
| `sign_in` | 2 users, 2 tabs, 1 passkey with 2 signatures, 1 session, a pending cookie good for 1 tick; three sites (2FA in one browser, passkeys in one browser, passkeys in two) | every factor asked for, replaced passwords run out, passkeys stay with their users, counters fall only when logins overlap |
| `limiter` | 1 client with and without an address, 2 requests, limits 2 and 1, windows of 3, readings up to 1 tick old, a map of 2 entries, cleanup every 3rd call | bursts bounded, refusals earned, ceilings first |
| `lifecycle` | every command; two complete environments, each with at most one of the variables changed; three `.env` files; 2 requests, batches of 1 | the process exits when stopped, the database is closed after its users, the exit status tells why, requests are answered, jobs go on |
| `pages` | 2 tabs, 2 accounts, 2 sessions, five visits, 2 redirects | redirects end, messages are shown, session cookies are kept |

Why these bounds: two workers and two messages are what every outbox property
quantifies over; a claim that expires, is taken over and marked by the old owner
needs three clock values with a time to live of one; a row id comes back with two
ids. Two requests are what every race in `Accounts` and `TOTP` is made of; the
pool of addresses, tokens and sessions is just large enough that the second
actor has one of its own. In `SignIn` two
users change places in one browser, two tabs overwrite each other's cookies, and
two signatures of one passkey overlap; a cookie that is good for one tick is
used in time, late, and after a change of password. In the rate limiter two
windows' worth of requests fit,
and the map is smaller than the set of buckets. In `Lifecycle` two requests and two
jobs are four users of one connection; every variable of the configuration takes
each class of text while the others are in order, and no check looks at more than
the SMTP variables together, which the second environment sets. In `Pages` the
visits between them send every form and open every mailed link, beside a second tab
that signs in or uses a session; the pages that only render differ in their gate
alone, and those the redirects lead to stand for the rest. Two redirects are the most any navigation needs (with one,
`RedirectsEnd` is violated).

The account runs differ in the operations in flight: `SessionOperations` (login,
password change and reset, revocation, deletion) and `AddressOperations`
(registration, verification, email change, with the login that precedes them).
Together they take every action.

`BurstIsBounded` counts admitted requests over the window less the greatest delay
between a request's clock reading and its turn in `Allow`. Over the full window
twice the limit can be passed by a request that was held up: it brings an old
reading, and the window it opens ends early.

`CodeAcceptedOnce` is about one life of the row in `user_totp`. Disabling 2FA deletes
the row with its counter; after a new setup the counter starts again.

Symmetry over workers, messages, addresses, passwords, requests and users is used in
runs without liveness only; the constants are interchangeable in every definition.

Every property of every passing run has a mutant in `PROJECT.json`: a definition
of the model changed the way a slip in the code would change it, which the
property must reject.

### Fairness

`outbox_live` assumes weak fairness of each worker's own steps. The code justifies
it: `runJobLoop` starts a run at every tick until the context is cancelled, an error
of a run does not end the loop, SQLite statements return, and a stopped worker is
restarted by whoever runs it. A send is taken to return: the mail server answers or
the connection breaks. The code bounds only the dial, so this is an assumption
about the mail server. Nothing is assumed of the clock, of the success of sends or of
the cleanup job. Faults are bounded in the run, so the property speaks about what
happens once they stop.

A clock that stops would hide what rows reclaimed for ever do to the others, so in
`outbox_live` it does not stop: the clock stands still and every `LiveTick` moves the
times of rows, claims and readings one tick into the past. A time older than any
reading in use keeps only its place in the order `available_at, id`, claim tokens
are renamed after their rows, and the history of accepted and failed sends does not
grow; so finitely many states stand for all times. Bounds of this run: a claim's
reading of the clock is at most one tick old, no tick falls between the end of a
send and its mark (without this bound the result is the same, in 612,478 states
instead of 374,714), messages come in one order with the present time, and settled
rows are not pruned.

`NoRowIsStranded` makes one exception, and it is needed: without it TLC finds two workers
that both outlive their claims on the first row, take it from each other without an
attempt being counted, and never come to the second.

`lifecycle` drops the assumption about the mail server: `MailServerHangs` can happen and
need not end, and `ExitsWhenStopped` and `JobsGoOn` make an exception for it in so many
words. Each goroutine's own steps are weakly fair. Taking the pool's connection is
strongly fair: it is free again and again, and `database/sql` hands a returned
connection to one of those who wait. Clients, signals, failures and the
recovery of a hung mail server are not assumed.

### Disagreements with the documentation

Three runs are expected to fail; each is a finding in `PROJECT.json` with the line
it contradicts.

- `accounts_reset`: a reset token is consumed before the password is written, not
  after, and can be lost with nothing changed.
- `accounts_reuse`: a login in flight while its account is deleted and another
  registers with the same id opens a session for the wrong account.
- `totp_confirm`: a secret that was never confirmed is enabled when a second setup
  replaces it during a confirmation.

Behaviour the properties allow, because nothing in the repository promises
otherwise, and which a reader of the code should know:

- A 2FA setup that looked at the row before another setup was confirmed turns 2FA
  off again when it writes (`StaysOnUntilDisabled` excepts it).
- A login that is overtaken between its check and its write
  leaves what it would have left before: a session of the old password or address
  (`late` in `StaleSessionsWereLate`), a session without the second factor that was
  turned on meanwhile (`SecondFactorAsked` speaks of 2FA on throughout).
- Workers whose sends outlast their claims again and again take rows from each other
  for ever: no attempt is counted, and the rows behind those wait (`NoRowIsStranded`).
- The message of `resendVerification` is lost on a verified user, whether verified in
  the meantime or all along: the handler sets it for anybody signed in, and
  `verifyEmail` takes it out of the cookie and redirects (`Owes`).
- A late answer to a request that was sent with an older session cookie clears or
  replaces the newer one, and the link of an email change clears the session cookie
  of the browser it is opened in, whoever is signed in there (`SessionCookieKept`).
- A mail server that falls silent in mid-conversation keeps the process from
  exiting (`ExitsWhenStopped`).

These are hazards of `PROJECT.json` that the code does have. The properties do not catch
them, they except them: each shows that nothing beyond the named case happens.

## Proofs

Every invariant and action property of a passing run is a theorem: it holds for
every value of the constants that satisfies the named assumptions of its module, so
for any number of workers, requests, tabs, users, tokens, clients and ticks.

| module | theorem | states |
|---|---|---|
| `EmailOutboxProof` | `TypeCorrect` | `[]TypeOK` |
| | `ClaimsAreExclusive` | `[]ClaimLostOnlyAfterExpiry` |
| | `ClaimedCopiesAreCurrent` | `[]ClaimedCopyIsCurrent` |
| | `SentRowsWereAccepted` | `[]SentMeansAccepted` |
| | `RetryBudgetIsExact` | `[]RetryBudgetExact` |
| `EmailOutboxContractProof` | `DuplicatesHaveExcuses` | `[]DuplicatesAreExcused` |
| | `OutboxImplementsContract` | `ImplementsContract` (the refinement) |
| `AccountsProof` | `TypeCorrect`, `RowsAlwaysHaveOwners` | `[]TypeOK`, `[]RowsHaveOwners` |
| | `EmailsStayUnique` | `[]EmailsAreUnique` |
| | `StaleSessionsAreLate` | `[]StaleSessionsWereLate` |
| | `MailGoesHome`, `VerifiedIsProven` | `[]MailGoesToTheAccount`, `[]VerifiedMeansProven` |
| | `FormerAddressesAreTold` | `[]FormerAddressesWereTold` |
| `TOTPProof` | `TypeCorrect` | `[]TypeOK` |
| | `CodesAreAcceptedOnce` | `[]CodeAcceptedOnce` |
| | `BackupCodesAreAcceptedOnce`, `BackupCodesStayWhole` | `[]BackupCodeAcceptedOnce`, `[]BackupCodesAreWhole` |
| | `TwoFactorStaysOn` | `[]StaysOnUntilDisabled` |
| `SignInProof` | `TypeCorrect` | `[]TypeOK` |
| | `SecondFactorIsAsked`, `OldPasswordsDoRunOut` | `[]SecondFactorAsked`, `[]OldPasswordsRunOut` |
| | `PasskeysDoMatch` | `[]PasskeysMatchTheirUsers` |
| | `CountersFallInOverlap` | `CountersFallOnlyInOverlap` (action property) |
| `RateLimiterProof` | `TypeCorrect` | `[]TypeOK` |
| | `BurstsAreBounded`, `CeilingsComeFirst` | `[]BurstIsBounded`, `[]CeilingComesFirst` |
| | `RefusalsAreAllEarned` | `RefusalsAreEarned` (action property) |
| `LifecycleProof` | `AcceptedSettingsBuild` | what `FromEnvWithProcess` accepts, `buildRuntime` does not refuse |
| | `TypeCorrect` | `[]TypeOK` |
| | `DatabaseOutlives`, `ExitDoesTellWhy` | `[]DatabaseOutlivesItsUsers`, `[]ExitTellsWhy` |
| `PagesProof` | `TypeCorrect` | `[]TypeOK` |
| | `LiveCookiesAreKept` | `SessionCookieKept` (action property) |
| | `RedirectsDoEnd` | `[]RedirectsEnd`, if `MaxRedirects >= 2` |
| | `MessagesAreAllShown` | `[]MessagesAreShown` |

### Assumptions

Each module names what it assumes of its constants, and TLC evaluates it in every
run. Numbers are natural, and positive where the configuration refuses zero. In the
rate limiter a clock reading is younger than every window. The remaining
assumptions (`MessageAssumption`, `EmailAssumption`, `NoneAssumption`, `NobodyAssumption`,
the last conjunct of `PagesAssumption`) say that the value standing for "nothing" is
no message, address, user, passkey, tab or request. `RedirectsDoEnd` has a hypothesis:
the limit on redirects in `RedirectsEnd` is at least two. Two are what the code needs
in the worst case, so the theorem says that every navigation makes do with two.

### The invariants and why they are needed

Hardly any property is inductive by itself. In each module the types come first
(`TypeInv`), with what a request, worker or tab has in hand at each point: a statement
writes what was read before, so the types of the tables rest on what was read.
Each invariant holds initially and is kept by every action; the last step of each
theorem is temporal.

`EmailOutbox`:

1. `TypeInv`: `TypeOK`; `Holding`, what a worker holds at each `pc`; `RowShape`, how the
   columns of a row go with its status (a claim exactly while `sending`, no claim on
   an id without a row). Without `Holding` a worker at `mark` might have no email, and
   without `RowShape` a reused id might carry a claim.
2. `ClaimInv`: tokens of different batches differ (`TokensDistinct`), a row and a copy
   with the same token agree (`ClaimAgrees`), clock readings are not in the future
   (`ReadingsArePast`), and the property itself. Exclusiveness alone is not
   inductive: that a stale worker's mark misses the row rests on the tokens.
3. `LedgerInv`: `SentMeansAccepted`, `RetryBudgetExact`, and `SendsAreRecorded`, which says
   that a worker about to mark has its send on record beyond the attempts counted in
   the row. It links what the worker did to what it will write.
4. `QueueInv`: a message has one row, and only what was enqueued is in hand or was sent.
   The refinement mapping chooses a message's row, so it needs this; each action is
   then a step of `DeliveryContract` or a stutter.
5. `ExcuseInv`: as long as a message has no excuse, the claim of the worker that has it
   stands (`ClaimsStand`), and a copy that was accepted is known to the row or to the
   worker about to mark it (`AcceptedAreKnown`). A second send would need a claim that
   neither of them allows.

`Accounts`: `EmailsAreUnique`, `StaleSessionsWereLate` and `FormerAddressesWereTold` are each
inductive over `TypeInv`, which includes `RowsHaveOwners`. `MailInv` joins `MailGoesToTheAccount` and `VerifiedMeansProven`,
because each needs the other's parts: a request about to mail a token has an address of
the account (`RequestsHaveTheAddress`), and an account that never proved its present
address has had no other (`OneAddressOrProven`). That is why an old verification link
does no harm after a change of address: the change itself was a proof.

`TOTP`: `CounterCoversAccepted` (the stored counter is at or past every accepted code,
and without a row none is on record), `SpentAreUsed` (an accepted backup code is used or
of a set that is gone, and new sets have new numbers), `SetupsAreLate` (a setup under way
while 2FA is on looked at the row too early).

`SignIn`: `HistoryInv` follows a sign-in from the password through the pending cookie and
the challenge to the session: which way a tab is signing in at each point, that 2FA
noted as on all along is on now, and that a password was replaced no longer ago than
the cookie is old, unless the login was answered late. `KeyInv` follows a
registration: the handle the authenticator keeps and the user of the ceremony's cookie
are the user the tab registers (`TabKeys`, `TabCeremonies`).

`RateLimiter`: `WindowInv` relates a bucket's entry to its admissions. A window is opened
by a reading up to `MaxDelay` old, so it is known only within `MaxDelay` when it began:
every admission of the shorter stretch is counted in the entry, and every counted
request was admitted in the longer. The first half gives the bound on bursts, the
second that refusals are earned. `CeilingInv` counts the requests between their
ceiling and their narrow limit, by the age of their reading: a ceiling's admissions
cover those and everything the narrow limits admitted.

`Lifecycle`: `LifeInv` says what main relies on at each point: nothing has started before
`Run`, loops have ended before `Close`, handlers that are left are left for a reason, and
the settings that reach `Build` were accepted (`AcceptedSettingsBuild`, a theorem about the
two layers of checks in `Settings`, of which `ExitTellsWhy` is the visible consequence).

`Pages`: `SessionInv` says that a token in a cookie or answer was issued, so a token that
is not live never becomes live, and that an answer which changes the cookie answers a
token that is not live or comes from the link of an email change. `NavInv` adds, for a
tab that followed redirects undisturbed, that it carries the browser's cookies and that
after the second redirect the page settles (`Settles`), and where its message is. The
handlers of all routes are first brought to two forms (one that only reads, one that
writes the tables), so that each invariant has two cases instead of one per route.

### Model-checked only

Liveness under fairness is out of the prover's reach: `NoRowIsStranded`, `ExitsWhenStopped`,
`RequestsAreAnswered`, `JobsGoOn`. The three disagreements are counterexamples, found by
TLC. That the passing runs reach every action is TLC's too.

## Plan

Built: all modules above, with a theorem for every safety property. Left:

1. Stronger statements where the code supports them: for `Lifecycle` that a cleanup
   run takes its statements in order, for `EmailOutbox` a bound on redelivery per crash.
2. Pure functions against reference definitions: the client address behind
   trusted proxies, policy resolution.

## Not modelled

Cryptography, encodings, templates, the validation of form fields, the text of
mails, logging and the syntax of `.env` files have no interleavings. CSRF tokens,
security headers, request ids, body limits, health checks and static files look at
one request and keep nothing. The projects table is a single statement per
operation; `Pages` has its routes and answers only. The WebAuthn library's check of
the relying party is outside the repository; `Build` may fail there. `server.New`'s errors
about the cross-origin protection and the templates are left out of `Settings`: they
cannot occur for an `APP_BASE_URL` that `envURL` accepts and for embedded templates. Waiting for
another process's lock on the database (busy timeout) is a statement that fails,
in `EmailOutbox` and `Lifecycle`.

The models assume that random tokens do not repeat, hashes match exactly equal
inputs, and SQLite keeps its promises (atomic statements and transactions, unique
columns, foreign keys on every connection). Clocks of different processes agree and
do not go back.
