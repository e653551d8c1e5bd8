# A verification of the autentikasi backend

`autentikasi` is a Go/Gin authentication service over PostgreSQL: registration,
password login, two-factor login (TOTP), refresh-token rotation, e-mail
verification, password reset and OAuth sign-in (Google, GitHub). This directory
models its behaviour in TLA+, checks it with TLC and proves its safety with TLAPS.

The code opens no database transaction and takes no lock around its tables. Each
handler is a sequence of single SQL statements, so what has to be understood is
what happens when statements of different handlers interleave, when one of them
fails, and when the process dies between two of them. Around that core stand the
rate limiter and the routes it guards, the OAuth handshake, which lives in a browser
cookie, the life of the process itself, and a small pure function. Each is a model.

## Inventory of the system

| Part | Source (under `src/`) | State | Operations | Hard behaviour | Modules |
|---|---|---|---|---|---|
| Tables and repositories | `internal/database/init.sql`, `internal/repository/*` | `User`, `Organization`, `RefreshToken`, `VerificationToken` | one INSERT, UPDATE, DELETE or SELECT each | `Update` writes the whole row from the caller's copy; a DELETE by token says whether it hit a row only if the query engine does | `Store` |
| AuthService and its handlers | `internal/services/auth_service.go`, `internal/handlers/auth_handler.go`, `twofa_handler.go` | none of its own; each request holds its input, the account it identified and a copy of a row | Register, Login, LoginWithTwoFA, Refresh, Logout, VerifyEmail, ForgotPassword, ResetPassword, SetupTwoFA, ConfirmTwoFA, DisableTwoFA, GetProfile | check-then-act between statements, ignored errors, partial failure | `Requests`, `AuthService`, `Server`, `SignIns`, `Sessions`, `Order` |
| OAuth sign-in | `internal/services/oauth_service.go`, `internal/handlers/oauth_handler.go` | the `oauth_state` cookie in the browser | login redirect, callback, exchange, user info, `findOrCreateUser` | one cookie for all tabs and providers, answers in any order, repeated callbacks; sign-ups racing on an address | `OAuthHandshake`, `OAuthService` |
| Rate limiter | `internal/middleware/ratelimit.go` | per-client window and count under a mutex | `allow`, clean-up goroutine | boundaries of the window, clean-up between requests | `RateLimiter`, `FixedWindow` |
| Routes, AuthMiddleware, RequireRole, CORS, organization handler | `internal/routes/`, `internal/middleware/`, `internal/handlers/organization_handler.go` | request context | gate a request | one limiter for all routes; the temporary token passes the middleware | `Routes` |
| Clean-up job | `internal/database/prisma.go` | the `RefreshToken` table | hourly DELETE of expired rows | runs between the statements of any handler; must go on after a DELETE that failed | `Server`, `CleanupJob`, `Lifecycle` |
| Life cycle | `cmd/server/main.go` | goroutines, signals, connections | start, signal, graceful shutdown with a 5 s limit | what is still running when the database is closed or the process exits | `Lifecycle`; its effect on handlers in `Server` |
| TokenService | `internal/services/token_service.go` | none (signed tokens) | generate and validate access and temporary tokens | both kinds are signed with one key | `AuthService`, `Routes` |
| TOTPService | `internal/services/totp_service.go` | none | generate a secret, validate a code | the empty secret | `AuthService` |
| Slugs | `slugify` in `auth_service.go` | none | pure function | gaps in a one-pass loop | `Slug` |
| E-mail, configuration, response types, generated Prisma client | | | I/O and generated code | | (see "Not modelled") |

The handlers interact only through the tables; the middleware passes the user id
of a token to them; the clean-up job shares the `RefreshToken` table with them.

What makes each part correct: an address has one owner, whatever sign-ups race;
an organization belongs to one account; a refresh token is rotated once and a
sign-in never holds two sessions; sessions end only for a reason; a reset revokes
the sessions that existed; links serve the account and the purpose they were
mailed for and die when used; two-factor authentication is never on without a
secret, and a half-finished login opens nothing; every request is answered.

Around the handlers: a client of the limiter is admitted its quota and no more, and is
not refused without cause; the state of a handshake serves once, in the browser that
started it; a signal ends the process, and a clean exit has answered every request.

## The modules

`Store` <- `Requests` <- `AuthService` <- `OAuthService` <- `Server` <- `MCServer`
(each extends the one before it). `SignIns` and `Order` extend `Server` by a history
variable each; `SignIns` implements `Sessions`. `CleanupJob` extends `Server` by the
goroutine of the clean-up job. `RateLimiter` <- `Routes`, and
`RateLimiter` implements `FixedWindow`. `OAuthHandshake`, `Lifecycle` and `Slug` stand
by themselves. The MC modules give the constants values for TLC.

* **Store** has the four tables as variables and one operator per statement of the
  repositories. `users` is keyed by e-mail (`UNIQUE`, never updated), the token
  tables by the token. Values the program draws at random never collide, so a
  token, a TOTP secret or an organization is named by the request that drew it.
  Time is the flag `expired` of a row.
* **Requests** has what a handler goroutine holds: `pc` (the statement it executes
  next), `call` (its input), `account` (the user it identified), `row` (the copy
  of the user row it will write back) and `answer`. `Crash` ends them all.
* **AuthService** has one action per SQL statement of every handler. What the
  handler computes between two statements belongs to the action of the statement
  before it. Status codes are answers: 401 `unauthorized`, 409 `conflict`, 400
  `invalid`, 500 `error`, and `cut` for no answer. `sessionsAtReset` is a history
  variable; no action reads it.
* **OAuthService** has `findOrCreateUser`. The provider's answer, a pair of identity
  and e-mail, is an input from `Profiles`.
* **Server** composes them: `Next` is a request arriving, a statement of some
  handler, the clock, a DELETE of the clean-up job, or the death of the process. The
  safety properties of a single moment or step are here.
* **CleanupJob** has the loop of `CleanupExpiredTokens` beside it: its DELETE succeeds
  (`Cleanup` of `Server`) or fails, in which case the loop goes on, and a process that
  is started after another died starts the job anew. A DELETE that fails leaves the tables as they
  were, so the safety properties need no more than `Server`; the liveness properties
  do, and are here.
* **Sessions** is the promise to clients, without tables and handlers: a sign-in holds
  one token at a time, passes on by rotation, and is over when it has ended.
  **SignIns** adds to `Server` which sign-in each session goes back to, and maps the
  tables to `Sessions`: a sign-in holds the token that is stored and not expired, or
  the one a handler is about to store.
* **Order** adds which requests were over when each one arrived, so that "later" can be
  said of requests that overlap others.
* **FixedWindow** is what a client may see of the limiter: a window opens with a
  request, lasts, admits the quota. **RateLimiter** is `ratelimit.go`: `allow` and the
  clean-up are one action each, as both read the clock once inside the mutex. An
  instant is what is left until it, in ticks, so that `now.After(resetAt)` is
  `left < 0`; a request exactly at `resetAt` still belongs to the old window.
* **Routes** puts the routes of `routes.go` with their middleware before it. A bearer
  token is what the middleware can tell of it; behind the middleware it is the claims
  the token service signed, decoded into `TokenClaims`: a claim that is missing reads as
  the zero id or the empty role, and a handler's answers follow from the lookup of
  that id. `last` is the latest request with its
  status; `handled` counts what got past the limiter, or around it. Both histories, this
  and `recent` of the limiter, are running totals: how many within the last tick, the
  last two, and so on up to a window's time.
* **OAuthHandshake** is the login redirect, the provider as its clients see it, and the
  callback call by call: comparison, exchange, user info, e-mail list, sign-in. A
  cookie goes out when a request is sent and changes when an answer arrives; answers
  arrive in any order or not at all. `fate` is a history: how a state left its browser.
  The sign-in at its end is `OAuthService`.
* **Lifecycle** is `main`, statement by statement, with the goroutine that serves, the
  clean-up goroutine, the buffered channel `quit`, the context, the deadline, the
  deferred calls in the order they run, and the connections. A signal sent before
  `signal.Notify` kills the process. What `net/http`
  does on Shutdown is modelled from how `main` uses it.
* **Slug** is the loop of `slugify`, a round per step. As the loop may end after any round,
  the states are those of all names. The reference definition beside it picks the
  positions of a name that reach the slug, and says which place each takes.
* **ServerProofs** has the inductive invariant, type correctness, references, progress,
  and the lemmas on what one step may do. **AccountProofs** (accounts and links) and
  **SessionProofs** have the theorems that rest on them, the last one the refinement of
  `Sessions` too, and **OrderProofs** those about requests that come one after the
  other. **RateLimiterProofs**, which covers `Routes` as well, **OAuthProofs**,
  **LifecycleProofs** and **SlugProofs** stand beside the modules they are named after.

Two constants choose the environment of `Server`. `Faults` says whether a statement,
bcrypt or the random source may fail and whether the process may die.
`DeleteMissingFails` says whether the query engine, which is outside the repository,
reports a DELETE that hits no row as an error; `Refresh` depends on it (line 166), so
both answers are modelled and the properties that need one say so.

Definitions marked "Mutant" are defective variants of the definition after them.
The specification never uses them: they are put in the place of that definition to
make sure that the properties notice.

## The runs

Requests are interchangeable, and so are handshakes, callbacks and browsers, so the
runs of safety properties use symmetry. `CHECK_DEADLOCK FALSE` is set where the bounded
number of requests really runs out, where the process really ends, and for `slug`,
which stops at the longest name; `routes` can always go on.

| Run | Bounds | Properties, and what they show |
|---|---|---|
| `server` | all endpoints; any 3 requests, 2 accounts (one registered earlier, in any 2FA state), 3 OAuth profiles, faults | `TypeOK`; `OnlyOwnRowWritten`: an UPDATE never touches another account; `ReferencesResolve`, `RegistrationWins`, `OrphansExplained`: sign-ups that race or fail half-way leave one owner per address and nothing that refers to nobody; `LinkOpensWhatItWasMadeFor`, `UsedLinkIsGone` (for verifications: a reset promises it only if no statement fails), `LinkEndsOnlyWhenPresented`; `EnabledHasSecret`, `PendingTokenOpensNothing` |
| `sessions` | login, refresh, logout, forgot, reset; 4 requests, faults, `DeleteMissingFails` | `RotationSingleUse`, `OneSessionPerSignIn`, `ResetRevokesExisting`, `SessionEndsForAReason`; `ImplementsSessions`: the refinement |
| `order` | forgot, reset, login, 2fa/confirm, 2fa/disable, refresh, logout; 4 requests, 2 passwords, one account in any 2FA state, an engine that does not report a DELETE that hits nothing | `UsedLinkRefusedLater`: two requests may use one link if they overlap, but not one after the other; `ResetTakesEffect`: after a reset only the new password opens the account, until another reset comes, and `TwoFATakesEffect`: after 2FA was switched on no login gets by without a code, and after it was switched off none is asked for one, until it is switched again - in both cases unless a handler that writes the row overlapped it; `EndedSessionRefused`: a session that a client was told is over (rotated, logged out, or handed out before a reset) is refused to every refresh that comes later |
| `progress` | all endpoints; 2 requests, faults, a DELETE of the job that may fail any number of times, fairness | `EveryRequestAnswered`; `ExpiredSessionsCleaned`: an expired session goes, or the job's DELETE fails once more, and again after that |
| `routes` | every route and token; 2 clients, 2 requests per window of 1 tick, at most 4 counted, fairness | `KeepsThePromise`: the limiter implements `FixedWindow`; `OpenHandlersBounded`: at most 2 * quota - 1 requests reach open handlers in any window's time, whatever endpoints they are spread over; `RefusedForAReason`; `PastVisitorsForgotten`; `PendingServedNothing`: the claims the temporary token lacks decode to ids no row has; `RoutesTypeOK` |
| `oauth` | 2 handshakes, 2 callbacks, 2 browsers, users with or without public address and with up to 2 listed ones | `AcceptedWhereStarted`, `OneSignInPerHandshake`, `StateUsedUp`, `RefusedForAReason`: what the one cookie is good for; `VerifiedPrimaryWins`; `TypeOK` |
| `lifecycle` | 3 connections, 2 signals at any moment, fairness | `CleanExitServesAll`: status 0 means every request was answered; `HandlersHaveDatabase`; `CleanupHasDatabase`: the job starts no DELETE on a closed database, and one under way when it is closed has been told to give up; `FailureForAReason`: status 1 means that something failed or time ran out; `SignalEndsProcess`; `TypeOK` |
| `slug` | every name of up to 6 runes over 7 runes | `SlugNamesWords`: the loop computes the words joined by dashes |

The bounds follow the properties. In `server` every pair of handlers meets on one
account, with a third request to prepare it (a link, a temporary token) or to follow;
its properties are theorems too, for any number of requests. The longest scenario of
`sessions` is a login, the refresh of its token twice at once and a refresh of what
came out, or a login, a link, a reset and a refresh; of `order`, a link, a reset, a
login and one more writer of the row, a 2FA change undone and made again before a
login, or a login, a link, a reset and a refresh. Its account starts verified and with
password "p", as nobody reads the one and passwords are interchangeable; 2FA set-up,
which switches nothing and which a confirmation waits for, is left to the theorems, as an
account with a secret and 2FA off is one of those it starts from. Statements conflict
only with statements on the same account, so a second account is there where a
property speaks of two. In
`routes` a burst across the edge of two windows has room, and a refusal after it; the
refinement is a theorem for all limits and windows. In `oauth` two tabs, a repetition
and a misdirected callback have room. In `lifecycle` one connection may be idle, one
hang and one end during the shutdown, and a second signal finds the channel full or
empty. In `slug` two words with a gap of several runes and gaps at both ends have room.

Four more runs each check one sentence of the source that the code does not keep:

| Run | Sentence | What happens |
|---|---|---|
| `reset_existing` | "A password reset invalidates every existing session" (`auth_service.go:266`) | A refresh deletes its token, the reset changes the password and revokes, the refresh stores the rotated token |
| `verified_stays` | "VerifyEmail marks the user owning the token as verified" (`auth_service.go:194`) | SetupTwoFA read the row before and writes it back after the verification |
| `secret_confirmed` | SetupTwoFA "leaves 2FA disabled until ConfirmTwoFA verifies the user can produce a valid code" (`auth_service.go:270`) | With 2FA already on, the new secret is in force at once |
| `oauth_verified` | "the OAuth provider already verified it" (`oauth_service.go:197`) | An address that is listed but not verified, or that Google reports with `verified_email` false, signs in and is stored as verified; so is the empty address of a user-info request that was refused |

Two sentences more do not hold, and need no model to see it. "ForgotPassword always
succeeds from the caller's perspective" (`auth_service.go:218`): when the link cannot be
stored the answer is 500, for registered addresses only (line 230). "Rate limiting pada
endpoint login/register/2FA/reset password" (`README.md:16`): of the four 2FA routes
only `/2fa/login` names the limiter (`routes.go:47-50`).

## Fairness

`CleanupJob`: weak fairness of each handler's next statement and of the job's next step.
Both are goroutines: the Go scheduler keeps running a goroutine that can run, a
statement returns or fails, and the job loops for ever. No DELETE is obliged to
succeed: one that fails is logged and the loop goes on (`prisma.go:43-44`), so what
`ExpiredSessionsCleaned` says is that an expired session stays for ever only if the DELETE
fails again and again. `Routes`: weak fairness of the clock and of the limiter's clean-up,
which loops for ever. `Lifecycle`: weak fairness of `main` and of the passing of the
deadline, and of nothing else: handlers may hang, as the calls to the OAuth providers
have no time-out, and the other goroutines may never run again.

Nothing is assumed of clients, browsers or signals, and there is no fairness on
faults or on the death of the process.

## What is proved

The theorems hold for any constants that satisfy the assumptions of the modules:
`StoreAssumption` (requests and addresses are different things, `Registered` are
addresses, `Faults` and `DeleteMissingFails` are Booleans), `NilAssumption`,
`NoAnswerAssumption` (`Nil` is none of the values), `ProfilesAssumption`,
`LimiterAssumption` (numbers; the bound on counted requests is above the limit),
`HandshakeAssumption` (reports are reports, `Nil` is none of the values) and
`SlugAssumption` (the three kinds of runes are disjoint, the dash is not a letter,
lowering gives lower-case runes, "org" is a word). There may be any number of
requests, accounts, clients, handshakes, callbacks and browsers, any limit and window,
and names of any length. All theorems are without fairness.

| Theorem | Module | Property |
|---|---|---|
| `TypeCorrect`, `References`, `Advance` | ServerProofs | `TypeOK`, `ReferencesResolve`; `HandlersAdvance`, stated there |
| `Secrets`, `OwnRows`, `Registrations`, `Organizations`, `PendingTokens` | AccountProofs | `EnabledHasSecret`, `OnlyOwnRowWritten`, `RegistrationWins`, `OrphansExplained`, `PendingTokenOpensNothing` |
| `LinkPurpose`, `LinkUsedOnce`, `LinkEnds` | AccountProofs | `LinkOpensWhatItWasMadeFor`, `UsedLinkIsGone`, `LinkEndsOnlyWhenPresented` |
| `Rotation`, `Revocation`, `SessionEnds`, `OneSession`, `SessionsImplemented` | SessionProofs | `RotationSingleUse`, `ResetRevokesExisting`, `SessionEndsForAReason`, `OneSessionPerSignIn`, `ImplementsSessions` |
| `UsedLinkRefused`, `ResetDecides`, `TwoFADecides`, `SessionsOver`, `VerificationLasts` | OrderProofs | `UsedLinkRefusedLater`, `ResetTakesEffect`, `TwoFATakesEffect`, `EndedSessionRefused`; `VerifiedUnlessOverlapped`, stated there |
| `LimiterTypes`, `Implements`, `Refusals`, `HandlersBounded`, `RoutesTypes`, `PendingTokens` | RateLimiterProofs | `TypeOK` of the limiter, `KeepsThePromise`, `RefusedForAReason`, `OpenHandlersBounded`, `RoutesTypeOK`, `PendingServedNothing` |
| `HandshakeTypes`, `AcceptedAtHome`, `OneSignIn`, `UsedUp`, `Refusals`, `PrimaryWins` | OAuthProofs | `TypeOK`, `AcceptedWhereStarted`, `OneSignInPerHandshake`, `StateUsedUp`, `RefusedForAReason`, `VerifiedPrimaryWins` |
| `LifecycleTypes`, `CleanExit`, `DatabaseOutlivesHandlers`, `FailuresExplained`, `CleanupEndsFirst` | LifecycleProofs | `TypeOK`, `CleanExitServesAll`, `HandlersHaveDatabase`, `FailureForAReason`, `CleanupHasDatabase` |
| `SlugOfWords` | SlugProofs | `SlugNamesWords` |

Every safety property of the passing runs is in this table. Two theorems state what is
left of a sentence the code does not keep (see the runs above): `VerificationLasts` of
the one `verified_stays` refutes, `SessionsOver` of the one `reset_existing` refutes.

How they are proved:

* **The invariant `Inv`.** `ReferencesResolve` is not inductive: a session is inserted
  for an account that the handler found several statements earlier. `Inv` adds that
  the account a handler has identified is in the table (`Identified`), and that a
  handler has what its next statement needs: the account, the copy of the row, the
  address or the token of the call, and no answer yet (`HandlersReady`). Nothing
  deletes users (`UsersGrow`), which carries `Identified` over the steps of others.
* **Steps.** `ServerProofs` shows that a step of a handler changes the locals of its own
  request only, that an answer is final, that only `GenerateTokens` adds a session,
  that a call that is received fits the handler it reaches, and that a handler stays on
  the statements of its endpoint (`CourseInv`). The proofs below
  open an action again only where they need more.
* **Rotation.** `RotationInv` adds `RotatedIsGone`: once a refresh has got past its
  DELETE, the token is gone and, as a token is stored only by the request that is
  named after it, before it is handed out, it never comes back. A second refresh then
  finds nothing to delete and fails, if the engine says so; that hypothesis is
  `DeleteMissingFails`.
* **Revocation.** `ResetInv` follows a reset from its UPDATE to its answer: the
  sessions noted at the UPDATE had been handed out and belonged to the account
  (`OldSessions`), those that are still there will be hit by the DELETE
  (`RevokePending`), and after that they are gone for good.
* **Secrets.** `EnabledHasSecret` is inductive together with `Inv`, because it speaks
  of the copies that handlers hold too, and an UPDATE writes the secret and the
  switch together.
* **Own rows and registrations.** Each UPDATE writes the row of the account of its
  request and leaves the organization alone (`OwnRow`); from that, a registration
  past its INSERT owns the account ever after (`RegisterInv`).
* **Organizations.** An organization is named by the sign-up that inserted it. That
  sign-up is about to insert the account, has inserted it, or was answered with a
  failure (`OrganizationsInv`); an account never leaves its organization.
* **Temporary tokens.** A request behind the middleware that bears the token of a
  login waiting for its code has no account, so its lookup is the last statement it
  executes (`PendingInv`); the answer that came with the token never changes.
* **Links.** `LinkInv` ties a stored link to the request that mailed it, whose account
  and purpose no longer change. `HonourInv` adds that a handler past the lookup runs
  for that account, and that a link deleted with success stays away. Who ends a link is
  read off the steps: each DELETE of a link names the token of its call.
* **The end of sessions.** `SessionEnds` compares each step with the reasons: the DELETEs
  of Refresh and Logout name the token of the call, that of ResetPassword the account
  of the reset, and the clean-up job deletes expired rows only.
* **One after the other.** `BeforeInv` says that the requests before another were over
  when it came in, so nothing about them changes any more. A used link is gone for
  good, so whoever presents it later gets no further than the lookup (`LateInv`).
* **Sessions that are over.** A session that was rotated or logged out went with a DELETE
  (`SpentInv`) and is never stored again, as a token is stored only by the request that
  is named after it, before it is handed out; a refresh that comes later is not past the
  lookup (`SpentLateInv`). For those a reset has ended, `FoundInv` says that what is
  stored of the sessions before a reset is among those the reset found at its
  UPDATE, which go with its second DELETE (`RevokedInv` for the refreshes after it).
* **Progress.** `StatementsLeft` is how many statements a handler may still execute. Each
  action lowers it, only an arrival or a crash changes it besides, and no request starts with
  more than five. So `EveryRequestAnswered` is a matter of the scheduler alone.
* **What was written stays.** `EffectInv` is about VerifyEmail, ResetPassword, ConfirmTwoFA
  and DisableTwoFA alike. What such a handler wrote is in the row, and in every copy of
  the row taken by a handler that came in later, as long as it is undisturbed
  (`Undisturbed`): nobody who writes the row overlapped it, and nobody after it undid
  it (`Undoes`: a reset after a reset, a switch of 2FA the other way). The copies must
  be part of it, as an UPDATE writes a copy back whole. `LoginInv` carries Login's
  comparison of the password, and its look at the flag, from the lookup to the answer.
* **Sign-ins.** `SignInInv` says that only a refresh is at the statements of Refresh, that
  a sign-in is named by its first request, and that it holds one session. It needs
  `Inv` and `RotationInv`, which are carried over from `Server`: the history is hidden
  by every action (`HistoryHidden`). A step either brings nobody to the INSERT of
  a session (`Quiet`, which maps to `End` or a stutter) or brings one request there:
  a login or registration maps to `Begin`, a refresh whose DELETE has hit its token to
  `Rotate`. Storing the token is a stutter, as it counted before.
* **The limiter.** Its `TypeOK` suffices: each step is compared with a step of
  `FixedWindow` under the mapping that forgets past entries and caps the count at the
  quota, so the clean-up and a refused request stutter or refuse.
* **What the limiter admits.** `HistoryInv` bounds each running total by what is used of the
  open window, plus the window before it less its first request: two windows can
  overlap a window's time, and the older one was opened before it. A total that reaches
  back to the opening of the window is at least what is used of it, which gives a
  refusal its reason. What reaches the open handlers is what the limiter admits
  (`HandledIsAdmitted`), so `OpenHandlersBounded` is the bound at a window's time.
* **Temporary tokens at the routes.** `PendingClaims` reads off the claims that the ids of a
  temporary token are zero and its role is empty; `PendingAnswers` follows each handler
  behind the middleware from there: a lookup that finds nobody is never answered with
  success.
* **The handshake.** `OAuthInv` adds to `TypeOK` that cookies, and the copies sent along,
  are in the browser their handshake was started in (`CookiesAtHome`), that a callback
  is past the comparison only with a matching cookie (`AcceptedMatch`), that a state which
  has left its browser has a fate, and that an answered one stays away (`FatesTold`),
  and that a code is taken for one callback (`CodesOnce`). The theorems follow from it.
  `AddressWins` adds what was chosen from the list: the loop takes the first address
  that is primary and verified, for a list of any length; that there is a first one is
  the well-foundedness of `<` (`WellFoundedInduction`).
* **The life of the process.** `LifeInv` ties the database, `stopping`, the context and the
  goroutines to the statement `main` is at: the database is open from Connect to the
  deferred Close, the connections are drained once Shutdown has succeeded
  (`Drained`), and a clean exit comes after that. The deferred calls run last first, so
  the context of the clean-up job is cancelled before the database is closed.

* **The loop of `slugify`.** `LoopInv` says that the text is what is to be written for
  the positions read so far, each at its place, that the flag tells whether the last
  thing written is a dash, and that dashes stand apart. The positions written are those
  that reach the slug, and a gap at the end of the name; as dashes stand apart,
  trimming takes the one dash of that gap. As the loop is a state machine, the induction
  over the name is that of the invariant.

Model-checked only: the liveness properties `EveryRequestAnswered`,
`ExpiredSessionsCleaned`, `PastVisitorsForgotten` and `SignalEndsProcess`, which need
fairness and ENABLED, out of the prover's reach.

## Abstractions

* A statement that fails has had no effect. (One that fails after committing is not
  distinguished; its effect is that of the statement followed by a cut.)
* The last statement of a handler and its answer are one step.
* Access tokens and temporary tokens do not expire in the model, except that a
  completion of a login may always be refused; more behaviours, not fewer, as a
  refusal changes nothing.
* Requests that validation or middleware refuse change nothing and do not appear.
* `sendVerificationEmail` and the reset mail deliver their links or lose them; a
  link that is stored may be presented at once.
* Names and avatars are left out, as no property depends on them; roles appear in
  `Routes`, slugs in `Slug`. That two slugs collide in spite of their suffix is one of
  the failures of a sign-up.
* The limiter and the routes are not composed with the handlers' statements: the limiter
  decides before a handler runs and shares no state with it. `Routes` treats a handler
  as one step, `Server` admits every request.
* The bound `MaxRequests` of the limiter stops the count of a window; the model then
  lets time pass first.
* The clock of the limiter advances in ticks. A window that is a whole number of ticks
  and requests at whole ticks include the request exactly at `resetAt`.
* `OAuthHandshake` names a state and a code by their handshake; the provider honours a
  code once, which OAuth demands of it (RFC 6749, section 4.1.2).

## Not modelled

* The e-mail service is output whose error its callers log and ignore.
* Configuration is read once; that a missing variable ends the process is in
  `Lifecycle`. Response models carry no logic.
* The generated Prisma client is a layer over an engine outside the repository; what a
  DELETE reports is the constant `DeleteMissingFails`, and the rest of a statement is in `Store`.
* Signatures and expiry of JWTs, bcrypt and TOTP arithmetic are the libraries'. What
  they let the program conclude is in `AuthService` and `Routes`.
* The headers of CORS; only that a preflight goes no further is in `Routes`.

## Plan

Done: the server with its faults, the sessions and their refinement, the limiter and
its refinement, the routes, the handshake, the life cycle, slugs, and a theorem for
every safety property. Left, in this order:

1. `VerifiedUnlessOverlapped` is a theorem that no run checks; a run of `OrderSpec` with
   register, verify and 2fa/setup would show its bounds at work.
2. `Lifecycle` and `Server` are joined by `Crash` alone; a composition would show that the
   requests a clean exit has answered are those `Server` would have answered.
3. ForgotPassword's answer for an address whose link could not be stored, if the
   sentence of line 218 is kept: no property covers it, as the comparison is of two
   behaviours.
