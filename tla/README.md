# AI Phone Interpreter: TLA+ models, model checking and proofs

The repository is an interpreter for phone calls in an early phase. What runs
today is an API gateway (FastAPI, `src/backend/api_gateway`), a message broker
library over Redis Streams (`src/backend/shared/messaging`), and a Flutter app
(`src/mobile`) that checks whether it reaches the gateway and logs users in with
a one-time password sent to their phone. The speech services are stubs with a
constant `GET /health`.

This directory models what runs: five state machines (`AuthService`,
`RequestPipeline`, `StreamBroker`, `MobileAuth`, `Connectivity`), one that composes
app, gateway and Redis (`LoginJourney`), a pure module (`PhoneNumber`), three abstract
specifications that say what three of them promise (`AuthLedger`, `WorkQueue`,
`LoginPromise`), the
TLC runs that check them, and TLAPS proofs. `PROJECT.json` maps every definition to the lines
it models, and lists the runs, the hazards of the code and the theorems.

    tlc -config AuthSafety.cfg MCAuthService.tla     # a run, by its cfg
    tlapm AuthServiceProofs.tla                      # the proofs of a module

## 1. Inventory

Paths are below `src/`. "gateway" is `backend/api_gateway/app`, "app" is
`mobile/lib`.

### Phone login of the gateway
*Code*: `gateway/api/v1/auth/routes.py`, `gateway/services/auth_service.py`,
`gateway/services/otp_store.py`, `gateway/services/otp_provider.py`,
`gateway/repositories/user_repository.py`, `gateway/core/database.py`.

- *State*: Redis keys `otp:<phone>` with 300 s to live; table `users` in
  PostgreSQL with a unique `phone_number`; a pool of 5 + 10 connections; what
  each coroutine holds between two awaits.
- *Operations*: `POST /auth/otp/request` (generate, `SET`, deliver),
  `POST /auth/otp/verify` (`GET`, compare, `DEL`, `SELECT`, `INSERT`, token,
  `COMMIT`, answer).
- *Interactions*: Redis, PostgreSQL, an OTP provider, the app.
- *Hard*: two calls of one phone interleave at every await; `GET` and `DEL` are
  two commands, `SELECT` and `INSERT` two statements; delivery can fail after the
  `SET`, the process can die anywhere, a command can be applied and its answer lost.
- *Correct when*: only the live password of a phone lets a call in, and that
  password is consumed before anything comes of it; a phone has one account, for
  ever; a token names a committed account.

### Requests: schemas, tokens, errors, logging
*Code*: `gateway/main.py`, `gateway/core/logging_middleware.py`,
`gateway/api/v1/auth/dependencies.py`, `gateway/schemas/auth.py`,
`gateway/core/security.py`, `gateway/core/exceptions.py`,
`gateway/core/exception_handlers.py`, `get_db_session` of `gateway/core/database.py`.

- *State*: the session of a request and the connection it holds, the exception on
  its way up, the answer, what was logged; `Settings.environment`.
- *Operations*: the middleware before and after, the dependencies of the route
  (bearer token, session, OTP provider), the validation of the body and the
  normalisation of the phone number, the handler (also `GET /auth/me`), rollback and
  close, the two inner exception handlers and the catch-all.
- *Hard*: the order of the layers is FastAPI's and Starlette's and written down
  nowhere in the code; `rollback` can raise in place of what it handles; the route
  commits a session that a dependency opened; the catch-all runs outside the
  middleware; requests share a pool.
- *Correct when*: the answer says why the request failed, since the app drops its
  token on a 401; nothing is left open when it leaves; every way to write a number
  in the digits 0 to 9 leads to one key; every request that started is accounted for
  in the logs.

### Login end to end
*Code*: the two login screens (`phone_entry_screen.dart`, `otp_verify_screen.dart`),
`auth_repository_impl.dart`, the timeouts of `dio_provider.dart`, the gateway's two
handlers, the `redis` service of `docker/docker-compose.yml`.

- *Hard*: the app gives up after Dio's timeouts while the gateway goes on, saves,
  consumes and sends; Redis keeps snapshots only and may come back older than it was.
- *Correct when*: who is home has the account of the own number; a right code is
  refused for a reason only; nothing that happens locks a number out.

### Message broker
*Code*: `backend/shared/messaging/broker.py`, `redis_broker.py`.

- *State*: a stream, the last-delivered id of a consumer group, its pending
  entries by consumer name; in each consumer the rest of its last batch.
- *Operations*: `connect`, `publish` (`XADD`), `consume` (`XGROUP CREATE`, then
  `XREADGROUP ">"` for ever, yielding entry after entry), `acknowledge` (`XACK`),
  `disconnect`.
- *Hard*: a batch is yielded over many awaits of the caller; the process can stop
  or a call can fail between any two of them; several consumers share a group.
- *Correct when*: no entry is processed twice or out of order within a consumer,
  none disappears from both the stream and the pending list, and, as its docstring
  says, what a crashed consumer held is processed by another.

### Login of the app
*Code*: `app/features/auth`, `app/core/di/dio_provider.dart`,
`app/core/router/app_router.dart`.

- *State*: the token in secure storage, `AuthNotifier.state`, the location of the
  router, the stack of screens, each with its own `_isSubmitting`.
- *Operations*: the startup check (`build` → `getCurrentUser`), `requestOtp`,
  `verifyOtp`, `logout`, and the router's `redirect` at each change.
- *Hard*: all of them are coroutines on one isolate that overlap at each await;
  Riverpod does not cancel `build()` when the state is set meanwhile; the token a
  401 speaks of may not be the one that is stored when the 401 arrives; secure
  storage can raise; the app can be killed at any time.
- *Correct when*: the user that is shown owns the stored token, a good token is
  not dropped, the guard shows `/home` exactly to who is logged in, and no spinner
  stays.

### Connectivity check, `GET /health`, gateway start-up
*Code*: `app/core/router/connectivity_check_screen.dart`,
`app/core/di/connectivity_check_provider.dart`, `app/services/health_check_service.dart`,
`gateway/api/health.py`, `gateway/core/redis.py`, `gateway/core/database.py`,
`gateway/main.py`, `docker/docker-compose.yml`.

- *State*: the notifier's state and the call it awaits; the gateway process; how
  far a call of `/health` has come and what it has found out.
- *Operations*: `build`, `retry`, the two probes, the lifespan, restart by Docker.
- *Hard*: the probes look at different times; `PING`, and `SELECT 1` on a connection of
  the pool, have no timeout; the interceptor can lose a request; an answer may
  come after the app gave up on it; the gateway may restart while Redis is away.
- *Correct when*: "Connected" and 503 are honest, each check that is sent ends, the gateway
  comes back.
- A comment in `gateway/api/health.py:41` speaks of a docker-compose health check of
  the gateway; `docker-compose.yml` defines none, so nothing restarts a gateway
  that only answers 503, and the model has no such step.

### Not modelled
| part | why |
|---|---|
| settings other than `environment`, format of log lines | constants, wording |
| audio, speech, language, translation, tts, conversation services | a constant `GET /health` each |
| shared schemas (`backend/shared/schemas`) | records no service uses yet; their one operation, `get_listener_language`, is a pure lookup |
| migration (`migrations/env.py`, revision 0001), tables of later phases | run by hand, once, before the gateway is used; of the tables only `users` is used by code, through its unique index |
| theme, entities, failure types of the app | layout and immutable values |
| JWT encoding, length checks of `otp` and `display_name` | the jwt library's and Pydantic's |

## 2. Modules

    AuthLedger     <-- refined by --  AuthService  <-- MCAuthService,  AuthServiceProofs
    WorkQueue      <-- refined by --  StreamBroker <-- MCStreamBroker, StreamBrokerProofs
    LoginPromise   <-- refined by --  LoginJourney
    AuthService    <-- extended by -- LoginJourney <-- MCLoginJourney, LoginJourneyProofs
    PhoneNumber    <-- extended by -- RequestPipeline <-- MCRequestPipeline, RequestPipelineProofs
    PhoneNumber    <-- PhoneNumberProofs (used by RequestPipelineProofs)
                                      MobileAuth   <-- MCMobileAuth,   MobileAuthProofs
                                      Connectivity <-- MCConnectivity, ConnectivityProofs

The `MC` modules name the values and symmetries of the runs, the `Proofs` modules
hold theorems only. In each module a few operators are marked *Slip*: a
plausible mistake in the operator they stand before (`SkipDelete` before
`DeleteOtp`, `RecreateGroup` before `CreateGroup`). No action uses them. They
document what each property is there to catch: put in place of the operator,
TLC finds the property violated (`PROJECT.json`, "mutants").

### AuthService
One process per call; a step is what happens up to and including the next command
to Redis or PostgreSQL, which is atomic.

| code | definition |
|---|---|
| `request_otp`, `generate_otp` | `StartRequest`, any code, an earlier one too |
| `OTPStore.save`, `send_otp`, either raising | `SaveOtp`, `SendOtp`, `SaveFails`, `SendFails` |
| time to live | `Expire` |
| `verify_and_consume`: `GET` and comparison, then `DEL` | `GetOtp`, `DeleteOtp` (`Matches`, `Delete`) |
| `get_by_phone_number`, the missing `display_name` | `FindUser` |
| `repository.add` with its `flush` | `InsertUser` (`RowIsFree`) |
| `session.commit` | `Commit` (`Persist`) |
| the handler over, or raising inside a transaction | `End`, `Abort` |
| `get_db_session`: `rollback()`; then closing, and the answer leaves | `Rollback`, `Respond` (`InTransaction`, `HoldsRow`) |
| Redis raising, applied or not | `RedisFails` |
| no connection; a statement or COMMIT raising; the rollback raising | `DbFails` (`PoolFails`, `StatementFails`, `RollbackFails`) |
| the process dies | `Crash` |

A password is identified by the request that issued it and not by its digits, so
that "the same password" and "the same six digits" are different things;
`Matches` compares the digits, as the code does. An account is named by the
call that inserted it. `consumed` is a history: passwords taken by the `DEL` of
a call they let in. PostgreSQL is READ COMMITTED: `FindUser` sees committed rows,
and `InsertUser` waits for an uncommitted row of the phone.

What a handler returns or raises is its `outcome`; the answer (`reply`) leaves after
`get_db_session` is done, which for an exception inside a transaction means another
await, with the connection and perhaps a row still held. Meanwhile other calls go on:
a call that has found `display_name` missing may be overtaken by a registration of
its phone that is answered first. `NoReregistration` is about the finding, therefore,
and not about the moment the 422 leaves.

`AuthLedger` is the promise without handlers: publish, lapse, prove, spend, open,
grant. The refinement maps `live <- store`, `spent <- consumed`,
`proof <- checked`; a password's owner is its phone once the `SET` has happened,
a session is granted its account with the answer.

### PhoneNumber and RequestPipeline
`PhoneNumber` is `_normalize_india_phone` on sequences of characters: `0..9`, the
decimal digits of other scripts (Python's `\d` matches them), and anything else.
The length of a national number is a constant, 10 in the code. `MobileNumber` and
`Spells` are the reference: the numbers of the plan, in the digits 0 to 9, and which
texts write one. A text with digits of another script writes none (section 4), and
`Plain` tells it apart.

`RequestPipeline` follows a request through the layers, in their order:

| code | definition |
|---|---|
| `RequestLoggingMiddleware` before and after `call_next` | `Arrive`, `Middleware` |
| `get_current_user_id`, `get_auth_service`, `get_otp_provider` | `Solve` (`Authenticate`, `WireService`, `HasProvider`) |
| `validate_phone` of both schemas | `Validate` (`Accepted`) |
| the handlers up to Redis, the first statement, the query, `db.commit()` | `UseRedis`, `Connect`, `Query` (`FindById`, `FindOrAdd`), `Commit` |
| anything of these raising | `HandlerFails` |
| `get_db_session` after `yield`; its `rollback` raising | `Unwind` (`Rollback`, `Close`), `RollbackFails` |
| handlers of `AppException` and `RequestValidationError` | `Inner` (`Handled`, `ErrorCode`) |
| the handler of `Exception` | `CatchAll` |

What the handlers do to passwords and accounts is `AuthService`'s; here a handler is
its outcomes. One of `FindOrAdd`'s is the `IntegrityError` of a registration that
another one overtook, a 500 with nothing broken; which call and when is for
`AuthService!InsertUser` to say. A text with a lone surrogate (or a NaN in its place)
is `Unencodable`: Pydantic refuses it, and the handler of that refusal, which repeats
the input, then fails itself when the answer is encoded. The order of the layers is FastAPI's and Starlette's:
dependencies are solved before the body is validated, those that yield end
before the answer leaves, handlers of named exceptions sit below the middleware and
that of `Exception` above it.

### LoginJourney
`AuthService` with its clients. For each phone the screen (phone, asking, code,
checking, home), the call made last, the failure shown and the stored token. The
calls of the gateway are made by the apps alone (`Ask`, `Verify`). `GiveUp` is Dio's
timeout: the app shows a failure, the call goes on in the gateway. `SaveSnapshot` and
`RestartRedis` are Redis's, `KeyExpires` takes the key out of the snapshot too.
The user goes on (`Persists`): asks, types the code of the last message with a
name, and goes back for a new one when it is refused; mistakes (`Slips`) are
faults. `excused` is a history: the phones whose app gave up on a call, or whose key
was lost, from then on, since a call that was given up may have its effect at any later
time. Secure storage works here; where it fails is `MobileAuth`. The user waits for each answer; those who tap on are in `MobileAuth`.

`LoginPromise` is what is left of `AuthLedger` when Redis may go back in time, and
what users get out of it: publish, prove, spend, open, grant, enter. It has no live
passwords, since a spent one may come back and be proved again. The refinement maps
`spent <- consumed`, `proof <- checked`, `granted` to the account of a session that was
answered with a token, and `home <- token`, the account the app of a phone is in. That
a session enters only the home of its own phone, by an account its own phone's spent
password opened, is what the three parts only promise together.

### StreamBroker
Entries are 1, 2, 3...; `delivered`, `pel` are the group's. A consumer is "down",
"connected", "reading" (in `XREADGROUP`), "yielding" or "handling" (suspended at
`yield`).

| code | definition |
|---|---|
| `publish` | `Publish` |
| `connect` | `Connect` |
| `XGROUP CREATE id="0" MKSTREAM`, `BUSYGROUP` ignored | `CreateGroup` (`StartPosition`) |
| `XREADGROUP ">" COUNT 10 BLOCK 5000` | `Read`, `TimeOut` (`Deliver`) |
| `for entry in ...: yield` | `Yield` (`IsNext`) |
| `acknowledge`, next iteration | `Acknowledge` (`Ack`, `Resume`) |
| a call raising, applied or not; the caller's own failure | `ReadFails`, `AckFails`, `HandlerFails` |
| `disconnect`, a crash | `Stop` |

No service consumes yet, so the loop around `consume()` is taken from the contract
in `broker.py` and is marked external. `WorkQueue` is an **at-most-once** queue,
with `Lose` and `Drop`: it is what the code gives (see finding 2).

### MobileAuth
`storage`, `auth`, `loc` and the stack `codes` of code screens, each awaiting a
call or none; `spc`, `apc`, `lpc` say where the startup check, the `verifyOtp`
calls and the logouts are. Writes to secure storage take effect in the order they
were asked for; what follows them is another step.

| code | definition |
|---|---|
| `redirect` of `appRouterProvider` | `Redirect`, `SetAuth`, `Unmount` |
| `readToken`; the interceptor; the answer; after `clearToken` | `ReadToken`, `AttachToken`, `MeReplies` (`Rejected`), `AfterClear` |
| `_submit` of the phone screen, its answer, back | `RequestOtp`, `RequestReplies`, `GoBack` |
| `_submit` of the code screen | `SubmitCode` |
| `AuthRepositoryImpl.verifyOtp`, then `AuthNotifier.verifyOtp` | `VerifyReplies` (`Save`, `Settle`), `ApplyLogin` |
| `logout` up to `clearToken`, and after it | `Logout`, `ApplyLogout` |
| `/auth/me`, expiry | `MeAnswers`, `ExpireToken` |
| the app is killed and opened | `Restart` |

`Patient` is an assumption about the user, not the code: with it, the user waits
for each call before the next tap. Nothing in the code makes users wait except
`_isSubmitting`, which the keyboard's done key and the back button get around.
When the router provider is rebuilt the app may land at its initial location;
`SetAuth` takes both outcomes, and `Unmount` both fates of a screen's state. The
`_isSubmitting` of the phone screen, which waits for `requestOtp` alone, is not a variable.

### Connectivity
The app's notifier, `/health` as two probes in the order of the code (PostgreSQL,
then Redis), the gateway's lifespan (Redis only) and Docker's restarts, under
outages. `during` is a history of what was so while a call was under way.

A dependency is up, down or silent: it neither answers nor refuses. A new
connection to PostgreSQL has five seconds (`Connect`); `SELECT 1` and the pre-ping on a
connection of the pool have no limit (`Query`), and neither has `PING` (`CheckRedis`), so a
call that meets silence waits for it to end. A call of the app starts in the interceptor of
`dioProvider` (`AttachToken`): if the read of the token raises (`StorageFails`) the
request is `lost` and no timeout of Dio ever runs for it (`TimersRun`). Which connections of
the pool other routes use is left out, and so is time: a timeout may fire at any moment.

## 3. Runs

| run | bounds | shows |
|---|---|---|
| `AuthSafety` | 2 phones, 2 codes, 2 requests, 2 verify calls, pool of 2 | tokens name committed accounts, accounts have provenance and are stable, consumed passwords stay gone, the gateway implements `AuthLedger` |
| `AuthProgress` | 1 phone, 3 verify calls, pool of 2 | one call can wait for a row while it holds a connection and another for a connection; behind each wait is a call that waits for nothing; each is answered or dies with the process |
| `OtpReplay` (violated) | 1 phone, 2 verify calls | finding 1 |
| `Broker` | 2 consumers, batches of 2, 4 entries, 2 stops, 2 failures | nothing is yielded twice or out of order or lost from the books; what a consumer lost hold of stays pending and comes to nobody again; the broker implements `WorkQueue`; every entry is handed out (it is acknowledged or pending under some name), and processed unless something fails |
| `BrokerAtLeastOnce` (violated) | 2 entries, 1 stop | finding 2 |
| `MobilePatient` | 3 tokens, 2 users, 2 attempts, storage fails, 2 restarts | the user shown owns the stored token; a good token is dropped by a logout only |
| `MobileImpatient` | the same, 2 requests at once, 1 restart, storage works | the guard holds, every spinner has a call behind it, none stays |
| `MobileStaleReject` (violated) | as `MobileImpatient`, with 1 request | finding 3 |
| `MobileLateCheck` (violated) | as `MobileImpatient`, with 1 request and 1 attempt | finding 4 |
| `Connectivity` | 2 checks, 3 outages or recoveries, 1 crash, storage fails | "Connected" and 503 are honest, a check ends unless its request was lost in the interceptor, the gateway comes back |
| `LoginJourney` | 1 phone, 2 codes, 2 faults, 7 requests and 5 verify calls | who is home has the own account; a right code is refused for a reason only; the whole implements `LoginPromise`; whoever goes on gets in |
| `RequestPipeline` | 2 requests, 1 connection, 2 faults; numbers of 2 digits, any text of up to 4 characters and some longer | answers name their cause, end their transaction, are logged and always come; connections come back; one key a number |

**Why the bounds are enough.** The races are between two: two verify calls, a
verify call and a request, two consumers, a startup check and one user action. Two
of each produce them; two phones show that nothing leaks from one to another (the
two codes may coincide across phones), and a third verify call is there so that
one call waits for a connection and one for a row at the same time. Batches of two
with four entries give a consumer a full batch, a rest of a batch, and a second
batch after a stop; the code's 10 differs only in how many entries are stranded
at once. Three tokens are the one before a restart, the one of an overlapping login
and a later one. Two checks are what an answer and a retry need to be confused.
In `LoginJourney` the calls never run out: each fault costs a call, and a call that was
given up may save its password later and so have the next code refused, which
costs two; with two faults six requests are too few and seven suffice (with six,
`UserGetsIn` fails because the model has no call left). A third fault brings
nothing that two do not: one to leave a call behind in the gateway, one to fail or
restart under it. In `RequestPipeline` two digits are the fewest for which a number can
itself be the country code, 91, and a text of four characters is a number with its
country code. The theorems of section 5 do not depend on any of these.

`LoginJourney` and `RequestPipeline` turn the deadlock check off: they stop when everyone
is home, or every request is answered. `Connectivity` turns it off as well: when both checks have been made and
the outages are used up the model stops, as the app does when nobody taps Try Again.
The bounds `MaxEntries`, `MaxStops`, `MaxErrors`, `MaxAsked`, `MaxRestarts`,
`MaxChanges`, `MaxCrashes`, `MaxFaults` are constants in the guards of the actions they limit.

### Fairness
- `AuthService!FairSpec`: weak fairness of each request's and each verify call's
  steps. asyncio runs every ready coroutine, and the drivers wake those waiting. No
  failure, crash, expiry or new call is forced. A call waiting for a connection
  or a row is not enabled meanwhile: `EveryCallEnds` is about whether the wait ends.
- `LoginJourney!FairJourney`: the gateway's steps as above; an answer reaches the app
  (`AppStep`); and an assumption about the user, not the code: that the user goes on
  (`Persists`). Expiry and snapshots are not fair, so `UserGetsIn` holds without
  waiting for a key to expire. A call that waits for ever in the gateway cannot keep the
  user out only because it does not exist: `EveryCallEnds`.
- `RequestPipeline!FairSpec`: each request that can go on does; waiting for a
  connection is not enabled while the pool is empty.
- `StreamBroker!FairSpec`: weak fairness of each consumer's steps: containers
  restart (`restart: unless-stopped`), the loop over `consume()` goes on.
- `MobileAuth!FairSpec`: every await completes: Dio has timeouts (10 s to connect, 15 s
  to receive), secure storage answers. Used with `StorageFails = FALSE` only: if the
  read in the interceptor raises, `handler.next` is not called and the request
  hangs.
- `Connectivity!FairSpec`: Docker restarts the container, the event loop runs, Dio's
  timers fire where they have been started. No fairness of Retry (users), Change or
  Crash, so a silence may last for ever.

## 4. Findings

1. **A password can log in twice** (`OtpReplay`). `verify_and_consume` promises
   that a correct password is deleted immediately and "single-use"
   (`gateway/services/otp_store.py:31`), but `GET` (36) and `DEL` (39) are two
   commands and the result of `DEL` is ignored. Two calls that both read before
   either deletes are both let in. What does hold, and is proved: a call is let in
   only by a password that is live at its `GET` and gone after its `DEL`.
2. **Entries of a stopped consumer are stranded** (`BrokerAtLeastOnce`).
   `broker.py:60` and `redis_broker.py:10` promise that they are reclaimed, "at-least-once";
   `consume` reads only `">"` and nothing reads the pending list. What holds:
   `ImplementsWorkQueue`, at most once.
3. **A late 401 drops a newer token** (`MobileStaleReject`).
   `auth_repository_impl.dart:75` clears whatever is stored, on a 401 that the
   comment at 71 takes to be about it. In the trace the user logs out while the startup
   check is under way, which sends it out with no token, and logs in again; the
   401 then clears the new token.
4. **A late 200 undoes a logout on the screen** (`MobileLateCheck`). `build()` still
   waits for `/auth/me` when `logout()` sets the state; the answer makes the notifier
   show a user with no token stored.

Seen while modelling, with no run of their own: two overlapping `verifyOtp` calls, for
which a user goes back and submits again, can leave the user of one and the token of
the other (`AuthMatchesStorage` is checked for users who wait); nothing raises
`ServiceUnavailableError`, so outages of Redis or PostgreSQL answer 500, where
`gateway/core/exceptions.py:69` has a 503 for them, "distinct from a 500"
(`FailureNamesCause` would accept either); `\d` matches the decimal digits of every
script, so a text with digits of another one after the first is accepted and kept as a key
of its own, apart from that of the number a reader sees in it, though
`schemas/auth.py:17` and `:27` speak of numbers of India's plan; the 500 of the catch-all carries no
`X-Request-ID`; unknown routes answer Starlette's `{"detail"}` and not the shape
`exceptions.py:13` describes; `name_required` comes after the code was consumed, so the
same code with a name is refused (`RefusalIsExplained` counts it as explained);
Redis going back to a snapshot can bring a consumed code back, so `ConsumedIsGone`
is a property of `AuthService` alone; `_INDIA_PHONE_PATTERN` (`schemas/auth.py:19`) is not
used; in production every login answers 500, for want of an OTP provider.

## 5. Proofs

All for every value of the constants, from the assumptions named in the
modules (`NoneAssumption`, `PoolAssumption`, `BoundsAssumption`,
`MobileAssumption`, `ConnectivityAssumption`, `FaultsAssumption`, `LengthAssumption`,
`CharAssumption`, `NoNumberAssumption`, `PipelineAssumption`), which say that `None` is not one of
the other values, that bounds are natural numbers, that a token has an owner, and what digits are.
Each module has the same argument: an invariant `IInv` is shown to hold at first
and to be kept by each action, a lemma for each group of actions; safety
follows from it, action properties from it and one step.

- **AuthServiceProofs**. The properties are not inductive. `ConsumedIsGone` needs
  that a key only ever holds a password whose `SET` is past (`StoreHoldsSaved`)
  and that what was checked or consumed was saved (`CheckedWasSaved`,
  `ConsumedWasSaved`): each request saves once, so a consumed password does not come
  back. `TokenNamesCommittedUser` and `AccountsAreStable` need that at most one call
  of a phone has an uncommitted row and none where the account exists
  (`OneUncommittedRow`), and that a call at `COMMIT` holds a user who is its own
  row or the committed one (`CommitHoldsUser`). `GatewayImplementsLedger` shows that
  each action is a step of `AuthLedger` or a stutter: `SaveOtp` publishes, `GetOtp`
  proves, `DeleteOtp` spends, `Commit` opens, `Respond` grants. `ConsumedIsGone` is kept
  apart from `IInv`, so that `IInv` survives Redis going back (below).
  `WaitingIsNotCircular` shows that the gateway cannot deadlock on its two kinds of
  wait: by `IInv` a call that waits for a row waits for one registration, at its
  `COMMIT`, of a phone with no account (`RowsHaveOneHolder`), and of the holders of a
  full pool one is such a registration or can insert (`WaitsEndSoon`).
- **LoginJourneyProofs**. Every step of `LoginJourney` is one of `AuthService`, or none of
  its business, or Redis going back to a snapshot, which keeps `IInv` because a snapshot
  only holds passwords saved for their phone (`SnapshotHoldsSaved`). So `IInv` holds in the
  composition and `HomesAreOwnAccounts` follows, since accounts stay. For
  `RefusalsAreExplained` the invariant follows a code on its way: a phone that is not
  excused has no call but the one its app waits for (`NoStrayRequest`,
  `NoStrayVerify`), so what was asked for is stored (`AskedIsStored`), what was
  received is stored or consumed (`CodeIsStored`), and nothing comes between a check
  and its `DEL` (`CheckIsFair`). `JourneyKeepsPromise` is the refinement of
  `LoginPromise`: the gateway's steps are steps of `AuthLedger` (`StepRefines`, which needs
  that consumed passwords are gone only for the step that proves one), those of them
  that `LoginPromise` knows are its own (`LedgerKeepsPromise`, `GetKeepsPromise`), the
  answer that brings the app a token is `Enter` (`EnterKeepsPromise`), and Redis going
  back is a stutter, because a snapshot is not part of the promise.
- **PhoneNumberProofs**. For digits `d` of any length: `KeysAreNumbers` (kept under the
  key of `n` exactly if `d` is `n`, with the country code or without) and
  `RefusedSpellsNothing` (what is refused spells no number, and what spells none is
  refused if its digits are 0 to 9). That `Digits` yields a sequence of digits is a fact
  about `SelectSeq` that needs induction; `PipelineAssumption` states it of the texts at
  hand, and TLC evaluates it.
- **RequestPipelineProofs**. The invariant says for each layer what error, connection and
  row a request can have there (`Raised`, `Answers`, `Transaction`, `Keyed`, `Logged`);
  the safety properties are read off at the layers where an answer exists. How many
  connections are out is a fact about all requests together: `PoolBound` counts
  `Holders`, which `Connect` alone extends, and only below the size of the pool
  (`ConnectFits`, `OthersTakeNone`). With it `PoolIsNeverDrained`.
- **StreamBrokerProofs**. `IInv` says that what a consumer holds is pending
  under its name and later than all it has yielded, that each entry has one owner,
  and that acknowledged entries are past. From it `NeverYieldedTwice` for
  any number of consumers, restarts and failures, the refinement of `WorkQueue`, and
  `LostIsLostForGood`: only new entries come into a consumer's hands (`HandsOnlyOpen`) and
  only what is in hand is acknowledged, so a pending entry that nobody has
  in hand stays so. It is finding 2 seen from the other side.
- **MobileAuthProofs**. `GuardHolds` for patient and impatient users, failing
  storage or not. It needs that code screens exist only where they are shown
  (`CodesAreShown`) and that a saved call has its token (`SavedHasToken`).
  `PatientAuthMatchesStorage` and `PatientTokenIsKept` assume `Patient` and rest on
  `PatientInv`: the calls come one at a time (`OneAtATime`), the startup check asks
  about the token that is still stored (`CheckIsCurrent`), what a call saved is still
  there when it sets the state (`SavedIsStored`), and the state differs from
  storage only between a write and the state change that follows it
  (`ShownIsStored`). `SpinnersAreFounded` is for every user: pushing and popping screens adds
  no call to the stack (`PushAwaits`, `PopAwaits`), a failed call leaves it with its
  spinner, and a successful one takes the whole stack away. The impatient runs show that `Patient` cannot be dropped.
- **ConnectivityProofs**. `FoundWasSo` ties the results of the probes to the history
  of the call, which is what `ConnectedIsHonest` and `DegradedIsHonest` rest on.

*Model-checked only*: liveness (`EveryCallEnds`, `EveryEntryIsDelivered`,
`SpinnersEnd`, `CheckEnds`, `GatewayComesBack`,
`UserGetsIn`, `EveryRequestIsAnswered`), which is out of the prover's reach. What can
be proved of it is its safe half, that no state is reached in which waiting is hopeless:
`NoCircularWait` and `ConnectionsComeBack` for the calls of the gateway,
`SpinnersHaveCalls` for the app, `DeliveredHasOneOwner` (no entry is skipped) for the broker,
`RefusalIsExplained` for the login. That what is under way comes back is fairness, and TLC's.

## 6. Taken from outside
Redis keeps its data, except in `LoginJourney`, where a restart takes it back to the
last snapshot (compose runs it with a volume and no append-only file); its commands
are atomic; redis-py
raises rather than retries; PostgreSQL enforces the unique index as it does under
READ COMMITTED; `SendOtp` either delivers or raises; Riverpod lets the
result of `build()` replace a state set meanwhile; the router follows a state
change before another coroutine runs; accounts are never deleted; secure storage
does its operations in order. Values of the
clock do not appear: what can time out may do so at any moment. When a
connection breaks, PostgreSQL has undone its transaction by the end of the rollback
that the gateway tries on it.

## 7. Plan
Done: `AuthLedger`, `AuthService`; `WorkQueue`, `StreamBroker`; `MobileAuth`;
`Connectivity`; `PhoneNumber`, `RequestPipeline`; `LoginPromise`, `LoginJourney` with Redis's
snapshots; their runs; every invariant, action property and refinement the passing
runs check as a theorem. Two theorems need no run of their own, since a refinement
that is checked implies them: `AccountsNeverChange` (`AuthLedger` opens an account only
where there is none) and `NeverYieldedTwice` (`WorkQueue` shows an entry only once).

Left:
1. `StreamBroker` over a Redis that goes back to a snapshot: streams, groups and pending
   entries in the past, and which of its promises are left.
2. `get_listener_language` of `CallSession`, and services that consume the streams,
   once one does.
