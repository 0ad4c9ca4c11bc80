-------------------------- MODULE RequestPipeline --------------------------
(***************************************************************************)
(* The life of a request of /api/v1/auth inside the gateway, from layer to *)
(* layer: RequestLoggingMiddleware, the dependencies of the route, the     *)
(* validation of the body, the handler, the end of get_db_session, the     *)
(* handlers of expected exceptions, the middleware again and, outermost,   *)
(* the catch-all handler.  Requests share the connections of the pool.     *)
(* What the handlers do to passwords and accounts is AuthService.  FastAPI *)
(* is external: it solves dependencies before it validates the body, and   *)
(* ends those that yield before the response leaves.                       *)
(***************************************************************************)
EXTENDS PhoneNumber, FiniteSets

CONSTANTS Request,      \* requests
          Body,         \* the phone numbers a request may carry
          Unencodable,  \* characters that JSON can bring and UTF-8 not take back:
                        \* lone surrogates (a NaN in place of a text counts as one)
          PoolSize,     \* connections of the SQLAlchemy pool
          MaxFaults,    \* bound on failures of Redis, PostgreSQL, provider
          None

Route  == {"request_otp", "verify_otp", "get_me"}
Header == {"absent", "garbage", "expired", "orphan", "good"}

\* The error_code of each exception that is expected: the AppException types
\* and Pydantic's.  Conflict, Forbidden and ServiceUnavailable are never raised.
ErrorCode ==
    [NotFoundError |-> "NOT_FOUND", ValidationError |-> "VALIDATION_ERROR",
     ConflictError |-> "CONFLICT", UnauthorizedError |-> "UNAUTHORIZED",
     ForbiddenError |-> "FORBIDDEN",
     ServiceUnavailableError |-> "SERVICE_UNAVAILABLE",
     RequestValidationError |-> "REQUEST_VALIDATION_ERROR"]

Expected == DOMAIN ErrorCode
Refusals == {ErrorCode[e] : e \in Expected}

\* The layers of a request.
PC == {"idle", "solve", "validate", "redis", "connect", "query", "commit",
       "unwind", "inner", "middleware", "catch_all", "done", "dead"}

\* A text without its other characters is a sequence of digits: a fact about
\* SelectSeq, assumed of the texts at hand.
ASSUME PipelineAssumption ==
    /\ PoolSize \in Nat \ {0} /\ MaxFaults \in Nat
    /\ \A q \in Request : \A b \in Body[q] :
          b # None /\ Digits(b) \in Seq(Digit)
    /\ None \notin Expected \cup Refusals \cup {"unexpected", "ok", "INTERNAL_ERROR"}

VARIABLES
    environment,  \* Settings.environment, read once
    pc,           \* the layer a request is in
    route, body, header,   \* what it asks: the phone number, the token
    key,          \* the phone number as its handler sees it
    error,        \* the exception on its way up
    conn,         \* whether its session holds a connection
    row,          \* what became of the row its session inserts
    reply,        \* the error_code answered, or "ok"
    tagged,       \* whether the answer carries X-Request-ID
    log,          \* what was logged about it
    broke,        \* history: something failed under it
    faults

inputs == <<environment, route, body, header>>
vars == <<inputs, pc, key, error, conn, row, reply, tagged, log, broke, faults>>

Text == UNION {Body[q] : q \in Request}

TypeOK ==
    /\ environment \in {"development", "production"}
    /\ pc \in [Request -> PC]
    /\ route \in [Request -> Route \cup {None}]
    /\ body \in [Request -> Text \cup {None}]
    /\ header \in [Request -> Header \cup {None}]
    /\ key \in [Request -> {Normalize(b) : b \in Text} \cup {None}]
    /\ error \in [Request -> Expected \cup {"unexpected", None}]
    /\ conn \in [Request -> BOOLEAN]
    /\ row \in [Request -> {"nothing", "pending", "refused",
                           "committed", "undone"}]
    /\ reply \in [Request -> Refusals \cup {"ok", "INTERNAL_ERROR", None}]
    /\ tagged \in [Request -> BOOLEAN]
    /\ log \in [Request -> SUBSET {"started", "completed", "unhandled"}]
    /\ broke \in [Request -> BOOLEAN]
    /\ faults \in 0..MaxFaults

Init ==
    /\ environment \in {"development", "production"}
    /\ pc = [q \in Request |-> "idle"]
    /\ route = [q \in Request |-> None]
    /\ body = [q \in Request |-> None]
    /\ header = [q \in Request |-> None]
    /\ key = [q \in Request |-> None]
    /\ error = [q \in Request |-> None]
    /\ conn = [q \in Request |-> FALSE]
    /\ row = [q \in Request |-> "nothing"]
    /\ reply = [q \in Request |-> None]
    /\ tagged = [q \in Request |-> FALSE]
    /\ log = [q \in Request |-> {}]
    /\ broke = [q \in Request |-> FALSE]
    /\ faults = 0

Go(q, layer) == pc' = [pc EXCEPT ![q] = layer]

\* An exception leaves a dependency or the handler: get_db_session is next.
Raise(q, e) == error' = [error EXCEPT ![q] = e] /\ Go(q, "unwind")

\* Something outside the gateway fails, and nothing catches what it raises.
Fault(q) ==
    /\ faults < MaxFaults
    /\ faults' = faults + 1
    /\ broke' = [broke EXCEPT ![q] = TRUE]

NoFault == UNCHANGED <<broke, faults>>
NoAnswer == UNCHANGED <<reply, tagged, log>>

----------------------------------------------------------------------------
(* On the way in *)

\* RequestLoggingMiddleware lets the request in.  Only /me reads the header.
Arrive(q, r, b, h) ==
    /\ pc[q] = "idle"
    /\ route' = [route EXCEPT ![q] = r]
    /\ body' = [body EXCEPT ![q] = b]
    /\ header' = [header EXCEPT ![q] = h]
    /\ log' = [log EXCEPT ![q] = {"started"}]
    /\ Go(q, "solve")
    /\ NoFault
    /\ UNCHANGED <<environment, key, error, conn, row, reply, tagged>>

\* The tokens decode_access_token accepts: signed by the gateway, not expired.
Valid(h) == h \in {"orphan", "good"}

is_production == environment = "production"

\* get_otp_provider: the only provider there is must not run in production.
HasProvider == ~is_production

\* get_current_user_id
Authenticate(q) ==
    \/ Valid(header[q]) /\ Go(q, "connect") /\ UNCHANGED error
    \/ ~Valid(header[q]) /\ Raise(q, "UnauthorizedError")

\* get_auth_service
WireService(q) ==
    \/ HasProvider /\ Go(q, "validate") /\ UNCHANGED error
    \/ ~HasProvider /\ Raise(q, "unexpected")

\* The dependencies of the route.  The session they ask for as well takes no
\* connection yet.
Solve(q) ==
    /\ pc[q] = "solve"
    /\ IF route[q] = "get_me" THEN Authenticate(q) ELSE WireService(q)
    /\ NoFault /\ NoAnswer
    /\ UNCHANGED <<inputs, key, conn, row>>

Encodable(b) == \A i \in DOMAIN b : b[i] \notin Unencodable

\* Slip for Accepted: the validator checks the number and returns it as it came.
AcceptedAsTyped(b) ==
    IF ~Encodable(b) \/ Normalize(b) = NoNumber THEN NoNumber ELSE b

\* validate_phone of both schemas, for what Pydantic takes for a str.
Accepted(b) == IF Encodable(b) THEN Normalize(b) ELSE NoNumber

\* The body is validated only after the dependencies are solved.
Validate(q) ==
    LET number == Accepted(body[q]) IN
    /\ pc[q] = "validate"
    /\ \/ /\ number # NoNumber
          /\ key' = [key EXCEPT ![q] = number]
          /\ Go(q, "redis")
          /\ UNCHANGED error
       \/ /\ number = NoNumber
          /\ Raise(q, "RequestValidationError")
          /\ UNCHANGED key
    /\ NoFault /\ NoAnswer
    /\ UNCHANGED <<inputs, conn, row>>

----------------------------------------------------------------------------
(* The handlers *)

\* request_otp saves, sends and returns; verify_and_consume accepts or not.
UseRedis(q) ==
    /\ pc[q] = "redis"
    /\ \/ route[q] = "request_otp" /\ Go(q, "unwind") /\ UNCHANGED error
       \/ route[q] = "verify_otp" /\ Go(q, "connect") /\ UNCHANGED error
       \/ route[q] = "verify_otp" /\ Raise(q, "ValidationError")
    /\ NoFault /\ NoAnswer
    /\ UNCHANGED <<inputs, key, conn, row>>

\* The requests whose session holds a connection of the pool.
Holders == {q \in Request : conn[q]}

\* The first statement of a session takes a connection of the pool.
Connect(q) ==
    /\ pc[q] = "connect"
    /\ Cardinality(Holders) < PoolSize
    /\ conn' = [conn EXCEPT ![q] = TRUE]
    /\ Go(q, "query")
    /\ NoFault /\ NoAnswer
    /\ UNCHANGED <<inputs, key, error, row>>

\* get_by_id of /me.
FindById(q) ==
    /\ \/ header[q] = "good" /\ Go(q, "unwind") /\ UNCHANGED error
       \/ header[q] = "orphan" /\ Raise(q, "NotFoundError")
    /\ UNCHANGED row

\* get_by_phone_number, and add for a new user who gives a name: the flush raises
\* an IntegrityError if another registration of the number was faster (which one,
\* and when, is in AuthService).
FindOrAdd(q) ==
    \/ Go(q, "commit") /\ UNCHANGED <<error, row>>
    \/ /\ row' = [row EXCEPT ![q] = "pending"]
       /\ Go(q, "commit")
       /\ UNCHANGED error
    \/ row' = [row EXCEPT ![q] = "refused"] /\ Raise(q, "unexpected")
    \/ Raise(q, "ValidationError") /\ UNCHANGED row

Query(q) ==
    /\ pc[q] = "query"
    /\ IF route[q] = "get_me" THEN FindById(q) ELSE FindOrAdd(q)
    /\ NoFault /\ NoAnswer
    /\ UNCHANGED <<inputs, key, conn>>

\* The row of q, if it is not settled, becomes what.
Settle(q, what) ==
    row' = [row EXCEPT ![q] = IF @ = "pending" THEN what ELSE @]

\* Slip for CommitSession: the route commits a session of its own, as it would
\* if the two Depends(get_db_session) of a request were not one.
CommitOtherSession(q) == UNCHANGED row

CommitSession(q) == Settle(q, "committed")

\* db.commit() gives the connection back; the answer is made after it.
Commit(q) ==
    /\ pc[q] = "commit"
    /\ CommitSession(q)
    /\ conn' = [conn EXCEPT ![q] = FALSE]
    /\ Go(q, "unwind")
    /\ NoFault /\ NoAnswer
    /\ UNCHANGED <<inputs, key, error>>

\* Redis, the provider, the pool or PostgreSQL fails: nothing maps what they
\* raise to ServiceUnavailableError.  A COMMIT that fails may have been applied.
HandlerFails(q) ==
    /\ pc[q] \in {"redis", "connect", "query", "commit"}
    /\ Fault(q)
    /\ Raise(q, "unexpected")
    /\ \/ UNCHANGED row
       \/ pc[q] = "commit" /\ CommitSession(q)
    /\ NoAnswer
    /\ UNCHANGED <<inputs, key, conn>>

----------------------------------------------------------------------------
(* On the way out *)

Rollback(q) == IF error[q] = None THEN UNCHANGED row ELSE Settle(q, "undone")

\* Slip for Close: a session that saw an exception keeps its connection.
CloseUnlessRaised(q) == conn' = [conn EXCEPT ![q] = @ /\ error[q] # None]

Close(q) == conn' = [conn EXCEPT ![q] = FALSE]

\* The rest of get_db_session, before the answer leaves.
Unwind(q) ==
    /\ pc[q] = "unwind"
    /\ Rollback(q)
    /\ Close(q)
    /\ Go(q, "inner")
    /\ NoFault /\ NoAnswer
    /\ UNCHANGED <<inputs, key, error>>

\* The rollback raises, on a connection that broke: its exception replaces the
\* one that was on its way, and PostgreSQL undoes the transaction itself.
RollbackFails(q) ==
    /\ pc[q] = "unwind" /\ error[q] # None /\ conn[q]
    /\ Fault(q)
    /\ error' = [error EXCEPT ![q] = "unexpected"]
    /\ Settle(q, "undone")
    /\ Close(q)
    /\ Go(q, "inner")
    /\ NoAnswer
    /\ UNCHANGED <<inputs, key>>

\* Slip for Handled: the handler of RequestValidationError passes exc.errors()
\* to JSONResponse as it is, which cannot serialise a ValueError.
HandledByPlainJson(q) == error[q] \in Expected \ {"RequestValidationError"}

\* The exceptions that a handler below the middleware turns into an answer.  The
\* one of RequestValidationError repeats the input that was refused, and
\* JSONResponse raises when it cannot be encoded.
Handled(q) ==
    /\ error[q] \in Expected
    /\ error[q] = "RequestValidationError" => Encodable(body[q])

\* Starlette looks for the handler of an expected exception below the
\* middleware, and for that of Exception above it; what a handler raises itself
\* is not expected.
Inner(q) ==
    /\ pc[q] = "inner"
    /\ \/ /\ error[q] = None
          /\ reply' = [reply EXCEPT ![q] = "ok"]
          /\ Go(q, "middleware")
          /\ UNCHANGED error
       \/ /\ Handled(q)
          /\ reply' = [reply EXCEPT ![q] = ErrorCode[error[q]]]
          /\ Go(q, "middleware")
          /\ UNCHANGED error
       \/ /\ error[q] # None /\ ~Handled(q)
          /\ error' = [error EXCEPT ![q] = "unexpected"]
          /\ Go(q, "catch_all")
          /\ UNCHANGED reply
    /\ NoFault
    /\ UNCHANGED <<inputs, key, conn, row, tagged, log>>

\* The rest of RequestLoggingMiddleware.dispatch, if no exception passed it.
Middleware(q) ==
    /\ pc[q] = "middleware"
    /\ tagged' = [tagged EXCEPT ![q] = TRUE]
    /\ log' = [log EXCEPT ![q] = @ \cup {"completed"}]
    /\ Go(q, "done")
    /\ NoFault
    /\ UNCHANGED <<inputs, key, error, conn, row, reply>>

\* Slip for CatchAll: the generic answer without the stack trace in the logs.
CatchAllSilently(q) ==
    /\ pc[q] = "catch_all"
    /\ reply' = [reply EXCEPT ![q] = "INTERNAL_ERROR"]
    /\ Go(q, "done")
    /\ NoFault
    /\ UNCHANGED <<inputs, key, error, conn, row, tagged, log>>

\* handle_unexpected_exception
CatchAll(q) ==
    /\ pc[q] = "catch_all"
    /\ reply' = [reply EXCEPT ![q] = "INTERNAL_ERROR"]
    /\ log' = [log EXCEPT ![q] = @ \cup {"unhandled"}]
    /\ Go(q, "done")
    /\ NoFault
    /\ UNCHANGED <<inputs, key, error, conn, row, tagged>>

Handling == PC \ {"idle", "done", "dead"}

\* The process dies with its requests; PostgreSQL undoes what they left.
Crash ==
    /\ faults < MaxFaults
    /\ faults' = faults + 1
    /\ pc' = [q \in Request |-> IF pc[q] \in Handling THEN "dead" ELSE pc[q]]
    /\ conn' = [q \in Request |-> FALSE]
    /\ row' = [q \in Request |-> IF row[q] = "pending" THEN "undone" ELSE row[q]]
    /\ NoAnswer
    /\ UNCHANGED <<inputs, key, error, broke>>

----------------------------------------------------------------------------
Step(q) == \/ Solve(q) \/ Validate(q)
           \/ UseRedis(q) \/ Connect(q) \/ Query(q) \/ Commit(q)
           \/ Unwind(q) \/ Inner(q) \/ Middleware(q) \/ CatchAll(q)

Next ==
    \/ \E q \in Request :
          \/ \E r \in Route \ {"get_me"}, b \in Body[q] : Arrive(q, r, b, "absent")
          \/ \E h \in Header : Arrive(q, "get_me", None, h)
          \/ Step(q) \/ HandlerFails(q) \/ RollbackFails(q)
    \/ Crash

Spec == Init /\ [][Next]_vars

\* The event loop runs every request that can go on; nothing forces a failure,
\* a crash or a request to come.
FairSpec == Spec /\ \A q \in Request : WF_vars(Step(q))

----------------------------------------------------------------------------
(* Safety *)

\* An answer leaves only after its transaction is over and its connection is
\* back in the pool; a refusal undid what its request had inserted, and a
\* success committed it.
AnswerEndsTransaction ==
    \A q \in Request : reply[q] # None =>
        /\ ~conn[q] /\ row[q] # "pending"
        /\ reply[q] \in Refusals => row[q] # "committed"
        /\ reply[q] = "ok" => row[q] # "undone"

\* The pool is never overdrawn and never drained: every connection in use is
\* with a request that still has to give it back, never with one that waits for
\* a connection, that is answered, or that died.
ConnectionsComeBack ==
    /\ Cardinality(Holders) <= PoolSize
    /\ \A q \in Holders : pc[q] \in {"query", "commit", "unwind"}

\* What a client is told is why it failed.  401, on which the app drops its
\* token, is for tokens that are dead and never for an outage.  The schema's 422
\* is for texts that spell no number: all of them that can be repeated and have
\* no digits of other scripts.  A failure is told as one, and the rest of the 500s
\* are for a registration that another one overtook, for a login that cannot be
\* repeated, and for production.  (503, which ServiceUnavailableError means for
\* outages, would do as well; nothing raises it.)
FailureNamesCause ==
    \A q \in Request : reply[q] # None =>
        LET login == route[q] # "get_me"
            refusable == /\ login /\ ~is_production /\ Encodable(body[q])
                         /\ \A n \in MobileNumber : ~Spells(body[q], n)
        IN
        /\ reply[q] = "UNAUTHORIZED" <=>
              ~login /\ header[q] \in {"absent", "garbage", "expired"}
        /\ reply[q] = "REQUEST_VALIDATION_ERROR" => refusable
        /\ refusable /\ Plain(body[q]) => reply[q] = "REQUEST_VALIDATION_ERROR"
        /\ broke[q] => reply[q] \in {"INTERNAL_ERROR", "SERVICE_UNAVAILABLE"}
        /\ reply[q] = "INTERNAL_ERROR" =>
              \/ broke[q] \/ row[q] = "refused"
              \/ login /\ (is_production \/ ~Encodable(body[q]))

\* The passwords and the account of a number are kept under the number's one
\* key, however it is written in the digits 0 to 9, also when it starts with the
\* digits of the country code.
KeysAreCanonical ==
    \A q \in Request : key[q] # None /\ Plain(body[q]) =>
        \E n \in MobileNumber : Spells(body[q], n) /\ key[q] = Key(n)

\* No request vanishes from the logs: one that is answered was completed, under
\* the id its client has, or its exception was logged, never both.
EveryStartIsAccountedFor ==
    \A q \in Request : pc[q] = "done" =>
        /\ log[q] = {"started", IF tagged[q] THEN "completed" ELSE "unhandled"}
        /\ tagged[q] <=> reply[q] # "INTERNAL_ERROR"

(* Liveness *)

\* Every request is answered or dies with the process: no request waits for
\* ever for a connection that another one kept.
EveryRequestIsAnswered ==
    \A q \in Request : pc[q] \in Handling ~> pc[q] \in {"done", "dead"}
=============================================================================
