----------------------- MODULE RequestPipelineProofs -----------------------
(* Proofs about RequestPipeline, for any requests, texts and pool size.     *)
EXTENDS RequestPipeline, PhoneNumberProofs, FiniteSetTheorems

Dead(h) == h \in {"absent", "garbage", "expired"}
Login(q) == route[q] # "get_me"
Mobile(q) == Encodable(body[q]) /\ IsMobile(National(Digits(body[q])))

\* A request that has come knows what it asks.
Asked(q) ==
    pc[q] # "idle" =>
        /\ route[q] \in Route
        /\ Login(q) => body[q] \in Body[q]
        /\ ~Login(q) => header[q] \in Header

\* A request that has not come has left no trace.
Untouched(q) ==
    pc[q] = "idle" =>
        /\ key[q] = None /\ error[q] = None /\ reply[q] = None
        /\ ~conn[q] /\ row[q] = "nothing" /\ ~tagged[q] /\ log[q] = {}
        /\ ~broke[q]

\* How far a request gets, and with what.
Stage(q) ==
    /\ pc[q] \in {"solve", "validate", "redis", "connect", "query", "commit"} =>
          error[q] = None /\ reply[q] = None
    /\ pc[q] \in {"unwind", "inner", "catch_all"} => reply[q] = None
    /\ pc[q] = "catch_all" => error[q] = "unexpected"
    /\ pc[q] = "middleware" => reply[q] # None /\ error[q] # "unexpected"
    /\ pc[q] = "done" => reply[q] # None
    /\ pc[q] \in {"validate", "redis", "commit"} => Login(q)

\* What a request that has passed its checks must have had, unless the process
\* died under it.
Passed(q) ==
    (pc[q] = "dead" => reply[q] # None) =>
    /\ pc[q] \notin {"idle", "solve"} /\ ~Login(q) /\ Dead(header[q]) =>
          error[q] = "UnauthorizedError"
    /\ pc[q] \notin {"idle", "solve"} /\ Login(q) /\ ~HasProvider =>
          error[q] = "unexpected"
    /\ pc[q] \notin {"idle", "solve", "validate"}
          /\ Login(q) /\ HasProvider /\ ~Mobile(q) =>
          \/ error[q] = "RequestValidationError"
          \/ error[q] = "unexpected" /\ ~Encodable(body[q])

\* Where an exception can only have come from.
Raised(q) ==
    /\ error[q] = "UnauthorizedError" => ~Login(q) /\ Dead(header[q]) /\ ~conn[q]
    /\ error[q] = "RequestValidationError" =>
          Login(q) /\ HasProvider /\ ~Mobile(q) /\ ~conn[q]
    /\ error[q] = "unexpected" =>
          \/ broke[q] \/ row[q] = "refused"
          \/ Login(q) /\ (~HasProvider \/ ~Encodable(body[q]))
    /\ broke[q] \/ row[q] = "refused" => error[q] = "unexpected"

\* An answer says what was raised.
Answers(q) ==
    reply[q] # None =>
        /\ pc[q] \in {"middleware", "done", "dead"}
        /\ reply[q] = "ok" <=> error[q] = None
        /\ reply[q] = "INTERNAL_ERROR" <=> error[q] = "unexpected"
        /\ error[q] \notin {None, "unexpected"} =>
              error[q] \in Expected /\ reply[q] = ErrorCode[error[q]]
        /\ error[q] = "RequestValidationError" => Encodable(body[q])

\* Connections and rows are held only where they can be given back.
Transaction(q) ==
    /\ conn[q] => pc[q] \in {"query", "commit", "unwind"}
    /\ row[q] = "pending" =>
          pc[q] = "commit" \/ (pc[q] = "unwind" /\ error[q] # None)
    /\ row[q] = "committed" =>
          /\ pc[q] \in {"unwind", "inner", "catch_all", "middleware", "done", "dead"}
          /\ error[q] \in {None, "unexpected"}
    /\ row[q] = "undone" =>
          \/ error[q] # None
          \/ pc[q] = "dead" /\ reply[q] = None
    /\ row[q] = "undone" =>
          pc[q] \in {"inner", "catch_all", "middleware", "done", "dead"}

\* The keys are those of the texts that spell a number.
Keyed(q) ==
    key[q] # None =>
        Login(q) /\ body[q] \in Body[q] /\ Mobile(q) /\ key[q] = Key(National(Digits(body[q])))

\* What is logged on the way.
Logged(q) ==
    /\ pc[q] \notin {"idle", "done", "dead"} => log[q] = {"started"} /\ ~tagged[q]
    /\ pc[q] = "done" =>
          /\ log[q] = {"started", IF tagged[q] THEN "completed" ELSE "unhandled"}
          /\ tagged[q] <=> reply[q] # "INTERNAL_ERROR"

Inv(q) ==
    /\ Asked(q) /\ Untouched(q) /\ Stage(q) /\ Passed(q) /\ Raised(q)
    /\ Answers(q) /\ Transaction(q) /\ Keyed(q) /\ Logged(q)

IInv == TypeOK /\ \A q \in Request : Inv(q)

----------------------------------------------------------------------------
\* Codes tell the exceptions apart.
LEMMA CodesDiffer ==
  /\ Expected = {"NotFoundError", "ValidationError", "ConflictError",
                 "UnauthorizedError", "ForbiddenError", "ServiceUnavailableError",
                 "RequestValidationError"}
  /\ Refusals = {"NOT_FOUND", "VALIDATION_ERROR", "CONFLICT", "UNAUTHORIZED",
                 "FORBIDDEN", "SERVICE_UNAVAILABLE", "REQUEST_VALIDATION_ERROR"}
  /\ \A e \in Expected :
        /\ ErrorCode[e] \in Refusals
        /\ ErrorCode[e] = "UNAUTHORIZED" <=> e = "UnauthorizedError"
        /\ ErrorCode[e] = "REQUEST_VALIDATION_ERROR" <=> e = "RequestValidationError"
  /\ None \notin Expected \cup Refusals \cup {"unexpected", "ok", "INTERNAL_ERROR"}
  BY PipelineAssumption DEF Expected, Refusals, ErrorCode

LEMMA InitIInv == Init => IInv
  BY CodesDiffer, PipelineAssumption DEF Init, IInv, TypeOK, Inv, Asked, Untouched, Stage,
     Passed, Raised, Answers, Transaction, Keyed, Logged, PC

\* What the schema makes of a text.
LEMMA AcceptedIs ==
  ASSUME NEW q \in Request, NEW b \in Body[q]
  PROVE  LET n == National(Digits(b)) IN
         /\ Accepted(b) = IF Encodable(b) /\ IsMobile(n) THEN Key(n) ELSE NoNumber
         /\ IsMobile(n) => Key(n) # NoNumber
  <1>1. National(Digits(b)) \in Seq(Digit)
    BY PipelineAssumption, NationalIsDigits
  <1> QED BY <1>1, MobileHasKey DEF Accepted, Normalize, KeyOf

LEMMA ArriveKeepsIInv ==
  ASSUME IInv, NEW q \in Request,
         \/ \E r \in Route \ {"get_me"}, b \in Body[q] : Arrive(q, r, b, "absent")
         \/ \E h \in Header : Arrive(q, "get_me", None, h)
  PROVE  IInv'
  <1> USE CodesDiffer DEF IInv, TypeOK, Inv, Asked, Untouched, Stage,
     Passed, Raised, Answers, Transaction, Keyed, Logged, PC, Login, Dead, Mobile,
     HasProvider, is_production, Go, NoFault, NoAnswer, inputs, Route, Header
  <1>1. TypeOK'
    <2> DEFINE T == Text
    <2>0. body \in [Request -> T \cup {None}] /\ \A b \in Body[q] : b \in T
      BY DEF Text
    <2> HIDE DEF T
    <2>1. /\ route' \in [Request -> Route \cup {None}]
          /\ body' \in [Request -> Text \cup {None}]
          /\ header' \in [Request -> Header \cup {None}]
      <3>1. PICK r \in Route, b \in T \cup {None}, h \in Header : Arrive(q, r, b, h)
        BY <2>0
      <3>2. body' \in [Request -> T \cup {None}]
        BY <2>0, <3>1 DEF Arrive
      <3>3. /\ route' \in [Request -> Route \cup {None}]
            /\ header' \in [Request -> Header \cup {None}]
        BY <3>1 DEF Arrive
      <3> QED BY <3>2, <3>3 DEF T
    <2>2. /\ pc' \in [Request -> PC]
          /\ log' \in [Request -> SUBSET {"started", "completed", "unhandled"}]
      BY DEF Arrive
    <2>3. UNCHANGED <<environment, key, error, conn, row, reply, tagged, broke, faults>>
      BY DEF Arrive
    <2> QED BY <2>1, <2>2, <2>3 DEF Text
  <1>2. ASSUME NEW w \in Request PROVE Inv(w)'
    BY <1>2 DEF Arrive
  <1> HIDE DEF TypeOK, Inv
  <1> QED BY <1>1, <1>2

LEMMA SolveKeepsIInv ==
  ASSUME IInv, NEW q \in Request, Solve(q)
  PROVE  IInv'
  <1> USE CodesDiffer DEF IInv, TypeOK, Inv, Asked, Untouched, Stage,
     Passed, Raised, Answers, Transaction, Keyed, Logged, PC, Login, Dead, Mobile,
     HasProvider, is_production, Go, NoFault, NoAnswer, inputs, Route, Header
  <1>1. TypeOK'
    BY DEF Solve, Authenticate, WireService, Raise, Valid
  <1>2. Inv(q)'
    BY DEF Solve, Authenticate, WireService, Raise, Valid
  <1>3. ASSUME NEW w \in Request, w # q PROVE Inv(w)'
    BY <1>3 DEF Solve, Authenticate, WireService, Raise, Valid
  <1> HIDE DEF TypeOK, Inv
  <1> QED BY <1>1, <1>2, <1>3

LEMMA ValidateKeepsIInv ==
  ASSUME IInv, NEW q \in Request, Validate(q)
  PROVE  IInv'
  <1> USE CodesDiffer DEF IInv, TypeOK, Inv, Asked, Untouched, Stage,
     Passed, Raised, Answers, Transaction, Keyed, Logged, PC, Login, Dead, Mobile,
     HasProvider, is_production, Go, NoFault, NoAnswer, inputs, Route, Header
  <1>1. TypeOK'
    <2> DEFINE K == {Normalize(b) : b \in Text}
    <2>1. Accepted(body[q]) # NoNumber => Accepted(body[q]) \in K
      BY DEF Validate, Accepted, Text
    <2>2. key \in [Request -> K \cup {None}]
      BY DEF Text
    <2> HIDE DEF K
    <2>3. key' \in [Request -> K \cup {None}]
      BY <2>1, <2>2 DEF Validate
    <2>4. UNCHANGED <<environment, route, body, header, conn, row, reply, tagged, log,
                      broke, faults>>
      BY DEF Validate
    <2>5. pc' \in [Request -> PC] /\ error' \in [Request -> Expected \cup {"unexpected", None}]
      BY DEF Validate, Raise
    <2> QED BY <2>3, <2>4, <2>5 DEF K, Text
  <1>2. Inv(q)'
    <2>1. Login(q) /\ body[q] \in Body[q]
      BY DEF Validate
    <2>2. /\ Accepted(body[q]) = NoNumber => ~Mobile(q)
          /\ Accepted(body[q]) # NoNumber =>
                Mobile(q) /\ Accepted(body[q]) = Key(National(Digits(body[q])))
      BY <2>1, AcceptedIs DEF Mobile
    <2> QED BY <2>1, <2>2 DEF Validate, Raise
  <1>3. ASSUME NEW w \in Request, w # q PROVE Inv(w)'
    BY <1>3 DEF Validate, Raise
  <1> HIDE DEF TypeOK, Inv
  <1> QED BY <1>1, <1>2, <1>3

LEMMA UseRedisKeepsIInv ==
  ASSUME IInv, NEW q \in Request, UseRedis(q)
  PROVE  IInv'
  <1> USE CodesDiffer DEF IInv, TypeOK, Inv, Asked, Untouched, Stage,
     Passed, Raised, Answers, Transaction, Keyed, Logged, PC, Login, Dead, Mobile,
     HasProvider, is_production, Go, NoFault, NoAnswer, inputs, Route, Header
  <1>1. TypeOK'
    BY DEF UseRedis, Raise
  <1>2. Inv(q)'
    BY DEF UseRedis, Raise
  <1>3. ASSUME NEW w \in Request, w # q PROVE Inv(w)'
    BY <1>3 DEF UseRedis, Raise
  <1> HIDE DEF TypeOK, Inv
  <1> QED BY <1>1, <1>2, <1>3

LEMMA ConnectKeepsIInv ==
  ASSUME IInv, NEW q \in Request, Connect(q)
  PROVE  IInv'
  <1> USE CodesDiffer DEF IInv, TypeOK, Inv, Asked, Untouched, Stage,
     Passed, Raised, Answers, Transaction, Keyed, Logged, PC, Login, Dead, Mobile,
     HasProvider, is_production, Go, NoFault, NoAnswer, inputs, Route, Header
  <1>1. TypeOK'
    BY DEF Connect
  <1>2. Inv(q)'
    BY DEF Connect
  <1>3. ASSUME NEW w \in Request, w # q PROVE Inv(w)'
    BY <1>3 DEF Connect
  <1> HIDE DEF TypeOK, Inv
  <1> QED BY <1>1, <1>2, <1>3

LEMMA QueryKeepsIInv ==
  ASSUME IInv, NEW q \in Request, Query(q)
  PROVE  IInv'
  <1> USE CodesDiffer DEF IInv, TypeOK, Inv, Asked, Untouched, Stage,
     Passed, Raised, Answers, Transaction, Keyed, Logged, PC, Login, Dead, Mobile,
     HasProvider, is_production, Go, NoFault, NoAnswer, inputs, Route, Header
  <1>1. TypeOK'
    BY DEF Query, FindById, FindOrAdd, Raise, Settle
  <1>2. Inv(q)'
    BY DEF Query, FindById, FindOrAdd, Raise, Settle
  <1>3. ASSUME NEW w \in Request, w # q PROVE Inv(w)'
    BY <1>3 DEF Query, FindById, FindOrAdd, Raise, Settle
  <1> HIDE DEF TypeOK, Inv
  <1> QED BY <1>1, <1>2, <1>3

LEMMA CommitKeepsIInv ==
  ASSUME IInv, NEW q \in Request, Commit(q)
  PROVE  IInv'
  <1> USE CodesDiffer DEF IInv, TypeOK, Inv, Asked, Untouched, Stage,
     Passed, Raised, Answers, Transaction, Keyed, Logged, PC, Login, Dead, Mobile,
     HasProvider, is_production, Go, NoFault, NoAnswer, inputs, Route, Header
  <1>1. TypeOK'
    BY DEF Commit, CommitSession, Settle
  <1>2. Inv(q)'
    BY DEF Commit, CommitSession, Settle
  <1>3. ASSUME NEW w \in Request, w # q PROVE Inv(w)'
    BY <1>3 DEF Commit, CommitSession, Settle
  <1> HIDE DEF TypeOK, Inv
  <1> QED BY <1>1, <1>2, <1>3

LEMMA HandlerFailsKeepsIInv ==
  ASSUME IInv, NEW q \in Request, HandlerFails(q)
  PROVE  IInv'
  <1> USE CodesDiffer DEF IInv, TypeOK, Inv, Asked, Untouched, Stage,
     Passed, Raised, Answers, Transaction, Keyed, Logged, PC, Login, Dead, Mobile,
     HasProvider, is_production, Go, NoFault, NoAnswer, inputs, Route, Header
  <1>1. TypeOK'
    BY PipelineAssumption DEF HandlerFails, Raise, Fault, CommitSession, Settle
  <1>2. Inv(q)'
    BY DEF HandlerFails, Raise, Fault, CommitSession, Settle
  <1>3. ASSUME NEW w \in Request, w # q PROVE Inv(w)'
    BY <1>3 DEF HandlerFails, Raise, Fault, CommitSession, Settle
  <1> HIDE DEF TypeOK, Inv
  <1> QED BY <1>1, <1>2, <1>3

LEMMA UnwindKeepsIInv ==
  ASSUME IInv, NEW q \in Request, Unwind(q)
  PROVE  IInv'
  <1> USE CodesDiffer DEF IInv, TypeOK, Inv, Asked, Untouched, Stage,
     Passed, Raised, Answers, Transaction, Keyed, Logged, PC, Login, Dead, Mobile,
     HasProvider, is_production, Go, NoFault, NoAnswer, inputs, Route, Header
  <1>1. TypeOK'
    BY DEF Unwind, Rollback, Close, Settle
  <1>2. Inv(q)'
    BY DEF Unwind, Rollback, Close, Settle
  <1>3. ASSUME NEW w \in Request, w # q PROVE Inv(w)'
    BY <1>3 DEF Unwind, Rollback, Close, Settle
  <1> HIDE DEF TypeOK, Inv
  <1> QED BY <1>1, <1>2, <1>3

LEMMA RollbackFailsKeepsIInv ==
  ASSUME IInv, NEW q \in Request, RollbackFails(q)
  PROVE  IInv'
  <1> USE CodesDiffer DEF IInv, TypeOK, Inv, Asked, Untouched, Stage,
     Passed, Raised, Answers, Transaction, Keyed, Logged, PC, Login, Dead, Mobile,
     HasProvider, is_production, Go, NoFault, NoAnswer, inputs, Route, Header
  <1>1. TypeOK'
    BY PipelineAssumption DEF RollbackFails, Fault, Close, Settle
  <1>2. Inv(q)'
    BY DEF RollbackFails, Fault, Close, Settle
  <1>3. ASSUME NEW w \in Request, w # q PROVE Inv(w)'
    BY <1>3 DEF RollbackFails, Fault, Close, Settle
  <1> HIDE DEF TypeOK, Inv
  <1> QED BY <1>1, <1>2, <1>3

LEMMA InnerKeepsIInv ==
  ASSUME IInv, NEW q \in Request, Inner(q)
  PROVE  IInv'
  <1> USE CodesDiffer DEF IInv, TypeOK, Inv, Asked, Untouched, Stage,
     Passed, Raised, Answers, Transaction, Keyed, Logged, PC, Login, Dead, Mobile,
     HasProvider, is_production, Go, NoFault, NoAnswer, inputs, Route, Header
  <1>1. TypeOK'
    BY DEF Inner, Handled
  <1>2. Inv(q)'
    BY DEF Inner, Handled
  <1>3. ASSUME NEW w \in Request, w # q PROVE Inv(w)'
    BY <1>3 DEF Inner, Handled
  <1> HIDE DEF TypeOK, Inv
  <1> QED BY <1>1, <1>2, <1>3

LEMMA MiddlewareKeepsIInv ==
  ASSUME IInv, NEW q \in Request, Middleware(q)
  PROVE  IInv'
  <1> USE CodesDiffer DEF IInv, TypeOK, Inv, Asked, Untouched, Stage,
     Passed, Raised, Answers, Transaction, Keyed, Logged, PC, Login, Dead, Mobile,
     HasProvider, is_production, Go, NoFault, NoAnswer, inputs, Route, Header
  <1>1. TypeOK'
    BY DEF Middleware
  <1>2. Inv(q)'
    BY DEF Middleware
  <1>3. ASSUME NEW w \in Request, w # q PROVE Inv(w)'
    BY <1>3 DEF Middleware
  <1> HIDE DEF TypeOK, Inv
  <1> QED BY <1>1, <1>2, <1>3

LEMMA CatchAllKeepsIInv ==
  ASSUME IInv, NEW q \in Request, CatchAll(q)
  PROVE  IInv'
  <1> USE CodesDiffer DEF IInv, TypeOK, Inv, Asked, Untouched, Stage,
     Passed, Raised, Answers, Transaction, Keyed, Logged, PC, Login, Dead, Mobile,
     HasProvider, is_production, Go, NoFault, NoAnswer, inputs, Route, Header
  <1>1. TypeOK'
    BY DEF CatchAll
  <1>2. Inv(q)'
    BY DEF CatchAll
  <1>3. ASSUME NEW w \in Request, w # q PROVE Inv(w)'
    BY <1>3 DEF CatchAll
  <1> HIDE DEF TypeOK, Inv
  <1> QED BY <1>1, <1>2, <1>3

LEMMA CrashKeepsIInv == IInv /\ Crash => IInv'
  <1> SUFFICES ASSUME IInv, Crash PROVE IInv'
    OBVIOUS
  <1> USE CodesDiffer DEF IInv, TypeOK, Inv, Asked, Untouched, Stage,
     Passed, Raised, Answers, Transaction, Keyed, Logged, PC, Login, Dead, Mobile,
     HasProvider, is_production, NoAnswer, inputs
  <1>1. TypeOK'
    BY PipelineAssumption DEF Crash, Handling
  <1>2. ASSUME NEW w \in Request PROVE Inv(w)'
    BY <1>2 DEF Crash, Handling
  <1> HIDE DEF TypeOK, Inv
  <1> QED BY <1>1, <1>2

LEMMA StutterKeepsIInv == IInv /\ UNCHANGED vars => IInv'
  BY DEF vars, inputs, IInv, TypeOK, Inv, Asked, Untouched, Stage, Passed, Raised,
     Answers, Transaction, Keyed, Logged, Login, Dead, Mobile, HasProvider,
     is_production

LEMMA NextKeepsIInv == IInv /\ [Next]_vars => IInv'
  BY ArriveKeepsIInv, SolveKeepsIInv, ValidateKeepsIInv, UseRedisKeepsIInv,
     ConnectKeepsIInv, QueryKeepsIInv, CommitKeepsIInv, HandlerFailsKeepsIInv,
     UnwindKeepsIInv, RollbackFailsKeepsIInv, InnerKeepsIInv,
     MiddlewareKeepsIInv, CatchAllKeepsIInv, CrashKeepsIInv, StutterKeepsIInv
  DEF Next, Step

LEMMA Invariance == Spec => []IInv
  BY InitIInv, NextKeepsIInv, PTL DEF Spec

----------------------------------------------------------------------------
(* The properties the runs check, for every value of the constants. *)

\* Every variable keeps its type.
THEOREM TypeCorrect == Spec => []TypeOK
  <1>1. IInv => TypeOK
    BY DEF IInv
  <1> QED BY <1>1, Invariance, PTL

\* No answer leaves with its transaction open, whatever raised and wherever,
\* and what it says is what became of the row.
THEOREM AnswersFollowTransactions == Spec => []AnswerEndsTransaction
  <1>1. IInv => AnswerEndsTransaction
    <2> SUFFICES ASSUME IInv, NEW q \in Request, reply[q] # None
                 PROVE  /\ ~conn[q] /\ row[q] # "pending"
                        /\ reply[q] \in Refusals => row[q] # "committed"
                        /\ reply[q] = "ok" => row[q] # "undone"
      BY DEF AnswerEndsTransaction
    <2>1. Answers(q) /\ Transaction(q)
      BY DEF IInv, Inv
    <2>2. "ok" \notin Refusals /\ "INTERNAL_ERROR" \notin Refusals
      BY CodesDiffer
    <2> QED BY <2>1, <2>2 DEF Answers, Transaction
  <1> QED BY <1>1, Invariance, PTL

\* 401 is only ever about the token, the schema's 422 only about the text, and
\* 500 only about failures, overtaken registrations, texts that cannot be repeated
\* and the missing provider of production.
THEOREM FailuresNameCauses == Spec => []FailureNamesCause
  <1>1. IInv => FailureNamesCause
    <2> SUFFICES ASSUME IInv, NEW q \in Request, reply[q] # None
                 PROVE
        LET refusable == /\ Login(q) /\ ~is_production /\ Encodable(body[q])
                         /\ \A n \in MobileNumber : ~Spells(body[q], n)
        IN
        /\ reply[q] = "UNAUTHORIZED" <=> ~Login(q) /\ Dead(header[q])
        /\ reply[q] = "REQUEST_VALIDATION_ERROR" => refusable
        /\ refusable /\ Plain(body[q]) => reply[q] = "REQUEST_VALIDATION_ERROR"
        /\ broke[q] => reply[q] \in {"INTERNAL_ERROR", "SERVICE_UNAVAILABLE"}
        /\ reply[q] = "INTERNAL_ERROR" =>
              \/ broke[q] \/ row[q] = "refused"
              \/ Login(q) /\ (is_production \/ ~Encodable(body[q]))
      BY DEF FailureNamesCause, Login, Dead
    <2>1. Asked(q) /\ Untouched(q) /\ Stage(q) /\ Passed(q) /\ Raised(q) /\ Answers(q)
      BY DEF IInv, Inv
    <2>2. Login(q) /\ Encodable(body[q]) =>
          LET none == \A n \in MobileNumber : ~Spells(body[q], n) IN
             (~Mobile(q) => none) /\ (none /\ Plain(body[q]) => ~Mobile(q))
      BY <2>1, PipelineAssumption, RefusedSpellsNothing
      DEF Asked, Untouched, Mobile, Spells, Plain
    <2>3. /\ pc[q] \in {"middleware", "done", "dead"}
          /\ reply[q] = "ok" <=> error[q] = None
          /\ reply[q] = "INTERNAL_ERROR" <=> error[q] = "unexpected"
          /\ reply[q] = "UNAUTHORIZED" <=> error[q] = "UnauthorizedError"
          /\ reply[q] = "REQUEST_VALIDATION_ERROR"
                <=> error[q] = "RequestValidationError"
          /\ error[q] = "RequestValidationError" => Encodable(body[q])
      BY <2>1, CodesDiffer DEF Answers
    <2>4. /\ ~Login(q) /\ Dead(header[q]) => error[q] = "UnauthorizedError"
          /\ Login(q) /\ ~HasProvider => error[q] = "unexpected"
          /\ Login(q) /\ HasProvider /\ ~Mobile(q) =>
                \/ error[q] = "RequestValidationError"
                \/ error[q] = "unexpected" /\ ~Encodable(body[q])
      BY <2>1, <2>3 DEF Passed
    <2>5. reply[q] = "UNAUTHORIZED" <=> ~Login(q) /\ Dead(header[q])
      BY <2>1, <2>3, <2>4 DEF Raised
    <2>6. reply[q] = "REQUEST_VALIDATION_ERROR" <=>
             Login(q) /\ ~is_production /\ Encodable(body[q]) /\ ~Mobile(q)
      BY <2>1, <2>3, <2>4 DEF Raised, HasProvider
    <2>7. reply[q] = "INTERNAL_ERROR" =>
             \/ broke[q] \/ row[q] = "refused"
             \/ Login(q) /\ (is_production \/ ~Encodable(body[q]))
      BY <2>1, <2>3 DEF Raised, HasProvider
    <2>8. broke[q] => reply[q] = "INTERNAL_ERROR"
      BY <2>1, <2>3 DEF Raised
    <2> QED BY <2>2, <2>5, <2>6, <2>7, <2>8
  <1> QED BY <1>1, Invariance, PTL

\* The key of a request is that of the one number its text spells, if the text
\* has no digits of other scripts.
THEOREM KeysStayCanonical == Spec => []KeysAreCanonical
  <1>1. IInv => KeysAreCanonical
    <2> SUFFICES ASSUME IInv, NEW q \in Request, key[q] # None, Plain(body[q])
                 PROVE  \E n \in MobileNumber : Spells(body[q], n) /\ key[q] = Key(n)
      BY DEF KeysAreCanonical
    <2> DEFINE d == Digits(body[q])
    <2>1. IsMobile(National(d)) /\ key[q] = Key(National(d))
      BY DEF IInv, Inv, Keyed, Mobile
    <2>2. d \in Seq(0..9)
      BY DEF Plain
    <2>3. National(d) \in MobileNumber
      BY <2>1, <2>2, NationalIsDigits, MobileNumbers
    <2>4. d \in {National(d), CountryCode \o National(d)}
      BY <2>2, CodeAndRest, LengthAssumption DEF National
    <2> QED BY <2>1, <2>3, <2>4 DEF Spells
  <1> QED BY <1>1, Invariance, PTL

\* No answered request is lost from the logs or in them twice.
THEOREM StartsAreAccountedFor == Spec => []EveryStartIsAccountedFor
  <1>1. IInv => EveryStartIsAccountedFor
    BY DEF IInv, Inv, Logged, EveryStartIsAccountedFor
  <1> QED BY <1>1, Invariance, PTL

----------------------------------------------------------------------------
(* The pool, counted.  IInv says of each request when it may hold a          *)
(* connection; how many hold one needs an invariant about all of them.       *)

PoolBound == IsFiniteSet(Holders) /\ Cardinality(Holders) <= PoolSize

\* A step that hands out no connection leaves the bound alone.
LEMMA FewerHoldersFit ==
  ASSUME PoolBound, Holders' \subseteq Holders
  PROVE  PoolBound'
  <1>1. IsFiniteSet(Holders') /\ Cardinality(Holders') <= Cardinality(Holders)
    BY FS_Subset DEF PoolBound
  <1>2. Cardinality(Holders) \in Nat /\ Cardinality(Holders') \in Nat
    BY <1>1, FS_CardinalityType DEF PoolBound
  <1> QED BY <1>1, <1>2, PipelineAssumption DEF PoolBound

\* Connect adds one holder, and only below the bound.
LEMMA ConnectFits ==
  ASSUME IInv, PoolBound, NEW q \in Request, Connect(q)
  PROVE  PoolBound'
  <1>1. conn \in [Request -> BOOLEAN]
    BY DEF IInv, TypeOK
  <1>2. Holders' = Holders \cup {q}
    BY <1>1 DEF Connect, Holders
  <1>3. IsFiniteSet(Holders) /\ Cardinality(Holders) < PoolSize
    BY DEF Connect, PoolBound
  <1>4. ~conn[q] /\ q \notin Holders
    BY DEF IInv, Inv, Transaction, Connect, Holders
  <1>5. IsFiniteSet(Holders') /\ Cardinality(Holders') = Cardinality(Holders) + 1
    BY <1>2, <1>3, <1>4, FS_AddElement
  <1> QED BY <1>3, <1>5, FS_CardinalityType, PipelineAssumption DEF PoolBound

\* No other step hands out a connection.
LEMMA OthersTakeNone ==
  ASSUME IInv, [Next]_vars, \A q \in Request : ~Connect(q)
  PROVE  Holders' \subseteq Holders
  <1>1. conn \in [Request -> BOOLEAN]
    BY DEF IInv, TypeOK
  <1>2. \/ UNCHANGED conn
        \/ \E q \in Request : conn' = [conn EXCEPT ![q] = FALSE]
        \/ conn' = [q \in Request |-> FALSE]
    <2>1. ASSUME NEW q \in Request,
                 \/ Solve(q) \/ Validate(q) \/ UseRedis(q) \/ Query(q) \/ HandlerFails(q)
          PROVE  UNCHANGED conn
      BY <2>1 DEF Solve, Validate, UseRedis, Query, HandlerFails
    <2>2. ASSUME NEW q \in Request, \/ Inner(q) \/ Middleware(q) \/ CatchAll(q)
          PROVE  UNCHANGED conn
      BY <2>2 DEF Inner, Middleware, CatchAll
    <2>3. ASSUME NEW q \in Request, \/ Commit(q) \/ Unwind(q) \/ RollbackFails(q)
          PROVE  conn' = [conn EXCEPT ![q] = FALSE]
      BY <2>3 DEF Commit, Unwind, RollbackFails, Close
    <2>4. ASSUME NEW q \in Request, NEW r, NEW b, NEW h, Arrive(q, r, b, h)
          PROVE  UNCHANGED conn
      BY <2>4 DEF Arrive
    <2>5. Crash => conn' = [q \in Request |-> FALSE]
      BY DEF Crash
    <2>6. UNCHANGED vars => UNCHANGED conn
      BY DEF vars
    <2> QED BY <2>1, <2>2, <2>3, <2>4, <2>5, <2>6 DEF Next, Step
  <1> QED BY <1>1, <1>2 DEF Holders

LEMMA PoolInvariance == Spec => []PoolBound
  <1>1. Init => PoolBound
    <2> SUFFICES ASSUME Init PROVE PoolBound
      OBVIOUS
    <2>1. Holders = {}
      BY DEF Init, Holders
    <2> QED BY <2>1, FS_EmptySet, PipelineAssumption DEF PoolBound
  <1>2. IInv /\ PoolBound /\ [Next]_vars => PoolBound'
    BY ConnectFits, OthersTakeNone, FewerHoldersFit
  <1> QED BY <1>1, <1>2, Invariance, PTL DEF Spec

\* However requests fail and processes die, the pool is never overdrawn, and no
\* request keeps a connection past the end of its session.
THEOREM PoolIsNeverDrained == Spec => []ConnectionsComeBack
  <1>1. IInv /\ PoolBound => ConnectionsComeBack
    BY DEF IInv, Inv, Transaction, PoolBound, Holders, ConnectionsComeBack
  <1> QED BY <1>1, Invariance, PoolInvariance, PTL
=============================================================================
