---------------------------- MODULE Connectivity ----------------------------
(***************************************************************************)
(* Can the app reach the backend: the connectivity check of the Flutter    *)
(* app (ConnectivityCheckNotifier, HealthCheckService), GET /health of the *)
(* gateway, which asks PostgreSQL and then Redis, and the life of the      *)
(* gateway process: its lifespan connects to Redis or the process ends,    *)
(* and Docker starts it again.  PostgreSQL and Redis are external: they go *)
(* away and come back at any time.                                         *)
(***************************************************************************)
EXTENDS Naturals

CONSTANTS Check,         \* calls of GET /health by the app
          StorageFails,  \* secure storage may raise a PlatformException
          MaxChanges,    \* bound on the outages and recoveries
          MaxCrashes,    \* bound on the crashes of the gateway
          None           \* no call

ASSUME ConnectivityAssumption ==
    /\ None \notin Check /\ StorageFails \in BOOLEAN
    /\ MaxChanges \in Nat /\ MaxCrashes \in Nat

VARIABLES
    database,  \* PostgreSQL answers, refuses, or neither
    redis,     \* Redis answers, refuses, or neither
    gateway,   \* the gateway process
    hpc,       \* where a call of GET /health is
    dbOk,      \* what it found out about PostgreSQL
    redisOk,   \* and about Redis
    state,     \* ConnectivityCheckNotifier.state
    awaited,   \* the call whose answer _check() awaits
    during,    \* history: what PostgreSQL and Redis were during a call
    changes,   \* outages and recoveries so far
    crashes    \* crashes so far

outside == <<database, redis, changes>>
handler == <<dbOk, redisOk>>
process == <<gateway, crashes>>
app     == <<state, awaited>>
vars    == <<outside, process, hpc, handler, app, during>>

Condition == {"up", "down", "silent"}

TypeOK ==
    /\ database \in Condition /\ redis \in Condition
    /\ gateway \in {"down", "starting", "serving"}
    /\ hpc \in [Check -> {"idle", "attach", "lost", "sent", "connect", "query",
                         "redis", "answer", "done"}]
    /\ dbOk \in [Check -> BOOLEAN] /\ redisOk \in [Check -> BOOLEAN]
    /\ state \in {"loading", "data", "error"}
    /\ awaited \in Check \cup {None}
    /\ during \in [Check -> SUBSET ({"database", "redis"} \X Condition)]
    /\ changes \in 0..MaxChanges /\ crashes \in 0..MaxCrashes

\* Compose starts the gateway when both are healthy.
Init ==
    /\ database = "up" /\ redis = "up" /\ gateway = "down"
    /\ hpc = [c \in Check |-> "idle"]
    /\ dbOk = [c \in Check |-> FALSE] /\ redisOk = [c \in Check |-> FALSE]
    /\ state = "loading" /\ awaited = None
    /\ during = [c \in Check |-> {}]
    /\ changes = 0 /\ crashes = 0

----------------------------------------------------------------------------
(* The gateway process *)

\* Slip for Start: the container is not started again after a crash.
StartOnce ==
    /\ gateway = "down" /\ crashes = 0
    /\ gateway' = "starting"
    /\ UNCHANGED <<outside, crashes, hpc, handler, app, during>>

\* restart: unless-stopped.  A restart does not wait for the dependencies.
Start ==
    /\ gateway = "down"
    /\ gateway' = "starting"
    /\ UNCHANGED <<outside, crashes, hpc, handler, app, during>>

\* lifespan: the PING of connect_broker answers, or raises and uvicorn exits.
\* PostgreSQL is not asked.
ConnectBroker ==
    /\ gateway = "starting"
    /\ \/ redis = "up" /\ gateway' = "serving"
       \/ redis = "down" /\ gateway' = "down"
    /\ UNCHANGED <<outside, crashes, hpc, handler, app, during>>

\* The process dies with the calls it is handling.
Crash ==
    /\ gateway # "down" /\ crashes < MaxCrashes
    /\ gateway' = "down" /\ crashes' = crashes + 1
    /\ hpc' = [c \in Check |->
                  IF hpc[c] \in {"connect", "query", "redis", "answer"} THEN "done" ELSE hpc[c]]
    /\ UNCHANGED <<outside, handler, app, during>>

Conditions(d, r) == {<<"database", d>>, <<"redis", r>>}

\* An outage or a recovery.
Change ==
    /\ changes < MaxChanges /\ changes' = changes + 1
    /\ \/ database' \in Condition \ {database} /\ UNCHANGED redis
       \/ redis' \in Condition \ {redis} /\ UNCHANGED database
    /\ during' = [c \in Check |->
                     IF hpc[c] \in {"idle", "lost", "done"} THEN during[c]
                     ELSE during[c] \cup Conditions(database', redis')]
    /\ UNCHANGED <<process, hpc, handler, app>>

----------------------------------------------------------------------------
(* GET /health *)

\* engine.connect() takes a connection from the pool or makes a new one.
Accept(c) ==
    /\ hpc[c] = "sent" /\ gateway = "serving"
    /\ \E s \in {"connect", "query"} : hpc' = [hpc EXCEPT ![c] = s]
    /\ UNCHANGED <<outside, process, handler, app, during>>

\* A new connection, within the five seconds of connect_args.
Connect(c) ==
    /\ hpc[c] = "connect"
    /\ \/ /\ database = "up"
          /\ hpc' = [hpc EXCEPT ![c] = "query"]
          /\ UNCHANGED dbOk
       \/ /\ database # "up"
          /\ dbOk' = [dbOk EXCEPT ![c] = FALSE]
          /\ hpc' = [hpc EXCEPT ![c] = "redis"]
    /\ UNCHANGED <<outside, process, redisOk, app, during>>

\* The pre-ping and SELECT 1 have no timeout: they wait for a PostgreSQL that
\* neither answers nor fails.  A connection that fails its pre-ping is replaced.
Query(c) ==
    /\ hpc[c] = "query" /\ database # "silent"
    /\ \/ /\ dbOk' = [dbOk EXCEPT ![c] = database = "up"]
          /\ hpc' = [hpc EXCEPT ![c] = "redis"]
       \/ /\ database = "down"
          /\ hpc' = [hpc EXCEPT ![c] = "connect"]
          /\ UNCHANGED dbOk
    /\ UNCHANGED <<outside, process, redisOk, app, during>>

\* PING has no timeout either.
CheckRedis(c) ==
    /\ hpc[c] = "redis" /\ redis # "silent"
    /\ redisOk' = [redisOk EXCEPT ![c] = redis = "up"]
    /\ hpc' = [hpc EXCEPT ![c] = "answer"]
    /\ UNCHANGED <<outside, process, dbOk, app, during>>

\* Slip for Healthy: 503 whatever was found.
NeverHealthy(c) == FALSE

\* 200 for both, 503 otherwise, which Dio makes a failure.
Healthy(c) == dbOk[c] /\ redisOk[c]

\* Slip for Awaits: an answer counts whoever waits for it.
AwaitsAny(c) == state = "loading"

\* The answer of a call that timed out goes nowhere.
Awaits(c) == awaited = c

Answer(c) ==
    /\ hpc[c] = "answer"
    /\ hpc' = [hpc EXCEPT ![c] = "done"]
    /\ IF Awaits(c)
       THEN /\ state' = IF Healthy(c) THEN "data" ELSE "error"
            /\ awaited' = None
       ELSE UNCHANGED app
    /\ UNCHANGED <<outside, process, handler, during>>

----------------------------------------------------------------------------
(* The app *)

\* dio.get starts with the interceptor of dioProvider.
Send(c) ==
    /\ hpc[c] = "idle"
    /\ hpc' = [hpc EXCEPT ![c] = "attach"]
    /\ awaited' = c
    /\ during' = [during EXCEPT ![c] = Conditions(database, redis)]
    /\ UNCHANGED <<outside, process, handler>>

\* The interceptor reads the token and calls handler.next.  If the read raises,
\* it never does: the request is not sent, and no timer of Dio runs for it.
AttachToken(c) ==
    /\ hpc[c] = "attach"
    /\ \/ hpc' = [hpc EXCEPT ![c] = "sent"]
       \/ StorageFails /\ hpc' = [hpc EXCEPT ![c] = "lost"]
    /\ UNCHANGED <<outside, process, handler, app, during>>

\* build(), when the screen is first shown.
Build(c) ==
    /\ state = "loading" /\ awaited = None
    /\ Send(c)
    /\ UNCHANGED state

\* The button is only there beside an error.
Retry(c) ==
    /\ state = "error"
    /\ Send(c)
    /\ state' = "loading"

\* Slip for TimersRun: no timeouts, only a refused connection ends a check.
RefusalsOnly == awaited # None /\ hpc[awaited] = "sent" /\ gateway = "down"

\* The request that is awaited went past handler.next.
TimersRun == awaited # None /\ hpc[awaited] \notin {"attach", "lost"}

\* Slip for GiveUp: a timeout is a state of its own, which no screen shows.
TimedOut ==
    /\ TimersRun
    /\ state' = "timeout" /\ awaited' = None
    /\ UNCHANGED <<outside, process, hpc, handler, during>>

\* Dio's timeouts, or a connection that fails.  The gateway may go on.
GiveUp ==
    /\ TimersRun
    /\ state' = "error" /\ awaited' = None
    /\ UNCHANGED <<outside, process, hpc, handler, during>>

----------------------------------------------------------------------------
HandlerStep(c) == Accept(c) \/ Connect(c) \/ Query(c) \/ CheckRedis(c) \/ Answer(c)

Next ==
    \/ Start \/ ConnectBroker \/ Crash \/ Change \/ GiveUp
    \/ \E c \in Check : Build(c) \/ Retry(c) \/ AttachToken(c) \/ HandlerStep(c)

Spec == Init /\ [][Next]_vars

\* Docker restarts the container, the event loops run, secure storage answers or
\* raises, and Dio's timers fire once they run; nobody has to tap Try Again.
FairSpec ==
    /\ Spec
    /\ WF_vars(Start) /\ WF_vars(ConnectBroker) /\ WF_vars(GiveUp)
    /\ \A c \in Check : WF_vars(AttachToken(c)) /\ WF_vars(HandlerStep(c))

----------------------------------------------------------------------------
\* The screen says Connected only if PostgreSQL was up at some time and Redis
\* at some time, perhaps another, since the app last asked: no answer from
\* before an outage or to an earlier check is taken for the latest.
ConnectedIsHonest ==
    [][state # "data" /\ state' = "data" =>
          Conditions("up", "up") \subseteq during[awaited]]_vars

\* A gateway that answers 503 met an outage while it handled that call: one of
\* PostgreSQL or a refusing Redis, as a silent Redis gets no answer.
DegradedIsHonest ==
    [][\A c \in Check :
          hpc[c] = "answer" /\ hpc'[c] = "done" /\ awaited = c /\ state' = "error"
          => during[c] \cap {<<"database", "down">>, <<"database", "silent">>,
                             <<"redis", "down">>} # {}]_vars

\* "Checking connection to server..." does not stay, whether the gateway is away
\* or its SELECT 1 or PING hangs.  One thing makes it stay, and no retry is then
\* offered: secure storage that raised before the request was sent.
CheckEnds ==
    awaited # None ~> (state # "loading" \/ (awaited # None /\ hpc[awaited] = "lost"))

\* However often it crashes or starts without Redis, the gateway serves in the
\* end if Redis comes back for good.
GatewayComesBack == <>[](redis = "up") => <>[](gateway = "serving")
=============================================================================
