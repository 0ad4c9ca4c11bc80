------------------------ MODULE ConnectivityProofs ------------------------
(* Proofs about Connectivity, for any number of checks, outages and crashes. *)
EXTENDS Connectivity, TLAPS

\* The calls that the gateway has, or will have.
Open(c) == hpc[c] \in {"attach", "sent", "connect", "query", "redis", "answer"}

\* What a call knows was so at some time during the call, and what is so now
\* is part of every open call's history.
FoundWasSo ==
    \A c \in Check :
        /\ Open(c) => Conditions(database, redis) \subseteq during[c]
        /\ hpc[c] \in {"redis", "answer"} =>
              \/ dbOk[c] /\ <<"database", "up">> \in during[c]
              \/ /\ ~dbOk[c]
                 /\ \/ <<"database", "down">> \in during[c]
                    \/ <<"database", "silent">> \in during[c]
        /\ hpc[c] = "answer" =>
              <<"redis", IF redisOk[c] THEN "up" ELSE "down">> \in during[c]

\* The app awaits a call only while it shows that it is checking.
AwaitedIsLoading == awaited # None => state = "loading"

\* The inductive invariant.
IInv == TypeOK /\ FoundWasSo /\ AwaitedIsLoading

\* What is so is of the type of the histories.
LEMMA ConditionsAreTyped ==
  ASSUME NEW d \in Condition, NEW r \in Condition
  PROVE  Conditions(d, r) \in SUBSET ({"database", "redis"} \X Condition)
  BY DEF Conditions

LEMMA InitIInv == Init => IInv
  BY ConnectivityAssumption DEF Init, IInv, TypeOK, FoundWasSo, AwaitedIsLoading, Open, Condition

\* Outages and recoveries.
LEMMA ChangeKeepsIInv == IInv /\ Change => IInv'
  <1> SUFFICES ASSUME IInv, Change PROVE IInv'
    OBVIOUS
  <1>1. /\ database' \in Condition /\ redis' \in Condition
        /\ UNCHANGED <<gateway, crashes, hpc, dbOk, redisOk, state, awaited>>
    BY DEF Change, IInv, TypeOK, process, handler, app
  <1>2. changes' \in 0..MaxChanges
    BY ConnectivityAssumption DEF Change, IInv, TypeOK
  <1>3. \A c \in Check :
          during'[c] = IF hpc[c] \in {"idle", "lost", "done"} THEN during[c]
                       ELSE during[c] \cup Conditions(database', redis')
    BY DEF Change
  <1>4. during' \in [Check -> SUBSET ({"database", "redis"} \X Condition)]
    BY <1>1, ConditionsAreTyped DEF Change, IInv, TypeOK
  <1>5. TypeOK'
    BY <1>1, <1>2, <1>4 DEF IInv, TypeOK
  <1>6. FoundWasSo'
    <2>1. \A c \in Check : during[c] \subseteq during'[c]
      BY <1>3
    <2>2. \A c \in Check : Open(c)' => Conditions(database', redis') \subseteq during'[c]
      BY <1>1, <1>3 DEF Open
    <2> QED BY <1>1, <2>1, <2>2 DEF IInv, FoundWasSo
  <1> QED BY <1>1, <1>5, <1>6 DEF IInv, AwaitedIsLoading

\* The life of the gateway process, and the app's giving up.
LEMMA ProcessKeepsIInv ==
  ASSUME IInv, Start \/ ConnectBroker \/ Crash \/ GiveUp
  PROVE  IInv'
  <1> USE DEF IInv, TypeOK, FoundWasSo, AwaitedIsLoading, Open, outside, handler,
              process, app
  <1>1. CASE Start
    BY <1>1 DEF Start
  <1>2. CASE ConnectBroker
    BY <1>2 DEF ConnectBroker
  <1>3. CASE Crash
    <2>1. crashes' \in 0..MaxCrashes
      BY <1>3, ConnectivityAssumption DEF Crash
    <2> QED BY <1>3, <2>1 DEF Crash
  <1>4. CASE GiveUp
    BY <1>4 DEF GiveUp
  <1> HIDE DEF IInv
  <1> QED BY <1>1, <1>2, <1>3, <1>4

\* The calls.
LEMMA CallKeepsIInv ==
  ASSUME IInv, NEW c \in Check, Build(c) \/ Retry(c) \/ AttachToken(c) \/ HandlerStep(c)
  PROVE  IInv'
  <1> USE DEF IInv, TypeOK, FoundWasSo, AwaitedIsLoading, Open, outside, handler,
              process, app
  <1>1. ASSUME Send(c), state' = "loading" PROVE IInv'
    <2>1. Conditions(database, redis)
            \in SUBSET ({"database", "redis"} \X Condition)
      BY ConditionsAreTyped
    <2> QED BY <1>1, <2>1 DEF Send
  <1>2. CASE Accept(c)
    BY <1>2 DEF Accept
  <1>3. CASE AttachToken(c)
    BY <1>3 DEF AttachToken
  <1>4. CASE Connect(c)
    <2>1. TypeOK'
      BY <1>4 DEF Connect
    <2>2. FoundWasSo'
      BY <1>4 DEF Connect, Conditions, Condition
    <2>3. AwaitedIsLoading'
      BY <1>4 DEF Connect
    <2> QED BY <2>1, <2>2, <2>3
  <1>5. CASE Query(c)
    <2>1. TypeOK'
      BY <1>5 DEF Query
    <2>2. FoundWasSo'
      <3>1. CASE hpc' = [hpc EXCEPT ![c] = "redis"]
        BY <1>5, <3>1 DEF Query, Conditions, Condition
      <3>2. CASE hpc' = [hpc EXCEPT ![c] = "connect"]
        BY <1>5, <3>2 DEF Query
      <3> QED BY <1>5, <3>1, <3>2 DEF Query
    <2>3. AwaitedIsLoading'
      BY <1>5 DEF Query
    <2> QED BY <2>1, <2>2, <2>3
  <1>6. CASE CheckRedis(c)
    <2>1. TypeOK'
      BY <1>6 DEF CheckRedis
    <2>2. FoundWasSo'
      BY <1>6 DEF CheckRedis, Conditions, Condition
    <2>3. AwaitedIsLoading'
      BY <1>6 DEF CheckRedis
    <2> QED BY <2>1, <2>2, <2>3
  <1>7. CASE Answer(c)
    BY <1>7 DEF Answer
  <1> HIDE DEF IInv
  <1> QED BY <1>1, <1>2, <1>3, <1>4, <1>5, <1>6, <1>7
          DEF Build, Retry, HandlerStep, Send

LEMMA Invariance == Spec => []IInv
  <1>1. IInv /\ [Next]_vars => IInv'
    <2>1. ASSUME IInv, UNCHANGED vars PROVE IInv'
      BY <2>1 DEF vars, IInv, TypeOK, FoundWasSo, AwaitedIsLoading, Open, outside, handler, process, app
    <2> QED BY <2>1, ChangeKeepsIInv, ProcessKeepsIInv, CallKeepsIInv DEF Next
  <1> QED BY <1>1, InitIInv, PTL DEF Spec

----------------------------------------------------------------------------
\* Every variable keeps its type.
THEOREM TypeCorrect == Spec => []TypeOK
  <1>1. IInv => TypeOK
    BY DEF IInv
  <1> QED BY <1>1, Invariance, PTL

\* Only an answer to the awaited call shows Connected.
LEMMA DataComesFromAnswer ==
  ASSUME IInv, Next, state # "data", state' = "data"
  PROVE  hpc[awaited] = "answer" /\ awaited \in Check /\ Healthy(awaited)
  <1>1. PICK c \in Check : Answer(c)
    BY DEF Next, Start, ConnectBroker, Crash, Change, GiveUp, Build, Retry, Send,
       AttachToken, HandlerStep, Accept, Connect, Query, CheckRedis, app
  <1> QED BY <1>1 DEF Answer, Awaits, app

\* Connected is said only of a PostgreSQL and a Redis that were both up at some
\* time during the latest check.
THEOREM ConnectedMeansUp == Spec => ConnectedIsHonest
  <1>1. IInv /\ [Next]_vars =>
          [state # "data" /\ state' = "data" =>
             Conditions("up", "up") \subseteq during[awaited]]_vars
    BY DataComesFromAnswer DEF IInv, FoundWasSo, Healthy, Conditions
  <1> QED BY <1>1, Invariance, PTL DEF Spec, ConnectedIsHonest

\* A 503 is never made up: something was not up while the call was handled.
THEOREM DegradedMeansDown == Spec => DegradedIsHonest
  <1> DEFINE Honest ==
        \A c \in Check :
          hpc[c] = "answer" /\ hpc'[c] = "done" /\ awaited = c /\ state' = "error"
          => during[c] \cap {<<"database", "down">>, <<"database", "silent">>,
                             <<"redis", "down">>} # {}
  <1>1. ASSUME IInv, Next, NEW c \in Check, hpc[c] = "answer", hpc'[c] = "done",
               awaited = c, state' = "error"
        PROVE  during[c] \cap {<<"database", "down">>, <<"database", "silent">>,
                               <<"redis", "down">>} # {}
    <2>1. state = "loading"
      BY <1>1, ConnectivityAssumption DEF IInv, AwaitedIsLoading
    <2>2. \E d \in Check : Answer(d)
      BY <1>1, <2>1 DEF Next, Start, ConnectBroker, Crash, Change, GiveUp, Build,
         Retry, Send, AttachToken, HandlerStep, Accept, Connect, Query,
         CheckRedis, app
    <2>3. ~Healthy(c)
      BY <1>1, <2>1, <2>2 DEF Answer, Awaits, app, IInv, TypeOK
    <2> QED BY <1>1, <2>3 DEF IInv, FoundWasSo, Healthy
  <1>2. IInv /\ [Next]_vars => [Honest]_vars
    BY <1>1
  <1> QED BY <1>2, Invariance, PTL DEF Spec, DegradedIsHonest
============================================================================
