------------------------- MODULE LoginJourneyProofs -------------------------
(* Proofs about LoginJourney, for any phones, codes, calls and faults.      *)
EXTENDS LoginJourney, AuthServiceProofs

\* What a snapshot holds was saved for its phone.
SnapshotHoldsSaved ==
    \A p \in Phone : snapshot[p] # None =>
        rphone[snapshot[p]] = p /\ rpc[snapshot[p]] \in Saved

\* An app that waits made the call it waits for, for its own phone.
AppsKnowTheirCalls ==
    \A p \in Phone :
        /\ screen[p] = "asking" =>
              call[p] \in OtpReq /\ rphone[call[p]] = p /\ rpc[call[p]] # "idle"
        /\ screen[p] = "checking" =>
              call[p] \in VerifyReq /\ vphone[call[p]] = p /\ vpc[call[p]] # "idle"
        /\ told[p] = "invalid_otp" =>
              /\ screen[p] = "code" /\ call[p] \in VerifyReq
              /\ vpc[call[p]] # "idle" /\ reply[call[p]] = "invalid_otp"

\* Whoever is asked for a code has received one.
CodesAreReal ==
    /\ \A r \in OtpReq :
          /\ rpc[r] # "idle" => code[r] \in Code
          /\ rpc[r] = "sent" => inbox[rphone[r]] # None
    /\ \A p \in Phone :
          /\ inbox[p] # None => rpc[inbox[p]] = "sent"
          /\ screen[p] \in {"code", "checking"} => inbox[p] # None

\* A phone that is not excused has no call but the one its app waits for.
NoStrayRequest(p) ==
    \A r \in OtpReq : rphone[r] = p /\ rpc[r] \in {"save", "send"} =>
        screen[p] = "asking" /\ call[p] = r

NoStrayVerify(p) ==
    \A v \in VerifyReq : vphone[v] = p /\ vpc[v] \in Running =>
        screen[p] = "checking" /\ call[p] = v

\* The key of its phone holds what it asked for.
AskedIsStored(p) ==
    screen[p] = "asking" =>
        /\ rpc[call[p]] \in {"send", "sent"} => store[p] = call[p]
        /\ rpc[call[p]] = "sent" => inbox[p] = call[p]

\* The code its user has is the stored one, or has let a call in.
CodeIsStored(p) ==
    screen[p] \in {"code", "checking"} =>
        /\ store[p] \in {inbox[p], None}
        /\ store[p] = None => inbox[p] \in consumed

\* What a call is about to delete is still there, and a call that typed the
\* right code and was refused came after one that was let in.
CheckIsFair(p) ==
    screen[p] = "checking" \/ told[p] = "invalid_otp" =>
        /\ vpc[call[p]] = "delete" => store[p] = checked[call[p]]
        /\ outcome[call[p]] = "invalid_otp" /\ vcode[call[p]] = CodeAtHand(p) =>
              inbox[p] \in consumed

Orderly(p) ==
    /\ NoStrayRequest(p) /\ NoStrayVerify(p)
    /\ AskedIsStored(p) /\ CodeIsStored(p) /\ CheckIsFair(p)

\* Where codes are on their way.
Traffic ==
    /\ SnapshotHoldsSaved
    /\ AppsKnowTheirCalls
    /\ CodesAreReal
    /\ \A p \in Phone : p \notin excused => Orderly(p)

\* The inductive invariant.
JourneyInv == JourneyTypeOK /\ IInv /\ HomeIsOwnAccount /\ Traffic

----------------------------------------------------------------------------
LEMMA JourneyStarts == JourneyInit => JourneyInv
  <1> SUFFICES ASSUME JourneyInit PROVE JourneyInv
    OBVIOUS
  <1>1. IInv /\ Init
    BY InitIInv DEF JourneyInit
  <1>2. JourneyTypeOK
    <2>1. TypeOK /\ snapshot \in [Phone -> OtpReq \cup {None}]
      BY <1>1 DEF IInv, OtpInv, TypeOK, JourneyInit
    <2> QED BY <2>1, FaultsAssumption DEF JourneyInit, JourneyTypeOK, Screen
  <1>3. SnapshotHoldsSaved /\ AppsKnowTheirCalls /\ CodesAreReal /\ HomeIsOwnAccount
    <2>1. SnapshotHoldsSaved
      BY <1>1 DEF JourneyInit, Init, SnapshotHoldsSaved
    <2>2. AppsKnowTheirCalls /\ CodesAreReal /\ HomeIsOwnAccount
      BY <1>1, NoneAssumption DEF JourneyInit, Init, AppsKnowTheirCalls,
         CodesAreReal, HomeIsOwnAccount, Reply
    <2> QED BY <2>1, <2>2
  <1>4. ASSUME NEW p \in Phone PROVE Orderly(p)
    BY <1>1, NoneAssumption DEF JourneyInit, Init, Reply, Running, Orderly, NoStrayRequest,
       NoStrayVerify, AskedIsStored, CodeIsStored, CheckIsFair
  <1> QED BY <1>1, <1>2, <1>3, <1>4 DEF JourneyInv, Traffic

\* The calls the apps make next are calls of the gateway.
LEMMA NextCalls ==
  /\ (\E r \in OtpReq : rpc[r] = "idle") =>
        LET r == CHOOSE r \in OtpReq : rpc[r] = "idle" IN
        r \in OtpReq /\ rpc[r] = "idle"
  /\ (\E v \in VerifyReq : vpc[v] = "idle") =>
        LET v == CHOOSE v \in VerifyReq : vpc[v] = "idle" IN
        v \in VerifyReq /\ vpc[v] = "idle"
  OBVIOUS

\* A code that is asked for can be typed.
LEMMA CodeCanBeTyped ==
  ASSUME JourneyInv, NEW p \in Phone, screen[p] \in {"code", "checking"}
  PROVE  inbox[p] \in OtpReq /\ CodeAtHand(p) \in Code
  BY DEF JourneyInv, Traffic, CodesAreReal, JourneyTypeOK, TypeOK, CodeAtHand

\* A restart of Redis leaves every key with a password of its phone, or none.
LEMMA RestartKeepsIInv ==
  ASSUME JourneyInv, RestartRedis
  PROVE  IInv'
  BY DEF RestartRedis, JourneyInv, Traffic, JourneyTypeOK, SnapshotHoldsSaved, rvars, vvars,
     IInv, OtpInv, UserInv, TypeOK, CallsHavePhones, AnswersAreFinal, StoreHoldsSaved,
     CheckedWasSaved, PastGetIsChecked, ConsumedWasSaved, PastCheckIsConsumed,
     InsertHasName, UsersComeLate, CommitHoldsUser, HoldsRow, OneUncommittedRow,
     AccountHasOpener,
     TokenNamesCommittedUser

\* Every other step is one of the gateway, or none of its business.
LEMMA StepIsOfGateway ==
  ASSUME JourneyInv, JourneyNext
  PROVE  [Next]_vars \/ RestartRedis
  <1>1. ASSUME NEW p \in Phone, NEW c \in Code, NEW n \in BOOLEAN, Verify(p, c, n)
        PROVE  Next
    BY <1>1, NextCalls DEF Verify, Next
  <1>2. ASSUME NEW p \in Phone, Ask(p) PROVE Next
    BY <1>2, NextCalls DEF Ask, Next
  <1>3. ASSUME NEW p \in Phone, Persists(p) \/ Slips(p) PROVE [Next]_vars
    <2>1. CASE Ask(p)
      BY <1>2, <2>1
    <2>2. CASE Verify(p, CodeAtHand(p), TRUE)
      BY <1>1, <2>2, CodeCanBeTyped DEF Verify
    <2>3. CASE \E c \in Code, n \in BOOLEAN : Verify(p, c, n)
      BY <1>1, <2>3
    <2>4. CASE Back(p)
      BY <2>4 DEF Back
    <2> QED BY <1>3, <2>1, <2>2, <2>3, <2>4 DEF Persists, Slips
  <1>4. ASSUME NEW p \in Phone, AppStep(p) \/ GiveUp(p) PROVE UNCHANGED vars
    BY <1>4 DEF AppStep, AskAnswered, VerifyAnswered, GiveUp
  <1>5. ASSUME NEW p \in Phone, GatewayStep(p) \/ KeyExpires(p) PROVE Next
    BY <1>5 DEF GatewayStep, KeyExpires, Next
  <1>6. ASSUME GatewayFails PROVE Next
    BY <1>6 DEF GatewayFails, Next
  <1>7. ASSUME SaveSnapshot PROVE UNCHANGED vars
    BY <1>7 DEF SaveSnapshot
  <1> QED BY <1>3, <1>4, <1>5, <1>6, <1>7 DEF JourneyNext

\* So the invariant of the gateway holds, with Redis going back as well.
LEMMA StepKeepsIInv ==
  ASSUME JourneyInv, JourneyNext
  PROVE  IInv'
  <1>1. IInv
    BY DEF JourneyInv
  <1> QED BY <1>1, StepIsOfGateway, RestartKeepsIInv, NextKeepsIInv

----------------------------------------------------------------------------
(* Steps of the apps *)

LEMMA AskKeepsTraffic ==
  ASSUME JourneyInv, NEW p \in Phone, Ask(p), NoFault
  PROVE  Traffic'
  <1> USE NoneAssumption DEF JourneyInv, Traffic, JourneyTypeOK, TypeOK
  <1>1. PICK r \in OtpReq, c \in Code :
          /\ rpc[r] = "idle" /\ StartRequest(r, p, c) /\ Await(p, "asking", r)
    BY NextCalls DEF Ask
  <1>2. screen[p] = "phone"
    BY DEF Ask
  <1> USE DEF StartRequest, Await, Show, NoFault, vvars
  <1>3. SnapshotHoldsSaved'
    BY <1>1 DEF SnapshotHoldsSaved, Saved
  <1>4. AppsKnowTheirCalls'
    BY <1>1, <1>2 DEF AppsKnowTheirCalls, Reply
  <1>5. CodesAreReal'
    BY <1>1, <1>2 DEF CodesAreReal
  <1>6. ASSUME NEW w \in Phone, w \notin excused PROVE Orderly(w)'
    BY <1>1, <1>2, <1>6 DEF Orderly, NoStrayRequest, NoStrayVerify, AskedIsStored,
       CodeIsStored, CheckIsFair, CodeAtHand, Running, Reply, AppsKnowTheirCalls, CodesAreReal
  <1> QED BY <1>3, <1>4, <1>5, <1>6

LEMMA VerifyKeepsTraffic ==
  ASSUME JourneyInv, NEW p \in Phone, NEW c \in Code, NEW n \in BOOLEAN,
         Verify(p, c, n), UNCHANGED excused
  PROVE  Traffic'
  <1> USE NoneAssumption DEF JourneyInv, Traffic, JourneyTypeOK, TypeOK
  <1>1. PICK v \in VerifyReq :
          /\ vpc[v] = "idle" /\ StartVerify(v, p, c, n) /\ Await(p, "checking", v)
    BY NextCalls DEF Verify
  <1>2. screen[p] = "code"
    BY DEF Verify
  <1> USE DEF StartVerify, Await, Show, rvars
  <1>3. SnapshotHoldsSaved' /\ CodesAreReal'
    BY <1>1, <1>2 DEF SnapshotHoldsSaved, CodesAreReal
  <1>4. AppsKnowTheirCalls'
    BY <1>1, <1>2 DEF AppsKnowTheirCalls, Reply
  <1>5. reply[v] = None /\ outcome[v] = None
    BY <1>1 DEF IInv, OtpInv, AnswersAreFinal
  <1>6. ASSUME NEW w \in Phone, w \notin excused PROVE Orderly(w)'
    BY <1>1, <1>2, <1>5, <1>6 DEF Orderly, NoStrayRequest, NoStrayVerify, AskedIsStored,
       CodeIsStored, CheckIsFair, CodeAtHand, Running, Reply, AppsKnowTheirCalls, CodesAreReal
  <1> QED BY <1>3, <1>4, <1>5, <1>6

\* An answer, the back button, or the end of the app's patience.
LEMMA AppKeepsTraffic ==
  ASSUME JourneyInv, NEW p \in Phone,
         \/ (Back(p) \/ AppStep(p)) /\ UNCHANGED excused
         \/ GiveUp(p)
  PROVE  Traffic'
  <1> USE NoneAssumption DEF JourneyInv, Traffic, JourneyTypeOK, TypeOK
  <1> USE DEF Show, vars, rvars, vvars
  <1>1. SnapshotHoldsSaved'
    BY DEF SnapshotHoldsSaved, Back, AppStep, AskAnswered, VerifyAnswered, GiveUp
  <1>2. CASE Back(p) /\ UNCHANGED excused
    BY <1>1, <1>2 DEF Back, AppsKnowTheirCalls, CodesAreReal, Orderly, NoStrayRequest,
       NoStrayVerify, AskedIsStored, CodeIsStored, CheckIsFair, CodeAtHand, Reply
  <1>3. CASE AskAnswered(p) /\ UNCHANGED excused
    <2>1. AppsKnowTheirCalls' /\ CodesAreReal'
      BY <1>3 DEF AskAnswered, AppsKnowTheirCalls, CodesAreReal, Reply
    <2>2. ASSUME NEW w \in Phone, w \notin excused, w # p PROVE Orderly(w)'
      BY <1>3, <2>2 DEF AskAnswered, Orderly, NoStrayRequest, NoStrayVerify,
         AskedIsStored, CodeIsStored, CheckIsFair, CodeAtHand
    <2>3. ASSUME p \notin excused PROVE Orderly(p)'
      <3>1. screen[p] = "asking" /\ call[p] \in OtpReq /\ rphone[call[p]] = p
        BY <1>3 DEF AskAnswered, AppsKnowTheirCalls
      <3>2. NoStrayRequest(p)' /\ NoStrayVerify(p)'
        BY <1>3, <2>3, <3>1 DEF AskAnswered, Orderly, NoStrayRequest, NoStrayVerify, Running
      <3>3. AskedIsStored(p)' /\ CheckIsFair(p)'
        BY <1>3, <3>1 DEF AskAnswered, AskedIsStored, CheckIsFair, Reply
      <3>4. CodeIsStored(p)'
        BY <1>3, <2>3, <3>1 DEF AskAnswered, Orderly, AskedIsStored, CodeIsStored
      <3> QED BY <3>2, <3>3, <3>4 DEF Orderly
    <2> QED BY <1>1, <1>3, <2>1, <2>2, <2>3
  <1>4. CASE VerifyAnswered(p) /\ UNCHANGED excused
    <2>1. AppsKnowTheirCalls' /\ CodesAreReal'
      BY <1>4 DEF VerifyAnswered, Shown, Failure, AppsKnowTheirCalls, CodesAreReal, Reply
    <2>2. ASSUME NEW w \in Phone, w \notin excused, w # p PROVE Orderly(w)'
      BY <1>4, <2>2 DEF VerifyAnswered, Orderly, NoStrayRequest, NoStrayVerify,
         AskedIsStored, CodeIsStored, CheckIsFair, CodeAtHand
    <2>3. ASSUME p \notin excused PROVE Orderly(p)'
      <3>1. /\ screen[p] = "checking" /\ call[p] \in VerifyReq /\ vphone[call[p]] = p
            /\ vpc[call[p]] \notin Running
        BY <1>4 DEF VerifyAnswered, AppsKnowTheirCalls, Running, IInv, OtpInv, AnswersAreFinal, Reply
      <3>2. NoStrayRequest(p)' /\ NoStrayVerify(p)'
        BY <1>4, <2>3, <3>1 DEF VerifyAnswered, Orderly, NoStrayRequest, NoStrayVerify
      <3>3. AskedIsStored(p)' /\ CodeIsStored(p)' /\ CheckIsFair(p)'
        BY <1>4, <2>3, <3>1 DEF VerifyAnswered, Orderly, AskedIsStored, CodeIsStored,
           CheckIsFair, CodeAtHand
      <3> QED BY <3>2, <3>3 DEF Orderly
    <2> QED BY <1>1, <1>4, <2>1, <2>2, <2>3
  <1>5. CASE GiveUp(p)
    BY <1>1, <1>5 DEF GiveUp, AppsKnowTheirCalls, CodesAreReal, Orderly, NoStrayRequest,
       NoStrayVerify, AskedIsStored, CodeIsStored, CheckIsFair, CodeAtHand, Reply
  <1> QED BY <1>2, <1>3, <1>4, <1>5 DEF AppStep

(* Steps of Redis *)

LEMMA RedisKeepsTraffic ==
  ASSUME JourneyInv, \/ SaveSnapshot /\ UNCHANGED excused
                     \/ RestartRedis
                     \/ \E p \in Phone : KeyExpires(p)
  PROVE  Traffic'
  <1> USE NoneAssumption DEF JourneyInv, Traffic, JourneyTypeOK, TypeOK, app, rvars, vvars
  <1>1. CASE SaveSnapshot /\ UNCHANGED excused
    BY <1>1 DEF SaveSnapshot, vars, IInv, OtpInv, StoreHoldsSaved, SnapshotHoldsSaved,
       AppsKnowTheirCalls, CodesAreReal, Orderly, NoStrayRequest,
       NoStrayVerify, AskedIsStored, CodeIsStored, CheckIsFair, CodeAtHand
  <1>2. CASE RestartRedis
    BY <1>2 DEF RestartRedis, SnapshotHoldsSaved, AppsKnowTheirCalls, CodesAreReal
  <1>3. ASSUME NEW p \in Phone, KeyExpires(p) PROVE Traffic'
    BY <1>3 DEF KeyExpires, Expire, SnapshotHoldsSaved,
       AppsKnowTheirCalls, CodesAreReal, Orderly, NoStrayRequest,
       NoStrayVerify, AskedIsStored, CodeIsStored, CheckIsFair, CodeAtHand
  <1> QED BY <1>1, <1>2, <1>3

(* Steps of the gateway *)

LEMMA RequestKeepsTraffic ==
  ASSUME JourneyInv, NEW r \in OtpReq, RequestStep(r) \/ SaveFails(r) \/ SendFails(r),
         UNCHANGED <<app, snapshot, excused>>
  PROVE  Traffic'
  <1> USE NoneAssumption DEF JourneyInv, Traffic, JourneyTypeOK, TypeOK, app, vvars
  <1>1. rphone[r] \in Phone /\ rpc[r] \in {"save", "send"}
    BY DEF IInv, OtpInv, CallsHavePhones, RequestStep, SaveOtp, SendOtp, SaveFails, SendFails
  <1>2. /\ UNCHANGED <<consumed, rphone, code, vvars>>
        /\ \E s \in {"send", "sent", "failed", "lost"} :
              /\ rpc' = [rpc EXCEPT ![r] = s]
              /\ rpc[r] = "save" => s # "sent"
              /\ rpc[r] = "send" => s # "lost"
              /\ inbox' = IF s = "sent" THEN [inbox EXCEPT ![rphone[r]] = r] ELSE inbox
              /\ \/ UNCHANGED store /\ s # "send"
                 \/ rpc[r] = "save" /\ s # "lost" /\ store' = [store EXCEPT ![rphone[r]] = r]
    BY DEF RequestStep, SaveOtp, SendOtp, SaveFails, SendFails
  <1>3. SnapshotHoldsSaved'
    BY <1>1, <1>2 DEF SnapshotHoldsSaved, Saved
  <1>4. AppsKnowTheirCalls'
    BY <1>1, <1>2 DEF AppsKnowTheirCalls
  <1>5. CodesAreReal'
    BY <1>1, <1>2 DEF CodesAreReal
  <1>6. ASSUME NEW w \in Phone, w \notin excused PROVE Orderly(w)'
    <2>1. rphone[r] = w => screen[w] = "asking" /\ call[w] = r
      BY <1>1, <1>6 DEF Orderly, NoStrayRequest
    <2>2. NoStrayRequest(w)' /\ NoStrayVerify(w)'
      BY <1>1, <1>2, <1>6, <2>1 DEF Orderly, NoStrayRequest, NoStrayVerify, Running
    <2>3. AskedIsStored(w)'
      BY <1>1, <1>2, <1>6, <2>1 DEF Orderly, AskedIsStored, AppsKnowTheirCalls
    <2>4. CodeIsStored(w)' /\ CheckIsFair(w)'
      BY <1>1, <1>2, <1>6, <2>1 DEF Orderly, CodeIsStored, CheckIsFair, CodeAtHand,
         AppsKnowTheirCalls
    <2> QED BY <2>2, <2>3, <2>4 DEF Orderly
  <1> QED BY <1>2, <1>3, <1>4, <1>5, <1>6

LEMMA CallKeepsTraffic ==
  ASSUME JourneyInv, NEW v \in VerifyReq, VerifyStep(v) \/ RedisFails(v) \/ DbFails(v),
         UNCHANGED <<app, snapshot, excused>>
  PROVE  Traffic'
  <1> USE NoneAssumption DEF JourneyInv, Traffic, JourneyTypeOK, TypeOK, app, rvars
  <1>1. /\ vpc[v] \in Running /\ vphone[v] \in Phone /\ reply[v] = None
        /\ vpc[v] = "delete" => checked[v] # None
    BY DEF IInv, OtpInv, CallsHavePhones, AnswersAreFinal, PastGetIsChecked, VerifyStep,
       GetOtp, DeleteOtp, FindUser, InsertUser, Commit, Rollback, Respond, RedisFails,
       DbFails, PoolFails, StatementFails, RollbackFails, Running
  <1>2. /\ UNCHANGED <<rvars, vphone, vcode>>
        /\ \E s \in VerifyPC \ {"idle"} : vpc' = [vpc EXCEPT ![v] = s]
        /\ vpc'[v] = "delete" =>
              /\ store[vphone[v]] # None /\ UNCHANGED <<store, consumed, outcome>>
              /\ checked' = [checked EXCEPT ![v] = store[vphone[v]]]
        /\ vpc'[v] # "delete" => UNCHANGED checked
        /\ UNCHANGED reply \/ reply' = [reply EXCEPT ![v] = outcome[v]]
        /\ UNCHANGED outcome \/ \E a \in Reply : outcome' = [outcome EXCEPT ![v] = a]
        /\ outcome'[v] = "invalid_otp" /\ outcome[v] # "invalid_otp" =>
              /\ UNCHANGED <<store, consumed>>
              /\ store[vphone[v]] = None \/ code[store[vphone[v]]] # vcode[v]
        /\ \/ UNCHANGED <<store, consumed>>
           \/ vpc[v] = "delete" /\ Delete(v)
    BY <1>1 DEF VerifyStep, GetOtp, Matches, DeleteOtp, FindUser, InsertUser, Commit,
       Rollback, Respond, RedisFails, DbFails, PoolFails, StatementFails, RollbackFails,
       End, Abort, Unasked, VerifyPC, Reply, Delete, Running
  <1>3. SnapshotHoldsSaved' /\ CodesAreReal'
    BY <1>2 DEF SnapshotHoldsSaved, CodesAreReal
  <1>4. AppsKnowTheirCalls'
    BY <1>1, <1>2 DEF AppsKnowTheirCalls, Reply
  <1>5. ASSUME NEW w \in Phone, w \notin excused PROVE Orderly(w)'
    <2>1. vphone[v] = w => screen[w] = "checking" /\ call[w] = v
      BY <1>1, <1>5 DEF Orderly, NoStrayVerify
    <2>2. NoStrayRequest(w)' /\ NoStrayVerify(w)'
      BY <1>1, <1>2, <1>5, <2>1 DEF Orderly, NoStrayRequest, NoStrayVerify, Running
    <2>3. CASE vphone[v] # w
      <3>1. AskedIsStored(w)'
        BY <1>1, <1>2, <1>5, <2>3 DEF Orderly, AskedIsStored, Delete
      <3>2. CodeIsStored(w)'
        BY <1>1, <1>2, <1>5, <2>3 DEF Orderly, CodeIsStored, Delete
      <3>3. CheckIsFair(w)'
        <4>1. screen[w] = "checking" \/ told[w] = "invalid_otp" =>
                 call[w] \in VerifyReq /\ call[w] # v
          BY <1>1, <1>5, <2>3 DEF AppsKnowTheirCalls, Reply
        <4> QED BY <1>1, <1>2, <1>5, <2>3, <4>1 DEF Orderly, CheckIsFair, CodeAtHand, Delete
      <3> QED BY <2>2, <3>1, <3>2, <3>3 DEF Orderly
    <2>4. CASE vphone[v] = w
      <3>1. AskedIsStored(w)'
        BY <2>1, <2>4 DEF AskedIsStored
      <3>2. CodeIsStored(w)'
        BY <1>1, <1>2, <1>5, <2>1, <2>4 DEF Orderly, CodeIsStored, CheckIsFair, Delete
      <3>3. CheckIsFair(w)'
        BY <1>1, <1>2, <1>5, <2>1, <2>4 DEF Orderly, CodeIsStored, CheckIsFair, CodeAtHand,
           Delete, Reply
      <3> QED BY <2>2, <3>1, <3>2, <3>3 DEF Orderly
    <2> QED BY <2>3, <2>4
  <1> QED BY <1>2, <1>3, <1>4, <1>5

LEMMA CrashKeepsTraffic ==
  ASSUME JourneyInv, Crash, UNCHANGED <<app, snapshot, excused>>
  PROVE  Traffic'
  BY NoneAssumption DEF JourneyInv, Traffic, JourneyTypeOK, TypeOK, app, Crash, Saved,
     SnapshotHoldsSaved, AppsKnowTheirCalls, CodesAreReal, Orderly, NoStrayRequest,
     NoStrayVerify, AskedIsStored, CodeIsStored, CheckIsFair, CodeAtHand, Running

----------------------------------------------------------------------------
LEMMA StepKeepsTraffic ==
  ASSUME JourneyInv, JourneyNext
  PROVE  Traffic'
  <1>1. ASSUME NEW p \in Phone, Persists(p), NoFault PROVE Traffic'
    <2>1. CASE Ask(p)
      BY <1>1, <2>1, AskKeepsTraffic
    <2>2. CASE Verify(p, CodeAtHand(p), TRUE)
      <3>1. CodeAtHand(p) \in Code
        BY <2>2, CodeCanBeTyped DEF Verify
      <3> QED BY <1>1, <2>2, <3>1, VerifyKeepsTraffic DEF NoFault
    <2>3. CASE Back(p)
      BY <1>1, <2>3, AppKeepsTraffic DEF NoFault
    <2> QED BY <1>1, <2>1, <2>2, <2>3 DEF Persists
  <1>2. ASSUME NEW p \in Phone, Slips(p) PROVE Traffic'
    BY <1>2, VerifyKeepsTraffic, AppKeepsTraffic DEF Slips
  <1>3. ASSUME NEW p \in Phone, (AppStep(p) /\ NoFault) \/ GiveUp(p) PROVE Traffic'
    BY <1>3, AppKeepsTraffic DEF NoFault
  <1>4. ASSUME NEW p \in Phone, GatewayStep(p), NoFault PROVE Traffic'
    BY <1>4, RequestKeepsTraffic, CallKeepsTraffic DEF GatewayStep, NoFault
  <1>5. ASSUME GatewayFails PROVE Traffic'
    BY <1>5, RequestKeepsTraffic, CallKeepsTraffic, CrashKeepsTraffic DEF GatewayFails
  <1>6. ASSUME \/ SaveSnapshot /\ NoFault
               \/ RestartRedis
               \/ \E p \in Phone : KeyExpires(p)
        PROVE Traffic'
    BY <1>6, RedisKeepsTraffic DEF NoFault
  <1> QED BY <1>1, <1>2, <1>3, <1>4, <1>5, <1>6 DEF JourneyNext

LEMMA StepKeepsTypes ==
  ASSUME JourneyInv, JourneyNext
  PROVE  JourneyTypeOK'
  <1> USE DEF Screen, Failure
  <1>1. TypeOK'
    BY StepKeepsIInv DEF IInv, OtpInv
  <1>2. /\ JourneyTypeOK /\ TypeOK
    BY DEF JourneyInv, JourneyTypeOK
  <1>3. excused' \in SUBSET Phone /\ faults' \in 0..MaxFaults
    <2>1. faults' \in 0..MaxFaults
      BY <1>2, FaultsAssumption DEF JourneyNext, NoFault, Fault, JourneyTypeOK
    <2>2. excused' \in SUBSET Phone
      BY <1>2 DEF JourneyNext, NoFault, JourneyTypeOK, Slips, GiveUp, KeyExpires,
         GatewayFails, RestartRedis
    <2> QED BY <2>1, <2>2
  <1>4. ASSUME NEW p \in Phone, Persists(p) \/ Slips(p)
        PROVE  /\ screen' \in [Phone -> Screen]
               /\ call' \in [Phone -> OtpReq \cup VerifyReq \cup {None}]
               /\ told' \in [Phone -> Failure \cup {None}]
               /\ UNCHANGED <<token, snapshot>>
    <2>1. CASE Ask(p)
      BY <1>2, <2>1, NextCalls DEF Ask, Await, Show, JourneyTypeOK
    <2>2. CASE \E c, n : Verify(p, c, n)
      BY <1>2, <2>2, NextCalls DEF Verify, Await, Show, JourneyTypeOK
    <2>3. CASE Back(p)
      BY <1>2, <2>3 DEF Back, Show, JourneyTypeOK
    <2> QED BY <1>4, <2>1, <2>2, <2>3 DEF Persists, Slips
  <1>5. ASSUME NEW p \in Phone, AppStep(p) \/ GiveUp(p)
        PROVE  /\ screen' \in [Phone -> Screen]
               /\ told' \in [Phone -> Failure \cup {None}]
               /\ token' \in [Phone -> VerifyReq \cup {None}]
               /\ UNCHANGED <<call, snapshot>>
    <2>1. CASE AskAnswered(p) \/ GiveUp(p)
      BY <1>2, <2>1 DEF AskAnswered, GiveUp, Show, JourneyTypeOK
    <2>2. CASE VerifyAnswered(p)
      <3>1. call[p] \in VerifyReq
        BY <2>2 DEF VerifyAnswered, JourneyInv, Traffic, AppsKnowTheirCalls
      <3> QED BY <1>2, <2>2, <3>1 DEF VerifyAnswered, Shown, Show, JourneyTypeOK, TypeOK
    <2> QED BY <1>5, <2>1, <2>2 DEF AppStep
  <1>6. ASSUME \/ GatewayFails \/ RestartRedis \/ SaveSnapshot
               \/ \E p \in Phone : KeyExpires(p) \/ GatewayStep(p)
        PROVE  UNCHANGED app /\ snapshot' \in [Phone -> OtpReq \cup {None}]
    BY <1>2, <1>6 DEF GatewayFails, RestartRedis, SaveSnapshot, KeyExpires, GatewayStep,
       app, JourneyTypeOK, TypeOK
  <1> QED BY <1>1, <1>2, <1>3, <1>4, <1>5, <1>6 DEF JourneyNext, JourneyTypeOK, app

LEMMA StepKeepsHomes ==
  ASSUME JourneyInv, JourneyNext
  PROVE  HomeIsOwnAccount'
  <1> USE NoneAssumption DEF JourneyInv, JourneyTypeOK
  <1>1. ASSUME NEW p \in Phone, account[p] # None PROVE account'[p] = account[p]
    <2>1. CASE RestartRedis
      BY <2>1 DEF RestartRedis
    <2>2. CASE [Next]_vars
      BY <1>1, <2>2, AccountsStay
    <2> QED BY <2>1, <2>2, StepIsOfGateway
  <1>2. ASSUME NEW p \in Phone, VerifyAnswered(p) PROVE HomeIsOwnAccount'
    <2>1. call[p] \in VerifyReq /\ vphone[call[p]] = p /\ screen[p] = "checking"
      BY <1>2 DEF VerifyAnswered, Traffic, AppsKnowTheirCalls
    <2>2. reply[call[p]] = "token" => user[call[p]] # None /\ account[p] = user[call[p]]
      BY <2>1 DEF IInv, UserInv, TokenNamesCommittedUser
    <2> QED BY <1>1, <1>2, <2>1, <2>2
            DEF VerifyAnswered, Show, HomeIsOwnAccount, TypeOK, Shown
  <1>3. ASSUME NEW p \in Phone, Persists(p) \/ Slips(p) \/ AskAnswered(p) \/ GiveUp(p)
        PROVE  HomeIsOwnAccount'
    <2>1. /\ UNCHANGED token /\ screen[p] # "home"
          /\ \E s \in Screen \ {"home"} : screen' = [screen EXCEPT ![p] = s]
      BY <1>3 DEF Persists, Slips, Ask, Verify, Back, Await, Show, AskAnswered, GiveUp, Screen
    <2> QED BY <1>1, <2>1 DEF HomeIsOwnAccount
  <1>4. ASSUME UNCHANGED app PROVE HomeIsOwnAccount'
    BY <1>1, <1>4 DEF app, HomeIsOwnAccount
  <1>5. ASSUME \/ GatewayFails \/ RestartRedis \/ SaveSnapshot
               \/ \E p \in Phone : KeyExpires(p) \/ GatewayStep(p)
        PROVE  UNCHANGED app
    BY <1>5 DEF GatewayFails, RestartRedis, SaveSnapshot, KeyExpires, GatewayStep
  <1> QED BY <1>2, <1>3, <1>4, <1>5 DEF JourneyNext, AppStep

LEMMA StandingStillKeepsInv ==
  ASSUME JourneyInv, UNCHANGED <<vars, journey>>
  PROVE  JourneyInv'
  <1>1. IInv'
    BY NextKeepsIInv DEF JourneyInv
  <1>2. JourneyTypeOK' /\ HomeIsOwnAccount'
    BY DEF JourneyInv, JourneyTypeOK, TypeOK, HomeIsOwnAccount, vars, rvars, vvars, journey, app
  <1>3. Traffic'
    BY DEF JourneyInv, Traffic, vars, rvars, vvars, journey, app, SnapshotHoldsSaved,
       AppsKnowTheirCalls, CodesAreReal, Orderly, NoStrayRequest, NoStrayVerify,
       AskedIsStored, CodeIsStored, CheckIsFair, CodeAtHand
  <1> QED BY <1>1, <1>2, <1>3 DEF JourneyInv

LEMMA JourneyInvariance == JourneySpec => []JourneyInv
  <1>1. JourneyInv /\ [JourneyNext]_<<vars, journey>> => JourneyInv'
    BY StepKeepsTraffic, StepKeepsTypes, StepKeepsHomes, StepKeepsIInv,
       StandingStillKeepsInv DEF JourneyInv
  <1> QED BY <1>1, JourneyStarts, PTL DEF JourneySpec

----------------------------------------------------------------------------
\* The apps only ever wait for calls of their kind and hold tokens of accounts.
THEOREM JourneyTypeCorrect == JourneySpec => []JourneyTypeOK
  <1>1. JourneyInv => JourneyTypeOK
    BY DEF JourneyInv
  <1> QED BY <1>1, JourneyInvariance, PTL

\* Whoever is home is logged in to the committed account of the own number,
\* through every failure, late answer and restart of Redis.
THEOREM HomesAreOwnAccounts == JourneySpec => []HomeIsOwnAccount
  <1>1. JourneyInv => HomeIsOwnAccount
    BY DEF JourneyInv
  <1> QED BY <1>1, JourneyInvariance, PTL

\* Whoever types the code received last is refused only after it let a call in,
\* or where calls overlapped or Redis lost the key.
THEOREM RefusalsAreExplained == JourneySpec => []RefusalIsExplained
  <1>1. JourneyInv => RefusalIsExplained
    BY NoneAssumption DEF JourneyInv, Traffic, AppsKnowTheirCalls, Orderly, CheckIsFair,
       IInv, OtpInv, AnswersAreFinal, Reply, RefusalIsExplained
  <1> QED BY <1>1, JourneyInvariance, PTL

----------------------------------------------------------------------------
(* The journey implements LoginPromise. *)

\* What is stored or was checked was published.
LEMMA StoredIsPublished ==
  ASSUME IInv
  PROVE  /\ \A p \in Phone : store[p] # None =>
               store[p] \in OtpReq /\ OwnerOf[store[p]] = p
         /\ \A v \in VerifyReq : checked[v] # None =>
               checked[v] \in OtpReq /\ OwnerOf[checked[v]] = vphone[v]
  BY DEF IInv, OtpInv, TypeOK, StoreHoldsSaved, CheckedWasSaved, OwnerOf

\* What the ledger allows, the promise allows.
LEMMA LedgerKeepsPromise ==
  ASSUME IInv, [Ledger!Next]_Ledger!ledger, UNCHANGED token
  PROVE  [Promise!Next]_Promise!promise
  <1> USE DEF Promise!PhoneOf
  <1>1. ASSUME NEW i \in OtpReq, NEW p \in Phone, Ledger!Publish(i, p)
        PROVE  Promise!Publish(i, p)
    BY <1>1 DEF Ledger!Publish, Promise!Publish
  <1>2. ASSUME NEW p \in Phone, Ledger!Lapse(p)
        PROVE  UNCHANGED Promise!promise
    BY <1>2 DEF Ledger!Lapse, Promise!promise
  <1>3. ASSUME NEW v \in VerifyReq, NEW p \in Phone, Ledger!Prove(v, p)
        PROVE  store[p] \in OtpReq /\ Promise!Prove(v, store[p])
    <2>1. OwnerOf[store[p]] = p /\ store[p] \in OtpReq /\ p # None
      BY <1>3, NoneAssumption, StoredIsPublished DEF Ledger!Prove
    <2> QED BY <1>3, <2>1 DEF Ledger!Prove, Promise!Prove
  <1>4. ASSUME NEW v \in VerifyReq, Ledger!Spend(v)
        PROVE  Promise!Spend(v)
    BY <1>4 DEF Ledger!Spend, Promise!Spend
  <1>5. ASSUME NEW v \in VerifyReq, Ledger!Open(v)
        PROVE  Promise!Open(v)
    BY <1>5 DEF Ledger!Open, Promise!Open
  <1>6. ASSUME NEW v \in VerifyReq, Ledger!Grant(v)
        PROVE  Promise!Grant(v)
    BY <1>6 DEF Ledger!Grant, Promise!Grant
  <1>7. CASE UNCHANGED Ledger!ledger
    BY <1>7 DEF Ledger!ledger, Promise!promise
  <1> QED BY <1>1, <1>2, <1>3, <1>4, <1>5, <1>6, <1>7 DEF Ledger!Next, Promise!Next

\* After Redis went back, GET may find a password that was spent.
LEMMA GetKeepsPromise ==
  ASSUME IInv, NEW v \in VerifyReq, GetOtp(v), UNCHANGED token
  PROVE  [Promise!Next]_Promise!promise
  <1> DEFINE stored == store[vphone[v]]
  <1>1. vphone[v] \in Phone /\ checked[v] = None /\ reply[v] = None
    BY DEF GetOtp, IInv, OtpInv, CallsHavePhones, CheckedWasSaved, AnswersAreFinal
  <1>2. UNCHANGED <<OwnerOf, consumed, account, GrantedTo>>
    BY <1>1, NoneAssumption DEF GetOtp, Unasked, rvars, OwnerOf, GrantedTo
  <1>3. CASE Matches(v, stored)
    <2>1. stored \in OtpReq /\ OwnerOf[stored] # None
      BY <1>1, <1>3, NoneAssumption, StoredIsPublished DEF Matches
    <2>2. Promise!Prove(v, stored)
      BY <1>1, <1>2, <1>3, <2>1 DEF GetOtp, Promise!Prove
    <2> QED BY <2>1, <2>2 DEF Promise!Next
  <1>4. CASE ~Matches(v, stored)
    BY <1>2, <1>4 DEF GetOtp, Unasked, Promise!promise
  <1> QED BY <1>3, <1>4

\* The user gets in by a token that the call for the own phone was granted.
LEMMA EnterKeepsPromise ==
  ASSUME JourneyInv, NEW p \in Phone, VerifyAnswered(p)
  PROVE  [Promise!Next]_Promise!promise
  <1> DEFINE v == call[p]
  <1>1. /\ v \in VerifyReq /\ vphone[v] = p /\ token[p] = None
        /\ UNCHANGED <<OwnerOf, checked, consumed, account, GrantedTo>>
    BY DEF VerifyAnswered, JourneyInv, Traffic, AppsKnowTheirCalls, HomeIsOwnAccount,
       vars, rvars, vvars, OwnerOf, GrantedTo
  <1>2. CASE reply[v] = "token"
    <2>1. outcome[v] = "token"
      BY <1>1, <1>2, NoneAssumption DEF JourneyInv, IInv, OtpInv, AnswersAreFinal, Reply
    <2>2. GrantedTo[v] = user[v] /\ user[v] # None /\ checked[v] # None
      BY <1>1, <1>2, <2>1 DEF GrantedTo, JourneyInv, IInv, OtpInv, UserInv,
         TokenNamesCommittedUser, PastGetIsChecked
    <2>3. OwnerOf[checked[v]] = p
      BY <1>1, <2>2, StoredIsPublished DEF JourneyInv
    <2>4. Promise!Enter(p, v)
      BY <1>1, <1>2, <2>2, <2>3 DEF VerifyAnswered, Promise!Enter, Promise!PhoneOf
    <2> QED BY <1>1, <2>4 DEF Promise!Next
  <1>3. CASE reply[v] # "token"
    BY <1>1, <1>3 DEF VerifyAnswered, Promise!promise
  <1> QED BY <1>2, <1>3

\* Nothing but that answer changes who is in.
LEMMA OthersLeaveTokens ==
  ASSUME JourneyNext
  PROVE  UNCHANGED token \/ \E p \in Phone : VerifyAnswered(p)
  BY DEF JourneyNext, Persists, Slips, Ask, Verify, Back, Await, AppStep, AskAnswered,
     GiveUp, GatewayStep, GatewayFails, KeyExpires, SaveSnapshot, RestartRedis, app

\* Login keeps its promise from end to end, whatever overlaps, fails or dies
\* and however often Redis goes back.
THEOREM JourneyKeepsPromise == JourneySpec => ImplementsPromise
  <1>1. JourneyInit => Promise!Init
    BY DEF JourneyInit, Init, Promise!Init, OwnerOf, GrantedTo, Saved
  <1>2. JourneyInv /\ [JourneyNext]_<<vars, journey>> => [Promise!Next]_Promise!promise
    <2> SUFFICES ASSUME JourneyInv, [JourneyNext]_<<vars, journey>>
                 PROVE  [Promise!Next]_Promise!promise
      OBVIOUS
    <2>1. IInv
      BY DEF JourneyInv
    <2>2. CASE UNCHANGED <<vars, journey>>
      BY <2>2 DEF vars, rvars, vvars, journey, app, OwnerOf, GrantedTo, Promise!promise
    <2>3. CASE RestartRedis
      BY <2>3 DEF RestartRedis, rvars, vvars, app, OwnerOf, GrantedTo, Promise!promise
    <2>4. CASE [Next]_vars /\ UNCHANGED token
      BY <2>1, <2>4, StepRefines, LedgerKeepsPromise, GetKeepsPromise
    <2> QED BY <2>2, <2>3, <2>4, StepIsOfGateway, OthersLeaveTokens, EnterKeepsPromise
  <1> QED BY <1>1, <1>2, JourneyInvariance, PTL
          DEF JourneySpec, ImplementsPromise, Promise!Spec
=============================================================================
