------------------------- MODULE AuthServiceProofs -------------------------
(* Proofs about AuthService, for any phones, codes, calls and pool size.    *)
EXTENDS AuthService, FiniteSetTheorems, TLAPS

\* A call that started knows its phone.
CallsHavePhones ==
    /\ \A r \in OtpReq : rpc[r] # "idle" => rphone[r] \in Phone
    /\ \A v \in VerifyReq : vpc[v] # "idle" => vphone[v] \in Phone

\* Only a call that is over has an answer, the one its handler ended with.
AnswersAreFinal ==
    \A v \in VerifyReq :
        /\ reply[v] # None => vpc[v] = "done" /\ reply[v] = outcome[v]
        /\ outcome[v] # None => vpc[v] \in {"rollback", "respond", "done", "crashed"}

\* A key holds a password saved for its phone.
StoreHoldsSaved ==
    \A p \in Phone : store[p] # None =>
        rphone[store[p]] = p /\ rpc[store[p]] \in Saved

\* What a call checked was saved for its phone with the code it carries.
CheckedWasSaved ==
    \A v \in VerifyReq : checked[v] # None =>
        /\ rphone[checked[v]] = vphone[v]
        /\ code[checked[v]] = vcode[v]
        /\ rpc[checked[v]] \in Saved
        /\ vpc[v] \notin {"idle", "get"}

\* A call past its GET checked some password.
PastGetIsChecked ==
    \A v \in VerifyReq :
        (\/ vpc[v] \in {"delete", "select", "insert", "commit", "rollback"}
         \/ outcome[v] \in {"token", "name_required"})
        => checked[v] # None

\* A call past its DELETE removed the password it checked.
PastCheckIsConsumed ==
    \A v \in VerifyReq :
        (\/ vpc[v] \in {"select", "insert", "commit", "rollback"}
         \/ outcome[v] \in {"token", "name_required"})
        => checked[v] \in consumed

ConsumedWasSaved == \A r \in consumed : rpc[r] \in Saved

\* Only a call with a display_name gets to INSERT.
InsertHasName == \A v \in VerifyReq : vpc[v] = "insert" => vname[v]

\* A call has no user before its SELECT found one or its INSERT went through.
UsersComeLate ==
    \A v \in VerifyReq :
        vpc[v] \in {"idle", "get", "delete", "select", "insert"} => user[v] = None

\* A call about to commit holds the committed user of its phone, or the row it
\* inserted; a row that is still held is the first of its phone.
CommitHoldsUser ==
    \A v \in VerifyReq :
        /\ vpc[v] = "commit" =>
              user[v] # None /\ (user[v] # v => account[vphone[v]] = user[v])
        /\ HoldsRow(v) => account[vphone[v]] = None /\ vname[v]

\* Two uncommitted rows are never of the same phone.
OneUncommittedRow ==
    \A v, w \in VerifyReq :
        HoldsRow(v) /\ HoldsRow(w) /\ vphone[v] = vphone[w] => v = w

\* An account is named by the call for its phone that inserted it.
AccountHasOpener ==
    \A p \in Phone : account[p] # None =>
        /\ vphone[account[p]] = p
        /\ vname[account[p]]
        /\ checked[account[p]] # None
        /\ vpc[account[p]] \in {"rollback", "respond", "done", "crashed"}

\* The inductive invariant, first the part about passwords, then the part
\* about users.
OtpInv ==
    /\ TypeOK
    /\ CallsHavePhones
    /\ AnswersAreFinal
    /\ StoreHoldsSaved
    /\ CheckedWasSaved
    /\ PastGetIsChecked
    /\ ConsumedWasSaved
    /\ PastCheckIsConsumed

UserInv ==
    /\ InsertHasName
    /\ UsersComeLate
    /\ CommitHoldsUser
    /\ OneUncommittedRow
    /\ AccountHasOpener
    /\ TokenNamesCommittedUser

IInv == OtpInv /\ UserInv

----------------------------------------------------------------------------
LEMMA InitIInv == Init => IInv
  BY NoneAssumption DEF Init, Reply, IInv, OtpInv, UserInv, TypeOK, CallsHavePhones,
     AnswersAreFinal, StoreHoldsSaved, CheckedWasSaved, PastGetIsChecked,
     ConsumedWasSaved, PastCheckIsConsumed, InsertHasName, UsersComeLate,
     CommitHoldsUser, HoldsRow, OneUncommittedRow, AccountHasOpener,
     TokenNamesCommittedUser, RequestPC, VerifyPC

LEMMA RequestKeepsIInv ==
  ASSUME IInv, NEW r \in OtpReq,
         \/ \E p \in Phone, c \in Code : StartRequest(r, p, c)
         \/ RequestStep(r) \/ SaveFails(r) \/ SendFails(r)
         \/ \E p \in Phone : Expire(p)
  PROVE  IInv'
  <1> USE NoneAssumption DEF IInv, OtpInv, UserInv, TypeOK, CallsHavePhones,
     AnswersAreFinal, StoreHoldsSaved, CheckedWasSaved, PastGetIsChecked,
     ConsumedWasSaved, PastCheckIsConsumed, InsertHasName, UsersComeLate,
     CommitHoldsUser, HoldsRow, OneUncommittedRow, AccountHasOpener,
     TokenNamesCommittedUser, RequestPC, VerifyPC, Reply, Saved, rvars, vvars, Unasked
  <1>1. ASSUME NEW p \in Phone, NEW c \in Code, StartRequest(r, p, c)
        PROVE  IInv'
    BY <1>1 DEF StartRequest
  <1>2. CASE SaveOtp(r)
    BY <1>2 DEF SaveOtp
  <1>3. CASE SendOtp(r)
    BY <1>3 DEF SendOtp
  <1>4. CASE SaveFails(r)
    <2>1. CASE rpc' = [rpc EXCEPT ![r] = "failed"]
               /\ store' = [store EXCEPT ![rphone[r]] = r]
      BY <1>4, <2>1 DEF SaveFails
    <2>2. CASE rpc' = [rpc EXCEPT ![r] = "lost"] /\ store' = store
      BY <1>4, <2>2 DEF SaveFails
    <2> QED BY <1>4, <2>1, <2>2 DEF SaveFails
  <1>5. CASE SendFails(r)
    BY <1>5 DEF SendFails
  <1>6. ASSUME NEW p \in Phone, Expire(p) PROVE IInv'
    BY <1>6 DEF Expire
  <1> HIDE DEF IInv
  <1> QED BY <1>1, <1>2, <1>3, <1>4, <1>5, <1>6 DEF RequestStep

\* A call that only ends, refused or failed, disturbs nothing.
LEMMA EndKeepsIInv ==
  ASSUME IInv, NEW v \in VerifyReq, vpc[v] \in Running \ {"respond"},
         NEW a \in {"invalid_otp", "internal_error"},
         \/ End(v, a)
         \/ (Abort(v, a) /\ vpc[v] \in {"select", "insert", "commit"}),
         UNCHANGED <<store, account, consumed, rvars, vphone, vcode, vname,
                     checked, user, reply>>
  PROVE  IInv'
  <1> USE NoneAssumption DEF IInv, OtpInv, UserInv, TypeOK, CallsHavePhones,
     AnswersAreFinal, StoreHoldsSaved, CheckedWasSaved, PastGetIsChecked,
     ConsumedWasSaved, PastCheckIsConsumed, InsertHasName, UsersComeLate,
     CommitHoldsUser, HoldsRow, OneUncommittedRow, AccountHasOpener,
     TokenNamesCommittedUser, RequestPC, VerifyPC, Reply, Saved, rvars, vvars
  <1>1. /\ vpc' \in [VerifyReq -> VerifyPC] /\ outcome' = [outcome EXCEPT ![v] = a]
        /\ vpc[v] \in {"get", "delete", "select", "insert", "commit", "rollback"}
        /\ \/ vpc' = [vpc EXCEPT ![v] = "respond"]
           \/ /\ vpc' = [vpc EXCEPT ![v] = "rollback"]
              /\ vpc[v] \in {"select", "insert", "commit"}
    BY DEF End, Abort, Running
  <1>2. CASE vpc' = [vpc EXCEPT ![v] = "respond"]
    <2>1. OtpInv'
      BY <1>1, <1>2
    <2>2. UserInv'
      BY <1>1, <1>2
    <2> QED BY <2>1, <2>2
  <1>3. CASE /\ vpc' = [vpc EXCEPT ![v] = "rollback"]
             /\ vpc[v] \in {"select", "insert", "commit"}
    <2>1. OtpInv'
      BY <1>1, <1>3
    <2>2. UserInv'
      BY <1>1, <1>3
    <2> QED BY <2>1, <2>2
  <1> HIDE DEF IInv
  <1> QED BY <1>1, <1>2, <1>3

LEMMA VerifyKeepsIInv ==
  ASSUME IInv, NEW v \in VerifyReq,
         \/ \E p \in Phone, c \in Code, n \in BOOLEAN : StartVerify(v, p, c, n)
         \/ VerifyStep(v)
  PROVE  IInv'
  <1> USE NoneAssumption DEF IInv, OtpInv, UserInv, TypeOK, CallsHavePhones,
     AnswersAreFinal, StoreHoldsSaved, CheckedWasSaved, PastGetIsChecked,
     ConsumedWasSaved, PastCheckIsConsumed, InsertHasName, UsersComeLate,
     CommitHoldsUser, HoldsRow, OneUncommittedRow, AccountHasOpener,
     TokenNamesCommittedUser, RequestPC, VerifyPC, Reply, Saved, rvars, vvars, Unasked
  <1>1. ASSUME NEW p \in Phone, NEW c \in Code, NEW n \in BOOLEAN,
               StartVerify(v, p, c, n)
        PROVE  IInv'
    BY <1>1 DEF StartVerify
  <1>2. CASE GetOtp(v)
    <2>1. CASE Matches(v, store[vphone[v]])
      <3>1. /\ vpc[v] = "get"
            /\ store[vphone[v]] \in OtpReq
            /\ code[store[vphone[v]]] = vcode[v]
            /\ checked' = [checked EXCEPT ![v] = store[vphone[v]]]
            /\ vpc' = [vpc EXCEPT ![v] = "delete"]
            /\ UNCHANGED <<store, account, consumed, rvars, vphone, vcode,
                           vname, user, outcome, reply>>
        BY <1>2, <2>1 DEF GetOtp, Matches
      <3>2. OtpInv'
        BY <3>1
      <3>3. UserInv'
        BY <3>1
      <3> QED BY <3>2, <3>3
    <2>2. CASE ~Matches(v, store[vphone[v]])
      <3>1. vpc[v] \in Running \ {"respond"} /\ End(v, "invalid_otp")
        BY <1>2, <2>2 DEF GetOtp, Running
      <3> HIDE DEF IInv
      <3> QED BY <1>2, <2>2, <3>1, EndKeepsIInv DEF GetOtp
    <2> QED BY <2>1, <2>2
  <1>3. CASE DeleteOtp(v)
    BY <1>3 DEF DeleteOtp, Delete
  <1>4. CASE FindUser(v)
    <2>1. CASE account[vphone[v]] # None
      <3>1. /\ vpc[v] = "select"
            /\ account[vphone[v]] \in VerifyReq \ {v}
            /\ user' = [user EXCEPT ![v] = account[vphone[v]]]
            /\ vpc' = [vpc EXCEPT ![v] = "commit"]
            /\ UNCHANGED <<store, account, consumed, rvars, vphone, vcode,
                           vname, checked, outcome, reply>>
        BY <1>4, <2>1 DEF FindUser
      <3>2. OtpInv'
        BY <3>1
      <3>3. UserInv'
        BY <3>1
      <3> QED BY <3>2, <3>3
    <2>2. CASE account[vphone[v]] = None /\ vname[v]
      <3>1. /\ vpc[v] = "select" /\ vname[v]
            /\ vpc' = [vpc EXCEPT ![v] = "insert"]
            /\ UNCHANGED <<store, account, consumed, rvars, vphone, vcode,
                           vname, checked, user, outcome, reply>>
        BY <1>4, <2>2 DEF FindUser
      <3>2. OtpInv'
        BY <3>1
      <3>3. UserInv'
        BY <3>1
      <3> QED BY <3>2, <3>3
    <2>3. CASE account[vphone[v]] = None /\ ~vname[v]
      <3>1. /\ vpc[v] = "select"
            /\ outcome' = [outcome EXCEPT ![v] = "name_required"]
            /\ vpc' = [vpc EXCEPT ![v] = "rollback"]
            /\ UNCHANGED <<store, account, consumed, rvars, vphone, vcode,
                           vname, checked, user, reply>>
        BY <1>4, <2>3 DEF FindUser, Abort
      <3>2. OtpInv'
        BY <3>1
      <3>3. UserInv'
        BY <3>1
      <3> QED BY <3>2, <3>3
    <2> QED BY <2>1, <2>2, <2>3
  <1>5. CASE InsertUser(v)
    <2>1. CASE account[vphone[v]] = None
      <3>1. /\ vpc[v] = "insert"
            /\ \A w \in VerifyReq : ~(vphone[w] = vphone[v] /\ HoldsRow(w))
            /\ user' = [user EXCEPT ![v] = v]
            /\ vpc' = [vpc EXCEPT ![v] = "commit"]
            /\ UNCHANGED <<store, account, consumed, rvars, vphone, vcode,
                           vname, checked, outcome, reply>>
        BY <1>5, <2>1 DEF InsertUser, RowIsFree, Uncommitted
      <3>2. OtpInv'
        BY <3>1
      <3>3. UserInv'
        BY <2>1, <3>1
      <3> QED BY <3>2, <3>3
    <2>2. CASE account[vphone[v]] # None
      <3>1. vpc[v] \in Running \ {"respond"} /\ vpc[v] = "insert"
            /\ Abort(v, "internal_error")
        BY <1>5, <2>2 DEF InsertUser, Running
      <3> HIDE DEF IInv
      <3> QED BY <1>5, <2>2, <3>1, EndKeepsIInv DEF InsertUser
    <2> QED BY <2>1, <2>2
  <1>6. CASE Commit(v)
    <2>1. /\ vpc[v] = "commit" /\ Persist(v)
          /\ outcome' = [outcome EXCEPT ![v] = "token"]
          /\ vpc' = [vpc EXCEPT ![v] = "respond"]
          /\ UNCHANGED <<store, consumed, rvars, vphone, vcode, vname,
                         checked, user, reply>>
      BY <1>6 DEF Commit, End
    <2>2. OtpInv'
      BY <2>1 DEF Persist
    <2>3. UserInv'
      BY <2>1 DEF Persist
    <2> QED BY <2>2, <2>3
  <1>7. CASE Rollback(v)
    <2>1. OtpInv'
      BY <1>7 DEF Rollback
    <2>2. UserInv'
      BY <1>7 DEF Rollback
    <2> QED BY <2>1, <2>2
  <1>8. CASE Respond(v)
    <2>1. OtpInv'
      BY <1>8 DEF Respond
    <2>2. UserInv'
      BY <1>8 DEF Respond
    <2> QED BY <2>1, <2>2
  <1> HIDE DEF IInv
  <1> QED BY <1>1, <1>2, <1>3, <1>4, <1>5, <1>6, <1>7, <1>8 DEF VerifyStep

LEMMA FailureKeepsIInv ==
  ASSUME IInv, NEW v \in VerifyReq,
         RedisFails(v) \/ DbFails(v)
  PROVE  IInv'
  <1> USE NoneAssumption DEF IInv, OtpInv, UserInv, TypeOK, CallsHavePhones,
     AnswersAreFinal, StoreHoldsSaved, CheckedWasSaved, PastGetIsChecked,
     ConsumedWasSaved, PastCheckIsConsumed, InsertHasName, UsersComeLate,
     CommitHoldsUser, HoldsRow, OneUncommittedRow, AccountHasOpener,
     TokenNamesCommittedUser, RequestPC, VerifyPC, Reply, Saved, rvars, vvars, Unasked
  <1>1. CASE RedisFails(v)
    <2>1. CASE vpc[v] \in {"get", "delete"} /\ UNCHANGED <<store, consumed>>
      <3>1. vpc[v] \in Running \ {"respond"} /\ End(v, "internal_error")
        BY <1>1, <2>1 DEF Running, RedisFails
      <3> HIDE DEF IInv
      <3> QED BY <1>1, <2>1, <3>1, EndKeepsIInv DEF RedisFails
    <2>2. CASE vpc[v] = "delete" /\ Delete(v)
      BY <1>1, <2>2 DEF RedisFails, Delete, End
    <2> QED BY <1>1, <2>1, <2>2 DEF RedisFails
  <1>2. CASE PoolFails(v) \/ RollbackFails(v)
    <2>1. vpc[v] \in Running \ {"respond"} /\ End(v, "internal_error")
      BY <1>2 DEF PoolFails, RollbackFails, Running
    <2> HIDE DEF IInv
    <2> QED BY <1>2, <2>1, EndKeepsIInv DEF PoolFails, RollbackFails
  <1>3. CASE StatementFails(v)
    <2>1. CASE vpc[v] \in {"select", "insert", "commit"} /\ UNCHANGED <<account, user>>
      <3>1. vpc[v] \in Running \ {"respond"} /\ Abort(v, "internal_error")
        BY <1>3, <2>1 DEF StatementFails, Running
      <3> HIDE DEF IInv
      <3> QED BY <1>3, <2>1, <3>1, EndKeepsIInv DEF StatementFails
    <2>2. CASE /\ vpc[v] = "commit" /\ UNCHANGED account
               /\ user' = [user EXCEPT ![v] = None]
      <3>1. OtpInv'
        BY <1>3, <2>2 DEF StatementFails, Abort
      <3>2. UserInv'
        BY <1>3, <2>2 DEF StatementFails, Abort
      <3> QED BY <3>1, <3>2
    <2>3. CASE vpc[v] = "commit" /\ Persist(v) /\ UNCHANGED user
      <3>1. OtpInv'
        BY <1>3, <2>3 DEF StatementFails, Abort, Persist
      <3>2. UserInv'
        BY <1>3, <2>3 DEF StatementFails, Abort, Persist
      <3> QED BY <3>1, <3>2
    <2> QED BY <1>3, <2>1, <2>2, <2>3 DEF StatementFails
  <1> QED BY <1>1, <1>2, <1>3 DEF DbFails

LEMMA CrashKeepsIInv == IInv /\ Crash => IInv'
  BY NoneAssumption DEF Crash, Running, IInv, OtpInv, UserInv, TypeOK,
     CallsHavePhones, AnswersAreFinal, StoreHoldsSaved, CheckedWasSaved,
     PastGetIsChecked, ConsumedWasSaved, PastCheckIsConsumed,
     InsertHasName, UsersComeLate, CommitHoldsUser, HoldsRow, OneUncommittedRow, AccountHasOpener,
     TokenNamesCommittedUser, RequestPC, VerifyPC, Saved

LEMMA StutterKeepsIInv == IInv /\ UNCHANGED vars => IInv'
  BY DEF vars, rvars, vvars, IInv, OtpInv, UserInv, TypeOK, CallsHavePhones,
     AnswersAreFinal, StoreHoldsSaved, CheckedWasSaved, PastGetIsChecked,
     ConsumedWasSaved, PastCheckIsConsumed, InsertHasName, UsersComeLate,
     CommitHoldsUser, HoldsRow, OneUncommittedRow, AccountHasOpener,
     TokenNamesCommittedUser

\* The invariant is inductive; Expire does not name a request, so it needs
\* that some request wrote the key that expires.
LEMMA NextKeepsIInv == IInv /\ [Next]_vars => IInv'
  <1> SUFFICES ASSUME IInv, [Next]_vars PROVE IInv'
    OBVIOUS
  <1>1. ASSUME NEW p \in Phone, Expire(p) PROVE IInv'
    <2>1. store[p] \in OtpReq
      BY <1>1 DEF Expire, IInv, OtpInv, TypeOK
    <2> QED BY <1>1, <2>1, RequestKeepsIInv
  <1> QED BY <1>1, RequestKeepsIInv, VerifyKeepsIInv, FailureKeepsIInv,
             CrashKeepsIInv, StutterKeepsIInv DEF Next

LEMMA Invariance == Spec => []IInv
  BY InitIInv, NextKeepsIInv, PTL DEF Spec

\* A password is not saved again once it is consumed: the key of its phone is
\* deleted with it, and a call saves only once.
LEMMA ConsumedStaysGone == IInv /\ ConsumedIsGone /\ [Next]_vars => ConsumedIsGone'
  <1> SUFFICES ASSUME IInv, ConsumedIsGone, [Next]_vars PROVE ConsumedIsGone'
    OBVIOUS
  <1> USE NoneAssumption DEF IInv, OtpInv, TypeOK, ConsumedIsGone, ConsumedWasSaved, Saved
  <1>1. CASE UNCHANGED <<store, consumed>>
    BY <1>1
  <1>2. ASSUME NEW r \in OtpReq, rpc[r] = "save", UNCHANGED consumed,
               store' = [store EXCEPT ![rphone[r]] = r]
        PROVE  ConsumedIsGone'
    BY <1>2
  <1>3. ASSUME NEW p \in Phone, Expire(p) PROVE ConsumedIsGone'
    BY <1>3 DEF Expire
  <1>4. ASSUME NEW v \in VerifyReq, vpc[v] = "delete", Delete(v)
        PROVE  ConsumedIsGone'
    BY <1>4 DEF Delete, CheckedWasSaved, PastGetIsChecked, StoreHoldsSaved, CallsHavePhones
  <1> HIDE DEF IInv, OtpInv, TypeOK, ConsumedIsGone, ConsumedWasSaved, Saved
  <1>5. ASSUME NEW r \in OtpReq,
               \/ \E p \in Phone, c \in Code : StartRequest(r, p, c)
               \/ RequestStep(r) \/ SaveFails(r) \/ SendFails(r)
        PROVE  ConsumedIsGone'
    BY <1>1, <1>2, <1>5 DEF StartRequest, RequestStep, SaveOtp, SendOtp, SaveFails,
       SendFails
  <1>6. ASSUME NEW v \in VerifyReq,
               \/ \E p \in Phone, c \in Code, n \in BOOLEAN : StartVerify(v, p, c, n)
               \/ VerifyStep(v) \/ RedisFails(v) \/ DbFails(v)
        PROVE  ConsumedIsGone'
    BY <1>1, <1>4, <1>6 DEF StartVerify, VerifyStep, GetOtp, DeleteOtp, FindUser,
       InsertUser, Commit, Rollback, Respond, RedisFails, DbFails, PoolFails,
       StatementFails, RollbackFails
  <1> QED BY <1>1, <1>3, <1>5, <1>6 DEF Next, Crash, vars

----------------------------------------------------------------------------
(* The properties the runs check, for every value of the constants. *)

\* Every variable keeps its type.
THEOREM TypeCorrect == Spec => []TypeOK
  <1>1. IInv => TypeOK
    BY DEF IInv, OtpInv
  <1> QED BY <1>1, Invariance, PTL

\* A token only ever names the committed account of the phone it verified:
\* the token of verify_otp_and_authenticate, created before the route commits,
\* leaves the gateway after it.
THEOREM TokensNameCommittedUsers == Spec => []TokenNamesCommittedUser
  <1>1. IInv => TokenNamesCommittedUser
    BY DEF IInv, UserInv
  <1> QED BY <1>1, Invariance, PTL

\* A password that was deleted by the call it let in never comes back.
THEOREM ConsumedPasswordsAreGone == Spec => []ConsumedIsGone
  <1>1. Init => ConsumedIsGone
    BY NoneAssumption DEF Init, ConsumedIsGone
  <1> QED BY <1>1, ConsumedStaysGone, Invariance, PTL DEF Spec

\* Every account goes back to a password saved for its phone and typed in.
THEOREM AccountsHaveProvenance == Spec => []AccountHasProvenance
  <1>1. IInv => AccountHasProvenance
    <2> SUFFICES ASSUME IInv, NEW p \in Phone, account[p] # None
                 PROVE  LET w == account[p] IN
                        /\ vphone[w] = p /\ vname[w]
                        /\ checked[w] # None
                        /\ rphone[checked[w]] = p
                        /\ code[checked[w]] = vcode[w]
      BY DEF AccountHasProvenance
    <2>1. account[p] \in VerifyReq
      BY DEF IInv, OtpInv, TypeOK
    <2> QED BY <2>1 DEF IInv, OtpInv, UserInv, AccountHasOpener, CheckedWasSaved
  <1> QED BY <1>1, Invariance, PTL

\* The unique index serialises the registrations of a phone.
THEOREM RegistrationsAreSerial == Spec => []OneRegistrationAtATime
  <1>1. IInv => OneRegistrationAtATime
    <2> SUFFICES ASSUME IInv, NEW p \in Phone
                 PROVE  /\ Cardinality(Uncommitted(p)) <= 1
                        /\ account[p] # None => Uncommitted(p) = {}
      BY DEF OneRegistrationAtATime
    <2>1. \A v, w \in Uncommitted(p) : v = w
      BY DEF IInv, UserInv, OneUncommittedRow, Uncommitted
    <2>2. CASE Uncommitted(p) = {}
      BY <2>2, FS_EmptySet
    <2>3. CASE Uncommitted(p) # {}
      <3> PICK v \in Uncommitted(p) : TRUE
        BY <2>3
      <3>1. Uncommitted(p) = {v}
        BY <2>1
      <3>2. account[p] = None
        BY DEF Uncommitted, IInv, UserInv, CommitHoldsUser
      <3> QED BY <3>1, <3>2, FS_Singleton
    <2> QED BY <2>2, <2>3
  <1> QED BY <1>1, Invariance, PTL

\* A call at its COMMIT or its ROLLBACK waits for nothing, and a call that waits
\* for a row waits for one of these; so among those that hold a connection one
\* goes on.
LEMMA WaitsEndSoon ==
  ASSUME NEW v \in VerifyReq, v \in InTransaction
  PROVE  \E w \in InTransaction : vpc[w] \in Running /\ ~Waits(w)
  <1> USE DEF Waits, WaitsForRow, WaitsForConnection, InTransaction, Running
  <1>1. \A w \in VerifyReq : vpc[w] \in {"commit", "rollback"} => ~Waits(w)
    OBVIOUS
  <1>2. CASE vpc[v] \in {"commit", "rollback"}
    BY <1>1, <1>2
  <1>3. CASE vpc[v] = "insert" /\ ~RowIsFree(v)
    <2>1. PICK w \in VerifyReq : vpc[w] \in {"commit", "rollback"}
      BY <1>3 DEF RowIsFree, Uncommitted, HoldsRow
    <2> QED BY <1>1, <2>1
  <1>4. CASE vpc[v] = "insert" /\ RowIsFree(v)
    BY <1>4
  <1> QED BY <1>2, <1>3, <1>4

\* The row that is waited for is the only one of its phone, which has no account.
LEMMA RowsHaveOneHolder ==
  ASSUME IInv, NEW v \in VerifyReq, WaitsForRow(v)
  PROVE  /\ account[vphone[v]] = None
         /\ \E w \in InTransaction \ {v} :
               Uncommitted(vphone[v]) = {w} /\ vpc[w] \in Running /\ ~Waits(w)
  <1>1. PICK w \in VerifyReq : vphone[w] = vphone[v] /\ HoldsRow(w)
    BY DEF WaitsForRow, RowIsFree, Uncommitted
  <1>2. Uncommitted(vphone[v]) = {w}
    BY <1>1 DEF IInv, UserInv, OneUncommittedRow, Uncommitted
  <1>3. account[vphone[v]] = None
    BY <1>1 DEF IInv, UserInv, CommitHoldsUser
  <1>4. w \in InTransaction \ {v} /\ vpc[w] \in Running /\ ~Waits(w)
    BY <1>1 DEF HoldsRow, WaitsForRow, Waits, WaitsForConnection, InTransaction, Running
  <1> QED BY <1>2, <1>3, <1>4

\* Connections and rows are never waited for in a circle, so that no number of
\* calls and no size of the pool can bring the gateway to a standstill.
THEOREM WaitingIsNotCircular == Spec => []NoCircularWait
  <1>1. IInv => NoCircularWait
    <2> SUFFICES ASSUME IInv, NEW v \in VerifyReq, WaitsForConnection(v)
                 PROVE  \E w \in InTransaction : vpc[w] \in Running /\ ~Waits(w)
      BY RowsHaveOneHolder DEF NoCircularWait
    <2>1. InTransaction # {}
      BY PoolAssumption, FS_EmptySet DEF WaitsForConnection
    <2>2. PICK u \in InTransaction : TRUE
      BY <2>1
    <2>3. u \in VerifyReq
      BY <2>2 DEF InTransaction
    <2> QED BY <2>2, <2>3, WaitsEndSoon
  <1> QED BY <1>1, Invariance, PTL

\* No step takes an account away or puts another in its place.
LEMMA AccountsStay ==
  ASSUME IInv, [Next]_vars, NEW p \in Phone, account[p] # None
  PROVE  account'[p] = account[p]
  <1>1. ASSUME NEW v \in VerifyReq, vpc[v] = "commit", Persist(v)
        PROVE  account'[p] = account[p]
    <2>1. CASE user[v] # v
      BY <1>1, <2>1 DEF Persist
    <2>2. CASE user[v] = v
      <3>1. account[vphone[v]] # v
        BY <1>1, NoneAssumption DEF IInv, OtpInv, UserInv, TypeOK, CallsHavePhones,
           AccountHasOpener
      <3>2. account[vphone[v]] = None
        BY <1>1, <2>2, <3>1 DEF IInv, UserInv, CommitHoldsUser, HoldsRow
      <3> QED BY <1>1, <2>2, <3>2 DEF Persist, IInv, OtpInv, TypeOK
    <2> QED BY <2>1, <2>2
  <1>2. ASSUME NEW v \in VerifyReq, Commit(v) \/ StatementFails(v)
        PROVE  account'[p] = account[p]
    BY <1>1, <1>2 DEF Commit, StatementFails
  <1>3. CASE UNCHANGED account
    BY <1>3
  <1> QED BY <1>2, <1>3 DEF Next, RequestStep, VerifyStep, StartRequest,
      SaveOtp, SendOtp, SaveFails, SendFails, Expire, StartVerify, GetOtp,
      DeleteOtp, FindUser, InsertUser, Rollback, Respond, RedisFails, DbFails,
      PoolFails, RollbackFails, Crash, vars

\* An account, once committed, belongs to its phone for ever: no later call,
\* crash or failure takes it away or replaces it.
THEOREM AccountsNeverChange == Spec => AccountsAreStable
  <1>1. IInv /\ [Next]_vars =>
          [\A p \in Phone : account[p] # None => account'[p] = account[p]]_vars
    BY AccountsStay
  <1> QED BY <1>1, Invariance, PTL DEF Spec, AccountsAreStable

\* From the moment a phone is answered with a token, no SELECT of a call for it
\* finds that a display_name is needed.
THEOREM RegistrationIsRemembered == Spec => NoReregistration
  <1>1. IInv /\ [Next]_vars =>
          [\A v, w \in VerifyReq :
              /\ reply[w] = "token" /\ vphone[w] = vphone[v]
              /\ outcome'[v] = "name_required"
              => outcome[v] = "name_required"]_vars
    <2> SUFFICES ASSUME IInv, Next, NEW v \in VerifyReq, NEW w \in VerifyReq,
                        reply[w] = "token", vphone[w] = vphone[v],
                        outcome'[v] = "name_required"
                 PROVE  outcome[v] = "name_required"
      OBVIOUS
    <2>1. account[vphone[v]] # None
      BY DEF IInv, UserInv, TokenNamesCommittedUser
    <2>2. CASE UNCHANGED outcome
      BY <2>2
    <2>3. ASSUME NEW u \in VerifyReq, FindUser(u)
          PROVE  outcome[v] = "name_required"
      BY <2>1, <2>3 DEF FindUser, Abort, IInv, OtpInv, TypeOK
    <2>4. ASSUME NEW u \in VerifyReq, GetOtp(u) \/ InsertUser(u) \/ Commit(u)
                                      \/ RedisFails(u) \/ DbFails(u)
          PROVE  outcome[v] = "name_required"
      <3>1. \/ UNCHANGED outcome
            \/ \E a \in Reply \ {"name_required"} : outcome' = [outcome EXCEPT ![u] = a]
        BY <2>4 DEF GetOtp, InsertUser, Commit, RedisFails, DbFails, PoolFails,
           StatementFails, RollbackFails, End, Abort, Reply
      <3> QED BY <3>1 DEF IInv, OtpInv, TypeOK
    <2> QED BY <2>2, <2>3, <2>4 DEF Next, RequestStep, VerifyStep,
        StartRequest, SaveOtp, SendOtp, SaveFails, SendFails, Expire,
        StartVerify, DeleteOtp, Rollback, Respond, Crash, vvars
  <1> QED BY <1>1, Invariance, PTL DEF Spec, NoReregistration

----------------------------------------------------------------------------
(* The gateway implements AuthLedger. *)

\* The initial states map to the initial state of the ledger.
LEMMA InitRefines == Init => Ledger!Init
  BY DEF Init, Ledger!Init, Saved, OwnerOf, GrantedTo

\* A request step publishes its password or changes nothing a client is
\* promised.
LEMMA RequestRefines ==
  ASSUME IInv, NEW r \in OtpReq,
         \/ \E p \in Phone, c \in Code : StartRequest(r, p, c)
         \/ RequestStep(r) \/ SaveFails(r) \/ SendFails(r)
  PROVE  [Ledger!Next]_Ledger!ledger
  <1> USE DEF IInv, OtpInv
  <1>1. UNCHANGED <<account, consumed, checked, GrantedTo>>
    BY DEF StartRequest, RequestStep, SaveOtp, SendOtp, SaveFails, SendFails,
           vvars, GrantedTo
  <1>2. CASE UNCHANGED <<store, OwnerOf>>
    BY <1>1, <1>2 DEF Ledger!ledger
  <1>3. ASSUME rpc[r] = "save", store' = [store EXCEPT ![rphone[r]] = r],
               NEW s \in {"send", "failed"}, rpc' = [rpc EXCEPT ![r] = s],
               UNCHANGED rphone
        PROVE  Ledger!Next
    <2>1. rphone[r] \in Phone
      BY <1>3 DEF CallsHavePhones
    <2>2. OwnerOf[r] = None
      BY <1>3 DEF OwnerOf, Saved
    <2>3. OwnerOf' = [OwnerOf EXCEPT ![r] = rphone[r]]
      BY <1>3 DEF OwnerOf, Saved, TypeOK
    <2>4. Ledger!Publish(r, rphone[r])
      BY <1>1, <1>3, <2>2, <2>3 DEF Ledger!Publish
    <2> QED BY <2>1, <2>4 DEF Ledger!Next
  <1>4. ASSUME NEW p \in Phone, NEW c \in Code, StartRequest(r, p, c)
        PROVE  UNCHANGED <<store, OwnerOf>>
    BY <1>4 DEF StartRequest, OwnerOf, Saved, TypeOK
  <1>5. CASE SaveOtp(r)
    BY <1>3, <1>5 DEF SaveOtp
  <1>6. CASE SaveFails(r)
    <2>1. CASE UNCHANGED store /\ rpc' = [rpc EXCEPT ![r] = "lost"]
      <3>1. UNCHANGED OwnerOf
        BY <1>6, <2>1 DEF SaveFails, OwnerOf, Saved, TypeOK
      <3> QED BY <1>2, <2>1, <3>1
    <2> QED BY <1>3, <1>6, <2>1 DEF SaveFails
  <1>7. CASE SendOtp(r) \/ SendFails(r)
    <2>1. UNCHANGED OwnerOf
      BY <1>7 DEF SendOtp, SendFails, OwnerOf, Saved, TypeOK
    <2> QED BY <1>2, <1>7, <2>1 DEF SendOtp, SendFails
  <1> QED BY <1>2, <1>4, <1>5, <1>6, <1>7 DEF RequestStep

LEMMA ExpireRefines ==
  ASSUME NEW p \in Phone, Expire(p)
  PROVE  Ledger!Next
  <1>1. Ledger!Lapse(p)
    BY DEF Expire, Ledger!Lapse, rvars, vvars, OwnerOf, GrantedTo
  <1> QED BY <1>1 DEF Ledger!Next

\* The verify steps: GET proves, DELETE spends, COMMIT opens, the response
\* grants, and the others change nothing a client is promised.  Only GET needs
\* that spent passwords are gone.
LEMMA VerifyRefines ==
  ASSUME IInv, NEW v \in VerifyReq, GetOtp(v) => ConsumedIsGone,
         \/ \E p \in Phone, c \in Code, n \in BOOLEAN : StartVerify(v, p, c, n)
         \/ VerifyStep(v) \/ RedisFails(v) \/ DbFails(v)
  PROVE  [Ledger!Next]_Ledger!ledger
  <1> USE NoneAssumption DEF IInv, OtpInv, UserInv
  <1>1. UNCHANGED OwnerOf
    BY DEF StartVerify, VerifyStep, GetOtp, DeleteOtp, FindUser, InsertUser,
           Commit, Rollback, Respond, RedisFails, DbFails, PoolFails,
           StatementFails, RollbackFails, Unasked, rvars, OwnerOf
  <1>2. checked[v] # None => OwnerOf[checked[v]] = vphone[v] /\ checked[v] \in OtpReq
    BY DEF TypeOK, CheckedWasSaved, OwnerOf
  <1>3. ASSUME vpc[v] # "done", UNCHANGED reply,
               UNCHANGED user \/ \E u : user' = [user EXCEPT ![v] = u]
        PROVE  UNCHANGED GrantedTo
    <2>1. reply[v] # "token"
      BY <1>3, NoneAssumption DEF AnswersAreFinal, Reply
    <2>2. \A w \in VerifyReq : w # v => user'[w] = user[w]
      BY <1>3 DEF TypeOK
    <2> QED BY <1>3, <2>1, <2>2 DEF GrantedTo
  <1>4. ASSUME Delete(v), vpc[v] = "delete", UNCHANGED <<account, checked, GrantedTo>>
        PROVE  Ledger!Next
    <2>1. checked[v] # None
      BY <1>4 DEF PastGetIsChecked
    <2>2. Ledger!Spend(v)
      BY <1>1, <1>2, <1>4, <2>1 DEF Delete, Ledger!Spend
    <2> QED BY <2>2 DEF Ledger!Next
  <1>5. ASSUME Persist(v), vpc[v] = "commit",
               UNCHANGED <<store, consumed, checked, GrantedTo>>
        PROVE  [Ledger!Next]_Ledger!ledger
    <2>1. checked[v] \in consumed /\ checked[v] # None
      BY <1>5 DEF PastCheckIsConsumed, PastGetIsChecked
    <2>2. CASE user[v] = v
      <3>1. account[vphone[v]] # v
        BY <1>5 DEF TypeOK, CallsHavePhones, AccountHasOpener
      <3>2. account[vphone[v]] = None
        BY <1>5, <2>2, <3>1 DEF CommitHoldsUser, HoldsRow
      <3>3. Ledger!Open(v)
        BY <1>1, <1>2, <1>5, <2>1, <2>2, <3>2 DEF Persist, Ledger!Open
      <3> QED BY <3>3 DEF Ledger!Next
    <2>3. CASE user[v] # v
      BY <1>1, <1>5, <2>3 DEF Persist, Ledger!ledger
    <2> QED BY <2>2, <2>3
  <1>6. ASSUME NEW p \in Phone, NEW c \in Code, NEW n \in BOOLEAN,
               StartVerify(v, p, c, n)
        PROVE  UNCHANGED Ledger!ledger
    BY <1>1, <1>6 DEF StartVerify, GrantedTo, Ledger!ledger
  <1>7. CASE GetOtp(v)
    <2>1. CASE Matches(v, store[vphone[v]])
      <3>1. vphone[v] \in Phone /\ checked[v] = None
        BY <1>7 DEF GetOtp, CallsHavePhones, CheckedWasSaved
      <3>2. Ledger!Prove(v, vphone[v])
        BY <1>1, <1>7, <2>1, <3>1 DEF GetOtp, Matches, ConsumedIsGone, GrantedTo,
           Ledger!Prove
      <3> QED BY <3>1, <3>2 DEF Ledger!Next
    <2>2. CASE ~Matches(v, store[vphone[v]])
      <3>1. UNCHANGED <<store, account, consumed, checked, user, reply>>
        BY <1>7, <2>2 DEF GetOtp
      <3> QED BY <1>1, <3>1 DEF GrantedTo, Ledger!ledger
    <2> QED BY <2>1, <2>2
  <1>8. CASE DeleteOtp(v)
    BY <1>4, <1>8 DEF DeleteOtp, GrantedTo
  <1>9. CASE FindUser(v) \/ InsertUser(v)
    <2>1. /\ UNCHANGED <<store, account, consumed, checked, reply>>
          /\ vpc[v] # "done"
          /\ UNCHANGED user \/ \E u : user' = [user EXCEPT ![v] = u]
      BY <1>9 DEF FindUser, InsertUser
    <2>2. UNCHANGED GrantedTo
      BY <1>3, <2>1
    <2> QED BY <1>1, <2>1, <2>2 DEF Ledger!ledger
  <1>10. CASE Commit(v)
    BY <1>5, <1>10 DEF Commit, GrantedTo
  <1>11. CASE Respond(v)
    <2>1. UNCHANGED <<store, account, consumed, checked, user>> /\ reply[v] = None
      BY <1>11 DEF Respond, AnswersAreFinal
    <2>2. reply' = [reply EXCEPT ![v] = outcome[v]]
      BY <1>11 DEF Respond
    <2>3. CASE outcome[v] = "token"
      <3>1. /\ checked[v] \in consumed /\ checked[v] # None
            /\ user[v] # None /\ account[vphone[v]] = user[v]
        BY <2>3 DEF PastCheckIsConsumed, PastGetIsChecked, TokenNamesCommittedUser
      <3>2. GrantedTo[v] = None /\ GrantedTo' = [GrantedTo EXCEPT ![v] = user[v]]
        BY <2>1, <2>2, <2>3 DEF GrantedTo, TypeOK, Reply
      <3>3. Ledger!Grant(v)
        BY <1>1, <1>2, <2>1, <3>1, <3>2 DEF Ledger!Grant
      <3> QED BY <3>3 DEF Ledger!Next
    <2>4. CASE outcome[v] # "token"
      <3>1. UNCHANGED GrantedTo
        BY <2>1, <2>2, <2>4 DEF GrantedTo, TypeOK, Reply
      <3> QED BY <1>1, <2>1, <3>1 DEF Ledger!ledger
    <2> QED BY <2>3, <2>4
  <1>12. CASE Rollback(v)
    BY <1>1, <1>12 DEF Rollback, GrantedTo, Ledger!ledger
  <1>13. CASE RedisFails(v)
    <2>1. UNCHANGED <<account, checked, GrantedTo>>
      BY <1>13 DEF RedisFails, GrantedTo
    <2> QED BY <1>1, <1>4, <1>13, <2>1 DEF RedisFails, Ledger!ledger
  <1>14. CASE DbFails(v)
    <2>1. /\ UNCHANGED <<store, consumed, checked, reply>> /\ vpc[v] # "done"
          /\ UNCHANGED user \/ \E u : user' = [user EXCEPT ![v] = u]
      BY <1>14 DEF DbFails, PoolFails, StatementFails, RollbackFails
    <2>2. UNCHANGED account \/ (vpc[v] = "commit" /\ Persist(v))
      BY <1>14 DEF DbFails, PoolFails, StatementFails, RollbackFails
    <2>3. UNCHANGED GrantedTo
      BY <1>3, <2>1
    <2> QED BY <1>1, <1>5, <2>1, <2>2, <2>3 DEF Ledger!ledger
  <1> QED BY <1>6, <1>7, <1>8, <1>9, <1>10, <1>11, <1>12, <1>13, <1>14 DEF VerifyStep

LEMMA CrashRefines == IInv /\ Crash => UNCHANGED Ledger!ledger
  BY DEF Crash, Ledger!ledger, OwnerOf, GrantedTo, Saved, IInv, OtpInv, TypeOK

\* The same of every step.
LEMMA StepRefines ==
  ASSUME IInv, [Next]_vars, ConsumedIsGone \/ \A v \in VerifyReq : ~GetOtp(v)
  PROVE  [Ledger!Next]_Ledger!ledger
  <1>1. CASE UNCHANGED vars
    BY <1>1 DEF vars, rvars, vvars, OwnerOf, GrantedTo, Ledger!ledger
  <1> QED BY <1>1, RequestRefines, ExpireRefines, VerifyRefines, CrashRefines
          DEF Next

\* Whatever the interleaving, the failures and the crashes, clients only see
\* what AuthLedger allows.
THEOREM GatewayImplementsLedger == Spec => ImplementsLedger
  <1>1. IInv /\ ConsumedIsGone /\ [Next]_vars => [Ledger!Next]_Ledger!ledger
    BY StepRefines
  <1> QED BY <1>1, InitRefines, Invariance, ConsumedPasswordsAreGone, PTL
          DEF Spec, ImplementsLedger, Ledger!Spec
=============================================================================
