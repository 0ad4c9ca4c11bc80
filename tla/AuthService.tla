---------------------------- MODULE AuthService ----------------------------
(***************************************************************************)
(* Phone login in the API gateway: the coroutines behind                   *)
(*   POST /auth/otp/request   (generate_otp, OTPStore.save, send_otp) and  *)
(*   POST /auth/otp/verify    (OTPStore.verify_and_consume, the lookup or  *)
(*                             insert of the user, commit, the response)   *)
(* interleaved at every await.  Redis commands and SQL statements are      *)
(* atomic; what runs between two of them is not.  A one-time password is   *)
(* told apart from others by the request that issued it, not by its six    *)
(* digits, which may repeat.  A user is named by the verify call that      *)
(* inserted it (User.id is a fresh uuid4).                                 *)
(***************************************************************************)
EXTENDS Naturals, FiniteSets

CONSTANTS Phone,      \* phone numbers, in canonical form
          Code,       \* six-digit one-time passwords
          OtpReq,     \* calls of POST /otp/request
          VerifyReq,  \* calls of POST /otp/verify
          PoolSize,   \* connections of the SQLAlchemy pool
          None        \* Python's None, and "not yet"

\* The answers of /otp/verify.
Reply == {"token", "invalid_otp", "name_required", "internal_error"}

ASSUME NoneAssumption ==
    None \notin Phone \cup Code \cup OtpReq \cup VerifyReq \cup Reply
ASSUME PoolAssumption == PoolSize \in Nat \ {0}

VARIABLES
    store,    \* Redis: the issue under key otp:<phone>
    account,  \* PostgreSQL: the committed row of table users for a phone
    rpc,      \* where a request call is
    rphone,   \* its phone
    code,     \* the password it generated
    inbox,    \* the issue last delivered to a phone
    vpc,      \* where a verify call is
    vphone,   \* its phone
    vcode,    \* the password its client typed
    vname,    \* whether it carries a display_name
    checked,  \* the issue its GET returned and its comparison accepted
    user,     \* the user the service holds: found or inserted
    outcome,  \* the answer that what the handler returned or raised will become
    reply,    \* the answer of the gateway, once it has left
    consumed  \* history: issues removed by a DELETE of a call they let in

rvars == <<rpc, rphone, code, inbox>>
vvars == <<vpc, vphone, vcode, vname, checked, user, outcome, reply>>
vars  == <<store, account, consumed, rvars, vvars>>

RequestPC == {"idle", "save", "send", "sent", "failed", "lost"}
VerifyPC  == {"idle", "get", "delete", "select", "insert", "commit",
              "rollback", "respond", "done", "crashed"}

\* The request calls whose SET took effect.
Saved == {"send", "sent", "failed"}

\* The verify calls that are being handled.
Running == {"get", "delete", "select", "insert", "commit", "rollback", "respond"}

TypeOK ==
    /\ store \in [Phone -> OtpReq \cup {None}]
    /\ account \in [Phone -> VerifyReq \cup {None}]
    /\ rpc \in [OtpReq -> RequestPC]
    /\ rphone \in [OtpReq -> Phone \cup {None}]
    /\ code \in [OtpReq -> Code \cup {None}]
    /\ inbox \in [Phone -> OtpReq \cup {None}]
    /\ vpc \in [VerifyReq -> VerifyPC]
    /\ vphone \in [VerifyReq -> Phone \cup {None}]
    /\ vcode \in [VerifyReq -> Code \cup {None}]
    /\ vname \in [VerifyReq -> BOOLEAN]
    /\ checked \in [VerifyReq -> OtpReq \cup {None}]
    /\ user \in [VerifyReq -> VerifyReq \cup {None}]
    /\ outcome \in [VerifyReq -> Reply \cup {None}]
    /\ reply \in [VerifyReq -> Reply \cup {None}]
    /\ consumed \in SUBSET OtpReq

Init ==
    /\ store = [p \in Phone |-> None]
    /\ account = [p \in Phone |-> None]
    /\ rpc = [r \in OtpReq |-> "idle"]
    /\ rphone = [r \in OtpReq |-> None]
    /\ code = [r \in OtpReq |-> None]
    /\ inbox = [p \in Phone |-> None]
    /\ vpc = [v \in VerifyReq |-> "idle"]
    /\ vphone = [v \in VerifyReq |-> None]
    /\ vcode = [v \in VerifyReq |-> None]
    /\ vname = [v \in VerifyReq |-> FALSE]
    /\ checked = [v \in VerifyReq |-> None]
    /\ user = [v \in VerifyReq |-> None]
    /\ outcome = [v \in VerifyReq |-> None]
    /\ reply = [v \in VerifyReq |-> None]
    /\ consumed = {}

----------------------------------------------------------------------------
(* POST /otp/request *)

\* The call arrives and generate_otp draws any code, an earlier one included.
StartRequest(r, p, c) ==
    /\ rpc[r] = "idle"
    /\ rpc' = [rpc EXCEPT ![r] = "save"]
    /\ rphone' = [rphone EXCEPT ![r] = p]
    /\ code' = [code EXCEPT ![r] = c]
    /\ UNCHANGED <<store, account, consumed, inbox, vvars>>

\* Slip for SaveOtp: SET with NX, a password that is still there stays.
SaveOtpIfAbsent(r) ==
    /\ rpc[r] = "save"
    /\ store' = [store EXCEPT ![rphone[r]] = IF @ = None THEN r ELSE @]
    /\ rpc' = [rpc EXCEPT ![r] = "send"]
    /\ UNCHANGED <<account, consumed, rphone, code, inbox, vvars>>

\* SET otp:<phone> code EX 300 replaces whatever was there.
SaveOtp(r) ==
    /\ rpc[r] = "save"
    /\ store' = [store EXCEPT ![rphone[r]] = r]
    /\ rpc' = [rpc EXCEPT ![r] = "send"]
    /\ UNCHANGED <<account, consumed, rphone, code, inbox, vvars>>

\* send_otp delivers, and the client gets its 204.
SendOtp(r) ==
    /\ rpc[r] = "send"
    /\ inbox' = [inbox EXCEPT ![rphone[r]] = r]
    /\ rpc' = [rpc EXCEPT ![r] = "sent"]
    /\ UNCHANGED <<store, account, consumed, rphone, code, vvars>>

\* The SET raises, the command having reached Redis or not: 500, no send.
SaveFails(r) ==
    /\ rpc[r] = "save"
    /\ \/ /\ store' = [store EXCEPT ![rphone[r]] = r]
          /\ rpc' = [rpc EXCEPT ![r] = "failed"]
       \/ /\ rpc' = [rpc EXCEPT ![r] = "lost"]
          /\ UNCHANGED store
    /\ UNCHANGED <<account, consumed, rphone, code, inbox, vvars>>

\* send_otp raises on delivery failure: 500, and the password stays saved.
SendFails(r) ==
    /\ rpc[r] = "send"
    /\ rpc' = [rpc EXCEPT ![r] = "failed"]
    /\ UNCHANGED <<store, account, consumed, rphone, code, inbox, vvars>>

\* The key of a phone reaches its time to live.
Expire(p) ==
    /\ store[p] # None
    /\ store' = [store EXCEPT ![p] = None]
    /\ UNCHANGED <<account, consumed, rvars, vvars>>

----------------------------------------------------------------------------
(* POST /otp/verify *)

StartVerify(v, p, c, n) ==
    /\ vpc[v] = "idle"
    /\ vpc' = [vpc EXCEPT ![v] = "get"]
    /\ vphone' = [vphone EXCEPT ![v] = p]
    /\ vcode' = [vcode EXCEPT ![v] = c]
    /\ vname' = [vname EXCEPT ![v] = n]
    /\ UNCHANGED <<store, account, consumed, rvars, checked, user, outcome, reply>>

\* What a step of a call leaves as it is: its inputs and the request calls.
Unasked == UNCHANGED <<rvars, vphone, vcode, vname>>

\* The handler is over, and its session holds no connection: what is left is to
\* close it and to answer.
End(v, a) ==
    /\ outcome' = [outcome EXCEPT ![v] = a]
    /\ vpc' = [vpc EXCEPT ![v] = "respond"]

\* An exception leaves the handler while its session holds a connection:
\* get_db_session awaits the rollback first.
Abort(v, a) ==
    /\ outcome' = [outcome EXCEPT ![v] = a]
    /\ vpc' = [vpc EXCEPT ![v] = "rollback"]

\* Slip for Matches: any stored password is as good as the right one.
MatchesAnyCode(v, r) == r # None

\* The comparison of verify_and_consume.
Matches(v, r) == r # None /\ code[r] = vcode[v]

\* Slip for GetOtp: a wrong guess takes the password away.
GetOtpOnce(v) ==
    LET stored == store[vphone[v]] IN
    /\ vpc[v] = "get"
    /\ \/ /\ Matches(v, stored)
          /\ checked' = [checked EXCEPT ![v] = stored]
          /\ vpc' = [vpc EXCEPT ![v] = "delete"]
          /\ UNCHANGED <<store, outcome>>
       \/ /\ ~Matches(v, stored)
          /\ store' = [store EXCEPT ![vphone[v]] = None]
          /\ End(v, "invalid_otp")
          /\ UNCHANGED checked
    /\ Unasked /\ UNCHANGED <<account, consumed, user, reply>>

\* GET otp:<phone> and the comparison, with no await between them.
GetOtp(v) ==
    LET stored == store[vphone[v]] IN
    /\ vpc[v] = "get"
    /\ \/ /\ Matches(v, stored)
          /\ checked' = [checked EXCEPT ![v] = stored]
          /\ vpc' = [vpc EXCEPT ![v] = "delete"]
          /\ UNCHANGED outcome
       \/ /\ ~Matches(v, stored)
          /\ End(v, "invalid_otp")
          /\ UNCHANGED checked
    /\ Unasked /\ UNCHANGED <<store, account, consumed, user, reply>>

\* Slip for Delete: the call believes it removed the key, the key stays.
DeleteNothing(v) ==
    /\ consumed' = consumed \cup {checked[v]}
    /\ UNCHANGED store

\* What DEL otp:<phone> does to Redis: the key goes, whatever it holds.
Delete(v) ==
    /\ store' = [store EXCEPT ![vphone[v]] = None]
    /\ consumed' = consumed \cup {checked[v]}

\* Slip for DeleteOtp: accepted passwords are not deleted at all.
SkipDelete(v) ==
    /\ vpc[v] = "delete"
    /\ vpc' = [vpc EXCEPT ![v] = "select"]
    /\ Unasked /\ UNCHANGED <<store, consumed, account, checked, user, outcome, reply>>

DeleteOtp(v) ==
    /\ vpc[v] = "delete"
    /\ Delete(v)
    /\ vpc' = [vpc EXCEPT ![v] = "select"]
    /\ Unasked /\ UNCHANGED <<account, checked, user, outcome, reply>>

\* Slip for InTransaction: a call that raises keeps its connection.
LeakedConnections ==
    {w \in VerifyReq : \/ vpc[w] \in {"insert", "commit", "rollback"}
                       \/ reply[w] = "name_required"}

\* The calls that hold a connection: from their SELECT until COMMIT or ROLLBACK
\* is over.
InTransaction == {w \in VerifyReq : vpc[w] \in {"insert", "commit", "rollback"}}

\* get_by_phone_number, on a connection of the pool: it sees committed rows.
FindUser(v) ==
    LET found == account[vphone[v]] IN
    /\ vpc[v] = "select"
    /\ Cardinality(InTransaction) < PoolSize
    /\ \/ /\ found # None
          /\ user' = [user EXCEPT ![v] = found]
          /\ vpc' = [vpc EXCEPT ![v] = "commit"]
          /\ UNCHANGED outcome
       \/ /\ found = None /\ vname[v]
          /\ vpc' = [vpc EXCEPT ![v] = "insert"]
          /\ UNCHANGED <<user, outcome>>
       \/ /\ found = None /\ ~vname[v]
          /\ Abort(v, "name_required")
          /\ UNCHANGED user
    /\ Unasked /\ UNCHANGED <<store, account, consumed, checked, reply>>

\* The INSERT of call w went through and its row is neither committed nor undone.
HoldsRow(w) ==
    /\ vpc[w] \in {"commit", "rollback"}
    /\ user[w] = w
    /\ account[vphone[w]] # w

Uncommitted(p) == {w \in VerifyReq : vphone[w] = p /\ HoldsRow(w)}

\* Slip for RowIsFree: no unique index on phone_number.
NoUniqueIndex(v) == TRUE

\* No uncommitted row is in the way of the INSERT of v.
RowIsFree(v) == Uncommitted(vphone[v]) = {}

\* The INSERT of repository.add's flush.  The unique index on phone_number
\* makes it wait for an uncommitted row of the phone and refuses it after a
\* committed one; no handler catches the IntegrityError.
InsertUser(v) ==
    /\ vpc[v] = "insert"
    /\ RowIsFree(v)
    /\ \/ /\ account[vphone[v]] = None
          /\ user' = [user EXCEPT ![v] = v]
          /\ vpc' = [vpc EXCEPT ![v] = "commit"]
          /\ UNCHANGED outcome
       \/ /\ account[vphone[v]] # None
          /\ Abort(v, "internal_error")
          /\ UNCHANGED user
    /\ Unasked /\ UNCHANGED <<store, account, consumed, checked, reply>>

\* What a call may have to wait for: a connection, or the end of another
\* registration of its phone while it holds a connection itself.
WaitsForConnection(v) == vpc[v] = "select" /\ Cardinality(InTransaction) >= PoolSize
WaitsForRow(v) == vpc[v] = "insert" /\ ~RowIsFree(v)
Waits(v) == WaitsForConnection(v) \/ WaitsForRow(v)

\* Slip for Persist: the route forgets to commit.
PersistNothing(v) == UNCHANGED account

\* Slip for Persist: the row is stored under its phone and not its id.
PersistPhone(v) == account' = [account EXCEPT ![vphone[v]] = vphone[v]]

\* What COMMIT does: the row this call inserted, if any, becomes the account.
Persist(v) ==
    account' = IF user[v] = v
               THEN [account EXCEPT ![vphone[v]] = v] ELSE account

\* The connection goes back to the pool; the token for user.id was made before.
Commit(v) ==
    /\ vpc[v] = "commit"
    /\ Persist(v)
    /\ End(v, "token")
    /\ Unasked /\ UNCHANGED <<store, consumed, checked, user, reply>>

\* get_db_session after an exception: the row is undone, the connection free.
Rollback(v) ==
    /\ vpc[v] = "rollback"
    /\ vpc' = [vpc EXCEPT ![v] = "respond"]
    /\ Unasked /\ UNCHANGED <<store, account, consumed, checked, user, outcome, reply>>

\* The session is closed and the answer leaves.
Respond(v) ==
    /\ vpc[v] = "respond"
    /\ vpc' = [vpc EXCEPT ![v] = "done"]
    /\ reply' = [reply EXCEPT ![v] = outcome[v]]
    /\ Unasked /\ UNCHANGED <<store, account, consumed, checked, user, outcome>>

\* GET or DEL raises; a DEL may have been applied.
RedisFails(v) ==
    /\ \/ /\ vpc[v] \in {"get", "delete"}
          /\ UNCHANGED <<store, consumed>>
       \/ vpc[v] = "delete" /\ Delete(v)
    /\ End(v, "internal_error")
    /\ Unasked /\ UNCHANGED <<account, checked, user, reply>>

\* The pool has no connection within its timeout, or cannot make one.
PoolFails(v) ==
    /\ vpc[v] = "select"
    /\ End(v, "internal_error")
    /\ Unasked /\ UNCHANGED <<store, account, consumed, checked, user, reply>>

\* SELECT, INSERT or COMMIT raises.  A COMMIT may have been applied; if it was
\* not, PostgreSQL may have undone the row already or keep it until the rollback.
StatementFails(v) ==
    /\ \/ /\ vpc[v] = "select" /\ Cardinality(InTransaction) < PoolSize
          /\ UNCHANGED <<account, user>>
       \/ /\ vpc[v] \in {"insert", "commit"}
          /\ UNCHANGED <<account, user>>
       \/ /\ vpc[v] = "commit"
          /\ user' = [user EXCEPT ![v] = None]
          /\ UNCHANGED account
       \/ /\ vpc[v] = "commit" /\ Persist(v)
          /\ UNCHANGED user
    /\ Abort(v, "internal_error")
    /\ Unasked /\ UNCHANGED <<store, consumed, checked, reply>>

\* The rollback raises, on a connection that is lost: PostgreSQL undoes the
\* transaction itself, and the exception replaces the one on its way.
RollbackFails(v) ==
    /\ vpc[v] = "rollback"
    /\ End(v, "internal_error")
    /\ Unasked /\ UNCHANGED <<store, account, consumed, checked, user, reply>>

DbFails(v) == PoolFails(v) \/ StatementFails(v) \/ RollbackFails(v)

\* The gateway process dies with every call in it.  PostgreSQL undoes what was
\* not committed; Redis keeps its keys.
Crash ==
    /\ vpc' = [v \in VerifyReq |->
                  IF vpc[v] \in Running THEN "crashed" ELSE vpc[v]]
    /\ rpc' = [r \in OtpReq |->
                  IF rpc[r] = "save" THEN "lost"
                  ELSE IF rpc[r] = "send" THEN "failed" ELSE rpc[r]]
    /\ UNCHANGED <<store, account, consumed, rphone, code, inbox,
                   vphone, vcode, vname, checked, user, outcome, reply>>

----------------------------------------------------------------------------
RequestStep(r) == SaveOtp(r) \/ SendOtp(r)
VerifyStep(v)  == \/ GetOtp(v) \/ DeleteOtp(v) \/ FindUser(v)
                  \/ InsertUser(v) \/ Commit(v) \/ Rollback(v) \/ Respond(v)

Next ==
    \/ \E r \in OtpReq, p \in Phone, c \in Code : StartRequest(r, p, c)
    \/ \E r \in OtpReq : RequestStep(r) \/ SaveFails(r) \/ SendFails(r)
    \/ \E p \in Phone : Expire(p)
    \/ \E v \in VerifyReq, p \in Phone, c \in Code, n \in BOOLEAN :
          StartVerify(v, p, c, n)
    \/ \E v \in VerifyReq : VerifyStep(v) \/ RedisFails(v) \/ DbFails(v)
    \/ Crash

Spec == Init /\ [][Next]_vars

\* The event loop runs every coroutine that can take its next step; nothing
\* forces a failure, a crash, an expiry or a new call.
FairSpec ==
    /\ Spec
    /\ \A r \in OtpReq : WF_vars(RequestStep(r))
    /\ \A v \in VerifyReq : WF_vars(VerifyStep(v))

----------------------------------------------------------------------------
(* Safety *)

\* A token is handed out only for the committed account of the phone that was
\* verified, so it never names a row that a rollback or a crash took back.
TokenNamesCommittedUser ==
    \A v \in VerifyReq :
        outcome[v] = "token" \/ reply[v] = "token" =>
            user[v] # None /\ account[vphone[v]] = user[v]

\* Every account was opened by a call for its own phone that carried a name
\* and whose password was one saved for that phone with the code it typed.
AccountHasProvenance ==
    \A p \in Phone : account[p] # None =>
        LET w == account[p] IN
        /\ vphone[w] = p /\ vname[w]
        /\ checked[w] # None
        /\ rphone[checked[w]] = p
        /\ code[checked[w]] = vcode[w]

\* Once the DELETE of a call has removed the password that let the call in,
\* no key holds it again, whatever was saved, expired or retried since.
ConsumedIsGone == \A p \in Phone : store[p] \notin consumed

\* Two calls of a phone never both hold a row that is neither committed nor
\* undone, and none does when the phone already has an account: the commit never
\* overwrites.
OneRegistrationAtATime ==
    \A p \in Phone :
        /\ Cardinality(Uncommitted(p)) <= 1
        /\ account[p] # None => Uncommitted(p) = {}

\* Nobody waits for itself, however many calls share however few connections.
\* A call waits for a row only while its phone has no account, and for one other
\* call alone, which holds its connection, is being handled and waits for
\* nothing; of those who hold the connections of a pool that is used up, one is
\* being handled and waits for nothing.
NoCircularWait ==
    \A v \in VerifyReq :
        /\ WaitsForRow(v) =>
              /\ account[vphone[v]] = None
              /\ \E w \in InTransaction \ {v} :
                    Uncommitted(vphone[v]) = {w} /\ vpc[w] \in Running /\ ~Waits(w)
        /\ WaitsForConnection(v) =>
              \E w \in InTransaction : vpc[w] \in Running /\ ~Waits(w)

\* An account, once committed, is the phone's for ever.
AccountsAreStable ==
    [][\A p \in Phone : account[p] # None => account'[p] = account[p]]_vars

\* Once a phone has been answered with a token, no call for it is found to need
\* a display_name any more, however long it has been under way.  One that was
\* found to need it before may still have to be told so: it rolls back first.
NoReregistration ==
    [][\A v, w \in VerifyReq :
          /\ reply[w] = "token" /\ vphone[w] = vphone[v]
          /\ outcome'[v] = "name_required"
          => outcome[v] = "name_required"]_vars

\* The phone of a password that was saved, and the account a token names.
OwnerOf == [r \in OtpReq |-> IF rpc[r] \in Saved THEN rphone[r] ELSE None]
GrantedTo == [v \in VerifyReq |-> IF reply[v] = "token" THEN user[v] ELSE None]

Ledger == INSTANCE AuthLedger WITH
    Issue <- OtpReq, Session <- VerifyReq, live <- store, owner <- OwnerOf,
    spent <- consumed, proof <- checked, granted <- GrantedTo

\* What the gateway promises its clients is the specification AuthLedger: one
\* account a phone, granted to whoever proves the live password and spends it.
ImplementsLedger == Ledger!Spec

(* What the documentation says and the code does not do *)

\* "An OTP is single-use": two calls are never let in by the same password.
OtpSingleUse ==
    \A v, w \in VerifyReq :
        v # w /\ reply[v] = "token" /\ reply[w] = "token"
        => checked[v] # checked[w]

(* Liveness *)

\* Every call that started is answered or dies with the process: waiting for
\* a connection or for another registration of the phone always ends.
EveryCallEnds ==
    \A v \in VerifyReq : vpc[v] \in Running ~> vpc[v] \in {"done", "crashed"}
=============================================================================
