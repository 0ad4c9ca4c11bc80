---------------------------- MODULE LoginJourney ----------------------------
(***************************************************************************)
(* Login from end to end: for each phone number its owner, who reads codes *)
(* off the messages received, the app on its two login screens, and the    *)
(* gateway of AuthService, whose calls are made by the apps alone.  The    *)
(* app stops waiting when Dio's timeouts run out, and the gateway goes on. *)
(* Redis runs with snapshots: started again, it is back at the last one.   *)
(* The owner waits for each answer; owners who do not are in MobileAuth.   *)
(***************************************************************************)
EXTENDS AuthService

CONSTANT MaxFaults   \* bound on failures, expiries and mistakes together

ASSUME FaultsAssumption == MaxFaults \in Nat

VARIABLES
    screen,    \* the screen of an app, and whether it waits there
    call,      \* the call it made last
    told,      \* the failure it shows
    token,     \* its stored token, by the account the token names
    snapshot,  \* Redis: the data set saved last
    excused,   \* history: phones whose calls overlap or whose key was lost
    faults

app == <<screen, call, told, token>>
journey == <<app, snapshot, excused, faults>>

Screen == {"phone", "asking", "code", "checking", "home"}
Failure == {"failed", "invalid_otp", "name_required"}

JourneyTypeOK ==
    /\ TypeOK
    /\ screen \in [Phone -> Screen]
    /\ call \in [Phone -> OtpReq \cup VerifyReq \cup {None}]
    /\ told \in [Phone -> Failure \cup {None}]
    /\ token \in [Phone -> VerifyReq \cup {None}]
    /\ snapshot \in [Phone -> OtpReq \cup {None}]
    /\ excused \in SUBSET Phone
    /\ faults \in 0..MaxFaults

JourneyInit ==
    /\ Init
    /\ screen = [p \in Phone |-> "phone"]
    /\ call = [p \in Phone |-> None]
    /\ told = [p \in Phone |-> None]
    /\ token = [p \in Phone |-> None]
    /\ snapshot = store
    /\ excused = {}
    /\ faults = 0

NoFault == UNCHANGED <<excused, faults>>
Fault == faults < MaxFaults /\ faults' = faults + 1

Show(p, s, failure) ==
    /\ screen' = [screen EXCEPT ![p] = s]
    /\ told' = [told EXCEPT ![p] = failure]

----------------------------------------------------------------------------
(* The app and its user *)

Await(p, s, c) ==
    /\ Show(p, s, None)
    /\ call' = [call EXCEPT ![p] = c]
    /\ UNCHANGED <<token, snapshot>>

\* _submit of the phone screen.  Calls not yet made are all alike.
Ask(p) ==
    LET r == CHOOSE r \in OtpReq : rpc[r] = "idle" IN
    /\ screen[p] = "phone"
    /\ \E s \in OtpReq : rpc[s] = "idle"
    /\ \E c \in Code : StartRequest(r, p, c)
    /\ Await(p, "asking", r)

\* _submit of the code screen, with code c and with or without a name.
Verify(p, c, n) ==
    LET v == CHOOSE v \in VerifyReq : vpc[v] = "idle" IN
    /\ screen[p] = "code"
    /\ \E w \in VerifyReq : vpc[w] = "idle"
    /\ StartVerify(v, p, c, n)
    /\ Await(p, "checking", v)

\* The code of the message received last.
CodeAtHand(p) == code[inbox[p]]

\* The back button of the code screen leads to the phone screen below it.
Back(p) ==
    /\ screen[p] = "code"
    /\ Show(p, "phone", None)
    /\ UNCHANGED <<vars, call, token, snapshot>>

\* An answer to requestOtp: the code screen is pushed, or a failure is shown.
AskAnswered(p) ==
    /\ screen[p] = "asking"
    /\ \/ rpc[call[p]] = "sent" /\ Show(p, "code", None)
       \/ rpc[call[p]] \in {"failed", "lost"} /\ Show(p, "phone", "failed")
    /\ UNCHANGED <<vars, call, token, snapshot>>

\* What the code screen shows of a call that brought no token.
Shown(v) == IF reply[v] \in Failure THEN reply[v] ELSE "failed"

\* An answer to verifyOtp: the token is saved and the router goes home, or a
\* failure is shown.  A gateway that died refuses the connection.
VerifyAnswered(p) ==
    LET v == call[p] IN
    /\ screen[p] = "checking"
    /\ \/ /\ reply[v] = "token"
          /\ token' = [token EXCEPT ![p] = user[v]]
          /\ Show(p, "home", None)
       \/ /\ vpc[v] \in {"done", "crashed"} /\ reply[v] # "token"
          /\ Show(p, "code", Shown(v))
          /\ UNCHANGED token
    /\ UNCHANGED <<vars, call, snapshot>>

\* NetworkFailure: the connection or Dio's fifteen seconds are over, and what
\* the gateway still does or answers is lost on the app.
GiveUp(p) ==
    /\ \/ screen[p] = "asking" /\ Show(p, "phone", "failed")
       \/ screen[p] = "checking" /\ Show(p, "code", "failed")
    /\ excused' = excused \cup {p}
    /\ UNCHANGED <<vars, call, token, snapshot>>

\* The user types the code at hand and the name; a code that was refused is
\* given up for a new one.
Persists(p) ==
    \/ Ask(p)
    \/ told[p] # "invalid_otp" /\ Verify(p, CodeAtHand(p), TRUE)
    \/ told[p] = "invalid_otp" /\ Back(p)

\* A typing mistake, a name left out, or a change of mind.
Slips(p) ==
    /\ screen[p] = "code"
    /\ \/ \E c \in Code, n \in BOOLEAN :
             (c # CodeAtHand(p) \/ ~n) /\ Verify(p, c, n)
       \/ Back(p)
    /\ UNCHANGED excused

----------------------------------------------------------------------------
(* Redis *)

\* An RDB snapshot.
SaveSnapshot ==
    /\ snapshot # store
    /\ snapshot' = store
    /\ UNCHANGED <<vars, app>>

\* Redis stops and is started again, with what it saved last.
RestartRedis ==
    /\ store' = snapshot
    /\ excused' = Phone
    /\ UNCHANGED <<account, consumed, rvars, vvars, app, snapshot>>

\* A key expires by the clock, in a snapshot too.
KeyExpires(p) ==
    /\ Expire(p)
    /\ snapshot' = [snapshot EXCEPT ![p] = IF @ = store[p] THEN None ELSE @]
    /\ excused' = excused \cup {p}
    /\ UNCHANGED app

----------------------------------------------------------------------------
GatewayStep(p) ==
    /\ \/ \E r \in OtpReq : rphone[r] = p /\ RequestStep(r)
       \/ \E v \in VerifyReq : vphone[v] = p /\ VerifyStep(v)
    /\ UNCHANGED <<app, snapshot>>

GatewayFails ==
    /\ \/ \E r \in OtpReq : SaveFails(r) \/ SendFails(r)
       \/ \E v \in VerifyReq : RedisFails(v) \/ DbFails(v)
       \/ Crash
    /\ UNCHANGED <<app, snapshot, excused>>

AppStep(p) == AskAnswered(p) \/ VerifyAnswered(p)

JourneyNext ==
    \/ /\ \/ \E p \in Phone : Persists(p) \/ AppStep(p) \/ GatewayStep(p)
          \/ SaveSnapshot
       /\ NoFault
    \/ /\ \/ \E p \in Phone : Slips(p) \/ GiveUp(p) \/ KeyExpires(p)
          \/ GatewayFails
          \/ RestartRedis
       /\ Fault

JourneySpec == JourneyInit /\ [][JourneyNext]_<<vars, journey>>

\* The event loop runs the calls of the gateway, the app hears of answers, and
\* its user goes on until logged in.
FairJourney ==
    /\ JourneySpec
    /\ \A r \in OtpReq : WF_<<vars, journey>>(RequestStep(r) /\ UNCHANGED journey)
    /\ \A v \in VerifyReq : WF_<<vars, journey>>(VerifyStep(v) /\ UNCHANGED journey)
    /\ \A p \in Phone : /\ WF_<<vars, journey>>(AppStep(p) /\ NoFault)
                        /\ WF_<<vars, journey>>(Persists(p) /\ NoFault)

----------------------------------------------------------------------------
(* Safety *)

\* Who is home holds a token for the account of the own number, committed and
\* in place, whichever answers came late or never and whatever Redis forgot.
HomeIsOwnAccount ==
    \A p \in Phone :
        /\ screen[p] = "home" <=> token[p] # None
        /\ token[p] # None => account[p] = token[p]

\* The code received last is good until it lets a call in: it is refused only
\* if the key was lost, or an earlier call the app no longer waits for saved
\* another password or took this one away.  An app that gave up once stays excused:
\* its call may have its effect at any later time.
RefusalIsExplained ==
    \A p \in Phone :
        told[p] = "invalid_otp" /\ vcode[call[p]] = CodeAtHand(p) =>
            inbox[p] \in consumed \/ p \in excused

Promise == INSTANCE LoginPromise WITH
    Issue <- OtpReq, Session <- VerifyReq, owner <- OwnerOf, proof <- checked,
    spent <- consumed, granted <- GrantedTo, home <- token

\* From end to end, through overlapping calls, crashes and restarts of Redis,
\* users see what LoginPromise allows.  AuthLedger it is not: a Redis that goes
\* back makes spent passwords live.
ImplementsPromise == Promise!Spec

(* Liveness *)

\* A user who goes on is logged in, in spite of as many failures of the gateway,
\* Redis, the network and the user as there may be: none of them leaves the number
\* locked out.  Secure storage works.
UserGetsIn == \A p \in Phone : <>(screen[p] = "home")
=============================================================================
