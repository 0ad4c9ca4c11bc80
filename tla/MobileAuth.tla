---------------------------- MODULE MobileAuth ----------------------------
(***************************************************************************)
(* Login state in the Flutter app: the coroutines of AuthNotifier and      *)
(* AuthRepositoryImpl (the check at startup, verifyOtp, logout), secure    *)
(* storage, the screens that start them, the router guard, and the         *)
(* gateway's GET /auth/me that judges the stored token.  A coroutine stops *)
(* at every await: what it asks secure storage to do is done in the order  *)
(* asked, and what it does next is another step.  Riverpod is external:    *)
(* setting AuthNotifier.state does not cancel build(), whose result        *)
(* replaces it when it comes.                                              *)
(***************************************************************************)
EXTENDS Naturals, Sequences

CONSTANTS Token,         \* access tokens, by identity
          User,          \* accounts
          Owner,         \* the account a token names
          Attempt,       \* calls of verifyOtp
          Tap,           \* calls of logout
          Patient,       \* the user waits for each call before the next
          StorageFails,  \* secure storage may raise a PlatformException
          MaxAsked,      \* bound on the requests of a phone screen in flight
          MaxRestarts,   \* bound on the restarts of the app
          None           \* Dart's null

ASSUME MobileAssumption ==
    /\ Owner \in [Token -> User]
    /\ Patient \in BOOLEAN /\ StorageFails \in BOOLEAN
    /\ MaxAsked \in Nat /\ MaxRestarts \in Nat
    /\ None \notin Token \cup User \cup Attempt
    /\ "loading" \notin User \cup {None} /\ "error" \notin User \cup {None}

VARIABLES
    storage,   \* secure storage: the value under auth_access_token
    issued,    \* gateway: tokens handed out
    expired,   \* gateway: tokens past their exp
    auth,      \* AuthNotifier.state: a user, null, AsyncLoading or AsyncError
    loc,       \* GoRouter: matchedLocation
    spc,       \* where getCurrentUser is, called by build() at startup
    shdr,      \* the Authorization header of its request
    apc,       \* where a verifyOtp call is
    atok,      \* the token it received
    lpc,       \* where a logout call is
    asked,     \* requests for a code that a mounted phone screen awaits
    codes,     \* the code screens, topmost first, by the call each awaits
    restarts

server  == <<issued, expired>>
startup == <<spc, shdr>>
attempt == <<apc, atok>>
screen  == <<asked, codes>>
vars    == <<storage, server, auth, loc, startup, attempt, lpc, screen, restarts>>

TypeOK ==
    /\ storage \in Token \cup {None}
    /\ issued \in SUBSET Token /\ expired \in SUBSET issued
    /\ auth \in User \cup {None, "loading", "error"}
    /\ loc \in {"/home", "/login", "/otp-verify"}
    /\ spc \in {"read", "attach", "sent", "cleared", "raised", "done"}
    /\ shdr \in Token \cup {None}
    /\ apc \in [Attempt -> {"idle", "sent", "saved", "done"}]
    /\ atok \in [Attempt -> Token \cup {None}]
    /\ lpc \in [Tap -> {"idle", "cleared"}]
    /\ asked \in 0..MaxAsked
    /\ codes \in Seq(Attempt \cup {None})
    /\ restarts \in 0..MaxRestarts

\* A fresh install; what earlier runs leave behind comes with Restart.
Init ==
    /\ storage = None /\ issued = {} /\ expired = {}
    /\ auth = "loading" /\ loc = "/home"
    /\ spc = "read" /\ shdr = None
    /\ apc = [a \in Attempt |-> "idle"] /\ atok = [a \in Attempt |-> None]
    /\ lpc = [l \in Tap |-> "idle"]
    /\ asked = 0 /\ codes = <<>>
    /\ restarts = 0

----------------------------------------------------------------------------
(* The router *)

LoggedIn(a) == a \in User

\* Slip for Redirect: who is logged out is sent to the connectivity check.
RedirectToRoot(a, l) ==
    IF a # "loading" /\ ~LoggedIn(a) /\ l = "/home" THEN "/" ELSE l

\* Slip for Redirect: nobody is sent away from /home.
RedirectOpen(a, l) ==
    IF LoggedIn(a) /\ l \in {"/login", "/otp-verify"} THEN "/home" ELSE l

\* Where the guard of appRouterProvider sends location l in auth state a.
Redirect(a, l) ==
    IF a = "loading" THEN l
    ELSE IF ~LoggedIn(a) /\ l \notin {"/login", "/otp-verify", "/"} THEN "/login"
    ELSE IF LoggedIn(a) /\ l \in {"/login", "/otp-verify"} THEN "/home"
    ELSE l

\* What leaving or rebuilding a screen does to it: its calls go on, but find it
\* no longer mounted.
Unmount(l) ==
    /\ asked' \in IF l = "/home" THEN {0} ELSE {asked, 0}
    /\ codes' \in IF l = "/otp-verify" THEN {codes, <<None>>} ELSE {<<>>}

\* state = a.  The watch inside redirect makes the router look again, where it
\* is or, rebuilt, from its initial location.
SetAuth(a) ==
    /\ auth' = a
    /\ \E l \in {loc, "/home"} : loc' = Redirect(a, l)
    /\ Unmount(loc')

----------------------------------------------------------------------------
(* The gateway *)

\* Answers of GET /auth/me to header h; accounts are never deleted.
MeAnswers(h) == IF h = None \/ h \in expired THEN {"401"} ELSE {"200", "5xx"}

ExpireToken(t) ==
    /\ t \in issued \ expired
    /\ expired' = expired \cup {t}
    /\ UNCHANGED <<storage, issued, auth, loc, startup, attempt, lpc, screen, restarts>>

----------------------------------------------------------------------------
(* build() and getCurrentUser *)

\* getCurrentUser returns or raises, and Riverpod stores what build() gave.
Finish(a) ==
    /\ spc' = "done"
    /\ SetAuth(a)

ReadToken ==
    /\ spc = "read"
    /\ \/ /\ storage # None
          /\ spc' = "attach"
          /\ UNCHANGED <<auth, loc, screen>>
       \/ storage = None /\ Finish(None)
       \/ StorageFails /\ Finish("error")
    /\ UNCHANGED <<storage, server, shdr, attempt, lpc, restarts>>

\* The interceptor of dioProvider reads storage again for the header.
AttachToken ==
    /\ spc = "attach"
    /\ shdr' = storage
    /\ spc' = "sent"
    /\ UNCHANGED <<storage, server, auth, loc, attempt, lpc, screen, restarts>>

\* Slip for Rejected: any DioException counts as a dead token.
AnyFailure(s) == s # "200"

\* The answers that make getCurrentUser clear the token.
Rejected(s) == s = "401"

\* An answer, or no answer before Dio's timeouts.  A 401 clears the token.
MeReplies ==
    /\ spc = "sent"
    /\ \E s \in MeAnswers(shdr) \cup {"network"} :
          \/ s = "200" /\ Finish(Owner[shdr]) /\ UNCHANGED storage
          \/ /\ Rejected(s)
             /\ \/ storage' = None /\ spc' = "cleared"
                \/ StorageFails /\ spc' = "raised" /\ UNCHANGED storage
             /\ UNCHANGED <<auth, loc, screen>>
          \/ s # "200" /\ ~Rejected(s) /\ Finish(None) /\ UNCHANGED storage
    /\ UNCHANGED <<server, shdr, attempt, lpc, restarts>>

\* Slip for AfterClear: the check starts over instead of giving null.
RetryAfterClear ==
    /\ spc \in {"cleared", "raised"}
    /\ spc' = "attach"
    /\ UNCHANGED <<storage, server, auth, loc, shdr, attempt, lpc, screen, restarts>>

\* clearToken returns, or raises and the state becomes AsyncError.
AfterClear ==
    /\ \/ spc = "cleared" /\ Finish(None)
       \/ spc = "raised" /\ Finish("error")
    /\ UNCHANGED <<storage, server, shdr, attempt, lpc, restarts>>

StartupStep == ReadToken \/ AttachToken \/ MeReplies \/ AfterClear

----------------------------------------------------------------------------
(* The screens and their calls *)

\* No call of the app is in progress.
Quiet ==
    /\ spc = "done"
    /\ \A a \in Attempt : apc[a] \in {"idle", "done"}
    /\ \A l \in Tap : lpc[l] = "idle"

\* What the user waits for before the next tap.
Ready == Patient => Quiet /\ asked = 0

\* _submit of the phone screen.  _isSubmitting disables the button, but the
\* keyboard's done key submits again.
RequestOtp ==
    /\ Ready
    /\ loc = "/login" /\ asked < MaxAsked
    /\ asked' = asked + 1
    /\ UNCHANGED <<storage, server, auth, loc, startup, attempt, lpc, codes, restarts>>

\* The phone screen, mounted below what it pushed before, shows an error or
\* pushes a code screen, past the guard.
RequestReplies ==
    /\ asked > 0
    /\ asked' = asked - 1
    /\ \/ UNCHANGED <<loc, codes>>
       \/ /\ loc' = Redirect(auth, "/otp-verify")
          /\ codes' = IF loc' = "/otp-verify" THEN <<None>> \o codes ELSE <<>>
    /\ UNCHANGED <<storage, server, auth, startup, attempt, lpc, restarts>>

GoBack ==
    /\ Ready
    /\ codes # <<>>
    /\ codes' = Tail(codes)
    /\ loc' = IF codes' = <<>> THEN "/login" ELSE loc
    /\ UNCHANGED <<storage, server, auth, startup, attempt, lpc, asked, restarts>>

\* _submit of the code screen on top, whose button is enabled.
SubmitCode(a) ==
    /\ Ready
    /\ codes # <<>> /\ codes[1] = None
    /\ apc[a] = "idle"
    /\ apc' = [apc EXCEPT ![a] = "sent"]
    /\ codes' = [codes EXCEPT ![1] = a]
    /\ UNCHANGED <<storage, server, auth, loc, startup, atok, lpc, asked, restarts>>

\* Slip for Settle: the button stays disabled after an error.
KeepSpinning(a) == UNCHANGED codes

\* The screen that awaits call a, if it is still there, enables its button.
Settle(a) ==
    codes' = [i \in DOMAIN codes |-> IF codes[i] = a THEN None ELSE codes[i]]

\* Slip for Save: success is returned and the write forgotten.
ForgetToken(t) == UNCHANGED storage

\* saveToken, before the Result is returned.
Save(t) == storage' = t

\* POST /otp/verify brings a new token, which is saved, or a DioException.
\* Nothing catches an exception of the write: the call ends there, the token
\* is lost, and the screen does not leave _isSubmitting.
VerifyReplies(a) ==
    /\ apc[a] = "sent"
    /\ \/ \E t \in Token \ issued :
             /\ issued' = issued \cup {t}
             /\ \/ /\ Save(t)
                   /\ atok' = [atok EXCEPT ![a] = t]
                   /\ apc' = [apc EXCEPT ![a] = "saved"]
                \/ /\ StorageFails
                   /\ apc' = [apc EXCEPT ![a] = "done"]
                   /\ UNCHANGED <<storage, atok>>
             /\ UNCHANGED codes
       \/ /\ apc' = [apc EXCEPT ![a] = "done"]
          /\ Settle(a)
          /\ UNCHANGED <<storage, issued, atok>>
    /\ UNCHANGED <<expired, auth, loc, startup, lpc, asked, restarts>>

\* The write is over; AuthNotifier.verifyOtp sees Success and sets its state,
\* which takes the user from the code screen to /home.
ApplyLogin(a) ==
    /\ apc[a] = "saved"
    /\ apc' = [apc EXCEPT ![a] = "done"]
    /\ SetAuth(Owner[atok[a]])
    /\ UNCHANGED <<storage, server, startup, atok, lpc, restarts>>

AttemptStep(a) == VerifyReplies(a) \/ ApplyLogin(a)

\* The logout button is on /home, also while the startup check is running.  If
\* clearing the token raises, logout ends there and nothing changes.
Logout(l) ==
    /\ Ready
    /\ loc = "/home" /\ lpc[l] = "idle"
    /\ lpc' = [lpc EXCEPT ![l] = "cleared"]
    /\ storage' = None
    /\ UNCHANGED <<server, auth, loc, startup, attempt, screen, restarts>>

ApplyLogout(l) ==
    /\ lpc[l] = "cleared"
    /\ lpc' = [lpc EXCEPT ![l] = "idle"]
    /\ SetAuth(None)
    /\ UNCHANGED <<storage, server, startup, attempt, restarts>>

\* The app is killed and opened again: storage is all that is left of it.
Restart ==
    /\ restarts < MaxRestarts
    /\ restarts' = restarts + 1
    /\ auth' = "loading" /\ loc' = "/home"
    /\ spc' = "read" /\ shdr' = None
    /\ apc' = [a \in Attempt |-> IF apc[a] = "idle" THEN "idle" ELSE "done"]
    /\ lpc' = [l \in Tap |-> "idle"]
    /\ asked' = 0 /\ codes' = <<>>
    /\ UNCHANGED <<storage, server, atok>>

----------------------------------------------------------------------------
Next ==
    \/ StartupStep
    \/ RequestOtp \/ RequestReplies \/ GoBack
    \/ \E a \in Attempt : SubmitCode(a) \/ AttemptStep(a)
    \/ \E l \in Tap : Logout(l) \/ ApplyLogout(l)
    \/ \E t \in Token : ExpireToken(t)
    \/ Restart

Spec == Init /\ [][Next]_vars

\* Every await of the app completes: storage answers, and Dio gives up after
\* ten seconds to connect and fifteen to receive.  To be used with StorageFails
\* FALSE: a read that raises inside the interceptor never calls handler.next,
\* and the request is never sent.
FairSpec ==
    /\ Spec
    /\ WF_vars(StartupStep) /\ WF_vars(RequestReplies)
    /\ \A a \in Attempt : WF_vars(AttemptStep(a))
    /\ \A l \in Tap : WF_vars(ApplyLogout(l))

----------------------------------------------------------------------------
(* Safety *)

\* Once the startup check is over, nobody who is logged out sees /home and
\* nobody who is logged in sees the login screens, whichever late call set the
\* state last and wherever a screen tried to go meanwhile.
GuardHolds ==
    auth # "loading" => (LoggedIn(auth) <=> loc = "/home")

\* "null means not logged in, a UserEntity means logged in as this user":
\* when no call is in progress, the user shown is the owner of the stored
\* token.  True only of a patient user.
AuthMatchesStorage ==
    Quiet /\ LoggedIn(auth) => storage # None /\ Owner[storage] = auth

\* A token that is still good is dropped only by a logout, never by an outage
\* or by the answer to another token.  True only of a patient user.
GoodTokenIsKept ==
    [][storage # None /\ storage' = None =>
          \/ storage \in expired
          \/ \E l \in Tap : lpc[l] = "idle" /\ lpc'[l] = "cleared"]_vars

Awaited(a) == \E i \in DOMAIN codes : codes[i] = a

\* Who sees a spinner waits for something that is on its way: the startup
\* spinner for a check that is not over, a disabled button for a call that will
\* come back to its screen, however screens were pushed, popped and rebuilt
\* meanwhile.  A write that raises loses the call of a button.  The button of the
\* phone screen, which waits for requestOtp alone, is not tracked.
SpinnersHaveCalls ==
    /\ auth = "loading" => spc # "done"
    /\ ~StorageFails => \A a \in Attempt : Awaited(a) => apc[a] \in {"sent", "saved"}

(* Liveness *)

\* The spinner the app starts with goes away, and the code screen does not keep
\* its button disabled for ever.  True only while secure storage does not raise.
SpinnersEnd ==
    /\ auth = "loading" ~> auth # "loading"
    /\ \A a \in Attempt : Awaited(a) ~> ~Awaited(a)
=============================================================================
