------------------------- MODULE MobileAuthProofs -------------------------
(* Proofs about MobileAuth, for any tokens, accounts, calls and restarts,   *)
(* for patient and impatient users, whether storage fails or not.           *)
EXTENDS MobileAuth, TLAPS

\* A call that saved a token knows it.
SavedHasToken == \A a \in Attempt : apc[a] = "saved" => atok[a] \in Token

\* Code screens are on the stack exactly while the app is at their place.
CodesAreShown == codes # <<>> <=> loc = "/otp-verify"

\* The inductive invariant.
IInv == TypeOK /\ GuardHolds /\ SavedHasToken /\ CodesAreShown

\* The guard leaves every state at a place of its own.
LEMMA RedirectIsRight ==
  ASSUME NEW a \in User \cup {None, "loading", "error"},
         NEW l \in {"/home", "/login", "/otp-verify"}
  PROVE  /\ Redirect(a, l) \in {"/home", "/login", "/otp-verify"}
         /\ a # "loading" => (LoggedIn(a) <=> Redirect(a, l) = "/home")
  BY DEF Redirect, LoggedIn

\* Whatever a coroutine makes of the state, the router follows.
LEMMA SetAuthIsGuarded ==
  ASSUME TypeOK, CodesAreShown, NEW a \in User \cup {None, "error"}, SetAuth(a)
  PROVE  /\ auth' = a /\ GuardHolds' /\ CodesAreShown'
         /\ loc' \in {"/home", "/login", "/otp-verify"}
         /\ asked' \in 0..MaxAsked /\ codes' \in Seq(Attempt \cup {None})
  <1>1. PICK l \in {loc, "/home"} : loc' = Redirect(a, l)
    BY DEF SetAuth
  <1>2. l \in {"/home", "/login", "/otp-verify"}
    BY DEF TypeOK
  <1>3. /\ loc' \in {"/home", "/login", "/otp-verify"}
        /\ a # "loading" => (LoggedIn(a) <=> loc' = "/home")
    BY <1>1, <1>2, RedirectIsRight
  <1>4. asked' \in 0..MaxAsked /\ codes' \in Seq(Attempt \cup {None})
    <2>1. asked' \in {asked, 0}
      BY DEF SetAuth, Unmount
    <2>2. codes' \in {codes, <<None>>, <<>>}
      BY DEF SetAuth, Unmount
    <2>3. <<None>> \in Seq(Attempt \cup {None})
      OBVIOUS
    <2>4. <<>> \in Seq(Attempt \cup {None})
      OBVIOUS
    <2>5. asked' \in 0..MaxAsked
      BY <2>1, MobileAssumption DEF TypeOK
    <2>6. codes \in Seq(Attempt \cup {None})
      BY DEF TypeOK
    <2> QED BY <2>2, <2>3, <2>4, <2>5, <2>6
  <1>5. auth' = a
    BY DEF SetAuth
  <1>6. loc' = "/otp-verify" => loc = "/otp-verify"
    BY <1>1 DEF Redirect
  <1>7. CodesAreShown'
    <2>1. <<None>> # <<>>
      OBVIOUS
    <2> QED BY <1>6, <2>1 DEF SetAuth, Unmount, CodesAreShown
  <1> QED BY <1>3, <1>4, <1>5, <1>7 DEF GuardHolds, LoggedIn

LEMMA InitIInv == Init => IInv
  <1> SUFFICES ASSUME Init PROVE IInv
    OBVIOUS
  <1>1. /\ apc \in [Attempt -> {"idle", "sent", "saved", "done"}]
        /\ atok \in [Attempt -> Token \cup {None}]
        /\ lpc \in [Tap -> {"idle", "cleared"}]
        /\ \A a \in Attempt : apc[a] = "idle"
    BY DEF Init
  <1>2. restarts \in 0..MaxRestarts /\ asked \in 0..MaxAsked
    BY MobileAssumption DEF Init
  <1>3. TypeOK
    BY <1>1, <1>2 DEF Init, TypeOK
  <1>4. GuardHolds /\ SavedHasToken /\ CodesAreShown
    BY <1>1 DEF Init, GuardHolds, SavedHasToken, CodesAreShown
  <1> QED BY <1>3, <1>4 DEF IInv

\* The startup check.
LEMMA StartupKeepsIInv == IInv /\ StartupStep => IInv'
  <1> SUFFICES ASSUME IInv, StartupStep PROVE IInv'
    OBVIOUS
  <1> USE DEF IInv
  <1>1. /\ UNCHANGED <<issued, expired, apc, atok, lpc, restarts>>
        /\ storage' \in {storage, None}
        /\ shdr' \in {shdr, storage}
        /\ spc' \in {"attach", "sent", "cleared", "raised", "done"}
    BY DEF StartupStep, ReadToken, AttachToken, MeReplies, AfterClear, Finish,
           server, attempt, startup
  <1>2. \/ UNCHANGED <<auth, loc, asked, codes>>
        \/ \E a \in User \cup {None, "error"} : SetAuth(a)
    <2>1. ASSUME "200" \in MeAnswers(shdr) PROVE Owner[shdr] \in User
      BY <2>1, MobileAssumption DEF MeAnswers, TypeOK
    <2>2. CASE ReadToken
      BY <2>2 DEF ReadToken, Finish, screen
    <2>3. CASE AttachToken
      BY <2>3 DEF AttachToken, screen
    <2>4. CASE MeReplies
      BY <2>1, <2>4 DEF MeReplies, Finish, screen, Rejected
    <2>5. CASE AfterClear
      BY <2>5 DEF AfterClear, Finish
    <2> QED BY <2>2, <2>3, <2>4, <2>5 DEF StartupStep
  <1>3. CASE UNCHANGED <<auth, loc, asked, codes>>
    BY <1>1, <1>3 DEF TypeOK, GuardHolds, LoggedIn, SavedHasToken,
       CodesAreShown
  <1>4. ASSUME NEW a \in User \cup {None, "error"}, SetAuth(a)
        PROVE  IInv'
    <2>1. /\ auth' = a /\ GuardHolds' /\ CodesAreShown'
          /\ loc' \in {"/home", "/login", "/otp-verify"}
          /\ asked' \in 0..MaxAsked /\ codes' \in Seq(Attempt \cup {None})
      BY <1>4, SetAuthIsGuarded
    <2> QED BY <1>1, <2>1 DEF TypeOK, SavedHasToken
  <1> QED BY <1>2, <1>3, <1>4

\* Pushing a code screen gives a stack of code screens.
LEMMA PushIsTyped ==
  ASSUME NEW S, NEW x \in S, NEW s \in Seq(S)
  PROVE  <<x>> \o s \in Seq(S)
  OBVIOUS

\* The taps of the user and the answer to a request for a code.
LEMMA ScreenKeepsIInv ==
  ASSUME IInv,
         \/ RequestOtp \/ RequestReplies \/ GoBack
         \/ \E a \in Attempt : SubmitCode(a)
         \/ \E l \in Tap : Logout(l)
  PROVE  IInv'
  <1> USE DEF IInv, TypeOK, GuardHolds, SavedHasToken, CodesAreShown, LoggedIn,
              server, startup, attempt, screen
  <1>1. CASE RequestOtp
    BY <1>1, MobileAssumption DEF RequestOtp
  <1>2. CASE RequestReplies
    <2>1. Redirect(auth, "/otp-verify") \in {"/home", "/otp-verify"}
          /\ (auth # "loading" =>
                (LoggedIn(auth) <=> Redirect(auth, "/otp-verify") = "/home"))
      BY DEF Redirect
    <2>2. asked' \in 0..MaxAsked
      BY <1>2, MobileAssumption DEF RequestReplies
    <2>3. codes' \in Seq(Attempt \cup {None})
      <3>1. codes' = codes \/ codes' = <<None>> \o codes \/ codes' = <<>>
        BY <1>2 DEF RequestReplies
      <3>2. <<None>> \o codes \in Seq(Attempt \cup {None})
        BY PushIsTyped
      <3>3. codes \in Seq(Attempt \cup {None}) /\ <<>> \in Seq(Attempt \cup {None})
        OBVIOUS
      <3> HIDE DEF IInv
      <3> QED BY <3>1, <3>2, <3>3
    <2> QED BY <1>2, <2>1, <2>2, <2>3 DEF RequestReplies
  <1>3. CASE GoBack
    <2>1. codes' \in Seq(Attempt \cup {None})
      BY <1>3 DEF GoBack
    <2>2. loc \in {"/otp-verify"} /\ loc' \in {"/login", "/otp-verify"}
      BY <1>3 DEF GoBack
    <2> QED BY <1>3, <2>1, <2>2 DEF GoBack
  <1>4. ASSUME NEW a \in Attempt, SubmitCode(a) PROVE IInv'
    <2>1. codes' \in Seq(Attempt \cup {None})
      BY <1>4 DEF SubmitCode
    <2> QED BY <1>4, <2>1 DEF SubmitCode
  <1>5. ASSUME NEW l \in Tap, Logout(l) PROVE IInv'
    BY <1>5 DEF Logout
  <1> HIDE DEF IInv
  <1> QED BY <1>1, <1>2, <1>3, <1>4, <1>5

\* The rest of verifyOtp and logout.
LEMMA CallKeepsIInv ==
  ASSUME IInv,
         \/ \E a \in Attempt : AttemptStep(a)
         \/ \E l \in Tap : ApplyLogout(l)
  PROVE  IInv'
  <1> USE DEF IInv
  <1>1. ASSUME NEW a \in Attempt, VerifyReplies(a) PROVE IInv'
    BY <1>1 DEF VerifyReplies, Save, Settle, TypeOK, GuardHolds, LoggedIn,
       SavedHasToken, CodesAreShown, startup
  <1>2. ASSUME NEW u \in User \cup {None, "error"}, SetAuth(u),
               UNCHANGED <<storage, server, startup, atok, restarts>>,
               \/ UNCHANGED apc
               \/ \E a \in Attempt : apc' = [apc EXCEPT ![a] = "done"],
               \/ UNCHANGED lpc
               \/ \E l \in Tap : lpc' = [lpc EXCEPT ![l] = "idle"]
        PROVE  IInv'
    <2>1. /\ auth' = u /\ GuardHolds' /\ CodesAreShown'
          /\ loc' \in {"/home", "/login", "/otp-verify"}
          /\ asked' \in 0..MaxAsked /\ codes' \in Seq(Attempt \cup {None})
      BY <1>2, SetAuthIsGuarded
    <2> QED BY <1>2, <2>1 DEF TypeOK, SavedHasToken, server, startup
  <1>3. ASSUME NEW a \in Attempt, ApplyLogin(a) PROVE IInv'
    <2>1. Owner[atok[a]] \in User
      BY <1>3, MobileAssumption DEF ApplyLogin, SavedHasToken
    <2> QED BY <1>2, <1>3, <2>1 DEF ApplyLogin
  <1>4. ASSUME NEW l \in Tap, ApplyLogout(l) PROVE IInv'
    BY <1>2, <1>4 DEF ApplyLogout, attempt
  <1> HIDE DEF IInv
  <1> QED BY <1>1, <1>3, <1>4 DEF AttemptStep

LEMMA NextKeepsIInv == IInv /\ [Next]_vars => IInv'
  <1> USE DEF server, startup, attempt, screen
  <1>1. ASSUME IInv, NEW t \in Token, ExpireToken(t) PROVE IInv'
    BY <1>1 DEF ExpireToken, IInv, TypeOK, GuardHolds, LoggedIn, SavedHasToken,
       CodesAreShown
  <1>2. ASSUME IInv, Restart PROVE IInv'
    <2>1. /\ apc' \in [Attempt -> {"idle", "sent", "saved", "done"}]
          /\ lpc' \in [Tap -> {"idle", "cleared"}]
          /\ \A a \in Attempt : apc'[a] # "saved"
      BY <1>2 DEF Restart
    <2>2. restarts' \in 0..MaxRestarts /\ asked' \in 0..MaxAsked
      BY <1>2, MobileAssumption DEF Restart, IInv, TypeOK
    <2>3. TypeOK'
      BY <1>2, <2>1, <2>2 DEF Restart, IInv, TypeOK
    <2>4. GuardHolds' /\ SavedHasToken' /\ CodesAreShown'
      BY <1>2, <2>1 DEF Restart, GuardHolds, SavedHasToken, CodesAreShown
    <2> QED BY <2>3, <2>4 DEF IInv
  <1>3. ASSUME IInv, UNCHANGED vars PROVE IInv'
    BY <1>3 DEF vars, IInv, TypeOK, GuardHolds, LoggedIn, SavedHasToken,
       CodesAreShown
  <1> QED BY <1>1, <1>2, <1>3, StartupKeepsIInv, ScreenKeepsIInv, CallKeepsIInv
          DEF Next

LEMMA Invariance == Spec => []IInv
  BY InitIInv, NextKeepsIInv, PTL DEF Spec

----------------------------------------------------------------------------
\* Every variable keeps its type: nothing but a token is stored, no screen
\* shows a place that does not exist.
THEOREM TypeCorrect == Spec => []TypeOK
  <1>1. IInv => TypeOK
    BY DEF IInv
  <1> QED BY <1>1, Invariance, PTL

\* After the startup check, /home and only /home is for who is logged in.
THEOREM GuardAlwaysHolds == Spec => []GuardHolds
  <1>1. IInv => GuardHolds
    BY DEF IInv
  <1> QED BY <1>1, Invariance, PTL

----------------------------------------------------------------------------
(* Spinners, for patient and impatient users *)

Screens == Attempt \cup {None}

\* What pushing and popping a screen does to the calls that are awaited.
LEMMA PushAwaits ==
  ASSUME NEW S, NEW x \in S, NEW s \in Seq(S), NEW i \in DOMAIN (<<x>> \o s)
  PROVE  (<<x>> \o s)[i] = x \/ \E j \in DOMAIN s : (<<x>> \o s)[i] = s[j]
  <1>1. i \in 1..(Len(s) + 1) /\ DOMAIN s = 1..Len(s)
    OBVIOUS
  <1>2. CASE i = 1
    BY <1>2
  <1>3. CASE i # 1
    <2>1. i - 1 \in DOMAIN s
      BY <1>1, <1>3
    <2>2. (<<x>> \o s)[i] = s[i - 1]
      BY <1>1, <1>3
    <2> QED BY <2>1, <2>2
  <1> QED BY <1>2, <1>3

LEMMA PopAwaits ==
  ASSUME NEW S, NEW s \in Seq(S), s # <<>>, NEW i \in DOMAIN Tail(s)
  PROVE  \E j \in DOMAIN s : Tail(s)[i] = s[j]
  <1>1. i \in 1..(Len(s) - 1) /\ DOMAIN s = 1..Len(s)
    OBVIOUS
  <1>2. i + 1 \in DOMAIN s /\ Tail(s)[i] = s[i + 1]
    BY <1>1
  <1> QED BY <1>2

\* A step that lets no button wait that did not, and ends no call, keeps them.
LEMMA NoNewSpinner ==
  ASSUME SpinnersHaveCalls,
         auth' = "loading" => spc' # "done",
         \A a \in Attempt : Awaited(a)' => Awaited(a),
         \A a \in Attempt : apc[a] \in {"sent", "saved"} /\ Awaited(a)'
                            => apc'[a] \in {"sent", "saved"}
  PROVE  SpinnersHaveCalls'
  BY DEF SpinnersHaveCalls

\* Setting the state leaves the stack, or a fresh code screen, or none.
LEMMA SetAuthAwaits ==
  ASSUME NEW u, SetAuth(u), NEW a \in Attempt, Awaited(a)'
  PROVE  Awaited(a)
  <1>1. codes' \in {codes, <<None>>, <<>>}
    BY DEF SetAuth, Unmount
  <1>2. CASE codes' = codes
    BY <1>2 DEF Awaited
  <1>3. CASE codes' = <<None>>
    BY <1>3, MobileAssumption DEF Awaited
  <1>4. CASE codes' = <<>>
    BY <1>4 DEF Awaited
  <1> QED BY <1>1, <1>2, <1>3, <1>4

LEMMA StartupKeepsSpinners ==
  ASSUME IInv, SpinnersHaveCalls, StartupStep
  PROVE  SpinnersHaveCalls'
  <1>1. UNCHANGED apc
    BY DEF StartupStep, ReadToken, AttachToken, MeReplies, AfterClear, attempt
  <1>2. \/ UNCHANGED <<auth, codes>> /\ spc' # "done"
        \/ \E u \in User \cup {None, "error"} : SetAuth(u)
    <2>1. ASSUME "200" \in MeAnswers(shdr) PROVE Owner[shdr] \in User
      BY <2>1, MobileAssumption DEF MeAnswers, IInv, TypeOK
    <2>2. CASE ReadToken
      BY <2>2 DEF ReadToken, Finish, screen
    <2>3. CASE AttachToken
      BY <2>3 DEF AttachToken, screen
    <2>4. CASE MeReplies
      BY <2>1, <2>4 DEF MeReplies, Finish, screen, Rejected
    <2>5. CASE AfterClear
      BY <2>5 DEF AfterClear, Finish
    <2> QED BY <2>2, <2>3, <2>4, <2>5 DEF StartupStep
  <1>3. CASE UNCHANGED <<auth, codes>> /\ spc' # "done"
    BY <1>1, <1>3, NoNewSpinner DEF Awaited
  <1>4. ASSUME NEW u \in User \cup {None, "error"}, SetAuth(u)
        PROVE  SpinnersHaveCalls'
    <2>1. auth' = u /\ u # "loading"
      BY <1>4, MobileAssumption DEF SetAuth
    <2>2. \A a \in Attempt : Awaited(a)' => Awaited(a)
      BY <1>4, SetAuthAwaits
    <2> QED BY <1>1, <2>1, <2>2, NoNewSpinner
  <1> QED BY <1>2, <1>3, <1>4

LEMMA TapKeepsSpinners ==
  ASSUME IInv, SpinnersHaveCalls,
         \/ RequestOtp \/ RequestReplies \/ GoBack
         \/ \E a \in Attempt : SubmitCode(a)
         \/ \E l \in Tap : Logout(l)
  PROVE  SpinnersHaveCalls'
  <1>1. codes \in Seq(Screens) /\ apc \in [Attempt -> {"idle", "sent", "saved", "done"}]
    BY DEF IInv, TypeOK, Screens
  <1>2. UNCHANGED <<auth, spc>>
    BY DEF RequestOtp, RequestReplies, GoBack, SubmitCode, Logout, startup
  <1>3. auth' = "loading" => spc' # "done"
    BY <1>2 DEF SpinnersHaveCalls
  <1>4. CASE RequestOtp \/ \E l \in Tap : Logout(l)
    <2>1. UNCHANGED <<codes, apc>>
      BY <1>4 DEF RequestOtp, Logout, attempt, screen
    <2> QED BY <1>3, <2>1, NoNewSpinner DEF Awaited
  <1>5. CASE RequestReplies
    <2>1. codes' \in {codes, <<None>> \o codes, <<>>} /\ UNCHANGED apc
      BY <1>5 DEF RequestReplies, attempt
    <2>2. ASSUME NEW a \in Attempt, Awaited(a)' PROVE Awaited(a)
      <3>1. PICK i \in DOMAIN codes' : codes'[i] = a
        BY <2>2 DEF Awaited
      <3>2. CASE codes' = <<None>> \o codes
        <4>1. codes'[i] = None \/ \E j \in DOMAIN codes : codes'[i] = codes[j]
          BY <1>1, <3>2, PushAwaits DEF Screens
        <4> QED BY <3>1, <4>1, MobileAssumption DEF Awaited
      <3>3. CASE codes' = codes
        BY <3>1, <3>3 DEF Awaited
      <3>4. CASE codes' = <<>>
        BY <3>1, <3>4
      <3> QED BY <2>1, <3>2, <3>3, <3>4
    <2> QED BY <1>3, <2>1, <2>2, NoNewSpinner
  <1>6. CASE GoBack
    <2>1. codes # <<>> /\ codes' = Tail(codes) /\ UNCHANGED apc
      BY <1>6 DEF GoBack, attempt
    <2>2. ASSUME NEW a \in Attempt, Awaited(a)' PROVE Awaited(a)
      <3>1. PICK i \in DOMAIN Tail(codes) : Tail(codes)[i] = a
        BY <2>1, <2>2 DEF Awaited
      <3>2. \E j \in DOMAIN codes : Tail(codes)[i] = codes[j]
        BY <1>1, <2>1, PopAwaits
      <3> QED BY <3>1, <3>2 DEF Awaited
    <2> QED BY <1>3, <2>1, <2>2, NoNewSpinner
  <1>7. ASSUME NEW a \in Attempt, SubmitCode(a)
        PROVE  SpinnersHaveCalls'
    <2>1. apc' = [apc EXCEPT ![a] = "sent"] /\ codes' = [codes EXCEPT ![1] = a]
      BY <1>7 DEF SubmitCode
    <2>2. ASSUME NEW b \in Attempt, b # a, Awaited(b)' PROVE Awaited(b)
      BY <1>1, <2>1, <2>2 DEF Awaited
    <2>3. apc'[a] = "sent" /\ \A b \in Attempt \ {a} : apc'[b] = apc[b]
      BY <1>1, <2>1
    <2> QED BY <1>3, <2>2, <2>3 DEF SpinnersHaveCalls
  <1> QED BY <1>4, <1>5, <1>6, <1>7

LEMMA CallKeepsSpinners ==
  ASSUME IInv, SpinnersHaveCalls,
         \/ \E a \in Attempt : AttemptStep(a)
         \/ \E l \in Tap : ApplyLogout(l)
  PROVE  SpinnersHaveCalls'
  <1>1. apc \in [Attempt -> {"idle", "sent", "saved", "done"}]
    BY DEF IInv, TypeOK
  \* A call that fails takes the spinner of its screen along.
  <1>2. ASSUME NEW a \in Attempt, VerifyReplies(a) PROVE SpinnersHaveCalls'
    <2>1. auth' = "loading" => spc' # "done"
      BY <1>2 DEF VerifyReplies, startup, SpinnersHaveCalls
    <2>2. \/ apc' = [apc EXCEPT ![a] = "saved"] /\ UNCHANGED codes
          \/ StorageFails
          \/ apc' = [apc EXCEPT ![a] = "done"] /\ Settle(a)
      BY <1>2 DEF VerifyReplies
    <2>3. CASE apc' = [apc EXCEPT ![a] = "saved"] /\ UNCHANGED codes
      BY <1>1, <2>1, <2>3, NoNewSpinner DEF Awaited
    <2>4. CASE StorageFails
      BY <2>1, <2>4 DEF SpinnersHaveCalls
    <2>5. CASE apc' = [apc EXCEPT ![a] = "done"] /\ Settle(a)
      <3>1. ~Awaited(a)'
        BY <2>5, MobileAssumption DEF Settle, Awaited
      <3>2. ASSUME NEW b \in Attempt, b # a, Awaited(b)' PROVE Awaited(b)
        BY <2>5, <3>2, MobileAssumption DEF Settle, Awaited
      <3>3. \A b \in Attempt \ {a} : apc'[b] = apc[b]
        BY <1>1, <2>5
      <3> QED BY <2>1, <3>1, <3>2, <3>3, NoNewSpinner
    <2> QED BY <2>2, <2>3, <2>4, <2>5
  \* A call that succeeds takes the user home and its screen away.
  <1>3. ASSUME NEW a \in Attempt, ApplyLogin(a) PROVE SpinnersHaveCalls'
    <2>1. Owner[atok[a]] \in User /\ SetAuth(Owner[atok[a]])
      BY <1>3, MobileAssumption DEF ApplyLogin, IInv, SavedHasToken
    <2>2. auth' \in User /\ auth' # "loading" /\ GuardHolds' /\ CodesAreShown'
      BY <2>1, SetAuthIsGuarded, MobileAssumption DEF IInv
    <2>3. loc' = "/home" /\ codes' = <<>>
      BY <2>2 DEF GuardHolds, LoggedIn, CodesAreShown
    <2>4. \A b \in Attempt : ~Awaited(b)'
      BY <2>3 DEF Awaited
    <2> QED BY <2>2, <2>4 DEF SpinnersHaveCalls
  <1>4. ASSUME NEW l \in Tap, ApplyLogout(l) PROVE SpinnersHaveCalls'
    <2>1. SetAuth(None) /\ UNCHANGED apc
      BY <1>4 DEF ApplyLogout, attempt
    <2>2. auth' # "loading"
      BY <2>1, MobileAssumption DEF SetAuth
    <2>3. \A a \in Attempt : Awaited(a)' => Awaited(a)
      BY <2>1, SetAuthAwaits
    <2> QED BY <2>1, <2>2, <2>3, NoNewSpinner
  <1> QED BY <1>2, <1>3, <1>4 DEF AttemptStep

LEMMA NextKeepsSpinners == IInv /\ SpinnersHaveCalls /\ [Next]_vars => SpinnersHaveCalls'
  <1>1. ASSUME SpinnersHaveCalls, NEW t \in Token, ExpireToken(t) PROVE SpinnersHaveCalls'
    BY <1>1 DEF ExpireToken, SpinnersHaveCalls, Awaited, startup, attempt, screen
  <1>2. ASSUME Restart PROVE SpinnersHaveCalls'
    BY <1>2 DEF Restart, SpinnersHaveCalls, Awaited
  <1>3. ASSUME SpinnersHaveCalls, UNCHANGED vars PROVE SpinnersHaveCalls'
    BY <1>3 DEF vars, SpinnersHaveCalls, Awaited, startup, attempt, screen
  <1> QED BY <1>1, <1>2, <1>3, StartupKeepsSpinners, TapKeepsSpinners, CallKeepsSpinners
          DEF Next

\* Whoever looks at a spinner waits for a call that is under way: what is left
\* of SpinnersEnd is that calls come back.
THEOREM SpinnersAreFounded == Spec => []SpinnersHaveCalls
  <1>1. Init => SpinnersHaveCalls
    BY DEF Init, SpinnersHaveCalls, Awaited
  <1> QED BY <1>1, NextKeepsSpinners, Invariance, PTL DEF Spec

----------------------------------------------------------------------------
(* A user who waits *)

\* The calls of the app come one at a time.
OneAtATime ==
    /\ \A a, b \in Attempt :
          apc[a] \in {"sent", "saved"} /\ apc[b] \in {"sent", "saved"} => a = b
    /\ \A l, m \in Tap : lpc[l] = "cleared" /\ lpc[m] = "cleared" => l = m
    /\ \A a \in Attempt, l \in Tap :
          apc[a] \in {"sent", "saved"} => lpc[l] = "idle"
    /\ spc # "done" =>
          /\ \A a \in Attempt : apc[a] \in {"idle", "done"}
          /\ \A l \in Tap : lpc[l] = "idle"

\* The startup check asks about the token that is stored.
CheckIsCurrent ==
    /\ spc \in {"attach", "sent"} => storage # None
    /\ spc = "sent" => shdr = storage
    /\ spc # "done" => auth = "loading"

\* What a call saved is still stored when it sets the state.
SavedIsStored == \A a \in Attempt : apc[a] = "saved" => storage = atok[a]

\* Between a write of secure storage and the state that follows it, the two
\* may differ, and nowhere else.
ShownIsStored ==
    /\ \A a \in Attempt : apc[a] # "saved"
    /\ \A l \in Tap : lpc[l] = "idle"
    /\ LoggedIn(auth)
    => storage # None /\ Owner[storage] = auth

PatientInv == IInv /\ OneAtATime /\ CheckIsCurrent /\ SavedIsStored /\ ShownIsStored

LEMMA InitPatient == Init => PatientInv
  <1> SUFFICES ASSUME Init PROVE PatientInv
    OBVIOUS
  <1>1. OneAtATime /\ CheckIsCurrent /\ SavedIsStored
    BY DEF Init, OneAtATime, CheckIsCurrent, SavedIsStored
  <1>2. ShownIsStored
    BY MobileAssumption DEF Init, ShownIsStored, LoggedIn
  <1> QED BY <1>1, <1>2, InitIInv DEF PatientInv

\* The startup check runs alone and sets the state once.
LEMMA StartupKeepsPatient ==
  ASSUME PatientInv, StartupStep
  PROVE  /\ OneAtATime' /\ CheckIsCurrent' /\ SavedIsStored' /\ ShownIsStored'
         /\ storage # None /\ storage' = None => storage \in expired
  <1> USE MobileAssumption
      DEF PatientInv, IInv, TypeOK, server, startup, attempt, screen
  <1>1. /\ UNCHANGED <<apc, atok, lpc>> /\ spc # "done"
    BY DEF StartupStep, ReadToken, AttachToken, MeReplies, AfterClear
  <1>2. OneAtATime' /\ SavedIsStored'
    BY <1>1 DEF OneAtATime, SavedIsStored
  <1>3. CASE ReadToken
    BY <1>1, <1>2, <1>3 DEF ReadToken, Finish, SetAuth, CheckIsCurrent, ShownIsStored, LoggedIn
  <1>4. CASE AttachToken
    BY <1>1, <1>2, <1>4 DEF AttachToken, CheckIsCurrent, ShownIsStored, LoggedIn
  <1>5. CASE MeReplies
    <2>1. shdr = storage /\ storage \in Token /\ auth = "loading"
      BY <1>5 DEF MeReplies, CheckIsCurrent
    <2>2. "401" \in MeAnswers(shdr) => storage \in expired
      BY <2>1 DEF MeAnswers
    <2>3. CASE Finish(Owner[shdr]) /\ UNCHANGED storage
      BY <1>2, <2>1, <2>3 DEF Finish, SetAuth, CheckIsCurrent, ShownIsStored
    <2>4. CASE Finish(None) /\ UNCHANGED storage
      BY <1>2, <2>1, <2>4 DEF Finish, SetAuth, CheckIsCurrent, ShownIsStored, LoggedIn
    <2>5. CASE /\ "401" \in MeAnswers(shdr)
               /\ \/ storage' = None /\ spc' = "cleared"
                  \/ spc' = "raised" /\ UNCHANGED storage
               /\ UNCHANGED auth
      BY <1>2, <2>1, <2>2, <2>5 DEF CheckIsCurrent, ShownIsStored, LoggedIn
    <2> QED BY <1>5, <2>3, <2>4, <2>5 DEF MeReplies, Rejected
  <1>6. CASE AfterClear
    BY <1>1, <1>2, <1>6 DEF AfterClear, Finish, SetAuth, CheckIsCurrent, ShownIsStored, LoggedIn
  <1> QED BY <1>3, <1>4, <1>5, <1>6 DEF StartupStep

\* A tap finds every call over; a logout clears storage before the state.
LEMMA TapKeepsPatient ==
  ASSUME PatientInv, Patient,
         \/ RequestOtp \/ RequestReplies \/ GoBack
         \/ \E a \in Attempt : SubmitCode(a)
         \/ \E l \in Tap : Logout(l)
  PROVE  /\ OneAtATime' /\ CheckIsCurrent' /\ SavedIsStored' /\ ShownIsStored'
         /\ storage # None /\ storage' = None =>
               \E l \in Tap : lpc[l] = "idle" /\ lpc'[l] = "cleared"
  <1> USE DEF PatientInv, IInv, TypeOK, server, startup, attempt, screen, OneAtATime,
      CheckIsCurrent, SavedIsStored, ShownIsStored
  <1>1. CASE RequestOtp \/ RequestReplies \/ GoBack
    BY <1>1 DEF RequestOtp, RequestReplies, GoBack
  <1>2. ASSUME NEW a \in Attempt, SubmitCode(a) PROVE
          OneAtATime' /\ CheckIsCurrent' /\ SavedIsStored' /\ ShownIsStored' /\ UNCHANGED storage
    BY <1>2 DEF SubmitCode, Ready, Quiet
  <1>3. ASSUME NEW l \in Tap, Logout(l) PROVE
          /\ OneAtATime' /\ CheckIsCurrent' /\ SavedIsStored' /\ ShownIsStored'
          /\ lpc[l] = "idle" /\ lpc'[l] = "cleared"
    BY <1>3 DEF Logout, Ready, Quiet
  <1> QED BY <1>1, <1>2, <1>3

\* The only call in progress saves its token and shows its owner, or logs out.
LEMMA CallKeepsPatient ==
  ASSUME PatientInv,
         \/ \E a \in Attempt : AttemptStep(a)
         \/ \E l \in Tap : ApplyLogout(l)
  PROVE  /\ OneAtATime' /\ CheckIsCurrent' /\ SavedIsStored' /\ ShownIsStored'
         /\ storage # None => storage' # None
  <1> USE MobileAssumption DEF PatientInv, IInv, TypeOK, server, startup, attempt, screen,
      OneAtATime, CheckIsCurrent, SavedIsStored, ShownIsStored
  <1>1. ASSUME NEW a \in Attempt, VerifyReplies(a) PROVE
          /\ OneAtATime' /\ CheckIsCurrent' /\ SavedIsStored' /\ ShownIsStored'
          /\ storage # None => storage' # None
    BY <1>1 DEF VerifyReplies, Save
  <1>2. ASSUME NEW a \in Attempt, ApplyLogin(a) PROVE
          /\ OneAtATime' /\ CheckIsCurrent' /\ SavedIsStored' /\ ShownIsStored'
          /\ UNCHANGED storage
    BY <1>2 DEF ApplyLogin, SetAuth, SavedHasToken
  <1>3. ASSUME NEW l \in Tap, ApplyLogout(l) PROVE
          /\ OneAtATime' /\ CheckIsCurrent' /\ SavedIsStored' /\ ShownIsStored'
          /\ UNCHANGED storage
    BY <1>3 DEF ApplyLogout, SetAuth, LoggedIn
  <1> QED BY <1>1, <1>2, <1>3 DEF AttemptStep

LEMMA NextKeepsPatient ==
  ASSUME PatientInv, Patient, [Next]_vars
  PROVE  /\ PatientInv'
         /\ storage # None /\ storage' = None =>
               \/ storage \in expired
               \/ \E l \in Tap : lpc[l] = "idle" /\ lpc'[l] = "cleared"
  <1> DEFINE Rest == OneAtATime /\ CheckIsCurrent /\ SavedIsStored /\ ShownIsStored
  <1>1. IInv'
    BY NextKeepsIInv DEF PatientInv
  <1>2. CASE UNCHANGED vars \/ \E t \in Token : ExpireToken(t)
    <2>1. UNCHANGED <<storage, auth, spc, shdr, apc, atok, lpc>>
      BY <1>2 DEF ExpireToken, vars, server, startup, attempt
    <2>2. Rest'
      BY <2>1 DEF PatientInv, OneAtATime, CheckIsCurrent, SavedIsStored, ShownIsStored
    <2> QED BY <1>1, <2>1, <2>2 DEF PatientInv
  <1>3. CASE Restart
    <2>1. /\ \A a \in Attempt : apc'[a] \in {"idle", "done"}
          /\ \A l \in Tap : lpc'[l] = "idle"
          /\ auth' = "loading" /\ spc' = "read" /\ UNCHANGED storage
      BY <1>3 DEF Restart
    <2>2. Rest'
      BY <2>1, MobileAssumption DEF OneAtATime, CheckIsCurrent, SavedIsStored, ShownIsStored, LoggedIn
    <2> QED BY <1>1, <2>1, <2>2 DEF PatientInv
  <1> QED BY <1>1, <1>2, <1>3, StartupKeepsPatient, TapKeepsPatient, CallKeepsPatient
          DEF Next, PatientInv

\* A user who waits for each call always sees the owner of the stored token,
\* through failures of secure storage and restarts.
THEOREM PatientAuthMatchesStorage ==
  ASSUME Patient
  PROVE  Spec => []AuthMatchesStorage
  <1>1. PatientInv => AuthMatchesStorage
    BY DEF PatientInv, ShownIsStored, AuthMatchesStorage, Quiet
  <1>2. PatientInv /\ [Next]_vars => PatientInv'
    BY NextKeepsPatient
  <1> QED BY <1>1, <1>2, InitPatient, PTL DEF Spec

\* A user who waits loses a token only to its expiry or to a logout.
THEOREM PatientTokenIsKept ==
  ASSUME Patient
  PROVE  Spec => GoodTokenIsKept
  <1>1. PatientInv /\ [Next]_vars => PatientInv'
    BY NextKeepsPatient
  <1>2. PatientInv /\ [Next]_vars =>
          [storage # None /\ storage' = None =>
             \/ storage \in expired
             \/ \E l \in Tap : lpc[l] = "idle" /\ lpc'[l] = "cleared"]_vars
    BY NextKeepsPatient
  <1> QED BY <1>1, <1>2, InitPatient, PTL DEF Spec, GoodTokenIsKept
=============================================================================
