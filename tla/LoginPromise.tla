---------------------------- MODULE LoginPromise ----------------------------
(***************************************************************************)
(* What login promises its users from end to end, when Redis may go back   *)
(* in time: passwords are published, sessions prove and spend them, the    *)
(* first to do so opens the account of the phone, and users are let in to  *)
(* the account their session was granted.  A password may be proved again, *)
(* even a spent one: what AuthLedger says about live passwords is not here.*)
(* LoginJourney implements this specification.                             *)
(***************************************************************************)

CONSTANTS Phone,    \* phone numbers, each with its user
          Issue,    \* one-time passwords ever published, by identity
          Session,  \* login attempts; an account is named by its creator
          None      \* absence of any of them

VARIABLES owner,    \* the phone a password was published for
          proof,    \* the password a session proved to have received
          spent,    \* passwords that have been spent
          account,  \* the account of a phone
          granted,  \* the account a session was granted
          home      \* the account the user of a phone is in

promise == <<owner, proof, spent, account, granted, home>>

Init ==
    /\ owner = [i \in Issue |-> None]
    /\ proof = [s \in Session |-> None]
    /\ spent = {}
    /\ account = [p \in Phone |-> None]
    /\ granted = [s \in Session |-> None]
    /\ home = [p \in Phone |-> None]

Publish(i, p) ==
    /\ owner[i] = None
    /\ owner' = [owner EXCEPT ![i] = p]
    /\ UNCHANGED <<proof, spent, account, granted, home>>

\* Any password of some phone is a proof, once and for all for its session.
Prove(s, i) ==
    /\ proof[s] = None
    /\ owner[i] # None
    /\ proof' = [proof EXCEPT ![s] = i]
    /\ UNCHANGED <<owner, spent, account, granted, home>>

Spend(s) ==
    /\ proof[s] # None
    /\ spent' = spent \cup {proof[s]}
    /\ UNCHANGED <<owner, proof, account, granted, home>>

\* Whom a session speaks for.
PhoneOf(s) == owner[proof[s]]

\* A session with a spent proof opens the account of its phone, which has none.
Open(s) ==
    /\ proof[s] \in spent
    /\ account[PhoneOf(s)] = None
    /\ account' = [account EXCEPT ![PhoneOf(s)] = s]
    /\ UNCHANGED <<owner, proof, spent, granted, home>>

\* It is granted the account of its phone and no other.
Grant(s) ==
    /\ granted[s] = None
    /\ proof[s] \in spent
    /\ account[PhoneOf(s)] # None
    /\ granted' = [granted EXCEPT ![s] = account[PhoneOf(s)]]
    /\ UNCHANGED <<owner, proof, spent, account, home>>

\* The user of a phone gets in by a session of that phone, and stays.
Enter(p, s) ==
    /\ home[p] = None
    /\ granted[s] # None
    /\ PhoneOf(s) = p
    /\ home' = [home EXCEPT ![p] = granted[s]]
    /\ UNCHANGED <<owner, proof, spent, account, granted>>

Next ==
    \/ \E i \in Issue, p \in Phone : Publish(i, p)
    \/ \E s \in Session, i \in Issue : Prove(s, i)
    \/ \E s \in Session : Spend(s) \/ Open(s) \/ Grant(s)
    \/ \E p \in Phone, s \in Session : Enter(p, s)

Spec == Init /\ [][Next]_promise
=============================================================================
