---------------------------- MODULE AuthLedger ----------------------------
(***************************************************************************)
(* What phone login promises, with no handlers, coroutines or databases:   *)
(* a one-time password is published for a phone, a login session proves it *)
(* received the live one, the password is spent, and only then is the      *)
(* session granted the one account of that phone.  AuthService implements  *)
(* this specification.                                                     *)
(***************************************************************************)

CONSTANTS Phone,    \* phone numbers
          Issue,    \* one-time passwords ever published, by identity
          Session,  \* login attempts; an account is named by its creator
          None      \* absence of any of them

VARIABLES live,     \* the password a phone can log in with now
          owner,    \* the phone a password was published for
          spent,    \* passwords that have been spent
          proof,    \* the password a session proved to have received
          account,  \* the account of a phone
          granted   \* the account a session was granted

ledger == <<live, owner, spent, proof, account, granted>>

Init ==
    /\ live = [p \in Phone |-> None]
    /\ owner = [i \in Issue |-> None]
    /\ spent = {}
    /\ proof = [s \in Session |-> None]
    /\ account = [p \in Phone |-> None]
    /\ granted = [s \in Session |-> None]

\* A new password replaces the live one of its phone.
Publish(i, p) ==
    /\ owner[i] = None
    /\ owner' = [owner EXCEPT ![i] = p]
    /\ live' = [live EXCEPT ![p] = i]
    /\ UNCHANGED <<spent, proof, account, granted>>

\* The live password of a phone lapses.
Lapse(p) ==
    /\ live' = [live EXCEPT ![p] = None]
    /\ UNCHANGED <<owner, spent, proof, account, granted>>

\* Only the password that is live, which is never a spent one, is a proof.
Prove(s, p) ==
    /\ proof[s] = None
    /\ live[p] # None
    /\ live[p] \notin spent
    /\ proof' = [proof EXCEPT ![s] = live[p]]
    /\ UNCHANGED <<live, owner, spent, account, granted>>

\* Spending a proof leaves its phone without a live password.
Spend(s) ==
    /\ proof[s] # None
    /\ spent' = spent \cup {proof[s]}
    /\ live' = [live EXCEPT ![owner[proof[s]]] = None]
    /\ UNCHANGED <<owner, proof, account, granted>>

\* The first session to finish registering a phone opens its account.
Open(s) ==
    /\ proof[s] \in spent
    /\ account[owner[proof[s]]] = None
    /\ account' = [account EXCEPT ![owner[proof[s]]] = s]
    /\ UNCHANGED <<live, owner, spent, proof, granted>>

\* A session whose proof is spent is granted the account of the phone.
Grant(s) ==
    /\ granted[s] = None
    /\ proof[s] \in spent
    /\ account[owner[proof[s]]] # None
    /\ granted' = [granted EXCEPT ![s] = account[owner[proof[s]]]]
    /\ UNCHANGED <<live, owner, spent, proof, account>>

Next ==
    \/ \E i \in Issue, p \in Phone : Publish(i, p)
    \/ \E p \in Phone : Lapse(p)
    \/ \E s \in Session, p \in Phone : Prove(s, p)
    \/ \E s \in Session : Spend(s) \/ Open(s) \/ Grant(s)

Spec == Init /\ [][Next]_ledger
============================================================================
