---------------------------- MODULE MCMobileAuth ----------------------------
(* MobileAuth for TLC: two accounts, the first of which may log in twice.    *)
EXTENDS MobileAuth, TLC

CONSTANTS t1, t2, t3, u1, u2

MCOwner == (t1 :> u1) @@ (t2 :> u2) @@ (t3 :> u1)
=============================================================================
