--------------------------- MODULE MCLoginJourney ---------------------------
(* LoginJourney for TLC: one phone and more calls than its user can need.  *)
EXTENDS LoginJourney

CONSTANTS p1, c1, c2, r1, r2, r3, r4, r5, r6, r7, v1, v2, v3, v4, v5

MCPhone == {p1}
MCCode == {c1, c2}
MCOtpReq == {r1, r2, r3, r4, r5, r6, r7}
MCVerifyReq == {v1, v2, v3, v4, v5}
=============================================================================
