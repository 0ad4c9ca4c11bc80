--------------------------- MODULE MCAuthService ---------------------------
(* AuthService for TLC: small sets of model values, interchangeable where no *)
(* liveness property is checked.                                            *)
EXTENDS AuthService, TLC

Symmetry == Permutations(Phone) \cup Permutations(Code)
            \cup Permutations(OtpReq) \cup Permutations(VerifyReq)
============================================================================
