--------------------------- MODULE MC_SignerSession ---------------------------
(* Model-checking instance of SignerSession: three signer members in       *)
(* Genesis order m1, m2, m3 with MPC threshold 1, so two PREPAREs make a   *)
(* session prepared and one member never takes part in the MPC run.        *)
EXTENDS SignerSession

CONSTANTS m1, m2, m3

MCMemberOrder == <<m1, m2, m3>>
=============================================================================
