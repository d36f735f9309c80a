--------------------------- MODULE MC_SignerKeygen ---------------------------
(* Two signers and a keygen batch of one session. *)
EXTENDS SignerKeygen

CONSTANTS m1, m2

MCMembers == {m1, m2}
=============================================================================
