------------------------- MODULE MC_ObserverSnapshots -------------------------
(* A stream of nine snapshots read in pages of two: two approvals of the  *)
(* same transaction (one response per keeper output), the approval of a    *)
(* holder's account and a transfer of its bond asset, then a snapshot     *)
(* the loop cannot handle.                                                *)
EXTENDS ObserverSnapshots

CONSTANTS a1, a2, h1

MCApprovals == {a1, a2}
MCHolders == {h1}
MCStream == << [kind |-> "approve", a |-> a1],
               [kind |-> "account", h |-> h1],
               [kind |-> "bond", h |-> h1],
               [kind |-> "neg"],
               [kind |-> "mvm"],
               [kind |-> "approve", a |-> a2],
               [kind |-> "other"],
               [kind |-> "approve", a |-> a1] >>

\* The last snapshot: another chain's asset, or an undecodable response.
MCLastKinds == {"foreign", "badop"}
=============================================================================
