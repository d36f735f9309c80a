-------------------------- MODULE MC_ObserverCombine --------------------------
(* Instances of ObserverCombine: two Bitcoin approvals and one Ethereum one, *)
(* and the partial-signature shapes a holder PSBT or Safe transaction has. *)
EXTENDS ObserverCombine, TLC

CONSTANTS a1, a2, a3

MCApprovals == {a1, a2, a3}
MCChain == (a1 :> "bitcoin") @@ (a2 :> "bitcoin") @@ (a3 :> "ethereum")

\* Well-formed Bitcoin inputs: a normal input signed by the holder, a
\* recovery input signed by the observer alone or by holder and observer.
GoodBtc == { [seq |-> "normal", hsigs |-> <<"H">>],
             [seq |-> "recovery", hsigs |-> <<"O">>],
             [seq |-> "recovery", hsigs |-> <<"H", "O">>] }
\* Malformed ones: wrong first key, a holder-only recovery, a stranger.
BadBtc == { [seq |-> "normal", hsigs |-> <<"X">>],
            [seq |-> "recovery", hsigs |-> <<"H">>],
            [seq |-> "recovery", hsigs |-> <<"H", "X">>] }
\* Safe transactions: every pair of owners the count accepts, on either
\* path, and one owner alone, which the count refuses.
GoodEth == { [seq |-> "normal", sigs |-> {"H", "S"}],
             [seq |-> "recovery", sigs |-> {"H", "O"}],
             [seq |-> "recovery", sigs |-> {"H", "S"}],
             [seq |-> "recovery", sigs |-> {"O", "S"}] }
BadEth == { [seq |-> "normal", sigs |-> {"H"}],
            [seq |-> "recovery", sigs |-> {"O"}] }

MCBtcSafety == GoodBtc \cup BadBtc
MCEthSafety == GoodEth \cup BadEth
=============================================================================
