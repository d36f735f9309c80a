------------------------- MODULE MC_ObserverFeeSpend -------------------------
(* Three approvals; accountant outputs of 2000 and 1000 satoshi (in range *)
(* for a fee of 2000 and of 1000), one of 5000 that only a splitter can    *)
(* use, and another of 1000; the fee rate estimate moves between 10 and   *)
(* 20 sat/vbyte.                                                           *)
EXTENDS ObserverFeeSpend

CONSTANTS t1, t2, t3, f1, f2, f3, f4

MCTxOrder == <<t1, t2, t3>>
MCFundingTxs == <<f1, f2, f3, f4>>
MCInitialUtxos == <<2000, 1000, 5000, 1000>>
MCFeeRates == {10, 20}
=============================================================================
