------------------------- MODULE MC_KeeperNetworkInfo -------------------------
(* Model-checking instance of KeeperNetworkInfo: two keeper replicas, one  *)
(* Bitcoin-family and one Ethereum-family chain, fees on both sides of the *)
(* bitcoinMinimumFeeRate / bitcoinMaximumFeeRate bounds.                   *)
EXTENDS KeeperNetworkInfo, TLC

MCFees == {0, 1, 1000, 1001}
MCMinFee == 1
MCMaxFee == 1000

MCSymmetry == Permutations(Keepers)
=============================================================================
