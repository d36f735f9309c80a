\* Safety of writeNetworkInfo across two replicas, with lagging RPC nodes and one tip reorg.
CONSTANTS
    Keepers = {k1, k2}
    Chains = {btc, eth}
    BitcoinChains = {btc}
    MaxHeight = 2
    Fees <- MCFees
    MinFee <- MCMinFee
    MaxFee <- MCMaxFee
    MaxRequests = 2
    MaxReorgs = 1
    NoInfo = NoInfo
SPECIFICATION Spec
SYMMETRY MCSymmetry
INVARIANTS
    TypeOK
    ReplicasAgree
PROPERTIES
    HeightNeverDecreases
    
