\* The keeper's request table and the network.go observer handlers, with a
\* lagging RPC node, handler errors, panics, one crash and MTG redelivery.
CONSTANTS
    btc = btc
    eth = eth
    mvm = mvm
    Chains <- MCChains
    Bitcoin = btc
    Ethereum = eth
    Shapes <- MCShapes
    MinFee = 10
    MaxFee = 1000
    MaxHeight = 2
    MaxRequests = 2
    MaxCrashes = 1
    NoInfo = NoInfo
SPECIFICATION Spec
INVARIANTS
    TypeOK
    AppliedOnce
PROPERTIES
    HeightNeverDecreases
    DrainsOrStuck
