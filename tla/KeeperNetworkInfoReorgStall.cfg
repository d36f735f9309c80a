\* A keeper that reaches a Bitcoin record after the block was reorged out never finishes it.
CONSTANTS
    Keepers = {k1, k2}
    Chains = {btc}
    BitcoinChains = {btc}
    MaxHeight = 2
    Fees <- MCFees
    MinFee <- MCMinFee
    MaxFee <- MCMaxFee
    MaxRequests = 2
    MaxReorgs = 1
    NoInfo = NoInfo
SPECIFICATION Spec
PROPERTIES
    Progress
