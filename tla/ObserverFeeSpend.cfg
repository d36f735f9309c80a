\* Safety of the accountant fee inputs across retries, RPC failures and crashes.
CONSTANTS
    t1 = t1
    t2 = t2
    t3 = t3
    f1 = f1
    f2 = f2
    f3 = f3
    f4 = f4
    TxOrder <- MCTxOrder
    FundingTxs <- MCFundingTxs
    InitialUtxos <- MCInitialUtxos
    FeeRates <- MCFeeRates
    VirtualSize = 100
    Dust = 1000
    MaxFailures = 3
    None = None
SPECIFICATION Spec
INVARIANTS
    TypeOK
    AvailableIsUnspent
    ConfirmedSpendRecorded
