CONSTANTS
    a1 = a1
    a2 = a2
    a3 = a3
    Approvals <- MCApprovals
    Chain <- MCChain
    BtcShapes <- MCBtcSafety
    EthShapes <- MCEthSafety
    MaxCrashes = 2
SPECIFICATION Spec
INVARIANTS
    TypeOK
    DoneIsSatisfied
    RecoveryNotBehind
PROPERTY
    EveryApprovalCombined
