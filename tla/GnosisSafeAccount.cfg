\* The Gnosis Safe owners and address, then its deployment with two failed RPC calls and a lagging RPC node.
CONSTANTS
    k1 = k1
    k2 = k2
    k3 = k3
    Keys <- MCKeys
    MaxFailures = 2
    NoSafe = NoSafe
SPECIFICATION Spec
\* The call returns once, or the proposal is rejected: the system stops.
CHECK_DEADLOCK FALSE
INVARIANTS
    TypeOK
    OwnersMatchPubs
    NoStrayDeployment
    ReturnedSafeGuarded
