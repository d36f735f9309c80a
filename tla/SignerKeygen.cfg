CONSTANTS
    m1 = m1
    m2 = m2
    Members <- MCMembers
    Batch = 1
    MaxFailures = 1
    MaxCrashes = 2
    MaxKeeperCrashes = 1
    MaxShortages = 1
    Rounds = 2
SPECIFICATION Spec
INVARIANTS
    TypeOK
    ReplicasAgree
    OutputNeverFailed
PROPERTY
    KeygenDecided
    LifecycleSpec
