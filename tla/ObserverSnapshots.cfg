CONSTANTS
    a1 = a1
    a2 = a2
    h1 = h1
    Approvals <- MCApprovals
    Holders <- MCHolders
    Stream <- MCStream
    LastKinds <- MCLastKinds
    Limit = 2
    MaxFailures = 1
    MaxCrashes = 2
SPECIFICATION Spec
INVARIANTS
    TypeOK
    CheckpointCoversResponses
PROPERTY
    SnapshotsDrainOrStuck
