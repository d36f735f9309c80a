\* A sign session completes on every node when no participant fails or is faulty.
CONSTANTS
    m1 = m1
    m2 = m2
    m3 = m3
    MemberOrder <- MCMemberOrder
    Threshold = 1
    Faulty = {}
    MaxFailures = 0
    MaxCrashes = 0
SPECIFICATION Spec
PROPERTIES
    SessionCompletes
