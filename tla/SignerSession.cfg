\* Safety of the sign session with a faulty first member, one failed MPC run and one restart.
CONSTANTS
    m1 = m1
    m2 = m2
    m3 = m3
    MemberOrder <- MCMemberOrder
    Threshold = 1
    Faulty = {m1}
    MaxFailures = 1
    MaxCrashes = 1
SPECIFICATION Spec
INVARIANTS
    TypeOK
    ReplicasAgree
    NoForgedAdoption
