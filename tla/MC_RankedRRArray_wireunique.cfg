CONSTANTS
    q1 = q1
    q2 = q2
    owner = owner
    NoCheck = NoCheck
    Queries <- MC_Queries
    RRs <- MC_RRs
    Ranks <- MC_Ranks
    CheckDupsValues = {TRUE}
    MaxEntries = 3
    ExtraChecks <- MC_ExtraChecks
SYMMETRY MC_Symmetry
SPECIFICATION Spec
INVARIANT ToWireUnique
