CONSTANTS
    ex = ex
    www = www
    wild = wild
    org = org
    NoKey = NoKey
    Names <- MC_Names
    NameLabels <- MC_NameLabels
    Wildcards <- MC_Wildcards
SPECIFICATION MC_Spec
\* One validation call is one step: after it the call has returned.
CHECK_DEADLOCK FALSE
INVARIANT TypeOK
INVARIANT ValidateSound
INVARIANT ValidateComplete
INVARIANT TrustedPerSpec
