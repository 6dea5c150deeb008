CONSTANTS
    V4Text <- MC_V4Text
    V6Text <- MC_V6Text
    AddrStrLen <- MC_AddrStrLen
    NULL = NULL
SPECIFICATION MC_Spec
\* One call is one step: after it the call has returned.
CHECK_DEADLOCK FALSE
INVARIANT SubnetAddressValid
