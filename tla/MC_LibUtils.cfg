CONSTANTS
    V4Text <- MC_V4Text
    V6Text <- MC_V6Text
    AddrStrLen <- MC_AddrStrLen
    NULL = NULL
SPECIFICATION MC_Spec
\* One call is one step: after it the call has returned.
CHECK_DEADLOCK FALSE
INVARIANT LibTypeOK
INVARIANT U16ToStrDecimal
INVARIANT BuffersNotOverrun
INVARIANT JoinSplitRoundTrip
INVARIANT SubnetLengthChecked
INVARIANT BitcmpPrefixOrder
INVARIANT SetPortRoundTrip
INVARIANT CmpIsEquality
INVARIANT InaddrStrRoundTrip
INVARIANT RRKeyInjective
INVARIANT ReallocKeepsData
INVARIANT ReserveAtomic
INVARIANT StrcatdupConcat
INVARIANT RecycleConsistent
INVARIANT ClearPayloadKeepsQuestion
INVARIANT KeysReleased
INVARIANT KeyMatchIsSameKey
INVARIANT FlagsTextFits
INVARIANT TextListsSections
