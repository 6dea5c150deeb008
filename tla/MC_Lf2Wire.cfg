\* knot_dname_lf2wire against the reference conversion on valid inputs.
SPECIFICATION MC_Spec
INVARIANT TypeOK RoundTrip RejectsBadLabels
