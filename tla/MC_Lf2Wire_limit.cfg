\* knot_dname_lf2wire on inputs of 255 bytes.
SPECIFICATION MC_Spec
INVARIANT AcceptedIsName
