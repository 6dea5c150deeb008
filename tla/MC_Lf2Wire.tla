----------------------------- MODULE MC_Lf2Wire -----------------------------
(* Inputs for knot_dname_lf2wire: LF names of up to four labels, each     *)
(* empty, of 1 or 2 bytes (of two different byte values), or of 62, 63 or *)
(* 64 bytes, with and without the final zero, at most 255 bytes long (len  *)
(* is a uint8_t).  Four labels of 62..64 bytes reach the 255-byte edge.    *)
EXTENDS Lf2Wire

LabelChoices ==
    {<<>>, <<1>>, <<2>>, <<1, 1>>, <<2, 2>>,
     [k \in 1..62 |-> 1], [k \in 1..63 |-> 2], [k \in 1..64 |-> 1]}

LfOf(labels, final) ==
    LET s == FlattenSeq([k \in 1..Len(labels) |-> labels[k] \o <<0>>])
    IN IF final THEN s ELSE SubSeq(s, 1, Len(s) - 1)

MC_Init ==
    /\ \E n \in 1..4, labels \in [1..4 -> LabelChoices], final \in BOOLEAN :
          LET s == LfOf([k \in 1..n |-> labels[k]], final)
          IN Len(s) <= 255 /\ lf = s
    /\ Init

MC_Spec == MC_Init /\ [][Next]_vars

============================================================================
