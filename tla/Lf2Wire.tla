------------------------------- MODULE Lf2Wire -------------------------------
(***************************************************************************)
(* knot_dname_lf2wire (src/lib/utils.c): convert a name in lookup format  *)
(* (labels in reverse order, each followed by a zero byte, the last zero   *)
(* optional) to wire format (length-prefixed labels in order, then a zero  *)
(* byte).  Its length argument is a uint8_t.                               *)
(*                                                                         *)
(* Bytes are numbers; a label's bytes are nonzero.  Positions are 0-based *)
(* as in the code: lf[i] is the TLA+ lf[i + 1].                           *)
(***************************************************************************)
EXTENDS Naturals, Sequences, SequencesExt

VARIABLES
    lf,   \* the input: the len bytes the caller passes (len = Len(lf))
    res   \* the output wire name, or EILSEQ

vars == <<lf, res>>

(* kr_error(EILSEQ) is represented by an empty output: a wire name never  *)
(* is empty, it ends with the zero byte.                                    *)
EILSEQ == <<>>

At(s, i) == s[i + 1]

(* Mutant: the scan for the label start stops one byte early.            *)
RECURSIVE LabelStart_early(_, _)
LabelStart_early(s, i) ==
    IF i >= 1 /\ At(s, i) # 0 THEN LabelStart_early(s, i - 1) ELSE i

(* while (i >= 0 && lf[i]) --i;                                          *)
RECURSIVE LabelStart(_, _)
LabelStart(s, i) ==
    IF i >= 0 /\ At(s, i) # 0 THEN LabelStart(s, i - 1) ELSE i

(* Mutant: a label of 64 bytes is accepted.                              *)
RECURSIVE Convert_len64(_, _, _)
Convert_len64(s, label_end, d) ==
    IF label_end < 0 THEN d \o <<0>>
    ELSE LET label_start == LabelStart(s, label_end - 1) + 1
             label_len == label_end - label_start
         IN IF label_len > 64 \/ label_len <= 0 THEN EILSEQ
            ELSE Convert_len64(s, label_start - 1,
                   d \o <<label_len>> \o SubSeq(s, label_start + 1, label_end))

(* Mutant: an empty label is not rejected.                               *)
RECURSIVE Convert_empty(_, _, _)
Convert_empty(s, label_end, d) ==
    IF label_end < 0 THEN d \o <<0>>
    ELSE LET label_start == LabelStart(s, label_end - 1) + 1
             label_len == label_end - label_start
         IN IF label_len > 63 \/ label_len < 0 THEN EILSEQ
            ELSE Convert_empty(s, label_start - 1,
                   d \o <<label_len>> \o SubSeq(s, label_start + 1, label_end))

(* The loop over labels, last label of the LF first: find the start of    *)
(* the label ending at label_end, reject a length outside 1..63, write the *)
(* length byte and the label, go on before it; at the end the final zero. *)
RECURSIVE Convert(_, _, _)
Convert(s, label_end, d) ==
    IF label_end < 0 THEN d \o <<0>>
    ELSE LET label_start == LabelStart(s, label_end - 1) + 1
             label_len == label_end - label_start
         IN IF label_len > 63 \/ label_len <= 0 THEN EILSEQ
            ELSE Convert(s, label_start - 1,
                   d \o <<label_len>> \o SubSeq(s, label_start + 1, label_end))

(* knot_dname_lf2wire(dst, len, lf): an empty input is the root; when the *)
(* last byte is not zero the final zero is implied and len, a uint8_t, is  *)
(* incremented (modulo 256).                                               *)
knot_dname_lf2wire(s) ==
    LET len == Len(s) % 256
        len2 == IF len > 0 /\ At(s, len - 1) # 0 THEN (len + 1) % 256 ELSE len
    IN IF len = 0 THEN <<0>> ELSE Convert(s, len2 - 1, <<>>)

Init == res = knot_dname_lf2wire(lf)

Next == UNCHANGED vars

----------------------------------------------------------------------------
(* Reference: the labels of an LF name, in LF order, and its wire form.   *)

RECURSIVE SplitLf(_)
SplitLf(s) ==
    IF s = <<>> THEN <<>>
    ELSE LET z == SelectInSeq(s, LAMBDA b : b = 0)
             n == IF z = 0 THEN Len(s) + 1 ELSE z
         IN <<SubSeq(s, 1, n - 1)>> \o SplitLf(SubSeq(s, n + 1, Len(s)))

WireOf(labels) ==
    FlattenSeq([k \in 1..Len(labels) |-> <<Len(labels[k])>> \o labels[k]])
        \o <<0>>

RefLabels == Reverse(SplitLf(lf))

BadLabel == \E k \in 1..Len(RefLabels) : Len(RefLabels[k]) \notin 1..63

(* The input is the LF of a name (RFC 1035: labels 1..63 bytes, wire form *)
(* at most 255 bytes).                                                     *)
IsName == ~BadLabel /\ Len(WireOf(RefLabels)) <= 255

TypeOK ==
    /\ lf \in Seq(0..255)
    /\ res \in Seq(0..63)

(* Round trip (spec 7): the LF form of every valid name, with or without  *)
(* its final zero, converts back to the name's wire form.                 *)
RoundTrip == IsName => res = WireOf(RefLabels)

(* Every input that is the LF form of at most 254 bytes, as every valid   *)
(* name's is, is rejected with EILSEQ exactly when one of its labels is   *)
(* empty or longer than 63 bytes.                                          *)
RejectsBadLabels == Len(lf) <= 254 => (res = EILSEQ <=> BadLabel)

(* Whatever len the caller passes, a conversion that succeeds yields the  *)
(* wire form of the labels it was given, and that is a name of at most    *)
(* 255 bytes (the size of a knot_dname_t buffer).                          *)
AcceptedIsName ==
    res # EILSEQ => res = WireOf(RefLabels) /\ Len(res) <= 255

============================================================================
