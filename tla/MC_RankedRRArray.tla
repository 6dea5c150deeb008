------------------------- MODULE MC_RankedRRArray -------------------------
(* Two queries of one request, one owner name, two RRset identities: the  *)
(* RRSIG sets covering A and NS (equal owner and type, different covered  *)
(* type, which rrsets_match must tell apart).                             *)
EXTENDS RankedRRArray, TLC

CONSTANTS q1, q2, owner

MC_Queries == {q1, q2}

MC_RRs ==
    { [owner |-> owner, type |-> "RRSIG", covered |-> "A"],
      [owner |-> owner, type |-> "RRSIG", covered |-> "NS"] }

MC_Ranks == {"TRY", "SECURE"}

(* set_wire without a filter, and with a filter accepting SECURE only.    *)
MC_ExtraChecks == {NoCheck, {"SECURE"}}

MC_Symmetry == Permutations(MC_Queries)
============================================================================
