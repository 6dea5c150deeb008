------------------------------ MODULE DnssecKeys ------------------------------
(***************************************************************************)
(* The DNSKEY helpers of src/lib/dnssec.c: kr_dnssec_key_from_rdata,     *)
(* kr_dnssec_key_tag, kr_dnssec_key_match and kr_dnssec_key_free.  As in  *)
(* AddrUtils, each state is one call; res.live counts the libdnssec key   *)
(* objects the call allocated and did not free.                           *)
(*                                                                         *)
(* Rdata is a sequence of bytes (DNSKEY: flags, flags, protocol,          *)
(* algorithm, public key).  libdnssec is not in this repository: whether  *)
(* dnssec_key_new fails (newFail), and whether dnssec_key_set_rdata or     *)
(* dnssec_key_set_dname fail for want of memory (setFail, dnameFail), are *)
(* inputs, one record per kr_dnssec_key_from_rdata of the call;            *)
(* set_rdata also fails on rdata shorter than its 4 fixed bytes.          *)
(***************************************************************************)
EXTENDS Integers, Sequences

CONSTANT NULL

VARIABLES call, res

NoResult == [ret |-> "none"]

Done == res # NoResult

KeyOps == {"keytag", "keymatch"}

DS == 43
DNSKEY == 48

(* libdnssec: the fields of a parsed DNSKEY, and its key tag (RFC 4034   *)
(* appendix B, for every algorithm but RSA/MD5, which is not used here).  *)
Alg(rdata) == rdata[4]
Pubkey(rdata) == SubSeq(rdata, 5, Len(rdata))
SetRdataOk(rdata) == Len(rdata) >= 4

RECURSIVE KeyTagSum(_, _)
KeyTagSum(rdata, i) ==
    IF i > Len(rdata) THEN 0
    ELSE (IF (i % 2) = 1 THEN rdata[i] * 256 ELSE rdata[i]) + KeyTagSum(rdata, i + 1)

dnssec_key_get_keytag(rdata) ==
    LET ac == KeyTagSum(rdata, 1) IN (ac + ((ac \div 65536) % 65536)) % 65536

(* Mutant: the key is not freed when dnssec_key_set_rdata fails.          *)
kr_dnssec_key_from_rdata_leak(rdata, kown, f) ==
    IF rdata = NULL \/ Len(rdata) = 0 THEN [ret |-> "EINVAL", live |-> 0]
    ELSE IF f.newFail THEN [ret |-> "ENOMEM", live |-> 0]
    ELSE IF ~SetRdataOk(rdata) \/ f.setFail THEN [ret |-> "ENOMEM", live |-> 1]
    ELSE IF kown # NULL /\ f.dnameFail THEN [ret |-> "ENOMEM", live |-> 0]
    ELSE [ret |-> "ok", live |-> 1]

(* kr_dnssec_key_from_rdata: EINVAL for no rdata; ENOMEM, the new key     *)
(* freed, when any libdnssec step fails; else *key holds the new key.     *)
kr_dnssec_key_from_rdata(rdata, kown, f) ==
    IF rdata = NULL \/ Len(rdata) = 0 THEN [ret |-> "EINVAL", live |-> 0]
    ELSE IF f.newFail THEN [ret |-> "ENOMEM", live |-> 0]
    ELSE IF ~SetRdataOk(rdata) \/ f.setFail THEN [ret |-> "ENOMEM", live |-> 0]
    ELSE IF kown # NULL /\ f.dnameFail THEN [ret |-> "ENOMEM", live |-> 0]
    ELSE [ret |-> "ok", live |-> 1]

(* kr_dnssec_key_free: frees the key and clears the pointer.              *)
kr_dnssec_key_free(live) == live - 1

(* wire_read_u16 of the rdata, in network byte order.                     *)
WireReadU16(rdata) == rdata[1] * 256 + rdata[2]

(* kr_dnssec_key_tag: EINVAL for no rdata or another type; a DS holds its *)
(* tag in its first two bytes (a DS rdata of one byte is read past its    *)
(* end: UB); a DNSKEY is parsed, tagged and freed.  The int it returns is *)
(* split into ret and tag.                                                 *)
kr_dnssec_key_tag(rrtype, rdata, f) ==
    IF rdata = NULL \/ Len(rdata) = 0 \/ rrtype \notin {DS, DNSKEY}
    THEN [ret |-> "EINVAL", live |-> 0]
    ELSE IF rrtype = DS
    THEN IF Len(rdata) < 2 THEN [ret |-> "UB", live |-> 0]
         ELSE [ret |-> "ok", tag |-> WireReadU16(rdata), live |-> 0]
    ELSE LET k == kr_dnssec_key_from_rdata(rdata, NULL, f)
         IN IF k.ret # "ok" THEN k
            ELSE [ret |-> "ok", tag |-> dnssec_key_get_keytag(rdata),
                  live |-> kr_dnssec_key_free(k.live)]

(* Mutant: equal when the algorithms and the key sizes agree (no memcmp). *)
SameKey_sizeonly(a, b) == Alg(a) = Alg(b) /\ Len(Pubkey(a)) = Len(Pubkey(b))

(* The comparison of kr_dnssec_key_match: same algorithm, public keys of  *)
(* the same size and bytes.                                               *)
SameKey(a, b) ==
    Alg(a) = Alg(b) /\ Len(Pubkey(a)) = Len(Pubkey(b)) /\ Pubkey(a) = Pubkey(b)

(* Mutant: key_a is not freed when key_b fails to parse.                  *)
kr_dnssec_key_match_leak(a, b, fa, fb) ==
    LET ka == kr_dnssec_key_from_rdata(a, NULL, fa)
        kb == kr_dnssec_key_from_rdata(b, NULL, fb)
    IN IF ka.ret # "ok" THEN ka
       ELSE IF kb.ret # "ok" THEN [ret |-> kb.ret, live |-> ka.live + kb.live]
       ELSE [ret |-> IF SameKey(a, b) THEN "ok" ELSE "ENOENT",
             live |-> ka.live + kb.live - 2]

(* kr_dnssec_key_match: both keys are parsed (key_a freed if key_b        *)
(* fails), compared, and both freed.                                       *)
kr_dnssec_key_match(a, b, fa, fb) ==
    LET ka == kr_dnssec_key_from_rdata(a, NULL, fa)
        kb == kr_dnssec_key_from_rdata(b, NULL, fb)
    IN IF ka.ret # "ok" THEN ka
       ELSE IF kb.ret # "ok" THEN [ret |-> kb.ret, live |-> kr_dnssec_key_free(ka.live) + kb.live]
       ELSE [ret |-> IF SameKey(a, b) THEN "ok" ELSE "ENOENT",
             live |-> kr_dnssec_key_free(kr_dnssec_key_free(ka.live + kb.live))]

----------------------------------------------------------------------------
Init == res = NoResult

Call(op, result) == call.op = op /\ res = NoResult /\ res' = result /\ UNCHANGED call

KeyTag   == Call("keytag", kr_dnssec_key_tag(call.rrtype, call.rdata, call.f[1]))
KeyMatch == Call("keymatch", kr_dnssec_key_match(call.a, call.b, call.f[1], call.f[2]))

Next == KeyTag \/ KeyMatch

----------------------------------------------------------------------------
(* Properties.                                                            *)

TypeOK ==
    /\ call.op \in KeyOps
    /\ Done => res.ret \in {"ok", "EINVAL", "ENOMEM", "ENOENT", "UB"}
    /\ Done /\ call.op = "keytag" /\ res.ret = "ok" => res.tag \in 0..65535

(* Every path of kr_dnssec_key_tag and kr_dnssec_key_match, the early    *)
(* returns after a failed parse included, frees every key it parsed, and  *)
(* frees none twice.                                                        *)
KeysReleased == Done /\ call.op \in KeyOps => res.live = 0

(* kr_dnssec_key_match reports a match exactly when both rdata parse and  *)
(* carry the same algorithm and public key (its comment: then they are    *)
(* the same key), whatever their flags.                                    *)
KeyMatchIsSameKey ==
    Done /\ call.op = "keymatch" =>
        (res.ret = "ok" <=>
            /\ call.a # NULL /\ call.b # NULL
            /\ Len(call.a) >= 4 /\ Len(call.b) >= 4
            /\ \A i \in 1..2 : ~call.f[i].newFail /\ ~call.f[i].setFail
            /\ Alg(call.a) = Alg(call.b)
            /\ \A i \in 5..Len(call.a) \cup 5..Len(call.b) :
                  i <= Len(call.a) /\ i <= Len(call.b) /\ call.a[i] = call.b[i])

============================================================================
