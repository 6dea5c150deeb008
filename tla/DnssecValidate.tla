--------------------------- MODULE DnssecValidate ---------------------------
(***************************************************************************)
(* The DNSSEC validator of src/lib/dnssec.c: the per-signature checks of  *)
(* RFC 4035 5.3.1 (validate_rrsig_rr), the loop over every RRSIG of a     *)
(* packet section for one key (kr_rrset_validate_with_key), the loop over *)
(* the keys of a DNSKEY set (kr_rrset_validate) and the trust decision on *)
(* a DNSKEY set (kr_dnskeys_trusted).                                     *)
(*                                                                         *)
(* Names are model values with a label count; a signature records the key *)
(* that made it (by), so the cryptographic check kr_check_signature and   *)
(* the DS digest match kr_authenticate_referral (both in lib/dnssec/      *)
(* signature.c, outside src/) are modelled from the spec: a signature      *)
(* verifies under the key that made it, a DS set authenticates the keys   *)
(* whose digest it holds.  The NSEC/NSEC3 wildcard-answer proofs          *)
(* (lib/dnssec/nsec*.c) are the booleans nsecProof and nsec3Proof of the  *)
(* input.  One validation call is one step; the module then stops.        *)
(***************************************************************************)
EXTENDS Naturals, Sequences, Bitwise

CONSTANTS
    Names,        \* owner names (model values)
    NameLabels,   \* [Names -> Nat]: label count, the '*' label included
    Wildcards,    \* the names whose first label is '*'
    NoKey         \* the NULL key argument of kr_rrset_validate_with_key

VARIABLES
    in,       \* the arguments of the call
    result    \* "none" before the call, then the call's return code

vars == <<in, result>>

----------------------------------------------------------------------------
(* Spec-modelled collaborators (lib/dnssec/signature.c, nsec.c, nsec3.c). *)

(* kr_check_signature: the signature verifies under the key that made it. *)
kr_check_signature(sig, key, covered, trim) == sig.by = key.id

(* kr_authenticate_referral: the DS set (ta) holds the key's digest.      *)
kr_authenticate_referral(ta, key) == key.id \in ta

(* kr_nsec(3)_wildcard_answer_response_check on the authority section.    *)
wildcard_answer_proof(call) ==
    IF ~call.has_nsec3 THEN call.nsecProof ELSE call.nsec3Proof

(* kr_dnssec_key_from_rdata: dnssec_key_new/set_rdata may fail (ENOMEM).   *)
kr_dnssec_key_from_rdata(call) == ~call.allocFail

----------------------------------------------------------------------------
(* DNSKEY flag tests on the flags word of the rdata.                      *)
(* Mutant: the zone-key test reading the REVOKE bit's mask.               *)
kr_dnssec_key_zsk_mask128(flags) == (flags & 128) # 0

kr_dnssec_key_zsk(flags) == (flags & 256) # 0

kr_dnssec_key_revoked(flags) == (flags & 128) # 0

(* knot_dname_labels, minus the asterisk of a wildcard owner.             *)
DnameLabels(name) ==
    NameLabels[name] - (IF name \in Wildcards THEN 1 ELSE 0)

(* Mutant: validate_rrsig_rr without bullet 2 (signer = zone cut).        *)
validate_rrsig_rr_nosigner(covered, rrsig, sig, keys, key, zone_name, timestamp) ==
    [ok |-> /\ covered.class = rrsig.class
            /\ covered.owner = rrsig.owner
            /\ sig.covered = covered.type
            /\ sig.labels <= DnameLabels(covered.owner)
            /\ sig.expiration >= timestamp
            /\ sig.inception <= timestamp
            /\ keys.owner = sig.signer
            /\ key.alg = sig.alg
            /\ key.tag = sig.keytag,
     wc |-> sig.labels < DnameLabels(covered.owner)]

(* validate_rrsig_rr: RFC 4035 5.3.1 bullets 1-7 for rdata sig of the     *)
(* RRSIG set rrsig against the covered set and key; wc is the             *)
(* FLG_WILDCARD_EXPANSION flag.                                            *)
validate_rrsig_rr(covered, rrsig, sig, keys, key, zone_name, timestamp) ==
    [ok |-> /\ covered.class = rrsig.class
            /\ covered.owner = rrsig.owner
            /\ sig.signer = zone_name
            /\ sig.covered = covered.type
            /\ sig.labels <= DnameLabels(covered.owner)
            /\ sig.expiration >= timestamp
            /\ sig.inception <= timestamp
            /\ keys.owner = sig.signer
            /\ key.alg = sig.alg
            /\ key.tag = sig.keytag,
     wc |-> sig.labels < DnameLabels(covered.owner)]

(* wildcard_radix_len_diff: labels added by the expansion.                *)
wildcard_radix_len_diff(expanded, sig) == NameLabels[expanded] - sig.labels

(* The two nested loops of kr_rrset_validate_with_key over the RRSIG sets *)
(* i of the section and their rdata j; ret is the value carried between   *)
(* iterations (ENOENT, or EPROOF after a wildcard proof failed).          *)
RECURSIVE SigLoop(_, _, _, _, _, _, _)
SigLoop(call, covered, keys, key, i, j, ret) ==
    LET sec == call.section IN
    IF i > Len(sec) THEN ret
    ELSE IF sec[i].type # "RRSIG" \/ j > Len(sec[i].sigs)
    THEN SigLoop(call, covered, keys, key, i + 1, 1, ret)
    ELSE
      LET sig  == sec[i].sigs[j]
          chk  == validate_rrsig_rr(covered, sec[i], sig, keys, key,
                                    call.cut, call.now)
          trim == IF chk.wc THEN wildcard_radix_len_diff(covered.owner, sig)
                  ELSE 0
          next(r) == SigLoop(call, covered, keys, key, i, j + 1, r)
      IN
      IF ~chk.ok THEN next(ret)
      ELSE IF chk.wc /\ trim < 0
      THEN SigLoop(call, covered, keys, key, i + 1, 1, ret)
      ELSE IF ~kr_check_signature(sig, key, covered, trim) THEN next(ret)
      ELSE IF chk.wc /\ ~wildcard_answer_proof(call) THEN next("EPROOF")
      ELSE "ok"

(* kr_rrset_validate_with_key: with key = NoKey the key is first parsed   *)
(* from the rdata at key_pos, and a failure to parse it is returned.      *)
kr_rrset_validate_with_key(call, covered, keys, key_pos, key) ==
    IF key = NoKey /\ ~kr_dnssec_key_from_rdata(call) THEN "ENOMEM"
    ELSE SigLoop(call, covered, keys, keys.keys[key_pos], 1, 1, "ENOENT")

(* Mutant: kr_rrset_validate returning after the first key.              *)
kr_rrset_validate_firstkey(call) ==
    IF kr_rrset_validate_with_key(call, call.covered, call.keys, 1, NoKey) = "ok"
    THEN "ok" ELSE "ENOENT"

(* Mutant: kr_rrset_validate returning the last key's error code instead  *)
(* of ENOENT.                                                               *)
kr_rrset_validate_lastret(call) ==
    IF \E k \in DOMAIN call.keys.keys :
          kr_rrset_validate_with_key(call, call.covered, call.keys, k, NoKey)
            = "ok"
    THEN "ok"
    ELSE kr_rrset_validate_with_key(call, call.covered, call.keys,
                                    Len(call.keys.keys), NoKey)

(* kr_rrset_validate: the first key of the set that validates wins.       *)
kr_rrset_validate(call) ==
    IF \E k \in DOMAIN call.keys.keys :
          kr_rrset_validate_with_key(call, call.covered, call.keys, k, NoKey)
            = "ok"
    THEN "ok" ELSE "ENOENT"

(* kr_dnskeys_trusted: some zone key, not revoked, whose digest the DS    *)
(* set holds, validates the DNSKEY set itself.                            *)
kr_dnskeys_trusted(call) ==
    LET keys == call.keys IN
    IF \E i \in DOMAIN keys.keys :
          LET key == keys.keys[i] IN
          /\ kr_dnssec_key_zsk(key.flags)
          /\ ~kr_dnssec_key_revoked(key.flags)
          /\ kr_dnssec_key_from_rdata(call)
          /\ kr_authenticate_referral(call.ta, key)
          /\ kr_rrset_validate_with_key(call, keys, keys, i, key) = "ok"
    THEN "ok" ELSE "ENOENT"

----------------------------------------------------------------------------
ValidateRRset ==
    /\ result = "none"
    /\ in.op = "rrset"
    /\ result' = kr_rrset_validate(in)
    /\ UNCHANGED in

DnskeysTrusted ==
    /\ result = "none"
    /\ in.op = "dnskeys"
    /\ result' = kr_dnskeys_trusted(in)
    /\ UNCHANGED in

(* Before the call: its arguments in are any call the resolver makes; a    *)
(* model instance conjoins the bounded set of calls it checks.            *)
Init == result = "none"

Next == ValidateRRset \/ DnskeysTrusted

Spec == Init /\ [][Next]_vars

----------------------------------------------------------------------------
(* Reference definitions, from the spec (sections 4.7 and 8) and RFC 4034 *)
(* rather than from the code.                                              *)

(* DNSKEY flag bit b, numbered as in RFC 4034 (bit 0 is the most          *)
(* significant): bit 7 is the zone key flag, bit 8 the REVOKE flag.       *)
RfcFlagBit(flags, b) == (flags \div (2 ^ (15 - b))) % 2 = 1

(* The signature rdata of the section, each with its RRSIG set.          *)
RRsigSets(call) ==
    {call.section[i] : i \in {x \in DOMAIN call.section :
                                call.section[x].type = "RRSIG"}}

SectionSigs(call) ==
    UNION {{<<r, r.sigs[j]>> : j \in DOMAIN r.sigs} : r \in RRsigSets(call)}

KeysOf(keys) == {keys.keys[i] : i \in DOMAIN keys.keys}

(* Labels of the owner that an RRSIG labels field is compared with.       *)
OwnerLabels(owner) ==
    NameLabels[owner] - (IF owner \in Wildcards THEN 1 ELSE 0)

Expanded(covered, sig) == sig.labels < OwnerLabels(covered.owner)

(* A signature that the spec's per-signature checks 1-7 accept, that      *)
(* verifies, and that carries the wildcard proof when it was expanded.    *)
SpecAccepts(call, covered, keys, key, rs) ==
    LET r == rs[1]  g == rs[2] IN
    /\ r.class = covered.class /\ r.owner = covered.owner
    /\ g.signer = call.cut
    /\ g.covered = covered.type
    /\ g.labels <= OwnerLabels(covered.owner)
    /\ g.inception <= call.now /\ call.now <= g.expiration
    /\ keys.owner = g.signer /\ key.alg = g.alg /\ key.tag = g.keytag
    /\ g.by = key.id
    /\ Expanded(covered, g) => wildcard_answer_proof(call)

TypeOK ==
    /\ in.op \in {"rrset", "dnskeys"}
    /\ in.cut \in Names /\ in.keys.owner \in Names
    /\ \A r \in {in.section[i] : i \in DOMAIN in.section} :
          r.owner \in Names /\ r.sigs \in Seq([signer: Names, covered: STRING,
             labels: Nat, expiration: Nat, inception: Nat, alg: Nat,
             keytag: Nat, by: STRING])
    /\ result \in {"none", "ok", "ENOENT"}

(* Spec, section 8: kr_rrset_validate reports success only if some RRSIG  *)
(* of the section over this RRset, valid now (inception <= now <=         *)
(* expiration) and signed by the zone cut, verifies under a key of the    *)
(* set, and a wildcard-expanded one comes with its NSEC/NSEC3 proof.      *)
ValidateSound ==
    (in.op = "rrset" /\ result = "ok") =>
        \E rs \in SectionSigs(in), key \in KeysOf(in.keys) :
            LET g == rs[2] IN
            /\ rs[1].owner = in.covered.owner /\ g.covered = in.covered.type
            /\ g.inception <= in.now /\ in.now <= g.expiration
            /\ g.signer = in.cut
            /\ g.by = key.id
            /\ Expanded(in.covered, g) => wildcard_answer_proof(in)

(* Spec, section 4.7: when memory allows, kr_rrset_validate accepts the   *)
(* RRset as soon as any key of the set and any RRSIG of the section pass  *)
(* the seven checks, whatever the order of keys and signatures.           *)
ValidateComplete ==
    (in.op = "rrset" /\ result # "none" /\ ~in.allocFail /\
     \E rs \in SectionSigs(in), key \in KeysOf(in.keys) :
        SpecAccepts(in, in.covered, in.keys, key, rs))
    => result = "ok"

(* Spec, section 4.7 (trust chain): kr_dnskeys_trusted accepts a DNSKEY   *)
(* set exactly when one of its keys is a zone key (RFC bit 7), is not     *)
(* revoked (bit 8), matches the DS set and self-signs the DNSKEY set.     *)
TrustedPerSpec ==
    (in.op = "dnskeys" /\ result # "none") =>
        (result = "ok" <=>
            /\ ~in.allocFail
            /\ \E key \in KeysOf(in.keys) :
                 /\ RfcFlagBit(key.flags, 7) /\ ~RfcFlagBit(key.flags, 8)
                 /\ key.id \in in.ta
                 /\ \E rs \in SectionSigs(in) :
                        SpecAccepts(in, in.keys, in.keys, key, rs))

============================================================================
