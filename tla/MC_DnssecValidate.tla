------------------------- MODULE MC_DnssecValidate -------------------------
(* Bounded inputs of the validator.  Zone example.com (ex) with the names *)
(* www.example.com (www) and *.example.com (wild); org is a foreign zone. *)
(* Time is 5; signatures sit on the boundaries of their validity window. *)
EXTENDS DnssecValidate, TLC

CONSTANTS ex, www, wild, org

MC_Names == {ex, www, wild, org}

MC_NameLabels == [n \in MC_Names |->
                    CASE n = ex -> 2 [] n = www -> 3 [] n = wild -> 3
                      [] n = org -> 1]

MC_Wildcards == {wild}

Now == 5

(* DNSKEYs: flags 256 = zone key, 257 = zone key + SEP, 384 = zone key +  *)
(* REVOKE, 0 = not a zone key; k4 uses another algorithm.                 *)
k1 == [id |-> "k1", flags |-> 256, alg |-> 8,  tag |-> 11]
k2 == [id |-> "k2", flags |-> 257, alg |-> 8,  tag |-> 22]
k3 == [id |-> "k3", flags |-> 384, alg |-> 8,  tag |-> 33]
k4 == [id |-> "k4", flags |-> 256, alg |-> 13, tag |-> 44]
k0 == [id |-> "k0", flags |-> 0,   alg |-> 8,  tag |-> 55]

KeySet(owner, ks) ==
    [owner |-> owner, class |-> "IN", type |-> "DNSKEY", keys |-> ks]

Sig(covered, labels, key) ==
    [signer |-> ex, covered |-> covered, labels |-> labels,
     expiration |-> Now, inception |-> Now, alg |-> key.alg,
     keytag |-> key.tag, by |-> key.id]

(* Signatures over an A set: valid, by the second key, expired, not yet   *)
(* valid, expanded from a wildcard (2 and 1 labels), too many labels,     *)
(* forged, covering another type, signed by another zone.                 *)
sOk == Sig("A", 3, k1)
ASigs ==
    { sOk, Sig("A", 3, k2),
      [sOk EXCEPT !.expiration = Now - 1], [sOk EXCEPT !.inception = Now + 1],
      Sig("A", 2, k1), Sig("A", 1, k1), Sig("A", 4, k1),
      [sOk EXCEPT !.by = "none"], Sig("NS", 3, k1), [sOk EXCEPT !.signer = org] }

RRSIG(owner, class, sigs) ==
    [type |-> "RRSIG", owner |-> owner, class |-> class, sigs |-> sigs]

ASet(owner) == [type |-> "A", owner |-> owner, class |-> "IN", sigs |-> <<>>]

Sections(o) ==
    {<<RRSIG(o, "IN", <<s>>)>> : s \in ASigs}
    \cup {<<RRSIG(o, "IN", <<s1, s2>>)>> : s1, s2 \in ASigs}
    \cup {<<ASet(o), RRSIG(o, "IN", <<s>>)>> : s \in ASigs}
    \cup {<<RRSIG(o, "CH", <<sOk>>)>>, <<RRSIG(ex, "IN", <<sOk>>)>>}
    \cup {<<RRSIG(o, "IN", <<s1>>), RRSIG(o, "IN", <<s2>>)>> :
            s1, s2 \in {sOk, Sig("A", 2, k1), Sig("A", 3, k2)}}

(* Signatures over the DNSKEY set of ex, and trust anchors (DS sets).     *)
DSigs ==
    { Sig("DNSKEY", 2, k1), Sig("DNSKEY", 2, k2), Sig("DNSKEY", 2, k3),
      [Sig("DNSKEY", 2, k1) EXCEPT !.expiration = Now - 1],
      [Sig("DNSKEY", 2, k1) EXCEPT !.by = "none"] }

(* The calls checked, enumerated component by component in the initial   *)
(* predicate (TLC then never builds the set of call records).             *)
MC_Init ==
    /\ Init
    /\ \/ \E o \in {www, wild} :
            \E sec \in Sections(o),
              ks \in {KeySet(ex, <<k1>>), KeySet(ex, <<k2, k1>>),
                      KeySet(ex, <<k4>>), KeySet(ex, <<k3>>),
                      KeySet(org, <<k1>>)},
              cut \in {ex, org}, n3, p, p3, af \in BOOLEAN :
              in = [op |-> "rrset", section |-> sec,
                    covered |-> [owner |-> o, class |-> "IN", type |-> "A"],
                    keys |-> ks, ta |-> {}, cut |-> cut, now |-> Now,
                    has_nsec3 |-> n3, nsecProof |-> p, nsec3Proof |-> p3,
                    allocFail |-> af]
       \/ \E sec \in {<<RRSIG(ex, "IN", <<s>>)>> : s \in DSigs}
                    \cup {<<RRSIG(ex, "IN", <<s1, s2>>)>> : s1, s2 \in DSigs},
              ks \in {KeySet(ex, <<k1>>), KeySet(ex, <<k2>>),
                      KeySet(ex, <<k3>>), KeySet(ex, <<k3, k1>>),
                      KeySet(ex, <<k1, k2>>), KeySet(ex, <<k0>>)},
              ta \in {{"k1"}, {"k2"}, {"k3"}, {"k1", "k2"}, {"k0"}, {}},
              cut \in {ex, org}, af \in BOOLEAN :
              in = [op |-> "dnskeys", section |-> sec,
                    covered |-> [owner |-> ex, class |-> "IN",
                                 type |-> "DNSKEY"],
                    keys |-> ks, ta |-> ta, cut |-> cut, now |-> Now,
                    has_nsec3 |-> FALSE, nsecProof |-> FALSE,
                    nsec3Proof |-> FALSE, allocFail |-> af]

MC_Spec == MC_Init /\ [][Next]_vars
============================================================================
