---------------------------- MODULE MC_LibUtils ----------------------------
(* Bounded calls of the address utilities (AddrUtils) and of the memory  *)
(* helpers (MemUtils), packet helpers (PktUtils) and DNSKEY helpers       *)
(* (DnssecKeys), instantiated as Mem, Pkt and Keys on the same call and   *)
(* res.                                                                    *)
(* Texts are written character                                            *)
(* by character: v4 is "1.2.3.4", v6 "::1", bad "x" (no family accepts   *)
(* it) and long "1.2.3.45", one character over INET6_ADDRSTRLEN, which    *)
(* stands at 7 here.                                                      *)
EXTENDS AddrUtils, TLC

Mem == INSTANCE MemUtils
Pkt == INSTANCE PktUtils
Keys == INSTANCE DnssecKeys

v4   == <<"1", ".", "2", ".", "3", ".", "4">>
v6   == <<":", ":", "1">>
bad  == <<"x">>
long == v4 \o <<"5">>

MC_V4Text == {v4}
MC_V6Text == {v6}
MC_AddrStrLen == 7

(* Port and prefix texts: decimal in and out of range, with a sign, a     *)
(* leading blank, trailing garbage, and none.                             *)
NumTexts ==
    {<<>>, <<"0">>, <<"5", "3">>, <<"+", "5", "3">>, <<" ", "5", "3">>,
     <<"-", "1">>, <<"5", "3", "x">>, <<"x">>, <<"5", "3", "#", "1">>,
     <<"6", "5", "5", "3", "5">>, <<"6", "5", "5", "3", "6">>,
     <<"3", "2">>, <<"3", "3">>, <<"6", "4">>, <<"1", "2", "8">>,
     <<"1", "2", "9">>, <<"6", "4", ":">>}

Ports == {0, 1, 53, 258, 65535}

(* Buffers of two bytes: high bit set or not, differing in the top bits, *)
(* in the middle or in the last bit.                                      *)
Bufs == {<<0, 0>>, <<0, 1>>, <<64, 0>>, <<128, 0>>, <<129, 255>>, <<255, 255>>}

Sockaddrs ==
    {[family |-> f, mem |-> m] : f \in {"INET", "INET6", "UNIX"},
                                 m \in [{2, 3, 4, 8} -> {0, 1}]}

(* Owners in wire form: the root and names of one or two labels of one or *)
(* two bytes from 'a', 'A' and '0'.  Classes, types and discriminators    *)
(* that differ in one digit or in all.                                    *)
Labels == {<<c>> : c \in {97, 65, 48}} \cup {<<c, d>> : c, d \in {97, 65, 48}}
Owners == {<<0>>}
    \cup {<<Len(l)>> \o l \o <<0>> : l \in Labels}
    \cup {<<Len(l)>> \o l \o <<Len(m)>> \o m \o <<0>> :
            l \in Labels, m \in {<<97>>, <<65, 48>>}}
RRs == [class : {1}, owner : Owners, type : {1, 28}, add : {0, 1}]

(* Blocks of the caller, the bytes numbered; kr_memreserve's array holds  *)
(* have * elm_size bytes (none, when have is 0).  array_next_count(want),  *)
(* of lib/generic/array.h, is any count from want to want + 2.             *)
OldBlock(n) == [id |-> "old", data |-> [i \in 1..n |-> i]]
OldBlocks == {OldBlock(n) : n \in 1..3}

(* kr_strcatdup's arguments: up to three strings, NULL or empty among them. *)
Items == UNION {[1..n -> {NULL, <<>>, <<"a">>, <<"b", "c">>}] : n \in 0..3}

(* Packets of header "h" with AA and AD set or not, up to two questions   *)
(* on the wire, parsed by libknot or not (a parsed packet has at most     *)
(* one), and up to two RRs in any sections.                               *)
Questions == <<"q1", "q2">>
RRSeqs == UNION {[1..n -> [sec : Pkt!Sections, rr : {"r"}]] : n \in 0..2}
CountIn(rrs, sec) == Len(SelectSeq(rrs, LAMBDA r : r.sec = sec))
Packets ==
    {[hdr |-> "h", aa |-> aa, ad |-> ad, qd |-> qd, question |-> SubSeq(Questions, 1, qd),
      qparsed |-> parsed /\ qd = 1, rrs |-> rrs, an |-> CountIn(rrs, "AN"),
      ns |-> CountIn(rrs, "NS"), ar |-> CountIn(rrs, "AR"), current |-> cur] :
        aa, ad, parsed \in BOOLEAN, qd \in 0..2, rrs \in RRSeqs, cur \in Pkt!Sections}

(* Packets for kr_pkt_text as libknot parses them: up to three RRs in    *)
(* section order, the OPT only in the additional section and at most     *)
(* once, before or after another RR there; a question parsed or not.     *)
TextRR(sec, rr, fails) == [sec |-> sec, rr |-> rr, dumpFails |-> fails]
SecRank == [s \in Pkt!Sections |-> CASE s = "AN" -> 1 [] s = "NS" -> 2 [] s = "AR" -> 3]
TextRRSeqs(fails) ==
    {rrs \in UNION {[1..n -> {TextRR(sec, rr, FALSE) : sec \in Pkt!Sections, rr \in {"a", "b", "OPT"}}]
                    : n \in 0..3} :
        /\ \A i \in 1..Len(rrs) - 1 : SecRank[rrs[i].sec] <= SecRank[rrs[i + 1].sec]
        /\ \A i \in DOMAIN rrs : rrs[i].rr = "OPT" => rrs[i].sec = "AR"
        /\ \A i, j \in DOMAIN rrs : rrs[i].rr = "OPT" /\ rrs[j].rr = "OPT" => i = j}
TextPacket(rrs, qd, parsed, flags, rcode, ercode) ==
    [flags |-> flags, rcode |-> rcode, ercode |-> ercode, qd |-> qd,
     question |-> SubSeq(Questions, 1, qd), qparsed |-> parsed /\ qd = 1, rrs |-> rrs,
     an |-> CountIn(rrs, "AN"), ns |-> CountIn(rrs, "NS"), ar |-> CountIn(rrs, "AR")]
QForms == {<<0, FALSE>>, <<1, TRUE>>, <<1, FALSE>>, <<2, FALSE>>}

(* DNSKEY rdata: a key, the same key revoked, one differing in the last   *)
(* byte of its public key, in its algorithm, in the key's length; rdata  *)
(* too short to parse, empty and NULL; DS rdata of two bytes and of one.  *)
KeyA == <<1, 0, 3, 8, 5, 6>>
Rdatas ==
    {KeyA, [KeyA EXCEPT ![2] = 128], [KeyA EXCEPT ![6] = 7], [KeyA EXCEPT ![4] = 13],
     SubSeq(KeyA, 1, 5), <<1, 0, 3>>, <<>>, NULL}
DSRdatas == {<<0, 7>>, <<9>>}
KeyFails == [newFail : BOOLEAN, setFail : BOOLEAN, dnameFail : {FALSE}]

MC_Init ==
    /\ Init
    /\ \/ \E n \in 0..65535 : call = [op |-> "u16", num |-> n]
       \/ \E a \in {<<>>, v4, v6, long}, sep \in {<<>>, <<"#">>, <<"@">>},
             t \in NumTexts :
             call = [op |-> "split", instr |-> a \o sep \o t]
       \/ \E a \in {v4, v6, bad}, p \in Ports, n \in 0..16 :
             call = [op |-> "join", addr |-> a, port |-> p, buflen |-> n]
       \/ \E t \in {v4, v6}, p \in Ports, n \in 0..16 :
             call = [op |-> "ntop", text |-> t, port |-> p, buflen |-> n]
       \/ \E a \in {v4, v6, bad},
             text \in {<<>>} \cup {<<"/">> \o t : t \in NumTexts} :
             call = [op |-> "subnet", addr |-> a \o text]
       \/ \E a, b \in Bufs \cup {NULL}, n \in -1..16, sc \in BOOLEAN :
             call = [op |-> "bitcmp", a |-> a, b |-> b, bits |-> n, signedChar |-> sc]
       \/ \E sa \in Sockaddrs, p \in Ports :
             call = [op |-> "setport", sa |-> sa, port |-> p]
       \/ \E l, r \in Sockaddrs \cup {NULL} :
             call = [op |-> "cmp", l |-> l, r |-> r]
       \/ \E sa \in Sockaddrs \cup {NULL}, n \in 0..16 :
             call = [op |-> "inaddrstr", sa |-> sa, buflen |-> n]
       \/ \E x, y \in RRs : call = [op |-> "rrkey", rr |-> <<x, y>>]
       \/ \E pool, fail \in BOOLEAN, what \in OldBlocks \cup {NULL}, size \in 1..4 :
             \E prev \in 0..(IF what = NULL THEN 0 ELSE Len(what.data)) :
             call = [op |-> "realloc", pool |-> pool, what |-> what, size |-> size,
                     prev_size |-> prev, fail |-> fail]
       \/ \E have \in 0..3, elm \in {1, 2}, want \in 0..4, extra \in 0..2, fail \in BOOLEAN :
             call = [op |-> "memreserve", mem |-> OldBlock(have * elm), elm_size |-> elm,
                     want |-> want, have |-> have, next_size |-> want + extra, fail |-> fail]
       \/ \E items \in Items, fail \in BOOLEAN :
             call = [op |-> "strcatdup", items |-> items, fail |-> fail]
       \/ \E p \in Packets, op \in {"recycle", "clearpayload", "authheader"} :
             call = [op |-> op, pkt |-> p]
       \/ \E p \in Packets \cup {NULL}, name \in {"n", NULL}, fail, room \in BOOLEAN :
             call = [op |-> "put", pkt |-> p, name |-> name, rr |-> "r",
                     allocFail |-> fail, room |-> room]
       \/ \E flags \in SUBSET (1..7), maxlen \in 0..24 \cup {32} :
             call = [op |-> "flagstext", flags |-> flags, maxlen |-> maxlen]
       \/ \E rrs \in TextRRSeqs(FALSE), q \in QForms :
             call = [op |-> "pkttext", strdupFail |-> FALSE,
                     pkt |-> TextPacket(rrs, q[1], q[2], {1, 3}, 0, 0)]
       \/ \E rcode \in {0, 3, 11}, ercode \in {0, 1, 2}, opt \in BOOLEAN, fail \in BOOLEAN :
             call = [op |-> "pkttext", strdupFail |-> fail,
                     pkt |-> TextPacket(IF opt THEN <<TextRR("AR", "OPT", FALSE)>> ELSE <<>>,
                                        0, FALSE, {}, rcode, ercode)]
       \/ \E sec \in {"AN", "AR"}, f1, f2 \in BOOLEAN :
             call = [op |-> "pkttext", strdupFail |-> FALSE,
                     pkt |-> TextPacket(<<TextRR(sec, "a", f1), TextRR(sec, "b", f2)>>,
                                        1, TRUE, {}, 0, 0)]
       \/ call = [op |-> "pkttext", strdupFail |-> FALSE, pkt |-> NULL]
       \/ \E t \in {Keys!DS, Keys!DNSKEY, 1}, r \in Rdatas \cup DSRdatas, f \in KeyFails :
             call = [op |-> "keytag", rrtype |-> t, rdata |-> r, f |-> <<f>>]
       \/ \E a, b \in Rdatas, fa, fb \in KeyFails :
             call = [op |-> "keymatch", a |-> a, b |-> b, f |-> <<fa, fb>>]

MC_Next == Next \/ Mem!Next \/ Pkt!Next \/ Keys!Next

MC_Spec == MC_Init /\ [][MC_Next]_vars

----------------------------------------------------------------------------
(* Each call is checked against the type invariant of its own module.    *)
LibTypeOK ==
    CASE call.op \in AddrOps -> TypeOK
      [] call.op \in Mem!MemOps -> Mem!TypeOK
      [] call.op \in Keys!KeyOps -> Keys!TypeOK
      [] OTHER -> Pkt!TypeOK

(* mm_realloc keeps the requested bytes or, failing, the caller's block.  *)
ReallocKeepsData == Mem!ReallocKeepsData

(* kr_memreserve grows the array or leaves *mem and *have as they were.   *)
ReserveAtomic == Mem!ReserveAtomic

(* kr_strcatdup fills exactly its total_len + 1 bytes with the items.    *)
StrcatdupConcat == Mem!StrcatdupConcat

(* pkt_recycle returns a packet whose counts match its wire, or EMALF.    *)
RecycleConsistent == Pkt!RecycleConsistent

(* kr_pkt_clear_payload keeps the question of a parsed packet.            *)
ClearPayloadKeepsQuestion == Pkt!ClearPayloadKeepsQuestion

(* flags_to_str stays inside maxlen and writes all flags or none.        *)
FlagsTextFits == Pkt!FlagsTextFits

(* kr_pkt_text shows each section's RRs but the OPT, in order, under one  *)
(* title, except the additional section when its OPT leads it.            *)
TextListsSections == Pkt!TextListsSections

(* kr_dnssec_key_tag and kr_dnssec_key_match free every key they parse.   *)
KeysReleased == Keys!KeysReleased

(* kr_dnssec_key_match matches on algorithm and public key alone.         *)
KeyMatchIsSameKey == Keys!KeyMatchIsSameKey
============================================================================
