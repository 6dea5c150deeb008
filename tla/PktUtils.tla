------------------------------- MODULE PktUtils -------------------------------
(***************************************************************************)
(* The packet helpers of src/lib/utils.c: pkt_recycle with its two entry  *)
(* points kr_pkt_recycle and kr_pkt_clear_payload, kr_pkt_put and         *)
(* kr_pkt_make_auth_header.  As in AddrUtils, each state is one call.     *)
(*                                                                         *)
(* A packet is abstracted to its header (hdr: id and the other flags; aa, *)
(* ad), the four section counts of the wire, the question entries on the  *)
(* wire (question), whether libknot parsed the first of them               *)
(* (qparsed: pkt->qname_size # 0), the RRs put into it with their section *)
(* and the section knot_pkt_put writes to (current).  The libknot calls    *)
(* (knot_pkt_clear, knot_pkt_begin, knot_pkt_parse_question,              *)
(* knot_pkt_put) are not in this repository; they are modelled by what   *)
(* they do to these fields, and whether knot_pkt_put finds room, or an    *)
(* allocation succeeds, is an input.                                       *)
(***************************************************************************)
EXTENDS Integers, Sequences, SequencesExt, FiniteSets, TLC

CONSTANT NULL

VARIABLES call, res

NoResult == [ret |-> "none"]

Done == res # NoResult

PktOps == {"recycle", "clearpayload", "put", "authheader", "flagstext", "pkttext"}

Sections == {"AN", "NS", "AR"}

(* knot_pkt_question_size: the size of the parsed question, 0 if none.    *)
QuestionSaved(pkt, keep_question) ==
    IF keep_question /\ pkt.qparsed THEN SubSeq(pkt.question, 1, 1) ELSE <<>>

(* knot_pkt_parse_question: no question with qdcount 0; EMALF for a       *)
(* qdcount over 1 or a question missing from the wire.                     *)
ParseQuestion(pkt) ==
    IF pkt.qd = 0 THEN [ret |-> "ok", pkt |-> [pkt EXCEPT !.qparsed = FALSE]]
    ELSE IF pkt.qd = 1 /\ Len(pkt.question) >= 1
         THEN [ret |-> "ok", pkt |-> [pkt EXCEPT !.qparsed = TRUE]]
         ELSE [ret |-> "EMALF", pkt |-> [pkt EXCEPT !.qparsed = FALSE]]

(* The header and, if kept, the question are saved; knot_pkt_clear drops  *)
(* the RRs and the parse; the saved bytes are restored with qdcount       *)
(* keep_question and the other counts 0; knot_pkt_begin(KNOT_ANSWER).     *)
Restored(pkt, keep_question) ==
    [pkt EXCEPT !.qd = IF keep_question THEN 1 ELSE 0, !.an = 0, !.ns = 0, !.ar = 0,
                !.question = QuestionSaved(pkt, keep_question), !.qparsed = FALSE,
                !.rrs = <<>>, !.current = "AN"]

(* Mutant: the question is not parsed again.                               *)
pkt_recycle_noparse(pkt, keep_question) ==
    [ret |-> "ok", pkt |-> Restored(pkt, keep_question)]

(* pkt_recycle(pkt, keep_question), ending with knot_pkt_parse_question.   *)
pkt_recycle(pkt, keep_question) == ParseQuestion(Restored(pkt, keep_question))

kr_pkt_recycle(pkt) == pkt_recycle(pkt, FALSE)

(* Mutant: the question is dropped however many the wire counts.          *)
kr_pkt_clear_payload_drop(pkt) == pkt_recycle(pkt, FALSE)

(* keep_question is the wire's qdcount converted to bool.                 *)
kr_pkt_clear_payload(pkt) == pkt_recycle(pkt, pkt.qd # 0)

SectionCount(sec) == CASE sec = "AN" -> "an" [] sec = "NS" -> "ns" [] sec = "AR" -> "ar"

(* kr_pkt_put: EINVAL for a NULL packet or name.  Neither the owner copy  *)
(* nor the rdata allocation is checked: a failed allocation is written    *)
(* through (knot_rdata_init on NULL) or put as an RR without owner, which *)
(* is undefined behaviour ("UB").  Else knot_pkt_put appends the RR to    *)
(* the current section or, without room, fails with ESPACE.               *)
kr_pkt_put(pkt, name, rr, allocFail, room) ==
    IF pkt = NULL \/ name = NULL THEN [ret |-> "EINVAL", pkt |-> pkt]
    ELSE IF allocFail THEN [ret |-> "UB", pkt |-> pkt]
    ELSE IF ~room THEN [ret |-> "ESPACE", pkt |-> pkt]
    ELSE LET c == SectionCount(pkt.current)
         IN [ret |-> "ok",
             pkt |-> [pkt EXCEPT !.rrs = Append(@, [sec |-> pkt.current, rr |-> rr]),
                                 ![c] = @ + 1]]

kr_pkt_make_auth_header(pkt) == [pkt EXCEPT !.ad = FALSE, !.aa = TRUE]

(* The table of flags_to_str, in its order.                                *)
FlagNames == <<<<"q", "r">>, <<"a", "a">>, <<"r", "d">>, <<"r", "a">>,
               <<"t", "c">>, <<"a", "d">>, <<"c", "d">>>>

(* snprintf(dst + offset, maxlen, "%s ", name): at most maxlen - 1        *)
(* characters and a NUL; it returns the length of the full text.          *)
Snprintf(dst, offset, maxlen, text) ==
    LET n == IF maxlen = 0 THEN 0 ELSE IF Len(text) < maxlen THEN Len(text) ELSE maxlen - 1
    IN IF maxlen = 0 THEN dst
       ELSE [i \in offset..offset + n |-> IF i < offset + n THEN text[i - offset + 1] ELSE "NUL"] @@ dst

(* Mutant: the truncation check misses ret = maxlen.                       *)
RECURSIVE FlagsLoop_gt(_, _, _, _, _)
FlagsLoop_gt(flags, i, dst, offset, maxlen) ==
    IF i > Len(FlagNames) THEN (offset :> "NUL") @@ dst
    ELSE IF i \notin flags THEN FlagsLoop_gt(flags, i + 1, dst, offset, maxlen)
    ELSE LET text == FlagNames[i] \o <<" ">>
             ret == Len(text)
             dst2 == Snprintf(dst, offset, maxlen, text)
         IN IF ret > maxlen THEN (0 :> "NUL") @@ dst2
            ELSE FlagsLoop_gt(flags, i + 1, dst2, offset + ret, maxlen - ret)

(* The loop of flags_to_str from flag i on, dst being the bytes written    *)
(* (index -> character, later writes first).                               *)
RECURSIVE FlagsLoop(_, _, _, _, _)
FlagsLoop(flags, i, dst, offset, maxlen) ==
    IF i > Len(FlagNames) THEN (offset :> "NUL") @@ dst
    ELSE IF i \notin flags THEN FlagsLoop(flags, i + 1, dst, offset, maxlen)
    ELSE LET text == FlagNames[i] \o <<" ">>
             ret == Len(text)
             dst2 == Snprintf(dst, offset, maxlen, text)
         IN IF ret <= 0 \/ ret >= maxlen THEN (0 :> "NUL") @@ dst2
            ELSE FlagsLoop(flags, i + 1, dst2, offset + ret, maxlen - ret)

(* flags_to_str(dst, pkt, maxlen): flags are the indices in FlagNames of  *)
(* the header bits that are set.                                           *)
flags_to_str(flags, maxlen) == FlagsLoop(flags, 1, <<>>, 0, maxlen)

----------------------------------------------------------------------------
(* kr_pkt_text, over a packet of the shape libknot parses: its RRs in     *)
(* section order, each [sec, rr, dumpFails], rr an RR text or "OPT" (at   *)
(* most one, in the additional section); the header's flags (indices of   *)
(* FlagNames), rcode and, with an OPT, its extended rcode (ercode).       *)
(* Whether knot_rrset_txt_dump fails for an RR (dumpFails) and whether    *)
(* strdup fails are inputs.  A line of the text is a record; its wording  *)
(* is left out.                                                            *)
SectionOrder == <<"AN", "NS", "AR">>

(* knot_lookup_by_id in libknot's knot_rcode_names: the ids it names.     *)
RcodeIds == (0..10) \cup (16..23)
RcodeName(id) == IF id \in RcodeIds THEN id ELSE "Unknown"

Uninit == "uninit"   \* the bytes of a stack buffer nothing wrote

(* print_section_opt: the name of knot_edns_whole_rcode(ercode, rcode),   *)
(* "Unknown" if libknot has none, "Unused" for an ercode of 0.             *)
print_section_opt(ercode, rcode) ==
    [k |-> "edns", ext |-> IF ercode > 0 THEN RcodeName(ercode * 16 + rcode) ELSE "Unused"]

(* kr_rrset_text: NULL when knot_rrset_txt_dump fails.                    *)
kr_rrset_text(r) == IF r.dumpFails THEN NULL ELSE r.rr

SectionRRs(pkt, sec) == SelectSeq(pkt.rrs, LAMBDA r : r.sec = sec)

(* Mutant: a section is printed whenever it has an RR, the OPT check gone. *)
SectionLines_nooptcheck(pkt, sec) ==
    LET rrs == SectionRRs(pkt, sec)
        shown == SelectSeq(rrs, LAMBDA r : r.rr # "OPT")
    IN IF Len(rrs) = 0 THEN <<>>
       ELSE <<[k |-> "title", sec |-> sec]>> \o
            [i \in 1..Len(shown) |-> [k |-> "rr", text |->
                IF kr_rrset_text(shown[i]) = NULL THEN "(null)" ELSE kr_rrset_text(shown[i])]]

(* The loop over one section: skipped when empty or led by an OPT, else   *)
(* its title and every RR but an OPT.  A NULL from kr_rrset_text is       *)
(* printed through "%s", which glibc renders as "(null)".                 *)
SectionLines(pkt, sec) ==
    LET rrs == SectionRRs(pkt, sec)
        shown == SelectSeq(rrs, LAMBDA r : r.rr # "OPT")
    IN IF Len(rrs) = 0 \/ rrs[1].rr = "OPT" THEN <<>>
       ELSE <<[k |-> "title", sec |-> sec]>> \o
            [i \in 1..Len(shown) |-> [k |-> "rr", text |->
                IF kr_rrset_text(shown[i]) = NULL THEN "(null)" ELSE kr_rrset_text(shown[i])]]

(* qdcount 1: the qname that knot_pkt_qname gives; for a question libknot *)
(* did not parse that is NULL, knot_dname_to_str writes nothing and the   *)
(* buffer of KR_DNAME_GET_STR is printed as it was.                        *)
QuestionLines(pkt) ==
    IF pkt.qd = 1 THEN <<[k |-> "question", qname |-> IF pkt.qparsed THEN pkt.question[1] ELSE Uninit]>>
    ELSE IF pkt.qd > 1 THEN <<[k |-> "qdwarn", qd |-> pkt.qd]>> ELSE <<>>

(* kr_pkt_text: NULL for no packet or when strdup fails; the header with  *)
(* the flags flags_to_str wrote to flags[32] and the wire counts, the     *)
(* EDNS line when the packet has an OPT, the question and the sections.   *)
kr_pkt_text(pkt, strdupFail) ==
    IF pkt = NULL \/ strdupFail THEN [ret |-> NULL]
    ELSE LET header == [k |-> "header", status |-> RcodeName(pkt.rcode),
                        flags |-> flags_to_str(pkt.flags, 32),
                        qd |-> pkt.qd, an |-> pkt.an, ns |-> pkt.ns, ar |-> pkt.ar]
             edns == IF \E i \in DOMAIN pkt.rrs : pkt.rrs[i].rr = "OPT"
                     THEN <<print_section_opt(pkt.ercode, pkt.rcode)>> ELSE <<>>
         IN [ret |-> "ok",
             text |-> <<header>> \o edns \o QuestionLines(pkt)
                      \o FoldLeft(LAMBDA acc, sec : acc \o SectionLines(pkt, sec), <<>>, SectionOrder)]

----------------------------------------------------------------------------
Init == res = NoResult

Call(op, result) == call.op = op /\ res = NoResult /\ res' = result /\ UNCHANGED call

Recycle      == Call("recycle", kr_pkt_recycle(call.pkt))
ClearPayload == Call("clearpayload", kr_pkt_clear_payload(call.pkt))
Put          == Call("put", kr_pkt_put(call.pkt, call.name, call.rr, call.allocFail, call.room))
AuthHeader   == Call("authheader", [ret |-> "ok", pkt |-> kr_pkt_make_auth_header(call.pkt)])
FlagsToStr   == Call("flagstext", [ret |-> "ok", dst |-> flags_to_str(call.flags, call.maxlen)])
PktText      == Call("pkttext", kr_pkt_text(call.pkt, call.strdupFail))

Next == Recycle \/ ClearPayload \/ Put \/ AuthHeader \/ FlagsToStr \/ PktText

----------------------------------------------------------------------------
(* Properties.                                                            *)

(* The wire's question count agrees with the questions on it.            *)
Consistent(pkt) ==
    /\ pkt.qd = Len(pkt.question)
    /\ \A sec \in Sections :
          pkt[SectionCount(sec)] = Len(SelectSeq(pkt.rrs, LAMBDA r : r.sec = sec))

TypeOK ==
    /\ call.op \in PktOps
    /\ res.ret \in {"none", "ok", "EMALF", "EINVAL", "ESPACE", "UB", NULL}

(* pkt_recycle either hands back a packet whose counts match what is on   *)
(* its wire, the header kept and no RR left, or reports EMALF.  It sets   *)
(* qdcount from keep_question but saves the question only if libknot      *)
(* parsed one, and relies on the re-parse to catch the difference.         *)
RecycleConsistent ==
    Done /\ call.op \in {"recycle", "clearpayload"} =>
        \/ res.ret = "EMALF"
        \/ /\ res.ret = "ok"
           /\ Consistent(res.pkt)
           /\ res.pkt.rrs = <<>>
           /\ res.pkt.hdr = call.pkt.hdr /\ res.pkt.aa = call.pkt.aa /\ res.pkt.ad = call.pkt.ad

(* kr_pkt_clear_payload on a parsed packet keeps its question, parsed,    *)
(* and empties the answer, authority and additional sections, so that     *)
(* the resolver can write a new answer to the same query.                  *)
ClearPayloadKeepsQuestion ==
    Done /\ call.op = "clearpayload" /\ call.pkt.qparsed =>
        /\ res.ret = "ok"
        /\ res.pkt.question = call.pkt.question
        /\ res.pkt.qparsed
        /\ res.pkt.an + res.pkt.ns + res.pkt.ar = 0

(* flags_to_str writes only inside its maxlen bytes, for every maxlen of  *)
(* at least 1; when the names of the set flags, each followed by a blank, *)
(* fit with a NUL, it writes them in table order, and otherwise an empty  *)
(* string.  kr_pkt_text passes 32 bytes, which the seven flags fit.        *)
FlagsTextFits ==
    Done /\ call.op = "flagstext" /\ call.maxlen >= 1 =>
        LET full == FoldLeft(LAMBDA acc, i : IF i \in call.flags
                                              THEN acc \o FlagNames[i] \o <<" ">> ELSE acc,
                             <<>>, [k \in 1..Len(FlagNames) |-> k])
            text == [k \in 0..Len(full) - 1 |-> full[k + 1]] @@ (Len(full) :> "NUL")
        IN /\ DOMAIN res.dst \subseteq 0..call.maxlen - 1
           /\ IF Len(full) < call.maxlen
              THEN \A k \in DOMAIN text : k \in DOMAIN res.dst /\ res.dst[k] = text[k]
              ELSE res.dst[0] = "NUL"

(* kr_pkt_text prints each section at most once, and under its title the  *)
(* section's RRs but the OPT, one line each in packet order, each its     *)
(* text or "(null)" when knot_rrset_txt_dump failed; a title never stands *)
(* alone.  A section without a title has no RR to show, or is the         *)
(* additional section led by its OPT: then its other RRs are not shown.   *)
TextListsSections ==
    Done /\ call.op = "pkttext" /\ res.ret = "ok" =>
        \A sec \in Sections :
            LET rrs == SectionRRs(call.pkt, sec)
                shown == SelectSeq(rrs, LAMBDA r : r.rr # "OPT")
                titles == {t \in DOMAIN res.text : res.text[t] = [k |-> "title", sec |-> sec]}
            IN /\ Cardinality(titles) <= 1
               /\ titles = {} => shown = <<>> \/ (sec = "AR" /\ rrs[1].rr = "OPT")
               /\ \A t \in titles :
                     /\ shown # <<>>
                     /\ t + Len(shown) <= Len(res.text)
                     /\ \A i \in 1..Len(shown) :
                           res.text[t + i] = [k |-> "rr", text |->
                               IF shown[i].dumpFails THEN "(null)" ELSE shown[i].rr]
                     /\ t + Len(shown) < Len(res.text) => res.text[t + Len(shown) + 1].k # "rr"

============================================================================
