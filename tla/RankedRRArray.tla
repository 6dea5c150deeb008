--------------------------- MODULE RankedRRArray ---------------------------
(***************************************************************************)
(* The ranked RR accumulator of one request (src/lib/utils.c, 619-748):   *)
(* an array of entries, each an RRset stashed by one query (qry_uid) with *)
(* a rank and the flags to_wire, cached and yielded.  The code adds        *)
(* entries (kr_ranked_rrarray_add, which merges into an entry of the same  *)
(* query or appends one) and bulk-toggles to_wire (kr_ranked_rrarray_set_  *)
(* wire); both rely on to_wire_ensure_unique to keep one RRset identity    *)
(* from going to the wire twice.  The other layers of the resolver change  *)
(* an entry's rank (validator), mark it cached (cache layer) or yielded    *)
(* (resolver); those steps are the environment of this module.            *)
(*                                                                         *)
(* The rdata of an RRset is abstracted away: merging rdata never changes   *)
(* which entries match or go to the wire.                                  *)
(***************************************************************************)
EXTENDS Naturals, Sequences, FiniteSets

CONSTANTS
    Queries,        \* qry_uid values of the queries of one request
    RRs,            \* RRset identities: records [owner, type, covered]
    Ranks,          \* ranks the layers assign (TRY, SECURE, ...)
    NoCheck,        \* the NULL extraCheck callback of set_wire
    CheckDupsValues,\* the values callers pass as check_dups
    ExtraChecks,    \* extraCheck callbacks: NoCheck or a set of accepted ranks
    MaxEntries      \* bound on the array length (allocation fails beyond)

ASSUME MaxEntries \in Nat \ {0}
ASSUME CheckDupsValues \subseteq BOOLEAN /\ CheckDupsValues # {}

VARIABLES
    arr,    \* the ranked_rr_array_t: a sequence of entries
    ret     \* the return code of the last array operation

vars == <<arr, ret>>

Entry == [qry_uid: Queries, rr: RRs, rank: Ranks,
          to_wire: BOOLEAN, cached: BOOLEAN, yielded: BOOLEAN]

ASSUME ExtraChecks \subseteq {NoCheck} \cup SUBSET Ranks

(* An extraCheck callback accepts the entries whose rank is in a set.     *)
Passes(extraCheck, e) == extraCheck = NoCheck \/ e.rank \in extraCheck

----------------------------------------------------------------------------
(* Mutant: rrsets_match forgetting the covered type of RRSIG sets.       *)
rrsets_match_nocovered(rr1, rr2) ==
    rr1.type = rr2.type /\ rr1.owner = rr2.owner

(* rrsets_match: same type, class and owner; for RRSIG also the same      *)
(* covered type (read from the first rdata of each set).                   *)
rrsets_match(rr1, rr2) ==
    /\ rr1.type = rr2.type
    /\ rr2.type = "RRSIG" => rr1.covered = rr2.covered
    /\ rr1.owner = rr2.owner

(* Mutant: the backward loop of to_wire_ensure_unique stopping at i > 0,  *)
(* so the first entry is never compared.                                   *)
to_wire_ensure_unique_skip_first(a, idx) ==
    IF ~a[idx].to_wire THEN a
    ELSE [i \in DOMAIN a |->
            IF /\ i > 1
               /\ a[i].qry_uid # a[idx].qry_uid
               /\ a[i].to_wire
               /\ rrsets_match(a[i].rr, a[idx].rr)
            THEN [a[i] EXCEPT !.to_wire = FALSE]
            ELSE a[i]]

(* to_wire_ensure_unique: if entry idx goes to the wire, every entry of   *)
(* another query that forms the same RRset stops going to the wire.       *)
to_wire_ensure_unique(a, idx) ==
    IF ~a[idx].to_wire THEN a
    ELSE [i \in DOMAIN a |->
            IF /\ a[i].qry_uid # a[idx].qry_uid
               /\ a[i].to_wire
               /\ rrsets_match(a[i].rr, a[idx].rr)
            THEN [a[i] EXCEPT !.to_wire = FALSE]
            ELSE a[i]]

(* The backward scan of kr_ranked_rrarray_add: it stops at the first      *)
(* yielded entry or entry of another query and returns the index of a     *)
(* matching entry of qry_uid, or 0 when none is found.                     *)
(* Mutant: the merge scan giving up at the first non-matching entry      *)
(* (break instead of continue).                                             *)
ScanFrom_break(a, i, rr, qry_uid) ==
    IF i = 0 THEN 0
    ELSE IF a[i].yielded \/ a[i].qry_uid # qry_uid THEN 0
    ELSE IF rrsets_match(a[i].rr, rr) THEN i
    ELSE 0

RECURSIVE ScanFrom(_, _, _, _)
ScanFrom(a, i, rr, qry_uid) ==
    IF i = 0 THEN 0
    ELSE IF a[i].yielded \/ a[i].qry_uid # qry_uid THEN 0
    ELSE IF rrsets_match(a[i].rr, rr) THEN i
    ELSE ScanFrom(a, i - 1, rr, qry_uid)

merge_index(a, rr, qry_uid) == ScanFrom(a, Len(a), rr, qry_uid)

(* The consistency check before merging: same rank, not yet cached.       *)
merge_ok(stashed, rank) == stashed.rank = rank /\ ~stashed.cached

new_entry(rr, rank, to_wire, qry_uid) ==
    [qry_uid |-> qry_uid, rr |-> rr, rank |-> rank,
     to_wire |-> to_wire, cached |-> FALSE, yielded |-> FALSE]

----------------------------------------------------------------------------
(* Mutant: the append path admitting one entry more than the array holds. *)
kr_ranked_rrarray_add_overfull(rr, rank, to_wire, qry_uid) ==
    LET i == merge_index(arr, rr, qry_uid) IN
    IF i # 0
    THEN IF merge_ok(arr[i], rank)
         THEN /\ arr' = [arr EXCEPT ![i].to_wire = @ \/ to_wire]
              /\ ret' \in {"ok", "ENOMEM"}
         ELSE /\ arr' = arr
              /\ ret' = "EEXIST"
    ELSE \/ /\ Len(arr) <= MaxEntries
            /\ arr' = to_wire_ensure_unique(
                        Append(arr, new_entry(rr, rank, to_wire, qry_uid)),
                        Len(arr) + 1)
            /\ ret' = "ok"
         \/ /\ arr' = arr
            /\ ret' = "ENOMEM"

(* kr_ranked_rrarray_add.  Merge path: the stashed entry's to_wire is     *)
(* or-ed with the new one and the rdata merged (the merge itself may fail *)
(* with ENOMEM after to_wire was already updated); a failed consistency   *)
(* check returns EEXIST.  Append path: allocation may fail (ENOMEM);      *)
(* otherwise the copy is pushed and to_wire_ensure_unique is applied to   *)
(* it.                                                                     *)
kr_ranked_rrarray_add(rr, rank, to_wire, qry_uid) ==
    LET i == merge_index(arr, rr, qry_uid) IN
    IF i # 0
    THEN IF merge_ok(arr[i], rank)
         THEN /\ arr' = [arr EXCEPT ![i].to_wire = @ \/ to_wire]
              /\ ret' \in {"ok", "ENOMEM"}
         ELSE /\ arr' = arr
              /\ ret' = "EEXIST"
    ELSE \/ /\ Len(arr) < MaxEntries
            /\ arr' = to_wire_ensure_unique(
                        Append(arr, new_entry(rr, rank, to_wire, qry_uid)),
                        Len(arr) + 1)
            /\ ret' = "ok"
         \/ /\ arr' = arr
            /\ ret' = "ENOMEM"

(* The loop of kr_ranked_rrarray_set_wire, from index i on.               *)
RECURSIVE SetWireFrom(_, _, _, _, _, _)
SetWireFrom(a, i, to_wire, qry_uid, check_dups, extraCheck) ==
    IF i > Len(a) THEN a
    ELSE IF a[i].qry_uid # qry_uid \/ ~Passes(extraCheck, a[i])
    THEN SetWireFrom(a, i + 1, to_wire, qry_uid, check_dups, extraCheck)
    ELSE LET a1 == [a EXCEPT ![i].to_wire = to_wire]
             a2 == IF check_dups THEN to_wire_ensure_unique(a1, i) ELSE a1
         IN  SetWireFrom(a2, i + 1, to_wire, qry_uid, check_dups, extraCheck)

kr_ranked_rrarray_set_wire(to_wire, qry_uid, check_dups, extraCheck) ==
    /\ arr' = SetWireFrom(arr, 1, to_wire, qry_uid, check_dups, extraCheck)
    /\ ret' = "ok"

----------------------------------------------------------------------------
(* Environment: the other layers of the resolver.                         *)

(* The validator re-ranks a stashed RRset.                                 *)
ValidatorRank(i, rank) ==
    /\ arr[i].rank # rank
    /\ arr' = [arr EXCEPT ![i].rank = rank]
    /\ UNCHANGED ret

(* The cache layer stores an entry and marks it cached.                   *)
CacheStash(i) ==
    /\ ~arr[i].cached
    /\ arr' = [arr EXCEPT ![i].cached = TRUE]
    /\ UNCHANGED ret

(* The resolver marks the entries of a query yielded.                     *)
YieldQuery(q) ==
    /\ \E i \in DOMAIN arr : arr[i].qry_uid = q /\ ~arr[i].yielded
    /\ arr' = [i \in DOMAIN arr |->
                 IF arr[i].qry_uid = q THEN [arr[i] EXCEPT !.yielded = TRUE]
                 ELSE arr[i]]
    /\ UNCHANGED ret

----------------------------------------------------------------------------
Init ==
    /\ arr = <<>>
    /\ ret = "ok"

Next ==
    \/ \E rr \in RRs, rank \in Ranks, w \in BOOLEAN, q \in Queries :
          kr_ranked_rrarray_add(rr, rank, w, q)
    \/ \E w \in BOOLEAN, q \in Queries, d \in CheckDupsValues,
          c \in ExtraChecks :
          kr_ranked_rrarray_set_wire(w, q, d, c)
    \/ \E i \in DOMAIN arr, rank \in Ranks : ValidatorRank(i, rank)
    \/ \E i \in DOMAIN arr : CacheStash(i)
    \/ \E q \in Queries : YieldQuery(q)

Spec == Init /\ [][Next]_vars

----------------------------------------------------------------------------
(* The identity an RRset has on the wire (spec, section 3): owner, type   *)
(* and, for RRSIG, the covered type.  Stated independently of the code's  *)
(* rrsets_match so that the properties judge it rather than reuse it.     *)
RRsetKey(rr) ==
    IF rr.type = "RRSIG" THEN <<rr.owner, rr.type, rr.covered>>
    ELSE <<rr.owner, rr.type, "-">>

SameRRset(e1, e2) == RRsetKey(e1.rr) = RRsetKey(e2.rr)

(* Pairs of entries of different queries that both go to the wire as the *)
(* same RRset.                                                             *)
CrossWireDups(a) ==
    {p \in (DOMAIN a) \X (DOMAIN a) :
        /\ p[1] < p[2]
        /\ a[p[1]].to_wire /\ a[p[2]].to_wire
        /\ a[p[1]].qry_uid # a[p[2]].qry_uid
        /\ SameRRset(a[p[1]], a[p[2]])}

(* The entries the next add of qry_uid may merge into: the trailing run   *)
(* of non-yielded entries of the query of the last entry.                  *)
TrailingRun(a) ==
    {i \in DOMAIN a :
        \A j \in i..Len(a) : ~a[j].yielded /\ a[j].qry_uid = a[Len(a)].qry_uid}

TypeOK ==
    /\ arr \in Seq(Entry)
    /\ Len(arr) <= MaxEntries
    /\ ret \in {"ok", "EEXIST", "ENOMEM"}

(* The backward merge scan of kr_ranked_rrarray_add keeps the trailing    *)
(* run of a query free of two entries for one RRset, whatever the         *)
(* interleaving of adds, yields and re-ranking.                            *)
TrailingRunDistinct ==
    \A i, j \in TrailingRun(arr) : i # j => ~SameRRset(arr[i], arr[j])

(* The two steps that set to_wire without calling to_wire_ensure_unique:  *)
(* a merge in kr_ranked_rrarray_add that turns to_wire on, and            *)
(* kr_ranked_rrarray_set_wire with check_dups false.                       *)
MergeTurnsWireOn ==
    \E rr \in RRs, rank \in Ranks, q \in Queries :
        /\ merge_index(arr, rr, q) # 0
        /\ kr_ranked_rrarray_add(rr, rank, TRUE, q)

UncheckedSetWire ==
    \E q \in Queries, c \in ExtraChecks :
        kr_ranked_rrarray_set_wire(TRUE, q, FALSE, c)

(* Every other step (an append, a checked set_wire, the other layers)     *)
(* never makes two queries' entries go to the wire as the same RRset.     *)
CheckedStepsKeepCrossUnique ==
    [][\/ CrossWireDups(arr') \subseteq CrossWireDups(arr)
       \/ MergeTurnsWireOn
       \/ UncheckedSetWire]_vars

(* to_wire_ensure_unique only takes an entry off the wire when an entry   *)
(* of another query with the same RRset identity stays on it; otherwise   *)
(* only set_wire(false) of the entry's own query clears the flag.          *)
WireClearedOnlyByDuplicate ==
    [][\A i \in DOMAIN arr :
         (arr[i].to_wire /\ ~arr'[i].to_wire) =>
           \/ \E j \in DOMAIN arr' :
                 /\ arr'[j].to_wire
                 /\ arr'[j].qry_uid # arr[i].qry_uid
                 /\ SameRRset(arr'[j], arr[i])
           \/ \E d \in CheckDupsValues, c \in ExtraChecks :
                 kr_ranked_rrarray_set_wire(FALSE, arr[i].qry_uid, d, c)]_vars

(* Spec, section 8: no two entries with to_wire set form the same RRset.  *)
ToWireUnique ==
    \A i, j \in DOMAIN arr :
        (i # j /\ arr[i].to_wire /\ arr[j].to_wire) => ~SameRRset(arr[i], arr[j])

(* Spec, section 4.8: add merges into an existing entry of the same query *)
(* and RRset, so a query never holds two entries for one RRset.           *)
SameQueryMerged ==
    \A i, j \in DOMAIN arr :
        (i # j /\ arr[i].qry_uid = arr[j].qry_uid) => ~SameRRset(arr[i], arr[j])

============================================================================
