------------------------------- MODULE MemUtils -------------------------------
(***************************************************************************)
(* The memory helpers of src/lib/utils.c: mm_realloc, kr_memreserve and    *)
(* kr_strcatdup.  As in AddrUtils, each state is one call: its arguments   *)
(* (call) and what it returned and did to the heap (res).                  *)
(*                                                                         *)
(* A block is [id, data]: the caller's block is "old", a block allocated   *)
(* by the call is "new"; a byte the call did not write is Undef.  Whether *)
(* an allocator (mm->alloc, malloc, realloc) fails is an input (fail).    *)
(***************************************************************************)
EXTENDS Integers, Sequences, SequencesExt, TLC

CONSTANT NULL   \* a null pointer

VARIABLES call, res

vars == <<call, res>>

NoResult == [ret |-> "none"]
Undef == "undef"
NUL == "NUL"

Done == res # NoResult

MinOf(a, b) == IF a <= b THEN a ELSE b

(* A block of n bytes whose first k bytes are those of data.               *)
NewBlock(data, k, n) ==
    [id |-> "new", data |-> [i \in 1..n |-> IF i <= k THEN data[i] ELSE Undef]]

----------------------------------------------------------------------------
(* Mutant: the old block is released before the allocation is checked.    *)
mm_realloc_freefirst(pool, what, size, prev_size, fail) ==
    IF pool
    THEN IF fail
         THEN [ret |-> NULL, freed |-> IF what # NULL THEN {what.id} ELSE {}]
         ELSE [ret |-> NewBlock(IF what # NULL THEN what.data ELSE <<>>,
                                IF what # NULL THEN MinOf(prev_size, size) ELSE 0, size),
               freed |-> IF what # NULL THEN {what.id} ELSE {}]
    ELSE IF fail
         THEN [ret |-> NULL, freed |-> {}]
         ELSE [ret |-> NewBlock(IF what # NULL THEN what.data ELSE <<>>,
                                IF what # NULL THEN MinOf(Len(what.data), size) ELSE 0, size),
               freed |-> IF what # NULL THEN {what.id} ELSE {}]

(* mm_realloc: with a pool, allocate size bytes (NULL on failure, the old  *)
(* block untouched), copy min(prev_size, size) bytes of the old block and *)
(* release it; without one, realloc, which keeps min(old size, size)      *)
(* bytes and releases the old block, or fails and keeps it.  realloc may  *)
(* extend in place; the block it returns is taken as new either way.      *)
mm_realloc(pool, what, size, prev_size, fail) ==
    IF pool
    THEN IF fail
         THEN [ret |-> NULL, freed |-> {}]
         ELSE [ret |-> NewBlock(IF what # NULL THEN what.data ELSE <<>>,
                                IF what # NULL THEN MinOf(prev_size, size) ELSE 0, size),
               freed |-> IF what # NULL THEN {what.id} ELSE {}]
    ELSE IF fail
         THEN [ret |-> NULL, freed |-> {}]
         ELSE [ret |-> NewBlock(IF what # NULL THEN what.data ELSE <<>>,
                                IF what # NULL THEN MinOf(Len(what.data), size) ELSE 0, size),
               freed |-> IF what # NULL THEN {what.id} ELSE {}]

----------------------------------------------------------------------------
(* Mutant: the capacity is updated before the allocation is checked.      *)
kr_memreserve_earlyhave(mem, elm_size, want, have, next_size, fail) ==
    IF have >= want THEN [ret |-> 0, mem |-> mem, have |-> have, freed |-> {}]
    ELSE IF fail THEN [ret |-> -1, mem |-> mem, have |-> next_size, freed |-> {}]
    ELSE [ret |-> 0, mem |-> NewBlock(mem.data, have * elm_size, next_size * elm_size),
          have |-> next_size, freed |-> {mem.id}]

(* kr_memreserve(baton, &mem, elm_size, want, &have): nothing when have   *)
(* >= want; else allocate array_next_count(want) elements (next_size, at  *)
(* least want, chosen by the caller of the model), copy the have elements, *)
(* release the old block and update *mem and *have; -1 when the           *)
(* allocation fails, with *mem and *have as they were.                    *)
kr_memreserve(mem, elm_size, want, have, next_size, fail) ==
    IF have >= want THEN [ret |-> 0, mem |-> mem, have |-> have, freed |-> {}]
    ELSE IF fail THEN [ret |-> -1, mem |-> mem, have |-> have, freed |-> {}]
    ELSE [ret |-> 0, mem |-> NewBlock(mem.data, have * elm_size, next_size * elm_size),
          have |-> next_size, freed |-> {mem.id}]

----------------------------------------------------------------------------
(* kr_strcatdup(n, items...): a NULL item counts as empty.                *)
StrLen(item) == IF item = NULL THEN 0 ELSE Len(item)

(* Mutant: the stream also steps over each item's NUL.                     *)
RECURSIVE CatFill_skipnul(_, _, _, _)
CatFill_skipnul(items, k, stream, buf) ==
    IF k > Len(items) THEN buf
    ELSE IF items[k] = NULL THEN CatFill_skipnul(items, k + 1, stream, buf)
    ELSE LET s == items[k] \o <<NUL>>
         IN CatFill_skipnul(items, k + 1, stream + Len(s),
                    [i \in stream..stream + Len(s) - 1 |-> s[i - stream + 1]] @@ buf)

(* The bytes written by memcpy(stream, item, len + 1) for the items from  *)
(* k on, stream being the offset reached; later writes win.               *)
RECURSIVE CatFill(_, _, _, _)
CatFill(items, k, stream, buf) ==
    IF k > Len(items) THEN buf
    ELSE IF items[k] = NULL THEN CatFill(items, k + 1, stream, buf)
    ELSE LET s == items[k] \o <<NUL>>
         IN CatFill(items, k + 1, stream + Len(items[k]),
                    [i \in stream..stream + Len(s) - 1 |-> s[i - stream + 1]] @@ buf)

(* NULL for no items, for a total length of 0 (no allocation) and when    *)
(* malloc(total_len + 1) fails; else the block the items were copied to.  *)
(* total_len cannot wrap for the lengths checked, so the two overflow     *)
(* checks never fire.                                                      *)
kr_strcatdup(items, fail) ==
    LET total_len == FoldLeft(LAMBDA acc, it : acc + StrLen(it), 0, items)
    IN IF Len(items) < 1 \/ total_len = 0 \/ fail
       THEN [ret |-> NULL, size |-> 0, buf |-> <<>>]
       ELSE [ret |-> "new", size |-> total_len + 1, buf |-> CatFill(items, 1, 0, <<>>)]

----------------------------------------------------------------------------
Init == res = NoResult

Call(op, result) == call.op = op /\ res = NoResult /\ res' = result /\ UNCHANGED call

Realloc   == Call("realloc", mm_realloc(call.pool, call.what, call.size, call.prev_size, call.fail))
MemReserve == Call("memreserve", kr_memreserve(call.mem, call.elm_size, call.want, call.have,
                                               call.next_size, call.fail))
StrCatDup == Call("strcatdup", kr_strcatdup(call.items, call.fail))

Next == Realloc \/ MemReserve \/ StrCatDup

----------------------------------------------------------------------------
(* Properties.                                                            *)

MemOps == {"realloc", "memreserve", "strcatdup"}

TypeOK ==
    /\ call.op \in MemOps
    /\ Done /\ call.op = "strcatdup" => res.ret \in {NULL, "new"}
    /\ Done /\ call.op = "memreserve" => res.ret \in {0, -1} /\ res.have \in Nat

(* mm_realloc either returns a block that starts with the bytes the       *)
(* caller asked to keep, or NULL with the caller's block still allocated, *)
(* so that the caller can go on using it; the pool path must check the    *)
(* allocation before it releases the old block.                            *)
ReallocKeepsData ==
    Done /\ call.op = "realloc" =>
        IF res.ret = NULL
        THEN res.freed = {}
        ELSE LET keep == IF call.what = NULL THEN 0
                         ELSE MinOf(call.prev_size, call.size)
             IN /\ Len(res.ret.data) = call.size
                /\ keep > 0 => SubSeq(res.ret.data, 1, keep) = SubSeq(call.what.data, 1, keep)

(* kr_memreserve is all or nothing: on success the array holds at least   *)
(* want elements and its have old elements; on failure *mem and *have are *)
(* unchanged, so that *have never counts more elements than *mem holds.   *)
ReserveAtomic ==
    Done /\ call.op = "memreserve" =>
        /\ Len(res.mem.data) = res.have * call.elm_size
        /\ IF res.ret = 0
           THEN /\ res.have >= call.want
                /\ SubSeq(res.mem.data, 1, call.have * call.elm_size) = call.mem.data
           ELSE res.mem = call.mem /\ res.have = call.have

(* kr_strcatdup writes only inside the total_len + 1 bytes it allocated,  *)
(* and they hold the concatenation of the non-NULL items and a NUL.       *)
StrcatdupConcat ==
    Done /\ call.op = "strcatdup" /\ res.ret # NULL =>
        LET parts == SelectSeq(call.items, LAMBDA it : it # NULL)
            cat == FoldLeft(LAMBDA acc, it : acc \o it, <<>>, parts)
        IN /\ DOMAIN res.buf = 0..res.size - 1
           /\ [i \in 0..Len(cat) - 1 |-> res.buf[i]] = [i \in 0..Len(cat) - 1 |-> cat[i + 1]]
           /\ res.buf[Len(cat)] = NUL

============================================================================
