------------------------------ MODULE Context ------------------------------
(***************************************************************************)
(* The resolution context and the result of a request (src/lib/context.c): *)
(* kr_context_init opens the cache, kr_context_reset clears the plan for a *)
(* new request, kr_result_init allocates the answer packet and begins the *)
(* cache transaction, kr_result_deinit frees the packet and commits the    *)
(* transaction, kr_context_deinit closes the cache.                         *)
(*                                                                         *)
(* The caller is the resolver driver (spec 4.9, not under src/), modelled  *)
(* from the spec: per request it resets the context, pushes the root query *)
(* (which may fail for lack of memory), calls kr_result_init, and when     *)
(* that succeeds resolves the plan (pushing and popping sub-queries) and   *)
(* calls kr_result_deinit; between requests it may shut the context down. *)
(* The answer packet of the current request is one allocation whose life   *)
(* is tracked; a pointer to it is "pkt", a null pointer "NULL".            *)
(***************************************************************************)
EXTENDS Naturals

CONSTANT MaxQueries   \* bound on the depth of the resolution plan

ASSUME MaxQueries \in Nat \ {0}

VARIABLES
    ctx,      \* "uninit", "live" or "deinit": the kr_context
    cache,    \* ctx->cache: "none", "open", "NULL" (open failed), "closed"
    rplan,    \* number of queries in ctx->rplan
    pkt,      \* the answer packet: "none", "live" or "freed"
    res_ans,  \* result->ans: "NULL" or "pkt"
    res_txn,  \* result->txn: "NULL" or "txn"
    txn,      \* the cache transaction: "none", "open", "committed" or
              \* "aborted"
    phase,    \* the driver: "idle", "planned", "resolving", "failed"
    outcome   \* how the last request ended: "none", "done", "cancelled",
              \* "failed"

vars == <<ctx, cache, rplan, pkt, res_ans, res_txn, txn, phase, outcome>>

----------------------------------------------------------------------------
(* kr_context_init: zero the context, init the plan and the delegation    *)
(* map, open the cache (kr_cache_open may return NULL).                    *)
kr_context_init ==
    /\ ctx = "uninit"
    /\ ctx' = "live"
    /\ rplan' = 0
    /\ cache' \in {"open", "NULL"}
    /\ UNCHANGED <<pkt, res_ans, res_txn, txn, phase, outcome>>

(* kr_context_reset: clear the per-request fields and the plan; this is    *)
(* the number of queries the plan holds afterwards.                        *)
kr_context_reset == 0

(* kr_context_deinit: free the delegation map and close the cache.        *)
kr_context_deinit ==
    /\ ctx = "live"
    /\ phase = "idle"
    /\ ctx' = "deinit"
    /\ cache' = IF cache = "open" THEN "closed" ELSE cache
    /\ UNCHANGED <<rplan, pkt, res_ans, res_txn, txn, phase, outcome>>

(* Mutant: the path with no query returns without freeing the packet.    *)
kr_result_init_noqueryleak ==
    /\ phase = "planned"
    /\ \/ /\ rplan = 0
          /\ pkt' = "live"
          /\ res_ans' = "NULL" /\ res_txn' = "NULL" /\ txn' = txn
          /\ phase' = "failed"
       \/ /\ rplan > 0 /\ cache = "open"
          /\ pkt' = "live"
          /\ res_ans' = "pkt" /\ res_txn' = "txn" /\ txn' = "open"
          /\ phase' = "resolving"
    /\ UNCHANGED <<ctx, cache, rplan, outcome>>

(* kr_result_init: zero the result, allocate the answer packet            *)
(* (knot_pkt_new may fail), take the top query of the plan (none when the *)
(* plan is empty: the packet is freed), store the packet in the result,   *)
(* begin the cache transaction (NULL when the cache is not open, or when  *)
(* the backend fails: the local packet is freed).  The driver goes on     *)
(* resolving only when it returns 0.                                      *)
kr_result_init ==
    /\ phase = "planned"
    /\ \/ /\ pkt' = "none"                                \* knot_pkt_new fails
          /\ res_ans' = "NULL" /\ res_txn' = "NULL" /\ txn' = txn
          /\ phase' = "failed"
       \/ /\ rplan = 0                                    \* no query
          /\ pkt' = "freed"
          /\ res_ans' = "NULL" /\ res_txn' = "NULL" /\ txn' = txn
          /\ phase' = "failed"
       \/ /\ rplan > 0                                    \* txn_begin fails
          /\ pkt' = "freed"
          /\ res_ans' = "pkt" /\ res_txn' = "NULL" /\ txn' = txn
          /\ phase' = "failed"
       \/ /\ rplan > 0 /\ cache = "open"                  \* success
          /\ pkt' = "live"
          /\ res_ans' = "pkt" /\ res_txn' = "txn" /\ txn' = "open"
          /\ phase' = "resolving"
    /\ UNCHANGED <<ctx, cache, rplan, outcome>>

(* knot_pkt_free of a packet: freeing one already freed corrupts the heap. *)
PktFree(p) == IF p = "live" THEN "freed" ELSE "corrupt"

kr_result_deinit ==
    /\ pkt' = IF res_ans = "pkt" THEN PktFree(pkt) ELSE pkt
    /\ res_ans' = "NULL"
    /\ txn' = IF res_txn = "txn" THEN "committed" ELSE txn
    /\ UNCHANGED res_txn

----------------------------------------------------------------------------
(* The driver (spec 4.5, 4.9).                                            *)

(* A new request: reset the context, push the root query (kr_rplan_push  *)
(* may fail for lack of memory).                                           *)
BeginRequest ==
    /\ ctx = "live"
    /\ phase = "idle"
    /\ \E pushed \in BOOLEAN :
          rplan' = kr_context_reset + (IF pushed THEN 1 ELSE 0)
    /\ phase' = "planned"
    /\ outcome' = "none"
    /\ UNCHANGED <<ctx, cache, pkt, res_ans, res_txn, txn>>

(* Mutant: the plan depth is checked after the push.                      *)
ResolveStep_overdeep ==
    /\ phase = "resolving"
    /\ \/ rplan' = rplan + 1 /\ rplan <= MaxQueries
       \/ rplan' = rplan - 1 /\ rplan > 0
    /\ UNCHANGED <<ctx, cache, pkt, res_ans, res_txn, txn, phase, outcome>>

(* One iteration of the resolution loop pushes a sub-query (DS, DNSKEY,   *)
(* CNAME target) or resolves and pops the top query.                      *)
ResolveStep ==
    /\ phase = "resolving"
    /\ \/ rplan' = rplan + 1 /\ rplan < MaxQueries
       \/ rplan' = rplan - 1 /\ rplan > 0
    /\ UNCHANGED <<ctx, cache, pkt, res_ans, res_txn, txn, phase, outcome>>

(* The plan is empty: the answer is assembled and the result released.    *)
FinishRequest ==
    /\ phase = "resolving"
    /\ rplan = 0
    /\ kr_result_deinit
    /\ phase' = "idle"
    /\ outcome' = "done"
    /\ UNCHANGED <<ctx, cache, rplan>>

(* kr_result_init failed: the request ends in an error (spec 4.9, hard    *)
(* error).  The driver may return at once, or release the result with     *)
(* kr_result_deinit on its error path; the spec does not say which.       *)
AbortRequest ==
    /\ phase = "failed"
    /\ \/ UNCHANGED <<pkt, res_ans, res_txn, txn>>
       \/ kr_result_deinit
    /\ phase' = "idle"
    /\ outcome' = "failed"
    /\ UNCHANGED <<ctx, cache, rplan>>

(* The deadline of the request expires (spec 5, cancellation): the driver *)
(* unwinds the plan, aborts the cache transaction (kr_cache_txn_abort,    *)
(* not under src/) and frees the answer once its SERVFAIL is sent.        *)
Cancel ==
    /\ phase = "resolving"
    /\ rplan' = 0
    /\ txn' = IF res_txn = "txn" THEN "aborted" ELSE txn
    /\ pkt' = IF res_ans = "pkt" THEN PktFree(pkt) ELSE pkt
    /\ res_ans' = "NULL"
    /\ UNCHANGED res_txn
    /\ phase' = "idle"
    /\ outcome' = "cancelled"
    /\ UNCHANGED <<ctx, cache>>

----------------------------------------------------------------------------
Init ==
    /\ ctx = "uninit"
    /\ cache = "none"
    /\ rplan = 0
    /\ pkt = "none"
    /\ res_ans = "NULL"
    /\ res_txn = "NULL"
    /\ txn = "none"
    /\ phase = "idle"
    /\ outcome = "none"

Next ==
    \/ kr_context_init
    \/ BeginRequest
    \/ kr_result_init
    \/ ResolveStep
    \/ FinishRequest
    \/ Cancel
    \/ AbortRequest
    \/ kr_context_deinit

Spec == Init /\ [][Next]_vars

----------------------------------------------------------------------------
(* Properties.                                                            *)

TypeOK ==
    /\ ctx \in {"uninit", "live", "deinit"}
    /\ cache \in {"none", "open", "NULL", "closed"}
    /\ rplan \in 0..MaxQueries
    /\ pkt \in {"none", "live", "freed", "corrupt"}
    /\ res_ans \in {"NULL", "pkt"}
    /\ res_txn \in {"NULL", "txn"}
    /\ txn \in {"none", "open", "committed", "aborted"}
    /\ phase \in {"idle", "planned", "resolving", "failed"}
    /\ outcome \in {"none", "done", "cancelled", "failed"}

(* Between requests no answer packet is left allocated: every path of     *)
(* kr_result_init that fails frees the packet it allocated, and           *)
(* kr_result_deinit frees the packet of a request that ran.               *)
AnswerNotLeaked == phase = "idle" => pkt # "live"

(* Whatever kr_result_init returned, the answer pointer left in the       *)
(* result refers to a live packet (or is NULL): a later                   *)
(* kr_result_deinit or a read of result->ans is safe.                     *)
NoDanglingAnswer == res_ans = "pkt" => pkt = "live"

============================================================================
