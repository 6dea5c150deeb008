---------------------------- MODULE RandomStream ----------------------------
(***************************************************************************)
(* What kr_rnd_buffered promises its callers: the bytes of one random      *)
(* stream, each handed out once and in stream order.  A call either takes *)
(* the next size bytes of the stream, or is served from a source of its    *)
(* own (gnutls_rnd called directly), which hands out no stream byte.       *)
(* Stream bytes are named by their position, 0 first.                     *)
(***************************************************************************)
EXTENDS Naturals, Sequences

CONSTANT Sizes   \* the request sizes a caller may pass

VARIABLES
    pos,   \* the position of the first stream byte not yet handed out
    out    \* the stream positions the last call returned (<<>> if none)

vars == <<pos, out>>

Init == pos = 0 /\ out = <<>>

(* The next size bytes of the stream.                                     *)
Take(size) ==
    /\ out' = [k \in 1..size |-> pos + k - 1]
    /\ pos' = pos + size

(* A call served from its own source.                                      *)
Direct ==
    /\ out' = <<>>
    /\ UNCHANGED pos

Next == \E size \in Sizes : Take(size) \/ Direct

Spec == Init /\ [][Next]_vars

============================================================================
