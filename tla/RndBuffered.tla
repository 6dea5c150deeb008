----------------------------- MODULE RndBuffered -----------------------------
(***************************************************************************)
(* kr_rnd_buffered (src/lib/utils.c): random bytes are served from a       *)
(* static circular buffer of one ChaCha block, refilled by gnutls_rnd when *)
(* it runs out; requests larger than the buffer go to gnutls_rnd directly. *)
(*                                                                         *)
(* A random byte is named by the refill that produced it and its index in *)
(* the buffer: <<g, i>>.  Generation 0 is the static buffer's initial      *)
(* (zero) contents, which gnutls_rnd never wrote.  BufSize stands for      *)
(* sizeof(buf) (64 in the code); the index arithmetic does not depend on   *)
(* it.                                                                     *)
(***************************************************************************)
EXTENDS Integers, Sequences, FiniteSets

CONSTANTS
    BufSize,   \* sizeof(buf)
    Sizes,     \* the request sizes a caller may pass
    MaxGen     \* bound on the number of refills

ASSUME BufSize \in Nat \ {0} /\ Sizes \subseteq Nat /\ MaxGen \in Nat

VARIABLES
    buf_begin,  \* static uint buf_begin
    gen,        \* the refill the buffer's contents come from
    out,        \* the bytes returned by the last call: a sequence of names,
                \* or <<>> for a call served by gnutls_rnd directly
    handed      \* every buffered byte returned so far

vars == <<buf_begin, gen, out, handed>>

MinOf(a, b) == IF a <= b THEN a ELSE b

(* Mutant: the buffer is taken as full at start-up.                       *)
BufBeginInit_zero == 0

(* static uint buf_begin = sizeof(buf): the buffer starts empty.          *)
BufBeginInit == BufSize

(* The bytes from index b on of the buffer of refill g, n of them.        *)
Chunk(g, b, n) == [k \in 1..n |-> <<g, b + k - 1>>]

(* Mutant: the read position is not advanced on the contiguous path.      *)
kr_rnd_buffered_noadvance(size) ==
    LET size1 == MinOf(size, BufSize - buf_begin) IN
    /\ size <= BufSize
    /\ IF size1 = size
       THEN /\ out' = Chunk(gen, buf_begin, size1)
            /\ UNCHANGED <<buf_begin, gen>>
       ELSE /\ gen < MaxGen
            /\ gen' = gen + 1
            /\ out' = Chunk(gen, buf_begin, size1)
                        \o Chunk(gen + 1, 0, size - size1)
            /\ buf_begin' = size - size1
    /\ handed' = handed \cup {out'[k] : k \in DOMAIN out'}

(* Mutant: after a refill the read position restarts at 0.               *)
kr_rnd_buffered_restart(size) ==
    LET size1 == MinOf(size, BufSize - buf_begin) IN
    /\ size <= BufSize
    /\ IF size1 = size
       THEN /\ out' = Chunk(gen, buf_begin, size1)
            /\ buf_begin' = buf_begin + size1
            /\ UNCHANGED gen
       ELSE /\ gen < MaxGen
            /\ gen' = gen + 1
            /\ out' = Chunk(gen, buf_begin, size1)
                        \o Chunk(gen + 1, 0, size - size1)
            /\ buf_begin' = 0
    /\ handed' = handed \cup {out'[k] : k \in DOMAIN out'}

(* Mutant: the contiguous chunk ignores the read position.                *)
kr_rnd_buffered_wholebuf(size) ==
    LET size1 == MinOf(size, BufSize) IN
    /\ size <= BufSize
    /\ IF size1 = size
       THEN /\ out' = Chunk(gen, buf_begin, size1)
            /\ buf_begin' = buf_begin + size1
            /\ UNCHANGED gen
       ELSE /\ gen < MaxGen
            /\ gen' = gen + 1
            /\ out' = Chunk(gen, buf_begin, size1)
                        \o Chunk(gen + 1, 0, size - size1)
            /\ buf_begin' = size - size1
    /\ handed' = handed \cup {out'[k] : k \in DOMAIN out'}

(* kr_rnd_buffered(data, size).  A request larger than the buffer is      *)
(* served by rnd_noerror directly.  Otherwise the contiguous chunk from    *)
(* buf_begin up to the end of the buffer is copied; if that was all,       *)
(* buf_begin advances; if not, the whole buffer is refilled and the rest   *)
(* is copied from its start, and buf_begin is the size of that rest.       *)
kr_rnd_buffered(size) ==
    LET size1 == MinOf(size, BufSize - buf_begin) IN
    \/ /\ size > BufSize
       /\ out' = <<>>
       /\ UNCHANGED <<buf_begin, gen, handed>>
    \/ /\ size <= BufSize
       /\ IF size1 = size
          THEN /\ out' = Chunk(gen, buf_begin, size1)
               /\ buf_begin' = buf_begin + size1
               /\ UNCHANGED gen
          ELSE /\ gen < MaxGen
               /\ gen' = gen + 1
               /\ out' = Chunk(gen, buf_begin, size1)
                           \o Chunk(gen + 1, 0, size - size1)
               /\ buf_begin' = size - size1
       /\ handed' = handed \cup {out'[k] : k \in DOMAIN out'}

Init ==
    /\ buf_begin = BufBeginInit
    /\ gen = 0
    /\ out = <<>>
    /\ handed = {}

Next == \E size \in Sizes : kr_rnd_buffered(size)

Spec == Init /\ [][Next]_vars

----------------------------------------------------------------------------
(* Properties.                                                            *)

TypeOK ==
    /\ buf_begin \in 0..BufSize
    /\ gen \in 0..MaxGen
    /\ out \in Seq((0..MaxGen) \X (0..BufSize - 1))
    /\ handed \subseteq (0..MaxGen) \X (0..BufSize - 1)

(* No random byte is handed out twice: the bytes a call returns are        *)
(* pairwise distinct and none of them was returned by an earlier call.    *)
(* This is the whole point of the buf_begin bookkeeping across the two    *)
(* copy paths and the refill.                                              *)
NoByteReuse ==
    [][ /\ Cardinality({out'[k] : k \in DOMAIN out'}) = Len(out')
        /\ \A k \in DOMAIN out' : out'[k] \notin handed ]_vars

(* Every byte handed out was written by gnutls_rnd: none comes from the   *)
(* static buffer's initial contents.                                       *)
OnlyGeneratedBytes == \A b \in handed : b[1] >= 1


(* kr_rnd_buffered implements RandomStream: refill g (from 1 on) holds the *)
(* stream bytes (g - 1) * BufSize .. g * BufSize - 1 and buf_begin is the  *)
(* read position in it, so every call returns the next stream bytes in     *)
(* order, across the wrap and the refill, or none when it is served       *)
(* directly; no byte is skipped, repeated or taken from the initial       *)
(* buffer.                                                                 *)
StreamPos(b) == (b[1] - 1) * BufSize + b[2]

Stream == INSTANCE RandomStream
    WITH pos <- gen * BufSize + buf_begin - BufSize,
         out <- [k \in DOMAIN out |-> StreamPos(out[k])]

RefinesRandomStream == Stream!Spec

============================================================================
