----------------------------- MODULE MCBmalloc -----------------------------
(***************************************************************************)
(* Instance of Bmalloc for TLC: pools of four or five small blocks, aligned*)
(* and not, one that init_mem_pool rejects, and requests that round up,    *)
(* split a hole, leave a tail too small to split, and do not fit.          *)
(***************************************************************************)
EXTENDS Bmalloc

MCPools == {[start |-> 0, len |-> 61], [start |-> 3, len |-> 56],
            [start |-> 1, len |-> 11]}
MCRequests == {0, 1, 7, 12, 20}
=============================================================================
