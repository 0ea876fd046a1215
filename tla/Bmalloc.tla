------------------------------ MODULE Bmalloc ------------------------------
(***************************************************************************)
(* The pool allocator of lib/bmalloc.c with clients that allocate and free *)
(* in any order: Heap's operators as a state machine.                      *)
(***************************************************************************)
EXTENDS Heap

CONSTANTS Pools,     \* the [start, len] ranges init_mem_pool may be given
          Requests   \* the sizes asked of bmalloc

ASSUME HeapAssumption == /\ Pools \subseteq [start : Nat, len : Nat]
                         /\ Requests \subseteq Nat

VARIABLES pool,      \* the allocator's state
          owned,     \* the blocks its clients hold: [ptr, len]
          result     \* what the last bmalloc returned: [ptr, len]

heapVars == <<pool, owned, result>>

-----------------------------------------------------------------------------
(***************************************************************************)
(* The allocator and its clients, which free only what they hold.          *)
(***************************************************************************)

HeapInit == /\ \E p \in Pools : pool = InitPool(p.start, p.len)
            /\ owned = {}
            /\ result = [ptr |-> NoBlock, len |-> 0]

bmalloc(n) ==
  \E r \in Malloc(pool, n) :
    /\ pool'   = r.heap
    /\ result' = [ptr |-> r.ptr, len |-> n]
    /\ owned'  = IF r.ptr = NoBlock THEN owned
                 ELSE owned \cup {[ptr |-> r.ptr, len |-> n]}

bfree(b) == /\ pool'  = Free(pool, b.ptr)
            /\ owned' = owned \ {b}
            /\ UNCHANGED result

HeapNext == \/ \E n \in Requests : bmalloc(n)
            \/ \E b \in owned : bfree(b)

HeapSpec == HeapInit /\ [][HeapNext]_heapVars

-----------------------------------------------------------------------------
(***************************************************************************)
(* Properties.                                                             *)
(***************************************************************************)

\* The types of the allocator's variables (lib/bmalloc.c).
HeapTypeOK ==
  /\ HeapType(pool)
  /\ owned \subseteq [ptr : Nat, len : Nat]
  /\ result \in [ptr : Int, len : Nat]

\* The headers split the used part of the pool without gap or overlap, so the
\* scans of bmalloc and bfree visit every header and nothing else.
ChainTiled     == Tiled(pool)

\* bfree leaves no two holes side by side and none under the high-water mark.
HolesCoalesced == Coalesced(pool)

\* bmalloc hands out aligned addresses only, whatever sizes are asked for and
\* however holes were split before.
BlocksAligned  == Aligned(pool)

\* The busy blocks are the ones the clients hold, each large enough for what
\* was asked: bfree's scan always finds the block of a live pointer.
BusyIsOwned ==
  /\ \A b \in owned : /\ b.ptr - HdrSize \in pool.busy
                      /\ b.ptr + b.len <= pool.next[b.ptr - HdrSize]
  /\ \A a \in pool.busy : \E b \in owned : b.ptr = a + HdrSize
  /\ \A b, c \in owned : b.ptr = c.ptr => b = c

\* The allocator as its clients see it (PoolAllocator).
Allocator == INSTANCE PoolAllocator WITH size <- pool.top
AllocatorSpec == Allocator!Spec

\* What bmalloc and bfree preserve together; no part of it holds by itself.
HeapInv == HeapTypeOK /\ ChainTiled /\ HolesCoalesced /\ BlocksAligned /\ BusyIsOwned
=============================================================================
