-------------------------------- MODULE Heap --------------------------------
(***************************************************************************)
(* The pool allocator of lib/bmalloc.c, which holds the queued events of   *)
(* the event core, as operators on heap values: the event core allocates   *)
(* and frees inside its own steps.  Blocks are linked in address order by  *)
(* the header in front of each payload; the part of the pool above the     *)
(* high-water mark (_last_heap_object) has no header yet.                  *)
(*                                                                         *)
(* Addresses are offsets from the aligned start of the pool                *)
(* (_heap_of_memory).  Headers that are no longer on the chain are left    *)
(* out: bmalloc and bfree only read a header they reach along the chain,   *)
(* and write both fields of one they create.                               *)
(***************************************************************************)
EXTENDS Integers, FiniteSets

Align   == 4         \* __MAX_ALIGNMENT__
HdrSize == 8         \* sizeof(_m_header) on the 32-bit targets
NoBlock == -1        \* NULL

Heads(h) == DOMAIN h.next             \* headers on the chain
Holes(h) == Heads(h) \ h.busy         \* the freed ones among them

NoRounding(n) == n                    \* defect: sizes are not rounded up
RoundUp(n) == ((n + (Align - 1)) \div Align) * Align

\* init_mem_pool.  The high-water mark is set on the first bmalloc in the
\* code; until then bmalloc and bfree behave as if it were at the start.
InitPool(start, len) ==
  LET skip == RoundUp(start) - start
  IN  [active |-> len > skip + HdrSize,
       next   |-> [a \in {} |-> 0],
       busy   |-> {},
       last   |-> 0,
       top    |-> len - skip - 1]

\* h with the links, the busy flags and the high-water mark of a later state.
With(h, next, busy, last) ==
  [active |-> h.active, next |-> next, busy |-> busy, last |-> last, top |-> h.top]

\* bmalloc's fast path: a new block at the high-water mark.
NoHeaderRoom(h, n) == n <= h.top - h.last   \* defect: the header is not counted
RoomOnTop(h, n) == n + HdrSize <= h.top - h.last

OnTop(h, n) ==
  With(h, [a \in Heads(h) \cup {h.last} |->
             IF a = h.last THEN h.last + n + HdrSize ELSE h.next[a]],
       h.busy \cup {h.last}, h.last + n + HdrSize)

\* bmalloc's slow path: the first freed block that is large enough, whose
\* tail becomes a hole of its own when it can hold more than a header.
FitsWithoutHeader(h, a, n) == h.next[a] - a >= n   \* defect: no header
Fits(h, a, n) == h.next[a] - a - HdrSize >= n

FirstFit(h, n) ==
  {a \in Holes(h) : /\ Fits(h, a, n)
                    /\ \A b \in Holes(h) : Fits(h, b, n) => a <= b}

SplitsAlways(h, a, cut) == h.next[a] > cut   \* defect: no room for a header
Splits(h, a, cut) == h.next[a] - cut > HdrSize

Reuse(h, a, n) ==
  LET cut == a + HdrSize + n
  IN  With(h, IF Splits(h, a, cut)
              THEN [b \in Heads(h) \cup {cut} |->
                      CASE b = a   -> cut
                        [] b = cut -> h.next[a]
                        [] OTHER   -> h.next[b]]
              ELSE h.next,
           h.busy \cup {a}, h.last)

\* bmalloc: the possible outcomes of a call, of which there is always one.
Malloc(h, size) ==
  LET n == RoundUp(size)
  IN  IF ~h.active \/ size = 0 THEN {[ptr |-> NoBlock, heap |-> h]}
      ELSE IF RoomOnTop(h, n)
      THEN {[ptr |-> h.last + HdrSize, heap |-> OnTop(h, n)]}
      ELSE IF FirstFit(h, n) # {}
      THEN {[ptr |-> a + HdrSize, heap |-> Reuse(h, a, n)] : a \in FirstFit(h, n)}
      ELSE {[ptr |-> NoBlock, heap |-> h]}

\* bfree merges the freed block c with the free blocks on both sides: the
\* block then runs from MergedStart to MergedEnd.
AnyPrevious(h, c) ==                       \* defect: merges with a busy block
  IF \E q \in Heads(h) : h.next[q] = c
  THEN CHOOSE q \in Heads(h) : h.next[q] = c ELSE c

MergedStart(h, c) ==
  IF \E q \in Holes(h) : h.next[q] = c
  THEN CHOOSE q \in Holes(h) : h.next[q] = c ELSE c

NextNotMerged(h, c) == h.next[c]           \* defect: leaves two holes in a row

MergedEnd(h, c) == IF h.next[c] \in Holes(h) THEN h.next[h.next[c]] ELSE h.next[c]

\* bfree.  The high-water mark moves back when the result is the last block.
Free(h, ptr) ==
  LET curr  == ptr - HdrSize
      start == MergedStart(h, curr)
      end   == MergedEnd(h, curr)
      kept  == {a \in Heads(h) : a <= start \/ end <= a}
  IN  IF ~h.active \/ curr \notin h.busy THEN h
      ELSE IF end = h.last
      THEN With(h, [a \in kept \ {start} |-> h.next[a]], h.busy \ {curr}, start)
      ELSE With(h, [a \in kept |-> IF a = start THEN end ELSE h.next[a]],
                h.busy \ {curr}, h.last)

-----------------------------------------------------------------------------
(***************************************************************************)
(* What is true of a heap that bmalloc and bfree have worked on.           *)
(***************************************************************************)

HeapType(h) ==
  /\ h = [active |-> h.active, next |-> h.next, busy |-> h.busy,
          last |-> h.last, top |-> h.top]
  /\ h.active \in BOOLEAN
  /\ Heads(h) \subseteq Nat
  /\ h.next \in [Heads(h) -> Nat]
  /\ h.busy \subseteq Heads(h)
  /\ h.last \in Nat
  /\ h.top \in Int

\* The blocks on the chain run from the start of the pool to the high-water
\* mark without a gap or an overlap, inside the pool (and a range that
\* init_mem_pool rejects holds no block at all), so that a scan along
\* the next pointers (bmalloc and bfree) visits every header and only headers.
Tiled(h) ==
  /\ IF h.active THEN h.last <= h.top ELSE h.last = 0 /\ h.top < HdrSize
  /\ 0 \in Heads(h) \cup {h.last}
  /\ \A a \in Heads(h) : /\ a + HdrSize <= h.next[a]
                         /\ h.next[a] \in Heads(h) \cup {h.last}
                         /\ a < h.last
  /\ \A a, b \in Heads(h) : a < b => h.next[a] <= b
  /\ \A b \in (Heads(h) \cup {h.last}) \ {0} : \E a \in Heads(h) : h.next[a] = b

\* bfree leaves no two free blocks side by side and no free block under the
\* high-water mark: what was freed can be had again as one piece.
Coalesced(h) == \A a \in Holes(h) : h.next[a] \in h.busy

\* Every payload starts on an aligned address.
Aligned(h) == \A a \in Heads(h) \cup {h.last} : a % Align = 0

\* What every heap reached by bmalloc and bfree satisfies.
Sound(h) == HeapType(h) /\ Tiled(h) /\ Coalesced(h) /\ Aligned(h)
=============================================================================
