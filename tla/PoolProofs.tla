----------------------------- MODULE PoolProofs -----------------------------
(***************************************************************************)
(* Proofs about the event pool.                                            *)
(*                                                                         *)
(* Of Bmalloc, the allocator's state machine, for every set of pools and   *)
(* every set of request sizes: its invariant, and that it implements       *)
(* PoolAllocator.                                                          *)
(*                                                                         *)
(* Of EmosList, the list made of its blocks, for every pool and every      *)
(* number of posts, if no post comes inside a call of the runtime thread   *)
(* (Preempts = FALSE):                                                     *)
(*   - no accepted event is lost;                                          *)
(*   - the nodes on the list are the busy blocks of the pool;              *)
(*   - the list implements the queue of its priority level.                *)
(* With posts inside such calls none of this holds (MCEmosListRace).       *)
(***************************************************************************)
EXTENDS Bmalloc, EmosList, HeapLemmas, FiniteSetTheorems, SequenceTheorems

-----------------------------------------------------------------------------
(***************************************************************************)
(* The allocator with clients that allocate and free in any order.         *)
(***************************************************************************)

\* init_mem_pool establishes the invariant on an empty pool.
LEMMA HeapInvInit == HeapInit => HeapInv
<1> SUFFICES ASSUME HeapInit PROVE HeapInv
  OBVIOUS
<1>1. PICK q \in Pools : pool = InitPool(q.start, q.len)
  BY DEF HeapInit
<1>2. q.start \in Nat /\ q.len \in Nat
  BY HeapAssumption
<1>3. Sound(pool)
  BY <1>1, <1>2, InitPoolSound
<1>4. pool.busy = {}
  BY <1>1 DEF InitPool
<1>5. QED
  BY <1>3, <1>4 DEF HeapInit, HeapInv, HeapTypeOK, ChainTiled, HolesCoalesced,
                    BlocksAligned, BusyIsOwned, Sound, NoBlock

\* bmalloc and bfree keep it.
LEMMA HeapInvNext == HeapInv /\ [HeapNext]_heapVars => HeapInv'
<1> SUFFICES ASSUME HeapInv, [HeapNext]_heapVars PROVE HeapInv'
  OBVIOUS
<1>1. Sound(pool) /\ HeapTypeOK /\ BusyIsOwned
  BY DEF HeapInv, Sound, HeapTypeOK, ChainTiled, HolesCoalesced, BlocksAligned
<1>2. /\ pool.busy \subseteq Heads(pool) /\ Heads(pool) \subseteq Nat
      /\ owned \subseteq [ptr : Nat, len : Nat]
  BY <1>1 DEF Sound, HeapType, HeapTypeOK
<1>3. ASSUME NEW size \in Requests, bmalloc(size)
      PROVE  HeapInv'
  <2>1. PICK r \in Malloc(pool, size) :
          /\ pool'   = r.heap
          /\ result' = [ptr |-> r.ptr, len |-> size]
          /\ owned'  = IF r.ptr = NoBlock THEN owned
                       ELSE owned \cup {[ptr |-> r.ptr, len |-> size]}
    BY <1>3 DEF bmalloc
  <2>2. size \in Nat
    BY HeapAssumption
  <2>3. /\ Sound(r.heap)
        /\ \/ r.ptr = NoBlock /\ r.heap = pool
           \/ /\ r.ptr \in Nat
              /\ r.ptr - HdrSize \notin pool.busy
              /\ r.heap.busy = pool.busy \cup {r.ptr - HdrSize}
              /\ r.ptr + size <= r.heap.next[r.ptr - HdrSize]
              /\ \A a \in pool.busy : r.heap.next[a] = pool.next[a]
    BY <1>1, <2>2, MallocSound
  <2>4. CASE r.ptr = NoBlock /\ r.heap = pool
    BY <1>1, <2>1, <2>2, <2>4 DEF HeapInv, HeapTypeOK, ChainTiled, HolesCoalesced,
                                  BlocksAligned, BusyIsOwned, Sound, NoBlock
  <2>5. CASE /\ r.ptr \in Nat
             /\ r.ptr - HdrSize \notin pool.busy
             /\ r.heap.busy = pool.busy \cup {r.ptr - HdrSize}
             /\ r.ptr + size <= r.heap.next[r.ptr - HdrSize]
             /\ \A a \in pool.busy : r.heap.next[a] = pool.next[a]
    <3> DEFINE b == [ptr |-> r.ptr, len |-> size]
    <3>1. owned' = owned \cup {b}
      BY <2>1, <2>5 DEF NoBlock
    <3>2. HeapTypeOK'
      BY <1>2, <2>1, <2>2, <2>3, <2>5, <3>1 DEF HeapTypeOK, Sound
    <3>3. /\ \A c \in owned' : /\ c.ptr - HdrSize \in pool'.busy
                              /\ c.ptr + c.len <= pool'.next[c.ptr - HdrSize]
          /\ \A a \in pool'.busy : \E c \in owned' : c.ptr = a + HdrSize
      BY <1>1, <1>2, <2>1, <2>5, <3>1 DEF BusyIsOwned, HdrSize
    <3>4. \A c, d \in owned' : c.ptr = d.ptr => c = d
      BY <1>1, <2>5, <3>1 DEF BusyIsOwned
    <3>5. QED
      BY <2>1, <2>3, <3>2, <3>3, <3>4 DEF HeapInv, ChainTiled, HolesCoalesced,
                                          BlocksAligned, BusyIsOwned, Sound
  <2>6. QED
    BY <2>3, <2>4, <2>5
<1>4. ASSUME NEW b \in owned, bfree(b)
      PROVE  HeapInv'
  <2>1. /\ pool' = Free(pool, b.ptr)
        /\ owned' = owned \ {b}
        /\ result' = result
    BY <1>4 DEF bfree
  <2>2. b.ptr \in Nat /\ b.ptr - HdrSize \in pool.busy
    BY <1>1, <1>2 DEF BusyIsOwned
  <2>3. pool.active
    BY <1>1, <1>2, <2>2 DEF Sound, Tiled
  <2>4. /\ Sound(pool')
        /\ pool'.busy = pool.busy \ {b.ptr - HdrSize}
        /\ \A a \in pool.busy \ {b.ptr - HdrSize} : pool'.next[a] = pool.next[a]
    BY <1>1, <2>1, <2>2, <2>3, FreeSound
  <2>5. \A c \in owned' : /\ c.ptr - HdrSize \in pool'.busy
                        /\ c.ptr + c.len <= pool'.next[c.ptr - HdrSize]
    <3>1. SUFFICES ASSUME NEW c \in owned, c # b
                   PROVE  /\ c.ptr - HdrSize \in pool'.busy
                          /\ c.ptr + c.len <= pool'.next[c.ptr - HdrSize]
      BY <2>1
    <3>2. /\ c.ptr \in Nat /\ c.ptr # b.ptr
          /\ c.ptr - HdrSize \in pool.busy
          /\ c.ptr + c.len <= pool.next[c.ptr - HdrSize]
      BY <1>1, <1>2, <3>1 DEF BusyIsOwned
    <3>3. c.ptr - HdrSize # b.ptr - HdrSize
      BY <2>2, <3>2 DEF HdrSize
    <3>4. QED
      BY <2>4, <3>2, <3>3
  <2>6. \A a \in pool'.busy : \E c \in owned' : c.ptr = a + HdrSize
    BY <1>1, <1>2, <2>1, <2>2, <2>4 DEF BusyIsOwned, HdrSize
  <2>7. \A c, d \in owned' : c.ptr = d.ptr => c = d
    BY <1>1, <2>1 DEF BusyIsOwned
  <2>8. HeapTypeOK'
    BY <1>1, <2>1, <2>4 DEF HeapTypeOK, Sound
  <2>9. QED
    BY <2>4, <2>5, <2>6, <2>7, <2>8 DEF HeapInv, ChainTiled, HolesCoalesced,
                                        BlocksAligned, BusyIsOwned, Sound
<1>5. CASE UNCHANGED heapVars
  BY <1>5 DEF HeapInv, HeapTypeOK, ChainTiled, HolesCoalesced, BlocksAligned,
              BusyIsOwned, heapVars
<1>6. QED
  BY <1>3, <1>4, <1>5 DEF HeapNext

\* The allocator's inductive invariant: its chain of headers tiles the used
\* part of the pool, no two free blocks lie side by side, and exactly the
\* blocks its clients hold are marked busy (bmalloc, bfree).
THEOREM AllocatorInvariant == HeapSpec => []HeapInv
BY HeapInvInit, HeapInvNext, PTL DEF HeapSpec

\* Every block a client holds is one of the busy blocks, large enough for the
\* request, and no busy block is lost (bmalloc, bfree).
THEOREM BusyBlocksAreOwned == HeapSpec => []BusyIsOwned
<1>1. HeapInv => BusyIsOwned
  BY DEF HeapInv
<1>2. QED
  BY <1>1, AllocatorInvariant, PTL

\* The allocator's variables keep their types (bmalloc, bfree).
THEOREM HeapTypeCorrect == HeapSpec => []HeapTypeOK
<1>1. HeapInv => HeapTypeOK
  BY DEF HeapInv
<1>2. QED
  BY <1>1, AllocatorInvariant, PTL

\* The headers tile the used part of the pool: the scans of bmalloc and bfree
\* end at the high-water mark and meet every header.
THEOREM ChainAlwaysTiled == HeapSpec => []ChainTiled
<1>1. HeapInv => ChainTiled
  BY DEF HeapInv
<1>2. QED
  BY <1>1, AllocatorInvariant, PTL

\* bfree always merges: no hole is followed by a hole or by the unused top.
THEOREM HolesAlwaysCoalesced == HeapSpec => []HolesCoalesced
<1>1. HeapInv => HolesCoalesced
  BY DEF HeapInv
<1>2. QED
  BY <1>1, AllocatorInvariant, PTL

-----------------------------------------------------------------------------
\* Each call of bmalloc is a grant or a justified refusal, each bfree a release.
LEMMA StepImplementsAllocator ==
  HeapInv /\ HeapInv' /\ [HeapNext]_heapVars => [Allocator!Next]_(Allocator!vars)
<1> SUFFICES ASSUME HeapInv, HeapInv', [HeapNext]_heapVars
             PROVE  [Allocator!Next]_(Allocator!vars)
  OBVIOUS
<1>1. Sound(pool) /\ HeapTypeOK /\ BusyIsOwned
  BY DEF HeapInv, Sound, HeapTypeOK, ChainTiled, HolesCoalesced, BlocksAligned
<1>2. Sound(pool') /\ BusyIsOwned' /\ owned' \subseteq [ptr : Nat, len : Nat]
  BY DEF HeapInv, Sound, HeapTypeOK, ChainTiled, HolesCoalesced, BlocksAligned
<1>3. ASSUME NEW n \in Requests, bmalloc(n)
      PROVE  Allocator!Next
  <2>1. PICK r \in Malloc(pool, n) :
          /\ pool'   = r.heap
          /\ result' = [ptr |-> r.ptr, len |-> n]
          /\ owned'  = IF r.ptr = NoBlock THEN owned
                       ELSE owned \cup {[ptr |-> r.ptr, len |-> n]}
    BY <1>3 DEF bmalloc
  <2>2. n \in Nat
    BY HeapAssumption
  <2>3. /\ pool'.top = pool.top
        /\ \/ r.ptr = NoBlock
           \/ r.ptr \in Nat /\ n > 0 /\ r.ptr - HdrSize \notin pool.busy
    BY <1>1, <2>1, <2>2, MallocSound
  <2>4. CASE r.ptr = NoBlock
    <3>1. pool.busy # {} \/ n = 0 \/ n + 3 + HdrSize > pool.top
      BY <1>1, <2>1, <2>2, <2>4, RefusalJustified
    <3>2. owned # {} \/ n = 0 \/ n + 3 + 8 > pool.top
      BY <1>1, <3>1 DEF BusyIsOwned, HdrSize
    <3>3. Allocator!Refuse(n)
      BY <2>1, <2>4, <3>2 DEF Allocator!Refuse, Allocator!Refused,
                              Allocator!Overhead, NoBlock
    <3>4. QED
      BY <2>3, <3>3 DEF Allocator!Next
  <2>5. CASE r.ptr \in Nat /\ n > 0 /\ r.ptr - HdrSize \notin pool.busy
    <3> DEFINE b == [ptr |-> r.ptr, len |-> n]
               a == r.ptr - HdrSize
    <3>1. owned' = owned \cup {b} /\ result' = b
      BY <2>1, <2>5 DEF NoBlock
    <3>2. /\ a \in pool'.busy /\ r.ptr + n <= pool'.next[a]
      BY <1>2, <3>1 DEF BusyIsOwned
    <3>3. /\ \A x \in Heads(pool') : /\ x \in Nat /\ pool'.next[x] \in Nat
                                    /\ x % 4 = 0
                                    /\ pool'.next[x] <= pool'.top
          /\ \A x, y \in Heads(pool') : x < y => pool'.next[x] <= y
          /\ pool'.busy \subseteq Heads(pool') /\ pool'.top \in Int
      BY <1>2, <3>2 DEF Sound, HeapType, Tiled, Aligned, Align, HdrSize
    <3>4. /\ r.ptr \in 0 .. pool.top /\ r.ptr % 4 = 0 /\ r.ptr + n <= pool.top
      BY <2>2, <2>3, <2>5, <3>2, <3>3 DEF HdrSize
    <3>5. ASSUME NEW c \in owned
          PROVE  Allocator!Disjoint(b, c)
      <4>1. /\ c.ptr \in Nat /\ c.len \in Nat
            /\ c.ptr - HdrSize \in pool.busy
            /\ c.ptr - HdrSize \in pool'.busy
            /\ c.ptr + c.len <= pool'.next[c.ptr - HdrSize]
        BY <1>1, <1>2, <3>1 DEF BusyIsOwned, HeapTypeOK
      <4>2. a # c.ptr - HdrSize
        BY <2>5, <4>1
      <4>3. CASE a < c.ptr - HdrSize
        <5>1. pool'.next[a] <= c.ptr - HdrSize
          BY <3>2, <3>3, <4>1, <4>3
        <5>2. QED
          BY <2>2, <2>5, <3>2, <3>3, <4>1, <5>1 DEF Allocator!Disjoint, HdrSize
      <4>4. CASE c.ptr - HdrSize < a
        <5>1. pool'.next[c.ptr - HdrSize] <= a
          BY <3>2, <3>3, <4>1, <4>4
        <5>2. QED
          BY <2>2, <2>5, <3>2, <3>3, <4>1, <5>1 DEF Allocator!Disjoint, HdrSize
      <4>5. QED
        BY <2>5, <4>1, <4>2, <4>3, <4>4 DEF HdrSize
    <3>6. Allocator!Grant(n)
      BY <2>5, <3>1, <3>4, <3>5 DEF Allocator!Grant
    <3>7. QED
      BY <2>3, <3>6 DEF Allocator!Next
  <2>6. QED
    BY <2>3, <2>4, <2>5
<1>4. ASSUME NEW b \in owned, bfree(b)
      PROVE  Allocator!Next
  <2>1. /\ pool' = Free(pool, b.ptr)
        /\ owned' = owned \ {b}
        /\ result' = result
    BY <1>4 DEF bfree
  <2>2. b.ptr \in Nat /\ b.ptr - HdrSize \in pool.busy
    BY <1>1 DEF BusyIsOwned, HeapTypeOK
  <2>3. pool.active
    BY <1>1, <2>2 DEF Sound, Tiled, HeapType
  <2>4. pool'.top = pool.top
    BY <1>1, <2>1, <2>2, <2>3, FreeSound
  <2>5. QED
    BY <2>1, <2>4 DEF Allocator!Next, Allocator!Release
<1>5. CASE UNCHANGED heapVars
  BY <1>5 DEF heapVars, Allocator!vars
<1>6. QED
  BY <1>3, <1>4, <1>5 DEF HeapNext

\* The allocator refines PoolAllocator: the ranges it hands out never overlap,
\* are aligned and lie in the pool, and a refusal means that something is
\* still allocated or that the request exceeds the pool (bmalloc, bfree).
THEOREM AllocatorRefinement == HeapSpec => AllocatorSpec
<1>1. HeapInit => Allocator!Init
  BY DEF HeapInit, Allocator!Init, Allocator!Refused, NoBlock
<1>2. QED
  BY <1>1, AllocatorInvariant, StepImplementsAllocator, PTL
     DEF HeapSpec, AllocatorSpec, Allocator!Spec

-----------------------------------------------------------------------------
(***************************************************************************)
(* Chains of nodes, and the walk along them.                               *)
(***************************************************************************)

\* q holds the nodes that can be reached from s along the links in nd, in
\* order and each once.
ChainOf(q, s, nd) ==
  /\ q \in Seq(Nat)
  /\ s = IF Len(q) = 0 THEN NULL ELSE q[1]
  /\ \A i \in 1 .. Len(q) :
       q[i] \in DOMAIN nd /\ nd[q[i]].next = IF i = Len(q) THEN NULL ELSE q[i + 1]
  /\ \A i, j \in 1 .. Len(q) : q[i] = q[j] => i = j

\* linklist_new's walk meets the nodes of the chain and then the end, and there
\* is one such walk only.
LEMMA WalkMeetsChain ==
  ASSUME NEW q, NEW s, NEW nd, ChainOf(q, s, nd), NEW nth,
         nth = CHOOSE f : f = [k \in 0 .. MaxPosts |->
                 IF k = 0 THEN s ELSE IF f[k - 1] = NULL THEN NULL ELSE nd[f[k - 1]].next]
  PROVE  \A k \in 0 .. MaxPosts : nth[k] = IF k < Len(q) THEN q[k + 1] ELSE NULL
<1> DEFINE Walks(f) == f = [k \in 0 .. MaxPosts |->
             IF k = 0 THEN s ELSE IF f[k - 1] = NULL THEN NULL ELSE nd[f[k - 1]].next]
           g == [k \in 0 .. MaxPosts |-> IF k < Len(q) THEN q[k + 1] ELSE NULL]
<1>0. MaxPosts \in Nat /\ Len(q) \in Nat /\ \A i \in 1 .. Len(q) : q[i] \in Nat
  BY ListAssumption DEF ChainOf
<1>1. Walks(g)
  <2> DEFINE e(k) == IF k = 0 THEN s ELSE IF g[k - 1] = NULL THEN NULL ELSE nd[g[k - 1]].next
  <2>1. ASSUME NEW k \in 0 .. MaxPosts PROVE g[k] = e(k)
    <3>1. CASE k = 0
      BY <1>0, <3>1 DEF ChainOf
    <3>2. CASE k # 0
      <4>1. k - 1 \in 0 .. MaxPosts /\ k - 1 + 1 = k
        BY <1>0, <3>2
      <4>2. g[k - 1] = IF k - 1 < Len(q) THEN q[k] ELSE NULL
        BY <4>1
      <4>3. CASE k - 1 < Len(q)
        <5>1. k \in 1 .. Len(q) /\ g[k - 1] = q[k] /\ q[k] # NULL
          BY <1>0, <4>1, <4>2, <4>3 DEF NULL, NoBlock
        <5>2. e(k) = nd[q[k]].next
          BY <3>2, <5>1
        <5>3. nd[q[k]].next = IF k = Len(q) THEN NULL ELSE q[k + 1]
          BY <5>1 DEF ChainOf
        <5>4. g[k] = IF k < Len(q) THEN q[k + 1] ELSE NULL
          OBVIOUS
        <5>5. k < Len(q) <=> k # Len(q)
          BY <1>0, <4>3, <5>1
        <5> QED
          BY <5>2, <5>3, <5>4, <5>5
      <4>4. CASE ~(k - 1 < Len(q))
        <5>1. ~(k < Len(q)) /\ g[k - 1] = NULL
          BY <1>0, <4>1, <4>2, <4>4
        <5> QED
          BY <3>2, <5>1
      <4> QED
        BY <4>3, <4>4
    <3> QED
      BY <3>1, <3>2
  <2> HIDE DEF e
  <2>2. g = [k \in 0 .. MaxPosts |-> e(k)]
    BY <2>1
  <2> QED
    BY <2>2 DEF e
<1> HIDE DEF g
<1>2. Walks(nth)
  BY <1>1
<1>3. \A k \in 0 .. MaxPosts : nth[k] = g[k]
  <2> SUFFICES ASSUME \E k \in 0 .. MaxPosts : nth[k] # g[k] PROVE FALSE
    OBVIOUS
  <2> DEFINE Differ == {k \in 0 .. MaxPosts : nth[k] # g[k]}
  <2>1. Differ \in SUBSET Nat /\ Differ # {}
    <3>1. \A k \in 0 .. MaxPosts : k \in Nat
      BY <1>0
    <3> QED
      BY <3>1
  <2>2. PICK k \in Differ : \A j \in Differ : k <= j
    BY <2>1, LeastNatural
  <2>3. k \in 0 .. MaxPosts /\ nth[k] # g[k] /\ \A j \in 0 .. MaxPosts : j < k => nth[j] = g[j]
    BY <1>0, <2>2
  <2> HIDE DEF Differ
  <2>4. nth[k] = IF k = 0 THEN s ELSE IF nth[k - 1] = NULL THEN NULL ELSE nd[nth[k - 1]].next
    BY <1>2, <2>3
  <2>5. g[k] = IF k = 0 THEN s ELSE IF g[k - 1] = NULL THEN NULL ELSE nd[g[k - 1]].next
    BY <1>1, <2>3
  <2>6. k = 0 \/ nth[k - 1] = g[k - 1]
    BY <1>0, <2>3
  <2> QED
    BY <2>3, <2>4, <2>5, <2>6
<1> QED
  BY <1>3 DEF g

\* What the model reads off such a walk.
LEMMA WalkReads ==
  ASSUME NEW q \in Seq(Nat), Len(q) <= MaxPosts, NEW nth,
         \A k \in 0 .. MaxPosts : nth[k] = IF k < Len(q) THEN q[k + 1] ELSE NULL
  PROVE  /\ Cardinality({k \in 0 .. MaxPosts : nth[k] # NULL}) = Len(q)
         /\ {nth[k] : k \in 0 .. MaxPosts} \ {NULL} = {q[i] : i \in 1 .. Len(q)}
         /\ [k \in 1 .. Len(q) |-> nth[k - 1]] = q
<1>0. MaxPosts \in Nat /\ Len(q) \in Nat /\ \A i \in 1 .. Len(q) : q[i] \in Nat
  BY ListAssumption
<1>1. ASSUME NEW k \in 0 .. MaxPosts PROVE nth[k] # NULL <=> k < Len(q)
  <2>1. nth[k] = IF k < Len(q) THEN q[k + 1] ELSE NULL
    OBVIOUS
  <2>2. k < Len(q) => k + 1 \in 1 .. Len(q)
    BY <1>0
  <2>3. k < Len(q) => q[k + 1] \in Nat
    BY <1>0, <2>2
  <2> QED
    BY <2>1, <2>3 DEF NULL, NoBlock
<1>2. Cardinality({k \in 0 .. MaxPosts : nth[k] # NULL}) = Len(q)
  <2>1. {k \in 0 .. MaxPosts : nth[k] # NULL} = 0 .. Len(q) - 1
    BY <1>0, <1>1
  <2>2. Cardinality(0 .. Len(q) - 1) = Len(q)
    <3>1. 0 \in Int /\ Len(q) - 1 \in Int
      BY <1>0
    <3>2. Cardinality(0 .. Len(q) - 1) = IF 0 > Len(q) - 1 THEN 0 ELSE Len(q) - 1 - 0 + 1
      BY <3>1, FS_Interval
    <3> QED
      BY <1>0, <3>2
  <2> QED
    BY <2>1, <2>2
<1>3. ASSUME NEW i \in 1 .. Len(q)
      PROVE  nth[i - 1] = q[i] /\ i - 1 \in 0 .. MaxPosts /\ q[i] # NULL
  <2>1. i - 1 \in 0 .. MaxPosts /\ i - 1 < Len(q) /\ i - 1 + 1 = i
    BY <1>0
  <2> QED
    BY <1>0, <2>1 DEF NULL, NoBlock
<1>4. {nth[k] : k \in 0 .. MaxPosts} \ {NULL} = {q[i] : i \in 1 .. Len(q)}
  <2>1. ASSUME NEW k \in 0 .. MaxPosts, nth[k] # NULL
        PROVE  \E i \in 1 .. Len(q) : nth[k] = q[i]
    <3>1. k < Len(q) /\ k + 1 \in 1 .. Len(q)
      BY <1>0, <1>1, <2>1
    <3> QED
      BY <3>1
  <2>2. ASSUME NEW i \in 1 .. Len(q)
        PROVE  \E k \in 0 .. MaxPosts : nth[k] = q[i] /\ nth[k] # NULL
    BY <1>3
  <2>3. ASSUME NEW x
        PROVE  x \in {nth[k] : k \in 0 .. MaxPosts} \ {NULL} <=> x \in {q[i] : i \in 1 .. Len(q)}
    <3>1. ASSUME NEW k \in 0 .. MaxPosts, x = nth[k], x # NULL
          PROVE  \E i \in 1 .. Len(q) : x = q[i]
      BY <2>1, <3>1
    <3>2. ASSUME NEW i \in 1 .. Len(q), x = q[i]
          PROVE  x # NULL /\ \E k \in 0 .. MaxPosts : x = nth[k]
      BY <2>2, <3>2
    <3> QED
      BY <3>1, <3>2
  <2> QED
    BY <2>3, Zenon
<1>5. [k \in 1 .. Len(q) |-> nth[k - 1]] = q
  <2> DEFINE read == [k \in 1 .. Len(q) |-> nth[k - 1]]
  <2>1. \A k \in 1 .. Len(q) : read[k] = q[k]
    BY <1>3
  <2>2. read \in Seq(Nat) /\ Len(read) = Len(q)
    <3>1. \A k \in 1 .. Len(q) : nth[k - 1] \in Nat
      BY <1>0, <1>3
    <3> QED
      BY <1>0, <3>1
  <2> HIDE DEF read
  <2>3. read = q
    BY <2>1, <2>2, SeqEqual
  <2> QED
    BY <2>3 DEF read
<1> QED
  BY <1>2, <1>4, <1>5

\* The nodes of the list, in order.
Nodes == [k \in 1 .. Length |-> At[k - 1]]

\* The list is read off the variables.
LEMMA NodesAre ==
  ASSUME NEW q, ChainOf(q, source, node), Len(q) <= MaxPosts
  PROVE  /\ Nodes = q /\ Length = Len(q) /\ OnList = {q[i] : i \in 1 .. Len(q)}
         /\ \A k \in 1 .. Len(q) : At[k - 1] = q[k]
<1>1. \A k \in 0 .. MaxPosts : At[k] = IF k < Len(q) THEN q[k + 1] ELSE NULL
  BY WalkMeetsChain DEF At
<1>2. q \in Seq(Nat)
  BY DEF ChainOf
<1>3. /\ Length = Len(q) /\ OnList = {q[i] : i \in 1 .. Len(q)}
      /\ [k \in 1 .. Len(q) |-> At[k - 1]] = q
  BY <1>1, <1>2, WalkReads DEF Length, OnList
<1> QED
  BY <1>3 DEF Nodes

\* The same after a step.
LEMMA NodesWillBe ==
  ASSUME NEW q, ChainOf(q, source', node'), Len(q) <= MaxPosts
  PROVE  /\ Nodes' = q /\ Length' = Len(q) /\ OnList' = {q[i] : i \in 1 .. Len(q)}
         /\ \A k \in 1 .. Len(q) : At'[k - 1] = q[k]
<1>1. \A k \in 0 .. MaxPosts : At'[k] = IF k < Len(q) THEN q[k + 1] ELSE NULL
  BY WalkMeetsChain DEF At
<1>2. q \in Seq(Nat)
  BY DEF ChainOf
<1>3. /\ Length' = Len(q) /\ OnList' = {q[i] : i \in 1 .. Len(q)}
      /\ [k \in 1 .. Len(q) |-> At'[k - 1]] = q
  BY <1>1, <1>2, WalkReads DEF Length, OnList
<1> QED
  BY <1>3 DEF Nodes

-----------------------------------------------------------------------------
(***************************************************************************)
(* The invariant.  The list is Nodes, read off the head and the links; the *)
(* pool of the invariant is the one before a header that is being made.    *)
(***************************************************************************)

\* The runtime thread is inside linklist_new; it is making a header.
InPost == pc \in {"walk", "malloc", "grow", "link"}
Making == pc \in {"grow", "link"}

\* The pool without the header that is being made, and the number of the last
\* post that can be on the list.
Base     == IF Making THEN With(heap, heap.next, heap.busy \ {head_p}, head_p) ELSE heap
Numbered == IF InPost THEN posts - 1 ELSE posts

\* The types of the variables (linklist.c, emos.c).
ListTypes ==
  /\ pc \in {"run", "walk", "malloc", "grow", "link", "advance", "empty"}
  /\ posts \in 0 .. MaxPosts /\ (InPost => mine = posts /\ posts >= 1)
  /\ node \in [DOMAIN node -> [next : Int, n : Nat]]

\* Between the two halves of bmalloc's fast path the pool is the sound one of
\* before, with the header marked and, in the end, the high-water mark moved.
PoolBehind ==
  /\ Sound(Base)
  /\ Making =>
       /\ RoomOnTop(Base, NodeLen)
       /\ heap = With(Base, Base.next, Base.busy \cup {head_p},
                      IF pc = "grow" THEN head_p ELSE head_p + NodeLen + HdrSize)

\* q is the list: the accepted events, each in a block of its own.
Listed(q) ==
  /\ ChainOf(q, source, node)
  /\ Len(q) <= Numbered
  /\ \A i \in 1 .. Len(q) : node[q[i]].n \in 1 .. Numbered
  /\ \A i, j \in 1 .. Len(q) : node[q[i]].n = node[q[j]].n => i = j
  /\ accepted = {node[q[i]].n : i \in 1 .. Len(q)}
  /\ Base.busy = {q[i] - HdrSize : i \in 1 .. Len(q)}

\* Where the runtime thread stands on the list q.
Standing(q) ==
  /\ proc # NULL => Len(q) # 0 /\ proc = q[1]
  /\ pc \in {"advance", "empty"} => proc # NULL /\ (pc = "advance" <=> Len(q) > 1)
  /\ pc = "walk" => IF Len(q) = 0 THEN last_tmp = NULL
                    ELSE \E i \in 1 .. Len(q) : last_tmp = q[i]
  /\ pc \in {"malloc", "grow", "link"} =>
       last_tmp = IF Len(q) = 0 THEN NULL ELSE q[Len(q)]

\* The list, the pool and the runtime thread agree, if no post comes inside a
\* call.
ListInv ==
  /\ Preempts = FALSE
  /\ ListTypes /\ PoolBehind /\ Listed(Nodes) /\ Standing(Nodes)

-----------------------------------------------------------------------------
(***************************************************************************)
(* What linking a node and removing the head do to the list.               *)
(***************************************************************************)

\* Memory holds nodes.
Typed(nd) == nd \in [DOMAIN nd -> [next : Int, n : Nat]]

\* linklist_new links the new node behind the last one of the chain.
LEMMA LinkKeeps ==
  ASSUME NEW q, ChainOf(q, source, node), Typed(node),
         NEW a \in Nat, \A i \in 1 .. Len(q) : q[i] # a, NEW n \in Nat,
         NEW tail, tail = IF Len(q) = 0 THEN NULL ELSE q[Len(q)],
         NEW nd, nd = Linked(tail, a, n)
  PROVE  /\ ChainOf(Append(q, a), NewSource(tail, a), nd)
         /\ Typed(nd) /\ nd[a].n = n
         /\ \A i \in 1 .. Len(q) : nd[q[i]].n = node[q[i]].n
<1>0. /\ q \in Seq(Nat) /\ Len(q) \in Nat /\ \A i \in 1 .. Len(q) : q[i] \in Nat /\ q[i] # NULL
      /\ a # NULL /\ NULL \in Int
  BY DEF ChainOf, NULL, NoBlock
<1> DEFINE written == Write(a, NULL, n)
           r == Append(q, a)
<1>1. /\ DOMAIN written = DOMAIN node \cup {a}
      /\ written[a] = [next |-> NULL, n |-> n]
      /\ \A b \in DOMAIN node : b # a => written[b] = node[b]
  BY DEF Write
<1>2. Typed(written)
  BY <1>0, <1>1 DEF Typed, Write
<1>3. /\ r \in Seq(Nat) /\ Len(r) = Len(q) + 1 /\ r[Len(q) + 1] = a
      /\ \A i \in 1 .. Len(q) : r[i] = q[i]
  BY <1>0
<1> HIDE DEF written, r
<1>4. \A i, j \in 1 .. Len(r) : r[i] = r[j] => i = j
  <2> SUFFICES ASSUME NEW i \in 1 .. Len(r), NEW j \in 1 .. Len(r), r[i] = r[j] PROVE i = j
    OBVIOUS
  <2>1. (i \in 1 .. Len(q) \/ i = Len(q) + 1) /\ (j \in 1 .. Len(q) \/ j = Len(q) + 1)
    BY <1>0, <1>3
  <2> QED
    BY <1>3, <2>1 DEF ChainOf
<1>5. CASE Len(q) = 0
  <2>1. tail = NULL /\ nd = written /\ NewSource(tail, a) = a
    BY <1>5 DEF Linked, NewSource, written
  <2>2. Len(r) = 1 /\ r[1] = a
    BY <1>3, <1>5
  <2>3. ChainOf(r, a, nd)
    BY <1>1, <1>3, <1>4, <2>1, <2>2 DEF ChainOf
  <2> QED
    BY <1>1, <1>2, <1>5, <2>1, <2>3 DEF r
<1>6. CASE Len(q) # 0
  <2>1. /\ Len(q) \in 1 .. Len(q) /\ tail = q[Len(q)]
        /\ tail # NULL /\ tail # a /\ tail \in DOMAIN node
    BY <1>0, <1>6 DEF ChainOf
  <2>2. nd = [written EXCEPT ![tail].next = a] /\ NewSource(tail, a) = source
    BY <2>1 DEF Linked, NewSource, written
  <2>3. /\ DOMAIN nd = DOMAIN written
        /\ \A b \in DOMAIN written : b # tail => nd[b] = written[b]
        /\ nd[tail] = [written[tail] EXCEPT !.next = a]
    BY <1>1, <2>1, <2>2
  <2>4. written[tail] = node[tail] /\ node[tail] \in [next : Int, n : Nat]
    BY <1>1, <2>1 DEF Typed
  <2>5. nd[tail].next = a /\ nd[tail].n = node[tail].n /\ nd[tail] \in [next : Int, n : Nat]
    BY <2>3, <2>4
  <2>6. Typed(nd)
    <3>1. \A b \in DOMAIN nd : nd[b] \in [next : Int, n : Nat]
      BY <1>2, <2>3, <2>5 DEF Typed
    <3>2. nd = [b \in DOMAIN nd |-> nd[b]]
      BY <2>2
    <3> QED
      BY <3>1, <3>2 DEF Typed
  <2>7. nd[a] = [next |-> NULL, n |-> n]
    BY <1>1, <2>1, <2>3
  <2>8. ASSUME NEW i \in 1 .. Len(q)
        PROVE  /\ q[i] \in DOMAIN nd /\ nd[q[i]].n = node[q[i]].n
               /\ nd[q[i]].next = IF i = Len(q) THEN a ELSE q[i + 1]
    <3>1. q[i] \in DOMAIN node /\ q[i] # a
      BY DEF ChainOf
    <3>2. CASE i = Len(q)
      BY <1>1, <2>1, <2>3, <2>5, <3>1, <3>2
    <3>3. CASE i # Len(q)
      <4>1. q[i] # tail
        BY <2>1, <3>3 DEF ChainOf
      <4>2. nd[q[i]] = node[q[i]]
        BY <1>1, <2>3, <3>1, <4>1
      <4> QED
        BY <1>1, <2>3, <3>1, <3>3, <4>2 DEF ChainOf
    <3> QED
      BY <3>2, <3>3
  <2>9. ASSUME NEW i \in 1 .. Len(r)
        PROVE  r[i] \in DOMAIN nd /\ nd[r[i]].next = IF i = Len(r) THEN NULL ELSE r[i + 1]
    <3>1. CASE i = Len(q) + 1
      BY <1>1, <1>3, <2>3, <2>7, <3>1
    <3>2. CASE i # Len(q) + 1
      <4>1. i \in 1 .. Len(q) /\ r[i] = q[i] /\ i # Len(r)
        BY <1>0, <1>3, <3>2
      <4>2. r[i + 1] = IF i = Len(q) THEN a ELSE q[i + 1]
        <5>1. CASE i = Len(q)
          BY <1>3, <5>1
        <5>2. CASE i # Len(q)
          <6>1. i + 1 \in 1 .. Len(q)
            BY <1>0, <4>1, <5>2
          <6> QED
            BY <1>3, <5>2, <6>1
        <5> QED
          BY <5>1, <5>2
      <4> QED
        BY <2>8, <4>1, <4>2
    <3> QED
      BY <3>1, <3>2
  <2>10. source = r[1] /\ Len(r) # 0
    BY <1>0, <1>3, <1>6 DEF ChainOf
  <2>11. ChainOf(r, source, nd)
    BY <1>3, <1>4, <2>9, <2>10 DEF ChainOf
  <2> QED
    BY <2>2, <2>6, <2>7, <2>8, <2>11 DEF r
<1> QED
  BY <1>5, <1>6

\* At start-up the list is empty and no block is in use.
LEMMA ListStart == ListInit /\ Preempts = FALSE => ListInv
<1> SUFFICES ASSUME ListInit, Preempts = FALSE PROVE ListInv
  OBVIOUS
<1> DEFINE q == <<>>
<1>0. q \in Seq(Nat) /\ Len(q) = 0 /\ MaxPosts \in Nat
  BY ListAssumption
<1>1. ChainOf(q, source, node)
  BY <1>0 DEF ChainOf, ListInit
<1>2. Nodes = q
  BY <1>0, <1>1, NodesAre
<1> HIDE DEF q
<1>3. ListTypes
  BY <1>0 DEF ListInit, ListTypes, InPost
<1>4. PoolBehind /\ Base.busy = {}
  <2>1. Sound(InitPool(Pool.start, Pool.len))
    BY ListAssumption, InitPoolSound
  <2>2. Base = InitPool(Pool.start, Pool.len) /\ ~Making
    BY DEF ListInit, Base, Making
  <2> QED
    BY <2>1, <2>2 DEF PoolBehind, InitPool
<1>5. Numbered = 0 /\ accepted = {} /\ proc = NULL /\ pc = "run"
  BY DEF ListInit, Numbered, InPost
<1>6. 1 .. Len(q) = {}
  BY <1>0
<1>7. Listed(q)
  BY <1>0, <1>1, <1>4, <1>5, <1>6 DEF Listed
<1>8. Standing(q)
  BY <1>5 DEF Standing
<1> QED
  BY <1>2, <1>3, <1>4, <1>7, <1>8 DEF ListInv

\* What a step of the runtime thread that links nothing leaves of the list.
LEMMA ListUntouched ==
  ASSUME ListInv, UNCHANGED <<source, node, accepted>>,
         Base'.busy = Base.busy, Numbered' \in Nat, Numbered <= Numbered'
  PROVE  Nodes' = Nodes /\ Listed(Nodes)'
<1> PICK q : q = Nodes
  OBVIOUS
<1>1. Listed(q) /\ Numbered \in Nat /\ Numbered <= MaxPosts /\ MaxPosts \in Nat
  BY ListAssumption DEF ListInv, ListTypes, Numbered, InPost
<1>2. Len(q) \in Nat /\ Len(q) <= Numbered' /\ 1 .. Numbered \subseteq 1 .. Numbered'
  BY <1>1 DEF Listed, ChainOf
<1>3. ChainOf(q, source', node') /\ Len(q) <= MaxPosts
  BY <1>1, <1>2 DEF Listed
<1>4. Nodes' = q
  BY <1>3, NodesWillBe
<1>5. Listed(q)'
  BY <1>1, <1>2 DEF Listed
<1> QED
  BY <1>4, <1>5

\* A post: the new node is the last one of the list, in a block that was not in
\* use, and its number is new.
LEMMA ListLonger ==
  ASSUME ListInv, NEW q, q = Nodes, NEW a \in Nat, a - HdrSize \notin Base.busy,
         NEW n \in Nat, Numbered < n, Numbered' = n, n <= MaxPosts,
         NEW tail, tail = IF Len(q) = 0 THEN NULL ELSE q[Len(q)],
         node' = Linked(tail, a, n), source' = NewSource(tail, a),
         accepted' = accepted \cup {n}, Base'.busy = Base.busy \cup {a - HdrSize}
  PROVE  /\ Nodes' = Append(q, a) /\ Listed(Nodes)' /\ Typed(node')
         /\ Len(q) \in Nat /\ Len(Append(q, a)) = Len(q) + 1
         /\ Len(q) # 0 => Append(q, a)[1] = q[1]
         /\ node'[a].n = n /\ \A i \in 1 .. Len(q) : node'[q[i]].n = node[q[i]].n
<1>1. Listed(q) /\ Numbered \in Nat /\ MaxPosts \in Nat
  BY ListAssumption DEF ListInv, ListTypes, Numbered, InPost
<1>2. /\ q \in Seq(Nat) /\ Len(q) \in Nat /\ Len(q) <= Numbered
      /\ \A i \in 1 .. Len(q) : q[i] \in Nat
  BY <1>1 DEF Listed, ChainOf
<1>3. \A i \in 1 .. Len(q) : q[i] # a
  BY <1>1 DEF Listed
<1>4. /\ ChainOf(Append(q, a), source', node') /\ Typed(node') /\ node'[a].n = n
      /\ \A i \in 1 .. Len(q) : node'[q[i]].n = node[q[i]].n
  <2>1. ChainOf(q, source, node) /\ Typed(node)
    BY <1>1 DEF Listed, ListInv, ListTypes, Typed
  <2> QED
    BY <1>3, <2>1, LinkKeeps
<1> PICK r : r = Append(q, a)
  OBVIOUS
<1>5. /\ r \in Seq(Nat) /\ Len(r) = Len(q) + 1 /\ r[Len(q) + 1] = a
      /\ \A i \in 1 .. Len(q) : r[i] = q[i]
  BY <1>2
<1>6. Nodes' = r
  <2>1. Len(r) <= MaxPosts
    BY <1>1, <1>2, <1>5
  <2>2. ChainOf(r, source', node')
    BY <1>4
  <2> QED
    BY <2>1, <2>2, NodesWillBe
<1>7. \A i \in 1 .. Len(r) : i \in 1 .. Len(q) \/ i = Len(q) + 1
  BY <1>2, <1>5
<1>7a. Len(q) + 1 \in 1 .. Len(r) /\ \A i \in 1 .. Len(q) : i \in 1 .. Len(r)
  BY <1>2, <1>5
<1>8. \A i \in 1 .. Len(r) : node'[r[i]].n = IF i \in 1 .. Len(q) THEN node[q[i]].n ELSE n
  BY <1>2, <1>4, <1>5, <1>7
<1>9. /\ \A i \in 1 .. Len(q) : node[q[i]].n \in 1 .. n /\ node[q[i]].n # n
      /\ n \in 1 .. n
  BY <1>1 DEF Listed
<1>10. Listed(r)'
  <2>1. ChainOf(r, source, node)' /\ (Len(r) <= Numbered)'
    BY <1>1, <1>2, <1>4, <1>5
  <2>2. \A i \in 1 .. Len(r) : node'[r[i]].n \in 1 .. n
    BY <1>8, <1>9
  <2>3. \A i, j \in 1 .. Len(r) : node'[r[i]].n = node'[r[j]].n => i = j
    BY <1>1, <1>7, <1>8, <1>9 DEF Listed
  <2>4. accepted' = {node'[r[i]].n : i \in 1 .. Len(r)}
    <3>1. accepted = {node[q[i]].n : i \in 1 .. Len(q)}
      BY <1>1 DEF Listed
    <3>2. ASSUME NEW x
          PROVE  x \in accepted \cup {n} <=> x \in {node'[r[i]].n : i \in 1 .. Len(r)}
      <4>1. ASSUME NEW i \in 1 .. Len(r), x = node'[r[i]].n PROVE x \in accepted \cup {n}
        BY <1>8, <3>1, <4>1
      <4>2. ASSUME NEW i \in 1 .. Len(q), x = node[q[i]].n
            PROVE  \E j \in 1 .. Len(r) : x = node'[r[j]].n
        BY <1>7a, <1>8, <4>2
      <4>3. ASSUME x = n PROVE \E j \in 1 .. Len(r) : x = node'[r[j]].n
        BY <1>4, <1>5, <1>7a, <4>3
      <4> QED
        BY <3>1, <4>1, <4>2, <4>3
    <3> QED
      BY <3>2, Zenon
  <2>5. Base'.busy = {r[i] - HdrSize : i \in 1 .. Len(r)}
    <3>1. Base.busy = {q[i] - HdrSize : i \in 1 .. Len(q)}
      BY <1>1 DEF Listed
    <3>2. ASSUME NEW x
          PROVE  x \in Base.busy \cup {a - HdrSize} <=> x \in {r[i] - HdrSize : i \in 1 .. Len(r)}
      <4>1. ASSUME NEW i \in 1 .. Len(r), x = r[i] - HdrSize
            PROVE  x \in Base.busy \cup {a - HdrSize}
        BY <1>5, <1>7, <3>1, <4>1
      <4>2. ASSUME NEW i \in 1 .. Len(q), x = q[i] - HdrSize
            PROVE  \E j \in 1 .. Len(r) : x = r[j] - HdrSize
        BY <1>5, <1>7a, <4>2
      <4>3. ASSUME x = a - HdrSize PROVE \E j \in 1 .. Len(r) : x = r[j] - HdrSize
        BY <1>5, <1>7a, <4>3
      <4> QED
        BY <3>1, <4>1, <4>2, <4>3
    <3> QED
      BY <3>2, Zenon
  <2> QED
    BY <2>1, <2>2, <2>3, <2>4, <2>5 DEF Listed
<1> QED
  BY <1>2, <1>4, <1>5, <1>6, <1>10

\* linklist_remove: the list without its head.
LEMMA ListShorter ==
  ASSUME ListInv, NEW q, q = Nodes, Len(q) # 0,
         source' = IF Len(q) = 1 THEN NULL ELSE node[q[1]].next,
         node' = node, accepted' = accepted \ {node[q[1]].n},
         Base'.busy = Base.busy \ {q[1] - HdrSize}, Numbered' = Numbered
  PROVE  Nodes' = Tail(q) /\ Listed(Nodes)'
<1>1. Listed(q) /\ Numbered \in Nat /\ MaxPosts \in Nat /\ Numbered <= MaxPosts
  BY ListAssumption DEF ListInv, ListTypes, Numbered, InPost
<1>2. /\ q \in Seq(Nat) /\ Len(q) \in Nat /\ Len(q) <= Numbered /\ 1 \in 1 .. Len(q)
      /\ \A i \in 1 .. Len(q) : q[i] \in Nat
  BY <1>1 DEF Listed, ChainOf
<1> PICK r : r = Tail(q)
  OBVIOUS
<1>3. /\ r \in Seq(Nat) /\ Len(r) = Len(q) - 1
      /\ \A i \in 1 .. Len(r) : r[i] = q[i + 1]
  BY <1>2
<1>4. /\ \A i \in 1 .. Len(r) : i + 1 \in 1 .. Len(q) /\ i + 1 # 1
      /\ \A i \in 1 .. Len(q) : i = 1 \/ (i - 1 \in 1 .. Len(r) /\ r[i - 1] = q[i])
  <2>1. \A i \in 1 .. Len(q) : i = 1 \/ (i - 1 \in 1 .. Len(r) /\ i - 1 + 1 = i)
    BY <1>2, <1>3
  <2> QED
    BY <1>2, <1>3, <2>1
<1>5. ChainOf(r, source', node')
  <2>1. source' = IF Len(r) = 0 THEN NULL ELSE r[1]
    <3>1. CASE Len(q) = 1
      BY <1>3, <3>1
    <3>2. CASE Len(q) # 1
      <4>1. 1 \in 1 .. Len(r) /\ Len(r) # 0
        BY <1>2, <1>3, <3>2
      <4>2. node[q[1]].next = q[2]
        <5>1. node[q[1]].next = IF 1 = Len(q) THEN NULL ELSE q[1 + 1]
          BY <1>1, <1>2 DEF Listed, ChainOf
        <5> QED
          BY <3>2, <5>1
      <4> QED
        BY <1>3, <3>2, <4>1, <4>2
    <3> QED
      BY <3>1, <3>2
  <2>2. ASSUME NEW i \in 1 .. Len(r)
        PROVE  r[i] \in DOMAIN node /\ node[r[i]].next = IF i = Len(r) THEN NULL ELSE r[i + 1]
    <3>1. r[i] = q[i + 1] /\ i + 1 \in 1 .. Len(q)
      BY <1>3, <1>4
    <3>2. /\ q[i + 1] \in DOMAIN node
          /\ node[q[i + 1]].next = IF i + 1 = Len(q) THEN NULL ELSE q[i + 1 + 1]
      BY <1>1, <3>1 DEF Listed, ChainOf
    <3>3. CASE i = Len(r)
      BY <1>2, <1>3, <3>1, <3>2, <3>3
    <3>4. CASE i # Len(r)
      <4>1. i + 1 \in 1 .. Len(r) /\ i + 1 # Len(q)
        <5> DEFINE n == Len(r)
                   m == Len(q)
        <5>1. m \in Nat /\ n = m - 1 /\ i \in 1 .. n /\ i # n
          BY <1>2, <1>3, <3>4
        <5> HIDE DEF n, m
        <5>2. i + 1 \in 1 .. n /\ i + 1 # m
          BY <5>1
        <5> QED
          BY <5>2 DEF n, m
      <4> QED
        BY <1>3, <3>1, <3>2, <3>4, <4>1
    <3> QED
      BY <3>3, <3>4
  <2>3. ASSUME NEW i \in 1 .. Len(r), NEW j \in 1 .. Len(r), r[i] = r[j] PROVE i = j
    <3>1. q[i + 1] = q[j + 1] /\ i + 1 \in 1 .. Len(q) /\ j + 1 \in 1 .. Len(q)
      BY <1>3, <1>4, <2>3
    <3>2. i + 1 = j + 1
      BY <1>1, <3>1 DEF Listed, ChainOf
    <3> QED
      BY <1>3, <3>2
  <2> QED
    BY <1>3, <2>1, <2>2, <2>3 DEF ChainOf
<1>6. Nodes' = r
  <2>1. Len(r) <= MaxPosts
    BY <1>1, <1>2, <1>3
  <2> QED
    BY <1>5, <2>1, NodesWillBe
<1>7. Listed(r)'
  <2>1. ChainOf(r, source, node)' /\ (Len(r) <= Numbered)'
    BY <1>1, <1>2, <1>3, <1>5
  <2>2. \A i \in 1 .. Len(r) : node'[r[i]].n \in 1 .. Numbered'
    BY <1>1, <1>3, <1>4 DEF Listed
  <2>3. ASSUME NEW i \in 1 .. Len(r), NEW j \in 1 .. Len(r), node'[r[i]].n = node'[r[j]].n
        PROVE  i = j
    <3>1. i + 1 = j + 1
      BY <1>1, <1>3, <1>4, <2>3 DEF Listed
    <3> QED
      BY <1>3, <3>1
  <2>4. accepted' = {node'[r[i]].n : i \in 1 .. Len(r)}
    <3>1. accepted = {node[q[i]].n : i \in 1 .. Len(q)}
      BY <1>1 DEF Listed
    <3>2. ASSUME NEW i \in 1 .. Len(r)
          PROVE  node'[r[i]].n = node[q[i + 1]].n /\ node[q[i + 1]].n # node[q[1]].n
                 /\ i + 1 \in 1 .. Len(q)
      BY <1>1, <1>2, <1>3, <1>4 DEF Listed
    <3>3. ASSUME NEW i \in 1 .. Len(q), i # 1
          PROVE  \E j \in 1 .. Len(r) : node[q[i]].n = node'[r[j]].n
      BY <1>4, <3>3
    <3>4. ASSUME NEW x
          PROVE  x \in accepted \ {node[q[1]].n} <=> x \in {node'[r[i]].n : i \in 1 .. Len(r)}
      <4>1. ASSUME NEW i \in 1 .. Len(r), x = node'[r[i]].n PROVE x \in accepted \ {node[q[1]].n}
        BY <3>1, <3>2, <4>1
      <4>2. ASSUME NEW i \in 1 .. Len(q), x = node[q[i]].n, x # node[q[1]].n
            PROVE  \E j \in 1 .. Len(r) : x = node'[r[j]].n
        BY <3>3, <4>2
      <4> QED
        BY <3>1, <4>1, <4>2
    <3> QED
      BY <3>4, Zenon
  <2>5. Base'.busy = {r[i] - HdrSize : i \in 1 .. Len(r)}
    <3>1. Base.busy = {q[i] - HdrSize : i \in 1 .. Len(q)}
      BY <1>1 DEF Listed
    <3>2. ASSUME NEW i \in 1 .. Len(r)
          PROVE  r[i] = q[i + 1] /\ q[i + 1] - HdrSize # q[1] - HdrSize /\ i + 1 \in 1 .. Len(q)
      <4>1. r[i] = q[i + 1] /\ q[i + 1] # q[1] /\ i + 1 \in 1 .. Len(q)
        BY <1>1, <1>2, <1>3, <1>4 DEF Listed, ChainOf
      <4> QED
        BY <1>2, <4>1 DEF HdrSize
    <3>4. ASSUME NEW x
          PROVE  x \in Base.busy \ {q[1] - HdrSize} <=> x \in {r[i] - HdrSize : i \in 1 .. Len(r)}
      <4>1. ASSUME NEW i \in 1 .. Len(r), x = r[i] - HdrSize
            PROVE  x \in Base.busy \ {q[1] - HdrSize}
        BY <3>1, <3>2, <4>1
      <4>2. ASSUME NEW i \in 1 .. Len(q), x = q[i] - HdrSize, x # q[1] - HdrSize
            PROVE  \E j \in 1 .. Len(r) : x = r[j] - HdrSize
        BY <1>4, <4>2
      <4> QED
        BY <3>1, <4>1, <4>2
    <3> QED
      BY <3>4, Zenon
  <2> QED
    BY <2>1, <2>2, <2>3, <2>4, <2>5 DEF Listed
<1> QED
  BY <1>6, <1>7

-----------------------------------------------------------------------------
(***************************************************************************)
(* The steps.                                                              *)
(***************************************************************************)

\* The facts about the list that the steps use.
LEMMA ListFacts ==
  ASSUME ListInv, NEW q, q = Nodes
  PROVE  /\ Listed(q) /\ Standing(q) /\ Sound(Base)
         /\ q \in Seq(Nat) /\ Len(q) \in Nat /\ Len(q) <= MaxPosts
         /\ \A i \in 1 .. Len(q) : q[i] \in Nat /\ q[i] # NULL
         /\ \A i \in 1 .. Len(q) : node[q[i]].next = IF i = Len(q) THEN NULL ELSE q[i + 1]
         /\ source = (IF Len(q) = 0 THEN NULL ELSE q[1])
         /\ Len(q) # 0 => 1 \in 1 .. Len(q) /\ Len(q) \in 1 .. Len(q)
         /\ Numbered \in Nat /\ Numbered <= MaxPosts /\ MaxPosts \in Nat
         /\ posts \in Nat /\ posts <= MaxPosts
         /\ OnList = {q[i] : i \in 1 .. Len(q)} /\ Length = Len(q)
         /\ \A k \in 1 .. Len(q) : At[k - 1] = q[k]
<1>1. /\ Listed(q) /\ Standing(q) /\ Sound(Base)
      /\ Numbered \in Nat /\ Numbered <= MaxPosts /\ MaxPosts \in Nat
      /\ posts \in Nat /\ posts <= MaxPosts
  BY ListAssumption DEF ListInv, ListTypes, PoolBehind, Numbered, InPost
<1>2. ChainOf(q, source, node) /\ Len(q) <= Numbered
  BY <1>1 DEF Listed
<1>3. q \in Seq(Nat) /\ Len(q) \in Nat
  BY <1>2 DEF ChainOf
<1>4. Len(q) <= MaxPosts
  BY <1>1, <1>2, <1>3
<1>5. \A i \in 1 .. Len(q) : q[i] \in Nat /\ q[i] # NULL
  BY <1>3 DEF NULL, NoBlock
<1>6. Len(q) # 0 => 1 \in 1 .. Len(q) /\ Len(q) \in 1 .. Len(q)
  BY <1>3
<1> QED
  BY <1>1, <1>2, <1>3, <1>4, <1>5, <1>6, NodesAre DEF ChainOf

\* The call of linklist_new, and its walk.
LEMMA WalkStep ==
  ASSUME ListInv, StartPost \/ Walk
  PROVE  ListInv'
<1> PICK q : q = Nodes
  OBVIOUS
<1>0. /\ Listed(q) /\ Standing(q) /\ Sound(Base) /\ Len(q) \in Nat
      /\ source = (IF Len(q) = 0 THEN NULL ELSE q[1])
      /\ \A i \in 1 .. Len(q) : q[i] # NULL
      /\ \A i \in 1 .. Len(q) : node[q[i]].next = IF i = Len(q) THEN NULL ELSE q[i + 1]
      /\ Len(q) # 0 => 1 \in 1 .. Len(q)
      /\ Numbered \in Nat /\ posts \in Nat /\ MaxPosts \in Nat
  BY ListFacts
<1>1. /\ UNCHANGED <<heap, source, node, accepted, proc>> /\ ~Making /\ ~Making'
      /\ Numbered' = Numbered /\ ListTypes'
  <2>1. CASE StartPost
    BY <1>0, <2>1 DEF StartPost, Making, Numbered, InPost, ListInv, ListTypes
  <2>2. CASE Walk
    BY <1>0, <2>2 DEF Walk, Making, Numbered, InPost, ListInv, ListTypes
  <2> QED
    BY <2>1, <2>2
<1>2. Base' = Base
  BY <1>1 DEF Base
<1>3. Nodes' = q /\ Listed(Nodes)'
  BY <1>0, <1>1, <1>2, ListUntouched
<1>4. PoolBehind'
  BY <1>0, <1>1, <1>2 DEF PoolBehind
<1>5. Standing(q)'
  <2>1. CASE StartPost
    BY <1>0, <2>1 DEF StartPost, Standing
  <2>2. CASE Walk /\ (last_tmp = NULL \/ node[last_tmp].next = NULL)
    <3>1. pc = "walk" /\ pc' = "malloc" /\ UNCHANGED <<last_tmp, proc>>
      BY <2>2 DEF Walk
    <3>2. CASE Len(q) = 0
      BY <1>0, <3>1, <3>2 DEF Standing
    <3>3. CASE Len(q) # 0
      <4>1. PICK i \in 1 .. Len(q) : last_tmp = q[i]
        BY <1>0, <3>1, <3>3 DEF Standing
      <4>2. node[q[i]].next = NULL
        BY <1>0, <2>2, <4>1
      <4>3. i = Len(q)
        <5>1. i # Len(q) => i + 1 \in 1 .. Len(q)
          BY <1>0
        <5> QED
          BY <1>0, <4>2, <5>1
      <4> QED
        BY <1>0, <3>1, <3>3, <4>1, <4>3 DEF Standing
    <3> QED
      BY <3>2, <3>3
  <2>3. CASE Walk /\ ~(last_tmp = NULL \/ node[last_tmp].next = NULL)
    <3>1. pc = "walk" /\ pc' = pc /\ UNCHANGED proc /\ last_tmp' = node[last_tmp].next
      BY <2>3 DEF Walk
    <3>2. Len(q) # 0
      BY <1>0, <2>3, <3>1 DEF Standing
    <3>3. PICK i \in 1 .. Len(q) : last_tmp = q[i]
      BY <1>0, <3>1, <3>2 DEF Standing
    <3>4. i # Len(q) /\ last_tmp' = q[i + 1] /\ i + 1 \in 1 .. Len(q)
      BY <1>0, <2>3, <3>1, <3>3
    <3> QED
      BY <1>0, <3>1, <3>2, <3>4 DEF Standing
  <2> QED
    BY <2>1, <2>2, <2>3
<1> QED
  BY <1>1, <1>3, <1>4, <1>5 DEF ListInv

\* The event core takes the head of the list to its handler, and
\* linklist_remove looks for a successor of it.
LEMMA TakeStep ==
  ASSUME ListInv, CallHandler \/ StartRemove
  PROVE  ListInv'
<1> PICK q : q = Nodes
  OBVIOUS
<1>0. /\ Listed(q) /\ Standing(q) /\ Sound(Base) /\ Len(q) \in Nat
      /\ source = (IF Len(q) = 0 THEN NULL ELSE q[1])
      /\ \A i \in 1 .. Len(q) : q[i] # NULL
      /\ \A i \in 1 .. Len(q) : node[q[i]].next = IF i = Len(q) THEN NULL ELSE q[i + 1]
      /\ Len(q) # 0 => 1 \in 1 .. Len(q)
      /\ Numbered \in Nat /\ posts \in Nat /\ MaxPosts \in Nat
  BY ListFacts
<1>1. /\ UNCHANGED <<heap, source, node, accepted>> /\ ~Making /\ ~Making'
      /\ Numbered' = Numbered /\ ListTypes'
  <2>1. CASE CallHandler
    BY <1>0, <2>1 DEF CallHandler, Making, Numbered, InPost, ListInv, ListTypes
  <2>2. CASE StartRemove
    BY <1>0, <2>2 DEF StartRemove, Making, Numbered, InPost, ListInv, ListTypes
  <2> QED
    BY <2>1, <2>2
<1>2. Base' = Base
  BY <1>1 DEF Base
<1>3. Nodes' = q /\ Listed(Nodes)'
  BY <1>0, <1>1, <1>2, ListUntouched
<1>4. PoolBehind'
  BY <1>0, <1>1, <1>2 DEF PoolBehind
<1>5. Standing(q)'
  <2>1. CASE CallHandler
    BY <1>0, <2>1 DEF CallHandler, Standing
  <2>2. CASE StartRemove
    <3>1. Len(q) # 0 /\ proc = q[1] /\ proc' = proc /\ proc # NULL
      BY <1>0, <2>2 DEF StartRemove, Standing
    <3>2. node[proc].next # NULL <=> Len(q) > 1
      <4>1. Len(q) > 1 => 1 + 1 \in 1 .. Len(q) /\ 1 # Len(q)
        BY <1>0
      <4>2. node[q[1]].next = IF 1 = Len(q) THEN NULL ELSE q[1 + 1]
        BY <1>0, <3>1
      <4> QED
        BY <1>0, <3>1, <4>1, <4>2
    <3>3. pc' = IF Len(q) > 1 THEN "advance" ELSE "empty"
      BY <2>2, <3>2 DEF StartRemove
    <3> QED
      BY <3>1, <3>3 DEF Standing
  <2> QED
    BY <2>1, <2>2
<1> QED
  BY <1>1, <1>3, <1>4, <1>5 DEF ListInv

\* The first half of bmalloc's fast path, and the move of the high-water mark:
\* the pool behind them stays.
LEMMA MakeStep ==
  ASSUME ListInv, Grow \/ (StartMalloc /\ RoomOnTop(heap, NodeLen))
  PROVE  ListInv'
<1> PICK q : q = Nodes
  OBVIOUS
<1>0. /\ Listed(q) /\ Standing(q) /\ Sound(Base)
      /\ Numbered \in Nat /\ posts \in Nat /\ MaxPosts \in Nat
  BY ListFacts
<1>1. /\ UNCHANGED <<source, node, accepted, proc, last_tmp>> /\ Making'
      /\ Numbered' = Numbered /\ ListTypes' /\ pc \in {"malloc", "grow"}
  <2>1. CASE Grow
    BY <1>0, <2>1 DEF Grow, Making, Numbered, InPost, ListInv, ListTypes
  <2>2. CASE StartMalloc /\ RoomOnTop(heap, NodeLen)
    BY <1>0, <2>2 DEF StartMalloc, Making, Numbered, InPost, ListInv, ListTypes
  <2> QED
    BY <2>1, <2>2
<1>2. /\ Base' = Base /\ RoomOnTop(Base, NodeLen)
      /\ heap' = With(Base, Base.next, Base.busy \cup {head_p'},
                      IF pc' = "grow" THEN head_p' ELSE head_p' + NodeLen + HdrSize)
  <2>1. CASE Grow
    <3>1. /\ pc = "grow" /\ pc' = "link" /\ head_p' = head_p
          /\ heap' = [heap EXCEPT !.last = @ + NodeLen + HdrSize]
      BY <2>1 DEF Grow
    <3>2. /\ heap = With(Base, Base.next, Base.busy \cup {head_p}, head_p)
          /\ Base = With(heap, heap.next, heap.busy \ {head_p}, head_p)
          /\ RoomOnTop(Base, NodeLen)
      BY <3>1 DEF ListInv, PoolBehind, Making, Base
    <3>3. heap' = With(Base, Base.next, Base.busy \cup {head_p}, head_p + NodeLen + HdrSize)
      BY <3>1, <3>2 DEF With
    <3>4. Base' = With(heap', heap'.next, heap'.busy \ {head_p}, head_p)
      BY <3>1 DEF Base, Making
    <3>5. Base' = Base
      BY <3>2, <3>3, <3>4 DEF With
    <3> QED
      BY <3>1, <3>2, <3>3, <3>5
  <2>2. CASE StartMalloc /\ RoomOnTop(heap, NodeLen)
    <3>1. /\ pc = "malloc" /\ pc' = "grow" /\ head_p' = heap.last
          /\ heap' = [heap EXCEPT !.busy = @ \cup {heap.last}]
      BY <2>2 DEF StartMalloc
    <3>2. Base = heap /\ heap.last \notin heap.busy
      <4>1. Base = heap
        BY <3>1 DEF Base, Making
      <4> QED
        BY <1>0, <4>1 DEF Sound, HeapType, Tiled
    <3>3. heap = [active |-> heap.active, next |-> heap.next, busy |-> heap.busy,
                  last |-> heap.last, top |-> heap.top]
      BY <1>0, <3>2 DEF Sound, HeapType
    <3>4. heap' = With(heap, heap.next, heap.busy \cup {head_p'}, head_p')
      BY <3>1, <3>3 DEF With
    <3>5. Base' = With(heap', heap'.next, heap'.busy \ {head_p'}, head_p')
      BY <3>1 DEF Base, Making
    <3>6. Base' = heap
      BY <3>1, <3>2, <3>3, <3>4, <3>5 DEF With
    <3> QED
      BY <2>2, <3>1, <3>2, <3>4, <3>6
  <2> QED
    BY <2>1, <2>2
<1>3. Nodes' = q /\ Listed(Nodes)'
  BY <1>0, <1>1, <1>2, ListUntouched
<1>4. PoolBehind'
  BY <1>0, <1>1, <1>2 DEF PoolBehind
<1>5. Standing(q)'
  <2>1. pc' \in {"grow", "link"}
    BY <1>1 DEF Making
  <2> QED
    BY <1>0, <1>1, <2>1 DEF Standing
<1> QED
  BY <1>1, <1>3, <1>4, <1>5 DEF ListInv

\* The events on the list, and what a step may do to them.
Queued     == [k \in 1 .. Length |-> node[At[k - 1]].n]
QueueMoves ==
  \/ UNCHANGED Queued
  \/ Queued # <<>> /\ Queued' = Tail(Queued)
  \/ \E e \in 1 .. MaxPosts : Queued' = Append(Queued, e)

\* The events are read off the nodes.
LEMMA QueuedIs ==
  ASSUME ListInv, NEW q, q = Nodes
  PROVE  /\ Queued \in Seq(Nat) /\ Len(Queued) = Len(q)
         /\ \A i \in 1 .. Len(q) : Queued[i] = node[q[i]].n /\ node[q[i]].n \in Nat
<1>1. /\ Length = Len(q) /\ \A k \in 1 .. Len(q) : At[k - 1] = q[k]
      /\ Listed(q) /\ Numbered \in Nat /\ Len(q) \in Nat
  BY ListFacts
<1>2. \A i \in 1 .. Len(q) : node[q[i]].n \in Nat
  BY <1>1 DEF Listed
<1>3. Queued = [k \in 1 .. Len(q) |-> node[q[k]].n]
  BY <1>1 DEF Queued
<1> QED
  BY <1>1, <1>2, <1>3

\* The same after a step.
LEMMA QueuedWillBe ==
  ASSUME ListInv', NEW q, q = Nodes'
  PROVE  /\ Queued' \in Seq(Nat) /\ Len(Queued') = Len(q)
         /\ \A i \in 1 .. Len(q) : Queued'[i] = node'[q[i]].n
<1>1. Listed(q)' /\ Numbered' \in Nat /\ Numbered' <= MaxPosts /\ MaxPosts \in Nat
  BY ListAssumption DEF ListInv, ListTypes, Numbered, InPost
<1>2. ChainOf(q, source', node') /\ Len(q) <= Numbered' /\ Len(q) \in Nat
  BY <1>1 DEF Listed, ChainOf
<1>3. Len(q) <= MaxPosts
  BY <1>1, <1>2
<1>4. Length' = Len(q) /\ \A k \in 1 .. Len(q) : At'[k - 1] = q[k]
  BY <1>2, <1>3, NodesWillBe
<1>5. \A i \in 1 .. Len(q) : node'[q[i]].n \in Nat
  BY <1>1 DEF Listed
<1>6. Queued' = [k \in 1 .. Len(q) |-> node'[q[k]].n]
  BY <1>4 DEF Queued
<1> QED
  BY <1>2, <1>5, <1>6

\* What is left to show of a post that has linked its node.
LEMMA PostAccepted ==
  ASSUME ListInv, NEW q, q = Nodes, NEW a \in Nat, a - HdrSize \notin Base.busy,
         NEW n, n = posts', Numbered < n, n \in 0 .. MaxPosts,
         node' = Linked(IF Len(q) = 0 THEN NULL ELSE q[Len(q)], a, n),
         source' = NewSource(IF Len(q) = 0 THEN NULL ELSE q[Len(q)], a),
         accepted' = accepted \cup {n}, pc' = "run", UNCHANGED proc,
         Sound(heap'), heap'.busy = Base.busy \cup {a - HdrSize}
  PROVE  ListInv' /\ QueueMoves
<1>0. /\ Standing(q) /\ Len(q) \in Nat /\ Numbered \in Nat
  BY ListFacts
<1>1. /\ Base' = heap' /\ Numbered' = n /\ ~Making' /\ ~InPost' /\ n \in Nat /\ n <= MaxPosts
  BY ListAssumption DEF Base, Making, Numbered, InPost
<1>2. /\ Nodes' = Append(q, a) /\ Listed(Nodes)' /\ Typed(node')
      /\ Len(Append(q, a)) = Len(q) + 1
      /\ Len(q) # 0 => Append(q, a)[1] = q[1]
      /\ node'[a].n = n /\ \A i \in 1 .. Len(q) : node'[q[i]].n = node[q[i]].n
  BY <1>1, ListLonger
<1> PICK r : r = Append(q, a)
  OBVIOUS
<1>3. Standing(r)'
  <2>1. proc' # NULL => Len(r) # 0 /\ proc' = r[1]
    BY <1>0, <1>2 DEF Standing
  <2> QED
    BY <2>1 DEF Standing
<1>4. ListTypes' /\ PoolBehind'
  BY <1>1, <1>2 DEF ListTypes, PoolBehind, Typed
<1>5. ListInv'
  BY <1>2, <1>3, <1>4 DEF ListInv
<1>6. QueueMoves
  <2>1. /\ r \in Seq(Nat) /\ Len(r) = Len(q) + 1 /\ r[Len(q) + 1] = a
        /\ \A i \in 1 .. Len(q) : r[i] = q[i]
    BY ListFacts
  <2>2. /\ Queued \in Seq(Nat) /\ Len(Queued) = Len(q)
        /\ \A i \in 1 .. Len(q) : Queued[i] = node[q[i]].n
    BY QueuedIs
  <2>3. /\ Queued' \in Seq(Nat) /\ Len(Queued') = Len(r)
        /\ \A i \in 1 .. Len(r) : Queued'[i] = node'[r[i]].n
    BY <1>2, <1>5, QueuedWillBe
  <2>4. /\ Append(Queued, n) \in Seq(Nat) /\ Len(Append(Queued, n)) = Len(r)
        /\ \A i \in 1 .. Len(q) : Append(Queued, n)[i] = node[q[i]].n
        /\ Append(Queued, n)[Len(q) + 1] = n
    BY <1>0, <1>1, <2>1, <2>2
  <2>5. ASSUME NEW i \in 1 .. Len(r) PROVE Queued'[i] = Append(Queued, n)[i]
    <3>1. i \in 1 .. Len(q) \/ i = Len(q) + 1
      BY <1>0, <2>1
    <3>2. CASE i = Len(q) + 1
      <4>1. Queued'[i] = node'[r[i]].n
        BY <2>3
      <4>2. r[i] = a /\ node'[a].n = n
        BY <1>2, <2>1, <3>2
      <4>3. Append(Queued, n)[i] = n
        BY <2>4, <3>2
      <4> QED
        BY <4>1, <4>2, <4>3
    <3>3. CASE i \in 1 .. Len(q)
      <4>1. Queued'[i] = node'[r[i]].n
        BY <2>3
      <4>2. r[i] = q[i] /\ node'[q[i]].n = node[q[i]].n
        BY <1>2, <2>1, <3>3
      <4>3. Append(Queued, n)[i] = node[q[i]].n
        BY <2>4, <3>3
      <4> QED
        BY <4>1, <4>2, <4>3
    <3> QED
      BY <3>1, <3>2, <3>3
  <2>6. Queued' = Append(Queued, n)
    BY <2>3, <2>4, <2>5, SeqEqual
  <2>7. n \in 1 .. MaxPosts
    BY <1>0, <1>1
  <2> QED
    BY <2>6, <2>7 DEF QueueMoves
<1> QED
  BY <1>5, <1>6

\* The queue depends on the nodes and the head of the list only.
LEMMA QueueStays ==
  ASSUME UNCHANGED <<source, node>>
  PROVE  UNCHANGED Queued
BY DEF Queued, Length, At

\* A post that is refused leaves the list as it was.
LEMMA PostRefused ==
  ASSUME ListInv, heap' = Base, UNCHANGED <<source, node, accepted, proc>>, pc' = "run",
         posts' \in 0 .. MaxPosts, posts <= posts'
  PROVE  ListInv' /\ UNCHANGED Queued
<1> PICK q : q = Nodes
  OBVIOUS
<1>0. /\ Standing(q) /\ Sound(Base) /\ Numbered \in Nat /\ posts \in Nat /\ MaxPosts \in Nat
  BY ListFacts
<1>1. /\ Base' = Base /\ Numbered' = posts' /\ ~Making' /\ ~InPost' /\ Numbered <= posts'
      /\ posts' \in Nat
  BY <1>0 DEF Base, Making, Numbered, InPost
<1>2. Nodes' = q /\ Listed(Nodes)'
  BY <1>1, ListUntouched
<1>3. Standing(q)'
  BY <1>0 DEF Standing
<1>4. ListTypes' /\ PoolBehind'
  BY <1>0, <1>1 DEF ListTypes, PoolBehind, ListInv
<1> QED
  BY <1>2, <1>3, <1>4, QueueStays DEF ListInv

\* The second half of bmalloc's fast path completes a block on top of the pool,
\* and linklist_new links it.
LEMMA FinishStep ==
  ASSUME ListInv, FinishPost
  PROVE  ListInv' /\ QueueMoves
<1> PICK q : q = Nodes
  OBVIOUS
<1>0. /\ Standing(q) /\ Sound(Base) /\ Numbered \in Nat /\ posts \in Nat /\ MaxPosts \in Nat
      /\ posts <= MaxPosts
  BY ListFacts
<1>1. /\ pc = "link" /\ Making /\ InPost
  BY DEF FinishPost, Making, InPost
<1>2. /\ RoomOnTop(Base, NodeLen) /\ Base.last = head_p
      /\ heap = With(Base, Base.next, Base.busy \cup {head_p}, head_p + NodeLen + HdrSize)
      /\ mine = posts /\ Numbered = posts - 1
  BY <1>1 DEF ListInv, PoolBehind, ListTypes, Base, With, Numbered
<1>3. Base.active /\ Base.last \in Nat /\ Base.last \notin Base.busy
  BY <1>0, <1>2 DEF Sound, HeapType, Tiled, RoomOnTop, NodeLen, HdrSize
<1>4. /\ Sound(OnTop(Base, NodeLen)) /\ OnTop(Base, NodeLen).busy = Base.busy \cup {Base.last}
  <2>1. NodeLen \in Nat /\ NodeLen % 4 = 0
    BY DEF NodeLen
  <2> QED
    BY <1>0, <1>2, <1>3, <2>1, OnTopSound
<1>5. heap' = OnTop(Base, NodeLen)
  <2>1. heap' = [heap EXCEPT !.next =
                [a \in DOMAIN @ \cup {head_p} |-> IF a = head_p THEN heap.last ELSE @[a]]]
    BY DEF FinishPost
  <2>2. heap.next = Base.next /\ heap.last = head_p + NodeLen + HdrSize
    BY <1>2 DEF With
  <2> QED
    BY <1>2, <2>1, <2>2 DEF With, OnTop, Heads
<1> PICK a : a = head_p + HdrSize
  OBVIOUS
<1>6. /\ a \in Nat /\ a - HdrSize = head_p /\ heap.last - NodeLen = a
  BY <1>2, <1>3 DEF With, NodeLen, HdrSize
<1>7. /\ node' = Linked(last_tmp, a, posts) /\ source' = NewSource(last_tmp, a)
      /\ accepted' = accepted \cup {posts} /\ pc' = "run" /\ UNCHANGED <<posts, proc>>
  BY <1>2, <1>6 DEF FinishPost, Link
<1>8. last_tmp = IF Len(q) = 0 THEN NULL ELSE q[Len(q)]
  BY <1>0, <1>1 DEF Standing
<1> QED
  BY <1>0, <1>2, <1>3, <1>4, <1>5, <1>6, <1>7, <1>8, PostAccepted

\* bmalloc's slow path: a hole is reused, or the post is refused.
LEMMA SlowStep ==
  ASSUME ListInv, StartMalloc, ~RoomOnTop(heap, NodeLen)
  PROVE  ListInv' /\ QueueMoves
<1> PICK q : q = Nodes
  OBVIOUS
<1>0. /\ Standing(q) /\ Sound(Base) /\ Numbered \in Nat /\ posts \in Nat /\ MaxPosts \in Nat
      /\ posts <= MaxPosts
  BY ListFacts
<1>1. pc = "malloc" /\ Base = heap /\ mine = posts /\ Numbered = posts - 1
  BY DEF StartMalloc, Base, Making, ListInv, ListTypes, InPost, Numbered
<1>2. PICK r \in Malloc(heap, NodeLen) :
        /\ heap' = r.heap
        /\ IF r.ptr # NoBlock THEN Link(r.ptr, mine)
           ELSE /\ pc' = "run" /\ last_tmp' = NULL /\ mine' = 0
                /\ UNCHANGED <<source, node, head_p, accepted>>
  BY DEF StartMalloc
<1>3. UNCHANGED <<posts, proc>>
  BY DEF StartMalloc
<1>4. /\ Sound(r.heap)
      /\ \/ r.ptr = NoBlock /\ r.heap = heap
         \/ /\ r.ptr \in Nat /\ r.ptr - HdrSize \notin heap.busy
            /\ r.heap.busy = heap.busy \cup {r.ptr - HdrSize}
  <2>1. NodeLen \in Nat
    BY DEF NodeLen
  <2> QED
    BY <1>0, <1>1, <2>1, MallocSound
<1>5. CASE r.ptr = NoBlock
  <2>1. heap' = Base
    BY <1>1, <1>2, <1>4, <1>5 DEF NoBlock
  <2>2. pc' = "run" /\ UNCHANGED <<source, node, accepted, proc>>
    BY <1>2, <1>3, <1>5
  <2>3. posts' \in 0 .. MaxPosts /\ posts <= posts'
    BY <1>0, <1>1, <1>3
  <2> QED
    BY <2>1, <2>2, <2>3, PostRefused DEF QueueMoves
<1>6. CASE r.ptr # NoBlock
  <2>1. /\ r.ptr \in Nat /\ r.ptr - HdrSize \notin Base.busy
        /\ Sound(heap') /\ heap'.busy = Base.busy \cup {r.ptr - HdrSize}
    BY <1>1, <1>2, <1>4, <1>6
  <2>2. /\ node' = Linked(last_tmp, r.ptr, posts) /\ source' = NewSource(last_tmp, r.ptr)
        /\ accepted' = accepted \cup {posts} /\ pc' = "run"
    BY <1>1, <1>2, <1>6 DEF Link
  <2>3. last_tmp = IF Len(q) = 0 THEN NULL ELSE q[Len(q)]
    BY <1>0, <1>1 DEF Standing
  <2>4. Numbered < posts /\ posts \in 0 .. MaxPosts
    BY <1>0, <1>1
  <2> QED
    BY <1>3, <2>1, <2>2, <2>3, <2>4, PostAccepted
<1> QED
  BY <1>5, <1>6

\* linklist_new's walk in one go ends where the other does.
LEMMA TailIsLast ==
  ASSUME ListInv, NEW q, q = Nodes
  PROVE  TailNode = IF Len(q) = 0 THEN NULL ELSE q[Len(q)]
<1>1. /\ Length = Len(q) /\ \A k \in 1 .. Len(q) : At[k - 1] = q[k]
      /\ Len(q) # 0 => Len(q) \in 1 .. Len(q)
  BY ListFacts
<1> QED
  BY <1>1 DEF TailNode

\* A post from the system work queue, between two calls.
LEMMA WorkQueueStep ==
  ASSUME ListInv, WorkQueuePosts
  PROVE  ListInv' /\ QueueMoves
<1> PICK q : q = Nodes
  OBVIOUS
<1>0. /\ Standing(q) /\ Sound(Base) /\ Numbered \in Nat /\ posts \in Nat /\ MaxPosts \in Nat
  BY ListFacts
<1>1. /\ pc = "run" /\ pc' = "run" /\ UNCHANGED <<proc, last_tmp>> /\ posts' = posts + 1
      /\ posts < MaxPosts
  BY DEF WorkQueuePosts, ListInv
<1>2. Base = heap /\ Numbered = posts /\ Numbered < posts' /\ posts' \in 0 .. MaxPosts
  BY <1>0, <1>1 DEF Base, Making, Numbered, InPost
<1>3. PICK r \in Malloc(heap, NodeLen) :
       /\ heap' = r.heap
       /\ IF r.ptr = NoBlock THEN UNCHANGED <<source, node, accepted>>
          ELSE /\ node' = Linked(TailNode, r.ptr, posts + 1)
               /\ source' = NewSource(TailNode, r.ptr)
               /\ accepted' = accepted \cup {posts + 1}
  BY DEF WorkQueuePosts
<1>4. /\ Sound(r.heap)
      /\ \/ r.ptr = NoBlock /\ r.heap = heap
         \/ /\ r.ptr \in Nat /\ r.ptr - HdrSize \notin heap.busy
            /\ r.heap.busy = heap.busy \cup {r.ptr - HdrSize}
  <2>1. NodeLen \in Nat
    BY DEF NodeLen
  <2> QED
    BY <1>0, <1>2, <2>1, MallocSound
<1>5. CASE r.ptr = NoBlock
  <2>1. heap' = Base /\ UNCHANGED <<source, node, accepted>>
    BY <1>2, <1>3, <1>4, <1>5 DEF NoBlock
  <2>2. posts <= posts'
    BY <1>0, <1>1
  <2> QED
    BY <1>1, <1>2, <2>1, <2>2, PostRefused DEF QueueMoves
<1>6. CASE r.ptr # NoBlock
  <2>1. /\ r.ptr \in Nat /\ r.ptr - HdrSize \notin Base.busy
        /\ Sound(heap') /\ heap'.busy = Base.busy \cup {r.ptr - HdrSize}
    BY <1>2, <1>3, <1>4, <1>6
  <2>2. /\ node' = Linked(TailNode, r.ptr, posts') /\ source' = NewSource(TailNode, r.ptr)
        /\ accepted' = accepted \cup {posts'}
    BY <1>1, <1>3, <1>6
  <2>3. TailNode = IF Len(q) = 0 THEN NULL ELSE q[Len(q)]
    BY TailIsLast
  <2> QED
    BY <1>1, <1>2, <2>1, <2>2, <2>3, PostAccepted
<1> QED
  BY <1>5, <1>6

\* linklist_remove takes the head off, and bfree its block.
LEMMA RemoveStep ==
  ASSUME ListInv, FinishRemove
  PROVE  ListInv' /\ QueueMoves
<1> PICK q : q = Nodes
  OBVIOUS
<1>0. /\ Listed(q) /\ Standing(q) /\ Sound(Base) /\ Numbered \in Nat /\ posts \in Nat
      /\ Len(q) \in Nat /\ \A i \in 1 .. Len(q) : q[i] \in Nat
      /\ Len(q) # 0 => 1 \in 1 .. Len(q)
  BY ListFacts
<1>1. /\ pc \in {"advance", "empty"} /\ pc' = "run" /\ UNCHANGED <<node, posts>> /\ proc' = NULL
      /\ source' = (IF pc = "advance" THEN node[proc].next ELSE NULL)
      /\ heap' = Free(heap, proc) /\ accepted' = accepted \ {node[proc].n}
  BY DEF FinishRemove, Released
<1>2. Len(q) # 0 /\ proc = q[1] /\ q[1] \in Nat /\ (pc = "advance" <=> Len(q) > 1)
  BY <1>0, <1>1 DEF Standing
<1>3. Base = heap /\ Base' = heap' /\ Numbered = posts /\ Numbered' = Numbered /\ ~Making'
  BY <1>1 DEF Base, Making, Numbered, InPost
<1>4. q[1] - HdrSize \in heap.busy /\ heap.active
  <2>1. q[1] - HdrSize \in heap.busy
    BY <1>0, <1>2, <1>3 DEF Listed
  <2> QED
    BY <1>0, <1>3, <2>1 DEF Sound, HeapType, Tiled
<1>5. Sound(heap') /\ heap'.busy = heap.busy \ {q[1] - HdrSize}
  BY <1>0, <1>1, <1>2, <1>3, <1>4, FreeSound
<1>6. source' = IF Len(q) = 1 THEN NULL ELSE node[q[1]].next
  <2>1. CASE Len(q) = 1
    <3>1. pc # "advance"
      BY <1>2, <2>1
    <3> QED
      BY <1>1, <2>1, <3>1
  <2>2. CASE Len(q) # 1
    <3>1. Len(q) > 1
      BY <1>0, <1>2, <2>2
    <3> QED
      BY <1>1, <1>2, <2>2, <3>1
  <2> QED
    BY <2>1, <2>2
<1>7. Nodes' = Tail(q) /\ Listed(Nodes)'
  BY <1>1, <1>2, <1>3, <1>5, <1>6, ListShorter
<1>8. Standing(Nodes)'
  BY <1>1 DEF Standing
<1>9. ListTypes' /\ PoolBehind'
  BY <1>1, <1>3, <1>5 DEF ListTypes, PoolBehind, ListInv, InPost
<1>10. ListInv'
  BY <1>7, <1>8, <1>9 DEF ListInv
<1>11. Queued # <<>> /\ Queued' = Tail(Queued)
  <2> PICK r : r = Tail(q)
    OBVIOUS
  <2>1. /\ r \in Seq(Nat) /\ Len(r) = Len(q) - 1
        /\ \A i \in 1 .. Len(r) : r[i] = q[i + 1] /\ i + 1 \in 1 .. Len(q)
    <3>1. q \in Seq(Nat)
      BY ListFacts
    <3> QED
      BY <1>2, <3>1
  <2>2. /\ Queued \in Seq(Nat) /\ Len(Queued) = Len(q)
        /\ \A i \in 1 .. Len(q) : Queued[i] = node[q[i]].n
    BY QueuedIs
  <2>3. /\ Queued' \in Seq(Nat) /\ Len(Queued') = Len(r)
        /\ \A i \in 1 .. Len(r) : Queued'[i] = node'[r[i]].n
    BY <1>7, <1>10, QueuedWillBe
  <2>4. /\ Queued # <<>> /\ Tail(Queued) \in Seq(Nat) /\ Len(Tail(Queued)) = Len(r)
        /\ \A i \in 1 .. Len(r) : Tail(Queued)[i] = Queued[i + 1]
    BY <1>2, <2>1, <2>2
  <2>5. ASSUME NEW i \in 1 .. Len(r) PROVE Queued'[i] = Tail(Queued)[i]
    <3>1. Queued'[i] = node'[r[i]].n
      BY <2>3
    <3>2. r[i] = q[i + 1] /\ i + 1 \in 1 .. Len(q) /\ node' = node
      BY <1>1, <2>1
    <3>3. Queued[i + 1] = node[q[i + 1]].n
      BY <2>2, <3>2
    <3>4. Tail(Queued)[i] = Queued[i + 1]
      BY <2>4
    <3> QED
      BY <3>1, <3>2, <3>3, <3>4
  <2> QED
    BY <2>3, <2>4, <2>5, SeqEqual
<1> QED
  BY <1>10, <1>11 DEF QueueMoves

\* Every step keeps the list, the pool and the runtime thread in agreement, and
\* moves the queue as a queue may move.
LEMMA ListStep == ListInv /\ [ListNext]_listVars => ListInv' /\ QueueMoves
<1> SUFFICES ASSUME ListInv, [ListNext]_listVars PROVE ListInv' /\ QueueMoves
  OBVIOUS
<1>1. CASE StartPost \/ Walk
  <2>1. UNCHANGED <<source, node>>
    BY <1>1 DEF StartPost, Walk
  <2> QED
    BY <1>1, <2>1, WalkStep, QueueStays DEF QueueMoves
<1>2. CASE Grow \/ (StartMalloc /\ RoomOnTop(heap, NodeLen))
  <2>1. UNCHANGED <<source, node>>
    BY <1>2 DEF Grow, StartMalloc
  <2> QED
    BY <1>2, <2>1, MakeStep, QueueStays DEF QueueMoves
<1>3. CASE StartMalloc /\ ~RoomOnTop(heap, NodeLen)
  BY <1>3, SlowStep
<1>4. CASE FinishPost
  BY <1>4, FinishStep
<1>5. CASE CallHandler \/ StartRemove
  <2>1. UNCHANGED <<source, node>>
    BY <1>5 DEF CallHandler, StartRemove
  <2> QED
    BY <1>5, <2>1, TakeStep, QueueStays DEF QueueMoves
<1>6. CASE FinishRemove
  BY <1>6, RemoveStep
<1>7. CASE WorkQueuePosts
  BY <1>7, WorkQueueStep
<1>8. CASE UNCHANGED listVars
  <2>1. UNCHANGED <<heap, source, node, posts, mine, pc, last_tmp, head_p, proc, accepted>>
    BY <1>8 DEF listVars
  <2>2. Base' = Base /\ Numbered' = Numbered /\ Numbered \in Nat
    BY <2>1, ListFacts DEF Base, Making, Numbered, InPost
  <2>3. Nodes' = Nodes /\ Listed(Nodes)'
    BY <2>1, <2>2, ListUntouched
  <2>4. ListTypes' /\ PoolBehind' /\ Standing(Nodes)'
    BY <2>1, <2>2, <2>3 DEF ListTypes, PoolBehind, Standing, Making, InPost, ListInv
  <2> QED
    BY <2>1, <2>3, <2>4, QueueStays DEF ListInv, QueueMoves
<1> QED
  BY <1>1, <1>2, <1>3, <1>4, <1>5, <1>6, <1>7, <1>8 DEF ListNext

-----------------------------------------------------------------------------
(***************************************************************************)
(* The theorems.                                                           *)
(***************************************************************************)

\* Every accepted event can be reached from the head of the list until its
\* handler is done: none is lost (linklist_new, linklist_remove), if no post
\* comes inside a call.
THEOREM AcceptedStaysOnList == ListSpec /\ Preempts = FALSE => []AcceptedOnList
<1>1. ListInv => AcceptedOnList
  <2> SUFFICES ASSUME ListInv PROVE AcceptedOnList
    OBVIOUS
  <2> PICK q : q = Nodes
    OBVIOUS
  <2>1. Listed(q) /\ OnList = {q[i] : i \in 1 .. Len(q)}
    BY ListFacts
  <2>2. accepted = {node[q[i]].n : i \in 1 .. Len(q)}
    BY <2>1 DEF Listed
  <2> QED
    BY <2>1, <2>2 DEF AcceptedOnList
<1> QED
  BY <1>1, ListStart, ListStep, PTL DEF ListSpec

\* Between calls, the nodes on the list and the busy blocks of the pool are the
\* same (bmalloc, bfree): no node shares memory and none leaks.
THEOREM NodesAreTheBlocks == ListSpec /\ Preempts = FALSE => []ListOwnsBlocks
<1>1. ListInv => ListOwnsBlocks
  <2> SUFFICES ASSUME ListInv, pc = "run"
               PROVE  heap.busy = {a - HdrSize : a \in OnList} /\ Sound(heap)
    BY DEF ListOwnsBlocks
  <2> PICK q : q = Nodes
    OBVIOUS
  <2>1. Listed(q) /\ Sound(Base) /\ OnList = {q[i] : i \in 1 .. Len(q)}
    BY ListFacts
  <2>2. Base = heap
    BY DEF Base, Making
  <2>3. heap.busy = {q[i] - HdrSize : i \in 1 .. Len(q)}
    BY <2>1, <2>2 DEF Listed
  <2> QED
    BY <2>1, <2>2, <2>3
<1> QED
  BY <1>1, ListStart, ListStep, PTL DEF ListSpec

\* The linked list of a priority level implements its queue: events come out in
\* the order they were accepted, each once (emos_post, linklist_new,
\* emos_process_queued_event, linklist_remove).
THEOREM ListIsQueue == ListSpec /\ Preempts = FALSE => QueueSpec
<1>1. ListInit /\ Preempts = FALSE => Fifo!Init
  <2> SUFFICES ASSUME ListInit, Preempts = FALSE PROVE Fifo!Init
    OBVIOUS
  <2> PICK q : q = <<>>
    OBVIOUS
  <2>1. ChainOf(q, source, node) /\ Len(q) = 0 /\ Len(q) <= MaxPosts
    BY ListAssumption DEF ChainOf, ListInit
  <2>2. Length = 0
    BY <2>1, NodesAre
  <2> QED
    BY <2>2 DEF Fifo!Init
<1>2. QueueMoves => [Fifo!Next]_Queued
  BY DEF QueueMoves, Fifo!Next, Fifo!Put, Fifo!Take, Queued
<1> QED
  BY <1>1, <1>2, ListStart, ListStep, PTL DEF ListSpec, QueueSpec, Fifo!Spec, Queued
=============================================================================
