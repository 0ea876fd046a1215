---------------------------- MODULE HeapLemmas ----------------------------
(***************************************************************************)
(* What the operators of Heap preserve, for every pool and every request.  *)
(***************************************************************************)
EXTENDS Heap, TLAPS, WellFoundedInduction

\* The size bmalloc works with is a multiple of four, at most three bytes
\* above the size asked for.
LEMMA RoundUpFacts ==
  ASSUME NEW n \in Nat
  PROVE  /\ RoundUp(n) \in Nat
         /\ RoundUp(n) % 4 = 0
         /\ n <= RoundUp(n)
         /\ RoundUp(n) <= n + 3
  BY DEF RoundUp, Align

\* A pool just attached by init_mem_pool is sound.
LEMMA InitPoolSound ==
  ASSUME NEW start \in Nat, NEW len \in Nat
  PROVE  Sound(InitPool(start, len))
<1> DEFINE h == InitPool(start, len)
<1>1. /\ start <= RoundUp(start) /\ RoundUp(start) <= start + 3
      /\ RoundUp(start) \in Nat
  BY RoundUpFacts
<1>2. /\ h.next = [a \in {} |-> 0] /\ Heads(h) = {}
      /\ h.busy = {} /\ h.last = 0
      /\ h.top = len - (RoundUp(start) - start) - 1
      /\ h.active = (len > RoundUp(start) - start + HdrSize)
      /\ h = [active |-> h.active, next |-> h.next, busy |-> h.busy,
              last |-> h.last, top |-> h.top]
  BY DEF InitPool, Heads
<1> HIDE DEF h
<1>3. HeapType(h)
  BY <1>1, <1>2 DEF HeapType, Heads, HdrSize
<1>4. Tiled(h) /\ Coalesced(h) /\ Aligned(h)
  <2>1. h.active <=> len > RoundUp(start) - start + HdrSize
    BY <1>2
  <2>2. IF h.active THEN h.last <= h.top ELSE h.last = 0 /\ h.top < HdrSize
    BY <1>1, <1>2, <2>1 DEF HdrSize
  <2>3. Heads(h) \cup {h.last} = {0} /\ Holes(h) = {}
    BY <1>2 DEF Holes
  <2>4. QED
    BY <1>2, <2>2, <2>3 DEF Tiled, Coalesced, Aligned, Align
<1>5. QED
  BY <1>3, <1>4 DEF Sound, h

\* bmalloc's fast path keeps the heap sound.
LEMMA OnTopSound ==
  ASSUME NEW h, Sound(h), h.active, NEW n \in Nat, n % 4 = 0, RoomOnTop(h, n)
  PROVE  /\ Sound(OnTop(h, n))
         /\ OnTop(h, n).busy = h.busy \cup {h.last}
         /\ h.last \notin Heads(h)
         /\ OnTop(h, n).next[h.last] = h.last + n + HdrSize
         /\ \A a \in Heads(h) : OnTop(h, n).next[a] = h.next[a]
         /\ OnTop(h, n).top = h.top /\ OnTop(h, n).active = h.active
<1> DEFINE g == OnTop(h, n)
<1>1. /\ g.next = [a \in Heads(h) \cup {h.last} |->
                     IF a = h.last THEN h.last + n + HdrSize ELSE h.next[a]]
      /\ g.busy = h.busy \cup {h.last}
      /\ g.last = h.last + n + HdrSize
      /\ g.active = h.active
      /\ g.top = h.top
      /\ g = [active |-> g.active, next |-> g.next, busy |-> g.busy,
              last |-> g.last, top |-> g.top]
  BY DEF OnTop, With
<1>2. Heads(g) = Heads(h) \cup {h.last}
  BY <1>1 DEF Heads
<1>3. h.last \notin Heads(h) /\ h.last \in Nat /\ h.top \in Int
  BY DEF Sound, Tiled, HeapType
<1>4. HeapType(g)
  BY <1>1, <1>2 DEF HeapType, Sound, Heads, HdrSize
<1>5. Tiled(g)
  <2>1. g.last <= g.top /\ g.active /\ 0 \in Heads(g) \cup {g.last}
    BY <1>1, <1>2, <1>3 DEF Tiled, Sound, RoomOnTop, HdrSize
  <2>2. ASSUME NEW a \in Heads(g)
        PROVE  /\ a + HdrSize <= g.next[a]
               /\ g.next[a] \in Heads(g) \cup {g.last}
               /\ a < g.last
    BY <1>1, <1>2, <1>3 DEF Tiled, Sound, HeapType, HdrSize
  <2>3. ASSUME NEW a \in Heads(g), NEW b \in Heads(g), a < b
        PROVE  g.next[a] <= b
    BY <1>1, <1>2, <1>3, <2>3 DEF Tiled, Sound, HeapType, HdrSize
  <2>4. ASSUME NEW b \in (Heads(g) \cup {g.last}) \ {0}
        PROVE  \E a \in Heads(g) : g.next[a] = b
    BY <1>1, <1>2, <1>3, <2>4 DEF Tiled, Sound, HeapType
  <2>5. QED
    BY <2>1, <2>2, <2>3, <2>4 DEF Tiled
<1>6. Coalesced(g)
  BY <1>1, <1>2, <1>3 DEF Coalesced, Sound, Holes
<1>7. Aligned(g)
  BY <1>1, <1>2, <1>3 DEF Aligned, Sound, HeapType, HdrSize, Align
<1>8. QED
  BY <1>1, <1>3, <1>4, <1>5, <1>6, <1>7 DEF Sound

\* bmalloc's slow path keeps the heap sound: what is left of a split hole is
\* large enough for a header, and lies between allocated blocks.
LEMMA ReuseSound ==
  ASSUME NEW h, Sound(h), NEW n \in Nat, n % 4 = 0, NEW e \in FirstFit(h, n)
  PROVE  /\ Sound(Reuse(h, e, n))
         /\ Reuse(h, e, n).busy = h.busy \cup {e}
         /\ e \in Heads(h) \ h.busy
         /\ e + HdrSize + n <= Reuse(h, e, n).next[e]
         /\ \A a \in h.busy : Reuse(h, e, n).next[a] = h.next[a]
         /\ Reuse(h, e, n).top = h.top /\ Reuse(h, e, n).active = h.active
<1> DEFINE g   == Reuse(h, e, n)
           cut == e + HdrSize + n
<1>1. /\ e \in Heads(h) /\ e \notin h.busy
      /\ e \in Nat /\ h.next[e] \in Nat /\ cut \in Nat
      /\ cut <= h.next[e]
      /\ h.next[e] \in h.busy
  BY DEF FirstFit, Holes, Fits, Sound, HeapType, Coalesced, HdrSize
<1>2. /\ g.busy = h.busy \cup {e}
      /\ g.last = h.last
      /\ g.active = h.active
      /\ g.top = h.top
      /\ g = [active |-> g.active, next |-> g.next, busy |-> g.busy,
              last |-> g.last, top |-> g.top]
  BY DEF Reuse, Splits, With
<1>3. CASE h.next[e] - cut > HdrSize
  <2>1. g.next = [b \in Heads(h) \cup {cut} |->
                    CASE b = e   -> cut
                      [] b = cut -> h.next[e]
                      [] OTHER   -> h.next[b]]
    BY <1>3 DEF Reuse, Splits, With
  <2>2. Heads(g) = Heads(h) \cup {cut}
    BY <2>1 DEF Heads
  <2>3. /\ cut \notin Heads(h) /\ cut # e /\ e < cut /\ cut < h.next[e]
        /\ \A b \in Heads(h) : b <= e \/ h.next[e] <= b
    BY <1>1, <1>3 DEF Sound, Tiled, HeapType, HdrSize
  <2>4. /\ g.next[e] = cut /\ g.next[cut] = h.next[e]
        /\ \A b \in Heads(h) \ {e} : g.next[b] = h.next[b]
    BY <2>1, <2>3, <1>1
  <2>5. HeapType(g)
    BY <1>1, <1>2, <2>1, <2>2 DEF HeapType, Sound, Heads
  <2>6. Tiled(g)
    <3>1. /\ IF g.active THEN g.last <= g.top ELSE g.last = 0 /\ g.top < HdrSize
          /\ 0 \in Heads(g) \cup {g.last}
      BY <1>2, <2>2 DEF Tiled, Sound
    <3>2. ASSUME NEW a \in Heads(g)
          PROVE  /\ a + HdrSize <= g.next[a]
                 /\ g.next[a] \in Heads(g) \cup {g.last}
                 /\ a < g.last
      BY <1>1, <1>2, <1>3, <2>2, <2>3, <2>4 DEF Tiled, Sound, HeapType, HdrSize
    <3>3. ASSUME NEW a \in Heads(g), NEW b \in Heads(g), a < b
          PROVE  g.next[a] <= b
      BY <1>1, <2>2, <2>3, <2>4, <3>3 DEF Tiled, Sound, HeapType
    <3>4. ASSUME NEW b \in (Heads(g) \cup {g.last}) \ {0}
          PROVE  \E a \in Heads(g) : g.next[a] = b
      <4>1. CASE b = cut
        BY <4>1, <1>1, <2>2, <2>4
      <4>2. CASE b = h.next[e]
        BY <4>2, <2>2, <2>4
      <4>3. CASE b # cut /\ b # h.next[e]
        <5>1. PICK a \in Heads(h) : h.next[a] = b
          BY <4>3, <1>2, <2>2, <3>4 DEF Tiled, Sound
        <5>2. a # e /\ g.next[a] = b
          BY <5>1, <4>3, <2>4
        <5>3. QED
          BY <5>2, <2>2
      <4>4. QED
        BY <4>1, <4>2, <4>3
    <3>5. QED
      BY <3>1, <3>2, <3>3, <3>4 DEF Tiled
  <2>7. Coalesced(g)
    BY <1>1, <1>2, <2>2, <2>3, <2>4 DEF Coalesced, Sound, Holes
  <2>8. Aligned(g)
    BY <1>1, <1>2, <2>2 DEF Aligned, Sound, HeapType, HdrSize, Align
  <2>9. QED
    BY <1>1, <1>2, <2>3, <2>4, <2>5, <2>6, <2>7, <2>8 DEF Sound, HeapType
<1>4. CASE ~(h.next[e] - cut > HdrSize)
  <2>1. g.next = h.next /\ Heads(g) = Heads(h)
    BY <1>4 DEF Reuse, Splits, With, Heads
  <2>2. HeapType(g)
    BY <1>1, <1>2, <2>1 DEF HeapType, Sound
  <2>3. Tiled(g)
    BY <1>2, <2>1 DEF Tiled, Sound
  <2>4. Coalesced(g) /\ Aligned(g)
    BY <1>2, <2>1 DEF Coalesced, Aligned, Sound, Holes
  <2>5. QED
    BY <1>1, <1>2, <2>1, <2>2, <2>3, <2>4 DEF Sound, HeapType
<1>5. QED
  BY <1>3, <1>4

\* bfree keeps the heap sound: the block merged out of the freed one and its
\* free neighbours has an allocated block, or the start of the pool, on its
\* left and an allocated block, or the high-water mark, on its right.
LEMMA FreeSound ==
  ASSUME NEW h, Sound(h), h.active, NEW p \in Nat, p - HdrSize \in h.busy
  PROVE  /\ Sound(Free(h, p))
         /\ Free(h, p).busy = h.busy \ {p - HdrSize}
         /\ \A a \in h.busy \ {p - HdrSize} : Free(h, p).next[a] = h.next[a]
         /\ Free(h, p).top = h.top
         /\ Free(h, p).active = h.active
<1> DEFINE g     == Free(h, p)
           c     == p - HdrSize
           after == h.next[c]
           end   == MergedEnd(h, c)
           start == MergedStart(h, c)
           kept  == (Heads(h) \ ({c} \cup ({after} \cap Holes(h)))) \cup {start}
<1>1. /\ Heads(h) \subseteq Nat /\ h.busy \subseteq Heads(h) /\ h.last \in Nat
      /\ h.top \in Int /\ h.last <= h.top
      /\ \A a \in Heads(h) : /\ h.next[a] \in Nat
                             /\ a + HdrSize <= h.next[a]
                             /\ h.next[a] \in Heads(h) \cup {h.last}
                             /\ a < h.last
      /\ \A a, b \in Heads(h) : a < b => h.next[a] <= b
      /\ \A a \in Heads(h) \ h.busy : h.next[a] \in h.busy
      /\ \A b \in (Heads(h) \cup {h.last}) \ {0} : \E a \in Heads(h) : h.next[a] = b
      /\ 0 \in Heads(h) \cup {h.last}
  BY DEF Sound, HeapType, Tiled, Coalesced, Holes
<1>2. \A a, b \in Heads(h) : h.next[a] = h.next[b] => a = b
  BY <1>1 DEF HdrSize
<1>3. /\ c \in Heads(h) /\ c \in h.busy
      /\ after \in Heads(h) \cup {h.last} /\ c + HdrSize <= after
  BY <1>1
<1>4. /\ end \in h.busy \cup {h.last}
      /\ c + HdrSize <= end /\ end \in Nat
      /\ end # after => after \in Holes(h) /\ end = h.next[after]
      /\ after \in Holes(h) => end = h.next[after] /\ after < end
  BY <1>1, <1>3 DEF Holes, HdrSize, MergedEnd
<1>5. /\ start \in Heads(h) /\ start <= c
      /\ \/ start = c /\ ~\E q \in Holes(h) : h.next[q] = c
         \/ start \in Holes(h) /\ h.next[start] = c
  <2>1. CASE ~\E q \in Holes(h) : h.next[q] = c
    BY <2>1, <1>1, <1>3 DEF MergedStart
  <2>2. CASE \E q \in Holes(h) : h.next[q] = c
    <3>1. start \in Holes(h) /\ h.next[start] = c
      BY <2>2 DEF MergedStart
    <3>2. QED
      BY <3>1, <1>1, <1>3 DEF Holes, HdrSize
  <2>3. QED
    BY <2>1, <2>2
<1>6. \A a \in Holes(h) : h.next[a] = c => a = start
  BY <1>1, <1>2, <1>5 DEF Holes
<1> HIDE DEF c, after, end, start, kept
<1>7. /\ kept = (Heads(h) \ ({c} \cup ({after} \cap Holes(h)))) \cup {start}
      /\ kept \subseteq Heads(h)
      /\ start \in kept
      /\ after = h.next[c]
  BY <1>5 DEF kept, after, c
<1>8. /\ \A b \in kept : start < b => end <= b
      /\ \A b \in kept : b < start => h.next[b] <= start
  <2>1. ASSUME NEW b \in kept, start < b
        PROVE  end <= b
    <3>1. b \in Heads(h) /\ b \in Nat /\ b # c
      BY <2>1, <1>1, <1>7
    <3>2. c < b
      BY <3>1, <2>1, <1>1, <1>3, <1>5 DEF Holes
    <3>3. after <= b
      BY <3>1, <3>2, <1>1, <1>3, <1>7
    <3>4. CASE after \in Holes(h)
      <4>1. after \in Heads(h) /\ after \in Nat /\ b # after
        BY <3>4, <2>1, <3>2, <1>1, <1>5, <1>7 DEF Holes
      <4>2. QED
        BY <4>1, <3>1, <3>3, <3>4, <1>1, <1>4
    <3>5. CASE after \notin Holes(h)
      BY <3>3, <3>5, <1>4
    <3>6. QED
      BY <3>4, <3>5
  <2>2. ASSUME NEW b \in kept, b < start
        PROVE  h.next[b] <= start
    BY <2>2, <1>1, <1>5, <1>7
  <2>3. QED
    BY <2>1, <2>2
<1>9. \A b \in kept : b # start =>
                        /\ h.next[b] \in (kept \cup {end}) \cup {h.last}
                        /\ h.next[b] # end
                        /\ b \in Holes(h) => h.next[b] # c
  <2>1. SUFFICES ASSUME NEW b \in kept, b # start
                 PROVE  /\ h.next[b] \in (kept \cup {end}) \cup {h.last}
                        /\ h.next[b] # end
                        /\ b \in Holes(h) => h.next[b] # c
    OBVIOUS
  <2>2. b \in Heads(h) /\ b # c /\ (after \in Holes(h) => b # after)
    BY <2>1, <1>5, <1>7 DEF Holes
  <2>3. h.next[b] # after
    BY <2>2, <1>2, <1>3, <1>7
  <2>4. h.next[b] # end
    BY <2>2, <2>3, <1>2, <1>4 DEF Holes
  <2>5. b \in Holes(h) => h.next[b] # c
    BY <2>1, <1>6
  <2>6. h.next[b] = c => start = c
    BY <2>1, <2>2, <1>2, <1>5 DEF Holes
  <2>7. h.next[b] \in kept \cup {h.last}
    BY <2>2, <2>3, <2>6, <1>1, <1>7
  <2>8. QED
    BY <2>4, <2>5, <2>7
<1>10. \A b \in kept \ {0, end} : \E a \in kept \ {start} : h.next[a] = b
  <2>1. SUFFICES ASSUME NEW b \in kept, b # 0, b # end
                 PROVE  \E a \in kept \ {start} : h.next[a] = b
    OBVIOUS
  <2>2. PICK a \in Heads(h) : h.next[a] = b
    BY <1>1, <1>7, <2>1
  <2>3. b # after \/ after \notin Holes(h)
    BY <2>1, <1>1, <1>3, <1>5, <1>7 DEF Holes, HdrSize
  <2>4. a # c
    BY <2>1, <2>2, <2>3, <1>4, <1>7
  <2>5. after \in Holes(h) => a # after
    BY <2>1, <2>2, <1>4
  <2>6. a # start
    BY <2>1, <2>2, <2>4, <1>5, <1>7
  <2>7. QED
    BY <2>2, <2>4, <2>5, <2>6, <1>7
<1>11. \A a \in h.busy \ {c} : a \in kept \ {start}
  BY <1>1, <1>5, <1>7 DEF Holes
<1>12. kept = {a \in Heads(h) : a <= start \/ end <= a}
  BY <1>1, <1>3, <1>4, <1>5, <1>7, <1>8 DEF Holes, HdrSize
<1>13. CASE end = h.last
  <2>1. /\ g = With(h, [a \in kept \ {start} |-> h.next[a]], h.busy \ {c}, start)
        /\ Heads(g) = kept \ {start}
    BY <1>1, <1>3, <1>12, <1>13 DEF Free, With, Heads, start, end, c
  <2>2. /\ g.next = [a \in kept \ {start} |-> h.next[a]]
        /\ g.busy = h.busy \ {c} /\ g.last = start
        /\ g.active = h.active /\ g.top = h.top
        /\ g = [active |-> g.active, next |-> g.next, busy |-> g.busy,
                last |-> g.last, top |-> g.top]
        /\ Heads(g) = kept \ {start}
    BY <2>1 DEF With, Heads
  <2> HIDE DEF g
  <2>3. HeapType(g)
    <3>1. h.active \in BOOLEAN
      BY DEF Sound, HeapType
    <3>2. g.next \in [Heads(g) -> Nat]
      BY <2>2, <1>1, <1>7
    <3>3. g.busy \subseteq Heads(g) /\ Heads(g) \subseteq Nat /\ g.last \in Nat
      BY <2>2, <1>1, <1>5, <1>7, <1>11
    <3>4. QED
      BY <2>2, <3>1, <3>2, <3>3, <1>1 DEF HeapType
  <2>4. Tiled(g)
    <3>1. \A b \in kept : b <= start
      BY <1>1, <1>7, <1>8, <1>13
    <3>2. g.active /\ g.last <= g.top /\ 0 \in Heads(g) \cup {g.last}
      BY <2>2, <1>1, <1>3, <1>4, <1>5, <1>7, <1>13 DEF HdrSize, Holes
    <3>3. ASSUME NEW a \in Heads(g)
          PROVE  /\ a + HdrSize <= g.next[a]
                 /\ g.next[a] \in Heads(g) \cup {g.last}
                 /\ a < g.last
      <4>1. a \in kept /\ a # start /\ a \in Heads(h) /\ a < start
        BY <2>2, <3>1, <1>1, <1>5, <1>7
      <4>2. g.next[a] = h.next[a]
        BY <2>2, <4>1
      <4>3. h.next[a] \in kept
        BY <4>1, <1>9, <1>13
      <4>4. QED
        BY <2>2, <4>1, <4>2, <4>3, <1>1
    <3>4. ASSUME NEW a \in Heads(g), NEW b \in Heads(g), a < b
          PROVE  g.next[a] <= b
      BY <2>2, <3>4, <1>1, <1>7
    <3>5. ASSUME NEW b \in (Heads(g) \cup {g.last}) \ {0}
          PROVE  \E a \in Heads(g) : g.next[a] = b
      BY <2>2, <1>1, <1>7, <1>10, <1>13
    <3>6. QED
      BY <3>2, <3>3, <3>4, <3>5 DEF Tiled
  <2>5. Coalesced(g)
    <3>1. SUFFICES ASSUME NEW a \in Heads(g), a \notin g.busy
                   PROVE  g.next[a] \in g.busy
      BY DEF Coalesced, Holes
    <3>2. a \in kept /\ a # start /\ a # c /\ a \in Heads(h) /\ a \notin h.busy
      BY <2>2, <3>1, <1>5, <1>7
    <3>3. h.next[a] \in h.busy /\ h.next[a] # c
      BY <3>2, <1>1, <1>9 DEF Holes
    <3>4. QED
      BY <2>2, <3>2, <3>3
  <2>6. Aligned(g)
    BY <2>2, <1>1, <1>5, <1>7 DEF Aligned, Sound
  <2>7. \A a \in h.busy \ {c} : g.next[a] = h.next[a]
    BY <2>2, <1>11
  <2>8. QED
    BY <2>2, <2>3, <2>4, <2>5, <2>6, <2>7 DEF Sound, g, c
<1>14. CASE end # h.last
  <2>1. /\ g = With(h, [a \in kept |-> IF a = start THEN end ELSE h.next[a]],
                   h.busy \ {c}, h.last)
        /\ Heads(g) = kept
    BY <1>1, <1>3, <1>12, <1>14 DEF Free, With, Heads, start, end, c
  <2>2. /\ g.next = [a \in kept |-> IF a = start THEN end ELSE h.next[a]]
        /\ g.busy = h.busy \ {c} /\ g.last = h.last
        /\ g.active = h.active /\ g.top = h.top
        /\ g = [active |-> g.active, next |-> g.next, busy |-> g.busy,
                last |-> g.last, top |-> g.top]
        /\ Heads(g) = kept
    BY <2>1 DEF With
  <2> HIDE DEF g
  <2>3. end \in h.busy \ {c} /\ end \in kept \ {start}
    BY <1>4, <1>11, <1>14, <1>1, <1>3 DEF HdrSize
  <2>4. HeapType(g)
    <3>1. h.active \in BOOLEAN
      BY DEF Sound, HeapType
    <3>2. g.next \in [Heads(g) -> Nat]
      BY <2>2, <1>1, <1>4, <1>7
    <3>3. g.busy \subseteq Heads(g) /\ Heads(g) \subseteq Nat /\ g.last \in Nat
      BY <2>2, <1>1, <1>7, <1>11
    <3>4. QED
      BY <2>2, <3>1, <3>2, <3>3, <1>1 DEF HeapType
  <2>5. Tiled(g)
    <3>1. g.active /\ g.last <= g.top /\ 0 \in Heads(g) \cup {g.last}
      BY <2>2, <1>1, <1>3, <1>4, <1>5, <1>7 DEF HdrSize, Holes
    <3>2. ASSUME NEW a \in Heads(g)
          PROVE  /\ a + HdrSize <= g.next[a]
                 /\ g.next[a] \in Heads(g) \cup {g.last}
                 /\ a < g.last
      <4>1. CASE a = start
        BY <4>1, <2>1, <2>2, <2>3, <1>1, <1>4, <1>5 DEF HdrSize
      <4>2. CASE a # start
        <5>1. a \in kept /\ a \in Heads(h) /\ g.next[a] = h.next[a]
          BY <4>2, <2>2, <1>7
        <5>2. h.next[a] \in kept \cup {h.last}
          BY <4>2, <5>1, <2>3, <1>9
        <5>3. QED
          BY <2>2, <5>1, <5>2, <1>1
      <4>3. QED
        BY <4>1, <4>2
    <3>3. ASSUME NEW a \in Heads(g), NEW b \in Heads(g), a < b
          PROVE  g.next[a] <= b
      BY <2>2, <3>3, <1>1, <1>7, <1>8
    <3>4. ASSUME NEW b \in (Heads(g) \cup {g.last}) \ {0}
          PROVE  \E a \in Heads(g) : g.next[a] = b
      <4>1. CASE b = end
        BY <4>1, <2>1, <2>2, <1>7
      <4>2. CASE b # end /\ b \in kept
        BY <4>2, <2>1, <2>2, <3>4, <1>10
      <4>3. CASE b = h.last /\ b # end
        <5>1. PICK a \in Heads(h) : h.next[a] = b
          BY <4>3, <3>4, <1>1
        <5>2. a # c /\ a # start /\ (after \in Holes(h) => a # after)
          BY <5>1, <4>3, <1>1, <1>3, <1>4, <1>5, <1>7
        <5>3. QED
          BY <5>1, <5>2, <2>2, <1>7 DEF Holes
      <4>4. QED
        BY <4>1, <4>2, <4>3, <2>1, <2>2
    <3>5. QED
      BY <3>1, <3>2, <3>3, <3>4 DEF Tiled
  <2>6. Coalesced(g)
    <3>1. SUFFICES ASSUME NEW a \in Heads(g), a \notin g.busy
                   PROVE  g.next[a] \in g.busy
      BY DEF Coalesced, Holes
    <3>2. CASE a = start
      BY <3>2, <2>2, <2>3, <1>7
    <3>3. CASE a # start
      <4>1. a \in kept /\ a # c /\ a \in Heads(h) /\ a \notin h.busy
        BY <2>2, <3>1, <3>3, <1>5, <1>7
      <4>2. h.next[a] \in h.busy /\ h.next[a] # c
        BY <3>3, <4>1, <1>1, <1>9 DEF Holes
      <4>3. QED
        BY <2>2, <3>3, <4>1, <4>2
    <3>4. QED
      BY <3>2, <3>3
  <2>7. Aligned(g)
    BY <2>2, <1>1, <1>7 DEF Aligned, Sound
  <2>8. \A a \in h.busy \ {c} : g.next[a] = h.next[a]
    BY <2>2, <1>11
  <2>9. QED
    BY <2>2, <2>4, <2>5, <2>6, <2>7, <2>8 DEF Sound, g, c
<1>15. QED
  BY <1>13, <1>14

-----------------------------------------------------------------------------
\* What a call of bmalloc does: it leaves the heap alone and returns NULL, or
\* turns a range that was not allocated into a block of the size asked for.
LEMMA MallocSound ==
  ASSUME NEW h, Sound(h), NEW size \in Nat, NEW r \in Malloc(h, size)
  PROVE  /\ Sound(r.heap)
         /\ r.heap.top = h.top /\ r.heap.active = h.active
         /\ \/ r.ptr = NoBlock /\ r.heap = h
            \/ /\ r.ptr \in Nat /\ size > 0 /\ h.active
               /\ r.ptr - HdrSize \notin h.busy
               /\ r.heap.busy = h.busy \cup {r.ptr - HdrSize}
               /\ r.ptr + size <= r.heap.next[r.ptr - HdrSize]
               /\ \A a \in h.busy : r.heap.next[a] = h.next[a]
<1> DEFINE n == RoundUp(size)
<1>1. n \in Nat /\ n % 4 = 0 /\ size <= n
  BY RoundUpFacts
<1> HIDE DEF n
<1>2. CASE r = [ptr |-> NoBlock, heap |-> h]
  BY <1>2
<1>3. CASE /\ h.active /\ size # 0 /\ RoomOnTop(h, n)
           /\ r = [ptr |-> h.last + HdrSize, heap |-> OnTop(h, n)]
  <2>1. h.last \in Nat /\ h.busy \subseteq Heads(h)
    BY DEF Sound, HeapType
  <2>2. r.ptr - HdrSize = h.last /\ r.ptr \in Nat
    BY <1>3, <2>1 DEF HdrSize
  <2>3. r.ptr + size <= r.heap.next[h.last]
    BY <1>1, <1>3, <2>1, OnTopSound DEF HdrSize
  <2>4. r.heap = OnTop(h, n)
    BY <1>3
  <2>5. /\ Sound(r.heap)
        /\ r.heap.busy = h.busy \cup {h.last}
        /\ h.last \notin Heads(h)
        /\ \A a \in Heads(h) : r.heap.next[a] = h.next[a]
        /\ r.heap.top = h.top /\ r.heap.active = h.active
    BY <1>1, <1>3, <2>4, OnTopSound
  <2>6. /\ r.ptr - HdrSize \notin h.busy
        /\ r.heap.busy = h.busy \cup {r.ptr - HdrSize}
        /\ r.ptr + size <= r.heap.next[r.ptr - HdrSize]
    BY <2>1, <2>2, <2>3, <2>5
  <2>7. /\ r.ptr \in Nat /\ size > 0 /\ h.active
        /\ \A a \in h.busy : r.heap.next[a] = h.next[a]
    BY <1>3, <2>1, <2>2, <2>5
  <2>8. QED
    BY <2>5, <2>6, <2>7
<1>4. CASE /\ h.active /\ size # 0
           /\ \E a \in FirstFit(h, n) : r = [ptr |-> a + HdrSize, heap |-> Reuse(h, a, n)]
  <2>1. PICK a \in FirstFit(h, n) : r = [ptr |-> a + HdrSize, heap |-> Reuse(h, a, n)]
    BY <1>4
  <2>2. /\ Sound(Reuse(h, a, n))
        /\ Reuse(h, a, n).busy = h.busy \cup {a}
        /\ a \in Heads(h) \ h.busy
        /\ a + HdrSize + n <= Reuse(h, a, n).next[a]
        /\ \A b \in h.busy : Reuse(h, a, n).next[b] = h.next[b]
        /\ Reuse(h, a, n).top = h.top /\ Reuse(h, a, n).active = h.active
    BY <1>1, ReuseSound
  <2>3. a \in Nat /\ r.ptr - HdrSize = a /\ r.ptr \in Nat
    BY <2>1, <2>2 DEF Sound, HeapType, HdrSize
  <2>4. r.ptr + size <= r.heap.next[a]
    <3>1. Reuse(h, a, n).next[a] \in Nat
      BY <2>2 DEF Sound, HeapType
    <3>2. QED
      BY <1>1, <2>1, <2>2, <2>3, <3>1 DEF HdrSize
  <2>5. r.heap = Reuse(h, a, n)
    BY <2>1
  <2>6. /\ r.ptr - HdrSize \notin h.busy
        /\ r.heap.busy = h.busy \cup {r.ptr - HdrSize}
        /\ r.ptr + size <= r.heap.next[r.ptr - HdrSize]
    BY <2>2, <2>3, <2>4, <2>5
  <2>7. /\ r.ptr \in Nat /\ size > 0 /\ h.active
        /\ \A b \in h.busy : r.heap.next[b] = h.next[b]
    BY <1>4, <2>2, <2>3, <2>5
  <2>8. Sound(r.heap) /\ r.heap.top = h.top /\ r.heap.active = h.active
    BY <2>2, <2>5
  <2>9. QED
    BY <2>6, <2>7, <2>8
<1>5. QED
  BY <1>2, <1>3, <1>4 DEF Malloc, n

\* A pool in which nothing is allocated is in one piece again.
LEMMA EmptyPoolInOnePiece ==
  ASSUME NEW h, Sound(h), h.busy = {}
  PROVE  h.last = 0 /\ Heads(h) = {}
BY DEF Sound, HeapType, Tiled, Coalesced, Holes

\* bmalloc refuses a request that fits an empty pool only while a block is
\* allocated.
LEMMA RefusalJustified ==
  ASSUME NEW h, Sound(h), NEW size \in Nat, NEW r \in Malloc(h, size),
         r.ptr = NoBlock
  PROVE  h.busy # {} \/ size = 0 \/ size + 3 + HdrSize > h.top
<1>1. SUFFICES ASSUME h.busy = {}, size # 0, size + 3 + HdrSize <= h.top
               PROVE  FALSE
  BY DEF Sound, HeapType, HdrSize
<1>2. h.last = 0 /\ h.top \in Int
  BY <1>1, EmptyPoolInOnePiece DEF Sound, HeapType
<1>3. h.active
  BY <1>1, <1>2 DEF Sound, Tiled, HdrSize
<1>4. RoomOnTop(h, RoundUp(size))
  <2>1. RoundUp(size) \in Nat /\ RoundUp(size) <= size + 3
    BY RoundUpFacts
  <2>2. QED
    BY <1>1, <1>2, <2>1 DEF RoomOnTop, HdrSize
<1>5. r.ptr = h.last + HdrSize
  BY <1>1, <1>3, <1>4 DEF Malloc
<1>6. QED
  BY <1>2, <1>5 DEF NoBlock, HdrSize

\* A set of numbers has a least one.
LEMMA LeastNatural ==
  ASSUME NEW S \in SUBSET Nat, S # {}
  PROVE  \E x \in S : \A y \in S : x <= y
<1> DEFINE R == {ss \in Nat \X Nat : ss[1] < ss[2]}
<1>1. OpToRel(<, Nat) = R
  BY DEF OpToRel
<1>2. IsWellFoundedOn(R, Nat)
  BY <1>1, NatLessThanWellFounded, Zenon
<1> HIDE DEF R
<1>3. PICK x \in S : \A y \in S : ~(<<y, x>> \in R)
  BY <1>2, WFMin
<1>4. \A y \in S : ~(y < x)
  BY <1>3 DEF R
<1>5. QED
  BY <1>4

\* The search for a hole fails only when no hole is large enough.
LEMMA FirstFitFinds ==
  ASSUME NEW h, Sound(h), NEW n, FirstFit(h, n) = {}
  PROVE  \A a \in Holes(h) : ~Fits(h, a, n)
<1> SUFFICES ASSUME NEW a \in Holes(h), Fits(h, a, n)
             PROVE  FALSE
  OBVIOUS
<1> DEFINE S == {b \in Holes(h) : Fits(h, b, n)}
<1>1. S \in SUBSET Nat /\ S # {}
  BY DEF Holes, Sound, HeapType
<1>2. PICK b \in S : \A c \in S : b <= c
  BY <1>1, LeastNatural
<1>3. b \in FirstFit(h, n)
  BY <1>2 DEF FirstFit
<1>4. QED
  BY <1>3

\* When bmalloc refuses, it is because there is no room, neither on top nor in
\* a hole.
LEMMA RefusedForRoom ==
  ASSUME NEW h, Sound(h), NEW size \in Nat,
         \E r \in Malloc(h, size) : r.ptr = NoBlock
  PROVE  /\ Malloc(h, size) = {[ptr |-> NoBlock, heap |-> h]}
         /\ \/ ~h.active \/ size = 0
            \/ /\ ~RoomOnTop(h, RoundUp(size))
               /\ \A a \in Holes(h) : ~Fits(h, a, RoundUp(size))
<1> DEFINE n == RoundUp(size)
<1>1. h.last \in Nat /\ \A a \in Holes(h) : a \in Nat
  BY DEF Sound, HeapType, Holes
<1>2. CASE ~h.active \/ size = 0
  BY <1>2 DEF Malloc
<1>3. CASE h.active /\ size # 0 /\ RoomOnTop(h, n)
  <2>1. Malloc(h, size) = {[ptr |-> h.last + HdrSize, heap |-> OnTop(h, n)]}
    BY <1>3 DEF Malloc
  <2>2. h.last + HdrSize # NoBlock
    BY <1>1 DEF HdrSize, NoBlock
  <2>3. QED
    BY <2>1, <2>2
<1>4. CASE h.active /\ size # 0 /\ ~RoomOnTop(h, n) /\ FirstFit(h, n) # {}
  <2>1. Malloc(h, size)
          = {[ptr |-> a + HdrSize, heap |-> Reuse(h, a, n)] : a \in FirstFit(h, n)}
    BY <1>4 DEF Malloc
  <2>2. \A a \in FirstFit(h, n) : a + HdrSize # NoBlock
    BY <1>1 DEF FirstFit, HdrSize, NoBlock
  <2>3. QED
    BY <2>1, <2>2
<1>5. CASE h.active /\ size # 0 /\ ~RoomOnTop(h, n) /\ FirstFit(h, n) = {}
  <2>1. Malloc(h, size) = {[ptr |-> NoBlock, heap |-> h]}
    BY <1>5 DEF Malloc
  <2>2. \A a \in Holes(h) : ~Fits(h, a, n)
    BY <1>5, FirstFitFinds
  <2>3. QED
    BY <1>5, <2>1, <2>2
<1>6. QED
  BY <1>2, <1>3, <1>4, <1>5

\* What bmalloc refuses it refuses again after it has given another block away:
\* only bfree can make the request fit.
LEMMA RefusedAgain ==
  ASSUME NEW h, Sound(h), NEW size \in Nat, NEW other \in Nat,
         \E r \in Malloc(h, size) : r.ptr = NoBlock,
         NEW g, \E r \in Malloc(h, other) : g = r.heap
  PROVE  \E r \in Malloc(g, size) : r.ptr = NoBlock
<1> DEFINE n == RoundUp(size)
           m == RoundUp(other)
<1>1. n \in Nat /\ m \in Nat /\ m % 4 = 0
  BY RoundUpFacts
<1>2. \/ ~h.active \/ size = 0
      \/ ~RoomOnTop(h, n) /\ \A a \in Holes(h) : ~Fits(h, a, n)
  BY RefusedForRoom
<1>3. PICK r \in Malloc(h, other) : g = r.heap
  OBVIOUS
<1>4. /\ Sound(g) /\ g.top = h.top /\ g.active = h.active
  BY <1>3, MallocSound
<1>5. CASE ~h.active \/ size = 0
  BY <1>4, <1>5 DEF Malloc
<1>6. CASE g = h
  BY <1>6
<1> HIDE DEF n, m
<1>7. ASSUME h.active, ~RoomOnTop(h, n), \A a \in Holes(h) : ~Fits(h, a, n), g # h
      PROVE  ~RoomOnTop(g, n) /\ \A a \in Holes(g) : ~Fits(g, a, n)
  <2>1. CASE RoomOnTop(h, m) /\ g = OnTop(h, m)
    <3>1. /\ g.busy = h.busy \cup {h.last} /\ h.last \notin Heads(h)
          /\ \A a \in Heads(h) : g.next[a] = h.next[a]
      BY <1>1, <1>7, <2>1, OnTopSound
    <3>2. g.last = h.last + m + HdrSize /\ Heads(g) = Heads(h) \cup {h.last}
      BY <2>1 DEF OnTop, With, Heads
    <3>3. Holes(g) \subseteq Holes(h)
      BY <3>1, <3>2 DEF Holes
    <3>4. \A a \in Holes(g) : ~Fits(g, a, n)
      BY <1>7, <3>1, <3>3 DEF Fits, Holes
    <3>5. ~RoomOnTop(g, n)
      BY <1>1, <1>4, <1>7, <3>2 DEF RoomOnTop, Sound, HeapType, HdrSize
    <3>6. QED
      BY <3>4, <3>5
  <2>2. ASSUME NEW e \in FirstFit(h, m), g = Reuse(h, e, m)
        PROVE  ~RoomOnTop(g, n) /\ \A a \in Holes(g) : ~Fits(g, a, n)
    <3> DEFINE cut == e + HdrSize + m
    <3>1. /\ e \in Holes(h) /\ e \in Nat /\ h.next[e] \in Nat
          /\ \A a \in Holes(h) : a \in Heads(h)
      BY <2>2 DEF FirstFit, Holes, Sound, HeapType
    <3>2. ~Fits(h, e, n)
      BY <1>7, <3>1
    <3>3. g.last = h.last /\ g.busy = h.busy \cup {e}
      BY <2>2 DEF Reuse, With
    <3>4. ~RoomOnTop(g, n)
      BY <1>4, <1>7, <3>3 DEF RoomOnTop
    <3>5. CASE ~Splits(h, e, cut)
      <4>1. g.next = h.next
        BY <2>2, <3>5 DEF Reuse, With
      <4>2. QED
        BY <1>7, <3>3, <3>4, <4>1 DEF Holes, Heads, Fits
    <3>6. CASE Splits(h, e, cut)
      <4>1. g.next = [b \in Heads(h) \cup {cut} |->
                        CASE b = e   -> cut
                          [] b = cut -> h.next[e]
                          [] OTHER   -> h.next[b]]
        BY <2>2, <3>6 DEF Reuse, With
      <4>2. cut # e /\ Heads(g) = Heads(h) \cup {cut}
        BY <1>1, <3>1, <4>1 DEF HdrSize, Heads
      <4> HIDE DEF cut
      <4>3. /\ g.next[cut] = h.next[e]
            /\ \A a \in Heads(h) : a # e /\ a # cut => g.next[a] = h.next[a]
        BY <4>1, <4>2
      <4>4. ~Fits(g, cut, n)
        BY <1>1, <3>1, <3>2, <4>3 DEF Fits, HdrSize, cut
      <4>5. ASSUME NEW a \in Holes(g), a # cut PROVE ~Fits(g, a, n)
        <5>1. a \in Holes(h) /\ a \in Heads(h) /\ a # e
          BY <3>3, <4>2, <4>5 DEF Holes
        <5>2. QED
          BY <1>7, <4>3, <4>5, <5>1 DEF Fits
      <4>6. QED
        BY <3>4, <4>4, <4>5
    <3>7. QED
      BY <3>5, <3>6
  <2>3. QED
    BY <1>3, <1>7, <2>1, <2>2 DEF Malloc, m
<1>8. CASE h.active /\ size # 0 /\ g # h
  <2>1. ~RoomOnTop(g, n) /\ FirstFit(g, n) = {}
    BY <1>2, <1>7, <1>8 DEF FirstFit
  <2>2. Malloc(g, size) = {[ptr |-> NoBlock, heap |-> g]}
    BY <1>4, <1>8, <2>1 DEF Malloc, n
  <2>3. QED
    BY <2>2
<1>9. QED
  BY <1>5, <1>6, <1>8
=============================================================================
